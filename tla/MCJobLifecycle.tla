--------------------------- MODULE MCJobLifecycle ---------------------------
(***************************************************************************)
(* Small instances of JobLifecycle for TLC.                                *)
(***************************************************************************)
EXTENDS JobLifecycle, TLC

\* Cancels and runners are interchangeable: no property names one.
Symmetry == Permutations(Runners) \cup Permutations(Cancels)

\* Local variables where some action may still read them before it sets them
\* again: a loaded record, the arguments of transition(), the attempt of a
\* delivery, its steps, its stored actions.  States that differ in others have
\* the same future.
ReadsRecord    == {"purge", "flag", "t_save", "p_save"}
Live(v, where) == [p \in DOMAIN v |-> IF pc[p] \in where THEN v[p] ELSE "dead"]
View == <<redis, arq, pc, faults,
          Live(rec, ReadsRecord), Live(to, TransitionPcs), Live(err, {"t_read"}),
          Live(attempt, RunnerPcs \ {"idle"}),
          Live(steps, StreamPcs), Live(staged, {"persist"})>>
=============================================================================
