--------------------------- MODULE JobStateMachine ---------------------------
(***************************************************************************)
(* The abstract job lifecycle: the state diagram at the head of            *)
(* app/state/redis_store.py.  A job moves along its arrows; the one step   *)
(* the diagram does not draw is Overwrite, which takes a second writer.    *)
(* "absent" is the state before the first write.                           *)
(***************************************************************************)
VARIABLES
  status,      \* the status of the stored record
  contended    \* two processes may be writing the record

Init == status = "absent" /\ contended = FALSE

\* POST /research writes the record.
Create == status = "absent" /\ status' = "queued"

\* A worker picks the job up, or re-enters it after a worker death.
Start == status \in {"queued", "running"} /\ status' = "running"

\* The agent's findings are in.
Complete == status = "running" /\ status' = "completed"

\* Error cap, time budget, or the roll-back of a submit.
Fail == status \in {"queued", "running"} /\ status' = "failed"

\* The consumer withdrew the job.
Cancel == status \in {"queued", "running"} /\ status' = "cancelled"

\* A writer that read the record before the other one saved it puts its own
\* status over it: any but the first.
Overwrite ==
  /\ contended /\ status # "absent"
  /\ status' \in {"running", "completed", "failed", "cancelled"}

Next == Create \/ Start \/ Complete \/ Fail \/ Cancel \/ Overwrite

Spec == Init /\ [][Next]_status

=============================================================================
