------------------------------ MODULE JobRecord ------------------------------
(***************************************************************************)
(* The research-job record of app/models/schemas.py and the pure part of   *)
(* RedisStore.transition (app/state/redis_store.py): which status may      *)
(* follow which, and how one transition rewrites the record.  Timestamps   *)
(* are kept as "has been set"; task, consumer and correlation fields are   *)
(* never changed after submission and are left out.                        *)
(***************************************************************************)
EXTENDS Naturals

JobStatus == {"queued", "running", "completed", "failed", "cancelled"}

TERMINAL_STATES == {"completed", "failed", "cancelled"}

NoError == "none"

\* The error codes a job record can carry.
JobErrorCode == {"JOB_TIMEOUT", "DEPENDENCY_UNAVAILABLE", "INTERNAL_ERROR"}

\* attempt=None of transition(); queue attempts count from 1.
NoAttempt == 0

\* A freshly submitted record (the defaults of JobRecord).
NewRecord == [status |-> "queued", attempt |-> 0, started |-> FALSE,
              finished |-> FALSE, error |-> NoError]

\* What get_job returns None for: the key was never written or has expired.
Absent == [status |-> "absent", attempt |-> 0, started |-> FALSE,
           finished |-> FALSE, error |-> NoError]

\* Mutant: FAILED is allowed after COMPLETED.
MayMoveAfterCompletion(from, to) ==
  \/ from = "queued"    /\ to \in {"running", "cancelled", "failed"}
  \/ from = "running"   /\ to \in {"running", "completed", "failed", "cancelled"}
  \/ from = "completed" /\ to = "failed"

\* _ALLOWED_TRANSITIONS: terminal states allow nothing.
MayMove(from, to) ==
  \/ from = "queued"  /\ to \in {"running", "cancelled", "failed"}
  \/ from = "running" /\ to \in {"running", "completed", "failed", "cancelled"}

\* Mutant: finished_at is stamped on completion only.
TransitionedNoFinish(r, to, attempt, error) ==
  [status   |-> to,
   attempt  |-> IF attempt # NoAttempt THEN attempt ELSE r.attempt,
   started  |-> r.started \/ to = "running",
   finished |-> r.finished \/ to = "completed",
   error    |-> IF error # NoError THEN error ELSE r.error]

\* The record transition() writes back, given the record r it read.
Transitioned(r, to, attempt, error) ==
  [status   |-> to,
   attempt  |-> IF attempt # NoAttempt THEN attempt ELSE r.attempt,
   started  |-> r.started \/ to = "running",
   finished |-> r.finished \/ to \in TERMINAL_STATES,
   error    |-> IF error # NoError THEN error ELSE r.error]

=============================================================================
