----------------------------- MODULE Retention -----------------------------
(***************************************************************************)
(* How long Redis keeps what one research job leaves there.  Every key of  *)
(* app/state/redis_store.py has a TTL counted from the moment it is        *)
(* written, while the job may wait: for a worker, for the retry arq defers *)
(* (app/worker/main.py), for the redelivery after a crash.  Time is a      *)
(* clock; JobLifecycle has the interleavings, which are coarser here: a    *)
(* step is what a process does at one moment, and only the GET and the SET *)
(* of a record are kept apart, because the key can expire between them.    *)
(***************************************************************************)
EXTENDS Integers

CONSTANTS
  ResultTtl, ProposalTtl, IdempotencyTtl,   \* the TTLs of app/config.py
  JobTimeout, MaxAttempts,                  \* JOB_TIMEOUT_S, JOB_MAX_ATTEMPTS
  TokenSlack,   \* 120 in stage_token
  MaxDefer,     \* 30 in research_job
  Horizon       \* bound: the last moment of the clock

ASSUME DurationsPositive ==
  {ResultTtl, ProposalTtl, IdempotencyTtl, JobTimeout, MaxAttempts} \subseteq Nat \ {0}
ASSUME SlackNatural == TokenSlack \in Nat /\ MaxDefer \in Nat /\ Horizon \in Nat

VARIABLES
  now,        \* the clock
  expires,    \* when each key expires; 0 when it is not there
  immortal,   \* the job key was written without a TTL
  phase,      \* where the job is
  attempt,    \* arq's job_try
  notBefore,  \* the moment arq may deliver it again
  spent,      \* time of this attempt under asyncio.timeout
  worked,     \* that time over all attempts
  waited,     \* all other time from staging to the end of the job
  cancelled,  \* a cancel was answered cancel_requested
  expiresAt,  \* expires_at inside the stored proposal
  recorded    \* an execution of the proposal has been recorded

keys  == <<expires, immortal>>
times == <<spent, worked, waited>>
notes == <<cancelled, expiresAt, recorded>>
vars  == <<now, keys, phase, attempt, notBefore, times, notes>>

Keys == {"job", "result", "tok", "cancel", "proposal", "idem"}

Budget == JobTimeout * MaxAttempts

\* Mutant: retries are forgotten.
JobTtlOneAttempt == ResultTtl + JobTimeout

\* RedisStore._job_ttl
JobTtl == ResultTtl + Budget

\* Mutant: retries are forgotten.
TokenTtlOneAttempt == JobTimeout + TokenSlack

\* The TTL of stage_token.
TokenTtl == Budget + TokenSlack

Exists(k) == now < expires[k] \/ (k = "job" /\ immortal)

\* SET k EX ttl, and DEL k.
Put(f, k, ttl) == [f EXCEPT ![k] = now + ttl]
Del(f, k) == [f EXCEPT ![k] = 0]

\* asyncio.timeout is running.
Streaming == {"stream", "p_save"}
\* A worker holds the job.
Running == Streaming \cup {"start", "creds", "persist", "complete", "settle", "end_save"}
\* The job is not over.
Live == Running \cup {"queued"}
Phases == Live \cup {"new", "staged", "over"}

Init ==
  /\ now = 0
  /\ expires = [k \in Keys |-> 0]
  /\ immortal = FALSE
  /\ phase = "new"
  /\ attempt = 0
  /\ notBefore = 0
  /\ spent = 0
  /\ worked = 0
  /\ waited = 0
  /\ cancelled = FALSE
  /\ expiresAt = 0
  /\ recorded = FALSE

\* Mutant: the stream runs without asyncio.timeout.
InBudgetAlways == TRUE

\* asyncio.timeout ends a stream that has used its budget.
InBudget == spent < JobTimeout

\* Time passes.
Tick ==
  /\ now < Horizon
  /\ now' = now + 1
  /\ \/ /\ phase \in Streaming /\ InBudget
        /\ spent' = spent + 1
        /\ worked' = worked + 1
        /\ UNCHANGED waited
     \/ /\ phase \in (Live \ Streaming) \cup {"staged"}
        /\ waited' = waited + 1
        /\ UNCHANGED <<spent, worked>>
     \/ /\ phase \in {"new", "over"}
        /\ UNCHANGED times
  /\ UNCHANGED <<keys, phase, attempt, notBefore, notes>>

-----------------------------------------------------------------------------
(* POST and DELETE /research *)

StageToken ==
  /\ phase = "new"
  /\ expires' = Put(expires, "tok", TokenTtl)
  /\ phase' = "staged"
  /\ UNCHANGED <<now, immortal, attempt, notBefore, times, notes>>

\* create_job and enqueue_research.
CreateJob ==
  /\ phase = "staged"
  /\ expires' = Put(expires, "job", JobTtl)
  /\ phase' = "queued"
  /\ UNCHANGED <<now, immortal, attempt, notBefore, times, notes>>

\* Mutant: the flag lives for one attempt.
RequestCancelBriefly == Put(Del(expires, "tok"), "cancel", JobTimeout)

\* purge_token and request_cancel.
RequestCancel == Put(Del(expires, "tok"), "cancel", JobTtl)

\* A queued job is finalised, its flag and token deleted; for a running one
\* the flag is set.  (One that is just being picked up is in JobLifecycle.)
Cancel ==
  /\ Exists("job")
  /\ \/ /\ phase = "queued" /\ attempt = 0
        /\ expires' = Del(expires, "tok")
        /\ phase' = "over"
        /\ UNCHANGED cancelled
     \/ /\ phase \in Live /\ attempt > 0 /\ phase # "start"
        /\ expires' = RequestCancel
        /\ cancelled' = TRUE
        /\ UNCHANGED phase
  /\ UNCHANGED <<now, immortal, attempt, notBefore, times, expiresAt, recorded>>

-----------------------------------------------------------------------------
(* research_job *)

\* arq delivers; a record that is gone ends the delivery and the job (so does
\* a terminal one, which here is a job that is over), and a cancel flag leads
\* straight to CANCELLED.
Deliver ==
  /\ phase = "queued" /\ now >= notBefore /\ attempt < MaxAttempts
  /\ attempt' = attempt + 1
  /\ phase' = IF ~Exists("job") THEN "over"
              ELSE IF Exists("cancel") THEN "settle" ELSE "start"
  /\ spent' = 0
  /\ UNCHANGED <<now, keys, notBefore, worked, waited, notes>>

\* Mutant: a save restarts the TTL, with the result's.
SaveJobAnew == expires' = Put(expires, "job", ResultTtl) /\ UNCHANGED immortal

\* save_job: SET with KEEPTTL, which finds no TTL to keep on a key that is gone.
SaveJob == immortal' = (immortal \/ ~Exists("job")) /\ UNCHANGED expires

\* transition() to RUNNING has read the record; it writes it back.
Start ==
  /\ phase = "start"
  /\ SaveJob
  /\ phase' = "creds"
  /\ UNCHANGED <<now, attempt, notBefore, times, notes>>

\* min(2**attempt, 30)
Defer == IF 2 ^ attempt \in 0 .. MaxDefer THEN 2 ^ attempt ELSE MaxDefer

\* The failure funnel: arq's Retry, or FAILED.
Funnel ==
  \/ attempt < MaxAttempts /\ phase' = "queued" /\ notBefore' = now + Defer
  \/ attempt >= MaxAttempts /\ phase' = "settle" /\ UNCHANGED notBefore

\* load_token; without one the attempt fails.
Creds ==
  /\ phase = "creds"
  /\ \/ Exists("tok") /\ phase' = "stream" /\ UNCHANGED notBefore
     \/ ~Exists("tok") /\ Funnel
  /\ UNCHANGED <<now, keys, attempt, times, notes>>

\* set_progress: its GET, and its SET.
Progress ==
  /\ \/ phase = "stream" /\ Exists("job") /\ phase' = "p_save" /\ UNCHANGED keys
     \/ phase = "p_save" /\ SaveJob /\ phase' = "stream"
  /\ UNCHANGED <<now, attempt, notBefore, times, notes>>

\* The stream ends: with a final message, by the flag, or by the time-out.
EndStream ==
  /\ phase = "stream"
  /\ \/ phase' = "persist"
     \/ Exists("cancel") /\ phase' = "settle"
     \/ spent = JobTimeout /\ phase' = "settle"
  /\ UNCHANGED <<now, keys, attempt, notBefore, times, notes>>

\* An exception in the try block, or the death of the worker.
Fail ==
  /\ \/ phase \in Streaming \cup {"creds", "persist"} /\ Funnel
     \/ phase \in Running /\ phase' = "queued" /\ UNCHANGED notBefore
  /\ UNCHANGED <<now, keys, attempt, times, notes>>

\* _persist_proposals and save_result.
Persist ==
  /\ phase = "persist"
  /\ expires' = Put(Put(expires, "proposal", ProposalTtl), "result", ResultTtl)
  /\ expiresAt' = now + ProposalTtl
  /\ phase' = "complete"
  /\ UNCHANGED <<now, immortal, attempt, notBefore, times, cancelled, recorded>>

\* The terminal transition: get_job, whose JobNotFound ends the job, or for
\* COMPLETED goes to the funnel; then save_job and the two DELs.
EndRead ==
  /\ \/ phase \in {"complete", "settle"} /\ Exists("job") /\ phase' = "end_save" /\ UNCHANGED notBefore
     \/ phase = "complete" /\ ~Exists("job") /\ Funnel
     \/ phase = "settle" /\ ~Exists("job") /\ phase' = "over" /\ UNCHANGED notBefore
  /\ UNCHANGED <<now, keys, attempt, times, notes>>

EndSave ==
  /\ phase = "end_save"
  /\ immortal' = (immortal \/ ~Exists("job"))
  /\ expires' = Del(Del(expires, "tok"), "cancel")
  /\ phase' = "over"
  /\ UNCHANGED <<now, attempt, notBefore, times, notes>>

-----------------------------------------------------------------------------
(* POST /execute with one Idempotency-Key *)

\* The load finds a proposal that has not passed its expires_at.
Loadable == Exists("proposal") /\ now < expiresAt

\* Mutant: the outcome is kept as long as an attempt may take.
PutIdempotencyBriefly == Put(expires, "idem", JobTimeout)

PutIdempotency == Put(expires, "idem", IdempotencyTtl)

\* Nothing to replay: the mutation, and put_idempotency.
Execute ==
  /\ phase = "over" /\ ~Exists("idem") /\ Loadable
  /\ expires' = PutIdempotency
  /\ recorded' = TRUE
  /\ UNCHANGED <<now, immortal, phase, attempt, notBefore, times, cancelled, expiresAt>>

\* delete_proposal, which a handler that died never gets to.
Consume ==
  /\ recorded
  /\ expires' = Del(expires, "proposal")
  /\ UNCHANGED <<now, immortal, phase, attempt, notBefore, times, notes>>

Next ==
  \/ Tick
  \/ StageToken \/ CreateJob \/ Cancel
  \/ Deliver \/ Start \/ Creds \/ Progress \/ EndStream \/ Fail
  \/ Persist \/ EndRead \/ EndSave
  \/ Execute \/ Consume

Spec == Init /\ [][Next]_vars

-----------------------------------------------------------------------------
(* Properties *)

\* Every variable keeps to its type; in particular no attempt streams longer
\* than JOB_TIMEOUT_S.
TypeOK ==
  /\ now \in Nat
  /\ expires \in [Keys -> Nat]
  /\ immortal \in BOOLEAN
  /\ phase \in Phases
  /\ attempt \in 0 .. MaxAttempts
  /\ notBefore \in Nat
  /\ spent \in 0 .. JobTimeout
  /\ worked \in Nat
  /\ waited \in Nat
  /\ cancelled \in BOOLEAN
  /\ expiresAt \in Nat
  /\ recorded \in BOOLEAN

\* The record does not expire under a job, nor does a save make it immortal,
\* as long as the job has waited less than RESULT_TTL_S: in the queue, for
\* deferred retries and for redeliveries, none of which its TTL counts.
RecordLastsJob ==
  phase \in Live /\ waited < ResultTtl => Exists("job") /\ ~immortal

\* A run finds its staged token, unless a cancel purged it or the job has
\* waited for the 120 seconds stage_token adds to the time budget.
TokenLastsJob ==
  phase \in Live /\ waited < TokenSlack /\ ~cancelled => Exists("tok")

\* A cancel that was answered cancel_requested is seen at the next step of the
\* run: its flag does not expire under the job.
FlagLastsJob ==
  phase \in Live /\ waited < ResultTtl /\ cancelled => Exists("cancel")

\* The documented promise of _job_ttl, that jobs outlive their result: a poll
\* never answers 404 while the result is still readable.
RecordOutlivesResult == Exists("result") => Exists("job")

\* How far that promise is missed: a result outlives the record of its job by
\* less than the time the job has waited, in the queue, between attempts and
\* around the streams, so that a job that never waits keeps it.
OutlivedByTheWait ==
  Exists("result") /\ ~Exists("job") => now < expires["job"] + waited

\* As long as an executed proposal can be loaded again, because its handler
\* died before delete_proposal, a retry is answered from the idempotency
\* record, provided IDEMPOTENCY_TTL_S is no shorter than PROPOSAL_TTL_S.
ReplayOutlivesProposal ==
  IdempotencyTtl >= ProposalTtl /\ recorded /\ Loadable => Exists("idem")

=============================================================================
