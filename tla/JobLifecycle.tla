---------------------------- MODULE JobLifecycle ----------------------------
(***************************************************************************)
(* The life of one research job: the API handlers that submit and cancel   *)
(* it (app/api/research.py), the Redis store they share with the worker    *)
(* (app/state/redis_store.py), the arq queue that delivers it, and the     *)
(* runner that executes it (app/worker/runner.py, app/worker/main.py).     *)
(* Every Redis key carries the job_id, so jobs do not interact and one job *)
(* is the whole system.                                                    *)
(*                                                                         *)
(* One action is one Redis command, with the local work up to the next     *)
(* await: that is the grain at which handlers of two tiers interleave.     *)
(* RedisStore.transition is a subroutine of three kinds of process, so its *)
(* read, save, purge and clear are shared actions (pc "t_...").            *)
(***************************************************************************)
EXTENDS JobRecord, FiniteSets

CONSTANTS
  Submit,       \* the POST /research handler
  Cancels,      \* concurrent DELETE /research/{job_id} handlers
  Runners,      \* worker slots that may execute research_job
  UserPat,      \* TRUE: the adapter's auth_mode is USER_PAT
  MaxAttempts,  \* JOB_MAX_ATTEMPTS: record.max_attempts and arq max_tries
  ActionIds,    \* action ids the agent's proposals can get
  MaxSteps,     \* bound: agent steps per attempt
  MaxCrashes,   \* bound: worker deaths
  MaxAborts,    \* bound: Redis errors no handler catches, arq outer timeouts
  MaxStalls,    \* bound: arq in-progress locks that expire under a live run
  LostReplies,  \* TRUE: an enqueue may take effect and still raise
  Expiry        \* the kinds of Redis keys that may reach their TTL

Api == {Submit} \cup Cancels
Procs == Api \cup Runners
NoRunner == "none"
KeyKinds == {"job", "tok", "cancel", "result", "proposal"}

ASSUME ProcessesDistinct ==
  /\ Submit \notin Cancels \cup Runners
  /\ Cancels \cap Runners = {}
  /\ NoRunner \notin Runners
ASSUME AttemptsPositive == MaxAttempts \in Nat \ {0}
ASSUME BoundsNatural ==
  /\ MaxSteps \in Nat
  /\ MaxCrashes \in Nat
  /\ MaxAborts \in Nat
  /\ MaxStalls \in Nat
ASSUME FlagsBoolean ==
  /\ UserPat \in BOOLEAN
  /\ LostReplies \in BOOLEAN
ASSUME ExpiryKinds ==
  /\ Expiry \subseteq KeyKinds
  /\ ActionIds \cap KeyKinds = {}

VARIABLES
  \* Redis
  job,          \* {d}:job:{id}: the record, or Absent
  token,        \* {d}:tok:{id} exists
  cancelFlag,   \* {d}:cancel:{id} exists
  result,       \* {d}:result:{id}: saved or not, and the action ids it lists
  proposals,    \* action ids with a {d}:proposal:{id} key
  \* arq
  entry,        \* the job is in the queue (arq keeps it there until it ends)
  holder,       \* whose delivery set arq's in-progress key
  tries,        \* arq's delivery counter (job_try)
  \* handlers
  pc,           \* where a process is
  rec,          \* its local copy of the record
  to, err,      \* arguments of its transition(): new status, error code
  attempt,      \* a runner's attempt number
  steps,        \* a runner's agent steps in this attempt
  staged,       \* action ids a runner has stored in this attempt
  \* faults so far
  crashes, aborts, stalls,
  \* history
  purgeLost,    \* a transition stopped between its save and its purge
  dropped,      \* arq dropped the job without the runner settling it
  lapsed        \* "result", "cancel", action ids: their key has run out

redis  == <<job, token, cancelFlag, result, proposals>>
arq    == <<entry, holder, tries>>
locals == <<pc, rec, to, err, attempt, steps, staged>>
faults == <<crashes, aborts, stalls, purgeLost, dropped, lapsed>>
vars   == <<redis, arq, locals, faults>>

-----------------------------------------------------------------------------
(* Control points *)

\* RedisStore.transition: before its GET, its SET, and its two DELs.
TransitionPcs == {"t_read", "t_save", "t_purge", "t_clear"}

\* Responses of the API handlers.
SubmitResponses == {"accepted", "rejected", "error"}
CancelResponses == {"cancelled", "requested", "noop", "notfound", "error"}

\* The agent stream, under asyncio.timeout.
StreamPcs == {"agent", "step", "p_read", "p_save"}

SubmitPcs == {"encrypt", "stage", "create", "enqueue", "rollback"}
             \cup TransitionPcs \cup SubmitResponses
CancelPcs == {"idle", "purge", "flag"} \cup TransitionPcs \cup CancelResponses
RunnerPcs == {"idle", "load", "check", "creds", "persist"}
             \cup StreamPcs \cup TransitionPcs

\* Inside the try block of run_research_job.
InTry(w) == \/ pc[w] \in StreamPcs \cup {"creds", "persist"}
            \/ pc[w] \in TransitionPcs /\ to[w] = "completed"

Goto(p, where) == pc' = [pc EXCEPT ![p] = where]

\* Calls RedisStore.transition(job_id, s, error=e).
Call(p, s, e) ==
  /\ Goto(p, "t_read")
  /\ to'  = [to EXCEPT ![p] = s]
  /\ err' = [err EXCEPT ![p] = e]

\* get_result finds no document.
NoResult == [saved |-> FALSE, actions |-> {}]

Init ==
  /\ job = Absent
  /\ token = FALSE
  /\ cancelFlag = FALSE
  /\ result = NoResult
  /\ proposals = {}
  /\ entry = FALSE
  /\ holder = NoRunner
  /\ tries = 0
  /\ pc = [p \in Procs |-> IF p # Submit THEN "idle"
                           ELSE IF UserPat THEN "encrypt" ELSE "create"]
  /\ rec = [p \in Procs |-> Absent]
  /\ to = [p \in Procs |-> "queued"]
  /\ err = [p \in Procs |-> NoError]
  /\ attempt = [p \in Procs |-> NoAttempt]
  /\ steps = [w \in Runners |-> 0]
  /\ staged = [w \in Runners |-> {}]
  /\ crashes = 0
  /\ aborts = 0
  /\ stalls = 0
  /\ purgeLost = FALSE
  /\ dropped = FALSE
  /\ lapsed = {}

-----------------------------------------------------------------------------
(* arq (external): entry, in-progress key and delivery counter *)

\* Mutant: one delivery more than max_tries.
DeliverOnceMore(w) ==
  /\ entry /\ holder = NoRunner /\ tries <= MaxAttempts
  /\ pc[w] = "idle"
  /\ tries' = tries + 1
  /\ holder' = w
  /\ attempt' = [attempt EXCEPT ![w] = tries + 1]
  /\ Goto(w, "load")
  /\ UNCHANGED <<redis, entry, rec, to, err, steps, staged, faults>>

\* A worker takes the job; arq counts the delivery and sets the in-progress key.
Deliver(w) ==
  /\ entry /\ holder = NoRunner /\ tries < MaxAttempts
  /\ pc[w] = "idle"
  /\ tries' = tries + 1
  /\ holder' = w
  /\ attempt' = [attempt EXCEPT ![w] = tries + 1]
  /\ Goto(w, "load")
  /\ UNCHANGED <<redis, entry, rec, to, err, steps, staged, faults>>

\* Past max_tries arq drops the job without calling research_job.
ArqGivesUp ==
  /\ entry /\ holder = NoRunner /\ tries >= MaxAttempts
  /\ entry' = FALSE
  /\ dropped' = TRUE
  /\ UNCHANGED <<redis, holder, tries, locals, crashes, aborts, stalls, purgeLost, lapsed>>

\* research_job returned or raised: arq deletes the entry and the key.
Finish(w) ==
  /\ Goto(w, "idle")
  /\ entry' = FALSE
  /\ holder' = NoRunner
  /\ UNCHANGED <<to, err>>

\* research_job raised Retry: the entry stays and is delivered again.
Redeliver(w) ==
  /\ Goto(w, "idle")
  /\ holder' = NoRunner
  /\ UNCHANGED <<entry, to, err>>

-----------------------------------------------------------------------------
(* run_research_job: how an attempt ends *)

\* Mutant: the last failed attempt is handed back to the queue too.
FunnelAlwaysRetries(w) == Redeliver(w)

\* Mutant: the last failed attempt returns without recording FAILED.
FunnelSwallows(w) == IF attempt[w] < MaxAttempts THEN Redeliver(w) ELSE Finish(w)

\* The failure funnel: retry while attempts remain, else FAILED.
Funnel(w) ==
  IF attempt[w] < MaxAttempts
  THEN Redeliver(w)
  ELSE Call(w, "failed", "INTERNAL_ERROR") /\ UNCHANGED <<entry, holder>>

\* transition() raised InvalidTransition or JobNotFound.
Raise(p) ==
  CASE p \in Api -> Goto(p, "error") /\ UNCHANGED <<entry, holder, to, err>>
    [] p \in Runners /\ to[p] = "completed" -> Funnel(p)
    [] p \in Runners /\ to[p] # "completed" -> Finish(p)

\* transition() returned to its caller.
Return(p) ==
  CASE p = Submit     -> Goto(p, "rejected") /\ UNCHANGED <<entry, holder, to, err>>
    [] p \in Cancels  -> Goto(p, "cancelled") /\ UNCHANGED <<entry, holder, to, err>>
    [] p \in Runners  -> Finish(p)

-----------------------------------------------------------------------------
(* RedisStore.transition, for every caller *)

\* get_job, the two checks, and the in-memory update of the record.
TransitionRead(p) ==
  /\ pc[p] = "t_read"
  /\ \/ /\ MayMove(job.status, to[p])
        /\ rec' = [rec EXCEPT ![p] = Transitioned(job, to[p],
                      IF to[p] = "running" THEN attempt[p] ELSE NoAttempt, err[p])]
        /\ Goto(p, "t_save")
        /\ UNCHANGED <<entry, holder, to, err>>
     \/ /\ ~MayMove(job.status, to[p])
        /\ Raise(p)
        /\ UNCHANGED rec
  /\ UNCHANGED <<redis, tries, attempt, steps, staged, faults>>

\* Mutant: a failed job keeps its token for the TTL to collect.
TransitionSaveKeepsToken(p) ==
  /\ pc[p] = "t_save"
  /\ job' = rec[p]
  /\ Goto(p, CASE to[p] \in {"completed", "cancelled"} -> "t_purge"
               [] to[p] = "failed" -> "t_clear"
               [] OTHER -> "creds")
  /\ UNCHANGED <<token, cancelFlag, result, proposals, arq,
                 rec, to, err, attempt, steps, staged, faults>>

\* save_job: SET with KEEPTTL, whatever the key holds by now.
TransitionSave(p) ==
  /\ pc[p] = "t_save"
  /\ job' = rec[p]
  /\ Goto(p, IF to[p] \in TERMINAL_STATES THEN "t_purge" ELSE "creds")
  /\ UNCHANGED <<token, cancelFlag, result, proposals, arq,
                 rec, to, err, attempt, steps, staged, faults>>

\* Terminal states: purge_token.
TransitionPurge(p) ==
  /\ pc[p] = "t_purge"
  /\ token' = FALSE
  /\ Goto(p, "t_clear")
  /\ UNCHANGED <<job, cancelFlag, result, proposals, arq,
                 rec, to, err, attempt, steps, staged, faults>>

\* Terminal states: delete the cancel flag, and return.
TransitionClear(p) ==
  /\ pc[p] = "t_clear"
  /\ cancelFlag' = FALSE
  /\ Return(p)
  /\ UNCHANGED <<job, token, result, proposals, tries,
                 rec, attempt, steps, staged, faults>>

-----------------------------------------------------------------------------
(* POST /research: submit_research *)

\* vault.encrypt; on TokenVaultError the submit fails closed with 503.
SubmitEncrypt ==
  /\ pc[Submit] = "encrypt"
  /\ Goto(Submit, "stage") \/ Goto(Submit, "rejected")
  /\ UNCHANGED <<redis, arq, rec, to, err, attempt, steps, staged, faults>>

SubmitStage ==
  /\ pc[Submit] = "stage"
  /\ token' = TRUE
  /\ Goto(Submit, "create")
  /\ UNCHANGED <<job, cancelFlag, result, proposals, arq,
                 rec, to, err, attempt, steps, staged, faults>>

SubmitCreate ==
  /\ pc[Submit] = "create"
  /\ job' = NewRecord
  /\ Goto(Submit, "enqueue")
  /\ UNCHANGED <<token, cancelFlag, result, proposals, arq,
                 rec, to, err, attempt, steps, staged, faults>>

\* enqueue_research succeeds, or raises QueueUnavailable; when only the reply
\* was lost, the job is in the queue all the same.
SubmitEnqueue ==
  /\ pc[Submit] = "enqueue"
  /\ \/ entry' = TRUE /\ Goto(Submit, "accepted")
     \/ entry' = LostReplies /\ Goto(Submit, "rollback")
     \/ entry' = FALSE /\ Goto(Submit, "rollback")
  /\ UNCHANGED <<redis, holder, tries, rec, to, err, attempt, steps, staged, faults>>

\* Mutant: the roll-back forgets the record.
SubmitRollbackTokenOnly ==
  /\ pc[Submit] = "rollback"
  /\ token' = FALSE
  /\ Goto(Submit, "rejected")
  /\ UNCHANGED <<job, cancelFlag, result, proposals, arq,
                 rec, to, err, attempt, steps, staged, faults>>

\* Roll-back: purge_token, then transition to FAILED.
SubmitRollback ==
  /\ pc[Submit] = "rollback"
  /\ token' = FALSE
  /\ Call(Submit, "failed", "DEPENDENCY_UNAVAILABLE")
  /\ UNCHANGED <<job, cancelFlag, result, proposals, arq,
                 rec, attempt, steps, staged, faults>>

-----------------------------------------------------------------------------
(* DELETE /research/{job_id}: cancel_research *)

\* _authorized_job: 404 for a missing record and for another principal.
AuthorizedJob == IF job = Absent THEN {FALSE} ELSE {TRUE, FALSE}

\* The record is loaded; cancelling a terminal job is an idempotent no-op.
\* Only a 202 tells a client the job_id.
CancelLoad(c) ==
  /\ pc[c] = "idle"
  /\ pc[Submit] = "accepted"
  /\ rec' = [rec EXCEPT ![c] = job]
  /\ \E authorized \in AuthorizedJob :
       Goto(c, CASE ~authorized -> "notfound"
                 [] authorized /\ job.status \in TERMINAL_STATES -> "noop"
                 [] authorized /\ job.status \notin TERMINAL_STATES -> "purge")
  /\ UNCHANGED <<redis, arq, to, err, attempt, steps, staged, faults>>

\* Mutant: the token is purged only when the job is still queued.
CancelPurgeQueuedOnly(c) ==
  /\ pc[c] = "purge"
  /\ token' = (token /\ rec[c].status # "queued")
  /\ Goto(c, "flag")
  /\ UNCHANGED <<job, cancelFlag, result, proposals, arq,
                 rec, to, err, attempt, steps, staged, faults>>

\* Mutant: for a queued job the purge is left to transition().
CancelPurgeRunningOnly(c) ==
  /\ pc[c] = "purge"
  /\ token' = (token /\ rec[c].status = "queued")
  /\ Goto(c, "flag")
  /\ UNCHANGED <<job, cancelFlag, result, proposals, arq,
                 rec, to, err, attempt, steps, staged, faults>>

CancelPurge(c) ==
  /\ pc[c] = "purge"
  /\ token' = FALSE
  /\ Goto(c, "flag")
  /\ UNCHANGED <<job, cancelFlag, result, proposals, arq,
                 rec, to, err, attempt, steps, staged, faults>>

\* request_cancel; a job that was QUEUED when loaded is finalised here, for a
\* RUNNING one the response says cancel_requested.
CancelFlag(c) ==
  /\ pc[c] = "flag"
  /\ cancelFlag' = TRUE
  /\ \/ rec[c].status = "queued" /\ Call(c, "cancelled", NoError)
     \/ rec[c].status # "queued" /\ Goto(c, "requested") /\ UNCHANGED <<to, err>>
  /\ UNCHANGED <<job, token, result, proposals, arq,
                 rec, attempt, steps, staged, faults>>

-----------------------------------------------------------------------------
(* run_research_job *)

\* Mutant: a redelivered job that is already RUNNING is taken for a duplicate.
RunLoadSkipsRunning(w) ==
  /\ pc[w] = "load"
  /\ rec' = [rec EXCEPT ![w] = job]
  /\ \/ /\ job.status = "queued"
        /\ Goto(w, "check")
        /\ UNCHANGED <<entry, holder, to, err>>
     \/ /\ job.status # "queued"
        /\ Finish(w)
  /\ UNCHANGED <<redis, tries, attempt, steps, staged, faults>>

\* get_job; a missing or terminal record ends the delivery.
RunLoad(w) ==
  /\ pc[w] = "load"
  /\ rec' = [rec EXCEPT ![w] = job]
  /\ \/ /\ job.status \in {"queued", "running"}
        /\ Goto(w, "check")
        /\ UNCHANGED <<entry, holder, to, err>>
     \/ /\ job.status \notin {"queued", "running"}
        /\ Finish(w)
  /\ UNCHANGED <<redis, tries, attempt, steps, staged, faults>>

\* Mutant: the agent starts without the RUNNING transition.
RunCheckCancelNoStart(w) ==
  /\ pc[w] = "check"
  /\ \/ cancelFlag /\ Call(w, "cancelled", NoError)
     \/ ~cancelFlag /\ Goto(w, "creds") /\ UNCHANGED <<to, err>>
  /\ UNCHANGED <<redis, arq, rec, attempt, steps, staged, faults>>

\* is_cancel_requested, then transition to CANCELLED or to RUNNING.
RunCheckCancel(w) ==
  /\ pc[w] = "check"
  /\ Call(w, IF cancelFlag THEN "cancelled" ELSE "running", NoError)
  /\ UNCHANGED <<redis, arq, rec, attempt, steps, staged, faults>>

\* _resolve_job_credentials: a USER_PAT run needs its staged token.  The
\* agent is then built and its stream begins.
RunCreds(w) ==
  /\ pc[w] = "creds"
  /\ \/ /\ UserPat => token
        /\ Goto(w, "agent")
        /\ UNCHANGED <<entry, holder, to, err>>
     \/ /\ UserPat /\ ~token
        /\ Funnel(w)
  /\ steps' = [steps EXCEPT ![w] = 0]
  /\ staged' = [staged EXCEPT ![w] = {}]
  /\ UNCHANGED <<redis, tries, rec, attempt, faults>>

\* The agent yields a state.
AgentStep(w) ==
  /\ pc[w] = "agent" /\ steps[w] < MaxSteps
  /\ steps' = [steps EXCEPT ![w] = @ + 1]
  /\ Goto(w, "step")
  /\ UNCHANGED <<redis, arq, rec, to, err, attempt, staged, faults>>

\* Mutant: the flag is taken when it is seen (GETDEL).
StepCheckCancelTakes(w) ==
  /\ pc[w] = "step"
  /\ cancelFlag' = FALSE
  /\ \/ cancelFlag /\ Call(w, "cancelled", NoError)
     \/ ~cancelFlag /\ Goto(w, "p_read") /\ UNCHANGED <<to, err>>
  /\ UNCHANGED <<job, token, result, proposals, arq, rec, attempt, steps, staged, faults>>

\* is_cancel_requested between steps: JobCancelled leads to CANCELLED.
StepCheckCancel(w) ==
  /\ pc[w] = "step"
  /\ \/ cancelFlag /\ Call(w, "cancelled", NoError)
     \/ ~cancelFlag /\ Goto(w, "p_read") /\ UNCHANGED <<to, err>>
  /\ UNCHANGED <<redis, arq, rec, attempt, steps, staged, faults>>

\* set_progress: get_job (a missing record is skipped) ...
ProgressRead(w) ==
  /\ pc[w] = "p_read"
  /\ rec' = [rec EXCEPT ![w] = job]
  /\ Goto(w, IF job = Absent THEN "agent" ELSE "p_save")
  /\ UNCHANGED <<redis, arq, to, err, attempt, steps, staged, faults>>

\* ... and save_job: the whole record goes back, status included.
ProgressSave(w) ==
  /\ pc[w] = "p_save"
  /\ job' = rec[w]
  /\ Goto(w, "agent")
  /\ UNCHANGED <<token, cancelFlag, result, proposals, arq,
                 rec, to, err, attempt, steps, staged, faults>>

\* The stream ends with a final message (an empty one is a RunnerError).
AgentFinish(w) ==
  /\ pc[w] = "agent" /\ steps[w] > 0
  /\ Goto(w, "persist")
  /\ UNCHANGED <<redis, arq, rec, to, err, attempt, steps, staged, faults>>

\* _persist_proposals: one valid proposal is stored under a fresh id.
PersistProposal(w) ==
  /\ pc[w] = "persist"
  /\ \E a \in ActionIds \ (proposals \cup lapsed) :
       /\ proposals' = proposals \cup {a}
       /\ staged' = [staged EXCEPT ![w] = @ \cup {a}]
  /\ UNCHANGED <<job, token, cancelFlag, result, arq,
                 pc, rec, to, err, attempt, steps, faults>>

\* Mutant: the job is completed without its result document.
SaveResultSkipped(w) ==
  /\ pc[w] = "persist"
  /\ Call(w, "completed", NoError)
  /\ UNCHANGED <<redis, arq, rec, attempt, steps, staged, faults>>

\* save_result, then transition to COMPLETED.
SaveResult(w) ==
  /\ pc[w] = "persist"
  /\ result' = [saved |-> TRUE, actions |-> staged[w]]
  /\ Call(w, "completed", NoError)
  /\ UNCHANGED <<job, token, cancelFlag, proposals, arq,
                 rec, attempt, steps, staged, faults>>

\* asyncio.timeout fires at an await of the stream: FAILED, JOB_TIMEOUT.
TimeoutFires(w) ==
  /\ pc[w] \in StreamPcs
  /\ Call(w, "failed", "JOB_TIMEOUT")
  /\ UNCHANGED <<redis, arq, rec, attempt, steps, staged, faults>>

\* Any other exception inside the try block: model, tool, vault, parse of an
\* empty stream, or Redis.
RunnerError(w) ==
  /\ InTry(w)
  /\ Funnel(w)
  /\ purgeLost' = (purgeLost \/ pc[w] = "t_purge")
  /\ UNCHANGED <<redis, tries, rec, attempt, steps, staged,
                 crashes, aborts, stalls, dropped, lapsed>>

-----------------------------------------------------------------------------
(* Faults *)

\* The worker process dies; arq's in-progress key expires later and the job
\* is delivered again.
Crash(w) ==
  /\ pc[w] # "idle" /\ crashes < MaxCrashes
  /\ crashes' = crashes + 1
  /\ holder' = IF holder = w THEN NoRunner ELSE holder
  /\ purgeLost' = (purgeLost \/ pc[w] = "t_purge")
  /\ Goto(w, "idle")
  /\ UNCHANGED <<redis, entry, tries, rec, to, err, attempt, steps, staged,
                 aborts, stalls, dropped, lapsed>>

\* An exception nothing in the runner catches (Redis failing before the try
\* block or inside an except block), or arq's outer job_timeout, whose
\* CancelledError is no Exception: arq records a failed job and drops it.
RunnerAborts(w) ==
  /\ pc[w] # "idle" /\ aborts < MaxAborts
  /\ aborts' = aborts + 1
  /\ purgeLost' = (purgeLost \/ pc[w] = "t_purge")
  /\ dropped' = TRUE
  /\ Finish(w)
  /\ UNCHANGED <<redis, tries, rec, attempt, steps, staged, crashes, stalls, lapsed>>

\* An API handler dies between two Redis commands (500, or the pod is gone).
ApiAborts(p) ==
  /\ pc[p] \notin {"idle"} \cup SubmitResponses \cup CancelResponses
  /\ aborts < MaxAborts
  /\ aborts' = aborts + 1
  /\ purgeLost' = (purgeLost \/ pc[p] = "t_purge")
  /\ Goto(p, "error")
  /\ UNCHANGED <<redis, arq, rec, to, err, attempt, steps, staged,
                 crashes, stalls, dropped, lapsed>>

\* The in-progress key expires while its run is stalled, not dead.
LockExpires(w) ==
  /\ holder = w /\ stalls < MaxStalls
  /\ stalls' = stalls + 1
  /\ holder' = NoRunner
  /\ UNCHANGED <<redis, entry, tries, locals,
                 crashes, aborts, purgeLost, dropped, lapsed>>

\* TTLs.  The record's TTL runs from submission and ignores the queue wait.
ExpireJob ==
  /\ "job" \in Expiry /\ job # Absent
  /\ job' = Absent
  /\ UNCHANGED <<token, cancelFlag, result, proposals, arq, locals, faults>>

ExpireToken ==
  /\ "tok" \in Expiry /\ token
  /\ token' = FALSE
  /\ UNCHANGED <<job, cancelFlag, result, proposals, arq, locals, faults>>

ExpireFlag ==
  /\ "cancel" \in Expiry /\ cancelFlag
  /\ cancelFlag' = FALSE
  /\ lapsed' = lapsed \cup {"cancel"}
  /\ UNCHANGED <<job, token, result, proposals, arq, locals,
                 crashes, aborts, stalls, purgeLost, dropped>>

ExpireResult ==
  /\ "result" \in Expiry /\ result.saved
  /\ result' = NoResult
  /\ lapsed' = lapsed \cup {"result"}
  /\ UNCHANGED <<job, token, cancelFlag, proposals, arq, locals,
                 crashes, aborts, stalls, purgeLost, dropped>>

\* A proposal is also gone once it was executed or rejected.
ExpireProposal(a) ==
  /\ "proposal" \in Expiry /\ a \in proposals
  /\ proposals' = proposals \ {a}
  /\ lapsed' = lapsed \cup {a}
  /\ UNCHANGED <<job, token, cancelFlag, result, arq, locals,
                 crashes, aborts, stalls, purgeLost, dropped>>

ExpireOther ==
  ExpireFlag \/ ExpireResult \/ \E a \in ActionIds : ExpireProposal(a)

-----------------------------------------------------------------------------
Transition(p) == \/ TransitionRead(p) \/ TransitionSave(p)
                 \/ TransitionPurge(p) \/ TransitionClear(p)

SubmitNext == \/ SubmitEncrypt \/ SubmitStage \/ SubmitCreate
              \/ SubmitEnqueue \/ SubmitRollback
              \/ Transition(Submit)

\* The steps of a cancel that has begun.
CancelNext(c) == CancelPurge(c) \/ CancelFlag(c) \/ Transition(c)

\* The steps of a run that need no fault.
RunnerNext(w) ==
  \/ RunLoad(w) \/ RunCheckCancel(w) \/ RunCreds(w)
  \/ AgentStep(w) \/ StepCheckCancel(w) \/ ProgressRead(w) \/ ProgressSave(w)
  \/ AgentFinish(w) \/ PersistProposal(w) \/ SaveResult(w)
  \/ TimeoutFires(w) \/ RunnerError(w)
  \/ Transition(w)

FaultNext ==
  \/ \E w \in Runners : Crash(w) \/ RunnerAborts(w) \/ LockExpires(w)
  \/ \E p \in Api : ApiAborts(p)
  \/ ExpireJob \/ ExpireToken \/ ExpireOther

Next ==
  \/ SubmitNext
  \/ \E c \in Cancels : CancelLoad(c) \/ CancelNext(c)
  \/ \E w \in Runners : Deliver(w) \/ RunnerNext(w)
  \/ ArqGivesUp
  \/ FaultNext

Spec == Init /\ [][Next]_vars

\* A handler that has begun goes on; arq keeps polling its queue.  Clients
\* need not cancel and faults need not happen.
Fairness ==
  /\ WF_vars(SubmitNext)
  /\ \A c \in Cancels : WF_vars(CancelNext(c))
  /\ \A w \in Runners : WF_vars(RunnerNext(w))
  /\ WF_vars(ArqGivesUp \/ \E w \in Runners : Deliver(w))

FairSpec == Spec /\ Fairness

-----------------------------------------------------------------------------
(* Properties *)

Records == [status : JobStatus \cup {"absent"}, attempt : 0 .. MaxAttempts,
            started : BOOLEAN, finished : BOOLEAN,
            error : JobErrorCode \cup {NoError}]

RedisTypeOK ==
  /\ job \in Records
  /\ token \in BOOLEAN
  /\ cancelFlag \in BOOLEAN
  /\ result \in [saved : BOOLEAN, actions : SUBSET ActionIds]
  /\ proposals \in SUBSET ActionIds

ArqTypeOK ==
  /\ entry \in BOOLEAN
  /\ holder \in Runners \cup {NoRunner}
  /\ tries \in 0 .. MaxAttempts

PcOK(p, where) ==
  \/ p = Submit /\ where \in SubmitPcs
  \/ p \in Cancels /\ where \in CancelPcs
  \/ p \in Runners /\ where \in RunnerPcs

PcTypeOK ==
  /\ pc \in [Procs -> SubmitPcs \cup CancelPcs \cup RunnerPcs]
  /\ \A p \in Procs : PcOK(p, pc[p])

LocalTypeOK ==
  /\ rec \in [Procs -> Records]
  /\ to \in [Procs -> JobStatus]
  /\ err \in [Procs -> JobErrorCode \cup {NoError}]
  /\ attempt \in [Procs -> 0 .. MaxAttempts]
  /\ steps \in [Runners -> 0 .. MaxSteps]
  /\ staged \in [Runners -> SUBSET ActionIds]

FaultTypeOK ==
  /\ crashes \in 0 .. MaxCrashes
  /\ aborts \in 0 .. MaxAborts
  /\ stalls \in 0 .. MaxStalls
  /\ purgeLost \in BOOLEAN
  /\ dropped \in BOOLEAN
  /\ lapsed \in SUBSET (ActionIds \cup {"result", "cancel"})

\* Every variable keeps to its type and every process to its own control
\* points; arq never delivers a job more than JOB_MAX_ATTEMPTS times.
TypeOK == RedisTypeOK /\ ArqTypeOK /\ PcTypeOK /\ LocalTypeOK /\ FaultTypeOK

\* A record whose fields tell one story.
Consistent(r) ==
  /\ r.finished <=> r.status \in TERMINAL_STATES
  /\ r.error # NoError <=> r.status = "failed"
  /\ r.started <=> r.attempt > 0
  /\ r.status \in {"running", "completed"} => r.started
  /\ r.status = "queued" => ~r.started

\* The record in Redis is never a mixture of two writers: finished_at goes
\* with a terminal status, an error with FAILED, started_at with an attempt,
\* although transition() and set_progress() overwrite each other's records.
RecordConsistent == Consistent(job)

\* The result document of a job is saved before its record says COMPLETED,
\* and the actions that document offers are stored before it, whichever of
\* two deliveries saved last: what is missing of a completed job has run out.
CompletedHasResult ==
  job.status = "completed" =>
    /\ result.saved \/ "result" \in lapsed
    /\ result.actions \subseteq proposals \cup lapsed

\* The staged token is gone once the record is terminal, save in the window
\* between transition()'s SET and its purge, or when that window was cut
\* short by a fault (the case the token's TTL is there for).
TokenPurgedWhenTerminal ==
  job.status \in TERMINAL_STATES /\ token =>
    purgeLost \/ \E p \in Procs : pc[p] = "t_purge"

\* Once a cancel has been answered 200 with the job cancelled or
\* cancel_requested, the token is gone and no step brings it back.
AckedCancelPurged ==
  (\E c \in Cancels : pc[c] \in {"cancelled", "requested"}) => ~token

\* A cancel answered 500 because another one, or the worker, had settled the
\* job first (InvalidTransition, JobNotFound) did its work all the same: the
\* token is gone and the job does not wait to run.
FailedCancelHarmless ==
  aborts = 0 /\ (\E c \in Cancels : pc[c] = "error") =>
    ~token /\ job.status # "queued"

\* A job that left the queue is never QUEUED again, however stale the record
\* that set_progress() or transition() writes back.
NeverRequeued ==
  [][job.status # "queued" /\ pc[Submit] # "create" => job'.status # "queued"]_vars

\* When no worker will look at an accepted job again, its record is terminal
\* (or expired): the runner never gives a job up unsettled.  A job arq itself
\* dropped is the exception, and so is one whose in-progress key expired.
JobNotOrphaned ==
  /\ pc[Submit] = "accepted" /\ ~entry
  /\ \A w \in Runners : pc[w] = "idle"
  /\ ~dropped /\ stalls = 0
  => job.status \in TERMINAL_STATES \cup {"absent"}

\* arq only drops a job after a fault: as long as every delivery of
\* research_job returns or raises, the job is settled by the runner.
DropNeedsFault == dropped => crashes + aborts + stalls > 0

\* An accepted job ends up in a terminal state and stays there, whatever
\* cancels, errors, timeouts and worker deaths interfere, unless arq drops it.
SettlesUnlessDropped ==
  pc[Submit] = "accepted" ~> [](job.status \in TERMINAL_STATES \/ dropped)

\* A rejected submit (503) leaves no token and no job that waits to run.
RejectedLeavesNothing ==
  pc[Submit] = "rejected" => ~token /\ job.status \in {"absent", "failed"}

\* The documented promise about a failing Redis, that a job is fully staged or
\* rejected: a submit that ends in an error leaves no token and no record that
\* waits for a worker.
NoHalfState == pc[Submit] = "error" => ~token /\ job.status # "queued"

\* The documented promise that a terminal transition purges the cancel flag:
\* once the record is terminal and no transition is about to delete the flag,
\* there is none.
FlagGoneWhenTerminal ==
  job.status \in TERMINAL_STATES /\ cancelFlag =>
    \E p \in Procs : pc[p] \in {"t_purge", "t_clear"}

\* The documented promise that an accepted job always ends: attempts cap at
\* JOB_MAX_ATTEMPTS, then the job is failed with a diagnostic.
JobSettles ==
  pc[Submit] = "accepted" ~> [](job.status \in TERMINAL_STATES)

\* The API tier writes the record too: it cancels a job it loaded as queued,
\* or rolls a submit back; or two deliveries are alive.
SecondWriter == stalls > 0 \/ \E p \in Api : to[p] # "queued"

\* The record only moves along the arrows of the documented state diagram as
\* long as one process writes it, through every crash, retry, time-out and
\* cancel request; a second writer may overwrite a status, but never brings
\* the job back to queued or makes it vanish.
StateMachine == INSTANCE JobStateMachine
                WITH status <- job.status, contended <- SecondWriter
FollowsStateMachine == StateMachine!Spec

\* The documented promise that terminal states have no way out: a queued job
\* is cancelled on the spot, and nothing overwrites that.
TerminalIsFinal ==
  [][job.status \in TERMINAL_STATES => job'.status = job.status]_vars

=============================================================================
