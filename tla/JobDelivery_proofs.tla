------------------------- MODULE JobDelivery_proofs -------------------------
(***************************************************************************)
(* Who may write the job record, and what is left when nobody will any     *)
(* more: the delivery of one job by arq, for every number of cancels,      *)
(* runners, attempts and faults.  The actions of JobLifecycle are sorted   *)
(* by what they do to the record, the queue and the control points; the    *)
(* invariants are then proved kind by kind.                                *)
(***************************************************************************)
EXTENDS JobLifecycle_proofs

Ended == TERMINAL_STATES \cup {"absent"}
counters == <<crashes, aborts, stalls>>

(***************************************************************************)
(* The kinds of step.                                                      *)
(***************************************************************************)

\* Only p goes on.
Only(p) ==
  \A q \in Procs \ {p} : /\ pc'[q] = pc[q] /\ to'[q] = to[q]
                         /\ rec'[q] = rec[q] /\ attempt'[q] = attempt[q]

\* A run goes on without touching record or queue.  What it is about to
\* write, if it is, it has just read.
RunnerStays(w) ==
  /\ Only(w) /\ pc[w] # "idle" /\ pc'[w] \notin {"idle", "t_purge"}
  /\ pc'[w] = "t_clear" => pc[w] = "t_purge"
  /\ pc'[w] = "t_save" =>
       /\ MayMove(job.status, to'[w]) /\ rec'[w].status = to'[w]
       /\ rec'[w].attempt = IF to'[w] = "running" THEN attempt[w] ELSE job.attempt
  /\ pc'[w] = "p_save" => job # Absent /\ rec'[w] = job
  /\ UNCHANGED <<job, cancelFlag, arq, attempt, counters, dropped>>

\* transition() or set_progress() of a run saves the record.
RunnerWrites(w) ==
  /\ Only(w) /\ job' = rec[w]
  /\ \/ pc[w] = "t_save" /\ to[w] \in TERMINAL_STATES /\ pc'[w] = "t_purge"
     \/ pc[w] = "t_save" /\ to[w] \notin TERMINAL_STATES /\ pc'[w] = "creds"
     \/ pc[w] = "p_save" /\ pc'[w] = "agent"
  /\ UNCHANGED <<cancelFlag, arq, to, rec, attempt, counters, dropped>>

\* The attempt failed and is not the last: arq keeps the entry.
RunnerRetries(w) ==
  /\ Only(w) /\ pc[w] # "idle" /\ pc'[w] = "idle"
  /\ attempt[w] < MaxAttempts /\ holder' = NoRunner
  /\ UNCHANGED <<job, cancelFlag, entry, tries, attempt, counters, dropped>>

\* research_job is over for good: it found the job settled, or settled it.
RunnerEnds(w) ==
  /\ Only(w) /\ pc[w] # "idle" /\ pc'[w] = "idle"
  /\ job.status \in Ended \/ pc[w] = "t_clear"
  /\ cancelFlag' = cancelFlag \/ pc[w] = "t_clear"
  /\ entry' = FALSE /\ holder' = NoRunner
  /\ UNCHANGED <<job, tries, attempt, counters, dropped>>

\* Where a submit has written its record, and where nobody knows of the job.
Created == {"enqueue", "rollback", "accepted"} \cup TransitionPcs
Unknown == {"encrypt", "stage", "create", "enqueue"}

\* A handler of the API goes on, or dies, without touching record or queue.
ApiMoves(p) ==
  /\ Only(p) /\ pc[p] \notin SubmitResponses \cup CancelResponses
  /\ p \in Cancels => /\ pc[p] # "idle" \/ pc[Submit] = "accepted"
                      /\ pc'[p] = "requested" => cancelFlag'
  /\ p = Submit => /\ pc'[p] # "accepted"
                   /\ pc'[p] \in Created => pc[p] \in Created
                   /\ pc'[p] \in Unknown => pc[p] \in Unknown
  /\ to'[p] # "queued" \/ to'[p] = to[p]
  /\ cancelFlag => cancelFlag' \/ to[p] # "queued"
  /\ aborts' \in {aborts, aborts + 1}
  /\ UNCHANGED <<job, arq, attempt, crashes, stalls, dropped>>

\* transition() of a handler of the API saves the record.
ApiWrites(p) ==
  /\ Only(p) /\ pc[p] = "t_save" /\ job' = rec[p] /\ pc'[p] = "t_purge"
  /\ UNCHANGED <<cancelFlag, arq, to, rec, attempt, counters, dropped>>

-----------------------------------------------------------------------------
\* A step of transition() by a run is of one of the runner's kinds.
LEMMA RunnerTransition ==
  ASSUME IInv, NEW w \in Runners, Transition(w)
  PROVE  RunnerStays(w) \/ RunnerWrites(w) \/ RunnerRetries(w) \/ RunnerEnds(w)
<1> USE ProcsFacts
<1> USE DEF IInv, TypeOK, PcTypeOK, LocalTypeOK, Only, redis, arq, locals, faults, counters
<1>1. CASE TransitionRead(w)
  <2>1. CASE MayMove(job.status, to[w])
    <3>1. /\ pc[w] = "t_read" /\ Goto(w, "t_save")
          /\ UNCHANGED <<redis, arq, to, attempt, faults>>
          /\ rec' = [rec EXCEPT ![w] = Transitioned(job, to[w],
                       IF to[w] = "running" THEN attempt[w] ELSE NoAttempt, err[w])]
      BY <1>1, <2>1 DEF TransitionRead
    <3>2. /\ rec'[w].status = to[w]
          /\ rec'[w].attempt = IF to[w] = "running" THEN attempt[w] ELSE job.attempt
      <4>1. to[w] = "running" => attempt[w] # NoAttempt
        BY <3>1 DEF CallInv, TransitionPcs, NoAttempt
      <4>2. rec'[w] = Transitioned(job, to[w],
                        IF to[w] = "running" THEN attempt[w] ELSE NoAttempt, err[w])
        BY <3>1
      <4>3. QED
        BY <4>1, <4>2 DEF Transitioned
    <3>3. QED
      BY <2>1, <3>1, <3>2 DEF Goto, RunnerStays
  <2>2. CASE ~MayMove(job.status, to[w]) /\ to[w] = "completed"
    <3>1. CASE attempt[w] < MaxAttempts
      BY <1>1, <2>2, <3>1 DEF TransitionRead, Raise, Funnel, Redeliver, Goto, RunnerRetries
    <3>2. CASE ~(attempt[w] < MaxAttempts)
      BY <1>1, <2>2, <3>2 DEF TransitionRead, Raise, Funnel, Call, Goto, RunnerStays
    <3>3. QED
      BY <3>1, <3>2
  <2>3. CASE ~MayMove(job.status, to[w]) /\ to[w] # "completed"
    <3>1. job.status \in Ended
      <4>1. to[w] \in {"running", "failed", "cancelled"}
        BY <1>1, <2>3 DEF TransitionRead, CallInv, TransitionPcs, JobStatus
      <4>2. job.status \notin {"queued", "running"}
        BY <2>3, <4>1 DEF MayMove
      <4>3. job.status \in JobStatus \cup {"absent"}
        BY DEF RedisTypeOK, Records
      <4>4. QED
        BY <4>2, <4>3 DEF Ended, JobStatus, TERMINAL_STATES
    <3>2. QED
      BY <1>1, <2>3, <3>1 DEF TransitionRead, Raise, Finish, Goto, RunnerEnds
  <2>4. QED
    BY <2>1, <2>2, <2>3
<1>2. CASE TransitionSave(w)
  BY <1>2 DEF TransitionSave, Goto, RunnerWrites
<1>3. CASE TransitionPurge(w)
  BY <1>3 DEF TransitionPurge, Goto, RunnerStays
<1>4. CASE TransitionClear(w)
  BY <1>4 DEF TransitionClear, Return, Finish, Goto, RunnerEnds
<1>5. QED
  BY <1>1, <1>2, <1>3, <1>4 DEF Transition

\* So is every other step of a run that no fault forces.
LEMMA RunnerKinds ==
  ASSUME IInv, NEW w \in Runners, RunnerNext(w)
  PROVE  RunnerStays(w) \/ RunnerWrites(w) \/ RunnerRetries(w) \/ RunnerEnds(w)
<1> USE ProcsFacts
<1> USE DEF IInv, TypeOK, PcTypeOK, LocalTypeOK, Only, redis, arq, locals, faults, counters
<1>1. CASE RunLoad(w)
  <2>1. job.status \notin {"queued", "running"} => job.status \in Ended
    BY DEF RedisTypeOK, Records, Ended, JobStatus, TERMINAL_STATES
  <2>2. QED
    BY <1>1, <2>1 DEF RunLoad, Finish, Goto, RunnerStays, RunnerEnds
<1>2. CASE RunCheckCancel(w) \/ StepCheckCancel(w) \/ SaveResult(w)
  BY <1>2 DEF RunCheckCancel, StepCheckCancel, SaveResult, Call, Goto, RunnerStays
<1>3. CASE RunCreds(w)
  <2>1. CASE attempt[w] < MaxAttempts
    BY <1>3, <2>1 DEF RunCreds, Funnel, Redeliver, Goto, RunnerStays, RunnerRetries
  <2>2. CASE ~(attempt[w] < MaxAttempts)
    BY <1>3, <2>2 DEF RunCreds, Funnel, Call, Goto, RunnerStays
  <2>3. QED
    BY <2>1, <2>2
<1>4. CASE AgentStep(w) \/ AgentFinish(w) \/ PersistProposal(w)
  BY <1>4 DEF AgentStep, AgentFinish, PersistProposal, Goto, RunnerStays
<1>5. CASE ProgressRead(w)
  BY <1>5 DEF ProgressRead, Goto, RunnerStays
<1>6. CASE ProgressSave(w)
  BY <1>6 DEF ProgressSave, Goto, RunnerWrites
<1>7. CASE TimeoutFires(w)
  BY <1>7 DEF TimeoutFires, StreamPcs, Call, Goto, RunnerStays
<1>8. CASE RunnerError(w)
  <2>1. pc[w] # "idle"
    BY <1>8 DEF RunnerError, InTry, StreamPcs, TransitionPcs
  <2>2. CASE attempt[w] < MaxAttempts
    BY <1>8, <2>1, <2>2 DEF RunnerError, Funnel, Redeliver, Goto, RunnerRetries
  <2>3. CASE ~(attempt[w] < MaxAttempts)
    BY <1>8, <2>1, <2>3 DEF RunnerError, Funnel, Call, Goto, RunnerStays
  <2>4. QED
    BY <2>2, <2>3
<1>9. QED
  BY <1>1, <1>2, <1>3, <1>4, <1>5, <1>6, <1>7, <1>8, RunnerTransition DEF RunnerNext

\* And the steps of cancels, of transition() in the API and of a dying handler.
LEMMA ApiKinds ==
  ASSUME IInv, NEW p \in Api,
         \/ p \in Cancels /\ (CancelLoad(p) \/ CancelPurge(p) \/ CancelFlag(p))
         \/ p = Submit /\ (SubmitEncrypt \/ SubmitStage \/ SubmitRollback)
         \/ Transition(p) \/ ApiAborts(p)
  PROVE  ApiMoves(p) \/ ApiWrites(p)
<1> USE ProcsFacts
<1> USE DEF IInv, TypeOK, PcTypeOK, LocalTypeOK, Only, redis, arq, locals, faults, counters
<1>1. CASE p \in Cancels /\ (CancelLoad(p) \/ CancelPurge(p) \/ CancelFlag(p))
  BY <1>1 DEF CancelLoad, CancelPurge, CancelFlag, Call, Goto, ApiMoves, SubmitResponses,
              CancelResponses
<1>2. CASE p = Submit /\ (SubmitEncrypt \/ SubmitStage \/ SubmitRollback)
  BY <1>2 DEF SubmitEncrypt, SubmitStage, SubmitRollback, Call, Goto, ApiMoves, Created,
              Unknown, TransitionPcs,
              SubmitResponses, CancelResponses, CallInv
<1>3. CASE TransitionRead(p)
  BY <1>3 DEF TransitionRead, Raise, Goto, ApiMoves, Created, Unknown, TransitionPcs,
              SubmitResponses, CancelResponses, CallInv
<1>4. CASE TransitionSave(p)
  <2>1. to[p] \in TERMINAL_STATES
    BY <1>4 DEF TransitionSave, CallInv, TransitionPcs, JobStatus, TERMINAL_STATES
  <2>2. QED
    BY <1>4, <2>1 DEF TransitionSave, Goto, ApiWrites
<1>5. CASE TransitionPurge(p) \/ TransitionClear(p)
  BY <1>5 DEF TransitionPurge, TransitionClear, Return, Goto, ApiMoves, Created, Unknown,
              TransitionPcs,
              SubmitResponses, CancelResponses, CallInv
<1>6. CASE ApiAborts(p)
  BY <1>6 DEF ApiAborts, Goto, ApiMoves, Created, Unknown, TransitionPcs,
              SubmitResponses, CancelResponses, CallInv
<1>7. QED
  BY <1>1, <1>2, <1>3, <1>4, <1>5, <1>6 DEF Transition

\* Every step of the job is of one of these kinds.
LEMMA StepKinds ==
  ASSUME IInv, [Next]_vars
  PROVE  \/ SubmitCreate \/ SubmitEnqueue
         \/ \E p \in Api : ApiMoves(p) \/ ApiWrites(p)
         \/ \E w \in Runners :
              \/ RunnerStays(w) \/ RunnerWrites(w) \/ RunnerRetries(w) \/ RunnerEnds(w)
              \/ Deliver(w) \/ Crash(w) \/ RunnerAborts(w) \/ LockExpires(w)
         \/ ArqGivesUp \/ ExpireJob \/ ExpireToken \/ ExpireOther
         \/ UNCHANGED vars
<1>1. ASSUME NEW c \in Cancels, CancelLoad(c) \/ CancelNext(c)
      PROVE  \E p \in Api : ApiMoves(p) \/ ApiWrites(p)
  BY <1>1, ApiKinds, ProcsFacts DEF CancelNext
<1>2. CASE SubmitNext
  BY <1>2, ApiKinds, ProcsFacts DEF SubmitNext
<1>3. CASE FaultNext
  BY <1>3, ApiKinds DEF FaultNext
<1>4. ASSUME NEW w \in Runners, RunnerNext(w)
      PROVE  RunnerStays(w) \/ RunnerWrites(w) \/ RunnerRetries(w) \/ RunnerEnds(w)
  BY <1>4, RunnerKinds
<1>5. QED
  BY <1>1, <1>2, <1>3, <1>4 DEF Next

(***************************************************************************)
(* One delivery at a time, and no more than JOB_MAX_ATTEMPTS of them.      *)
(***************************************************************************)

\* While no in-progress key has expired, the run that is under way is the
\* latest delivery and its entry is in the queue; while nothing at all has
\* failed, arq is left with a delivery whenever it still has the entry.
DeliveryInv ==
  /\ stalls = 0 => \A w \in Runners : pc[w] # "idle" =>
       holder = w /\ entry /\ attempt[w] = tries
  /\ crashes + aborts + stalls = 0 /\ entry /\ holder = NoRunner => tries < MaxAttempts
  /\ pc[Submit] \in Unknown => tries = 0 /\ holder = NoRunner
  /\ DropNeedsFault

\* More faults are not none.
LEMMA FaultSum ==
  ASSUME NEW c \in Nat, NEW a \in Nat, NEW s \in Nat, NEW b \in Nat, a <= b
  PROVE  /\ c + b + s = 0 => c + a + s = 0
         /\ c + a + s > 0 => c + b + s > 0
OBVIOUS

\* A handler of the API takes no fault back.
LEMMA FaultsStay ==
  ASSUME IInv, NEW p \in Api, ApiMoves(p)
  PROVE  /\ crashes' + aborts' + stalls' = 0 => crashes + aborts + stalls = 0
         /\ crashes + aborts + stalls > 0 => crashes' + aborts' + stalls' > 0
<1>1. crashes \in Nat /\ aborts \in Nat /\ stalls \in Nat
  BY BoundsNatural DEF IInv, TypeOK, FaultTypeOK
<1>2. crashes' = crashes /\ stalls' = stalls /\ aborts' \in {aborts, aborts + 1}
  BY DEF ApiMoves
<1>3. aborts' \in Nat /\ aborts <= aborts'
  BY <1>1, <1>2
<1>4. /\ crashes + aborts' + stalls = 0 => crashes + aborts + stalls = 0
      /\ crashes + aborts + stalls > 0 => crashes + aborts' + stalls > 0
  BY <1>1, <1>3, FaultSum
<1>5. QED
  BY <1>2, <1>4

LEMMA DeliveryStep == IInv /\ DeliveryInv /\ [Next]_vars => DeliveryInv'
<1> SUFFICES ASSUME IInv, DeliveryInv, [Next]_vars PROVE DeliveryInv'
  OBVIOUS
<1> USE ProcsFacts, ProcessesDistinct, AttemptsPositive, BoundsNatural
<1>0. /\ crashes \in Nat /\ aborts \in Nat /\ stalls \in Nat /\ tries \in Nat
      /\ pc \in [Procs -> SubmitPcs \cup CancelPcs \cup RunnerPcs]
      /\ attempt \in [Procs -> 0 .. MaxAttempts]
  BY DEF IInv, TypeOK, FaultTypeOK, ArqTypeOK, PcTypeOK, LocalTypeOK
<1> USE <1>0 DEF DeliveryInv, DropNeedsFault, Only, redis, arq, locals, faults, counters
<1>1. CASE SubmitCreate
  BY <1>1 DEF SubmitCreate, Goto, Unknown
<1>2. CASE SubmitEnqueue
  BY <1>2 DEF SubmitEnqueue, Goto, Unknown, IInv, OrderInv
<1>3. ASSUME NEW p \in Api, ApiMoves(p) PROVE DeliveryInv'
  <2>1. /\ UNCHANGED <<entry, holder, tries, attempt, crashes, stalls, dropped>>
        /\ aborts' \in {aborts, aborts + 1}
        /\ \A w \in Runners : pc'[w] = pc[w]
    BY <1>3 DEF ApiMoves
  <2>2. pc'[Submit] \in Unknown => pc[Submit] \in Unknown
    BY <1>3 DEF ApiMoves
  <2>3. /\ crashes' + aborts' + stalls' = 0 => crashes + aborts + stalls = 0
        /\ crashes + aborts + stalls > 0 => crashes' + aborts' + stalls' > 0
    BY <1>3, FaultsStay
  <2>4. DropNeedsFault'
    BY <2>1, <2>3
  <2>5. stalls' = 0 => \A w \in Runners : pc'[w] # "idle" =>
          holder' = w /\ entry' /\ attempt'[w] = tries'
    BY <2>1
  <2> HIDE DEF DropNeedsFault
  <2>6. QED
    BY <2>1, <2>2, <2>3, <2>4, <2>5
<1>4. ASSUME NEW p \in Api, ApiWrites(p) PROVE DeliveryInv'
  BY <1>4 DEF ApiWrites, Unknown
<1>5. ASSUME NEW w \in Runners, RunnerStays(w) PROVE DeliveryInv'
  BY <1>5 DEF RunnerStays
<1>6. ASSUME NEW w \in Runners, RunnerWrites(w) PROVE DeliveryInv'
  BY <1>6 DEF RunnerWrites
<1>7. ASSUME NEW w \in Runners, RunnerRetries(w) PROVE DeliveryInv'
  BY <1>7 DEF RunnerRetries
<1>8. ASSUME NEW w \in Runners, RunnerEnds(w) PROVE DeliveryInv'
  BY <1>8 DEF RunnerEnds
<1>9. ASSUME NEW w \in Runners, Deliver(w) PROVE DeliveryInv'
  BY <1>9 DEF Deliver, Goto, IInv, OrderInv, Unknown
<1>10. ASSUME NEW w \in Runners, Crash(w) PROVE DeliveryInv'
  BY <1>10 DEF Crash, Goto
<1>11. ASSUME NEW w \in Runners, RunnerAborts(w) PROVE DeliveryInv'
  BY <1>11 DEF RunnerAborts, Finish, Goto
<1>12. ASSUME NEW w \in Runners, LockExpires(w) PROVE DeliveryInv'
  BY <1>12 DEF LockExpires
<1>13. CASE ArqGivesUp
  BY <1>13 DEF ArqGivesUp
<1>14. CASE ExpireJob \/ ExpireToken \/ ExpireOther \/ UNCHANGED vars
  BY <1>14, OtherKeysExpire DEF ExpireJob, ExpireToken, vars
<1>15. QED
  BY <1>1, <1>2, <1>3, <1>4, <1>5, <1>6, <1>7, <1>8, <1>9, <1>10, <1>11, <1>12,
     <1>13, <1>14, StepKinds

LEMMA DeliveryInvariance == Spec => [](IInv /\ DeliveryInv)
<1>1. Init => DeliveryInv
  BY ProcsFacts, AttemptsPositive DEF Init, DeliveryInv, DropNeedsFault
<1>2. QED
  BY <1>1, DeliveryStep, Invariance, PTL DEF Spec

\* arq drops a job only after a worker died, a handler was cut short or an
\* in-progress key expired under a live run: retries alone never do it, since
\* max_tries and the funnel count alike.
THEOREM DropsAreFaults == Spec => []DropNeedsFault
<1>1. DeliveryInv => DropNeedsFault
  BY DEF DeliveryInv
<1>2. QED
  BY <1>1, DeliveryInvariance, PTL

(***************************************************************************)
(* When nobody will look at the job again, it is settled.                  *)
(***************************************************************************)

\* A run that has saved a terminal record leaves it to nobody who would take
\* it back, and an accepted job leaves the queue settled.
SettledInv ==
  stalls = 0 =>
    /\ \A w \in Runners : pc[w] \in {"t_purge", "t_clear"} => job.status \in Ended
    /\ pc[Submit] = "accepted" /\ ~entry /\ ~dropped => job.status \in Ended

LEMMA SettledStep == IInv /\ DeliveryInv /\ SettledInv /\ [Next]_vars => SettledInv'
<1> SUFFICES ASSUME IInv, DeliveryInv, SettledInv, [Next]_vars PROVE SettledInv'
  OBVIOUS
<1> USE ProcsFacts, ProcessesDistinct
<1>0. /\ stalls \in Nat /\ to \in [Procs -> JobStatus]
      /\ pc \in [Procs -> SubmitPcs \cup CancelPcs \cup RunnerPcs]
  BY BoundsNatural DEF IInv, TypeOK, FaultTypeOK, PcTypeOK, LocalTypeOK
<1> USE <1>0 DEF SettledInv, Only, redis, arq, locals, faults, counters
<1>1. CASE SubmitCreate
  BY <1>1 DEF SubmitCreate, Goto, IInv, OrderInv
<1>2. CASE SubmitEnqueue
  BY <1>2 DEF SubmitEnqueue, Goto
<1>3. ASSUME NEW p \in Api, ApiMoves(p) PROVE SettledInv'
  BY <1>3 DEF ApiMoves
<1>4. ASSUME NEW p \in Api, ApiWrites(p) PROVE SettledInv'
  <2>1. job'.status \in Ended
    BY <1>4 DEF ApiWrites, IInv, OrderInv, CallInv, TransitionPcs, JobStatus, Ended,
                TERMINAL_STATES
  <2>2. QED
    BY <2>1
<1>5. ASSUME NEW w \in Runners, RunnerStays(w) PROVE SettledInv'
  BY <1>5 DEF RunnerStays
<1>6. ASSUME NEW w \in Runners, RunnerWrites(w) PROVE SettledInv'
  <2>1. stalls = 0 => entry /\ \A v \in Runners : v # w => pc[v] = "idle"
    BY <1>6 DEF RunnerWrites, DeliveryInv
  <2>2. pc'[w] \in {"t_purge", "t_clear"} => job'.status \in Ended
    BY <1>6 DEF RunnerWrites, IInv, OrderInv, Ended
  <2>3. QED
    BY <1>6, <2>1, <2>2 DEF RunnerWrites
<1>7. ASSUME NEW w \in Runners, RunnerRetries(w) PROVE SettledInv'
  BY <1>7 DEF RunnerRetries
<1>8. ASSUME NEW w \in Runners, RunnerEnds(w) PROVE SettledInv'
  BY <1>8 DEF RunnerEnds
<1>9. ASSUME NEW w \in Runners, Deliver(w) PROVE SettledInv'
  BY <1>9 DEF Deliver, Goto
<1>10. ASSUME NEW w \in Runners, Crash(w) PROVE SettledInv'
  BY <1>10 DEF Crash, Goto
<1>11. ASSUME NEW w \in Runners, RunnerAborts(w) PROVE SettledInv'
  BY <1>11 DEF RunnerAborts, Finish, Goto
<1>12. ASSUME NEW w \in Runners, LockExpires(w) PROVE SettledInv'
  BY <1>12 DEF LockExpires
<1>13. CASE ArqGivesUp
  BY <1>13 DEF ArqGivesUp
<1>14. CASE ExpireJob
  BY <1>14 DEF ExpireJob, Absent, Ended
<1>15. CASE ExpireToken \/ ExpireOther \/ UNCHANGED vars
  BY <1>15, OtherKeysExpire DEF ExpireToken, vars
<1>16. QED
  BY <1>1, <1>2, <1>3, <1>4, <1>5, <1>6, <1>7, <1>8, <1>9, <1>10, <1>11, <1>12,
     <1>13, <1>14, <1>15, StepKinds

\* An accepted job that has left the queue is settled, whatever cancels,
\* crashes and retries came in between, unless arq itself dropped it.
THEOREM NoJobOrphaned == Spec => []JobNotOrphaned
<1>1. Init => SettledInv
  BY ProcsFacts, FlagsBoolean DEF Init, SettledInv
<1>2. SettledInv => JobNotOrphaned
  BY DEF SettledInv, JobNotOrphaned, Ended
<1>3. QED
  BY <1>1, <1>2, SettledStep, DeliveryInvariance, PTL DEF Spec

(***************************************************************************)
(* The documented state diagram.                                           *)
(***************************************************************************)

\* As long as one process writes the record, what a run is about to save still
\* follows from what Redis holds; and whoever acts on the job finds a record.
WriterInv ==
  /\ ~SecondWriter => \A w \in Runners :
       /\ pc[w] = "t_save" => MayMove(job.status, to[w])
       /\ pc[w] = "p_save" => rec[w].status = job.status
  /\ \A w \in Runners : pc[w] = "p_save" => rec[w].status # "absent"
  /\ entry \/ pc[Submit] \in Created \/ (\E p \in Procs \ {Submit} : pc[p] # "idle")
       => job.status # "absent"

LEMMA WriterStep ==
  ASSUME "job" \notin Expiry
  PROVE  IInv /\ DeliveryInv /\ WriterInv /\ [Next]_vars => WriterInv'
<1> SUFFICES ASSUME IInv, DeliveryInv, WriterInv, [Next]_vars PROVE WriterInv'
  OBVIOUS
<1> USE ProcsFacts, ProcessesDistinct
<1>0. /\ stalls \in Nat /\ to \in [Procs -> JobStatus]
      /\ pc \in [Procs -> SubmitPcs \cup CancelPcs \cup RunnerPcs]
      /\ rec \in [Procs -> Records]
  BY BoundsNatural DEF IInv, TypeOK, FaultTypeOK, PcTypeOK, LocalTypeOK
<1> USE <1>0 DEF WriterInv, SecondWriter, Only, redis, arq, locals, faults, counters
<1>1. CASE SubmitCreate
  BY <1>1 DEF SubmitCreate, Goto, NewRecord, IInv, OrderInv
<1>2. CASE SubmitEnqueue
  BY <1>2 DEF SubmitEnqueue, Goto, Created, IInv, OrderInv
<1>3. ASSUME NEW p \in Api, ApiMoves(p) PROVE WriterInv'
  <2>1. ~SecondWriter' => ~SecondWriter
    BY <1>3 DEF ApiMoves
  <2>2. \A w \in Runners : pc'[w] = pc[w] /\ to'[w] = to[w] /\ rec'[w] = rec[w]
    BY <1>3 DEF ApiMoves
  <2>3. pc'[Submit] \in Created => pc[Submit] \in Created
    BY <1>3 DEF ApiMoves
  <2>4. ASSUME NEW q \in Procs \ {Submit}, pc'[q] # "idle"
        PROVE  pc[q] # "idle" \/ pc[Submit] \in Created
    BY <1>3, <2>4 DEF ApiMoves, Created
  <2>5. QED
    BY <1>3, <2>1, <2>2, <2>3, <2>4 DEF ApiMoves
<1>4. ASSUME NEW p \in Api, ApiWrites(p) PROVE WriterInv'
  <2>1. to[p] # "queued" /\ rec[p].status = to[p] /\ to[p] # "absent"
    BY <1>4 DEF ApiWrites, IInv, OrderInv, CallInv, TransitionPcs, JobStatus
  <2>2. QED
    BY <1>4, <2>1 DEF ApiWrites
<1>5. ASSUME NEW w \in Runners, RunnerStays(w) PROVE WriterInv'
  BY <1>5 DEF RunnerStays
<1>6. ASSUME NEW w \in Runners, RunnerWrites(w) PROVE WriterInv'
  <2>1. ~SecondWriter => \A v \in Runners : v # w => pc[v] = "idle"
    BY <1>6 DEF RunnerWrites, DeliveryInv
  <2>2. rec[w].status # "absent"
    BY <1>6 DEF RunnerWrites, IInv, OrderInv, JobStatus
  <2>3. QED
    BY <1>6, <2>1, <2>2 DEF RunnerWrites
<1>7. ASSUME NEW w \in Runners, RunnerRetries(w) \/ RunnerEnds(w) PROVE WriterInv'
  BY <1>7 DEF RunnerRetries, RunnerEnds
<1>8. ASSUME NEW w \in Runners, Deliver(w) PROVE WriterInv'
  BY <1>8 DEF Deliver, Goto
<1>9. ASSUME NEW w \in Runners, Crash(w) PROVE WriterInv'
  BY <1>9 DEF Crash, Goto
<1>10. ASSUME NEW w \in Runners, RunnerAborts(w) PROVE WriterInv'
  BY <1>10 DEF RunnerAborts, Finish, Goto
<1>11. ASSUME NEW w \in Runners, LockExpires(w) PROVE WriterInv'
  BY <1>11 DEF LockExpires
<1>12. CASE ArqGivesUp \/ ExpireToken \/ ExpireOther \/ UNCHANGED vars
  BY <1>12, OtherKeysExpire DEF ArqGivesUp, ExpireToken, vars
<1>13. QED
  BY <1>1, <1>2, <1>3, <1>4, <1>5, <1>6, <1>7, <1>8, <1>9, <1>10, <1>11, <1>12,
     StepKinds DEF ExpireJob

\* Every step of the job is a step of the diagram or leaves the status alone.
LEMMA DiagramStep ==
  ASSUME "job" \notin Expiry
  PROVE  IInv /\ DeliveryInv /\ WriterInv /\ [Next]_vars
           => [StateMachine!Next]_(job.status)
<1> SUFFICES ASSUME IInv, DeliveryInv, WriterInv, [Next]_vars, job'.status # job.status
             PROVE  StateMachine!Next
  OBVIOUS
<1> USE ProcsFacts
<1> USE DEF redis, arq, locals, faults, counters
<1>1. CASE SubmitCreate
  BY <1>1 DEF SubmitCreate, NewRecord, Absent, IInv, OrderInv, StateMachine!Next,
              StateMachine!Create
<1>2. ASSUME NEW p \in Api, ApiWrites(p) PROVE StateMachine!Overwrite
  <2>1. to[p] \in {"failed", "cancelled"} /\ rec[p].status = to[p]
    BY <1>2 DEF ApiWrites, IInv, OrderInv, CallInv, TransitionPcs, JobStatus, TypeOK,
                LocalTypeOK
  <2>2. SecondWriter /\ job.status # "absent"
    <3>1. SecondWriter
      BY <2>1 DEF SecondWriter
    <3>2. pc[p] = "t_save"
      BY <1>2 DEF ApiWrites
    <3>3. QED
      BY <3>1, <3>2 DEF WriterInv, Created, TransitionPcs
  <2>3. QED
    BY <1>2, <2>1, <2>2 DEF ApiWrites, StateMachine!Overwrite
<1>3. ASSUME NEW w \in Runners, RunnerWrites(w) PROVE StateMachine!Next
  <2>1. job.status # "absent"
    BY <1>3 DEF RunnerWrites, WriterInv
  <2>2. rec[w].status \in {"running", "completed", "failed", "cancelled"}
    BY <1>3 DEF RunnerWrites, WriterInv, IInv, OrderInv, CallInv, TransitionPcs, JobStatus,
                TypeOK, LocalTypeOK, Records
  <2>3. CASE SecondWriter
    BY <1>3, <2>1, <2>2, <2>3 DEF RunnerWrites, StateMachine!Next, StateMachine!Overwrite
  <2>4. CASE ~SecondWriter
    <3>1. pc[w] = "t_save" /\ MayMove(job.status, to[w]) /\ job'.status = to[w]
      BY <1>3, <2>4 DEF RunnerWrites, WriterInv, IInv, OrderInv
    <3>2. QED
      BY <3>1 DEF MayMove, StateMachine!Next, StateMachine!Start, StateMachine!Complete,
                  StateMachine!Fail, StateMachine!Cancel
  <2>5. QED
    BY <2>3, <2>4
<1>4. ASSUME job' # job PROVE \/ SubmitCreate
                              \/ \E p \in Api : ApiWrites(p)
                              \/ \E w \in Runners : RunnerWrites(w)
  BY <1>4, StepKinds, OtherKeysExpire
  DEF SubmitEnqueue, ApiMoves, RunnerStays, RunnerRetries, RunnerEnds, Deliver, Crash,
      RunnerAborts, LockExpires, ArqGivesUp, ExpireJob, ExpireToken, vars
<1>5. QED
  BY <1>1, <1>2, <1>3, <1>4 DEF StateMachine!Next

\* The lifecycle implements the documented diagram: while one process writes,
\* the record moves along its arrows; a second writer may put any later status
\* over another, and nothing brings the job back to the start.  (The record's TTL
\* is not in the diagram: a record that expires has left it.)
THEOREM ImplementsDiagram ==
  ASSUME "job" \notin Expiry
  PROVE  Spec => FollowsStateMachine
<1>1. Init => StateMachine!Init
  BY ProcsFacts DEF Init, StateMachine!Init, SecondWriter, Absent
<1>2. Init => WriterInv
  BY ProcsFacts, FlagsBoolean DEF Init, WriterInv, Created, TransitionPcs
<1>3. IInv /\ DeliveryInv /\ WriterInv /\ [Next]_vars => WriterInv'
  BY WriterStep
<1>4. IInv /\ DeliveryInv /\ WriterInv /\ [Next]_vars => [StateMachine!Next]_(job.status)
  BY DiagramStep
<1>5. QED
  BY <1>1, <1>2, <1>3, <1>4, DeliveryInvariance, PTL
  DEF Spec, FollowsStateMachine, StateMachine!Spec

(***************************************************************************)
(* A submit that is refused.                                               *)
(***************************************************************************)

\* A roll-back works alone: what failed to be enqueued nobody else knows of.
RollbackInv ==
  /\ pc[Submit] \in {"encrypt", "stage"} => ~token
  /\ pc[Submit] \in {"rollback", "rejected"} \cup TransitionPcs =>
       ~entry /\ \A p \in Procs \ {Submit} : pc[p] = "idle"
  /\ pc[Submit] \in {"rejected"} \cup TransitionPcs => ~token
  /\ pc[Submit] \in TransitionPcs => to[Submit] = "failed"
  /\ pc[Submit] \in {"t_purge", "t_clear", "rejected"} => job.status \in {"absent", "failed"}

\* Before the job is in the queue, only the submit and time can act.
LEMMA SubmitAlone ==
  ASSUME IInv, [Next]_vars, ~entry, pc[Submit] # "accepted",
         \A p \in Procs \ {Submit} : pc[p] = "idle"
  PROVE  SubmitNext \/ ApiAborts(Submit) \/ ExpireJob \/ ExpireToken \/ ExpireOther
         \/ UNCHANGED vars \/ \E w \in Runners : LockExpires(w)
<1> USE ProcsFacts
<1>1. ASSUME NEW w \in Runners PROVE ~Deliver(w) /\ ~RunnerNext(w) /\ ~Crash(w) /\ ~RunnerAborts(w)
  BY DEF Deliver, RunnerNext, RunLoad, RunCheckCancel, RunCreds, AgentStep, StepCheckCancel,
         ProgressRead, ProgressSave, AgentFinish, PersistProposal, SaveResult, TimeoutFires,
         RunnerError, InTry, StreamPcs, TransitionPcs, Crash, RunnerAborts,
         Transition, TransitionRead, TransitionSave, TransitionPurge, TransitionClear
<1>2. ASSUME NEW c \in Cancels PROVE ~CancelLoad(c) /\ ~CancelNext(c) /\ ~ApiAborts(c)
  BY DEF CancelLoad, CancelNext, CancelPurge, CancelFlag, ApiAborts,
         Transition, TransitionRead, TransitionSave, TransitionPurge, TransitionClear
<1>3. QED
  BY <1>1, <1>2 DEF Next, FaultNext, ArqGivesUp

LEMMA RollbackStep ==
  ASSUME ~LostReplies
  PROVE  IInv /\ RollbackInv /\ [Next]_vars => RollbackInv'
<1> SUFFICES ASSUME IInv, RollbackInv, [Next]_vars PROVE RollbackInv'
  OBVIOUS
<1> USE ProcsFacts
<1>0. /\ to \in [Procs -> JobStatus]
      /\ pc \in [Procs -> SubmitPcs \cup CancelPcs \cup RunnerPcs]
  BY DEF IInv, TypeOK, PcTypeOK, LocalTypeOK
<1> DEFINE Here == Unknown \cup {"rollback", "rejected"} \cup TransitionPcs
<1>1. CASE pc[Submit] \in Here
  <2>1. ~entry /\ \A p \in Procs \ {Submit} : pc[p] = "idle"
    BY <1>1 DEF IInv, OrderInv, RollbackInv, Unknown
  <2> USE <1>0, <2>1 DEF RollbackInv, TransitionPcs, redis, arq, locals, faults
  <2>2. CASE SubmitEncrypt
    BY <2>2 DEF SubmitEncrypt, Goto, IInv, OrderInv, Absent
  <2>3. CASE SubmitStage \/ SubmitCreate
    BY <2>3 DEF SubmitStage, SubmitCreate, Goto
  <2>4. CASE SubmitEnqueue
    BY <2>4 DEF SubmitEnqueue, Goto
  <2>5. CASE SubmitRollback
    BY <2>5 DEF SubmitRollback, Call, Goto
  <2>6. CASE TransitionRead(Submit)
    BY <2>6 DEF TransitionRead, Raise, Goto
  <2>7. CASE TransitionSave(Submit)
    BY <2>7 DEF TransitionSave, Goto, IInv, OrderInv, TERMINAL_STATES
  <2>8. CASE TransitionPurge(Submit) \/ TransitionClear(Submit)
    <3>1. CASE TransitionPurge(Submit)
      BY <3>1 DEF TransitionPurge, Goto
    <3>2. CASE TransitionClear(Submit)
      <4>1. Goto(Submit, "rejected") /\ entry' = entry
        BY <3>2 DEF TransitionClear, Return
      <4>2. QED
        BY <3>2, <4>1 DEF TransitionClear, Goto
    <3>3. QED
      BY <2>8, <3>1, <3>2
  <2>9. CASE ApiAborts(Submit)
    BY <2>9 DEF ApiAborts, Goto
  <2>10. CASE ExpireJob \/ ExpireToken \/ ExpireOther \/ UNCHANGED vars
    BY <2>10, OtherKeysExpire DEF ExpireJob, ExpireToken, Absent, vars
  <2>11. ASSUME NEW w \in Runners, LockExpires(w) PROVE RollbackInv'
    BY <2>11 DEF LockExpires
  <2>12. QED
    BY <1>1, <2>1, <2>2, <2>3, <2>4, <2>5, <2>6, <2>7, <2>8, <2>9, <2>10, <2>11, SubmitAlone
    DEF SubmitNext, Transition, Unknown
<1>2. CASE pc[Submit] \notin Here
  <2>1. pc[Submit] \in SubmitResponses
    BY <1>2 DEF IInv, TypeOK, PcTypeOK, PcOK, SubmitPcs, Unknown, SubmitResponses
  <2>2. pc'[Submit] = pc[Submit]
    <3> USE <1>0, <2>1 DEF redis, arq, locals, faults
    <3>1. ASSUME NEW p \in Api, ApiMoves(p) \/ ApiWrites(p) PROVE pc'[Submit] = pc[Submit]
      BY <3>1 DEF ApiMoves, ApiWrites, Only, SubmitResponses
    <3>2. ASSUME NEW w \in Runners,
                 \/ RunnerStays(w) \/ RunnerWrites(w) \/ RunnerRetries(w) \/ RunnerEnds(w)
                 \/ Deliver(w) \/ Crash(w) \/ RunnerAborts(w) \/ LockExpires(w)
          PROVE  pc'[Submit] = pc[Submit]
      BY <3>2 DEF RunnerStays, RunnerWrites, RunnerRetries, RunnerEnds, Only,
                  Deliver, Crash, RunnerAborts, Finish, LockExpires, Goto
    <3>3. QED
      BY <3>1, <3>2, StepKinds, OtherKeysExpire
      DEF SubmitCreate, SubmitEnqueue, SubmitResponses, ArqGivesUp, ExpireJob, ExpireToken,
          vars
  <2>3. QED
    BY <1>2, <2>2 DEF RollbackInv, Unknown, TransitionPcs
<1>3. QED
  BY <1>1, <1>2

\* A submit answered 503 has left no token and no job that waits to run, even
\* when the record expired or the vault failed on the way.  A reply of the
\* queue that is lost is the exception: there the job is in the queue.
THEOREM RejectedCleansUp ==
  ASSUME ~LostReplies
  PROVE  Spec => []RejectedLeavesNothing
<1>1. Init => RollbackInv
  BY ProcsFacts, FlagsBoolean DEF Init, RollbackInv, TransitionPcs
<1>2. IInv /\ RollbackInv /\ [Next]_vars => RollbackInv'
  BY RollbackStep
<1>3. RollbackInv => RejectedLeavesNothing
  BY DEF RollbackInv, RejectedLeavesNothing
<1>4. QED
  BY <1>1, <1>2, <1>3, Invariance, PTL DEF Spec
=============================================================================
