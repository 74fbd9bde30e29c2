------------------------ MODULE JobLifecycle_proofs ------------------------
(***************************************************************************)
(* Safety of the job lifecycle for every number of cancels, runners,       *)
(* attempts, steps and faults.  JobLifecycle's type invariant comes first, *)
(* then an inductive invariant in four parts.                              *)
(***************************************************************************)
EXTENDS JobLifecycle, TLAPS

(***************************************************************************)
(* The inductive invariant, in parts.                                      *)
(***************************************************************************)

\* A process inside transition() called it with arguments of its own kind.
CallInv ==
  /\ \A p \in Procs : pc[p] \in TransitionPcs =>
       /\ to[p] # "queued"
       /\ to[p] \in {"running", "completed"} => p \in Runners
       /\ to[p] = "running" => attempt[p] > 0
       /\ err[p] # NoError <=> to[p] = "failed"
  /\ \A w \in Runners : pc[w] # "idle" => attempt[w] > 0

\* The stored record and every local copy of it are consistent.
RecordInv == Consistent(job) /\ \A p \in Procs : Consistent(rec[p])

\* The result document was saved; what is missing has run out.
ResultSaved == result.saved \/ "result" \in lapsed

\* COMPLETED is only ever written, or about to be, after the result.
ResultInv ==
  /\ job.status = "completed" => ResultSaved
  /\ \A p \in Procs : rec[p].status = "completed" => ResultSaved
  /\ \A p \in Procs : pc[p] \in TransitionPcs /\ to[p] = "completed" => ResultSaved
  /\ result.actions \subseteq proposals \cup lapsed
  /\ \A w \in Runners : staged[w] \subseteq proposals \cup lapsed

\* Nobody touches the job before it is enqueued; a run past its RUNNING
\* transition never sees, nor writes back, a QUEUED record.
OrderInv ==
  /\ pc[Submit] \in {"encrypt", "stage", "create"} => job = Absent
  /\ pc[Submit] \in {"encrypt", "stage", "create", "enqueue"} =>
       ~entry /\ \A p \in Procs \ {Submit} : pc[p] = "idle"
  /\ \A w \in Runners : pc[w] \in StreamPcs \cup {"creds"} => job.status # "queued"
  /\ \A p \in Procs : pc[p] = "t_save" => rec[p].status = to[p]
  /\ \A w \in Runners : pc[w] = "p_save" => rec[w].status # "queued"

Purging == purgeLost \/ \E p \in Procs : pc[p] = "t_purge"

\* Past its purge a cancel never sees the token again; a terminal record with
\* a token, in Redis or about to be written back, has its purge under way.
TokenInv ==
  /\ \A c \in Cancels :
       pc[c] \in {"flag", "cancelled", "requested"} \cup TransitionPcs => ~token
  /\ job.status \in TERMINAL_STATES /\ token => Purging
  /\ \A w \in Runners :
       pc[w] = "p_save" /\ rec[w].status \in TERMINAL_STATES /\ token => Purging

IInv == TypeOK /\ CallInv /\ RecordInv /\ ResultInv /\ OrderInv /\ TokenInv

-----------------------------------------------------------------------------
\* What it takes away when the flag, the result or a proposal runs out.
LEMMA OtherKeysExpire ==
  ASSUME ExpireOther
  PROVE  /\ UNCHANGED <<job, token, arq, locals, crashes, aborts, stalls, purgeLost, dropped>>
         /\ RedisTypeOK => RedisTypeOK'
         /\ FaultTypeOK => FaultTypeOK'
<1>1. CASE ExpireFlag
  BY <1>1 DEF ExpireFlag, RedisTypeOK, FaultTypeOK
<1>2. CASE ExpireResult
  BY <1>2 DEF ExpireResult, NoResult, RedisTypeOK, FaultTypeOK
<1>3. ASSUME NEW a \in ActionIds, ExpireProposal(a)
      PROVE  /\ UNCHANGED <<job, token, arq, locals, crashes, aborts, stalls, purgeLost, dropped>>
             /\ RedisTypeOK => RedisTypeOK'
             /\ FaultTypeOK => FaultTypeOK'
  BY <1>3 DEF ExpireProposal, RedisTypeOK, FaultTypeOK
<1>4. QED
  BY <1>1, <1>2, <1>3 DEF ExpireOther

\* The three kinds of process do not overlap.
LEMMA ProcsFacts ==
  /\ Submit \in Procs /\ Submit \in Api
  /\ \A c \in Cancels : c \in Procs /\ c \in Api /\ c # Submit /\ c \notin Runners
  /\ \A w \in Runners : w \in Procs /\ w # Submit /\ w \notin Cancels /\ w \notin Api
  /\ \A p \in Procs : p = Submit \/ p \in Cancels \/ p \in Runners
  /\ \A p \in Api : p = Submit \/ p \in Cancels
BY ProcessesDistinct DEF Procs, Api

\* A jump to a control point of the process's own kind keeps pc's type.
LEMMA GotoType ==
  ASSUME PcTypeOK, NEW p \in Procs, NEW where, PcOK(p, where), Goto(p, where)
  PROVE  PcTypeOK'
<1>1. where \in SubmitPcs \cup CancelPcs \cup RunnerPcs
  BY DEF PcOK
<1>2. QED
  BY <1>1 DEF PcTypeOK, Goto, PcOK

\* Calling transition() from any process keeps the types.
LEMMA CallType ==
  ASSUME PcTypeOK, LocalTypeOK, NEW p \in Procs,
         NEW s \in JobStatus, NEW e \in JobErrorCode \cup {NoError}, Call(p, s, e)
  PROVE  /\ PcTypeOK'
         /\ to' \in [Procs -> JobStatus]
         /\ err' \in [Procs -> JobErrorCode \cup {NoError}]
<1>1. PcOK(p, "t_read")
  BY ProcsFacts DEF PcOK, SubmitPcs, CancelPcs, RunnerPcs, TransitionPcs
<1>2. PcTypeOK'
  BY <1>1, GotoType DEF Call
<1>3. QED
  BY <1>2 DEF Call, LocalTypeOK

\* How the runner's attempts end keeps the types.
LEMMA EndOfAttemptType ==
  ASSUME TypeOK, NEW w \in Runners, Funnel(w) \/ Finish(w) \/ Redeliver(w)
  PROVE  /\ PcTypeOK'
         /\ to' \in [Procs -> JobStatus]
         /\ err' \in [Procs -> JobErrorCode \cup {NoError}]
         /\ entry' \in BOOLEAN
         /\ holder' \in Runners \cup {NoRunner}
<1>1. PcOK(w, "idle")
  BY ProcsFacts DEF PcOK, RunnerPcs
<1>2. CASE Finish(w) \/ Redeliver(w)
  BY <1>1, <1>2, ProcsFacts, GotoType
  DEF Finish, Redeliver, TypeOK, LocalTypeOK, ArqTypeOK
<1>3. CASE Call(w, "failed", "INTERNAL_ERROR") /\ UNCHANGED <<entry, holder>>
  BY <1>3, ProcsFacts, CallType
  DEF TypeOK, ArqTypeOK, JobStatus, JobErrorCode
<1>4. QED
  BY <1>2, <1>3 DEF Funnel

\* The record transition() computes has the type of a record.
LEMMA TransitionedType ==
  ASSUME NEW r \in Records, NEW s \in JobStatus, NEW a \in 0 .. MaxAttempts,
         NEW e \in JobErrorCode \cup {NoError}
  PROVE  Transitioned(r, s, a, e) \in Records
BY DEF Transitioned, Records

\* Every action keeps every variable to its type.
LEMMA TypeStep == TypeOK /\ CallInv /\ [Next]_vars => TypeOK'
<1> SUFFICES ASSUME TypeOK, CallInv, [Next]_vars PROVE TypeOK'
  OBVIOUS
<1> USE ProcsFacts, AttemptsPositive, BoundsNatural
<1> USE DEF TypeOK, redis, arq, locals, faults
<1>1. ASSUME SubmitEncrypt PROVE TypeOK'
  <2>1. PcTypeOK'
    BY <1>1, GotoType DEF SubmitEncrypt, PcOK, SubmitPcs, SubmitResponses
  <2>2. QED
    BY <1>1, <2>1 DEF SubmitEncrypt, RedisTypeOK, ArqTypeOK, LocalTypeOK, FaultTypeOK
<1>2. ASSUME SubmitStage PROVE TypeOK'
  <2>1. PcTypeOK'
    BY <1>2, GotoType DEF SubmitStage, PcOK, SubmitPcs, SubmitResponses
  <2>2. QED
    BY <1>2, <2>1 DEF SubmitStage, RedisTypeOK, ArqTypeOK, LocalTypeOK, FaultTypeOK
<1>3. ASSUME SubmitCreate PROVE TypeOK'
  <2>1. PcTypeOK'
    BY <1>3, GotoType DEF SubmitCreate, PcOK, SubmitPcs, SubmitResponses
  <2>2. QED
    BY <1>3, <2>1 DEF SubmitCreate, RedisTypeOK, ArqTypeOK, LocalTypeOK, FaultTypeOK, NewRecord, Records, JobStatus
<1>4. ASSUME SubmitEnqueue PROVE TypeOK'
  <2>1. PcTypeOK'
    BY <1>4, GotoType DEF SubmitEnqueue, PcOK, SubmitPcs, SubmitResponses
  <2>2. QED
    BY <1>4, <2>1, FlagsBoolean DEF SubmitEnqueue, RedisTypeOK, ArqTypeOK, LocalTypeOK, FaultTypeOK
<1>5. ASSUME SubmitRollback PROVE TypeOK'
  <2>1. /\ PcTypeOK'
        /\ to' \in [Procs -> JobStatus]
        /\ err' \in [Procs -> JobErrorCode \cup {NoError}]
    BY <1>5, CallType DEF SubmitRollback, JobStatus, JobErrorCode, LocalTypeOK
  <2>2. QED
    BY <1>5, <2>1 DEF SubmitRollback, RedisTypeOK, ArqTypeOK, LocalTypeOK, FaultTypeOK
<1>6. ASSUME NEW c \in Cancels, CancelLoad(c) PROVE TypeOK'
  <2>1. PcTypeOK'
    BY <1>6, GotoType DEF CancelLoad, PcOK, CancelPcs, CancelResponses, TransitionPcs
  <2>2. QED
    BY <1>6, <2>1 DEF CancelLoad, RedisTypeOK, ArqTypeOK, LocalTypeOK, FaultTypeOK
<1>7. ASSUME NEW c \in Cancels, CancelPurge(c) PROVE TypeOK'
  <2>1. PcTypeOK'
    BY <1>7, GotoType DEF CancelPurge, PcOK, CancelPcs, CancelResponses, TransitionPcs
  <2>2. QED
    BY <1>7, <2>1 DEF CancelPurge, RedisTypeOK, ArqTypeOK, LocalTypeOK, FaultTypeOK
<1>8. ASSUME NEW c \in Cancels, CancelFlag(c) PROVE TypeOK'
  <2>1. /\ PcTypeOK'
        /\ to' \in [Procs -> JobStatus]
        /\ err' \in [Procs -> JobErrorCode \cup {NoError}]
    BY <1>8, CallType, GotoType DEF CancelFlag, JobStatus, JobErrorCode, LocalTypeOK, PcOK, CancelPcs, CancelResponses, TransitionPcs
  <2>2. QED
    BY <1>8, <2>1 DEF CancelFlag, RedisTypeOK, ArqTypeOK, LocalTypeOK, FaultTypeOK
<1>9. ASSUME NEW w \in Runners, Deliver(w) PROVE TypeOK'
  <2>1. PcTypeOK'
    BY <1>9, GotoType DEF Deliver, PcOK, RunnerPcs, StreamPcs, TransitionPcs
  <2>2. QED
    BY <1>9, <2>1 DEF Deliver, RedisTypeOK, ArqTypeOK, LocalTypeOK, FaultTypeOK
<1>10. ASSUME ArqGivesUp PROVE TypeOK'
  BY <1>10 DEF ArqGivesUp, PcTypeOK, RedisTypeOK, ArqTypeOK, LocalTypeOK, FaultTypeOK
<1>11. ASSUME NEW w \in Runners, RunLoad(w) PROVE TypeOK'
  <2>1. /\ PcTypeOK'
        /\ to' \in [Procs -> JobStatus]
        /\ err' \in [Procs -> JobErrorCode \cup {NoError}]
        /\ entry' \in BOOLEAN
        /\ holder' \in Runners \cup {NoRunner}
    BY <1>11, GotoType, EndOfAttemptType DEF RunLoad, PcOK, RunnerPcs, StreamPcs, TransitionPcs, LocalTypeOK, ArqTypeOK
  <2>2. QED
    BY <1>11, <2>1 DEF RunLoad, RedisTypeOK, ArqTypeOK, LocalTypeOK, FaultTypeOK
<1>12. ASSUME NEW w \in Runners, RunCheckCancel(w) PROVE TypeOK'
  <2>1. /\ PcTypeOK'
        /\ to' \in [Procs -> JobStatus]
        /\ err' \in [Procs -> JobErrorCode \cup {NoError}]
    BY <1>12, CallType DEF RunCheckCancel, JobStatus, JobErrorCode, LocalTypeOK
  <2>2. QED
    BY <1>12, <2>1 DEF RunCheckCancel, RedisTypeOK, ArqTypeOK, LocalTypeOK, FaultTypeOK
<1>13. ASSUME NEW w \in Runners, RunCreds(w) PROVE TypeOK'
  <2>1. /\ PcTypeOK'
        /\ to' \in [Procs -> JobStatus]
        /\ err' \in [Procs -> JobErrorCode \cup {NoError}]
        /\ entry' \in BOOLEAN
        /\ holder' \in Runners \cup {NoRunner}
    BY <1>13, GotoType, EndOfAttemptType DEF RunCreds, PcOK, RunnerPcs, StreamPcs, TransitionPcs, LocalTypeOK, ArqTypeOK
  <2>2. QED
    BY <1>13, <2>1 DEF RunCreds, RedisTypeOK, ArqTypeOK, LocalTypeOK, FaultTypeOK
<1>14. ASSUME NEW w \in Runners, AgentStep(w) PROVE TypeOK'
  <2>1. PcTypeOK'
    BY <1>14, GotoType DEF AgentStep, PcOK, RunnerPcs, StreamPcs, TransitionPcs
  <2>2. QED
    BY <1>14, <2>1 DEF AgentStep, RedisTypeOK, ArqTypeOK, LocalTypeOK, FaultTypeOK
<1>15. ASSUME NEW w \in Runners, StepCheckCancel(w) PROVE TypeOK'
  <2>1. /\ PcTypeOK'
        /\ to' \in [Procs -> JobStatus]
        /\ err' \in [Procs -> JobErrorCode \cup {NoError}]
    BY <1>15, CallType, GotoType DEF StepCheckCancel, JobStatus, JobErrorCode, LocalTypeOK, PcOK, RunnerPcs, StreamPcs, TransitionPcs
  <2>2. QED
    BY <1>15, <2>1 DEF StepCheckCancel, RedisTypeOK, ArqTypeOK, LocalTypeOK, FaultTypeOK
<1>16. ASSUME NEW w \in Runners, ProgressRead(w) PROVE TypeOK'
  <2>1. PcTypeOK'
    BY <1>16, GotoType DEF ProgressRead, PcOK, RunnerPcs, StreamPcs, TransitionPcs
  <2>2. QED
    BY <1>16, <2>1 DEF ProgressRead, RedisTypeOK, ArqTypeOK, LocalTypeOK, FaultTypeOK
<1>17. ASSUME NEW w \in Runners, ProgressSave(w) PROVE TypeOK'
  <2>1. PcTypeOK'
    BY <1>17, GotoType DEF ProgressSave, PcOK, RunnerPcs, StreamPcs, TransitionPcs
  <2>2. QED
    BY <1>17, <2>1 DEF ProgressSave, RedisTypeOK, ArqTypeOK, LocalTypeOK, FaultTypeOK
<1>18. ASSUME NEW w \in Runners, AgentFinish(w) PROVE TypeOK'
  <2>1. PcTypeOK'
    BY <1>18, GotoType DEF AgentFinish, PcOK, RunnerPcs, StreamPcs, TransitionPcs
  <2>2. QED
    BY <1>18, <2>1 DEF AgentFinish, RedisTypeOK, ArqTypeOK, LocalTypeOK, FaultTypeOK
<1>19. ASSUME NEW w \in Runners, PersistProposal(w) PROVE TypeOK'
  BY <1>19 DEF PersistProposal, PcTypeOK, RedisTypeOK, ArqTypeOK, LocalTypeOK, FaultTypeOK
<1>20. ASSUME NEW w \in Runners, SaveResult(w) PROVE TypeOK'
  <2>1. /\ PcTypeOK'
        /\ to' \in [Procs -> JobStatus]
        /\ err' \in [Procs -> JobErrorCode \cup {NoError}]
    BY <1>20, CallType DEF SaveResult, JobStatus, JobErrorCode, LocalTypeOK
  <2>2. QED
    BY <1>20, <2>1 DEF SaveResult, RedisTypeOK, ArqTypeOK, LocalTypeOK, FaultTypeOK
<1>21. ASSUME NEW w \in Runners, TimeoutFires(w) PROVE TypeOK'
  <2>1. /\ PcTypeOK'
        /\ to' \in [Procs -> JobStatus]
        /\ err' \in [Procs -> JobErrorCode \cup {NoError}]
    BY <1>21, CallType DEF TimeoutFires, JobStatus, JobErrorCode, LocalTypeOK
  <2>2. QED
    BY <1>21, <2>1 DEF TimeoutFires, RedisTypeOK, ArqTypeOK, LocalTypeOK, FaultTypeOK
<1>22. ASSUME NEW w \in Runners, RunnerError(w) PROVE TypeOK'
  <2>1. /\ PcTypeOK'
        /\ to' \in [Procs -> JobStatus]
        /\ err' \in [Procs -> JobErrorCode \cup {NoError}]
        /\ entry' \in BOOLEAN
        /\ holder' \in Runners \cup {NoRunner}
    BY <1>22, GotoType, EndOfAttemptType DEF RunnerError, PcOK, RunnerPcs, StreamPcs, TransitionPcs, LocalTypeOK, ArqTypeOK
  <2>2. QED
    BY <1>22, <2>1 DEF RunnerError, RedisTypeOK, ArqTypeOK, LocalTypeOK, FaultTypeOK
<1>23. ASSUME NEW w \in Runners, Crash(w) PROVE TypeOK'
  <2>1. PcTypeOK'
    BY <1>23, GotoType DEF Crash, PcOK, RunnerPcs, StreamPcs, TransitionPcs
  <2>2. QED
    BY <1>23, <2>1 DEF Crash, RedisTypeOK, ArqTypeOK, LocalTypeOK, FaultTypeOK
<1>24. ASSUME NEW w \in Runners, RunnerAborts(w) PROVE TypeOK'
  <2>1. /\ PcTypeOK'
        /\ to' \in [Procs -> JobStatus]
        /\ err' \in [Procs -> JobErrorCode \cup {NoError}]
        /\ entry' \in BOOLEAN
        /\ holder' \in Runners \cup {NoRunner}
    BY <1>24, GotoType, EndOfAttemptType DEF RunnerAborts, PcOK, RunnerPcs, StreamPcs, TransitionPcs, LocalTypeOK, ArqTypeOK
  <2>2. QED
    BY <1>24, <2>1 DEF RunnerAborts, RedisTypeOK, ArqTypeOK, LocalTypeOK, FaultTypeOK
<1>25. ASSUME NEW w \in Runners, LockExpires(w) PROVE TypeOK'
  BY <1>25 DEF LockExpires, PcTypeOK, RedisTypeOK, ArqTypeOK, LocalTypeOK, FaultTypeOK
<1>26. ASSUME NEW p \in Api, ApiAborts(p) PROVE TypeOK'
  <2>1. PcTypeOK'
    BY <1>26, GotoType DEF ApiAborts, PcOK, SubmitPcs, SubmitResponses, CancelPcs, CancelResponses, TransitionPcs
  <2>2. QED
    BY <1>26, <2>1 DEF ApiAborts, RedisTypeOK, ArqTypeOK, LocalTypeOK, FaultTypeOK
<1>27. ASSUME ExpireJob PROVE TypeOK'
  BY <1>27 DEF ExpireJob, PcTypeOK, RedisTypeOK, ArqTypeOK, LocalTypeOK, FaultTypeOK, Absent, Records
<1>28. ASSUME ExpireToken PROVE TypeOK'
  BY <1>28 DEF ExpireToken, PcTypeOK, RedisTypeOK, ArqTypeOK, LocalTypeOK, FaultTypeOK
<1>29. ASSUME NEW p \in Procs, TransitionRead(p) PROVE TypeOK'
  <2>1. CASE MayMove(job.status, to[p])
    <3>1. PcTypeOK'
      BY <1>29, <2>1, GotoType
      DEF TransitionRead, PcOK, SubmitPcs, CancelPcs, RunnerPcs, TransitionPcs
    <3>2. (IF to[p] = "running" THEN attempt[p] ELSE NoAttempt) \in 0 .. MaxAttempts
      BY DEF LocalTypeOK, NoAttempt
    <3>3. Transitioned(job, to[p],
            IF to[p] = "running" THEN attempt[p] ELSE NoAttempt, err[p]) \in Records
      BY <3>2, TransitionedType DEF LocalTypeOK, RedisTypeOK
    <3>4. rec' \in [Procs -> Records]
      BY <1>29, <2>1, <3>3 DEF TransitionRead, LocalTypeOK
    <3>5. QED
      BY <1>29, <2>1, <3>1, <3>4
      DEF TransitionRead, RedisTypeOK, ArqTypeOK, LocalTypeOK, FaultTypeOK
  <2>2. CASE ~MayMove(job.status, to[p])
    <3>1. /\ PcTypeOK'
          /\ to' \in [Procs -> JobStatus]
          /\ err' \in [Procs -> JobErrorCode \cup {NoError}]
          /\ entry' \in BOOLEAN
          /\ holder' \in Runners \cup {NoRunner}
      <4>1. CASE p \in Api
        BY <1>29, <2>2, <4>1, GotoType
        DEF TransitionRead, Raise, PcOK, SubmitPcs, SubmitResponses, CancelPcs,
            CancelResponses, LocalTypeOK, ArqTypeOK
      <4>2. CASE p \in Runners
        BY <1>29, <2>2, <4>2, EndOfAttemptType DEF TransitionRead, Raise
      <4>3. QED
        BY <4>1, <4>2
    <3>2. QED
      BY <1>29, <2>2, <3>1
      DEF TransitionRead, RedisTypeOK, ArqTypeOK, LocalTypeOK, FaultTypeOK
  <2>3. QED
    BY <2>1, <2>2
<1>30. ASSUME NEW p \in Procs, TransitionSave(p) PROVE TypeOK'
  <2>1. to[p] \notin TERMINAL_STATES => p \in Runners
    BY <1>30 DEF TransitionSave, CallInv, TransitionPcs, LocalTypeOK, JobStatus,
                TERMINAL_STATES
  <2>2. PcTypeOK'
    BY <1>30, <2>1, GotoType
    DEF TransitionSave, PcOK, SubmitPcs, CancelPcs, RunnerPcs, TransitionPcs
  <2>3. QED
    BY <1>30, <2>2 DEF TransitionSave, RedisTypeOK, ArqTypeOK, LocalTypeOK, FaultTypeOK
<1>31. ASSUME NEW p \in Procs, TransitionPurge(p) PROVE TypeOK'
  <2>1. PcTypeOK'
    BY <1>31, GotoType DEF TransitionPurge, PcOK, SubmitPcs, CancelPcs, RunnerPcs, TransitionPcs
  <2>2. QED
    BY <1>31, <2>1 DEF TransitionPurge, RedisTypeOK, ArqTypeOK, LocalTypeOK, FaultTypeOK
<1>32. ASSUME NEW p \in Procs, TransitionClear(p) PROVE TypeOK'
  <2>1. /\ PcTypeOK'
        /\ to' \in [Procs -> JobStatus]
        /\ err' \in [Procs -> JobErrorCode \cup {NoError}]
        /\ entry' \in BOOLEAN
        /\ holder' \in Runners \cup {NoRunner}
    <3>1. CASE p \in Api
      BY <1>32, <3>1, GotoType
      DEF TransitionClear, Return, PcOK, SubmitPcs, SubmitResponses, CancelPcs,
          CancelResponses, LocalTypeOK, ArqTypeOK
    <3>2. CASE p \in Runners
      BY <1>32, <3>2, EndOfAttemptType DEF TransitionClear, Return
    <3>3. QED
      BY <3>1, <3>2
  <2>2. QED
    BY <1>32, <2>1 DEF TransitionClear, RedisTypeOK, ArqTypeOK, LocalTypeOK, FaultTypeOK
<1>33. ASSUME ExpireOther PROVE TypeOK'
  BY <1>33, OtherKeysExpire DEF PcTypeOK, ArqTypeOK, LocalTypeOK
<1>34. CASE UNCHANGED vars
  BY <1>34 DEF vars, PcTypeOK, RedisTypeOK, ArqTypeOK, LocalTypeOK, FaultTypeOK
<1>35. QED
  BY <1>1, <1>2, <1>3, <1>4, <1>5, <1>6, <1>7, <1>8, <1>9, <1>10, <1>11, <1>12, <1>13, <1>14, <1>15, <1>16, <1>17, <1>18, <1>19, <1>20, <1>21, <1>22, <1>23, <1>24, <1>25, <1>26, <1>27, <1>28, <1>29, <1>30, <1>31, <1>32, <1>33, <1>34
  DEF Next, SubmitNext, CancelNext, RunnerNext, FaultNext, Transition

\* No action calls transition() with arguments foreign to its process.
LEMMA CallStep == TypeOK /\ CallInv /\ [Next]_vars => CallInv'
<1> SUFFICES ASSUME TypeOK, CallInv, [Next]_vars PROVE CallInv'
  OBVIOUS
<1> USE ProcsFacts
<1> USE DEF TypeOK, PcTypeOK, LocalTypeOK, CallInv, redis, arq, locals, faults
<1>1. ASSUME SubmitEncrypt PROVE CallInv'
  BY <1>1
  DEF SubmitEncrypt, Goto, TransitionPcs, NoError
<1>2. ASSUME SubmitStage PROVE CallInv'
  BY <1>2
  DEF SubmitStage, Goto, TransitionPcs, NoError
<1>3. ASSUME SubmitCreate PROVE CallInv'
  BY <1>3
  DEF SubmitCreate, Goto, TransitionPcs, NoError
<1>4. ASSUME SubmitEnqueue PROVE CallInv'
  BY <1>4
  DEF SubmitEnqueue, Goto, TransitionPcs, NoError
<1>5. ASSUME SubmitRollback PROVE CallInv'
  BY <1>5
  DEF SubmitRollback, Call, Goto, TransitionPcs, NoError
<1>6. ASSUME NEW c \in Cancels, CancelLoad(c) PROVE CallInv'
  BY <1>6
  DEF CancelLoad, Goto, TransitionPcs, NoError
<1>7. ASSUME NEW c \in Cancels, CancelPurge(c) PROVE CallInv'
  BY <1>7
  DEF CancelPurge, Goto, TransitionPcs, NoError
<1>8. ASSUME NEW c \in Cancels, CancelFlag(c) PROVE CallInv'
  BY <1>8
  DEF CancelFlag, Call, Goto, TransitionPcs, NoError
<1>9. ASSUME NEW w \in Runners, Deliver(w) PROVE CallInv'
  BY <1>9
  DEF Deliver, Goto, TransitionPcs, ArqTypeOK
<1>10. ASSUME ArqGivesUp PROVE CallInv'
  BY <1>10
  DEF ArqGivesUp, TransitionPcs, NoError
<1>11. ASSUME NEW w \in Runners, RunLoad(w) PROVE CallInv'
  BY <1>11
  DEF RunLoad, Goto, Finish, TransitionPcs, NoError
<1>12. ASSUME NEW w \in Runners, RunCheckCancel(w) PROVE CallInv'
  BY <1>12
  DEF RunCheckCancel, Call, Goto, TransitionPcs, NoError
<1>13. ASSUME NEW w \in Runners, RunCreds(w) PROVE CallInv'
  BY <1>13
  DEF RunCreds, Goto, Funnel, Redeliver, Call, TransitionPcs, NoError
<1>14. ASSUME NEW w \in Runners, AgentStep(w) PROVE CallInv'
  BY <1>14
  DEF AgentStep, Goto, TransitionPcs, NoError
<1>15. ASSUME NEW w \in Runners, StepCheckCancel(w) PROVE CallInv'
  BY <1>15
  DEF StepCheckCancel, Call, Goto, TransitionPcs, NoError
<1>16. ASSUME NEW w \in Runners, ProgressRead(w) PROVE CallInv'
  BY <1>16
  DEF ProgressRead, Goto, TransitionPcs, NoError
<1>17. ASSUME NEW w \in Runners, ProgressSave(w) PROVE CallInv'
  BY <1>17
  DEF ProgressSave, Goto, TransitionPcs, NoError
<1>18. ASSUME NEW w \in Runners, AgentFinish(w) PROVE CallInv'
  BY <1>18
  DEF AgentFinish, Goto, TransitionPcs, NoError
<1>19. ASSUME NEW w \in Runners, PersistProposal(w) PROVE CallInv'
  BY <1>19
  DEF PersistProposal, TransitionPcs, NoError
<1>20. ASSUME NEW w \in Runners, SaveResult(w) PROVE CallInv'
  BY <1>20
  DEF SaveResult, Call, Goto, TransitionPcs, NoError
<1>21. ASSUME NEW w \in Runners, TimeoutFires(w) PROVE CallInv'
  BY <1>21
  DEF TimeoutFires, Call, Goto, TransitionPcs, StreamPcs, NoError
<1>22. ASSUME NEW w \in Runners, RunnerError(w) PROVE CallInv'
  BY <1>22
  DEF RunnerError, Funnel, Redeliver, Call, InTry, Goto, TransitionPcs,
      StreamPcs, NoError
<1>23. ASSUME NEW w \in Runners, Crash(w) PROVE CallInv'
  BY <1>23
  DEF Crash, Goto, TransitionPcs, NoError
<1>24. ASSUME NEW w \in Runners, RunnerAborts(w) PROVE CallInv'
  BY <1>24
  DEF RunnerAborts, Finish, Goto, TransitionPcs, NoError
<1>25. ASSUME NEW w \in Runners, LockExpires(w) PROVE CallInv'
  BY <1>25
  DEF LockExpires, TransitionPcs, NoError
<1>26. ASSUME NEW p \in Api, ApiAborts(p) PROVE CallInv'
  BY <1>26
  DEF ApiAborts, Goto, TransitionPcs, NoError
<1>27. ASSUME ExpireJob PROVE CallInv'
  BY <1>27
  DEF ExpireJob, TransitionPcs, NoError
<1>28. ASSUME ExpireToken PROVE CallInv'
  BY <1>28
  DEF ExpireToken, TransitionPcs, NoError
<1>29. ASSUME NEW p \in Procs, TransitionRead(p) PROVE CallInv'
  BY ZenonT(40), <1>29
  DEF TransitionRead, Raise, Funnel, Redeliver, Finish, Call, Goto,
      TransitionPcs, NoError
<1>30. ASSUME NEW p \in Procs, TransitionSave(p) PROVE CallInv'
  BY <1>30
  DEF TransitionSave, Goto, TransitionPcs, NoError
<1>31. ASSUME NEW p \in Procs, TransitionPurge(p) PROVE CallInv'
  BY <1>31
  DEF TransitionPurge, Goto, TransitionPcs, NoError
<1>32. ASSUME NEW p \in Procs, TransitionClear(p) PROVE CallInv'
  BY <1>32
  DEF TransitionClear, Return, Finish, Goto, TransitionPcs, NoError
<1>33. ASSUME ExpireOther PROVE CallInv'
  BY <1>33, OtherKeysExpire
<1>34. CASE UNCHANGED vars
  BY <1>34 DEF vars
<1>35. QED
  BY <1>1, <1>2, <1>3, <1>4, <1>5, <1>6, <1>7, <1>8, <1>9, <1>10, <1>11, <1>12,
     <1>13, <1>14, <1>15, <1>16, <1>17, <1>18, <1>19, <1>20, <1>21, <1>22,
     <1>23, <1>24, <1>25, <1>26, <1>27, <1>28, <1>29, <1>30, <1>31, <1>32,
     <1>33, <1>34
  DEF Next, SubmitNext, CancelNext, RunnerNext, FaultNext, Transition

\* One transition() turns a consistent record into a consistent record.
LEMMA TransitionedConsistent ==
  ASSUME NEW r \in Records, Consistent(r), NEW s \in JobStatus, MayMove(r.status, s),
         NEW a \in 0 .. MaxAttempts, a > 0 <=> s = "running",
         NEW e \in JobErrorCode \cup {NoError}, e # NoError <=> s = "failed"
  PROVE  Consistent(Transitioned(r, s, a, e))
<1> DEFINE t == Transitioned(r, s, a, e)
<1>1. r.status \in {"queued", "running"} /\ s # "queued" /\ ~r.finished /\ r.error = NoError
  BY DEF MayMove, Consistent, TERMINAL_STATES
<1>2. t.finished <=> t.status \in TERMINAL_STATES
  BY <1>1 DEF Transitioned
<1>3. t.error # NoError <=> t.status = "failed"
  BY <1>1 DEF Transitioned
<1>4. t.started <=> t.attempt > 0
  <2>1. CASE s = "running"
    <3>1. a > 0
      BY <2>1
    <3>2. t.attempt = a
      BY <3>1, AttemptsPositive DEF Transitioned, NoAttempt
    <3>3. t.started
      BY <2>1 DEF Transitioned
    <3>4. QED
      BY <3>1, <3>2, <3>3
  <2>2. CASE s # "running"
    BY <2>2, AttemptsPositive DEF Transitioned, NoAttempt, Consistent, Records
  <2>3. QED
    BY <2>1, <2>2
<1>5. t.status \in {"running", "completed"} => t.started
  BY <1>1 DEF Transitioned, MayMove, Consistent
<1>6. t.status # "queued"
  BY <1>1 DEF Transitioned
<1>7. QED
  BY <1>2, <1>3, <1>4, <1>5, <1>6 DEF Consistent

\* No action mixes two records.
LEMMA RecordStep == TypeOK /\ CallInv /\ RecordInv /\ [Next]_vars => RecordInv'
<1> SUFFICES ASSUME TypeOK, CallInv, RecordInv, [Next]_vars PROVE RecordInv'
  OBVIOUS
<1> USE ProcsFacts
<1> USE DEF RecordInv, TypeOK, LocalTypeOK, redis, arq, locals, faults
<1>1. ASSUME SubmitEncrypt PROVE RecordInv'
  BY <1>1
  DEF SubmitEncrypt, Goto
<1>2. ASSUME SubmitStage PROVE RecordInv'
  BY <1>2
  DEF SubmitStage, Goto
<1>3. ASSUME SubmitCreate PROVE RecordInv'
  BY <1>3
  DEF SubmitCreate, Goto, NewRecord, Consistent, TERMINAL_STATES
<1>4. ASSUME SubmitEnqueue PROVE RecordInv'
  BY <1>4
  DEF SubmitEnqueue, Goto
<1>5. ASSUME SubmitRollback PROVE RecordInv'
  BY <1>5
  DEF SubmitRollback, Call, Goto
<1>6. ASSUME NEW c \in Cancels, CancelLoad(c) PROVE RecordInv'
  BY <1>6
  DEF CancelLoad, Goto
<1>7. ASSUME NEW c \in Cancels, CancelPurge(c) PROVE RecordInv'
  BY <1>7
  DEF CancelPurge, Goto
<1>8. ASSUME NEW c \in Cancels, CancelFlag(c) PROVE RecordInv'
  BY <1>8
  DEF CancelFlag, Call, Goto
<1>9. ASSUME NEW w \in Runners, Deliver(w) PROVE RecordInv'
  BY <1>9
  DEF Deliver, Goto
<1>10. ASSUME ArqGivesUp PROVE RecordInv'
  BY <1>10
  DEF ArqGivesUp
<1>11. ASSUME NEW w \in Runners, RunLoad(w) PROVE RecordInv'
  BY <1>11
  DEF RunLoad, Goto, Finish
<1>12. ASSUME NEW w \in Runners, RunCheckCancel(w) PROVE RecordInv'
  BY <1>12
  DEF RunCheckCancel, Call, Goto
<1>13. ASSUME NEW w \in Runners, RunCreds(w) PROVE RecordInv'
  BY <1>13
  DEF RunCreds, Goto, Funnel, Redeliver, Call
<1>14. ASSUME NEW w \in Runners, AgentStep(w) PROVE RecordInv'
  BY <1>14
  DEF AgentStep, Goto
<1>15. ASSUME NEW w \in Runners, StepCheckCancel(w) PROVE RecordInv'
  BY <1>15
  DEF StepCheckCancel, Call, Goto
<1>16. ASSUME NEW w \in Runners, ProgressRead(w) PROVE RecordInv'
  BY <1>16
  DEF ProgressRead, Goto
<1>17. ASSUME NEW w \in Runners, ProgressSave(w) PROVE RecordInv'
  BY <1>17
  DEF ProgressSave, Goto
<1>18. ASSUME NEW w \in Runners, AgentFinish(w) PROVE RecordInv'
  BY <1>18
  DEF AgentFinish, Goto
<1>19. ASSUME NEW w \in Runners, PersistProposal(w) PROVE RecordInv'
  BY <1>19
  DEF PersistProposal
<1>20. ASSUME NEW w \in Runners, SaveResult(w) PROVE RecordInv'
  BY <1>20
  DEF SaveResult, Call, Goto
<1>21. ASSUME NEW w \in Runners, TimeoutFires(w) PROVE RecordInv'
  BY <1>21
  DEF TimeoutFires, Call, Goto
<1>22. ASSUME NEW w \in Runners, RunnerError(w) PROVE RecordInv'
  BY <1>22
  DEF RunnerError, Funnel, Redeliver, Call, InTry, Goto
<1>23. ASSUME NEW w \in Runners, Crash(w) PROVE RecordInv'
  BY <1>23
  DEF Crash, Goto
<1>24. ASSUME NEW w \in Runners, RunnerAborts(w) PROVE RecordInv'
  BY <1>24
  DEF RunnerAborts, Finish, Goto
<1>25. ASSUME NEW w \in Runners, LockExpires(w) PROVE RecordInv'
  BY <1>25
  DEF LockExpires
<1>26. ASSUME NEW p \in Api, ApiAborts(p) PROVE RecordInv'
  BY <1>26
  DEF ApiAborts, Goto
<1>27. ASSUME ExpireJob PROVE RecordInv'
  BY <1>27
  DEF ExpireJob, Absent, Consistent, TERMINAL_STATES
<1>28. ASSUME ExpireToken PROVE RecordInv'
  BY <1>28
  DEF ExpireToken
<1>29. ASSUME NEW p \in Procs, TransitionRead(p) PROVE RecordInv'
  <2> DEFINE a == IF to[p] = "running" THEN attempt[p] ELSE NoAttempt
  <2>1. CASE MayMove(job.status, to[p])
    <3>1. /\ job \in Records /\ to[p] \in JobStatus /\ a \in 0 .. MaxAttempts
          /\ err[p] \in JobErrorCode \cup {NoError}
      BY AttemptsPositive DEF RedisTypeOK, NoAttempt
    <3>2. a > 0 <=> to[p] = "running"
      <4>1. CASE to[p] = "running"
        BY <1>29, <4>1 DEF TransitionRead, CallInv, TransitionPcs
      <4>2. CASE to[p] # "running"
        BY <4>2 DEF NoAttempt
      <4>3. QED
        BY <4>1, <4>2
    <3>3. err[p] # NoError <=> to[p] = "failed"
      BY <1>29 DEF TransitionRead, CallInv, TransitionPcs
    <3>4. Consistent(Transitioned(job, to[p], a, err[p]))
      BY <2>1, <3>1, <3>2, <3>3, TransitionedConsistent
    <3>5. QED
      BY <1>29, <2>1, <3>4 DEF TransitionRead
  <2>2. CASE ~MayMove(job.status, to[p])
    BY <1>29, <2>2 DEF TransitionRead
  <2>3. QED
    BY <2>1, <2>2
<1>30. ASSUME NEW p \in Procs, TransitionSave(p) PROVE RecordInv'
  BY <1>30
  DEF TransitionSave, Goto
<1>31. ASSUME NEW p \in Procs, TransitionPurge(p) PROVE RecordInv'
  BY <1>31
  DEF TransitionPurge, Goto
<1>32. ASSUME NEW p \in Procs, TransitionClear(p) PROVE RecordInv'
  BY <1>32
  DEF TransitionClear, Return, Finish, Goto
<1>33. ASSUME ExpireOther PROVE RecordInv'
  BY <1>33, OtherKeysExpire
<1>34. CASE UNCHANGED vars
  BY <1>34 DEF vars
<1>35. QED
  BY <1>1, <1>2, <1>3, <1>4, <1>5, <1>6, <1>7, <1>8, <1>9, <1>10, <1>11, <1>12,
     <1>13, <1>14, <1>15, <1>16, <1>17, <1>18, <1>19, <1>20, <1>21, <1>22,
     <1>23, <1>24, <1>25, <1>26, <1>27, <1>28, <1>29, <1>30, <1>31, <1>32,
     <1>33, <1>34
  DEF Next, SubmitNext, CancelNext, RunnerNext, FaultNext, Transition

\* No action completes a job ahead of its result.
LEMMA ResultStep == TypeOK /\ CallInv /\ ResultInv /\ [Next]_vars => ResultInv'
<1> SUFFICES ASSUME TypeOK, CallInv, ResultInv, [Next]_vars PROVE ResultInv'
  OBVIOUS
<1> USE ProcsFacts
<1> USE DEF ResultInv, ResultSaved, TypeOK, RedisTypeOK, PcTypeOK, LocalTypeOK, redis, arq, locals, faults
<1>1. ASSUME SubmitEncrypt PROVE ResultInv'
  BY <1>1
  DEF SubmitEncrypt, Goto, TransitionPcs
<1>2. ASSUME SubmitStage PROVE ResultInv'
  BY <1>2
  DEF SubmitStage, Goto, TransitionPcs
<1>3. ASSUME SubmitCreate PROVE ResultInv'
  BY <1>3
  DEF SubmitCreate, Goto, NewRecord, TransitionPcs
<1>4. ASSUME SubmitEnqueue PROVE ResultInv'
  BY <1>4
  DEF SubmitEnqueue, Goto, TransitionPcs
<1>5. ASSUME SubmitRollback PROVE ResultInv'
  BY <1>5
  DEF SubmitRollback, Call, Goto, TransitionPcs
<1>6. ASSUME NEW c \in Cancels, CancelLoad(c) PROVE ResultInv'
  BY <1>6
  DEF CancelLoad, Goto, TransitionPcs
<1>7. ASSUME NEW c \in Cancels, CancelPurge(c) PROVE ResultInv'
  BY <1>7
  DEF CancelPurge, Goto, TransitionPcs
<1>8. ASSUME NEW c \in Cancels, CancelFlag(c) PROVE ResultInv'
  BY <1>8
  DEF CancelFlag, Call, Goto, TransitionPcs
<1>9. ASSUME NEW w \in Runners, Deliver(w) PROVE ResultInv'
  BY <1>9
  DEF Deliver, Goto, TransitionPcs
<1>10. ASSUME ArqGivesUp PROVE ResultInv'
  BY <1>10
  DEF ArqGivesUp, TransitionPcs
<1>11. ASSUME NEW w \in Runners, RunLoad(w) PROVE ResultInv'
  BY <1>11
  DEF RunLoad, Goto, Finish, TransitionPcs
<1>12. ASSUME NEW w \in Runners, RunCheckCancel(w) PROVE ResultInv'
  BY <1>12
  DEF RunCheckCancel, Call, Goto, TransitionPcs
<1>13. ASSUME NEW w \in Runners, RunCreds(w) PROVE ResultInv'
  BY <1>13
  DEF RunCreds, Goto, Funnel, Redeliver, Call, TransitionPcs
<1>14. ASSUME NEW w \in Runners, AgentStep(w) PROVE ResultInv'
  BY <1>14
  DEF AgentStep, Goto, TransitionPcs
<1>15. ASSUME NEW w \in Runners, StepCheckCancel(w) PROVE ResultInv'
  BY <1>15
  DEF StepCheckCancel, Call, Goto, TransitionPcs
<1>16. ASSUME NEW w \in Runners, ProgressRead(w) PROVE ResultInv'
  BY <1>16
  DEF ProgressRead, Goto, TransitionPcs
<1>17. ASSUME NEW w \in Runners, ProgressSave(w) PROVE ResultInv'
  BY <1>17
  DEF ProgressSave, Goto, TransitionPcs
<1>18. ASSUME NEW w \in Runners, AgentFinish(w) PROVE ResultInv'
  BY <1>18
  DEF AgentFinish, Goto, TransitionPcs
<1>19. ASSUME NEW w \in Runners, PersistProposal(w) PROVE ResultInv'
  BY <1>19
  DEF PersistProposal, TransitionPcs
<1>20. ASSUME NEW w \in Runners, SaveResult(w) PROVE ResultInv'
  BY <1>20
  DEF SaveResult, Call, Goto, TransitionPcs
<1>21. ASSUME NEW w \in Runners, TimeoutFires(w) PROVE ResultInv'
  BY <1>21
  DEF TimeoutFires, Call, Goto, TransitionPcs
<1>22. ASSUME NEW w \in Runners, RunnerError(w) PROVE ResultInv'
  BY <1>22
  DEF RunnerError, Funnel, Redeliver, Call, InTry, Goto, TransitionPcs
<1>23. ASSUME NEW w \in Runners, Crash(w) PROVE ResultInv'
  BY <1>23
  DEF Crash, Goto, TransitionPcs
<1>24. ASSUME NEW w \in Runners, RunnerAborts(w) PROVE ResultInv'
  BY <1>24
  DEF RunnerAborts, Finish, Goto, TransitionPcs
<1>25. ASSUME NEW w \in Runners, LockExpires(w) PROVE ResultInv'
  BY <1>25
  DEF LockExpires, TransitionPcs
<1>26. ASSUME NEW p \in Api, ApiAborts(p) PROVE ResultInv'
  BY <1>26
  DEF ApiAborts, Goto, TransitionPcs
<1>27. ASSUME ExpireJob PROVE ResultInv'
  BY <1>27
  DEF ExpireJob, Absent
<1>28. ASSUME ExpireToken PROVE ResultInv'
  BY <1>28
  DEF ExpireToken, TransitionPcs
<1>29. ASSUME NEW p \in Procs, TransitionRead(p) PROVE ResultInv'
  <2>1. CASE MayMove(job.status, to[p])
    BY <1>29, <2>1 DEF TransitionRead, Goto, Transitioned, TransitionPcs
  <2>2. CASE ~MayMove(job.status, to[p])
    <3>1. CASE p \in Api
      BY <1>29, <2>2, <3>1 DEF TransitionRead, Raise, Goto, TransitionPcs
    <3>2. CASE p \in Runners
      BY <1>29, <2>2, <3>2
      DEF TransitionRead, Raise, Funnel, Redeliver, Finish, Call, Goto, TransitionPcs
    <3>3. QED
      BY <3>1, <3>2
  <2>3. QED
    BY <2>1, <2>2
<1>30. ASSUME NEW p \in Procs, TransitionSave(p) PROVE ResultInv'
  BY <1>30
  DEF TransitionSave, Goto, TransitionPcs
<1>31. ASSUME NEW p \in Procs, TransitionPurge(p) PROVE ResultInv'
  BY <1>31
  DEF TransitionPurge, Goto, TransitionPcs
<1>32. ASSUME NEW p \in Procs, TransitionClear(p) PROVE ResultInv'
  BY <1>32
  DEF TransitionClear, Return, Finish, Goto, TransitionPcs
<1>33. ASSUME ExpireOther PROVE ResultInv'
  <2>1. CASE ExpireFlag
    BY <1>33, <2>1 DEF ExpireFlag
  <2>2. CASE ExpireResult
    BY <1>33, <2>2 DEF ExpireResult, NoResult
  <2>3. ASSUME NEW a \in ActionIds, ExpireProposal(a) PROVE ResultInv'
    BY <2>3 DEF ExpireProposal
  <2>4. QED
    BY <1>33, <2>1, <2>2, <2>3 DEF ExpireOther
<1>34. CASE UNCHANGED vars
  BY <1>34 DEF vars
<1>35. QED
  BY <1>1, <1>2, <1>3, <1>4, <1>5, <1>6, <1>7, <1>8, <1>9, <1>10, <1>11, <1>12,
     <1>13, <1>14, <1>15, <1>16, <1>17, <1>18, <1>19, <1>20, <1>21, <1>22,
     <1>23, <1>24, <1>25, <1>26, <1>27, <1>28, <1>29, <1>30, <1>31, <1>32,
     <1>33, <1>34
  DEF Next, SubmitNext, CancelNext, RunnerNext, FaultNext, Transition

\* No action reaches a job early or puts one back into the queue.
LEMMA OrderStep == TypeOK /\ CallInv /\ OrderInv /\ [Next]_vars => OrderInv'
<1> SUFFICES ASSUME TypeOK, CallInv, OrderInv, [Next]_vars PROVE OrderInv'
  OBVIOUS
<1> USE ProcsFacts
<1> USE DEF OrderInv, TypeOK, PcTypeOK, LocalTypeOK, redis, arq, locals, faults
<1>1. ASSUME SubmitEncrypt PROVE OrderInv'
  BY <1>1
  DEF SubmitEncrypt, Goto, TransitionPcs, StreamPcs
<1>2. ASSUME SubmitStage PROVE OrderInv'
  BY <1>2
  DEF SubmitStage, Goto, TransitionPcs, StreamPcs
<1>3. ASSUME SubmitCreate PROVE OrderInv'
  BY <1>3
  DEF SubmitCreate, Goto, TransitionPcs, StreamPcs
<1>4. ASSUME SubmitEnqueue PROVE OrderInv'
  BY <1>4
  DEF SubmitEnqueue, Goto, TransitionPcs, StreamPcs
<1>5. ASSUME SubmitRollback PROVE OrderInv'
  BY <1>5
  DEF SubmitRollback, Call, Goto, TransitionPcs, StreamPcs
<1>6. ASSUME NEW c \in Cancels, CancelLoad(c) PROVE OrderInv'
  BY <1>6
  DEF CancelLoad, Goto, TransitionPcs, StreamPcs
<1>7. ASSUME NEW c \in Cancels, CancelPurge(c) PROVE OrderInv'
  BY <1>7
  DEF CancelPurge, Goto, TransitionPcs, StreamPcs
<1>8. ASSUME NEW c \in Cancels, CancelFlag(c) PROVE OrderInv'
  BY <1>8
  DEF CancelFlag, Call, Goto, TransitionPcs, StreamPcs
<1>9. ASSUME NEW w \in Runners, Deliver(w) PROVE OrderInv'
  BY <1>9
  DEF Deliver, Goto, TransitionPcs, StreamPcs
<1>10. ASSUME ArqGivesUp PROVE OrderInv'
  BY <1>10
  DEF ArqGivesUp, TransitionPcs, StreamPcs
<1>11. ASSUME NEW w \in Runners, RunLoad(w) PROVE OrderInv'
  BY <1>11
  DEF RunLoad, Goto, Finish, TransitionPcs, StreamPcs
<1>12. ASSUME NEW w \in Runners, RunCheckCancel(w) PROVE OrderInv'
  BY <1>12
  DEF RunCheckCancel, Call, Goto, TransitionPcs, StreamPcs
<1>13. ASSUME NEW w \in Runners, RunCreds(w) PROVE OrderInv'
  BY <1>13
  DEF RunCreds, Goto, Funnel, Redeliver, Call, TransitionPcs, StreamPcs
<1>14. ASSUME NEW w \in Runners, AgentStep(w) PROVE OrderInv'
  BY <1>14
  DEF AgentStep, Goto, TransitionPcs, StreamPcs
<1>15. ASSUME NEW w \in Runners, StepCheckCancel(w) PROVE OrderInv'
  BY <1>15
  DEF StepCheckCancel, Call, Goto, TransitionPcs, StreamPcs
<1>16. ASSUME NEW w \in Runners, ProgressRead(w) PROVE OrderInv'
  BY <1>16
  DEF ProgressRead, Goto, TransitionPcs, StreamPcs
<1>17. ASSUME NEW w \in Runners, ProgressSave(w) PROVE OrderInv'
  BY <1>17
  DEF ProgressSave, Goto, TransitionPcs, StreamPcs
<1>18. ASSUME NEW w \in Runners, AgentFinish(w) PROVE OrderInv'
  BY <1>18
  DEF AgentFinish, Goto, TransitionPcs, StreamPcs
<1>19. ASSUME NEW w \in Runners, PersistProposal(w) PROVE OrderInv'
  BY <1>19
  DEF PersistProposal, TransitionPcs, StreamPcs
<1>20. ASSUME NEW w \in Runners, SaveResult(w) PROVE OrderInv'
  BY <1>20
  DEF SaveResult, Call, Goto, TransitionPcs, StreamPcs
<1>21. ASSUME NEW w \in Runners, TimeoutFires(w) PROVE OrderInv'
  BY <1>21
  DEF TimeoutFires, Call, Goto, TransitionPcs, StreamPcs
<1>22. ASSUME NEW w \in Runners, RunnerError(w) PROVE OrderInv'
  BY <1>22
  DEF RunnerError, Funnel, Redeliver, Call, InTry, Goto, TransitionPcs,
      StreamPcs
<1>23. ASSUME NEW w \in Runners, Crash(w) PROVE OrderInv'
  BY <1>23
  DEF Crash, Goto, TransitionPcs, StreamPcs
<1>24. ASSUME NEW w \in Runners, RunnerAborts(w) PROVE OrderInv'
  BY <1>24
  DEF RunnerAborts, Finish, Goto, TransitionPcs, StreamPcs
<1>25. ASSUME NEW w \in Runners, LockExpires(w) PROVE OrderInv'
  BY <1>25
  DEF LockExpires, TransitionPcs, StreamPcs
<1>26. ASSUME NEW p \in Api, ApiAborts(p) PROVE OrderInv'
  BY <1>26
  DEF ApiAborts, Goto, SubmitResponses, CancelResponses, StreamPcs
<1>27. ASSUME ExpireJob PROVE OrderInv'
  BY <1>27
  DEF ExpireJob, Absent
<1>28. ASSUME ExpireToken PROVE OrderInv'
  BY <1>28
  DEF ExpireToken, TransitionPcs, StreamPcs
<1>29. ASSUME NEW p \in Procs, TransitionRead(p) PROVE OrderInv'
  <2>1. CASE MayMove(job.status, to[p])
    <3>1. to[p] # "queued"
      BY <2>1 DEF MayMove
    <3>2. QED
      BY <1>29, <2>1, <3>1 DEF TransitionRead, Goto, Transitioned, StreamPcs
  <2>2. CASE ~MayMove(job.status, to[p])
    <3>1. CASE p \in Api
      BY ZenonT(40), <1>29, <2>2, <3>1 DEF TransitionRead, Raise, Goto, StreamPcs
    <3>2. CASE p \in Runners
      BY ZenonT(40), <1>29, <2>2, <3>2
      DEF TransitionRead, Raise, Funnel, Redeliver, Finish, Call, Goto, StreamPcs
    <3>3. QED
      BY <3>1, <3>2
  <2>3. QED
    BY <2>1, <2>2
<1>30. ASSUME NEW p \in Procs, TransitionSave(p) PROVE OrderInv'
  BY <1>30
  DEF TransitionSave, Goto, CallInv, TransitionPcs, StreamPcs
<1>31. ASSUME NEW p \in Procs, TransitionPurge(p) PROVE OrderInv'
  BY <1>31
  DEF TransitionPurge, Goto, TransitionPcs, StreamPcs
<1>32. ASSUME NEW p \in Procs, TransitionClear(p) PROVE OrderInv'
  BY ZenonT(40), <1>32
  DEF TransitionClear, Return, Finish, Goto, TransitionPcs, StreamPcs
<1>33. ASSUME ExpireOther PROVE OrderInv'
  BY <1>33, OtherKeysExpire
<1>34. CASE UNCHANGED vars
  BY <1>34 DEF vars
<1>35. QED
  BY <1>1, <1>2, <1>3, <1>4, <1>5, <1>6, <1>7, <1>8, <1>9, <1>10, <1>11, <1>12,
     <1>13, <1>14, <1>15, <1>16, <1>17, <1>18, <1>19, <1>20, <1>21, <1>22,
     <1>23, <1>24, <1>25, <1>26, <1>27, <1>28, <1>29, <1>30, <1>31, <1>32,
     <1>33, <1>34
  DEF Next, SubmitNext, CancelNext, RunnerNext, FaultNext, Transition

\* No action leaves a token behind a terminal record unnoticed.
LEMMA TokenStep == TypeOK /\ CallInv /\ OrderInv /\ TokenInv /\ [Next]_vars => TokenInv'
<1> SUFFICES ASSUME TypeOK, CallInv, OrderInv, TokenInv, [Next]_vars PROVE TokenInv'
  OBVIOUS
<1> USE ProcsFacts
<1> USE DEF TokenInv, TypeOK, PcTypeOK, LocalTypeOK, Purging, redis, arq, locals, faults
<1>1. ASSUME SubmitEncrypt PROVE TokenInv'
  BY <1>1
  DEF SubmitEncrypt, Goto, TransitionPcs
<1>2. ASSUME SubmitStage PROVE TokenInv'
  BY <1>2
  DEF SubmitStage, Goto, OrderInv, Absent, TERMINAL_STATES, TransitionPcs
<1>3. ASSUME SubmitCreate PROVE TokenInv'
  BY <1>3
  DEF SubmitCreate, Goto, NewRecord, TERMINAL_STATES, TransitionPcs
<1>4. ASSUME SubmitEnqueue PROVE TokenInv'
  BY <1>4
  DEF SubmitEnqueue, Goto, TransitionPcs
<1>5. ASSUME SubmitRollback PROVE TokenInv'
  BY <1>5
  DEF SubmitRollback, Call, Goto, TransitionPcs
<1>6. ASSUME NEW c \in Cancels, CancelLoad(c) PROVE TokenInv'
  BY <1>6
  DEF CancelLoad, Goto, TransitionPcs
<1>7. ASSUME NEW c \in Cancels, CancelPurge(c) PROVE TokenInv'
  BY <1>7
  DEF CancelPurge, Goto, TransitionPcs
<1>8. ASSUME NEW c \in Cancels, CancelFlag(c) PROVE TokenInv'
  BY <1>8
  DEF CancelFlag, Call, Goto, TransitionPcs
<1>9. ASSUME NEW w \in Runners, Deliver(w) PROVE TokenInv'
  BY <1>9
  DEF Deliver, Goto, TransitionPcs
<1>10. ASSUME ArqGivesUp PROVE TokenInv'
  BY <1>10
  DEF ArqGivesUp, TransitionPcs
<1>11. ASSUME NEW w \in Runners, RunLoad(w) PROVE TokenInv'
  BY <1>11
  DEF RunLoad, Goto, Finish, TransitionPcs
<1>12. ASSUME NEW w \in Runners, RunCheckCancel(w) PROVE TokenInv'
  BY <1>12
  DEF RunCheckCancel, Call, Goto, TransitionPcs
<1>13. ASSUME NEW w \in Runners, RunCreds(w) PROVE TokenInv'
  BY <1>13
  DEF RunCreds, Goto, Funnel, Redeliver, Call, TransitionPcs
<1>14. ASSUME NEW w \in Runners, AgentStep(w) PROVE TokenInv'
  BY <1>14
  DEF AgentStep, Goto, TransitionPcs
<1>15. ASSUME NEW w \in Runners, StepCheckCancel(w) PROVE TokenInv'
  BY <1>15
  DEF StepCheckCancel, Call, Goto, TransitionPcs
<1>16. ASSUME NEW w \in Runners, ProgressRead(w) PROVE TokenInv'
  BY <1>16
  DEF ProgressRead, Goto, TransitionPcs
<1>17. ASSUME NEW w \in Runners, ProgressSave(w) PROVE TokenInv'
  BY <1>17
  DEF ProgressSave, Goto, TransitionPcs
<1>18. ASSUME NEW w \in Runners, AgentFinish(w) PROVE TokenInv'
  BY <1>18
  DEF AgentFinish, Goto, TransitionPcs
<1>19. ASSUME NEW w \in Runners, PersistProposal(w) PROVE TokenInv'
  BY <1>19
  DEF PersistProposal, TransitionPcs
<1>20. ASSUME NEW w \in Runners, SaveResult(w) PROVE TokenInv'
  BY <1>20
  DEF SaveResult, Call, Goto, TransitionPcs
<1>21. ASSUME NEW w \in Runners, TimeoutFires(w) PROVE TokenInv'
  BY <1>21
  DEF TimeoutFires, Call, Goto, StreamPcs, TransitionPcs
<1>22. ASSUME NEW w \in Runners, RunnerError(w) PROVE TokenInv'
  <2>1. Purging => Purging'
    <3>1. \A q \in Procs : q # w => pc'[q] = pc[q]
      BY <1>22 DEF RunnerError, Funnel, Redeliver, Call, Goto
    <3>2. QED
      BY <1>22, <3>1 DEF RunnerError
  <2>2. pc'[w] \in {"idle", "t_read"} /\ \A q \in Procs : q # w => pc'[q] = pc[q]
    BY <1>22 DEF RunnerError, Funnel, Redeliver, Call, Goto
  <2>3. QED
    BY <1>22, <2>1, <2>2 DEF RunnerError
<1>23. ASSUME NEW w \in Runners, Crash(w) PROVE TokenInv'
  BY <1>23
  DEF Crash, Goto, TransitionPcs
<1>24. ASSUME NEW w \in Runners, RunnerAborts(w) PROVE TokenInv'
  BY <1>24
  DEF RunnerAborts, Finish, Goto, TransitionPcs
<1>25. ASSUME NEW w \in Runners, LockExpires(w) PROVE TokenInv'
  BY <1>25
  DEF LockExpires, TransitionPcs
<1>26. ASSUME NEW p \in Api, ApiAborts(p) PROVE TokenInv'
  BY <1>26
  DEF ApiAborts, Goto, TransitionPcs
<1>27. ASSUME ExpireJob PROVE TokenInv'
  BY <1>27
  DEF ExpireJob, Absent, TERMINAL_STATES
<1>28. ASSUME ExpireToken PROVE TokenInv'
  BY <1>28
  DEF ExpireToken, TransitionPcs
<1>29. ASSUME NEW p \in Procs, TransitionRead(p) PROVE TokenInv'
  BY ZenonT(40), <1>29
  DEF TransitionRead, Raise, Funnel, Redeliver, Finish, Call, Goto,
      TransitionPcs
<1>30. ASSUME NEW p \in Procs, TransitionSave(p) PROVE TokenInv'
  BY <1>30
  DEF TransitionSave, Goto, OrderInv, TransitionPcs
<1>31. ASSUME NEW p \in Procs, TransitionPurge(p) PROVE TokenInv'
  BY <1>31
  DEF TransitionPurge, Goto, TransitionPcs
<1>32. ASSUME NEW p \in Procs, TransitionClear(p) PROVE TokenInv'
  BY <1>32
  DEF TransitionClear, Return, Finish, Goto, TransitionPcs
<1>33. ASSUME ExpireOther PROVE TokenInv'
  BY <1>33, OtherKeysExpire
<1>34. CASE UNCHANGED vars
  BY <1>34 DEF vars
<1>35. QED
  BY <1>1, <1>2, <1>3, <1>4, <1>5, <1>6, <1>7, <1>8, <1>9, <1>10, <1>11, <1>12,
     <1>13, <1>14, <1>15, <1>16, <1>17, <1>18, <1>19, <1>20, <1>21, <1>22,
     <1>23, <1>24, <1>25, <1>26, <1>27, <1>28, <1>29, <1>30, <1>31, <1>32,
     <1>33, <1>34
  DEF Next, SubmitNext, CancelNext, RunnerNext, FaultNext, Transition

\* The inductive invariant holds initially.
LEMMA InitIInv == Init => IInv
<1> SUFFICES ASSUME Init PROVE IInv
  OBVIOUS
<1> USE ProcsFacts DEF Init
<1>0. Absent \in Records
  BY AttemptsPositive DEF Absent, Records
<1>1. TypeOK
  <2>1. RedisTypeOK
    BY <1>0 DEF RedisTypeOK, NoResult
  <2>2. ArqTypeOK
    <3>1. tries \in 0 .. MaxAttempts
      BY AttemptsPositive
    <3>2. QED
      BY <3>1 DEF ArqTypeOK
  <2>3. PcTypeOK
    <3>1. \A p \in Procs : PcOK(p, pc[p])
      BY FlagsBoolean DEF PcOK, SubmitPcs, CancelPcs, RunnerPcs
    <3>2. QED
      BY <3>1 DEF PcTypeOK, PcOK
  <2>4. LocalTypeOK
    <3>1. attempt \in [Procs -> 0 .. MaxAttempts] /\ steps \in [Runners -> 0 .. MaxSteps]
      BY AttemptsPositive, BoundsNatural DEF NoAttempt
    <3>2. QED
      BY <1>0, <3>1 DEF LocalTypeOK, JobStatus
  <2>5. FaultTypeOK
    <3>1. crashes \in 0 .. MaxCrashes
      BY BoundsNatural
    <3>2. aborts \in 0 .. MaxAborts
      BY BoundsNatural
    <3>3. stalls \in 0 .. MaxStalls
      BY BoundsNatural
    <3>4. QED
      BY <3>1, <3>2, <3>3 DEF FaultTypeOK
  <2>6. QED
    BY <2>1, <2>2, <2>3, <2>4, <2>5 DEF TypeOK
<1>2. CallInv
  BY DEF CallInv, TransitionPcs
<1>3. Consistent(Absent)
  BY DEF Consistent, Absent, TERMINAL_STATES
<1>4. RecordInv
  BY <1>3 DEF RecordInv
<1>5. ResultInv
  BY DEF ResultInv, NoResult, Absent, TransitionPcs
<1>6. OrderInv
  BY DEF OrderInv, StreamPcs
<1>7. TokenInv
  BY DEF TokenInv
<1>8. QED
  BY <1>1, <1>2, <1>4, <1>5, <1>6, <1>7 DEF IInv

\* The invariant behind every safety theorem of the lifecycle.
THEOREM Invariance == Spec => []IInv
<1>1. IInv /\ [Next]_vars => IInv'
  BY TypeStep, CallStep, RecordStep, ResultStep, OrderStep, TokenStep DEF IInv
<1>2. QED
  BY InitIInv, <1>1, PTL DEF Spec

\* Every reachable state has its type: whatever the interleaving, the record
\* stays a record and arq delivers a job at most JOB_MAX_ATTEMPTS times.
THEOREM TypeCorrect == Spec => []TypeOK
<1>1. IInv => TypeOK
  BY DEF IInv
<1>2. QED
  BY Invariance, <1>1, PTL

\* Writers that overwrite each other's record (transition, set_progress)
\* never leave a mixture of two lives of the job.
THEOREM RecordsNeverMix == Spec => []RecordConsistent
<1>1. IInv => RecordConsistent
  BY DEF IInv, RecordInv, RecordConsistent
<1>2. QED
  BY Invariance, <1>1, PTL

\* A COMPLETED job has its result and stored proposals, also when a stale
\* writer or a duplicate delivery wrote the status.
THEOREM ResultBeforeCompleted == Spec => []CompletedHasResult
<1>1. IInv => CompletedHasResult
  BY DEF IInv, ResultInv, ResultSaved, CompletedHasResult
<1>2. QED
  BY Invariance, <1>1, PTL

\* The staged token never outlives a terminal record, but for a purge that is
\* under way or was cut short.
THEOREM TokenPurged == Spec => []TokenPurgedWhenTerminal
<1>1. IInv => TokenPurgedWhenTerminal
  BY DEF IInv, TokenInv, TokenPurgedWhenTerminal, Purging
<1>2. QED
  BY Invariance, <1>1, PTL

\* After an acknowledged cancel the token is gone for good.
THEOREM CancelPurges == Spec => []AckedCancelPurged
<1>1. IInv => AckedCancelPurged
  BY DEF IInv, TokenInv, AckedCancelPurged
<1>2. QED
  BY Invariance, <1>1, PTL

\* No write, however stale, puts a job back into QUEUED.
LEMMA RequeueStep ==
  ASSUME IInv, [Next]_vars
  PROVE  job.status # "queued" /\ pc[Submit] # "create" => job'.status # "queued"
<1> DEFINE Step == job.status # "queued" /\ pc[Submit] # "create" => job'.status # "queued"
<1> USE ProcsFacts DEF redis, arq, locals, faults
<1>1. CASE SubmitCreate
  BY <1>1 DEF SubmitCreate
<1>2. ASSUME NEW p \in Procs, TransitionSave(p) PROVE Step
  BY <1>2 DEF TransitionSave, IInv, OrderInv, CallInv, TransitionPcs
<1>3. ASSUME NEW w \in Runners, ProgressSave(w) PROVE Step
  BY <1>3 DEF ProgressSave, IInv, OrderInv
<1>4. CASE ExpireJob
  BY <1>4 DEF ExpireJob, Absent
<1>5. CASE job' = job
  BY <1>5
<1>6. CASE UNCHANGED vars
  BY <1>6 DEF vars
<1>7. QED
  BY <1>1, <1>2, <1>3, <1>4, <1>5, <1>6, OtherKeysExpire
  DEF Next, SubmitNext, CancelNext, RunnerNext, FaultNext, Transition,
      SubmitEncrypt, SubmitStage, SubmitEnqueue, SubmitRollback,
      CancelLoad, CancelPurge, CancelFlag, Deliver, ArqGivesUp,
      RunLoad, RunCheckCancel, RunCreds, AgentStep, StepCheckCancel,
      ProgressRead, AgentFinish, PersistProposal, SaveResult, TimeoutFires,
      RunnerError, Crash, RunnerAborts, LockExpires, ApiAborts, ExpireToken,
      TransitionRead, TransitionPurge, TransitionClear

\* A stale write never brings a job back to QUEUED, in any interleaving.
THEOREM NoRequeue == Spec => NeverRequeued
<1>1. IInv /\ [Next]_vars =>
        [job.status # "queued" /\ pc[Submit] # "create" => job'.status # "queued"]_vars
  BY RequeueStep
<1>2. QED
  BY <1>1, Invariance, PTL DEF Spec, NeverRequeued

\* Only the submit stages a token, and it does so before any cancel begins.
LEMMA TokenStaysGone ==
  ASSUME IInv, [Next]_vars, ~token, token'
  PROVE  pc[Submit] = "stage"
<1>1. CASE SubmitStage
  BY <1>1 DEF SubmitStage
<1>2. CASE UNCHANGED vars
  BY <1>2 DEF vars, redis
<1>3. QED
  BY <1>1, <1>2, OtherKeysExpire
  DEF Next, SubmitNext, CancelNext, RunnerNext, FaultNext, Transition, redis,
      SubmitEncrypt, SubmitCreate, SubmitEnqueue, SubmitRollback,
      CancelLoad, CancelPurge, CancelFlag, Deliver, ArqGivesUp,
      RunLoad, RunCheckCancel, RunCreds, AgentStep, StepCheckCancel,
      ProgressRead, ProgressSave, AgentFinish, PersistProposal, SaveResult,
      TimeoutFires, RunnerError, Crash, RunnerAborts, LockExpires, ApiAborts,
      ExpireJob, ExpireToken,
      TransitionRead, TransitionSave, TransitionPurge, TransitionClear

\* Without an aborted handler a cancel ends in an error only where
\* transition() refuses its record.
LEMMA CancelErrorStep ==
  ASSUME IInv, [Next]_vars, NEW c \in Cancels, pc'[c] = "error", aborts' = 0
  PROVE  \/ pc[c] = "error" /\ aborts = 0
         \/ /\ pc[c] = "t_read" /\ ~MayMove(job.status, to[c])
            /\ job' = job /\ token' = token
<1> USE ProcsFacts DEF IInv, TypeOK, PcTypeOK, redis, arq, locals, faults
<1> DEFINE Goal == \/ pc[c] = "error" /\ aborts = 0
                   \/ /\ pc[c] = "t_read" /\ ~MayMove(job.status, to[c])
                      /\ job' = job /\ token' = token
<1>1. ASSUME NEW p \in Procs, TransitionRead(p) PROVE Goal
  <2>1. CASE p = c
    BY <1>1, <2>1 DEF TransitionRead, Goto
  <2>2. CASE p # c
    BY <1>1, <2>2 DEF TransitionRead, Raise, Funnel, Redeliver, Finish, Call, Goto
  <2>3. QED
    BY <2>1, <2>2
<1>2. ASSUME NEW p \in Procs, TransitionSave(p) \/ TransitionPurge(p) \/ TransitionClear(p)
      PROVE Goal
  BY <1>2 DEF TransitionSave, TransitionPurge, TransitionClear, Return, Finish, Goto
<1>3. ASSUME NEW p \in Api, ApiAborts(p) PROVE Goal
  BY <1>3 DEF ApiAborts, FaultTypeOK
<1>4. ASSUME NEW w \in Runners, RunnerAborts(w) PROVE Goal
  BY <1>4 DEF RunnerAborts, FaultTypeOK
<1>5. CASE SubmitNext /\ ~Transition(Submit)
  BY <1>5 DEF SubmitNext, SubmitEncrypt, SubmitStage, SubmitCreate, SubmitEnqueue,
              SubmitRollback, Call, Goto
<1>6. ASSUME NEW d \in Cancels, CancelLoad(d) \/ CancelPurge(d) \/ CancelFlag(d)
      PROVE Goal
  BY <1>6 DEF CancelLoad, CancelPurge, CancelFlag, Call, Goto
<1>7. ASSUME NEW w \in Runners,
             Deliver(w) \/ RunLoad(w) \/ RunCheckCancel(w) \/ RunCreds(w) \/ AgentStep(w)
             \/ StepCheckCancel(w) \/ ProgressRead(w) \/ ProgressSave(w) \/ AgentFinish(w)
      PROVE Goal
  BY <1>7 DEF Deliver, RunLoad, RunCheckCancel, RunCreds, AgentStep, StepCheckCancel,
              ProgressRead, ProgressSave, AgentFinish, Funnel, Redeliver, Finish, Call, Goto
<1>8. ASSUME NEW w \in Runners,
             PersistProposal(w) \/ SaveResult(w) \/ TimeoutFires(w) \/ RunnerError(w)
             \/ Crash(w) \/ LockExpires(w)
      PROVE Goal
  BY <1>8 DEF PersistProposal, SaveResult, TimeoutFires, RunnerError, Crash, LockExpires,
              Funnel, Redeliver, Call, Goto
<1>9. CASE ArqGivesUp \/ ExpireJob \/ ExpireToken \/ ExpireOther \/ UNCHANGED vars
  BY <1>9, OtherKeysExpire DEF ArqGivesUp, ExpireJob, ExpireToken, vars
<1>10. QED
  BY <1>1, <1>2, <1>3, <1>4, <1>5, <1>6, <1>7, <1>8, <1>9
  DEF Next, SubmitNext, CancelNext, RunnerNext, FaultNext, Transition

\* A cancel answered 500 has purged the token and leaves no job waiting, for
\* any number of concurrent cancels and deliveries.
THEOREM FailedCancels == Spec => []FailedCancelHarmless
<1>1. Init => FailedCancelHarmless
  BY ProcsFacts DEF Init, FailedCancelHarmless
<1>2. IInv /\ FailedCancelHarmless /\ [Next]_vars => FailedCancelHarmless'
  <2> SUFFICES ASSUME IInv, FailedCancelHarmless, [Next]_vars,
                      NEW c \in Cancels, aborts' = 0, pc'[c] = "error"
               PROVE  ~token' /\ job'.status # "queued"
    BY DEF FailedCancelHarmless
  <2> USE ProcsFacts
  <2>1. CASE pc[c] = "error" /\ aborts = 0
    <3>1. ~token /\ job.status # "queued"
      BY <2>1 DEF FailedCancelHarmless
    <3>2. pc[Submit] \notin {"stage", "create"}
      BY <2>1 DEF IInv, OrderInv
    <3>3. ~token'
      BY <3>1, <3>2, TokenStaysGone
    <3>4. job'.status # "queued"
      BY <3>1, <3>2, RequeueStep
    <3>5. QED
      BY <3>3, <3>4
  <2>2. CASE /\ pc[c] = "t_read" /\ ~MayMove(job.status, to[c])
             /\ job' = job /\ token' = token
    <3>1. ~token
      BY <2>2 DEF IInv, TokenInv, TransitionPcs
    <3>2. to[c] \in {"failed", "cancelled"}
      BY <2>2 DEF IInv, CallInv, TransitionPcs, TypeOK, LocalTypeOK, JobStatus
    <3>3. job.status # "queued"
      BY <2>2, <3>2 DEF MayMove
    <3>4. QED
      BY <2>2, <3>1, <3>3
  <2>3. QED
    BY <2>1, <2>2, CancelErrorStep
<1>3. QED
  BY Invariance, <1>1, <1>2, PTL DEF Spec
=============================================================================
