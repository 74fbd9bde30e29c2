---------------------------- MODULE Poll_proofs ----------------------------
(***************************************************************************)
(* What a consumer is told, whatever happens between the three reads of a  *)
(* poll, for any number of cancels and deliveries: a completed answer is   *)
(* complete, answers move forward, and an acknowledged cancel shows.       *)
(***************************************************************************)
EXTENDS Poll, JobDelivery_proofs

\* A poll that loaded a completed record will find its result unless that has
\* run out, and the last answer is still good.
PollInv ==
  /\ pollRec.status = "completed" => ResultSaved
  /\ AnswerComplete

Stored == proposals \cup lapsed

\* The job takes no result back and no proposal, and what ran out is not
\* forgotten.
LEMMA ResultKept ==
  ASSUME IInv, [Next]_vars
  PROVE  /\ ResultSaved => ResultSaved'
         /\ Stored \subseteq Stored'
         /\ lapsed \subseteq lapsed'
<1> USE DEF ResultSaved, Stored, redis, arq, locals, faults
<1> DEFINE Goal == /\ ResultSaved => ResultSaved'
                   /\ Stored \subseteq Stored'
                   /\ lapsed \subseteq lapsed'
<1>1. ASSUME NEW w \in Runners, SaveResult(w) PROVE Goal
  BY <1>1 DEF SaveResult
<1>2. ASSUME NEW w \in Runners, PersistProposal(w) PROVE Goal
  BY <1>2 DEF PersistProposal
<1>3. CASE UNCHANGED <<result, proposals, lapsed>>
  BY <1>3
<1>4. CASE UNCHANGED vars
  BY <1>4 DEF vars
<1>5. CASE ExpireOther
  BY <1>5 DEF ExpireOther, ExpireFlag, ExpireResult, ExpireProposal
<1>6. QED
  BY <1>1, <1>2, <1>3, <1>4, <1>5
  DEF Next, SubmitNext, CancelNext, RunnerNext, FaultNext, Transition,
      SubmitEncrypt, SubmitStage, SubmitCreate, SubmitEnqueue, SubmitRollback,
      CancelLoad, CancelPurge, CancelFlag, Deliver, ArqGivesUp,
      RunLoad, RunCheckCancel, RunCreds, AgentStep, StepCheckCancel,
      ProgressRead, ProgressSave, AgentFinish, TimeoutFires,
      RunnerError, Crash, RunnerAborts, LockExpires, ApiAborts, ExpireJob, ExpireToken,
      TransitionRead, TransitionSave, TransitionPurge, TransitionClear

(***************************************************************************)
(* The record moves forward while one process writes it.                   *)
(***************************************************************************)

\* b says nothing that takes a back.
Le(a, b) ==
  /\ a.status \in TERMINAL_STATES => b.status = a.status
  /\ a.status = "running" => b.status # "queued"
  /\ a.attempt <= b.attempt

LEMMA LeTransitive ==
  ASSUME NEW a, NEW b, NEW c, Le(a, b), Le(b, c), b.status \in JobStatus,
         a.attempt \in Nat, b.attempt \in Nat, c.attempt \in Nat
  PROVE  Le(a, c)
BY DEF Le, JobStatus, TERMINAL_STATES

Pending(w) == pc[w] \in {"t_save", "p_save"}

\* What a run is about to save is no step back from what Redis holds, and no
\* attempt is recorded before arq has counted it.
AheadInv ==
  /\ job.status = "absent" => job = Absent
  /\ \A w \in Runners : pc[w] = "p_save" => rec[w].status # "absent"
  /\ ~SecondWriter =>
       /\ job.attempt <= tries
       /\ \A w \in Runners : Pending(w) =>
            rec[w].attempt <= tries /\ (job.status # "absent" => Le(job, rec[w]))

\* A cancel was acknowledged and its flag was deleted: the job has ended, and
\* no run is left that could bring it back.
VisibleInv ==
  ~SecondWriter /\ ~cancelFlag /\ "cancel" \notin lapsed /\ (\E c \in Cancels : pc[c] = "requested") =>
    job.status \in Ended /\ ~entry /\ \A w \in Runners : pc[w] = "idle"

\* A second writer is never forgotten.
LEMMA SecondWriterStays == ASSUME IInv, [Next]_vars, SecondWriter PROVE SecondWriter'
<1> USE ProcsFacts
<1>0. stalls \in Nat
  BY BoundsNatural DEF IInv, TypeOK, FaultTypeOK
<1> USE <1>0 DEF SecondWriter, Only, redis, arq, locals, faults, counters
<1>1. ASSUME NEW p \in Api, ApiMoves(p) \/ ApiWrites(p) PROVE SecondWriter'
  BY <1>1 DEF ApiMoves, ApiWrites
<1>2. ASSUME NEW w \in Runners,
             RunnerStays(w) \/ RunnerWrites(w) \/ RunnerRetries(w) \/ RunnerEnds(w)
      PROVE  SecondWriter'
  BY <1>2 DEF RunnerStays, RunnerWrites, RunnerRetries, RunnerEnds, Api
<1>3. ASSUME NEW w \in Runners, Deliver(w) \/ Crash(w) \/ RunnerAborts(w) \/ LockExpires(w)
      PROVE  SecondWriter'
  BY <1>3 DEF Deliver, Crash, RunnerAborts, Finish, LockExpires
<1>4. QED
  BY <1>1, <1>2, <1>3, StepKinds, OtherKeysExpire
  DEF SubmitCreate, SubmitEnqueue, ArqGivesUp, ExpireJob, ExpireToken, vars

LEMMA AheadStep == IInv /\ DeliveryInv /\ AheadInv /\ [Next]_vars => AheadInv'
<1> SUFFICES ASSUME IInv, DeliveryInv, AheadInv, [Next]_vars PROVE AheadInv'
  OBVIOUS
<1> USE ProcsFacts, ProcessesDistinct, AttemptsPositive
<1>0. /\ stalls \in Nat /\ tries \in Nat /\ to \in [Procs -> JobStatus]
      /\ pc \in [Procs -> SubmitPcs \cup CancelPcs \cup RunnerPcs]
      /\ rec \in [Procs -> Records] /\ job \in Records
      /\ attempt \in [Procs -> 0 .. MaxAttempts]
  BY BoundsNatural DEF IInv, TypeOK, FaultTypeOK, PcTypeOK, LocalTypeOK, RedisTypeOK, ArqTypeOK
<1>s. ~SecondWriter' => ~SecondWriter
  BY SecondWriterStays
<1> USE <1>0, <1>s DEF AheadInv, Pending, Only, redis, arq, locals, faults, counters
<1>1. CASE SubmitCreate
  BY <1>1 DEF SubmitCreate, Goto, NewRecord, IInv, OrderInv
<1>2. CASE SubmitEnqueue
  BY <1>2 DEF SubmitEnqueue, Goto
<1>3. ASSUME NEW p \in Api, ApiMoves(p) PROVE AheadInv'
  BY <1>3 DEF ApiMoves
<1>4. ASSUME NEW p \in Api, ApiWrites(p) PROVE AheadInv'
  <2>1. to[p] # "queued" /\ rec[p].status = to[p]
    BY <1>4 DEF ApiWrites, IInv, OrderInv, CallInv, TransitionPcs
  <2>2. SecondWriter' /\ job'.status # "absent"
    BY <1>4, <2>1 DEF ApiWrites, SecondWriter, JobStatus
  <2>3. QED
    BY <1>4, <2>2 DEF ApiWrites
<1>5. ASSUME NEW w \in Runners, RunnerStays(w) PROVE AheadInv'
  <2>1. /\ UNCHANGED <<job, tries>>
        /\ \A v \in Runners : v # w => pc'[v] = pc[v] /\ rec'[v] = rec[v]
        /\ ~SecondWriter => attempt[w] = tries
    BY <1>5 DEF RunnerStays, DeliveryInv, SecondWriter
  <2>2. CASE pc'[w] = "t_save"
    <3>1. /\ MayMove(job.status, to'[w]) /\ rec'[w].status = to'[w]
          /\ rec'[w].attempt = IF to'[w] = "running" THEN attempt[w] ELSE job.attempt
      BY <1>5, <2>2 DEF RunnerStays
    <3>2. ~SecondWriter => rec'[w].attempt <= tries /\ job.attempt <= rec'[w].attempt
      BY <2>1, <3>1 DEF Records
    <3>3. ~SecondWriter => Le(job, rec'[w])
      BY <3>1, <3>2 DEF Le, MayMove, TERMINAL_STATES
    <3>4. QED
      BY <2>1, <2>2, <3>2, <3>3
  <2>3. CASE pc'[w] = "p_save"
    <3>1. rec'[w] = job /\ job.status # "absent"
      BY <1>5, <2>3 DEF RunnerStays
    <3>2. Le(job, job)
      BY DEF Le, Records
    <3>3. QED
      BY <2>1, <2>3, <3>1, <3>2
  <2>4. CASE pc'[w] \notin {"t_save", "p_save"}
    BY <2>1, <2>4
  <2>5. QED
    BY <2>2, <2>3, <2>4
<1>6. ASSUME NEW w \in Runners, RunnerWrites(w) PROVE AheadInv'
  <2>1. ~SecondWriter => \A v \in Runners : v # w => pc[v] = "idle"
    BY <1>6 DEF RunnerWrites, DeliveryInv, SecondWriter
  <2>2. rec[w].status # "absent" /\ Pending(w)
    BY <1>6 DEF RunnerWrites, IInv, OrderInv, JobStatus
  <2>3. job' = rec[w] /\ UNCHANGED <<tries, rec>> /\ pc'[w] \notin {"t_save", "p_save"}
    BY <1>6 DEF RunnerWrites
  <2>4. \A v \in Runners : v # w => pc'[v] = pc[v]
    BY <1>6 DEF RunnerWrites
  <2>5. QED
    BY <2>1, <2>2, <2>3, <2>4
<1>7. ASSUME NEW w \in Runners, RunnerRetries(w) \/ RunnerEnds(w) PROVE AheadInv'
  BY <1>7 DEF RunnerRetries, RunnerEnds
<1>8. ASSUME NEW w \in Runners, Deliver(w) PROVE AheadInv'
  BY <1>8 DEF Deliver, Goto, Records
<1>9. ASSUME NEW w \in Runners, Crash(w) PROVE AheadInv'
  BY <1>9 DEF Crash, Goto
<1>10. ASSUME NEW w \in Runners, RunnerAborts(w) PROVE AheadInv'
  BY <1>10 DEF RunnerAborts, Finish, Goto
<1>11. ASSUME NEW w \in Runners, LockExpires(w) PROVE AheadInv'
  BY <1>11 DEF LockExpires
<1>12. CASE ExpireJob
  BY <1>12 DEF ExpireJob, Absent
<1>13. CASE ArqGivesUp \/ ExpireToken \/ ExpireOther \/ UNCHANGED vars
  BY <1>13, OtherKeysExpire DEF ArqGivesUp, ExpireToken, vars
<1>14. QED
  BY <1>1, <1>2, <1>3, <1>4, <1>5, <1>6, <1>7, <1>8, <1>9, <1>10, <1>11, <1>12,
     <1>13, StepKinds

LEMMA VisibleStep ==
  IInv /\ DeliveryInv /\ SettledInv /\ VisibleInv /\ [Next]_vars => VisibleInv'
<1> SUFFICES ASSUME IInv, DeliveryInv, SettledInv, VisibleInv, [Next]_vars,
                    ~SecondWriter', ~cancelFlag', "cancel" \notin lapsed',
                    NEW c \in Cancels, pc'[c] = "requested"
             PROVE  /\ job'.status \in Ended /\ ~entry'
                    /\ \A w \in Runners : pc'[w] = "idle"
  BY DEF VisibleInv
<1> USE ProcsFacts, ProcessesDistinct
<1>0. /\ pc \in [Procs -> SubmitPcs \cup CancelPcs \cup RunnerPcs]
      /\ to \in [Procs -> JobStatus] /\ stalls = 0 /\ ~SecondWriter
      /\ "cancel" \notin lapsed
  BY SecondWriterStays, ResultKept, BoundsNatural
  DEF IInv, TypeOK, FaultTypeOK, PcTypeOK, LocalTypeOK, SecondWriter
<1> USE <1>0 DEF VisibleInv, Only, redis, arq, locals, faults, counters
<1>1. CASE SubmitCreate \/ SubmitEnqueue
  BY <1>1 DEF SubmitCreate, SubmitEnqueue, Goto, IInv, OrderInv
<1>2. ASSUME NEW p \in Api, ApiMoves(p)
      PROVE  /\ job.status \in Ended /\ ~entry /\ UNCHANGED <<job, entry>>
             /\ \A w \in Runners : pc[w] = "idle" /\ pc'[w] = pc[w]
  <2>1. pc[c] = "requested" /\ to[p] = "queued"
    BY <1>2 DEF ApiMoves, SecondWriter
  <2>2. ~cancelFlag
    BY <1>2, <2>1 DEF ApiMoves
  <2>3. QED
    BY <1>2, <2>1, <2>2 DEF ApiMoves
<1>3. ASSUME NEW p \in Api, ApiWrites(p) PROVE FALSE
  BY <1>3 DEF ApiWrites, IInv, CallInv, TransitionPcs, SecondWriter
<1>4. ASSUME NEW w \in Runners, RunnerStays(w) \/ RunnerWrites(w) \/ RunnerRetries(w)
      PROVE  FALSE
  <2>1. pc[c] = "requested" /\ ~cancelFlag /\ pc[w] # "idle"
    BY <1>4 DEF RunnerStays, RunnerWrites, RunnerRetries
  <2>2. QED
    BY <2>1
<1>5. ASSUME NEW w \in Runners, RunnerEnds(w)
      PROVE  /\ job'.status \in Ended /\ ~entry'
             /\ \A v \in Runners : pc'[v] = "idle"
  <2>1. job.status \in Ended
    BY <1>5 DEF RunnerEnds, SettledInv
  <2>2. \A v \in Runners : v # w => pc[v] = "idle"
    BY <1>5 DEF RunnerEnds, DeliveryInv
  <2>3. QED
    BY <1>5, <2>1, <2>2 DEF RunnerEnds
<1>6. ASSUME NEW w \in Runners, Deliver(w) \/ Crash(w) \/ RunnerAborts(w) PROVE FALSE
  BY <1>6 DEF Deliver, Crash, RunnerAborts, Finish, Goto
<1>7. ASSUME NEW w \in Runners, LockExpires(w) PROVE FALSE
  BY <1>7 DEF LockExpires, SecondWriter
<1>8. CASE ExpireJob
  BY <1>8 DEF ExpireJob, Absent, Ended
<1>9. CASE ArqGivesUp \/ ExpireToken \/ UNCHANGED vars
  BY <1>9 DEF ArqGivesUp, ExpireToken, vars
<1>10. CASE ExpireOther
  <2>1. cancelFlag' = cancelFlag
    BY <1>10 DEF ExpireOther, ExpireFlag, ExpireResult, ExpireProposal
  <2>2. QED
    BY <1>10, <2>1, OtherKeysExpire
<1>11. QED
  BY <1>1, <1>2, <1>3, <1>4, <1>5, <1>6, <1>7, <1>8, <1>9, <1>10, StepKinds

JobInv == IInv /\ DeliveryInv /\ SettledInv /\ AheadInv /\ VisibleInv

LEMMA JobInvariance == Spec => []JobInv
<1>1. Init => JobInv
  <2> SUFFICES ASSUME Init PROVE JobInv
    OBVIOUS
  <2>1. IInv
    BY InitIInv
  <2>2. DeliveryInv /\ SettledInv
    BY ProcsFacts, AttemptsPositive, FlagsBoolean DEF Init, DeliveryInv, DropNeedsFault, SettledInv
  <2>3. AheadInv /\ VisibleInv
    <3>1. job = Absent /\ tries = 0 /\ Absent.attempt = 0
      BY DEF Init, Absent
    <3>2. \A p \in Procs \ {Submit} : pc[p] = "idle"
      BY DEF Init
    <3>3. QED
      BY ProcsFacts, <3>1, <3>2 DEF AheadInv, VisibleInv, Pending
  <2>4. QED
    BY <2>1, <2>2, <2>3 DEF JobInv
<1>2. JobInv /\ [Next]_vars => JobInv'
  <2>1. IInv /\ [Next]_vars => IInv'
    BY TypeStep, CallStep, RecordStep, ResultStep, OrderStep, TokenStep DEF IInv
  <2>2. QED
    BY <2>1, DeliveryStep, SettledStep, AheadStep, VisibleStep DEF JobInv
<1>3. QED
  BY <1>1, <1>2, PTL DEF Spec

\* Polls leave the job alone: what is proved of it holds beside any number of
\* them.
LEMMA PollsReadOnly == PollSpec => Spec
<1>1. PollInit => Init
  BY DEF PollInit
<1>2. [PollNext]_<<vars, pollVars>> => [Next]_vars
  BY DEF PollNext
<1>3. QED
  BY <1>1, <1>2, PTL DEF PollSpec, Spec

LEMMA JobUnderPolls == PollSpec => []JobInv
BY PollsReadOnly, JobInvariance, PTL

\* A completed answer carries the findings, unless they ran out before they
\* were read, and only proposals that were stored, although record and result
\* are read at different times and any number of deliveries save results.
THEOREM AnswersComplete == PollSpec => []AnswerComplete
<1>1. PollInit => PollInv
  BY DEF PollInit, PollInv, AnswerComplete, NotFound, Answer, Absent
<1>2. IInv /\ PollInv /\ [PollNext]_<<vars, pollVars>> => PollInv'
  <2> SUFFICES ASSUME IInv, PollInv, [PollNext]_<<vars, pollVars>> PROVE PollInv'
    OBVIOUS
  <2> USE DEF PollInv, AnswerComplete, ResultSaved
  <2>1. CASE Next /\ UNCHANGED pollVars
    <3>1. /\ ResultSaved => ResultSaved'
          /\ Stored \subseteq Stored'
          /\ lapsed \subseteq lapsed'
      BY <2>1, ResultKept
    <3>2. pollRec' = pollRec /\ answer' = answer
      BY <2>1 DEF pollVars
    <3>3. QED
      BY <3>1, <3>2 DEF Stored
  <2>2. ASSUME UNCHANGED vars PROVE UNCHANGED <<result, proposals, lapsed>>
    BY <2>2 DEF vars, redis, faults
  <2>3. CASE PollLoad /\ UNCHANGED vars
    <3>1. CASE Respond(NotFound)
      <4>1. pollRec'.status = "absent" /\ answer'.status = "absent"
        BY <3>1 DEF Respond, NotFound, Answer, Absent
      <4>2. QED
        BY <4>1
    <3>2. CASE pollRec' = job /\ answer' = answer
      BY <2>2, <2>3, <3>2 DEF IInv, ResultInv
    <3>3. QED
      BY <2>3, <3>1, <3>2 DEF PollLoad
  <2>4. CASE PollFlag /\ UNCHANGED vars
    <3>1. CASE pollRec' = pollRec /\ answer' = answer
      BY <2>2, <2>4, <3>1
    <3>2. CASE pollRec.status # "completed" /\ Respond(Answer(pollRec, cancelFlag, NoResult))
      <4>1. pollRec'.status = "absent" /\ answer'.status = pollRec.status
        BY <3>2 DEF Respond, Answer, Absent
      <4>2. QED
        BY <3>2, <4>1
    <3>3. QED
      BY <2>4, <3>1, <3>2 DEF PollFlag
  <2>5. CASE PollResult /\ UNCHANGED vars
    <3>1. pollRec'.status = "absent" /\ answer' = Answer(pollRec, pollFlag, result)
      BY <2>5 DEF PollResult, Respond, Absent
    <3>2. result.actions \subseteq proposals \cup lapsed
      BY DEF IInv, ResultInv
    <3>3. QED
      BY <2>2, <2>5, <3>1, <3>2 DEF Answer
  <2>6. CASE UNCHANGED <<vars, pollVars>>
    BY <2>2, <2>6 DEF pollVars
  <2>7. QED
    BY <2>1, <2>3, <2>4, <2>5, <2>6 DEF PollNext
<1>3. PollInv => AnswerComplete
  BY DEF PollInv
<1>4. JobInv => IInv
  BY DEF JobInv
<1>5. QED
  BY JobUnderPolls, <1>1, <1>2, <1>3, <1>4, PTL DEF PollSpec

(***************************************************************************)
(* From one answer to the next.                                            *)
(***************************************************************************)

\* The record has not gone back on v, and no run is about to.
Known(v) ==
  v.status # "absent" =>
    /\ pc[Submit] = "accepted"
    /\ job.status # "absent" => Le(v, job)
    /\ \A w \in Runners : Pending(w) => Le(v, rec[w])

\* What the consumer was told, and what the poll under way has loaded, still
\* stands, in that order; an acknowledged cancel stays acknowledged.
ForwardInv ==
  /\ pollRec.attempt \in Nat /\ answer.attempt \in Nat
  /\ answer = NotFound \/ answer.status # "absent"
  /\ pollPc # "idle" => pollRec.status # "absent"
  /\ acked => \E c \in Cancels : pc[c] = "requested"
  /\ ~SecondWriter =>
       /\ Known(answer) /\ Known(pollRec)
       /\ pollPc # "idle" /\ answer.status # "absent" => Le(answer, pollRec)

\* What is known stays known through every step of the job.
LEMMA KnownStep ==
  ASSUME JobInv, [Next]_vars, ~SecondWriter', NEW v, v.attempt \in Nat, Known(v)
  PROVE  Known(v)'
<1> SUFFICES ASSUME v.status # "absent"
             PROVE  /\ pc'[Submit] = "accepted"
                    /\ job'.status # "absent" => Le(v, job')
                    /\ \A w \in Runners : pc'[w] \in {"t_save", "p_save"} => Le(v, rec'[w])
  BY DEF Known, Pending, Le
<1> USE ProcsFacts, ProcessesDistinct
<1>0. /\ pc \in [Procs -> SubmitPcs \cup CancelPcs \cup RunnerPcs]
      /\ to \in [Procs -> JobStatus] /\ stalls = 0 /\ ~SecondWriter
      /\ rec \in [Procs -> Records] /\ job \in Records
  BY SecondWriterStays, BoundsNatural
  DEF JobInv, IInv, TypeOK, FaultTypeOK, PcTypeOK, LocalTypeOK, RedisTypeOK, SecondWriter
<1>1. /\ pc[Submit] = "accepted"
      /\ job.status # "absent" => Le(v, job)
      /\ \A w \in Runners : pc[w] \in {"t_save", "p_save"} => Le(v, rec[w])
  BY DEF Known, Pending
<1> USE <1>0, <1>1 DEF Only, redis, arq, locals, faults, counters
<1>2. CASE SubmitCreate \/ SubmitEnqueue
  BY <1>2 DEF SubmitCreate, SubmitEnqueue
<1>3. ASSUME NEW p \in Api, ApiMoves(p)
      PROVE  /\ UNCHANGED job /\ pc'[Submit] = pc[Submit]
             /\ \A w \in Runners : pc'[w] = pc[w] /\ rec'[w] = rec[w]
  BY <1>3 DEF ApiMoves, SubmitResponses
<1>4. ASSUME NEW p \in Api, ApiWrites(p) PROVE FALSE
  BY <1>4 DEF ApiWrites, JobInv, IInv, CallInv, TransitionPcs, SecondWriter
<1>5. ASSUME NEW w \in Runners, RunnerStays(w), pc'[w] \in {"t_save", "p_save"}
      PROVE  Le(v, rec'[w])
  <2>1. job.status # "absent"
    BY <1>5 DEF RunnerStays, MayMove, JobInv, AheadInv
  <2>2. AheadInv'
    BY AheadStep DEF JobInv
  <2>3. job' = job
    BY <1>5 DEF RunnerStays
  <2>4. Le(job, rec'[w])
    BY <1>5, <2>1, <2>2, <2>3 DEF AheadInv, Pending, Le
  <2>5. rec'[w].attempt \in Nat
    BY <2>2, TypeStep DEF JobInv, IInv, TypeOK, LocalTypeOK, Records
  <2>6. job.status \in JobStatus /\ job.attempt \in Nat
    BY <2>1 DEF Records
  <2>7. QED
    BY <2>1, <2>4, <2>5, <2>6, LeTransitive
<1>6. ASSUME NEW w \in Runners, RunnerWrites(w)
      PROVE  /\ job' = rec[w] /\ Le(v, rec[w]) /\ UNCHANGED rec
             /\ \A u \in Procs : u # w => pc'[u] = pc[u]
             /\ pc'[w] \notin {"t_save", "p_save"}
  BY <1>6 DEF RunnerWrites
<1>7. ASSUME NEW w \in Runners, RunnerStays(w) \/ RunnerRetries(w) \/ RunnerEnds(w)
      PROVE  /\ UNCHANGED job
             /\ \A u \in Procs : u # w => pc'[u] = pc[u] /\ rec'[u] = rec[u]
             /\ ~RunnerStays(w) => pc'[w] = "idle"
  BY <1>7 DEF RunnerStays, RunnerRetries, RunnerEnds
<1>8. ASSUME NEW w \in Runners,
             Deliver(w) \/ Crash(w) \/ RunnerAborts(w) \/ LockExpires(w)
      PROVE  /\ UNCHANGED <<job, rec>>
             /\ \A u \in Procs : u # w => pc'[u] = pc[u]
             /\ pc'[w] \in {pc[w], "idle", "load"}
  BY <1>8 DEF Deliver, Crash, RunnerAborts, Finish, LockExpires, Goto
<1>9. CASE ExpireJob
  BY <1>9 DEF ExpireJob, Absent
<1>10. CASE ArqGivesUp \/ ExpireToken \/ ExpireOther \/ UNCHANGED vars
  BY <1>10, OtherKeysExpire DEF ArqGivesUp, ExpireToken, vars
<1>11. IInv
  BY DEF JobInv
<1>12. ASSUME NEW w \in Runners, RunnerStays(w) \/ RunnerRetries(w) \/ RunnerEnds(w)
       PROVE  /\ pc'[Submit] = "accepted"
              /\ job'.status # "absent" => Le(v, job')
              /\ \A u \in Runners : pc'[u] \in {"t_save", "p_save"} => Le(v, rec'[u])
  BY <1>5, <1>7, <1>12
<1>13. QED
  BY <1>2, <1>3, <1>4, <1>6, <1>8, <1>9, <1>10, <1>11, <1>12, StepKinds

\* A cancel that was answered stays answered.
LEMMA RequestedStays ==
  ASSUME IInv, Next, NEW c \in Cancels, pc[c] = "requested"
  PROVE  pc'[c] = "requested"
<1> USE ProcsFacts
<1>0. pc \in [Procs -> SubmitPcs \cup CancelPcs \cup RunnerPcs]
  BY DEF IInv, TypeOK, PcTypeOK
<1> USE <1>0 DEF Only, redis, arq, locals, faults, counters
<1>1. ASSUME NEW p \in Api, ApiMoves(p) \/ ApiWrites(p) PROVE pc'[c] = pc[c]
  BY <1>1 DEF ApiMoves, ApiWrites, CancelResponses
<1>2. ASSUME NEW w \in Runners,
             \/ RunnerStays(w) \/ RunnerWrites(w) \/ RunnerRetries(w) \/ RunnerEnds(w)
             \/ Deliver(w) \/ Crash(w) \/ RunnerAborts(w) \/ LockExpires(w)
      PROVE  pc'[c] = pc[c]
  BY <1>2 DEF RunnerStays, RunnerWrites, RunnerRetries, RunnerEnds,
              Deliver, Crash, RunnerAborts, Finish, LockExpires, Goto
<1>3. QED
  BY <1>1, <1>2, StepKinds, OtherKeysExpire
  DEF SubmitCreate, SubmitEnqueue, Goto, ArqGivesUp, ExpireJob, ExpireToken, vars

LEMMA ForwardStep ==
  JobInv /\ ForwardInv /\ [PollNext]_<<vars, pollVars>> => ForwardInv'
<1> SUFFICES ASSUME JobInv, ForwardInv, [PollNext]_<<vars, pollVars>> PROVE ForwardInv'
  OBVIOUS
<1>0. job \in Records /\ (job.status = "absent" <=> job = Absent)
  BY DEF JobInv, IInv, TypeOK, RedisTypeOK, AheadInv, Absent
<1>1. CASE Next /\ UNCHANGED pollVars
  <2>1. UNCHANGED <<pollPc, pollRec, acked, answer>>
    BY <1>1 DEF pollVars
  <2>2. ~SecondWriter' => Known(answer)' /\ Known(pollRec)'
    <3> SUFFICES ASSUME ~SecondWriter' PROVE Known(answer)' /\ Known(pollRec)'
      OBVIOUS
    <3>1. ~SecondWriter
      BY <1>1, SecondWriterStays DEF JobInv
    <3>2. ASSUME NEW v, v.attempt \in Nat, Known(v) PROVE Known(v)'
      BY <1>1, <3>2, KnownStep
    <3>3. QED
      BY <2>1, <3>1, <3>2 DEF ForwardInv, Known, Le
  <2>3. acked' => \E c \in Cancels : pc'[c] = "requested"
    BY <1>1, <2>1, RequestedStays DEF ForwardInv, JobInv
  <2>4. ~SecondWriter' => ~SecondWriter
    BY <1>1, SecondWriterStays DEF JobInv
  <2>5. QED
    BY <2>1, <2>2, <2>3, <2>4 DEF ForwardInv, Le
<1>2. CASE UNCHANGED vars /\ PollLoad
  <2>1. SecondWriter' = SecondWriter /\ pc' = pc
    BY <1>2 DEF SecondWriter, vars, faults, locals
  <2>2. CASE Respond(NotFound)
    <3>1. /\ pollRec'.status = "absent" /\ pollRec'.attempt = 0 /\ pollPc' = "idle"
          /\ answer' = NotFound /\ answer'.status = "absent" /\ answer'.attempt = 0
          /\ ~acked'
      BY <2>2 DEF Respond, NotFound, Answer, Absent
    <3>2. Known(answer)' /\ Known(pollRec)'
      BY <3>1 DEF Known
    <3>3. QED
      BY <3>1, <3>2 DEF ForwardInv
  <2>3. CASE /\ job # Absent /\ pollRec' = job /\ UNCHANGED answer
             /\ acked' = (\E c \in Cancels : pc[c] = "requested")
    <3>1. ~SecondWriter => Known(job)
      BY <1>0, <1>2, <2>3 DEF PollLoad, Known, JobInv, AheadInv, Le, Records
    <3>2. ~SecondWriter /\ answer.status # "absent" => Le(answer, job)
      BY <1>0, <2>3 DEF ForwardInv, Known
    <3>3. job.attempt \in Nat
      BY <1>0 DEF Records
    <3>4. Known(job) => Known(pollRec)'
      BY <1>2, <2>3 DEF Known, Le, Pending, vars, redis, locals
    <3>5. Known(answer) => Known(answer)'
      BY <1>2, <2>3 DEF Known, Le, Pending, vars, redis, locals
    <3>6. Le(answer, job) => Le(answer, pollRec)'
      BY <2>3 DEF Le
    <3>7. QED
      BY <1>0, <2>1, <2>3, <3>1, <3>2, <3>3, <3>4, <3>5, <3>6 DEF ForwardInv
  <2>4. QED
    BY <1>2, <2>2, <2>3 DEF PollLoad, AuthorizedJob
<1>3. CASE UNCHANGED vars /\ (PollFlag \/ PollResult)
  <2>1. SecondWriter' = SecondWriter /\ pc' = pc
    BY <1>3 DEF SecondWriter, vars, faults, locals
  <2>2. CASE UNCHANGED <<pollRec, acked, answer>> /\ pollPc # "idle"
    <3>1. (Known(pollRec) => Known(pollRec)') /\ (Known(answer) => Known(answer)')
      BY <1>3, <2>2 DEF Known, Le, Pending, vars, redis, locals
    <3>2. Le(answer, pollRec) => Le(answer, pollRec)'
      BY <2>2 DEF Le
    <3>3. QED
      BY <2>1, <2>2, <3>1, <3>2 DEF ForwardInv
  <2>3. ASSUME NEW f, NEW h, Respond(Answer(pollRec, f, h)), pollPc # "idle"
        PROVE  ForwardInv'
    <3>1. /\ answer'.status = pollRec.status /\ answer'.attempt = pollRec.attempt
          /\ pollPc' = "idle" /\ ~acked' /\ pollRec'.status = "absent"
          /\ pollRec'.attempt = 0
      BY <2>3 DEF Respond, Answer, Absent
    <3>2. Known(pollRec) => Known(answer)'
      BY <1>3, <3>1 DEF Known, Le, Pending, vars, redis, locals
    <3>3. Known(pollRec)'
      BY <3>1 DEF Known
    <3>4. QED
      BY <2>1, <2>3, <3>1, <3>2, <3>3 DEF ForwardInv
  <2>4. QED
    BY <1>3, <2>2, <2>3 DEF PollFlag, PollResult
<1>4. CASE UNCHANGED <<vars, pollVars>>
  <2>1. /\ UNCHANGED <<pollPc, pollRec, acked, answer, pc>> /\ SecondWriter' = SecondWriter
    BY <1>4 DEF pollVars, vars, locals, faults, SecondWriter
  <2>2. (Known(pollRec) => Known(pollRec)') /\ (Known(answer) => Known(answer)')
    BY <1>4, <2>1 DEF Known, Le, Pending, vars, redis, locals
  <2>3. QED
    BY <2>1, <2>2 DEF ForwardInv, Le
<1>5. QED
  BY <1>1, <1>2, <1>3, <1>4 DEF PollNext

LEMMA ForwardInvariance == PollSpec => [](JobInv /\ ForwardInv)
<1>1. PollInit => ForwardInv
  BY DEF PollInit, ForwardInv, NotFound, Answer, Absent, Known
<1>2. QED
  BY <1>1, ForwardStep, JobUnderPolls, PTL DEF PollSpec

\* While one process writes the record, answers never go back: an ended job
\* does not come to life again, nor a running one wait, nor an attempt count
\* drop, however long the poll that tells it was under way.
THEOREM AnswersForward == PollSpec => AnswersMoveForward
<1> DEFINE Step == /\ answer' # answer /\ NotFound \notin {answer, answer'} /\ ~SecondWriter
                   => /\ answer.status \in TERMINAL_STATES => answer'.status = answer.status
                      /\ answer.status = "running" => answer'.status # "queued"
                      /\ answer.attempt <= answer'.attempt
<1>1. JobInv /\ ForwardInv /\ [PollNext]_<<vars, pollVars>> => [Step]_<<vars, pollVars>>
  <2> SUFFICES ASSUME ForwardInv, PollNext, answer' # answer, answer # NotFound,
                      answer' # NotFound, ~SecondWriter
               PROVE  Le(answer, answer')
    BY DEF Le, pollVars
  <2>1. PICK f, h : Respond(Answer(pollRec, f, h)) /\ pollPc # "idle"
    BY DEF PollNext, pollVars, PollLoad, PollFlag, PollResult, Respond
  <2>2. answer'.status = pollRec.status /\ answer'.attempt = pollRec.attempt
    BY <2>1 DEF Respond, Answer
  <2>3. Le(answer, pollRec)
    BY <2>1 DEF ForwardInv
  <2>4. QED
    BY <2>2, <2>3 DEF Le
<1>2. QED
  BY <1>1, ForwardInvariance, PTL DEF PollSpec, AnswersMoveForward

\* A consumer that polls after its cancel was acknowledged is not told the job
\* runs on undisturbed: the flag is there until the run it stops has ended, or
\* until its own TTL.
THEOREM AckedCancelShows == PollSpec => AckedCancelVisible
<1> DEFINE Step == /\ pollPc = "flag" /\ pollPc' = "idle" /\ acked
                   /\ answer'.status = "running" /\ ~SecondWriter
                   => \/ answer'.cancelRequested
                      \/ job.status \in TERMINAL_STATES \cup {"absent"}
                      \/ "cancel" \in lapsed
<1>1. JobInv /\ ForwardInv /\ [PollNext]_<<vars, pollVars>> => [Step]_<<vars, pollVars>>
  <2> SUFFICES ASSUME JobInv, ForwardInv, PollNext, pollPc = "flag", pollPc' = "idle", acked,
                      ~SecondWriter, "cancel" \notin lapsed
               PROVE  answer'.cancelRequested \/ job.status \in Ended
    BY DEF Ended
  <2>1. Respond(Answer(pollRec, cancelFlag, NoResult))
    BY DEF PollNext, pollVars, PollLoad, PollFlag, PollResult
  <2>2. answer'.cancelRequested = cancelFlag
    BY <2>1 DEF Respond, Answer
  <2>3. cancelFlag \/ job.status \in Ended
    BY DEF ForwardInv, JobInv, VisibleInv
  <2>4. QED
    BY <2>2, <2>3
<1>2. QED
  BY <1>1, ForwardInvariance, PTL DEF PollSpec, AckedCancelVisible

=============================================================================
