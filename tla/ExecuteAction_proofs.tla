------------------------ MODULE ExecuteAction_proofs ------------------------
(***************************************************************************)
(* What /execute guarantees for every number of requests, rejections, keys *)
(* and proposals: first with overlapping requests, crashes and lost        *)
(* replies, then the at-most-once guarantee a client gets that waits for   *)
(* its answers.                                                            *)
(***************************************************************************)
EXTENDS ExecuteAction, TLAPS

\* Where a request stands tells what it has done.
ProgressInv ==
  /\ \A r \in Reqs : pc[r] \in {"record", "consume", "executed"} => r \in applied
  /\ \A r \in applied : pc[r] # "idle"
  /\ \A r \in Reqs : pc[r] = "replayed" => TookEffect(action[r], payload[r])
  /\ \A k \in Keys : idem[k] # NoRecord => TookEffect(idem[k].action, idem[k].payload)

IInv == TypeOK /\ ProgressInv /\ ConsumedForGood

USE DEF store

\* Every action keeps every variable to its type.
LEMMA TypeStep == TypeOK /\ [Next]_vars => TypeOK'
<1> SUFFICES ASSUME TypeOK, [Next]_vars PROVE TypeOK'
  OBVIOUS
<1> USE RequestsDistinct, ExecuteBounds DEF TypeOK, Procs, Goto
<1>1. ASSUME NEW r \in Reqs, Begin(r) PROVE TypeOK'
  <2>1. PICK a \in Actions, x \in Payloads, k \in Keys :
          /\ action'  = [action EXCEPT ![r] = a]
          /\ payload' = [payload EXCEPT ![r] = x]
          /\ key'     = [key EXCEPT ![r] = k]
          /\ Lookup(r, a, x, k)
    BY <1>1 DEF Begin
  <2>2. PICK l \in {"load", "replayed", "conflict"} : pc' = [pc EXCEPT ![r] = l]
    BY <2>1 DEF Lookup
  <2>3. pc' \in [Procs -> ReqPcs \cup RejectPcs]
    BY <2>2 DEF ReqPcs, ActivePcs, Refusals
  <2>4. QED
    BY <1>1, <2>1, <2>2, <2>3 DEF Begin
<1>2. ASSUME NEW r \in Reqs, Load(r) PROVE TypeOK'
  BY <1>2 DEF Load, AuthorizedProposal, ReqPcs, ActivePcs, Refusals
<1>3. ASSUME NEW r \in Reqs, DropExpired(r) PROVE TypeOK'
  BY <1>3 DEF DropExpired, ReqPcs, ActivePcs, Refusals
<1>4. ASSUME NEW r \in Reqs, Precheck(r) PROVE TypeOK'
  BY <1>4 DEF Precheck, CheckPreconditions, ReqPcs, ActivePcs, Refusals
<1>5. ASSUME NEW r \in Reqs, Mutate(r) PROVE TypeOK'
  BY <1>5 DEF Mutate, Applied, Refused, ReqPcs, ActivePcs, Refusals
<1>6. ASSUME NEW r \in Reqs, Record(r) PROVE TypeOK'
  BY <1>6 DEF Record, Request, Requests, ReqPcs, ActivePcs
<1>7. ASSUME NEW r \in Reqs, Consume(r) PROVE TypeOK'
  BY <1>7 DEF Consume, ReqPcs
<1>8. ASSUME NEW q \in Rejects, RejectLoad(q) PROVE TypeOK'
  BY <1>8 DEF RejectLoad, RejectPcs
<1>9. ASSUME NEW q \in Rejects, RejectDelete(q) PROVE TypeOK'
  BY <1>9 DEF RejectDelete, RejectPcs
<1>10. ASSUME NEW p \in Procs, Crash(p) PROVE TypeOK'
  BY <1>10 DEF Crash, ReqPcs, ActivePcs
<1>11. ASSUME NEW a \in Actions, Drift(a) PROVE TypeOK'
  BY <1>11 DEF Drift
<1>12. ASSUME NEW a \in Actions, Age(a) PROVE TypeOK'
  BY <1>12 DEF Age
<1>13. ASSUME NEW k \in Keys, ForgetOutcome(k) PROVE TypeOK'
  BY <1>13 DEF ForgetOutcome
<1>14. CASE UNCHANGED vars
  BY <1>14 DEF vars
<1>15. QED
  BY <1>1, <1>2, <1>3, <1>4, <1>5, <1>6, <1>7, <1>8, <1>9, <1>10, <1>11, <1>12,
     <1>13, <1>14 DEF Next

\* A mutation that took effect stays so, for requests keep what they asked for.
LEMMA EffectLasts ==
  ASSUME TypeOK, ProgressInv, applied \subseteq applied',
         \A r \in applied : action'[r] = action[r] /\ payload'[r] = payload[r],
         NEW a, NEW x, TookEffect(a, x)
  PROVE  TookEffect(a, x)'
BY DEF TookEffect

\* No action disturbs what a request's position says of it.
LEMMA ProgressStep == TypeOK /\ ProgressInv /\ [Next]_vars => ProgressInv'
<1> SUFFICES ASSUME TypeOK, ProgressInv, [Next]_vars PROVE ProgressInv'
  OBVIOUS
<1> USE RequestsDistinct DEF TypeOK, Procs, Goto
<1>1. ASSUME NEW r \in Reqs, Begin(r) PROVE ProgressInv'
  <2>1. PICK a \in Actions, x \in Payloads, k \in Keys :
          /\ action'  = [action EXCEPT ![r] = a]
          /\ payload' = [payload EXCEPT ![r] = x]
          /\ key'     = [key EXCEPT ![r] = k]
          /\ Lookup(r, a, x, k)
    BY <1>1 DEF Begin
  <2>2. PICK l \in {"load", "replayed", "conflict"} :
          /\ pc' = [pc EXCEPT ![r] = l]
          /\ l = "replayed" => idem[k] = Request(a, x) /\ idem[k] # NoRecord
    BY <2>1 DEF Lookup
  <2>3. r \notin applied /\ UNCHANGED <<applied, idem>>
    BY <1>1 DEF Begin, ProgressInv
  <2>4. \A b, y : TookEffect(b, y) => TookEffect(b, y)'
    BY <2>1, <2>3, EffectLasts
  <2>5. l = "replayed" => TookEffect(a, x)
    BY <2>2 DEF ProgressInv, Request
  <2>6. QED
    BY <2>1, <2>2, <2>3, <2>4, <2>5 DEF ProgressInv
<1>2. ASSUME NEW r \in Reqs, Load(r) PROVE ProgressInv'
  <2>1. \A b, y : TookEffect(b, y) => TookEffect(b, y)'
    BY <1>2 DEF Load, AuthorizedProposal, TookEffect
  <2>2. QED
    BY <1>2, <2>1 DEF Load, AuthorizedProposal, ProgressInv
<1>3. ASSUME NEW r \in Reqs, DropExpired(r) \/ Precheck(r) \/ Consume(r)
      PROVE ProgressInv'
  <2>1. \A b, y : TookEffect(b, y) => TookEffect(b, y)'
    BY <1>3 DEF DropExpired, Precheck, CheckPreconditions, Consume, TookEffect
  <2>2. QED
    BY <1>3, <2>1 DEF DropExpired, Precheck, CheckPreconditions, Consume, ProgressInv
<1>4. ASSUME NEW r \in Reqs, Mutate(r) PROVE ProgressInv'
  <2>1. applied \subseteq applied' /\ applied' \subseteq applied \cup {r}
    BY <1>4 DEF Mutate, Applied, Refused
  <2>2. \A b, y : TookEffect(b, y) => TookEffect(b, y)'
    BY <1>4, <2>1, EffectLasts DEF Mutate
  <2>3. PICK l \in {"record", "downstream", "error"} :
          pc' = [pc EXCEPT ![r] = l] /\ (l = "record" => r \in applied')
    BY <1>4 DEF Mutate, Applied, Refused
  <2>4. QED
    BY <1>4, <2>1, <2>2, <2>3 DEF Mutate, ProgressInv
<1>5. ASSUME NEW r \in Reqs, Record(r) PROVE ProgressInv'
  <2>1. \A b, y : TookEffect(b, y) => TookEffect(b, y)'
    BY <1>5 DEF Record, TookEffect
  <2>2. TookEffect(action[r], payload[r])
    BY <1>5 DEF Record, ProgressInv, TookEffect
  <2>3. QED
    BY <1>5, <2>1, <2>2 DEF Record, ProgressInv, Request
<1>6. ASSUME NEW q \in Rejects, RejectLoad(q) \/ RejectDelete(q) PROVE ProgressInv'
  <2>1. \A r \in Reqs : action'[r] = action[r] /\ pc'[r] = pc[r]
    BY <1>6 DEF RejectLoad, RejectDelete
  <2>2. \A b, y : TookEffect(b, y) => TookEffect(b, y)'
    BY <1>6, <2>1 DEF RejectLoad, RejectDelete, TookEffect
  <2>3. QED
    BY <1>6, <2>1, <2>2 DEF RejectLoad, RejectDelete, ProgressInv
<1>7. ASSUME NEW p \in Procs, Crash(p) PROVE ProgressInv'
  <2>1. \A b, y : TookEffect(b, y) => TookEffect(b, y)'
    BY <1>7 DEF Crash, TookEffect
  <2>2. QED
    BY <1>7, <2>1 DEF Crash, ProgressInv
<1>8. ASSUME UNCHANGED <<idem, applied, pc, action, payload, key>> PROVE ProgressInv'
  <2>1. \A b, y : TookEffect(b, y) => TookEffect(b, y)'
    BY <1>8 DEF TookEffect
  <2>2. QED
    BY <1>8, <2>1 DEF ProgressInv
<1>9. ASSUME NEW k \in Keys, ForgetOutcome(k) PROVE ProgressInv'
  <2>1. \A b, y : TookEffect(b, y) => TookEffect(b, y)'
    BY <1>9 DEF ForgetOutcome, TookEffect
  <2>2. QED
    BY <1>9, <2>1 DEF ForgetOutcome, ProgressInv
<1>10. QED
  BY <1>1, <1>2, <1>3, <1>4, <1>5, <1>6, <1>7, <1>8, <1>9 DEF Next, Drift, Age, vars

\* A consumed or rejected proposal does not come back.
LEMMA ConsumedStep == TypeOK /\ ConsumedForGood /\ [Next]_vars => ConsumedForGood'
<1> SUFFICES ASSUME TypeOK, ConsumedForGood, [Next]_vars PROVE ConsumedForGood'
  OBVIOUS
<1> USE RequestsDistinct DEF TypeOK, Procs, Goto, ConsumedForGood
<1>1. ASSUME NEW r \in Reqs, Begin(r) PROVE ConsumedForGood'
  BY <1>1 DEF Begin, Lookup
<1>2. ASSUME NEW r \in Reqs, Load(r) \/ Precheck(r) PROVE ConsumedForGood'
  BY <1>2 DEF Load, AuthorizedProposal, Precheck, CheckPreconditions
<1>3. ASSUME NEW r \in Reqs, DropExpired(r) \/ Consume(r) PROVE ConsumedForGood'
  BY <1>3 DEF DropExpired, Consume
<1>4. ASSUME NEW r \in Reqs, Mutate(r) PROVE ConsumedForGood'
  BY <1>4 DEF Mutate, Applied, Refused
<1>5. ASSUME NEW r \in Reqs, Record(r) PROVE ConsumedForGood'
  BY <1>5 DEF Record
<1>6. ASSUME NEW q \in Rejects, RejectLoad(q) PROVE ConsumedForGood'
  BY <1>6 DEF RejectLoad
<1>7. ASSUME NEW q \in Rejects, RejectDelete(q) PROVE ConsumedForGood'
  BY <1>7 DEF RejectDelete
<1>8. ASSUME NEW p \in Procs, Crash(p) PROVE ConsumedForGood'
  BY <1>8 DEF Crash
<1>9. ASSUME NEW a \in Actions, Drift(a) \/ Age(a) PROVE ConsumedForGood'
  BY <1>9 DEF Drift, Age
<1>10. CASE UNCHANGED vars
  BY <1>10 DEF vars
<1>11. ASSUME NEW k \in Keys, ForgetOutcome(k) PROVE ConsumedForGood'
  BY <1>11 DEF ForgetOutcome
<1>12. QED
  BY <1>1, <1>2, <1>3, <1>4, <1>5, <1>6, <1>7, <1>8, <1>9, <1>10, <1>11 DEF Next

\* The invariant behind the theorems about overlapping requests.
THEOREM Invariance == Spec => []IInv
<1>1. Init => IInv
  <2> SUFFICES ASSUME Init PROVE IInv
    OBVIOUS
  <2>1. TypeOK
    BY ExecuteBounds DEF Init, TypeOK, Procs, ReqPcs
  <2>2. ProgressInv
    BY DEF Init, ProgressInv, Procs
  <2>3. QED
    BY <2>1, <2>2 DEF Init, IInv, ConsumedForGood
<1>2. IInv /\ [Next]_vars => IInv'
  BY TypeStep, ProgressStep, ConsumedStep DEF IInv
<1>3. QED
  BY <1>1, <1>2, PTL DEF Spec

\* Every reachable state has its type.
THEOREM TypeCorrect == Spec => []TypeOK
<1>1. IInv => TypeOK
  BY DEF IInv
<1>2. QED
  BY Invariance, <1>1, PTL

\* An executed or replayed answer, and every idempotency record, stands for a
\* mutation that took effect, however requests overlap, fail and reuse keys.
THEOREM AnswersAreTrue == Spec => []AnswerMeansApplied
<1>1. IInv => AnswerMeansApplied
  BY DEF IInv, ProgressInv, AnswerMeansApplied, TookEffect
<1>2. QED
  BY Invariance, <1>1, PTL

\* After the answer to an execute or a rejection the proposal stays gone.
THEOREM ConsumedStaysConsumed == Spec => []ConsumedForGood
<1>1. IInv => ConsumedForGood
  BY DEF IInv
<1>2. QED
  BY Invariance, <1>1, PTL

(***************************************************************************)
(* A client that waits for each answer: an action takes effect twice only  *)
(* when one of the two requests was never answered.                        *)
(***************************************************************************)

\* One request at a time; a request past its load is the first to touch its
\* action, faults apart; what took effect is consumed, or its request is about
\* to do so, or it was never answered.
SequentialInv ==
  /\ \A r, q \in Reqs : pc[r] \in ActivePcs /\ pc[q] \in ActivePcs => r = q
  /\ \A r \in Reqs, q \in applied :
       pc[r] \in {"precheck", "mutate"} => action[q] # action[r] \/ Unanswered(q)
  /\ \A q \in applied :
       \/ pc[q] \in {"record", "consume"} \/ Unanswered(q)
       \/ pc[q] = "executed" /\ proposals[action[q]] = "absent"

\* What RepeatNeedsFault says of such a client.
NoRepeat ==
  \A r, q \in applied : action[r] = action[q] /\ r # q => Unanswered(r) \/ Unanswered(q)

\* Without overlap every step keeps SequentialInv.
LEMMA SequentialStep ==
  ASSUME overlaps' = {}
  PROVE  IInv /\ SequentialInv /\ NoRepeat /\ [Next]_vars => SequentialInv' /\ NoRepeat'
<1> SUFFICES ASSUME IInv, SequentialInv, NoRepeat, [Next]_vars
             PROVE  SequentialInv' /\ NoRepeat'
  OBVIOUS
<1> USE RequestsDistinct DEF IInv, TypeOK, Procs, Goto, SequentialInv, NoRepeat, Unanswered
<1>1. ASSUME NEW r \in Reqs, Begin(r) PROVE SequentialInv' /\ NoRepeat'
  <2>1. /\ \A q \in Reqs : pc[q] \notin ActivePcs
        /\ r \notin applied
        /\ \A q \in Reqs : q # r => pc'[q] = pc[q] /\ action'[q] = action[q]
        /\ pc'[r] \in {"load", "replayed", "conflict"}
        /\ UNCHANGED <<applied, proposals>>
    BY <1>1 DEF Begin, Lookup, ProgressInv
  <2>2. QED
    BY <2>1 DEF ActivePcs
<1>2. ASSUME NEW r \in Reqs, Load(r) PROVE SequentialInv' /\ NoRepeat'
  <2>1. proposals[action[r]] = "live" =>
          \A q \in applied : action[q] # action[r] \/ Unanswered(q)
    BY <1>2 DEF Load, AuthorizedProposal, ActivePcs
  <2>2. /\ pc'[r] \in {"expired", "drop", "mismatch", "invalid", "precheck"}
        /\ pc'[r] = "precheck" => proposals[action[r]] = "live"
        /\ pc[r] = "load"
        /\ \A q \in Reqs : q # r => pc'[q] = pc[q]
        /\ UNCHANGED <<applied, proposals, action>>
    <3> HIDE DEF SequentialInv, NoRepeat
    <3>1. pc[r] = "load" /\ action[r] \in Actions /\ UNCHANGED <<applied, proposals, action>>
      BY <1>2 DEF Load
    <3>2. proposals[action[r]] \in {"live", "stale", "absent"}
      BY <3>1
    <3>3. PICK authorized \in AuthorizedProposal(action[r]) :
            pc' = [pc EXCEPT ![r] =
                     IF ~authorized THEN "expired"
                     ELSE IF proposals[action[r]] = "stale" THEN "drop"
                     ELSE IF Unexpected(action[r], payload[r]) # {} THEN "mismatch"
                     ELSE IF payload[r] \notin Valid THEN "invalid"
                     ELSE "precheck"]
      BY <1>2 DEF Load
    <3>4. authorized => proposals[action[r]] # "absent"
      BY <3>3 DEF AuthorizedProposal
    <3>5. QED
      BY <3>1, <3>2, <3>3, <3>4
  <2>3. \A q \in Reqs : pc'[q] \in ActivePcs => pc[q] \in ActivePcs
    BY <2>2 DEF ActivePcs
  <2>4. \A q \in applied : q # r /\ pc'[q] = pc[q]
    BY <2>2
  <2>5. QED
    BY <2>1, <2>2, <2>3, <2>4
<1>3. ASSUME NEW r \in Reqs, DropExpired(r) \/ Precheck(r)
      PROVE SequentialInv' /\ NoRepeat'
  <2>1. CASE DropExpired(r)
    BY <2>1 DEF DropExpired, ActivePcs
  <2>2. CASE Precheck(r)
    BY <2>2 DEF Precheck, CheckPreconditions, ActivePcs
  <2>3. QED
    BY <1>3, <2>1, <2>2
<1>4. ASSUME NEW r \in Reqs, Mutate(r) PROVE SequentialInv' /\ NoRepeat'
  BY <1>4 DEF Mutate, Applied, Refused, ActivePcs
<1>5. ASSUME NEW r \in Reqs, Record(r) PROVE SequentialInv' /\ NoRepeat'
  BY <1>5 DEF Record, ActivePcs
<1>6. ASSUME NEW r \in Reqs, Consume(r) PROVE SequentialInv' /\ NoRepeat'
  BY <1>6 DEF Consume, ActivePcs
<1>7. ASSUME NEW q \in Rejects, RejectLoad(q) PROVE SequentialInv' /\ NoRepeat'
  BY <1>7 DEF RejectLoad
<1>8. ASSUME NEW q \in Rejects, RejectDelete(q) PROVE SequentialInv' /\ NoRepeat'
  BY <1>8 DEF RejectDelete
<1>9. ASSUME NEW p \in Procs, Crash(p) PROVE SequentialInv' /\ NoRepeat'
  BY <1>9 DEF Crash, ActivePcs
<1>10. ASSUME NEW a \in Actions, Drift(a) \/ Age(a)
       PROVE SequentialInv' /\ NoRepeat'
  <2>1. CASE Drift(a)
    BY <2>1 DEF Drift
  <2>2. CASE Age(a)
    <3>1. \A q \in applied :
            proposals[action[q]] = "absent" => proposals'[action[q]] = "absent"
      BY <2>2 DEF Age, ProgressInv
    <3>2. QED
      BY <2>2, <3>1 DEF Age
  <2>3. QED
    BY <1>10, <2>1, <2>2
<1>11. CASE UNCHANGED vars
  BY <1>11 DEF vars
<1>12. ASSUME NEW k \in Keys, ForgetOutcome(k) PROVE SequentialInv' /\ NoRepeat'
  BY <1>12 DEF ForgetOutcome
<1>13. QED
  BY <1>1, <1>2, <1>3, <1>4, <1>5, <1>6, <1>7, <1>8, <1>9, <1>10, <1>11, <1>12 DEF Next

(***************************************************************************)
(* What the idempotency record means to such a client.                     *)
(***************************************************************************)

\* A request under way has its key to itself until it records its outcome, and
\* the record stays what it was when the answer was sent, until it runs out.
RecordInv ==
  /\ \A r \in Reqs : pc[r] \in ActivePcs \ {"consume"} => idem[key[r]] = NoRecord
  /\ \A r \in Reqs : pc[r] \in {"consume", "executed"} /\ key[r] \notin lapsed =>
       idem[key[r]] = Request(action[r], payload[r])

\* What a request asks for is never taken for a missing record.
LEMMA RequestIsRecord ==
  ASSUME TypeOK, NEW r \in Reqs, pc[r] # "idle"
  PROVE  Request(action[r], payload[r]) # NoRecord
BY NoRecordIsNone DEF TypeOK, Request, Requests

\* Without overlap every step keeps RecordInv.
LEMMA RecordStep ==
  ASSUME overlaps' = {}
  PROVE  IInv /\ SequentialInv /\ RecordInv /\ [Next]_vars => RecordInv'
<1> SUFFICES ASSUME IInv, SequentialInv, RecordInv, [Next]_vars PROVE RecordInv'
  OBVIOUS
<1> USE RequestsDistinct DEF IInv, TypeOK, Procs, Goto, RecordInv
<1>1. ASSUME NEW r \in Reqs, Begin(r) PROVE RecordInv'
  <2>1. PICK a \in Actions, x \in Payloads, k \in Keys :
          /\ action'  = [action EXCEPT ![r] = a]
          /\ payload' = [payload EXCEPT ![r] = x]
          /\ key'     = [key EXCEPT ![r] = k]
          /\ Lookup(r, a, x, k)
    BY <1>1 DEF Begin
  <2>2. PICK l \in {"load", "replayed", "conflict"} :
          pc' = [pc EXCEPT ![r] = l] /\ (l = "load" => idem[k] = NoRecord)
    BY <2>1 DEF Lookup
  <2>3. QED
    BY <1>1, <2>1, <2>2 DEF Begin, ActivePcs
<1>2. ASSUME NEW r \in Reqs, Load(r) PROVE RecordInv'
  BY <1>2 DEF Load, AuthorizedProposal, ActivePcs
<1>3. ASSUME NEW r \in Reqs, DropExpired(r) \/ Precheck(r) PROVE RecordInv'
  BY <1>3 DEF DropExpired, Precheck, CheckPreconditions, ActivePcs
<1>4. ASSUME NEW r \in Reqs, Mutate(r) PROVE RecordInv'
  BY <1>4 DEF Mutate, Applied, Refused, ActivePcs
<1>5. ASSUME NEW r \in Reqs, Record(r) PROVE RecordInv'
  <2>1. pc[r] = "record" /\ idem[key[r]] = NoRecord /\ key[r] \in Keys
    BY <1>5 DEF Record, ActivePcs
  <2>2. \A q \in Reqs : q # r => pc[q] \notin ActivePcs
    BY <2>1 DEF SequentialInv, ActivePcs
  <2>3. \A q \in Reqs : pc[q] = "executed" => key[q] # key[r] \/ key[q] \in lapsed
    BY <2>1, RequestIsRecord
  <2>4. QED
    BY <1>5, <2>1, <2>2, <2>3 DEF Record, ActivePcs
<1>6. ASSUME NEW r \in Reqs, Consume(r) PROVE RecordInv'
  BY <1>6 DEF Consume, ActivePcs
<1>7. ASSUME NEW q \in Rejects, RejectLoad(q) \/ RejectDelete(q) PROVE RecordInv'
  BY <1>7 DEF RejectLoad, RejectDelete
<1>8. ASSUME NEW p \in Procs, Crash(p) PROVE RecordInv'
  BY <1>8 DEF Crash, ActivePcs
<1>9. ASSUME NEW k \in Keys, ForgetOutcome(k) PROVE RecordInv'
  BY <1>9 DEF ForgetOutcome
<1>10. CASE UNCHANGED <<idem, lapsed, pc, action, payload, key>>
  BY <1>10
<1>11. QED
  BY <1>1, <1>2, <1>3, <1>4, <1>5, <1>6, <1>7, <1>8, <1>9, <1>10 DEF Next, Drift, Age, vars

\* What has overlapped cannot be undone.
LEMMA OverlapStays == [Next]_vars /\ overlaps' = {} => overlaps = {}
BY DEF Next, vars, Begin, Load, DropExpired, Precheck, Mutate, Record, Consume, RejectLoad,
       RejectDelete, Crash, Drift, Age, ForgetOutcome

\* What holds until requests overlap.
AloneInv == overlaps = {} => SequentialInv /\ NoRepeat /\ RecordInv

LEMMA AloneInvariance == Spec => [](IInv /\ AloneInv)
<1>1. Init => AloneInv
  BY DEF Init, AloneInv, SequentialInv, NoRepeat, RecordInv, ActivePcs, Procs
<1>2. IInv /\ AloneInv /\ [Next]_vars => AloneInv'
  <2> SUFFICES ASSUME IInv, AloneInv, [Next]_vars, overlaps' = {}
               PROVE  SequentialInv' /\ NoRepeat' /\ RecordInv'
    BY DEF AloneInv
  <2>1. SequentialInv /\ NoRepeat /\ RecordInv
    BY OverlapStays DEF AloneInv
  <2>2. QED
    BY <2>1, SequentialStep, RecordStep
<1>3. QED
  BY <1>1, <1>2, Invariance, PTL DEF Spec

\* With sequential requests, whatever keys they use, whoever rejects the
\* proposal meanwhile and whatever handlers die or answers are lost, no
\* approved action takes effect twice after an answered execute.
THEOREM SequentialRepeat == Spec => []RepeatNeedsFault
<1>1. AloneInv => RepeatNeedsFault
  BY DEF AloneInv, NoRepeat, RepeatNeedsFault
<1>2. QED
  BY <1>1, AloneInvariance, PTL

\* A client that sends an answered request again, with its key, is given the
\* recorded answer and nothing is executed, although the proposal is gone,
\* until the record reaches its TTL.
THEOREM RetriesReplay == Spec => RetryGetsReplay
<1> DEFINE Replays ==
      \A r, q \in Reqs :
        /\ overlaps = {}
        /\ pc[q] = "executed" /\ pc[r] = "idle" /\ pc'[r] # "idle"
        /\ action'[r] = action[q] /\ payload'[r] = payload[q] /\ key'[r] = key[q]
        /\ key[q] \notin lapsed
        => pc'[r] = "replayed"
<1>1. IInv /\ AloneInv /\ [Next]_vars => [Replays]_vars
  <2> SUFFICES ASSUME IInv, RecordInv, [Next]_vars, NEW r \in Reqs, NEW q \in Reqs,
                      pc[q] = "executed", pc[r] = "idle", pc'[r] # "idle",
                      action'[r] = action[q], payload'[r] = payload[q], key'[r] = key[q],
                      key[q] \notin lapsed
               PROVE  pc'[r] = "replayed"
    BY DEF AloneInv
  <2> USE RequestsDistinct DEF IInv, TypeOK, Procs, Goto
  <2>1. Begin(r)
    BY DEF Next, Begin, Lookup, Load, DropExpired, Precheck, Mutate, Applied, Refused, Record,
           Consume, RejectLoad, RejectDelete, Crash, ActivePcs, Drift, Age,
           ForgetOutcome, vars
  <2>2. PICK a \in Actions, x \in Payloads, k \in Keys :
          /\ action'  = [action EXCEPT ![r] = a]
          /\ payload' = [payload EXCEPT ![r] = x]
          /\ key'     = [key EXCEPT ![r] = k]
          /\ Lookup(r, a, x, k)
    BY <2>1 DEF Begin
  <2>3. a = action[q] /\ x = payload[q] /\ k = key[q]
    BY <2>2
  <2>4. idem[k] = Request(a, x) /\ idem[k] # NoRecord
    BY <2>3, RequestIsRecord DEF RecordInv
  <2>5. QED
    BY <2>2, <2>4 DEF Lookup
<1>2. QED
  BY <1>1, AloneInvariance, PTL DEF Spec, RetryGetsReplay
=============================================================================
