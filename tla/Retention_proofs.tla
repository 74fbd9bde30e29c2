-------------------------- MODULE Retention_proofs --------------------------
(***************************************************************************)
(* What the TTLs guarantee, for every choice of TTLs, time budget,         *)
(* attempts and slack.  The argument is an account of time: every second   *)
(* since the token was staged was either streamed or waited, and all       *)
(* attempts together stream no longer than the budget the TTLs count.      *)
(***************************************************************************)
EXTENDS Retention, TLAPS

\* Time streamed so far is covered by the attempts begun so far.
WorkInv ==
  /\ worked <= JobTimeout * attempt
  /\ phase \in Running => attempt > 0 /\ worked <= JobTimeout * (attempt - 1) + spent
  /\ phase \in {"new", "staged"} => attempt = 0 /\ ~cancelled /\ ~immortal

\* A key written with a TTL expires no sooner than that TTL after the start
\* of the account.
Covered(k, ttl) == now + ttl <= expires[k] + worked + waited

KeyInv ==
  /\ phase \in Live => Covered("job", JobTtl)
  /\ phase \in Live \cup {"staged"} /\ ~cancelled => Covered("tok", TokenTtl)
  /\ phase \in Live /\ cancelled => Covered("cancel", JobTtl)
  /\ phase \in Live /\ immortal => waited >= ResultTtl

\* The result goes at most the waiting time after the record; an execution
\* is recorded for longer than its proposal is kept.
OrderInv ==
  /\ phase \in {"new", "staged"} => expires["job"] = 0
  /\ expires["result"] <= expires["job"] + waited
  /\ expires["proposal"] <= now + ProposalTtl
  /\ recorded => phase = "over"
  /\ recorded /\ IdempotencyTtl >= ProposalTtl => expires["proposal"] <= expires["idem"]

IInv == TypeOK /\ WorkInv /\ KeyInv /\ OrderInv

-----------------------------------------------------------------------------
\* The durations are natural numbers, and so are the products the TTLs are
\* made of.
LEMMA Durations ==
  /\ ResultTtl \in Nat /\ ProposalTtl \in Nat /\ IdempotencyTtl \in Nat
  /\ JobTimeout \in Nat /\ MaxAttempts \in Nat /\ TokenSlack \in Nat
  /\ Budget \in Nat /\ JobTtl \in Nat /\ TokenTtl \in Nat
  /\ JobTtl = ResultTtl + Budget /\ TokenTtl = Budget + TokenSlack
<1>1. ResultTtl \in Nat /\ ProposalTtl \in Nat /\ IdempotencyTtl \in Nat
      /\ JobTimeout \in Nat /\ MaxAttempts \in Nat /\ TokenSlack \in Nat
  BY DurationsPositive, SlackNatural
<1>2. JobTimeout * MaxAttempts \in Nat
  BY <1>1
<1>3. QED
  BY <1>1, <1>2 DEF Budget, JobTtl, TokenTtl

\* Attempts within the limit stay within the budget, and one attempt more is
\* one time-out more.
LEMMA Attempts ==
  ASSUME NEW a \in 0 .. MaxAttempts
  PROVE  /\ JobTimeout * a \in Nat
         /\ JobTimeout * a <= Budget
         /\ JobTimeout * (a + 1) = JobTimeout * a + JobTimeout
<1>1. JobTimeout \in Nat /\ MaxAttempts \in Nat
  BY Durations
<1>2. JobTimeout * a \in Nat
  BY <1>1
<1>3. JobTimeout * a <= JobTimeout * MaxAttempts
  BY <1>1
<1>4. JobTimeout * (a + 1) = JobTimeout * a + JobTimeout
  BY <1>1
<1>5. QED
  BY <1>2, <1>3, <1>4 DEF Budget

\* A live job's record is there until it has waited for RESULT_TTL_S.
LEMMA RecordThere ==
  ASSUME TypeOK, WorkInv, KeyInv, phase \in Live
  PROVE  /\ now + ResultTtl <= expires["job"] + waited
         /\ waited < ResultTtl => Exists("job")
<1>1. worked <= Budget
  BY Attempts, Durations DEF TypeOK, WorkInv
<1>2. now + ResultTtl + Budget <= expires["job"] + worked + waited
  BY Durations DEF TypeOK, KeyInv, Covered, Keys
<1>3. expires["job"] \in Nat
  BY DEF TypeOK, Keys
<1>4. QED
  BY <1>1, <1>2, <1>3, Durations DEF TypeOK, Exists

-----------------------------------------------------------------------------
\* The initial state satisfies the invariant.
LEMMA InitIInv == Init => IInv
<1> SUFFICES ASSUME Init PROVE IInv
  OBVIOUS
<1>1. JobTimeout * 0 = 0
  BY Durations
<1> USE Durations DEF Init, Phases, Live, Running, Streaming
<1>2. TypeOK
  <2>1. attempt \in 0 .. MaxAttempts /\ spent \in 0 .. JobTimeout
    OBVIOUS
  <2>2. expires \in [Keys -> Nat]
    OBVIOUS
  <2>3. QED
    BY <2>1, <2>2 DEF TypeOK
<1>3. WorkInv
  BY <1>1 DEF WorkInv
<1>4. KeyInv
  BY DEF KeyInv
<1>5. OrderInv
  BY DEF OrderInv, Keys
<1>6. QED
  BY <1>2, <1>3, <1>4, <1>5 DEF IInv

\* Every action keeps the types.
LEMMA TypeStep == TypeOK /\ [Next]_vars => TypeOK'
<1> SUFFICES ASSUME TypeOK, [Next]_vars PROVE TypeOK'
  OBVIOUS
<1> USE Durations, SlackNatural
    DEF TypeOK, Phases, Live, Running, Streaming, keys, times, notes
<1>1. CASE Tick
  BY <1>1 DEF Tick, InBudget
<1>2. CASE StageToken
  BY <1>2 DEF StageToken, Put, Keys
<1>3. CASE CreateJob
  BY <1>3 DEF CreateJob, Put, Keys
<1>4. CASE Cancel
  <2>1. RequestCancel \in [Keys -> Nat] /\ Del(expires, "tok") \in [Keys -> Nat]
    BY DEF RequestCancel, Put, Del, Keys
  <2>2. expires' \in [Keys -> Nat]
    BY <1>4, <2>1 DEF Cancel
  <2>3. QED
    BY <1>4, <2>2 DEF Cancel
<1>5. CASE Deliver
  BY <1>5 DEF Deliver
<1>6. CASE Start
  BY <1>6 DEF Start, SaveJob
<1>7. ASSUME Funnel PROVE phase' \in Phases /\ notBefore' \in Nat
  <2>1. now + Defer \in Nat
    BY DEF Defer
  <2>2. QED
    BY <1>7, <2>1 DEF Funnel
<1>8. CASE Creds
  BY <1>7, <1>8 DEF Creds
<1>9. CASE Progress
  BY <1>9 DEF Progress, SaveJob
<1>10. CASE EndStream
  BY <1>10 DEF EndStream
<1>11. CASE Fail
  BY <1>7, <1>11 DEF Fail
<1>12. CASE Persist
  BY <1>12 DEF Persist, Put, Keys
<1>13. CASE EndRead
  BY <1>7, <1>13 DEF EndRead
<1>14. CASE EndSave
  BY <1>14 DEF EndSave, Del, Keys
<1>15. CASE Execute
  BY <1>15 DEF Execute, PutIdempotency, Put, Keys
<1>16. CASE Consume
  BY <1>16 DEF Consume, Del, Keys
<1>17. CASE UNCHANGED vars
  BY <1>17 DEF vars
<1>18. QED
  BY <1>1, <1>2, <1>3, <1>4, <1>5, <1>6, <1>8, <1>9, <1>10, <1>11, <1>12,
     <1>13, <1>14, <1>15, <1>16, <1>17 DEF Next

\* No step streams beyond the attempts begun.
LEMMA WorkStep == TypeOK /\ WorkInv /\ [Next]_vars => WorkInv'
<1> SUFFICES ASSUME TypeOK, WorkInv, [Next]_vars PROVE WorkInv'
  OBVIOUS
<1> USE Durations DEF TypeOK, WorkInv, Live, Running, Streaming, keys, times, notes
<1>1. CASE Tick
  <2>1. attempt > 0 => JobTimeout * (attempt - 1) \in Nat
                       /\ JobTimeout * attempt = JobTimeout * (attempt - 1) + JobTimeout
    <3>1. SUFFICES ASSUME attempt > 0
                   PROVE  JobTimeout * (attempt - 1) \in Nat
                          /\ JobTimeout * attempt = JobTimeout * (attempt - 1) + JobTimeout
      OBVIOUS
    <3>2. attempt - 1 \in 0 .. MaxAttempts
      BY <3>1
    <3>3. attempt - 1 + 1 = attempt
      BY <3>1
    <3>4. QED
      BY <3>2, <3>3, Attempts
  <2>2. JobTimeout * attempt \in Nat
    BY Attempts
  <2>3. QED
    BY <1>1, <2>1, <2>2 DEF Tick, InBudget
<1>2. CASE StageToken
  BY <1>2 DEF StageToken, Put, Keys
<1>3. CASE CreateJob
  BY <1>3 DEF CreateJob, Put, Keys
<1>4. CASE Cancel
  BY <1>4 DEF Cancel, RequestCancel, Put, Del, Keys
<1>5. CASE Deliver
  <2>1. JobTimeout * (attempt + 1) = JobTimeout * attempt + JobTimeout
        /\ JobTimeout * attempt \in Nat
    BY Attempts
  <2>2. attempt + 1 - 1 = attempt
    OBVIOUS
  <2>3. QED
    BY <1>5, <2>1, <2>2 DEF Deliver
<1>6. CASE Start
  BY <1>6 DEF Start, SaveJob
<1>7. CASE Creds
  BY <1>7 DEF Creds, Funnel
<1>8. CASE Progress
  BY <1>8 DEF Progress, SaveJob
<1>9. CASE EndStream
  BY <1>9 DEF EndStream
<1>10. CASE Fail
  BY <1>10 DEF Fail, Funnel
<1>11. CASE Persist
  BY <1>11 DEF Persist, Put, Keys
<1>12. CASE EndRead
  BY <1>12 DEF EndRead, Funnel
<1>13. CASE EndSave
  BY <1>13 DEF EndSave, Del, Keys
<1>14. CASE Execute
  BY <1>14 DEF Execute, PutIdempotency, Put, Keys
<1>15. CASE Consume
  BY <1>15 DEF Consume, Del, Keys
<1>16. CASE UNCHANGED vars
  BY <1>16 DEF vars
<1>17. QED
  BY <1>1, <1>2, <1>3, <1>4, <1>5, <1>6, <1>7, <1>8, <1>9, <1>10, <1>11, <1>12, <1>13, <1>14, <1>15, <1>16 DEF Next

\* No step lets a key of a live job expire early.
LEMMA KeyStep == TypeOK /\ WorkInv /\ KeyInv /\ [Next]_vars => KeyInv'
<1> SUFFICES ASSUME TypeOK, WorkInv, KeyInv, [Next]_vars PROVE KeyInv'
  OBVIOUS
<1> USE Durations DEF TypeOK, KeyInv, Covered, Live, Running, Streaming, keys, times, notes
<1>1. CASE Tick
  BY <1>1 DEF Tick, InBudget, Keys
<1>2. CASE StageToken
  BY <1>2 DEF StageToken, Put, Keys
<1>3. CASE CreateJob
  BY <1>3 DEF CreateJob, WorkInv, Put, Keys
<1>4. CASE Cancel
  BY <1>4 DEF Cancel, RequestCancel, Put, Del, Keys
<1>5. CASE Deliver
  BY <1>5 DEF Deliver
<1>6. CASE Start
  BY <1>6, RecordThere DEF Start, SaveJob
<1>7. CASE Creds
  BY <1>7 DEF Creds, Funnel
<1>8. CASE Progress
  BY <1>8, RecordThere DEF Progress, SaveJob
<1>9. CASE EndStream
  BY <1>9 DEF EndStream
<1>10. CASE Fail
  BY <1>10 DEF Fail, Funnel
<1>11. CASE Persist
  BY <1>11 DEF Persist, Put, Keys
<1>12. CASE EndRead
  BY <1>12 DEF EndRead, Funnel
<1>13. CASE EndSave
  BY <1>13 DEF EndSave, Del, Keys
<1>14. CASE Execute
  BY <1>14 DEF Execute, PutIdempotency, Put, Keys
<1>15. CASE Consume
  BY <1>15 DEF Consume, Del, Keys
<1>16. CASE UNCHANGED vars
  BY <1>16 DEF vars
<1>17. QED
  BY <1>1, <1>2, <1>3, <1>4, <1>5, <1>6, <1>7, <1>8, <1>9, <1>10, <1>11, <1>12, <1>13, <1>14, <1>15, <1>16 DEF Next

\* Results and proposals keep their place behind what must outlive them.
LEMMA OrderStep == TypeOK /\ WorkInv /\ KeyInv /\ OrderInv /\ [Next]_vars => OrderInv'
<1> SUFFICES ASSUME TypeOK, WorkInv, KeyInv, OrderInv, [Next]_vars PROVE OrderInv'
  OBVIOUS
<1> USE Durations DEF TypeOK, OrderInv, Live, Running, Streaming, keys, times, notes
<1>1. CASE Tick
  BY <1>1 DEF Tick, InBudget, Keys
<1>2. CASE StageToken
  BY <1>2 DEF StageToken, Put, Keys
<1>3. CASE CreateJob
  BY <1>3 DEF CreateJob, Put, Keys
<1>4. CASE Cancel
  BY <1>4 DEF Cancel, RequestCancel, Put, Del, Keys
<1>5. CASE Deliver
  BY <1>5 DEF Deliver
<1>6. CASE Start
  BY <1>6 DEF Start, SaveJob
<1>7. CASE Creds
  BY <1>7 DEF Creds, Funnel
<1>8. CASE Progress
  BY <1>8 DEF Progress, SaveJob
<1>9. CASE EndStream
  BY <1>9 DEF EndStream
<1>10. CASE Fail
  BY <1>10 DEF Fail, Funnel
<1>11. CASE Persist
  BY <1>11, RecordThere DEF Persist, Put, Keys
<1>12. CASE EndRead
  BY <1>12 DEF EndRead, Funnel
<1>13. CASE EndSave
  BY <1>13 DEF EndSave, Del, Keys
<1>14. CASE Execute
  BY <1>14 DEF Execute, PutIdempotency, Put, Keys
<1>15. CASE Consume
  BY <1>15 DEF Consume, Del, Keys
<1>16. CASE UNCHANGED vars
  BY <1>16 DEF vars
<1>17. QED
  BY <1>1, <1>2, <1>3, <1>4, <1>5, <1>6, <1>7, <1>8, <1>9, <1>10, <1>11, <1>12, <1>13, <1>14, <1>15, <1>16 DEF Next

\* The account of time is an invariant.
THEOREM Invariance == Spec => []IInv
<1>1. IInv /\ [Next]_vars => IInv'
  BY TypeStep, WorkStep, KeyStep, OrderStep DEF IInv
<1>2. QED
  BY InitIInv, <1>1, PTL DEF Spec

\* Every variable keeps its type, and no attempt streams longer than its
\* budget.
THEOREM TypeCorrect == Spec => []TypeOK
<1>1. IInv => TypeOK
  BY DEF IInv
<1>2. QED
  BY Invariance, <1>1, PTL

\* The job record does not expire under a job that has waited less than
\* RESULT_TTL_S, whatever the settings.
THEOREM RecordLasts == Spec => []RecordLastsJob
<1>1. IInv => RecordLastsJob
  <2> SUFFICES ASSUME IInv, phase \in Live, waited < ResultTtl
               PROVE  Exists("job") /\ ~immortal
    BY DEF RecordLastsJob
  <2>1. Exists("job")
    BY RecordThere DEF IInv
  <2>2. ~immortal
    BY Durations DEF IInv, TypeOK, KeyInv
  <2>3. QED
    BY <2>1, <2>2
<1>2. QED
  BY Invariance, <1>1, PTL

\* The staged token lasts as long as the job has not waited for the slack.
THEOREM TokenLasts == Spec => []TokenLastsJob
<1>1. IInv => TokenLastsJob
  <2> SUFFICES ASSUME IInv, phase \in Live, waited < TokenSlack, ~cancelled
               PROVE  Exists("tok")
    BY DEF TokenLastsJob
  <2>1. worked <= Budget
    BY Attempts, Durations DEF IInv, TypeOK, WorkInv
  <2>2. now + Budget + TokenSlack <= expires["tok"] + worked + waited
    BY Durations DEF IInv, TypeOK, KeyInv, Covered, Keys
  <2>3. QED
    BY <2>1, <2>2, Durations DEF IInv, TypeOK, Exists, Keys
<1>2. QED
  BY Invariance, <1>1, PTL

\* The flag of an acknowledged cancel is there for the run to see.
THEOREM FlagLasts == Spec => []FlagLastsJob
<1>1. IInv => FlagLastsJob
  <2> SUFFICES ASSUME IInv, phase \in Live, waited < ResultTtl, cancelled
               PROVE  Exists("cancel")
    BY DEF FlagLastsJob
  <2>1. worked <= Budget
    BY Attempts, Durations DEF IInv, TypeOK, WorkInv
  <2>2. now + ResultTtl + Budget <= expires["cancel"] + worked + waited
    BY Durations DEF IInv, TypeOK, KeyInv, Covered, Keys
  <2>3. QED
    BY <2>1, <2>2, Durations DEF IInv, TypeOK, Exists, Keys
<1>2. QED
  BY Invariance, <1>1, PTL

\* The record is missing behind a readable result no longer than the job has
\* waited.
THEOREM RecordOutlives == Spec => []OutlivedByTheWait
<1>1. IInv => OutlivedByTheWait
  BY DEF IInv, TypeOK, OrderInv, OutlivedByTheWait, Exists, Keys
<1>2. QED
  BY Invariance, <1>1, PTL

\* A recorded execution is replayed as long as its proposal can be loaded.
THEOREM ReplayOutlives == Spec => []ReplayOutlivesProposal
<1>1. IInv => ReplayOutlivesProposal
  BY Durations DEF IInv, TypeOK, OrderInv, ReplayOutlivesProposal, Loadable, Exists, Keys
<1>2. QED
  BY Invariance, <1>1, PTL

=============================================================================
