-------------------------- MODULE ReadTools_proofs --------------------------
(***************************************************************************)
(* The concurrency cap of a run for every number of calls, every limit and *)
(* every number of retries.                                                *)
(***************************************************************************)
EXTENDS ReadTools, FiniteSetTheorems, TLAPS

\* Free slots and calls under way add up to the limit.
SlotsInv == limit > 0 => value + Cardinality(Holding) = limit

\* Calls wait only when no slot is free, and only where there is a cap.
WaitInv == Waiting # {} => limit > 0 /\ value = 0

\* How many sends a call has behind it, at each place it can be.
RetryOK(c) ==
  /\ pc[c] \in {"idle", "wait"} => sends[c] = 0 /\ attempt[c] = 0
  /\ pc[c] = "send" => sends[c] = attempt[c]
  /\ pc[c] = "sleep" => sends[c] = attempt[c] + 1 /\ attempt[c] < MaxRetries
  /\ sends[c] <= MaxRetries + 1
  /\ pc[c] = "exhausted" => sends[c] = MaxRetries + 1

RetryInv == \A c \in Calls : RetryOK(c)

IInv == TypeOK /\ SlotsInv /\ WaitInv /\ RetryInv

\* Calls that hold a slot are finitely many.
LEMMA HoldingFinite == IsFiniteSet(Holding) /\ Cardinality(Holding) \in Nat
<1>1. Holding \subseteq Calls
  BY DEF Holding
<1>2. QED
  BY <1>1, CallsFinite, FS_Subset, FS_CardinalityType

\* A set that gains one element counts one more.
LEMMA OneMore ==
  ASSUME NEW S, IsFiniteSet(S), NEW x, x \notin S
  PROVE  Cardinality(S \cup {x}) = Cardinality(S) + 1
BY FS_AddElement

\* A set that loses one element counts one less.
LEMMA OneLess ==
  ASSUME NEW S, IsFiniteSet(S), NEW x \in S
  PROVE  Cardinality(S \ {x}) = Cardinality(S) - 1 /\ IsFiniteSet(S \ {x})
BY FS_RemoveElement

\* A call that leaves, with or without a cap, keeps the invariant.
LEMMA LeaveKeeps ==
  ASSUME IInv, NEW c \in Holding, NEW how \in Ended, Leave(c, how),
         UNCHANGED <<limit, clock, arrival>>
  PROVE  /\ value' \in 0 .. limit /\ pc' \in [Calls -> Pcs]
         /\ SlotsInv' /\ WaitInv'
<1> USE DEF IInv, TypeOK, Goto, Ended, Pcs
<1>0. c \in Calls /\ pc[c] \in {"send", "sleep"} /\ limit \in Nat /\ value \in Nat
  BY ReadBounds DEF Holding
<1>1. CASE limit = 0
  <2>1. pc' = [pc EXCEPT ![c] = how] /\ value' = value
    BY <1>1, <1>0 DEF Leave
  <2>2. Waiting = {}
    BY <1>1 DEF WaitInv
  <2>3. Waiting' = {}
    BY <2>1, <2>2, <1>0 DEF Waiting
  <2>4. QED
    BY <1>0, <1>1, <2>1, <2>3 DEF SlotsInv, WaitInv
<1>2. CASE limit > 0 /\ Waiting = {}
  <2>1. pc' = [pc EXCEPT ![c] = how] /\ value' = value + 1
    BY <1>2, <1>0 DEF Leave, Release, IsNext
  <2>2. Holding' = Holding \ {c} /\ Waiting' = {}
    BY <2>1, <1>2, <1>0 DEF Holding, Waiting
  <2>3. Cardinality(Holding') = Cardinality(Holding) - 1
    BY <2>2, OneLess, HoldingFinite
  <2>4. value + 1 <= limit
    <3>1. Cardinality(Holding) # 0
      BY HoldingFinite, FS_EmptySet
    <3>2. QED
      BY <3>1, <1>2, <1>0, HoldingFinite DEF SlotsInv
  <2>5. QED
    BY <1>0, <1>2, <2>1, <2>2, <2>3, <2>4, HoldingFinite DEF SlotsInv, WaitInv
<1>3. CASE limit > 0 /\ Waiting # {}
  <2>1. PICK d \in Calls : /\ d \in Waiting
                           /\ pc' = [pc EXCEPT ![c] = how, ![d] = "send"]
                           /\ value' = value
    BY <1>3, <1>0 DEF Leave, Release, IsNext
  <2>2. d # c /\ d \notin Holding
    BY <2>1, <1>0 DEF Waiting, Holding
  <2>3. Holding' = (Holding \ {c}) \cup {d}
    BY <2>1, <2>2, <1>0 DEF Holding
  <2>4. Cardinality(Holding') = Cardinality(Holding)
    <3>1. /\ Cardinality(Holding \ {c}) = Cardinality(Holding) - 1
          /\ IsFiniteSet(Holding \ {c})
      BY OneLess, HoldingFinite
    <3>2. Cardinality((Holding \ {c}) \cup {d}) = Cardinality(Holding \ {c}) + 1
      BY <3>1, <2>2, OneMore
    <3>3. QED
      BY <3>1, <3>2, <2>3, HoldingFinite
  <2>5. value = 0
    BY <1>3 DEF WaitInv
  <2>6. QED
    BY <1>0, <1>3, <2>1, <2>4, <2>5 DEF SlotsInv, WaitInv
<1>4. QED
  BY <1>0, <1>1, <1>2, <1>3

\* A call that leaves moves no other call but one that waited.
LEMMA LeaveMoves ==
  ASSUME TypeOK, NEW c \in Holding, NEW how \in Ended, Leave(c, how)
  PROVE  /\ pc'[c] = how
         /\ \A e \in Calls : e # c =>
              pc'[e] = pc[e] \/ (pc[e] = "wait" /\ pc'[e] = "send")
<1>1. c \in Calls /\ pc[c] # "wait" /\ pc \in [Calls -> Pcs]
  BY DEF Holding, TypeOK
<1>2. CASE pc' = [pc EXCEPT ![c] = how]
  BY <1>1, <1>2
<1>3. CASE \E d \in Calls : IsNext(d) /\ pc' = [pc EXCEPT ![c] = how, ![d] = "send"]
  <2>1. PICK d \in Calls : pc[d] = "wait" /\ pc' = [pc EXCEPT ![c] = how, ![d] = "send"]
    BY <1>3 DEF IsNext, Waiting
  <2>2. QED
    BY <1>1, <2>1
<1>4. QED
  BY <1>2, <1>3 DEF Leave, Release, Goto

\* The invariant is inductive.
THEOREM Invariance == Spec => []IInv
<1>1. Init => IInv
  <2> SUFFICES ASSUME Init PROVE IInv
    OBVIOUS
  <2>1. TypeOK
    <3>1. limit \in Nat /\ value = limit
      BY ReadBounds DEF Init
    <3>2. value \in 0 .. limit
      BY <3>1
    <3>3. 0 \in 0 .. MaxRetries
      BY ReadBounds
    <3>4. pc \in [Calls -> Pcs]
      BY DEF Init, Pcs
    <3>5. /\ arrival \in [Calls -> Nat] /\ sends \in [Calls -> Nat]
          /\ attempt \in [Calls -> 0 .. MaxRetries]
      BY <3>3 DEF Init
    <3>6. QED
      BY <3>2, <3>4, <3>5 DEF Init, TypeOK
  <2>2. Holding = {} /\ Waiting = {}
    BY DEF Init, Holding, Waiting
  <2>3. SlotsInv
    BY <2>2, FS_EmptySet, ReadBounds DEF Init, SlotsInv
  <2>4. RetryInv
    BY ReadBounds DEF Init, RetryInv, RetryOK
  <2>5. QED
    BY <2>1, <2>2, <2>3, <2>4 DEF IInv, WaitInv
<1>2. IInv /\ [Next]_vars => IInv'
  <2> SUFFICES ASSUME IInv, [Next]_vars PROVE  IInv'
    OBVIOUS
  <2> USE ReadBounds DEF IInv, TypeOK, Goto, Pcs, Ended
  <2>0. limit \in Nat /\ value \in Nat
    OBVIOUS
  <2>1. ASSUME NEW c \in Calls, CallTool(c)
        PROVE  (TypeOK /\ SlotsInv /\ WaitInv)'
    <3>1. CASE limit > 0 /\ value > 0 /\ Waiting = {}
      <4>1. pc' = [pc EXCEPT ![c] = "send"] /\ value' = value - 1
        BY <2>1, <3>1, <2>0 DEF CallTool, Acquire
      <4>2. c \notin Holding /\ Holding' = Holding \cup {c} /\ Waiting' = {}
        BY <2>1, <4>1, <3>1 DEF CallTool, Holding, Waiting
      <4>3. Cardinality(Holding') = Cardinality(Holding) + 1
        BY <4>2, OneMore, HoldingFinite
      <4>4. SlotsInv'
        BY <2>0, <2>1, <4>1, <4>3, <3>1, HoldingFinite DEF SlotsInv, CallTool
      <4>5. QED
        BY <2>0, <2>1, <4>1, <4>2, <4>4, <3>1 DEF CallTool, Acquire, WaitInv
    <3>2. CASE limit > 0 /\ ~(value > 0 /\ Waiting = {})
      <4>1. /\ pc' = [pc EXCEPT ![c] = "wait"] /\ value' = value
            /\ clock' = clock + 1 /\ arrival' = [arrival EXCEPT ![c] = clock]
        BY <2>1, <3>2, <2>0 DEF CallTool, Acquire
      <4>2. value = 0
        BY <3>2, <2>0 DEF WaitInv
      <4>3. Holding' = Holding
        BY <2>1, <4>1 DEF CallTool, Holding
      <4>4. QED
        BY <2>1, <4>1, <4>2, <4>3, <3>2 DEF CallTool, SlotsInv, WaitInv
    <3>3. CASE limit = 0
      <4>1. /\ pc' = [pc EXCEPT ![c] = "send"]
            /\ UNCHANGED <<limit, value, clock, arrival, attempt, sends, stopping>>
        BY <2>1, <3>3 DEF CallTool
      <4>2. Waiting' = {}
        BY <3>3, <4>1 DEF Waiting, WaitInv
      <4>3. QED
        BY <3>3, <4>1, <4>2 DEF SlotsInv, WaitInv
    <3>4. QED
      BY <2>0, <3>1, <3>2, <3>3
  <2>2. ASSUME NEW c \in Calls, Respond(c)
        PROVE  (TypeOK /\ SlotsInv /\ WaitInv)'
    <3>1. c \in Holding
      BY <2>2 DEF Respond, Holding
    <3>2. /\ UNCHANGED <<limit, clock, arrival, attempt, stopping>>
          /\ sends' \in [Calls -> Nat]
      BY <2>2 DEF Respond
    <3>3. CASE \E how \in Ended : Leave(c, how)
      BY <3>1, <3>2, <3>3, LeaveKeeps
    <3>4. CASE Goto(c, "sleep") /\ UNCHANGED value
      <4>1. Holding' = Holding /\ Waiting' = Waiting
        BY <3>1, <3>4 DEF Holding, Waiting
      <4>2. QED
        BY <3>2, <3>4, <4>1 DEF SlotsInv, WaitInv
    <3>5. QED
      BY <2>2, <3>3, <3>4 DEF Respond, Backoff, ToolOutcomes
  <2>3. ASSUME NEW c \in Calls, WakeUp(c)
        PROVE  (TypeOK /\ SlotsInv /\ WaitInv)'
    <3>1. Holding' = Holding /\ Waiting' = Waiting
      BY <2>3 DEF WakeUp, Holding, Waiting
    <3>2. QED
      BY <2>3, <3>1 DEF WakeUp, SlotsInv, WaitInv, RetryInv, RetryOK
  <2>4. ASSUME NEW c \in Calls, CancelCall(c)
        PROVE  (TypeOK /\ SlotsInv /\ WaitInv)'
    <3>1. UNCHANGED <<limit, clock, arrival, attempt, sends, stopping>>
      BY <2>4 DEF CancelCall
    <3>2. CASE pc[c] = "wait" /\ Goto(c, "cancelled") /\ UNCHANGED value
      <4>1. Holding' = Holding /\ Waiting' \subseteq Waiting
        BY <3>2 DEF Holding, Waiting
      <4>2. QED
        BY <3>1, <3>2, <4>1 DEF SlotsInv, WaitInv
    <3>3. CASE pc[c] \in {"send", "sleep"} /\ Leave(c, "cancelled")
      <4>1. c \in Holding
        BY <3>3 DEF Holding
      <4>2. QED
        BY <3>1, <3>3, <4>1, LeaveKeeps
    <3>4. QED
      BY <2>4, <3>2, <3>3 DEF CancelCall
  <2>5. ASSUME StopRun \/ UNCHANGED vars
        PROVE  (TypeOK /\ SlotsInv /\ WaitInv)'
    BY <2>5 DEF StopRun, vars, SlotsInv, WaitInv, Holding, Waiting
  <2>6. RetryInv'
    <3> SUFFICES ASSUME NEW e \in Calls PROVE RetryOK(e)'
      BY DEF RetryInv
    <3> USE DEF RetryOK, RetryInv
    <3>1. ASSUME NEW c \in Calls, CallTool(c) PROVE RetryOK(e)'
      BY <3>1 DEF CallTool, Acquire
    <3>2. ASSUME NEW c \in Calls, Respond(c) PROVE RetryOK(e)'
      <4>1. c \in Holding
        BY <3>2 DEF Respond, Holding
      <4>2. CASE Goto(c, "sleep") /\ attempt[c] < MaxRetries
        BY <3>2, <4>2 DEF Respond
      <4>3. ASSUME NEW how \in Ended, Leave(c, how),
                   how = "exhausted" => attempt[c] = MaxRetries
            PROVE  RetryOK(e)'
        <5>1. /\ pc'[c] = how
              /\ e # c => pc'[e] = pc[e] \/ (pc[e] = "wait" /\ pc'[e] = "send")
          BY <4>1, <4>3, LeaveMoves
        <5>2. /\ sends' = [sends EXCEPT ![c] = @ + 1] /\ attempt' = attempt
              /\ pc[c] = "send"
          BY <3>2 DEF Respond
        <5>3. QED
          BY <4>3, <5>1, <5>2
      <4>4. QED
        BY <3>2, <4>2, <4>3 DEF Respond, Backoff, ToolOutcomes
    <3>3. ASSUME NEW c \in Calls, WakeUp(c) PROVE RetryOK(e)'
      BY <3>3 DEF WakeUp
    <3>4. ASSUME NEW c \in Calls, CancelCall(c) PROVE RetryOK(e)'
      <4>1. UNCHANGED <<attempt, sends>>
        BY <3>4 DEF CancelCall
      <4>2. CASE Goto(c, "cancelled")
        BY <4>1, <4>2
      <4>3. CASE c \in Holding /\ Leave(c, "cancelled")
        <5>1. /\ pc'[c] = "cancelled"
              /\ e # c => pc'[e] = pc[e] \/ (pc[e] = "wait" /\ pc'[e] = "send")
          BY <4>3, LeaveMoves
        <5>2. QED
          BY <4>1, <5>1
      <4>4. QED
        BY <3>4, <4>2, <4>3 DEF CancelCall, Holding
    <3>5. CASE StopRun \/ UNCHANGED vars
      BY <3>5 DEF StopRun, vars
    <3>6. QED
      BY <3>1, <3>2, <3>3, <3>4, <3>5 DEF Next
  <2>7. QED
    BY <2>1, <2>2, <2>3, <2>4, <2>5, <2>6 DEF Next
<1>3. QED
  BY <1>1, <1>2, PTL DEF Spec

\* A run never exceeds max_concurrent_reads.
THEOREM CapHolds == Spec => []CapRespected
<1>1. IInv => CapRespected
  BY ReadBounds, HoldingFinite DEF IInv, TypeOK, SlotsInv, CapRespected
<1>2. QED
  BY <1>1, Invariance, PTL

\* No slot is lost while a call waits for one.
THEOREM NoSlotLost == Spec => []NoIdleSlot
<1>1. IInv => NoIdleSlot
  BY ReadBounds, HoldingFinite DEF IInv, TypeOK, SlotsInv, WaitInv, NoIdleSlot
<1>2. QED
  BY <1>1, Invariance, PTL

\* The retry loop sends exactly as often as max_retries says.
THEOREM RetriesCounted == Spec => []RetriesExact
<1>1. IInv => RetriesExact
  BY DEF IInv, RetryInv, RetryOK, RetriesExact
<1>2. QED
  BY <1>1, Invariance, PTL

\* Every variable keeps to its type.
THEOREM TypeCorrect == Spec => []TypeOK
<1>1. IInv => TypeOK
  BY DEF IInv
<1>2. QED
  BY <1>1, Invariance, PTL
=============================================================================
