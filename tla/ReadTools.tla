------------------------------ MODULE ReadTools ------------------------------
(***************************************************************************)
(* The read calls an agent fans out in one research run: the semaphore     *)
(* that cap_read_concurrency (app/worker/runner.py) puts around all read   *)
(* tools of the run, the bounded retries of read_request_with_backoff      *)
(* (app/adapters/base.py) inside it, and the cancellation of all of it by  *)
(* asyncio.timeout.                                                        *)
(***************************************************************************)
EXTENDS Naturals, FiniteSets

CONSTANTS
  Calls,       \* read-tool calls of the run, each made at most once
  Limits,      \* values of max_concurrent_reads; 0 switches the cap off
  MaxRetries   \* max_retries of read_request_with_backoff

ASSUME CallsFinite == IsFiniteSet(Calls)
ASSUME ReadBounds == Limits \subseteq Nat /\ MaxRetries \in Nat

VARIABLES
  limit,       \* settings.max_concurrent_reads of this worker
  value,       \* free slots of the semaphore
  pc,          \* where a call is
  clock,       \* history: calls that had to wait so far
  arrival,     \* when a call began to wait: the semaphore serves in order
  attempt,     \* loop variable of read_request_with_backoff
  sends,       \* history: requests a call has sent
  stopping     \* the run is being cancelled

vars == <<limit, value, pc, clock, arrival, attempt, sends, stopping>>

-----------------------------------------------------------------------------
Ended == {"done", "failed", "exhausted", "cancelled"}
Pcs == {"idle", "wait", "send", "sleep"} \cup Ended

Waiting == {c \in Calls : pc[c] = "wait"}
\* Inside the async with, the back-off sleep included.
Holding == {c \in Calls : pc[c] \in {"send", "sleep"}}

Goto(c, where) == pc' = [pc EXCEPT ![c] = where]

\* The call that has waited longest.
IsNext(d) == d \in Waiting /\ \A e \in Waiting : arrival[d] <= arrival[e]

Init ==
  /\ limit \in Limits
  /\ value = limit
  /\ pc = [c \in Calls |-> "idle"]
  /\ clock = 0
  /\ arrival = [c \in Calls |-> 0]
  /\ attempt = [c \in Calls |-> 0]
  /\ sends = [c \in Calls |-> 0]
  /\ stopping = FALSE

-----------------------------------------------------------------------------
(* asyncio.Semaphore (external) *)

\* __aenter__: a free slot is taken at once, unless others wait for one.
Acquire(c) ==
  \/ /\ value > 0 /\ Waiting = {}
     /\ value' = value - 1
     /\ Goto(c, "send")
     /\ UNCHANGED <<clock, arrival>>
  \/ /\ value = 0 \/ Waiting # {}
     /\ clock' = clock + 1
     /\ arrival' = [arrival EXCEPT ![c] = clock]
     /\ Goto(c, "wait")
     /\ UNCHANGED value

\* Mutant: the slot is given back only when the tool returned.
ReleaseOnSuccess(c, how) ==
  \/ how = "done" /\ Waiting = {} /\ value' = value + 1 /\ Goto(c, how)
  \/ /\ how = "done"
     /\ \E d \in Calls : IsNext(d) /\ pc' = [pc EXCEPT ![c] = how, ![d] = "send"]
     /\ UNCHANGED value
  \/ how # "done" /\ Goto(c, how) /\ UNCHANGED value

\* __aexit__, on return, exception and cancellation alike: the slot goes to
\* the call that has waited longest, or is free again.
Release(c, how) ==
  \/ Waiting = {} /\ value' = value + 1 /\ Goto(c, how)
  \/ /\ \E d \in Calls : IsNext(d) /\ pc' = [pc EXCEPT ![c] = how, ![d] = "send"]
     /\ UNCHANGED value

-----------------------------------------------------------------------------
(* cap_read_concurrency and the read tools *)

\* Mutant: a slot that was never taken is given back.
LeaveAlwaysReleases(c, how) == Release(c, how)

\* With a limit of 0 the tools are not wrapped.
Leave(c, how) ==
  \/ limit > 0 /\ Release(c, how)
  \/ limit = 0 /\ Goto(c, how) /\ UNCHANGED value

\* The agent calls a tool.
CallTool(c) ==
  /\ pc[c] = "idle" /\ ~stopping
  /\ \/ limit > 0 /\ Acquire(c)
     \/ limit = 0 /\ Goto(c, "send") /\ UNCHANGED <<value, clock, arrival>>
  /\ UNCHANGED <<limit, attempt, sends, stopping>>

\* raise_for_status: an ordinary answer is the tool's result, any other
\* response or a transport error is raised to the agent.
ToolOutcomes == {"done", "failed"}

\* Mutant: the slot is given back for the sleep and not taken again.
BackoffOutside(c) == Leave(c, "sleep") \/ Leave(c, "failed")

\* A 429, 502, 503 or 504 with retries left: sleep, inside the
\* semaphore; a Retry-After that is no number raises ValueError instead.
Backoff(c) ==
  \/ Goto(c, "sleep") /\ UNCHANGED value
  \/ Leave(c, "failed")

\* Mutant: one try too few.
RespondTooFew(c) ==
  /\ pc[c] = "send"
  /\ sends' = [sends EXCEPT ![c] = @ + 1]
  /\ \/ \E how \in ToolOutcomes : Leave(c, how)
     \/ attempt[c] + 1 < MaxRetries /\ Backoff(c)
     \/ attempt[c] + 1 >= MaxRetries /\ Leave(c, "exhausted")
  /\ UNCHANGED <<limit, clock, arrival, attempt, stopping>>

\* The target answers one send.  The last retryable answer is returned as it
\* is, for raise_for_status to raise.
Respond(c) ==
  /\ pc[c] = "send"
  /\ sends' = [sends EXCEPT ![c] = @ + 1]
  /\ \/ \E how \in ToolOutcomes : Leave(c, how)
     \/ attempt[c] < MaxRetries /\ Backoff(c)
     \/ attempt[c] = MaxRetries /\ Leave(c, "exhausted")
  /\ UNCHANGED <<limit, clock, arrival, attempt, stopping>>

\* The sleep is over: the next round of the loop.
WakeUp(c) ==
  /\ pc[c] = "sleep"
  /\ attempt' = [attempt EXCEPT ![c] = @ + 1]
  /\ Goto(c, "send")
  /\ UNCHANGED <<limit, value, clock, arrival, sends, stopping>>

-----------------------------------------------------------------------------
(* The end of the run *)

\* asyncio.timeout, or arq's job_timeout, cancels the run at any time.
StopRun ==
  /\ ~stopping
  /\ stopping' = TRUE
  /\ UNCHANGED <<limit, value, clock, pc, arrival, attempt, sends>>

\* CancelledError reaches a call: at its await for a slot, its send or its
\* sleep.
CancelCall(c) ==
  /\ stopping
  /\ \/ pc[c] = "wait" /\ Goto(c, "cancelled") /\ UNCHANGED value
     \/ pc[c] \in {"send", "sleep"} /\ Leave(c, "cancelled")
  /\ UNCHANGED <<limit, clock, arrival, attempt, sends, stopping>>

Next == \/ \E c \in Calls : \/ CallTool(c) \/ Respond(c) \/ WakeUp(c)
                            \/ CancelCall(c)
        \/ StopRun

Spec == Init /\ [][Next]_vars

\* HTTP clients have time-outs, so every send is answered or raises; sleeps
\* end; a cancellation reaches every call.  The agent need not call a tool.
Fairness == \A c \in Calls : WF_vars(Respond(c) \/ WakeUp(c) \/ CancelCall(c))

FairSpec == Spec /\ Fairness

-----------------------------------------------------------------------------
(* Properties *)

\* Every variable keeps to its type.
TypeOK ==
  /\ limit \in Limits
  /\ value \in 0 .. limit
  /\ clock \in Nat
  /\ pc \in [Calls -> Pcs]
  /\ arrival \in [Calls -> Nat]
  /\ attempt \in [Calls -> 0 .. MaxRetries]
  /\ sends \in [Calls -> Nat]
  /\ stopping \in BOOLEAN

\* One run never has more than max_concurrent_reads calls under way, however
\* calls retry, fail, are cancelled and hand their slots on.
CapRespected == limit > 0 => Cardinality(Holding) <= limit

\* No slot is lost: a call waits only while all slots are in use, also after
\* calls that raised, gave up or were cancelled.
NoIdleSlot == Waiting # {} => Cardinality(Holding) = limit

\* A call reports a retryable status to the agent only after exactly
\* max_retries + 1 sends, and never sends more.
RetriesExact ==
  \A c \in Calls :
    /\ sends[c] <= MaxRetries + 1
    /\ pc[c] = "exhausted" => sends[c] = MaxRetries + 1

\* Every call the agent makes ends, one that has to wait for a slot too.
CallsEnd == \A c \in Calls : pc[c] # "idle" ~> pc[c] \in Ended

=============================================================================
