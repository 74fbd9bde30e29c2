---------------------------- MODULE ExecuteAction ----------------------------
(***************************************************************************)
(* POST /execute and DELETE /actions/{action_id} (app/api/execute.py): the *)
(* approved mutation, its idempotency record and the consumption of its    *)
(* proposal, by concurrent requests over one Redis and one target system.  *)
(*                                                                         *)
(* One action is one call that awaits: a Redis command or a call of the    *)
(* target, with the local checks that follow it.  Proposals are the ones   *)
(* the worker has stored (_persist_proposals); nothing stores one twice.   *)
(***************************************************************************)
EXTENDS Naturals, FiniteSets

CONSTANTS
  Reqs,         \* POST /execute requests
  Rejects,      \* DELETE /actions/{action_id} requests
  Actions,      \* action ids with a stored proposal
  Keys,         \* Idempotency-Key values clients use
  Payloads,     \* payloads clients approve: functions from their field names
                \* to values [json, py], the JSON text and what == compares
  Proposed,     \* Proposed[a]: the payload of a's proposal
  Editable,     \* Editable[a]: its editable_fields
  Valid,        \* payloads the adapter's action schema accepts
  LostReplies,  \* TRUE: the target may apply a mutation and fail to say so
  MaxCrashes,   \* bound: handlers that die half-way (pod death, Redis error)
  NoRecord,     \* get_idempotency found nothing
  NotSet        \* the request has not arrived yet

ASSUME RequestsDistinct == Reqs \cap Rejects = {}
ASSUME ExecuteBounds == MaxCrashes \in Nat /\ LostReplies \in BOOLEAN

Procs == Reqs \cup Rejects
None == "null"

\* What _request_hash distinguishes: the action and the payload.
Requests == [action : Actions, payload : Payloads]
Request(a, x) == [action |-> a, payload |-> x]

ASSUME NoRecordIsNone == NoRecord \notin Requests
ASSUME NotSetIsNone == NotSet \notin Actions \cup Payloads \cup Keys

VARIABLES
  proposals,    \* {d}:proposal:{a}: live, stale (past expires_at) or absent
  idem,         \* {d}:idem:{k}: the request an outcome was recorded for
  fresh,        \* the target still satisfies a's preconditions
  applied,      \* requests whose mutation took effect on the target
  pc,
  action, payload, key,  \* what a request asks for
  crashes,
  lapsed,       \* history: keys whose idempotency record has run out
  overlaps      \* history: requests that arrived while another was under way

store == <<proposals, idem, lapsed>>
vars  == <<store, fresh, applied, pc, action, payload, key, crashes, overlaps>>

-----------------------------------------------------------------------------
ActivePcs == {"load", "drop", "precheck", "mutate", "record", "consume"}
Refusals == {"conflict", "expired", "mismatch", "invalid", "stale_target",
             "downstream", "error"}
ReqPcs == {"idle"} \cup ActivePcs \cup Refusals \cup {"replayed", "executed", "dead"}
RejectPcs == {"idle", "delete", "expired", "rejected", "dead"}

Goto(p, where) == pc' = [pc EXCEPT ![p] = where]

\* What dict.get and == make of a field: a missing key and an explicit null
\* are the same, and so are the JSON values 1, 1.0 and true.
Get(x, f) == IF f \in DOMAIN x THEN x[f].py ELSE None

\* _verify_payload_against_proposal: the fields that differ but may not.
Unexpected(a, x) ==
  {f \in DOMAIN Proposed[a] \cup DOMAIN x :
     f \notin Editable[a] /\ Get(Proposed[a], f) # Get(x, f)}

Init ==
  /\ proposals = [a \in Actions |-> "live"]
  /\ idem = [k \in Keys |-> NoRecord]
  /\ fresh = [a \in Actions |-> TRUE]
  /\ applied = {}
  /\ pc = [p \in Procs |-> "idle"]
  /\ action = [p \in Procs |-> NotSet]
  /\ payload = [r \in Reqs |-> NotSet]
  /\ key = [r \in Reqs |-> NotSet]
  /\ crashes = 0
  /\ lapsed = {}
  /\ overlaps = {}

-----------------------------------------------------------------------------
(* execute_action *)

\* (0) What get_idempotency found decides: replay, conflict or go on.
Lookup(r, a, x, k) ==
  Goto(r, IF idem[k] = NoRecord THEN "load"
          ELSE IF idem[k] = Request(a, x) THEN "replayed" ELSE "conflict")

\* A request arrives and reads the idempotency record of its key.
Begin(r) ==
  /\ pc[r] = "idle"
  /\ overlaps' = IF \E q \in Reqs : pc[q] \in ActivePcs THEN overlaps \cup {r} ELSE overlaps
  /\ \E a \in Actions, x \in Payloads, k \in Keys :
       /\ action'  = [action EXCEPT ![r] = a]
       /\ payload' = [payload EXCEPT ![r] = x]
       /\ key'     = [key EXCEPT ![r] = k]
       /\ Lookup(r, a, x, k)
  /\ UNCHANGED <<store, fresh, applied, crashes>>

\* _authorized_proposal: a missing proposal and another principal's are both
\* answered as expired.
AuthorizedProposal(a) == IF proposals[a] = "absent" THEN {FALSE} ELSE {TRUE, FALSE}

\* (1)-(3) The proposal, its expires_at, the payload against the proposal and
\* against the adapter's schema for the action type.
Load(r) ==
  /\ pc[r] = "load"
  /\ LET a == action[r]
         x == payload[r]
     IN \E authorized \in AuthorizedProposal(a) :
          Goto(r, IF ~authorized THEN "expired"
                  ELSE IF proposals[a] = "stale" THEN "drop"
                  ELSE IF Unexpected(a, x) # {} THEN "mismatch"
                  ELSE IF x \notin Valid THEN "invalid"
                  ELSE "precheck")
  /\ UNCHANGED <<store, fresh, applied, action, payload, key, crashes, overlaps>>

\* A proposal past expires_at is deleted before the 409.
DropExpired(r) ==
  /\ pc[r] = "drop"
  /\ proposals' = [proposals EXCEPT ![action[r]] = "absent"]
  /\ Goto(r, "expired")
  /\ UNCHANGED <<idem, lapsed, fresh, applied, action, payload, key, crashes, overlaps>>

\* The adapter reads the live target: unchanged or drifted (or gone), or it
\* raises DownstreamError on a 4xx/5xx, or the transport fails.
CheckPreconditions(a) ==
  {IF fresh[a] THEN "ok" ELSE "drifted", "downstream", "error"}

\* (4) Drift is 409, DownstreamError 502, a transport error 500.
Precheck(r) ==
  /\ pc[r] = "precheck"
  /\ \E found \in CheckPreconditions(action[r]) :
       Goto(r, IF found = "ok" THEN "mutate"
               ELSE IF found = "drifted" THEN "stale_target" ELSE found)
  /\ UNCHANGED <<store, fresh, applied, action, payload, key, crashes, overlaps>>

\* Mutant: a 4xx/5xx answer of the target is taken for success.
MutateFailed(r) == Goto(r, "record") /\ UNCHANGED <<applied, fresh>>

\* The target answers an error, or the call fails before it got there.
Refused(r) == (Goto(r, "downstream") \/ Goto(r, "error")) /\ UNCHANGED <<applied, fresh>>

\* The target applies the mutation, which may itself move the target on.
Applied(r) ==
  /\ applied' = applied \cup {r}
  /\ \E still \in BOOLEAN :
       fresh' = [fresh EXCEPT ![action[r]] = @ /\ still]

\* (5) adapter.execute, once, with no retry.
Mutate(r) ==
  /\ pc[r] = "mutate"
  /\ \/ Applied(r) /\ Goto(r, "record")
     \/ Refused(r)
     \/ LostReplies /\ Applied(r) /\ (Goto(r, "downstream") \/ Goto(r, "error"))
  /\ UNCHANGED <<store, action, payload, key, crashes, overlaps>>

\* Mutant: the outcome is not recorded.
RecordSkipped(r) ==
  /\ pc[r] = "record"
  /\ Goto(r, "consume")
  /\ UNCHANGED <<store, fresh, applied, action, payload, key, crashes, overlaps>>

\* Mutant: the record leaves out which action it is about.
RecordPayloadOnly(r) ==
  /\ pc[r] = "record"
  /\ idem' = [idem EXCEPT ![key[r]] = payload[r]]
  /\ Goto(r, "consume")
  /\ UNCHANGED <<proposals, lapsed, fresh, applied, action, payload, key, crashes, overlaps>>

\* (6) put_idempotency ...
Record(r) ==
  /\ pc[r] = "record"
  /\ idem' = [idem EXCEPT ![key[r]] = Request(action[r], payload[r])]
  /\ Goto(r, "consume")
  /\ UNCHANGED <<proposals, lapsed, fresh, applied, action, payload, key, crashes, overlaps>>

\* Mutant: the proposal is left for its TTL.
ConsumeSkipped(r) ==
  /\ pc[r] = "consume"
  /\ Goto(r, "executed")
  /\ UNCHANGED <<store, fresh, applied, action, payload, key, crashes, overlaps>>

\* ... then delete_proposal, and the 200.
Consume(r) ==
  /\ pc[r] = "consume"
  /\ proposals' = [proposals EXCEPT ![action[r]] = "absent"]
  /\ Goto(r, "executed")
  /\ UNCHANGED <<idem, lapsed, fresh, applied, action, payload, key, crashes, overlaps>>

-----------------------------------------------------------------------------
(* reject_action *)

\* _authorized_proposal for an existing proposal, stale or not.
RejectLoad(q) ==
  /\ pc[q] = "idle"
  /\ \E a \in Actions :
       /\ action' = [action EXCEPT ![q] = a]
       /\ \E authorized \in AuthorizedProposal(a) :
            Goto(q, IF authorized THEN "delete" ELSE "expired")
  /\ UNCHANGED <<store, fresh, applied, payload, key, crashes, overlaps>>

RejectDelete(q) ==
  /\ pc[q] = "delete"
  /\ proposals' = [proposals EXCEPT ![action[q]] = "absent"]
  /\ Goto(q, "rejected")
  /\ UNCHANGED <<idem, lapsed, fresh, applied, action, payload, key, crashes, overlaps>>

-----------------------------------------------------------------------------
(* The environment *)

\* A handler dies between two of its calls.
Crash(p) ==
  /\ pc[p] \in ActivePcs \cup {"delete"} /\ crashes < MaxCrashes
  /\ crashes' = crashes + 1
  /\ Goto(p, "dead")
  /\ UNCHANGED <<store, fresh, applied, action, payload, key, overlaps>>

\* Somebody changes the target, away from or back to the approved state.
Drift(a) ==
  /\ fresh' = [fresh EXCEPT ![a] = ~@]
  /\ UNCHANGED <<store, applied, pc, action, payload, key, crashes, overlaps>>

\* expires_at passes, and later the key's TTL (it is set after expires_at).
Age(a) ==
  /\ proposals[a] # "absent"
  /\ proposals' = [proposals EXCEPT ![a] = IF @ = "live" THEN "stale" ELSE "absent"]
  /\ UNCHANGED <<idem, lapsed, fresh, applied, pc, action, payload, key, crashes, overlaps>>

\* The record of an outcome reaches its TTL.
ForgetOutcome(k) ==
  /\ idem[k] # NoRecord
  /\ idem' = [idem EXCEPT ![k] = NoRecord]
  /\ lapsed' = lapsed \cup {k}
  /\ UNCHANGED <<proposals, fresh, applied, pc, action, payload, key, crashes, overlaps>>

Next ==
  \/ \E r \in Reqs : \/ Begin(r) \/ Load(r) \/ DropExpired(r) \/ Precheck(r)
                     \/ Mutate(r) \/ Record(r) \/ Consume(r)
  \/ \E q \in Rejects : RejectLoad(q) \/ RejectDelete(q)
  \/ \E p \in Procs : Crash(p)
  \/ \E a \in Actions : Drift(a) \/ Age(a)
  \/ \E k \in Keys : ForgetOutcome(k)

Spec == Init /\ [][Next]_vars

-----------------------------------------------------------------------------
(* Properties *)

\* Every variable keeps to its type, and a request past its begin keeps what
\* it asked for.
TypeOK ==
  /\ proposals \in [Actions -> {"live", "stale", "absent"}]
  /\ idem \in [Keys -> Requests \cup {NoRecord}]
  /\ fresh \in [Actions -> BOOLEAN]
  /\ applied \in SUBSET Reqs
  /\ pc \in [Procs -> ReqPcs \cup RejectPcs]
  /\ action \in [Procs -> Actions \cup {NotSet}]
  /\ payload \in [Reqs -> Payloads \cup {NotSet}]
  /\ key \in [Reqs -> Keys \cup {NotSet}]
  /\ crashes \in 0 .. MaxCrashes
  /\ lapsed \in SUBSET Keys
  /\ overlaps \in SUBSET Reqs
  /\ \A r \in Reqs : pc[r] # "idle" =>
       action[r] \in Actions /\ payload[r] \in Payloads /\ key[r] \in Keys
  /\ \A q \in Rejects : pc[q] # "idle" => action[q] \in Actions

\* Some request's mutation of this action with this payload took effect.
TookEffect(a, x) == \E r \in applied : action[r] = a /\ payload[r] = x

\* A 200 never lies: an executed or replayed answer, and any idempotency
\* record a later replay would serve, stands for a mutation of exactly that
\* action and payload that took effect, also when keys are reused while
\* requests overlap and handlers die.
AnswerMeansApplied ==
  /\ \A r \in Reqs : pc[r] \in {"executed", "replayed"} =>
       TookEffect(action[r], payload[r])
  /\ \A k \in Keys : idem[k] # NoRecord =>
       TookEffect(idem[k].action, idem[k].payload)

\* Once an execute or a rejection has been answered, the proposal is gone for
\* good: no request that arrives later gets past its load.
ConsumedForGood ==
  \A p \in Procs : pc[p] \in {"executed", "rejected"} =>
    proposals[action[p]] = "absent"

\* The client of a request that took effect was never told so.
Unanswered(r) == pc[r] \in {"downstream", "error", "dead"}

\* Of two requests that both made an action take effect, one ended in an error
\* or died: clients that wait for each answer, whatever keys they use and
\* whoever rejects the proposal meanwhile, repeat a mutation only when they
\* were never told of the first one.
RepeatNeedsFault ==
  overlaps = {} =>
    \A r, q \in applied : action[r] = action[q] /\ r # q =>
      Unanswered(r) \/ Unanswered(q)

\* Clients that wait for each answer: one that repeats an answered request with
\* its key gets the recorded answer, although the proposal is consumed by then,
\* as long as the record of no outcome under that key has run out.
RetryGetsReplay ==
  [][\A r, q \in Reqs :
       /\ overlaps = {}
       /\ pc[q] = "executed" /\ pc[r] = "idle" /\ pc'[r] # "idle"
       /\ action'[r] = action[q] /\ payload'[r] = payload[q] /\ key'[r] = key[q]
       /\ key[q] \notin lapsed
       => pc'[r] = "replayed"]_vars

\* The documented promise that the approved bytes are executed: outside the
\* editable fields an applied payload is the proposal's, field by field and
\* as JSON text.
AppliedByteForByte ==
  \A r \in applied :
    LET x == payload[r]
        p == Proposed[action[r]]
    IN \A f \in (DOMAIN p \cup DOMAIN x) \ Editable[action[r]] :
         f \in DOMAIN p \cap DOMAIN x /\ p[f].json = x[f].json

\* The documented promise about a crash between the record and the deletion of
\* the proposal: no mutation of an action whose outcome is on record, under
\* whichever key.
RecordedActionNeverMutates ==
  [][\A r \in applied' \ applied, k \in Keys :
       idem[k] # NoRecord => idem[k].action # action[r]]_vars

\* The documented promise that the mutation happens exactly once: an approved
\* action never takes effect twice.
AtMostOnce ==
  \A r, q \in applied : action[r] = action[q] => r = q

=============================================================================
