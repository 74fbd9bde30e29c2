--------------------------- MODULE Tracing_proofs ---------------------------
(***************************************************************************)
(* One id per workflow, and handled answers whose id the log knows, for    *)
(* any number of jobs, requests and caller ids.                            *)
(***************************************************************************)
EXTENDS Tracing, TLAPS

Ids == CallerIds \cup Nat
Asked == [op : {"submit", "job", "execute", "action"}, job : Jobs,
          header : CallerIds \cup {NoHeader, EmptyHeader}]
Answers == [status : {"served", "replayed", "refused", "raised"},
            header : Ids, body : Ids, line : Ids]
Pcs == {"new", "handler", "served", "replayed", "refused", "raised", "over"}

TypeOK ==
  /\ minted \in Nat
  /\ record \in [Jobs -> Ids] /\ proposal \in [Jobs -> Ids] /\ run \in [Jobs -> Ids]
  /\ outcome \in [Jobs -> BOOLEAN]
  /\ calls \subseteq [job : Jobs, id : Ids]
  /\ req \in [Requests -> {NoRequest} \cup Asked]
  /\ pc \in [Requests -> Pcs]
  /\ bound \in [Requests -> Ids] /\ body \in [Requests -> Ids]
  /\ answer \in [Requests -> {NoAnswer} \cup Answers]

\* A request keeps to its path: what it asks is fixed when it arrives, a job is
\* submitted by the request it is named after, and there is no answer before
\* the last step; an answer that is ready shows the id that is bound.
RequestInv ==
  /\ \A r \in Requests :
       /\ pc[r] # "new" => req[r] \in Asked /\ (req[r].op = "submit" => r \in Jobs)
       /\ pc[r] # "over" => answer[r] = NoAnswer
       /\ pc[r] \in {"served", "replayed", "refused"} => body[r] = bound[r]
  /\ \A j \in Jobs : pc[j] # "new" => req[j].op = "submit" /\ req[j].job = j

-----------------------------------------------------------------------------
LEMMA IdsFacts == NoId \in Ids /\ (TypeOK => NewId \in Ids /\ NewId \in Nat)
BY DEF Ids, NoId, NewId, TypeOK

\* The part of a handler that EndsWith describes keeps the types.
LEMMA EndsWithType ==
  ASSUME TypeOK, NEW r \in Requests, NEW id \in Ids,
         NEW ways \in SUBSET {"served", "replayed", "refused"}, EndsWith(r, id, ways),
         record' \in [Jobs -> Ids], proposal' \in [Jobs -> Ids], outcome' \in [Jobs -> BOOLEAN]
  PROVE  TypeOK'
BY IdsFacts DEF TypeOK, EndsWith, Pcs, worker

LEMMA TypeStep == TypeOK /\ RequestInv /\ [Next]_vars => TypeOK'
<1> SUFFICES ASSUME TypeOK, RequestInv, [Next]_vars PROVE TypeOK'
  OBVIOUS
<1> USE IdsFacts DEF Requests, store, worker, requests
<1>1. ASSUME NEW r \in Requests, NEW op \in {"submit", "job", "execute", "action"},
             NEW j \in Jobs, NEW h \in CallerIds \cup {NoHeader, EmptyHeader},
             Enter(r, op, j, h)
      PROVE  TypeOK'
  <2>1. [op |-> op, job |-> j, header |-> h] \in Asked
    BY DEF Asked
  <2>2. req' \in [Requests -> {NoRequest} \cup Asked]
    BY <1>1, <2>1 DEF Enter, TypeOK
  <2>3. bound' \in [Requests -> Ids] /\ minted' \in Nat
    BY <1>1 DEF Enter, TypeOK, Ids
  <2>4. QED
    BY <1>1, <2>2, <2>3 DEF Enter, TypeOK, Pcs
<1>2. ASSUME NEW r \in Requests, Refuse(r) PROVE TypeOK'
  BY <1>2, EndsWithType DEF Refuse, TypeOK
<1>3. ASSUME NEW r \in Requests, SubmitResearch(r) PROVE TypeOK'
  <2>1. bound[r] \in Ids /\ UNCHANGED <<proposal, outcome>> /\ record' \in [Jobs -> Ids]
    BY <1>3 DEF SubmitResearch, TypeOK
  <2>2. EndsWith(r, bound[r], {"served", "refused"})
    BY <1>3 DEF SubmitResearch
  <2>3. QED
    BY <2>1, <2>2, EndsWithType DEF TypeOK
<1>4. ASSUME NEW r \in Requests, pc[r] = "handler" PROVE req[r].job \in Jobs
  BY <1>4 DEF RequestInv, Asked
<1>5. ASSUME NEW r \in Requests, ServeJob(r) \/ Replay(r) PROVE TypeOK'
  <2>1. record[req[r].job] \in Ids /\ bound[r] \in Ids
    BY <1>4, <1>5 DEF ServeJob, Replay, At, TypeOK
  <2>2. UNCHANGED <<record, proposal, outcome>>
    BY <1>5 DEF ServeJob, Replay
  <2>3. QED
    BY <1>5, <2>1, <2>2, EndsWithType DEF ServeJob, Replay, AuthorizedJob, TypeOK
<1>6. ASSUME NEW r \in Requests, Execute(r) \/ ServeAction(r) PROVE TypeOK'
  <2>1. AuthorizedProposal(r) \in Ids
    BY <1>4, <1>6 DEF Execute, ServeAction, At, AuthorizedProposal, TypeOK
  <2>2. UNCHANGED record /\ proposal' \in [Jobs -> Ids] /\ outcome' \in [Jobs -> BOOLEAN]
    BY <1>6 DEF Execute, ServeAction, TypeOK
  <2>3. EndsWith(r, AuthorizedProposal(r), {"served"})
    BY <1>6 DEF Execute, ServeAction
  <2>4. QED
    BY <2>1, <2>2, <2>3, EndsWithType DEF TypeOK
<1>7. ASSUME NEW r \in Requests, Send(r) \/ SendUnexpected(r) PROVE TypeOK'
  <2>1. answer' \in [Requests -> {NoAnswer} \cup Answers]
    <3>1. CASE Send(r)
      <4>1. [status |-> pc[r], header |-> Echoed(r), body |-> body[r], line |-> bound[r]] \in Answers
        BY <3>1 DEF Send, Echoed, Answers, TypeOK
      <4>2. QED
        BY <3>1, <4>1 DEF Send, TypeOK
    <3>2. CASE SendUnexpected(r)
      <4>1. [status |-> "raised", header |-> NoId, body |-> NewId, line |-> bound[r]] \in Answers
        BY <3>2 DEF Answers, TypeOK
      <4>2. QED
        BY <3>2, <4>1 DEF SendUnexpected, TypeOK
    <3>3. QED
      BY <1>7, <3>1, <3>2
  <2>2. Reset(r) /\ minted' \in Nat /\ UNCHANGED <<store, worker, req>>
    BY <1>7 DEF Send, SendUnexpected, TypeOK
  <2>3. QED
    BY <2>1, <2>2 DEF Reset, TypeOK, Pcs
<1>8. ASSUME NEW j \in Jobs, Begin(j) \/ End(j) \/ Persist(j) \/ Expire(j) PROVE TypeOK'
  BY <1>8 DEF Begin, End, Persist, Expire, TypeOK
<1>9. ASSUME NEW j \in Jobs, Work(j) PROVE TypeOK'
  BY <1>9 DEF Work, TypeOK
<1>10. CASE UNCHANGED vars
  BY <1>10 DEF vars, TypeOK
<1>11. QED
  BY <1>1, <1>2, <1>3, <1>5, <1>6, <1>7, <1>8, <1>9, <1>10 DEF Next

LEMMA RequestStep == TypeOK /\ RequestInv /\ [Next]_vars => RequestInv'
<1> SUFFICES ASSUME TypeOK, RequestInv, [Next]_vars PROVE RequestInv'
  OBVIOUS
<1> USE RequestsDiffer DEF Requests, RequestInv, TypeOK, store, worker, requests
<1>1. ASSUME NEW r \in Requests, NEW op \in {"submit", "job", "execute", "action"},
             NEW j \in Jobs, NEW h \in CallerIds \cup {NoHeader, EmptyHeader},
             Enter(r, op, j, h), IF op = "submit" THEN r = j ELSE r \in Others
      PROVE  RequestInv'
  <2>1. [op |-> op, job |-> j, header |-> h] \in Asked
    BY DEF Asked
  <2>2. req'[r] = [op |-> op, job |-> j, header |-> h]
    BY <1>1 DEF Enter
  <2>3. QED
    BY <1>1, <2>1, <2>2 DEF Enter
<1>2. ASSUME NEW r \in Requests, NEW id, NEW ways, EndsWith(r, id, ways), pc[r] = "handler",
             "over" \notin ways
      PROVE  RequestInv'
  BY <1>2 DEF EndsWith
<1>3. ASSUME NEW r \in Requests,
             Refuse(r) \/ SubmitResearch(r) \/ ServeJob(r) \/ Replay(r)
             \/ Execute(r) \/ ServeAction(r)
      PROVE  RequestInv'
  BY <1>2, <1>3 DEF Refuse, SubmitResearch, ServeJob, Replay, Execute, ServeAction, At
<1>4. ASSUME NEW r \in Requests, Send(r) \/ SendUnexpected(r) PROVE RequestInv'
  <2>1. UNCHANGED req /\ Reset(r) /\ pc[r] # "new"
    BY <1>4 DEF Send, SendUnexpected
  <2>2. pc'[r] = "over" /\ \A q \in Requests : q # r =>
          pc'[q] = pc[q] /\ body'[q] = body[q] /\ bound'[q] = bound[q] /\ answer'[q] = answer[q]
    BY <1>4, <2>1 DEF Reset, Send, SendUnexpected
  <2>3. QED
    BY <2>1, <2>2
<1>5. CASE UNCHANGED requests
  BY <1>5
<1>6. ASSUME NEW h \in CallerIds \cup {NoHeader, EmptyHeader},
             \/ \E j \in Jobs : Enter(j, "submit", j, h)
             \/ \E r \in Others, op \in {"job", "execute", "action"}, j \in Jobs : Enter(r, op, j, h)
      PROVE  RequestInv'
  <2>1. ASSUME NEW j \in Jobs, Enter(j, "submit", j, h) PROVE RequestInv'
    BY <1>1, <2>1
  <2>2. ASSUME NEW r \in Others, NEW op \in {"job", "execute", "action"}, NEW j \in Jobs,
               Enter(r, op, j, h)
        PROVE  RequestInv'
    BY <1>1, <2>2
  <2>3. QED
    BY <1>6, <2>1, <2>2
<1>7. ASSUME NEW j \in Jobs, Begin(j) \/ Work(j) \/ Persist(j) \/ End(j) \/ Expire(j)
      PROVE  RequestInv'
  BY <1>5, <1>7 DEF Begin, Work, Persist, End, Expire
<1>8. CASE UNCHANGED vars
  BY <1>5, <1>8 DEF vars
<1>9. QED
  BY <1>3, <1>4, <1>6, <1>7, <1>8 DEF Next

\* What is sent is what was bound.
SentInv ==
  \A r \in Requests : answer[r].status \in {"served", "replayed", "refused"} =>
    answer[r].header = answer[r].body /\ answer[r].line = answer[r].body

\* What a step may do to the answers.
LEMMA AnswerKinds ==
  ASSUME TypeOK, RequestInv, [Next]_vars
  PROVE  \/ UNCHANGED answer
         \/ \E r \in Requests : Send(r) \/ SendUnexpected(r)
BY DEF Next, vars, requests, Enter, Refuse, SubmitResearch, ServeJob, Replay, Execute,
       ServeAction, EndsWith, Begin, Work, Persist, End, Expire

LEMMA SentStep == TypeOK /\ RequestInv /\ SentInv /\ [Next]_vars => SentInv'
<1> SUFFICES ASSUME TypeOK, RequestInv, SentInv, [Next]_vars PROVE SentInv'
  OBVIOUS
<1> USE DEF SentInv
<1>1. CASE UNCHANGED answer
  BY <1>1
<1>2. ASSUME NEW r \in Requests, Send(r) PROVE SentInv'
  <2>1. answer'[r].header = bound[r] /\ answer'[r].body = body[r] /\ answer'[r].line = bound[r]
    BY <1>2 DEF Send, Echoed, TypeOK
  <2>2. body[r] = bound[r]
    BY <1>2 DEF Send, RequestInv
  <2>3. \A q \in Requests : q # r => answer'[q] = answer[q]
    BY <1>2 DEF Send, TypeOK
  <2>4. QED
    BY <2>1, <2>2, <2>3
<1>3. ASSUME NEW r \in Requests, SendUnexpected(r) PROVE SentInv'
  <2>1. answer'[r].status = "raised" /\ \A q \in Requests : q # r => answer'[q] = answer[q]
    BY <1>3 DEF SendUnexpected, TypeOK
  <2>2. QED
    BY <2>1
<1>4. QED
  BY <1>1, <1>2, <1>3, AnswerKinds

IInv == TypeOK /\ RequestInv /\ SentInv

LEMMA Invariance == Spec => []IInv
<1>1. Init => IInv
  <2> SUFFICES ASSUME Init PROVE IInv
    OBVIOUS
  <2>1. TypeOK
    BY IdsFacts DEF Init, TypeOK, Pcs
  <2>2. RequestInv
    BY DEF Init, RequestInv, Requests
  <2>3. \A q \in Requests : answer[q].status = "none"
    BY DEF Init, NoAnswer
  <2>4. SentInv
    BY <2>3 DEF SentInv
  <2>5. QED
    BY <2>1, <2>2, <2>4 DEF IInv
<1>2. IInv /\ [Next]_vars => IInv'
  BY TypeStep, RequestStep, SentStep DEF IInv
<1>3. QED
  BY <1>1, <1>2, PTL DEF Spec

\* Header, body and access log line of an answer from inside the middleware
\* agree, whatever a handler bound on the way.
THEOREM AnswersTraced == Spec => []AnswersTraceable
<1>1. IInv => AnswersTraceable
  BY DEF IInv, SentInv, AnswersTraceable
<1>2. QED
  BY <1>1, Invariance, PTL

(***************************************************************************)
(* One id per workflow.                                                    *)
(***************************************************************************)

\* r is being served or has been, and what its answer shows.
Serving(r) == pc[r] = "served" \/ answer[r].status = "served"
Shown(r) == IF answer[r].status = "served" THEN answer[r].header ELSE bound[r]

\* Requests that may keep an id of their own.
KeepsOwn(r) == req[r].op \in {"execute", "action"} /\ FromHeader(r)

\* Until its request has been handled there is no trace of a job.
NoTrace(j) ==
  /\ record[j] = NoId /\ proposal[j] = NoId /\ run[j] = NoId
  /\ \A c \in calls : c.job # j
  /\ \A r \in Requests : Serving(r) => req[r].job # j

\* From its 202 on, every trace of the job shows the id the 202 shows.
OneTrace(j) ==
  /\ {record[j], proposal[j], run[j]} \subseteq {NoId, Shown(j)}
  /\ \A c \in calls : c.job = j => c.id = Shown(j)
  /\ \A r \in Requests : Serving(r) /\ req[r].job = j => Shown(r) = Shown(j) \/ KeepsOwn(r)

WorkflowInv ==
  \A j \in Jobs : /\ pc[j] \in {"new", "handler"} => NoTrace(j)
                  /\ Serving(j) => OneTrace(j)

Same(r) == /\ pc'[r] = pc[r] /\ req'[r] = req[r]
           /\ bound'[r] = bound[r] /\ answer'[r] = answer[r]

\* A request that touches neither the store nor what it shows breaks nothing.
LEMMA QuietRequest ==
  ASSUME WorkflowInv, NEW r \in Requests, \A q \in Requests \ {r} : Same(q),
         UNCHANGED <<record, proposal, run, calls>>,
         pc'[r] \in {"new", "handler"} => pc[r] \in {"new", "handler"},
         \/ ~Serving(r)'
         \/ /\ Serving(r) /\ Serving(r)' /\ req'[r] = req[r] /\ Shown(r)' = Shown(r)
  PROVE  WorkflowInv'
<1>1. ASSUME NEW q \in Requests, Serving(q)'
      PROVE  Serving(q) /\ Shown(q)' = Shown(q) /\ req'[q] = req[q]
             /\ (KeepsOwn(q)' <=> KeepsOwn(q))
  BY <1>1 DEF Serving, Shown, Same, KeepsOwn, FromHeader
<1>2. ASSUME NEW j \in Jobs, pc'[j] \in {"new", "handler"} PROVE NoTrace(j)'
  <2>1. NoTrace(j)
    BY <1>2 DEF WorkflowInv, Same, Requests
  <2>2. QED
    BY <1>1, <2>1 DEF NoTrace
<1>3. ASSUME NEW j \in Jobs, Serving(j)' PROVE OneTrace(j)'
  <2>1. OneTrace(j) /\ Shown(j)' = Shown(j)
    BY <1>1, <1>3 DEF WorkflowInv, Requests
  <2>2. QED
    BY <1>1, <2>1 DEF OneTrace
<1>4. QED
  BY <1>2, <1>3 DEF WorkflowInv

\* A request that begins to show the job's id is another trace of it; what it
\* does to a proposal is to take it away.
LEMMA ServedRequest ==
  ASSUME TypeOK, RequestInv, WorkflowInv,
         NEW r \in Requests \ Jobs, NEW id, NEW k \in Jobs,
         EndsWith(r, id, {"served"}), pc[r] = "handler", req[r].job = k,
         UNCHANGED record, proposal' \in {proposal, [proposal EXCEPT ![k] = NoId]},
         (id \in {record[k], proposal[k]} /\ id # NoId) \/ KeepsOwn(r),
         record[k] # NoId \/ proposal[k] # NoId
  PROVE  WorkflowInv'
<1>1. /\ \A q \in Requests \ {r} : Same(q)
      /\ UNCHANGED <<run, calls, req>> /\ bound'[r] = id /\ answer'[r] = NoAnswer
      /\ pc'[r] \in {"served", "raised"}
  BY DEF EndsWith, Same, TypeOK, RequestInv, worker
<1>2. ASSUME NEW q \in Requests, q # r
      PROVE  /\ Shown(q)' = Shown(q)
             /\ Serving(q)' = Serving(q)
             /\ KeepsOwn(q)' = KeepsOwn(q)
  BY <1>1, <1>2 DEF Serving, Shown, Same, KeepsOwn, FromHeader
<1>3. /\ \A j \in Jobs : j \in Requests /\ j # r /\ pc'[j] = pc[j]
      /\ \A j \in Jobs : proposal'[j] \in {proposal[j], NoId}
  BY <1>1 DEF Requests, Same, TypeOK
<1>4. Shown(r)' = id /\ KeepsOwn(r)' = KeepsOwn(r)
  BY <1>1 DEF Shown, NoAnswer, KeepsOwn, FromHeader
<1>5. ASSUME NEW j \in Jobs, pc'[j] \in {"new", "handler"} PROVE NoTrace(j)'
  <2>1. NoTrace(j)
    BY <1>3, <1>5 DEF WorkflowInv
  <2>2. j # k
    BY <2>1 DEF NoTrace
  <2>3. \A q \in Requests : Serving(q)' => req'[q].job # j
    BY <1>1, <1>2, <2>1, <2>2 DEF NoTrace
  <2>4. QED
    BY <1>1, <1>3, <2>1, <2>3 DEF NoTrace
<1>6. ASSUME NEW j \in Jobs, Serving(j)' PROVE OneTrace(j)'
  <2>1. OneTrace(j) /\ Shown(j)' = Shown(j)
    BY <1>2, <1>3, <1>6 DEF WorkflowInv
  <2>2. j = k => id = Shown(j) \/ KeepsOwn(r)
    BY <2>1 DEF OneTrace
  <2>3. ASSUME NEW q \in Requests, Serving(q)', req'[q].job = j
        PROVE  Shown(q)' = Shown(j)' \/ KeepsOwn(q)'
    BY <1>1, <1>2, <1>4, <2>1, <2>2, <2>3 DEF OneTrace
  <2>4. {record'[j], proposal'[j], run'[j]} \subseteq {NoId, Shown(j)'}
    BY <1>1, <1>3, <2>1 DEF OneTrace
  <2>5. \A c \in calls' : c.job = j => c.id = Shown(j)'
    BY <1>1, <2>1 DEF OneTrace
  <2>6. QED
    BY <2>3, <2>4, <2>5 DEF OneTrace
<1>7. QED
  BY <1>5, <1>6 DEF WorkflowInv

LEMMA WorkflowStep == IInv /\ WorkflowInv /\ [Next]_vars => WorkflowInv'
<1> SUFFICES ASSUME TypeOK, RequestInv, WorkflowInv, [Next]_vars PROVE WorkflowInv'
  BY DEF IInv
<1>1. ASSUME NEW r \in Requests, NEW op, NEW k, NEW h, Enter(r, op, k, h) PROVE WorkflowInv'
  <2>1. /\ \A q \in Requests \ {r} : Same(q)
        /\ UNCHANGED <<record, proposal, run, calls, answer>>
        /\ pc[r] = "new" /\ pc'[r] = "handler"
    BY <1>1 DEF Enter, Same, TypeOK, store, worker
  <2>2. ~Serving(r)'
    BY <2>1 DEF Serving, RequestInv, NoAnswer
  <2>3. QED
    BY <2>1, <2>2, QuietRequest
<1>2. ASSUME NEW r \in Requests, Refuse(r) \/ Replay(r) PROVE WorkflowInv'
  <2>1. /\ \A q \in Requests \ {r} : Same(q)
        /\ UNCHANGED <<record, proposal, run, calls, answer>>
        /\ pc[r] = "handler" /\ pc'[r] \in {"refused", "replayed", "raised"}
    BY <1>2 DEF Refuse, Replay, At, EndsWith, Same, TypeOK, store, worker
  <2>2. ~Serving(r)'
    BY <2>1 DEF Serving, RequestInv, NoAnswer
  <2>3. QED
    BY <2>1, <2>2, QuietRequest
<1>3. ASSUME NEW r \in Requests, pc[r] = "handler", req[r].op # "submit"
      PROVE  r \in Requests \ Jobs /\ req[r].job \in Jobs
  BY <1>3 DEF RequestInv, Asked
<1>4. ASSUME NEW r \in Requests, ServeJob(r) PROVE WorkflowInv'
  <2>1. /\ pc[r] = "handler" /\ req[r].op # "submit" /\ UNCHANGED <<record, proposal>>
        /\ EndsWith(r, record[req[r].job], {"served"}) /\ record[req[r].job] # NoId
    BY <1>4 DEF ServeJob, At, AuthorizedJob, store
  <2>2. QED
    BY <1>3, <2>1, ServedRequest
<1>5. ASSUME NEW r \in Requests, Execute(r) \/ ServeAction(r) PROVE WorkflowInv'
  <2>1. /\ pc[r] = "handler" /\ req[r].op \in {"execute", "action"} /\ UNCHANGED record
        /\ EndsWith(r, AuthorizedProposal(r), {"served"}) /\ proposal[req[r].job] # NoId
        /\ proposal' \in {proposal, [proposal EXCEPT ![req[r].job] = NoId]}
    BY <1>5 DEF Execute, ServeAction, At
  <2>2. AuthorizedProposal(r) = proposal[req[r].job] \/ KeepsOwn(r)
    BY <2>1 DEF AuthorizedProposal, KeepsOwn
  <2>3. QED
    BY <1>3, <2>1, <2>2, ServedRequest
<1>6. ASSUME NEW r \in Requests, SubmitResearch(r) PROVE WorkflowInv'
  <2>1. /\ r \in Jobs /\ pc[r] = "handler" /\ req[r].job = r
        /\ record' = [record EXCEPT ![r] = bound[r]] /\ UNCHANGED proposal
        /\ EndsWith(r, bound[r], {"served", "refused"})
    BY <1>6 DEF SubmitResearch, At, RequestInv
  <2>2. /\ \A q \in Requests : q # r => Same(q)
        /\ UNCHANGED <<run, calls, req, answer>> /\ bound'[r] = bound[r]
        /\ answer[r] = NoAnswer /\ pc'[r] \in {"served", "refused", "raised"}
    BY <2>1 DEF EndsWith, Same, TypeOK, RequestInv, worker
  <2>3. NoTrace(r)
    BY <2>1 DEF WorkflowInv
  <2>4. ASSUME NEW q \in Requests, q # r
        PROVE  /\ Shown(q)' = Shown(q)
               /\ Serving(q)' = Serving(q)
               /\ KeepsOwn(q)' = KeepsOwn(q)
    BY <2>2, <2>4 DEF Serving, Shown, Same, KeepsOwn, FromHeader
  <2>5. Shown(r)' = bound[r]
    BY <2>2 DEF Shown, NoAnswer
  <2>6. \A j \in Jobs : j \in Requests /\ (j # r => record'[j] = record[j])
    BY <2>1 DEF Requests, TypeOK
  <2>7. ASSUME NEW j \in Jobs, pc'[j] \in {"new", "handler"} PROVE NoTrace(j)'
    <3>1. j # r /\ NoTrace(j)
      BY <2>2, <2>6, <2>7 DEF WorkflowInv, Same
    <3>2. \A q \in Requests : Serving(q)' => req'[q].job # j
      BY <2>1, <2>2, <2>4, <3>1 DEF NoTrace
    <3>3. QED
      BY <2>1, <2>2, <2>6, <3>1, <3>2 DEF NoTrace
  <2>8. ASSUME NEW j \in Jobs, j # r, Serving(j)' PROVE OneTrace(j)'
    <3>1. OneTrace(j) /\ Shown(j)' = Shown(j)
      BY <2>4, <2>6, <2>8 DEF WorkflowInv
    <3>2. ASSUME NEW q \in Requests, Serving(q)', req'[q].job = j
          PROVE  Shown(q)' = Shown(j)' \/ KeepsOwn(q)'
      BY <2>1, <2>2, <2>4, <2>8, <3>1, <3>2 DEF OneTrace
    <3>3. QED
      BY <2>1, <2>2, <2>6, <2>8, <3>1, <3>2 DEF OneTrace
  <2>9. OneTrace(r)'
    <3>1. record'[r] = bound[r]
      BY <2>1 DEF TypeOK
    <3>2. \A q \in Requests : Serving(q)' /\ req'[q].job = r => q = r
      BY <2>2, <2>3, <2>4 DEF NoTrace
    <3>3. QED
      BY <2>1, <2>2, <2>3, <2>5, <3>1, <3>2 DEF OneTrace, NoTrace
  <2>10. QED
    BY <2>7, <2>8, <2>9 DEF WorkflowInv
<1>7. ASSUME NEW r \in Requests, Send(r) PROVE WorkflowInv'
  <2>1. /\ \A q \in Requests \ {r} : Same(q)
        /\ UNCHANGED <<record, proposal, run, calls, req>>
        /\ pc[r] # "over" /\ pc'[r] = "over"
        /\ answer'[r].status = pc[r] /\ answer'[r].header = bound[r]
    BY <1>7 DEF Send, Reset, Echoed, Same, TypeOK, store, worker
  <2>2. Serving(r)' => Serving(r) /\ Shown(r)' = Shown(r)
    BY <2>1 DEF Serving, Shown, RequestInv, NoAnswer
  <2>3. QED
    BY <2>1, <2>2, QuietRequest
<1>8. ASSUME NEW r \in Requests, SendUnexpected(r) PROVE WorkflowInv'
  <2>1. /\ \A q \in Requests \ {r} : Same(q)
        /\ UNCHANGED <<record, proposal, run, calls, req>>
        /\ pc'[r] = "over" /\ answer'[r].status = "raised"
    BY <1>8 DEF SendUnexpected, Reset, Same, TypeOK, store, worker
  <2>2. ~Serving(r)'
    BY <2>1 DEF Serving
  <2>3. QED
    BY <2>1, <2>2, QuietRequest
<1>9. ASSUME NEW k \in Jobs, Begin(k) \/ Work(k) \/ Persist(k) \/ End(k) \/ Expire(k)
      PROVE  WorkflowInv'
  <2>1. \A r \in Requests : /\ Shown(r)' = Shown(r)
                            /\ Serving(r)' = Serving(r)
                            /\ KeepsOwn(r)' = KeepsOwn(r)
    BY <1>9 DEF Begin, Work, Persist, End, Expire, requests, Serving, Shown, KeepsOwn, FromHeader
  <2>2. UNCHANGED <<pc, req>>
    BY <1>9 DEF Begin, Work, Persist, End, Expire, requests
  <2>3. \A j \in Jobs : /\ record'[j] \in {record[j], NoId}
                        /\ proposal'[j] \in {proposal[j], run[j], NoId}
                        /\ run'[j] \in {record[j], run[j], NoId}
    BY <1>9 DEF Begin, Work, Persist, End, Expire, store, worker, TypeOK
  <2>4. \A c \in calls' : c \in calls \/ (c.id = run[c.job] /\ c.job \in Jobs /\ c.id # NoId)
    BY <1>9 DEF Begin, Work, Persist, End, Expire, worker
  <2>5. ASSUME NEW j \in Jobs, pc'[j] \in {"new", "handler"} PROVE NoTrace(j)'
    <3>1. NoTrace(j)
      BY <2>2, <2>5 DEF WorkflowInv
    <3>2. QED
      BY <2>1, <2>2, <2>3, <2>4, <3>1 DEF NoTrace
  <2>6. ASSUME NEW j \in Jobs, Serving(j)' PROVE OneTrace(j)'
    <3>1. OneTrace(j) /\ Shown(j)' = Shown(j)
      BY <2>1, <2>6 DEF WorkflowInv, Requests
    <3>2. {record'[j], proposal'[j], run'[j]} \subseteq {NoId, Shown(j)'}
      BY <2>3, <3>1 DEF OneTrace
    <3>3. \A c \in calls' : c.job = j => c.id = Shown(j)'
      BY <2>4, <3>1 DEF OneTrace
    <3>4. QED
      BY <2>1, <2>2, <3>1, <3>2, <3>3 DEF OneTrace
  <2>7. QED
    BY <2>5, <2>6 DEF WorkflowInv
<1>10. CASE UNCHANGED vars
  BY <1>10 DEF vars, store, worker, requests, WorkflowInv, NoTrace, OneTrace, Serving, Shown,
               KeepsOwn, FromHeader
<1>11. Jobs \subseteq Requests /\ Others \subseteq Requests
  BY DEF Requests
<1>12. QED
  BY <1>1, <1>2, <1>4, <1>5, <1>6, <1>7, <1>8, <1>9, <1>10, <1>11 DEF Next

\* The id the 202 showed is on every line and call of every attempt and on
\* every answer about the job, through expiry, retries and other callers'
\* headers; only executes and requests about an action keep their own.
THEOREM WorkflowHasOneId == Spec => []OneIdPerWorkflow
<1>1. Init => WorkflowInv
  <2> SUFFICES ASSUME Init, NEW j \in Jobs PROVE NoTrace(j) /\ ~Serving(j)
    BY DEF WorkflowInv
  <2>1. \A r \in Requests : ~Serving(r)
    BY DEF Init, Serving, NoAnswer
  <2>2. QED
    BY <2>1 DEF Init, NoTrace, Requests
<1>2. IInv /\ WorkflowInv => OneIdPerWorkflow
  <2> SUFFICES ASSUME IInv, WorkflowInv, NEW j \in Jobs, answer[j].status = "served"
               PROVE  /\ \A c \in calls : c.job = j => c.id = answer[j].body
                      /\ \A r \in Requests :
                           answer[r].status = "served" /\ req[r].job = j =>
                             \/ answer[r].header = answer[j].body
                             \/ req[r].op \in {"execute", "action"} /\ FromHeader(r)
    BY DEF OneIdPerWorkflow, Accepted
  <2>1. OneTrace(j) /\ Shown(j) = answer[j].body
    BY DEF WorkflowInv, Serving, Shown, IInv, SentInv, Requests
  <2>2. QED
    BY <2>1 DEF OneTrace, Serving, Shown, KeepsOwn
<1>3. QED
  BY <1>1, <1>2, WorkflowStep, Invariance, PTL DEF Spec

=============================================================================
