------------------------------ MODULE Tracing ------------------------------
(***************************************************************************)
(* The correlation id on its way through a workflow: submit, worker, poll, *)
(* approval, execute (app/observability/correlation.py).  A request or run *)
(* has its own copy of the context variables; CorrelationMiddleware binds  *)
(* them when a request arrives, a handler may bind them again to the id    *)
(* that is stored with a job or a proposal, and the answer is stamped with *)
(* what is bound when it is sent.  An exception no handler knows is        *)
(* answered by ServerErrorMiddleware, outside CorrelationMiddleware.       *)
(***************************************************************************)
EXTENDS Naturals

CONSTANTS
  Jobs,        \* requests that submit; a job is named after its request
  Others,      \* requests about a job or its action
  CallerIds    \* ids callers send in X-Correlation-Id

NoHeader == "no header"
EmptyHeader == "empty header"

\* The service's own ids are numbers, 0 stands for None.
NoId == 0
ASSUME CallerIdsDiffer == \A c \in CallerIds : c \notin Nat

ASSUME RequestsDiffer == Jobs \cap Others = {}

Requests == Jobs \cup Others

VARIABLES
  minted,    \* the last id new_id has returned
  record,    \* the id stored in the job record, NoId when there is none
  proposal,  \* the id stored in the job's proposal
  outcome,   \* whether an execution of the job's proposal has been recorded
  run,       \* the id bound by a worker that runs the job
  calls,     \* log lines and downstream calls of the runs (history)
  req,       \* each request: what it asks, about which job, with which header
  pc,        \* where each request is
  bound,     \* correlation_id_var of each request
  body,      \* correlation_id in the answer it is about to send
  answer     \* what the caller got

store    == <<record, proposal, outcome>>
worker   == <<run, calls>>
requests == <<req, pc, bound, body, answer>>
vars     == <<minted, store, worker, requests>>

NoRequest == [op |-> "none"]
NoAnswer == [status |-> "none"]

Init ==
  /\ minted = 0
  /\ record = [j \in Jobs |-> NoId]
  /\ proposal = [j \in Jobs |-> NoId]
  /\ outcome = [j \in Jobs |-> FALSE]
  /\ run = [j \in Jobs |-> NoId]
  /\ calls = {}
  /\ req = [r \in Requests |-> NoRequest]
  /\ pc = [r \in Requests |-> "new"]
  /\ bound = [r \in Requests |-> NoId]
  /\ body = [r \in Requests |-> NoId]
  /\ answer = [r \in Requests |-> NoAnswer]

-----------------------------------------------------------------------------
(* CorrelationMiddleware *)

\* new_id
NewId == minted + 1

\* A caller's id is taken as it is; no header, or an empty one, gets a new id.
Enter(r, op, j, h) ==
  /\ pc[r] = "new"
  /\ req' = [req EXCEPT ![r] = [op |-> op, job |-> j, header |-> h]]
  /\ pc' = [pc EXCEPT ![r] = "handler"]
  /\ \/ /\ h \in CallerIds
        /\ bound' = [bound EXCEPT ![r] = h]
        /\ UNCHANGED minted
     \/ /\ h \notin CallerIds
        /\ bound' = [bound EXCEPT ![r] = NewId]
        /\ minted' = NewId
  /\ UNCHANGED <<store, worker, body, answer>>

\* correlation_from_header_var: an empty header counts as supplied.
FromHeader(r) == req[r].header # NoHeader

\* Mutant: the header a caller sent is echoed, whatever a handler bound.
EchoedEntry(r) == IF req[r].header \in CallerIds THEN req[r].header ELSE bound[r]

\* send_wrapper reads the variable when the answer is sent.
Echoed(r) == bound[r]

\* The middleware resets the variables.
Reset(r) ==
  /\ pc' = [pc EXCEPT ![r] = "over"]
  /\ bound' = [bound EXCEPT ![r] = NoId]
  /\ body' = [body EXCEPT ![r] = NoId]

\* The answer leaves through send_wrapper; the access log line follows.
Send(r) ==
  /\ pc[r] \in {"served", "replayed", "refused"}
  /\ answer' = [answer EXCEPT ![r] = [status |-> pc[r], header |-> Echoed(r),
                                      body |-> body[r], line |-> bound[r]]]
  /\ Reset(r)
  /\ UNCHANGED <<minted, store, worker, req>>

\* handle_unexpected: the variables have been reset, current_correlation_id
\* returns a new id, and no one adds the header.
SendUnexpected(r) ==
  /\ pc[r] = "raised"
  /\ minted' = NewId
  /\ answer' = [answer EXCEPT ![r] = [status |-> "raised", header |-> NoId,
                                      body |-> NewId, line |-> bound[r]]]
  /\ Reset(r)
  /\ UNCHANGED <<store, worker, req>>

-----------------------------------------------------------------------------
(* The handlers *)

At(r, op) == pc[r] = "handler" /\ req[r].op = op

\* The handler ends with the variable at id: an answer that shows it, or an
\* exception nobody handles.
EndsWith(r, id, ways) ==
  /\ bound' = [bound EXCEPT ![r] = id]
  /\ \E way \in ways \cup {"raised"} :
       /\ pc' = [pc EXCEPT ![r] = way]
       /\ body' = [body EXCEPT ![r] = IF way = "raised" THEN NoId ELSE id]
  /\ UNCHANGED <<minted, worker, req, answer>>

\* An ApiError before the request is authorized (bad key, no token, unknown
\* or foreign job or action, a key used for another request), and
\* RequestValidationError.
Refuse(r) ==
  /\ pc[r] = "handler"
  /\ EndsWith(r, bound[r], {"refused"})
  /\ UNCHANGED store

\* submit_research; a 503 may follow the record.
SubmitResearch(r) ==
  /\ At(r, "submit")
  /\ record' = [record EXCEPT ![r] = bound[r]]
  /\ EndsWith(r, bound[r], {"served", "refused"})
  /\ UNCHANGED <<proposal, outcome>>

\* Mutant: the job's id is bound only when the caller sent none.
AuthorizedJobUnlessSent(r) == IF FromHeader(r) THEN bound[r] ELSE record[req[r].job]

\* _authorized_job: the stored id is authoritative.
AuthorizedJob(r) == record[req[r].job]

\* poll_research and cancel_research.
ServeJob(r) ==
  /\ At(r, "job") /\ record[req[r].job] # NoId
  /\ EndsWith(r, AuthorizedJob(r), {"served"})
  /\ UNCHANGED store

\* _authorized_proposal: the stored id, unless the caller sent one.
AuthorizedProposal(r) == IF FromHeader(r) THEN bound[r] ELSE proposal[req[r].job]

\* execute_action with the key of a recorded outcome: the answer comes from the
\* idempotency record, with no proposal read.
Replay(r) ==
  /\ At(r, "execute") /\ outcome[req[r].job]
  /\ EndsWith(r, bound[r], {"replayed"})
  /\ UNCHANGED store

\* execute_action with another key, or before there is an outcome: the outcome
\* is recorded and the proposal consumed, or an ApiError ends it after the proposal was loaded (mismatch, drift, 502; a
\* proposal past its expires_at is deleted).
Execute(r) ==
  /\ At(r, "execute") /\ proposal[req[r].job] # NoId
  /\ EndsWith(r, AuthorizedProposal(r), {"served"})
  /\ \/ UNCHANGED outcome
     \/ outcome' = [outcome EXCEPT ![req[r].job] = TRUE]
  /\ \/ proposal' = [proposal EXCEPT ![req[r].job] = NoId]
     \/ (outcome' = outcome \/ pc'[r] = "raised") /\ UNCHANGED proposal
  /\ UNCHANGED record

\* get_action, and reject_action, which deletes the proposal.
ServeAction(r) ==
  /\ At(r, "action") /\ proposal[req[r].job] # NoId
  /\ EndsWith(r, AuthorizedProposal(r), {"served"})
  /\ \/ proposal' = [proposal EXCEPT ![req[r].job] = NoId]
     \/ UNCHANGED proposal
  /\ UNCHANGED <<record, outcome>>

-----------------------------------------------------------------------------
(* The worker *)

\* bound_context of run_research_job.
Begin(j) ==
  /\ run[j] = NoId /\ record[j] # NoId
  /\ run' = [run EXCEPT ![j] = record[j]]
  /\ UNCHANGED <<minted, store, calls, requests>>

\* A log line, or a downstream call with downstream_headers.
Work(j) ==
  /\ run[j] # NoId
  /\ calls' = calls \cup {[job |-> j, id |-> run[j]]}
  /\ UNCHANGED <<minted, store, run, requests>>

\* _persist_proposals stamps a proposal from the record it loaded; every
\* attempt makes its own.
Persist(j) ==
  /\ run[j] # NoId
  /\ proposal' = [proposal EXCEPT ![j] = run[j]]
  /\ UNCHANGED <<minted, record, outcome, worker, requests>>

\* The run is over, for this attempt; bound_context resets the variables.
End(j) ==
  /\ run[j] # NoId
  /\ run' = [run EXCEPT ![j] = NoId]
  /\ UNCHANGED <<minted, store, calls, requests>>

\* Redis expires the record, the proposal or the idempotency record.
Expire(j) ==
  /\ \/ record' = [record EXCEPT ![j] = NoId] /\ UNCHANGED <<proposal, outcome>>
     \/ proposal' = [proposal EXCEPT ![j] = NoId] /\ UNCHANGED <<record, outcome>>
     \/ outcome' = [outcome EXCEPT ![j] = FALSE] /\ UNCHANGED <<record, proposal>>
  /\ UNCHANGED <<minted, worker, requests>>

Next ==
  \/ \E h \in CallerIds \cup {NoHeader, EmptyHeader} :
       \/ \E j \in Jobs : Enter(j, "submit", j, h)
       \/ \E r \in Others, op \in {"job", "execute", "action"}, j \in Jobs : Enter(r, op, j, h)
  \/ \E r \in Requests :
       \/ Refuse(r) \/ SubmitResearch(r) \/ ServeJob(r)
       \/ Replay(r) \/ Execute(r) \/ ServeAction(r)
       \/ Send(r) \/ SendUnexpected(r)
  \/ \E j \in Jobs : Begin(j) \/ Work(j) \/ Persist(j) \/ End(j) \/ Expire(j)

Spec == Init /\ [][Next]_vars

-----------------------------------------------------------------------------
(* Properties *)

Accepted(j) == answer[j].status = "served"

\* One id spans the workflow: what the 202 told the caller is on every log
\* line and downstream call of the job's runs, retries included, and on every
\* answer about the job, its proposal or its execution.  Executes and requests
\* about an action keep a header of their own, even an empty one; a replay
\* never looks the run up.
OneIdPerWorkflow ==
  \A j \in Jobs : Accepted(j) =>
    /\ \A c \in calls : c.job = j => c.id = answer[j].body
    /\ \A r \in Requests :
         answer[r].status = "served" /\ req[r].job = j =>
           \/ answer[r].header = answer[j].body
           \/ req[r].op \in {"execute", "action"} /\ FromHeader(r)

\* A caller who holds an answer that a handler or an exception handler inside
\* the middleware built finds the request in the log: header, body and access
\* log line show one id, however often the variable was bound again.
AnswersTraceable ==
  \A r \in Requests :
    answer[r].status \in {"served", "replayed", "refused"} =>
      answer[r].header = answer[r].body /\ answer[r].line = answer[r].body

\* The id is in the header and in the body of every answer, every error
\* response included.  The answer to an exception no handler knows is built
\* outside the middleware.
ErrorsTraceable ==
  \A r \in Requests : answer[r] # NoAnswer => answer[r].header = answer[r].body

\* An execute that comes without X-Correlation-Id is joined to the run that
\* made its proposal, whether it is the first one or a retry of it.  A replay
\* reads no proposal.
ExecutesJoined ==
  \A r \in Requests :
    /\ req[r] # NoRequest /\ answer[r].status \in {"served", "replayed"}
    /\ req[r].op = "execute" /\ req[r].header = NoHeader /\ Accepted(req[r].job)
    => answer[r].body = answer[req[r].job].body

=============================================================================
