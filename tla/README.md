# Verification of the domain deep-agent service

TLA+ models of the service in `app/`: a research tier that runs an LLM agent
as a queued job, and an execute tier that applies what a human approved. TLC
checks the models on small instances; TLAPS proves the main invariants for
every value of the constants.

## 1. The system and its parts

| Part | State | Operations | Interacts with |
|---|---|---|---|
| Job record (`models/schemas.py`, `state/redis_store.py`) | `{d}:job:{id}`: status, attempt, started/finished, error, progress | `create_job`, `transition`, `set_progress` | every handler below, without locks |
| Redis side keys | token `{d}:tok`, cancel flag `{d}:cancel`, result `{d}:result`, proposals `{d}:proposal`, idempotency `{d}:idem`, each with a TTL | stage/purge, request/clear, save, delete | API and worker |
| Submit / cancel / poll (`api/research.py`) | none of its own | stage token, create, enqueue, roll back; purge, flag, finalise; three reads | store, vault, queue |
| Run loop (`worker/runner.py`) | attempt, agent steps, collected proposals | load, check cancel, RUNNING, credentials, stream, persist, result, COMPLETED / FAILED / CANCELLED / retry | store, vault, adapter, agent |
| arq (`worker/main.py`, `state/queue.py`; library external) | queue entry, in-progress key, delivery counter | enqueue, deliver, redeliver, drop | run loop |
| Execute / reject (`api/execute.py`) | none of its own | replay check, load, verify, validate, precheck, mutate, record, consume | store, adapter |
| Adapter (`adapters/jira.py`, `base.py`) | the target system | preconditions, one mutation, read tools with back-off | target |
| Read tools (`cap_read_concurrency` in `worker/runner.py`, `read_request_with_backoff` in `adapters/base.py`) | one semaphore per run, a retry counter per call | acquire, send, back off, release, cancel | agent, target |
| Start-up and configuration (`main.py`, `worker/main.py`, `config.py`, `adapters/__init__.py`, `state/token_vault.py`, `auth/`) | the settings each process was started with | build vault and adapter, seal and open tokens, bind a job to its owner | both tiers, through the record, the token and the queue |
| Correlation ids (`observability/correlation.py`) | context variables per request and run | bind, rebind to a stored id, stamp the answer, reset | every handler, the run loop, log lines, downstream calls |
| Logging, agent factory, health, scaffolding | | see section 8 | |

What is hard. Nothing in Redis is locked or written conditionally: a
transition is a GET, a local edit and a SET of the whole record, so two
handlers overwrite each other. Handlers stop between two commands: worker
death, arq's outer timeout, a Redis error outside a `try`. Deliveries repeat.
An execute reads its idempotency record and its proposal before a call of
unbounded length to the target, and writes them after it. A read call keeps its
slot of the run's semaphore while it sleeps between retries, and is cancelled at
any `await`. TTLs run while a job waits, for a worker or for a deferred retry.
API and workers are configured and restarted apart, while what a job carries was
written under the settings of the moment. The list of these
hazards, with source lines, is under `hazards` in `PROJECT.json`.

What makes each part correct:

- the record: moves only along the documented diagram, its fields agree, a
  completed job has what its result lists until that runs out;
- the token: gone when the job is terminal, or when a cancel is answered; there
  as long as an attempt needs it;
- polls: complete and moving forward, although put together from three reads;
- the run loop with arq: an accepted job settles, and stays settled;
- submit: accepted, or nothing left behind;
- execute: a 200 means the approved mutation happened, at most once; retries
  are replayed; a consumed or rejected proposal stays unusable;
- read tools: the cap holds, no slot is lost on an error or a cancellation, a
  call retries exactly as often as configured and ends;
- two tiers: a job survives a roll-out and a shared Redis, its owner keeps
  access, its token is sealed under a proper key;
- correlation ids: one id from submit to execute, and every answer traceable.

## 2. Modules

| Module | Models | Uses |
|---|---|---|
| `JobRecord` | the record, `_ALLOWED_TRANSITIONS`, what `transition()` writes | |
| `JobStateMachine` | the diagram at the head of `redis_store.py`, and what a second writer adds (abstract specification) | |
| `JobLifecycle` | submit, cancels, store, arq and runners for one job | `JobRecord`, instance of `JobStateMachine` |
| `JobLifecycle_proofs` | its theorems about record, result and token | `JobLifecycle` |
| `JobDelivery_proofs` | its theorems about delivery, roll-back and the state diagram | `JobLifecycle_proofs` |
| `ExecuteAction` | execute and reject requests, idempotency, proposals, target | |
| `ExecuteAction_proofs` | its theorems | `ExecuteAction` |
| `ReadTools` | the read calls of one run: semaphore, back-off, cancellation | |
| `ReadTools_proofs` | its theorems | `ReadTools` |
| `Poll` | one consumer polling beside the job | `JobLifecycle` |
| `Poll_proofs` | its theorems | `Poll`, `JobDelivery_proofs` |
| `Retention` | every key's TTL, with a clock | |
| `Retention_proofs` | its theorems | `Retention` |
| `Rollout` | one job between API and workers that are configured and restarted apart | |
| `Rollout_proofs` | its theorems | `Rollout` |
| `Tracing` | the correlation id through requests, runs and error paths | |
| `Tracing_proofs` | its theorems | `Tracing` |
| `MC...` | instances for TLC | |

### JobLifecycle

Every Redis key carries the job id, so one job is the whole system. An action
is one Redis command and the local code up to the next `await`. `pc[p]` is the
place of a handler, `rec[p]` its copy of the record, `to[p]`/`err[p]` the
arguments of the `transition()` it is in. That subroutine has three kinds of
callers, so its steps are shared actions:

- `TransitionRead` (the GET, both checks, the edit), `TransitionSave` (the SET
  of what was read, whatever the key holds by now), `TransitionPurge`,
  `TransitionClear`; `Raise` and `Return` say what each caller does with an
  exception or the result;
- submit: `SubmitEncrypt`, `SubmitStage`, `SubmitCreate`, `SubmitEnqueue` (which
  can take effect and still raise), `SubmitRollback`;
- cancel: `CancelLoad`, `CancelPurge`, `CancelFlag`, then a transition if the
  loaded record was QUEUED;
- runner: `RunLoad`, `RunCheckCancel`, `RunCreds`, `AgentStep`,
  `StepCheckCancel`, `ProgressRead`/`ProgressSave` (`set_progress`),
  `AgentFinish`, `PersistProposal`, `SaveResult`; `TimeoutFires` and
  `RunnerError` leave from the code ranges their `except` clauses guard, and
  `Funnel` is the last `except`: retry, or FAILED on the last attempt;
- arq: `Deliver` counts a delivery; `Redeliver` follows a `Retry`; `Finish`
  deletes the entry; `ArqGivesUp` drops an entry past `max_tries` without
  calling the job;
- faults: `Crash` (worker death), `RunnerAborts` (an exception the run loop
  does not catch, or the outer timeout), `ApiAborts`, `LockExpires` (a
  duplicate delivery beside a live one);
- TTLs: `ExpireJob`, `ExpireToken`, `ExpireFlag`, `ExpireResult`,
  `ExpireProposal` (which also stands for the execute or the rejection that
  deletes a proposal). `Expiry` is the set of kinds of keys that may expire in
  an instance; a key expires at any time.

`purgeLost`, `dropped` and `lapsed` are history variables that only properties
and the choice of fresh action ids read. `dropped` is set where arq ends a job
that the runner has not settled; `lapsed` holds the kinds of keys and the
action ids that have expired.

The refinement maps the stored status to `JobStateMachine`. The diagram there is
what the head of `redis_store.py` draws, and one step more, `Overwrite`, allowed
while `contended`: `SecondWriter` is true once an API handler has called
`transition()` or an in-progress key has expired under a live run. Until then the
store moves along the arrows; after that a stale write may replace any status but
never return to `queued`.

### ExecuteAction

Requests are processes with a nondeterministic action, payload and key. A
payload maps field names to values with two faces, `json` (the text) and `py`
(what `==` compares), since the code hashes the first and compares the second.
`fresh[a]` says whether the target still satisfies the preconditions;
`applied` is the set of requests whose mutation took effect. One action per
awaiting step: `Begin` (with `Lookup`), `Load`, `DropExpired`, `Precheck`,
`Mutate`, `Record`, `Consume`; `RejectLoad`, `RejectDelete`; environment
`Crash`, `Drift`, `Age`, `ForgetOutcome` (an idempotency record expires).
Ownership checks are nondeterministic outcomes. Requests may overlap in any way;
`overlaps` (history) holds those that came while another was under way, and what
the code only gives a client that waits for its answers is stated for
`overlaps = {}`.

### ReadTools

The agent may call any number of read tools at once. `pc[c]` is the place of a
call: waiting at `async with semaphore`, sending, in its back-off sleep, or
ended. `limit` is `max_concurrent_reads`; with 0 the tools are not wrapped and
`Leave` gives nothing back. `value`, `clock` and `arrival` are asyncio's
semaphore (external): it serves waiters in the order they came, and a release
hands the slot over at once, which is why a newcomer cannot overtake. `CallTool`
is the call, `Respond` one round of `read_request_with_backoff` (a result, an
exception, a retryable status with retries left or without), `WakeUp` the end
of the sleep, `StopRun` the cancellation of the run by `asyncio.timeout`, and
`CancelCall` its arrival at one call. The slot is held from `Acquire` to
`Leave`, the sleep included, as in the code, where the `async with` encloses
the whole tool. `sends` is a history variable. Tools are coroutine functions in
both adapters, so the branch for synchronous callables never applies.

### Poll

`PollLoad`, `PollFlag` and `PollResult` are the three reads of `poll_research`,
interleaved with every action of `JobLifecycle`, which they leave unchanged.
`answer` is the last `JobStatusResponse` or 404. The consumer waits for each
answer. `acked` (history) says that a cancel had been answered
`cancel_requested` when the poll began.

### Retention

A clock (`Tick`), the moment each key expires (`expires`), and one job in coarse
steps: where it is, what arq defers it to, how long it has streamed and waited.
The GET and the SET of a record are two steps, since the key may expire between
them and `SET KEEPTTL` then creates it without a TTL (`immortal`). The
properties say how much waiting each TTL allows. With the default settings, they
read: the record outlasts two hours of waiting, the token 120 seconds. The
record's TTL allows for the attempts but not for waiting, so it can expire before
the result, which `record_expires_first` shows; `OutlivedByTheWait` bounds by how
much.

### Rollout

A configuration is a record of the settings that decide something across tiers.
`RestartApi` and `RestartWorker` replace a process by one with another
configuration; what it was running is delivered again. `Submit` writes what the
API's settings say: the domain (the prefix of every key), `max_attempts`, the
owner, the sealed token. `Deliver`, `Succeed` and `FailAttempt` are one attempt
under the worker's settings: `GivesUp` is arq with the worker's `max_tries`,
`Retries` the funnel with the record's `max_attempts`, `Decrypts` the worker's
vault. `Poll` records when the submitter is refused. `OwnsResources` chooses between the two
construction modes of `create_app`: `rollout` runs the API with its deps given to
it and built as `_lifespan` would build them, because with `OwnsResources` no
start-up succeeds (`ApiComesUp`, section 3).

### Tracing

`bound[r]` is `correlation_id_var` in the context of a request, `run[j]` in that
of a run. `Enter`, `Send` and `Reset` are `CorrelationMiddleware`; each handler
ends in `EndsWith`, with the id bound then and an answer (`served`, `replayed`,
`refused`) or an exception nobody handles (`raised`), which `SendUnexpected`
answers outside the middleware. Ids of callers are distinct from ids of `new_id`,
which are numbers. A context is never shared by two requests: the server starts
a task for each.

## 3. Runs

Passing runs:

| Run | Instance | Shows |
|---|---|---|
| `lifecycle_races` | 2 workers, 1 cancel, 2 attempts, 1 crash, 1 abort, 1 expired in-progress key, lost replies, TTLs of all keys | `AckedCancelPurged`, `FailedCancelHarmless`, `TokenPurgedWhenTerminal`, `RecordConsistent`, `CompletedHasResult`, `DropNeedsFault`, `JobNotOrphaned`, `NeverRequeued`, `TypeOK` |
| `lifecycle_polled` | 1 worker, 1 cancel, 2 attempts, 1 crash, any number of polls, TTLs of result and proposals, fairness | `AnswerComplete`, `AckedCancelVisible`, `AnswersMoveForward`, `RejectedLeavesNothing`, `SettlesUnlessDropped`, refinement `FollowsStateMachine` |
| `execute_requests` | 2 requests, overlapping or not, 1 rejection, 2 actions, 2 keys, 1 crash, lost replies, expiring keys | `AnswerMeansApplied`, `ConsumedForGood`, `RepeatNeedsFault`, `RetryGetsReplay`, `TypeOK` |
| `read_tools` | 4 calls, 2 slots or no cap, 1 retry, cancellation, fairness | `CapRespected`, `NoIdleSlot`, `RetriesExact`, `CallsEnd`, `TypeOK` |
| `retention` | TTLs of 3 and 4 ticks, 2 attempts of 2 ticks, clock up to 14 | `RecordLastsJob`, `TokenLastsJob`, `FlagLastsJob`, `OutlivedByTheWait`, `ReplayOutlivesProposal`, `TypeOK` |
| `rollout` | 2 workers, 4 restarts, 9 configurations, 2 owners, fairness | `LostNeedsMismatch`, `StagedSealed`, `JobEndsIfHeard` |
| `tracing` | 1 job and its runs, 2 further requests, expiring keys | `OneIdPerWorkflow`, `AnswersTraceable` |

Runs that show where the code and a document disagree. Each has a
counterexample, and a finding in `PROJECT.json` with the quoted line:

| Run | Documented | What happens |
|---|---|---|
| `cancel_lost_update` | a queued job is cancelled on the spot; no way out of a terminal state | the worker read QUEUED first and writes RUNNING over CANCELLED |
| `crash_last_attempt` | attempts cap, then `failed` | arq drops the job; the record stays RUNNING |
| `execute_twice` | exactly once | overlapping requests both mutate |
| `record_expires_first` | jobs outlive their result | the record of a job that waited expires first: 404 while the result is readable |
| `error_untraced` | the id in header and body of every error response | the answer to an unhandled exception has no header and a new id |

Further promises of the documents that the code does not keep are stated in the
modules as well, beside the properties that hold. Each is an invariant, or an
action property, that no configuration lists; TLC refutes it on the instance
named, when it is added there:

| Property | Instance | Documented | What happens |
|---|---|---|---|
| `FlagGoneWhenTerminal` | `lifecycle_races` | `redis_store.py:23`: terminal transitions purge the cancel flag "immediately"; `BLUEPRINT.md:390` | a cancel that loaded the record before the job ended sets its flag afterwards, and polls of a completed job say `cancel_requested` |
| `NoHalfState` | `lifecycle_races` | `BLUEPRINT.md:490`: "jobs are either fully staged or rejected; no half-state" | a store error between two writes of a submit leaves a token, or a QUEUED record without a queue entry |
| `RecordedActionNeverMutates` | `execute_requests` | `BLUEPRINT.md:252`: a crash after the record "leaves a replayable record, never a double-executable proposal" | the replay check knows the request's own key only: one with another key executes the live proposal again |
| `AppliedByteForByte` | `execute_requests` | `execute.py:4`: "What the human approved is byte-for-byte what executes"; `BLUEPRINT.md:244` | `1`, `1.0` and `true` are one value to `==`, and so are null and a missing field |
| `RotationKeepsAccess` | `rollout` | `BLUEPRINT.md:300`, `config.py:24`: several active keys let a consumer rotate "with zero downtime" | a job is bound to the id of the key it was submitted with; after the switch its owner is answered 404 (not in a domain of PATs) |
| `NotSwallowed` | `rollout` | `redis_store.py:4`, `BLUEPRINT.md:362`: domain prefixes let domains share a Redis | arq's queue has no domain in its name: a worker of the other domain takes the job and finds no record |
| `ExecutesJoined` | `tracing` | `BLUEPRINT.md:226`: without a header "the service joins the call to the originating run" | a replay reads no proposal and is answered with a new id |
| `ApiComesUp` | `rollout` with `OwnsResources = TRUE` | `main.py:141`: `uvicorn app.main:app` is the entrypoint | the start-up's log call (`main.py:79`) passes `message` in `extra`, which `logging` refuses with `KeyError` |

Related behaviours of the same models, without a run of their own:
`TerminalIsFinal` also fails when two deliveries are alive (`MaxStalls = 1`),
through `set_progress`; `JobSettles` also fails when Redis raises outside the
run loop's `try` (`MaxAborts = 1`). A running job that is cancelled may end
FAILED, for want of the token the cancel purged: the documents call a cancel
best effort. An execute that has loaded its proposal goes on after a rejection
of it was answered, which no document excludes.

### Bounds

`MaxAttempts` 2 (the default): a first and a last attempt behave differently
only by `attempt < max_attempts`. `MaxSteps` 1: all steps of an attempt run the
same code, and a cancel or a time-out may fall before, in and after it. One
crash, abort or stall lets every other handler race the retry. One cancel races
the worker and the second delivery, which settle the job between its load and its
transition; that two cancels do so to each other, and that two deliveries save
results with different actions beside a poll, is left to the proofs, which cover
any number of each. In `lifecycle_races` every key may expire, beside polls
(`lifecycle_polled`) the result and the proposals; the proofs about polls cover
the flag, and, but for the refinement, the record. In `execute_requests` the second request retries, repeats or
overlaps the first, under its key or another. Four read calls on two slots let two of them wait, so that
the order of the queue and a release to a waiter both matter; one retry has a
first and a last round, and `MaxRetries` 2 gives the same result. In `retention` the TTLs are a few
ticks, longer and shorter than the waiting the clock allows, so that each key
can expire at every place of a job. The configurations of `rollout` differ from
a production one in one or two settings each: key, attempts, salt, queue name,
API keys, domain, local key in production and in development, unknown domain.
Two requests beside the submit let an execute be followed by its replay. Symmetry is used where the permuted model values are
interchangeable and no liveness property is checked. In `lifecycle_races` a
`VIEW` leaves out local variables where no action reads them before it has set
them again; the properties of that run only read their types. Deadlock checking is off:
a job that has ended, and requests that are all answered, have nothing to do.

### Fairness

`FairSpec` assumes weak fairness of the steps of each handler that has begun
(the event loop goes on), of the runner including its time-out (so an agent
that keeps stepping is cut off by `MaxSteps` or by `asyncio.timeout`), and of
arq polling its queue. It assumes nothing of clients, which need not cancel,
nor of faults. In `ReadTools` it assumes that a send is answered or raises
(both HTTP clients set a time-out), that sleeps end, and that a cancellation
reaches every call; the agent need not call, and the run need not be cancelled.
The violation run of `JobSettles` uses the same fairness. In `Rollout`, workers
that are up poll their queue and attempts end (the time-out sees to it); nobody
need restart, submit or poll.

## 4. What is proved

`JobLifecycle_proofs` (for all sets of cancels, runners, action ids, and all
bounds): `TypeCorrect`, `RecordsNeverMix`, `ResultBeforeCompleted`,
`TokenPurged`, `CancelPurges`, `FailedCancels`, `NoRequeue`. The stated invariants are not
inductive, because a stale copy can be written back at any time. The inductive
invariant adds what a copy can hold:

- `CallInv`: the arguments of a `transition()` in progress fit its caller;
- `RecordInv`: the stored record and *every local copy* are consistent;
- `ResultInv`: no copy, and no transition in progress, says COMPLETED before
  the result was saved, and what a run is about to save in a result was stored;
- `OrderInv`: no write in progress holds a QUEUED record once submission is
  past its create;
- `TokenInv`: where a terminal record or a cancel handler stands with respect
  to its purge.

`JobDelivery_proofs` (for the same constants): `DropsAreFaults`,
`NoJobOrphaned`, `ImplementsDiagram`, `RejectedCleansUp`. The actions are first
sorted by what they do to the record, the queue and the control points
(`StepKinds`: a run goes on, saves, retries or ends; a handler of the API moves
or saves), and each invariant is then proved kind by kind:

- `DeliveryInv`: without an expired in-progress key, a run under way is arq's
  latest delivery, holds the key and has the entry in the queue; without any
  fault, a job back in the queue has a delivery left, because the funnel and
  `max_tries` count alike;
- `SettledInv`: a run past its terminal save leaves a settled record;
- `WriterInv`: with one writer, what a run is about to save is still an arrow of
  the diagram from what Redis holds; whoever acts on the job finds a record;
- `RollbackInv`: a submit that rolls back is alone with its job.

`ImplementsDiagram` is the refinement `FollowsStateMachine`, every step a step of
`JobStateMachine` or a stutter. It assumes that records do not
expire (`"job" \notin Expiry`; all other keys may): the diagram has no arrow for a
TTL. `RejectedCleansUp` assumes `~LostReplies`: when an enqueue takes effect and
its reply is lost, the job is in the queue although the caller got a 503, and a
worker may load it before the roll-back settles it.

`ExecuteAction_proofs` (for all requests, actions, keys and payloads):
`TypeCorrect`, `AnswersAreTrue`, `ConsumedStaysConsumed`, and two theorems about
behaviours in which no two requests have overlapped so far, with dying handlers,
lost answers and expiring keys all the same: `SequentialRepeat` (an action takes
effect twice only if one of its requests was never answered) and `RetriesReplay`
(a retry of an answered request is a replay, unless the record has run out).
`execute_twice` shows that the condition is needed. `ProgressInv` ties the
place of a request to what it verified and applied; `AloneInv` says that while
`overlaps = {}` at most one request is under way, that one past its load is the
first to touch its action, and that what took effect is consumed, about to be, or
unanswered.
`RecordInv` ties an answered request to the record under its key.

`ReadTools_proofs` (for any finite set of calls, any limits and retries):
`TypeCorrect`, `CapHolds`, `NoSlotLost`, `RetriesCounted`. The cap follows from
counting: `SlotsInv` says that free slots and calls holding one add up to the
limit, which needs the cardinality of `Holding` before and after every step,
the one that moves a slot from a call to another included. `WaitInv` says that
nobody waits beside a free slot, and `RetryInv` ties the number of sends to the
loop variable and the place of a call.

`Poll_proofs`: `AnswersComplete`, `AnswersForward`, `AckedCancelShows`, for any
number of workers, cancels and faults. `PollsReadOnly` shows that every behaviour
with polls is one of `JobLifecycle`, so all that is proved there holds beside
polls. `ResultKept` adds that a result once saved stays until it lapses, and so
do proposals, so what held when the record was read still holds two reads later.
For answers that move forward, `Le` orders records (a terminal status stays,
running does not become queued, attempts do not drop): `AheadInv` says that what
a run is about to save is no step back from Redis, `ForwardInv` that the last
answer, the record the poll has loaded, the record in Redis and the one about to
be saved are in that order. For the acknowledged cancel, `VisibleInv` says that a
flag that is gone again has lapsed or was deleted by the run it stopped, after
which nobody is left to bring the job back. Both assume, as the properties do, that the API tier
does not write the record and no in-progress key has expired.

`Retention_proofs` (for all TTLs, budgets and clocks): `TypeCorrect`,
`RecordLasts`, `TokenLasts`, `FlagLasts`, `RecordOutlives`, `ReplayOutlives`.
The invariant ties each expiry to the clock: what is left of a TTL is at least
the budget of the attempts still to come, less what was waited; the time streamed
is at most `JobTimeout` per attempt.

`Rollout_proofs` (for all configurations, owners, workers and numbers of
restarts): `LossNeedsMismatch`, `TokensSealed`. A job that waits has an attempt
left by its own record (`WaitInv`), so a worker that drops it has a smaller
`JOB_MAX_ATTEMPTS` than the API had. `Spec` carries fairness, of which these
proofs use nothing.

`Tracing_proofs` (for any jobs, requests and caller ids): `AnswersTraced`,
`WorkflowHasOneId`. That a workflow has one id needs both sides of the submit:
before its request is handled there is no trace of the job (`NoTrace`), and from
the 202 on every trace shows what the 202 shows (`OneTrace`), requests that are
still to be answered included.

Assumptions on the constants are the named `ASSUME`s: kinds of processes and of
requests are disjoint, bounds are natural numbers, `JOB_MAX_ATTEMPTS` is positive
(`Settings` does not check it; with 0, arq runs no job), flags are Booleans,
markers are not values, ids of callers are not ids of `new_id`.

Only model-checked: liveness, which is out of the prover's reach
(`SettlesUnlessDropped`, `CallsEnd`, `JobEndsIfHeard`). Every invariant, action
property and refinement that a passing run checks is also stated by a theorem.
Where a theorem has a hypothesis, the run that checks its property has an instance
that satisfies it: `lifecycle_polled` has no expiring record and no lost replies.

## 5. Mutants

Each property has a mutant of a mapped definition: an operator named for the
bug, defined just before the original (`FunnelSwallows`, `ConsumeSkipped`, ...).
With the mutant in its place TLC finds the property violated.

## 6. Abstractions

Task text, findings, previews and log lines are left out. Timestamps are "set"
or "not set". The agent is a nondeterministic number of steps, proposals and
errors. A hash is what it distinguishes. The TTL of a key
is expiry at any time in `JobLifecycle`, `ExecuteAction` and `Tracing`, which
contains every real schedule; `Retention` has the durations. Fresh
action ids are drawn from a finite set; when it is used up the agent proposes
nothing more.

## 7. Plan

1. `ResearchToExecute`: composition, proposals of duplicate and failed
   attempts that no result lists but execute accepts.
2. `RejectedLeavesNothing` with lost replies: what a worker that got the job all
   the same can leave behind.

## 8. Not modelled

Cryptography of the vault (a token opens under the key that sealed it, or not),
formatting and redaction of log lines, prompts, agent factory and LLM client
(third-party behaviour), the choice among candidate blocks in
`_parse_agent_output` (string matching), health endpoints (two reads), and the
scaffolding script (one-shot file generation). arq's `max_jobs` and health check
bound how many jobs run at once and do not touch the state of one.
