------------------------------ MODULE Rollout ------------------------------
(***************************************************************************)
(* One job between two tiers that are configured apart.  API and workers   *)
(* read their settings once, when they start (get_settings, _lifespan in   *)
(* app/main.py, startup in app/worker/main.py), and are rolled out one by  *)
(* one, so a job may be submitted under one configuration, run under       *)
(* another and polled under a third.  What the job carries across is the   *)
(* domain in its keys, max_attempts and the owner in its record, and a     *)
(* token sealed with the API's key.  JobLifecycle has the steps inside a   *)
(* run; here an attempt is one step.                                       *)
(***************************************************************************)
EXTENDS Naturals

CONSTANTS
  Configs,      \* the configurations that are rolled out
  Workers,      \* worker processes on this Redis
  Owners,       \* who submits: a PAT, and the secret of an API key
  OwnsResources,  \* create_app() without deps: what uvicorn runs
  MaxRestarts     \* bound: restarts of either tier

\* The fields of Settings that decide something across tiers.
NoKey == "unset"
ASSUME ConfigFields ==
  \A s \in Configs :
    DOMAIN s = {"env", "domain", "kv", "local", "queue", "attempts", "salt", "keys"}
ASSUME OwnerFields == \A u \in Owners : DOMAIN u = {"pat", "secrets"}

\* JOB_MAX_ATTEMPTS is an int that Settings does not check; with 0 arq would
\* run no job at all.
ASSUME AttemptsPositive == \A s \in Configs : s.attempts \in Nat \ {0}

VARIABLES
  api,       \* the configuration the API runs with, or Down, or Failed
  worker,    \* the configuration of each worker, or Down
  restarts,
  record,    \* the job record, or NoJob
  submitter, \* who submitted, under which configuration (history)
  token,     \* the sealed token, or NoToken
  entry,     \* arq: the job is queued or under way
  holder,    \* arq: the worker that runs it
  tries,     \* arq: deliveries so far
  takers,    \* configurations that took a delivery (history)
  crashes,   \* workers stopped during a run (history)
  refused    \* the submitter was answered 404, by this configuration (history)

tiers == <<api, worker, restarts>>
arq   == <<entry, holder, tries, takers>>
vars  == <<tiers, record, submitter, token, arq, crashes, refused>>

Down == [env |-> "down"]
Failed == [env |-> "failed"]
ApiUp == api \notin {Down, Failed}
NoJob == [status |-> "none"]
NoToken == [alg |-> "none"]
NoWorker == "none"
ASSUME WorkersNamed == NoWorker \notin Workers
ArqDefault == "arq:queue"

\* The registered adapters and the auth_mode each declares.
ADAPTER_BUILDERS == {"jira", "websearch"}
UserPat(s) == s.domain = "jira"

\* A vault is known by its algorithm and the key that wraps the tokens' keys.
KeyVaultTokenVault(s) == [alg |-> "kv", key |-> s.kv]
LocalTokenVault(s) == [alg |-> "local", key |-> s.local]
NullTokenVault == [alg |-> "null"]
TokenVaultError == [alg |-> "raises"]

\* Mutant: a local key is taken in production too.
BuildTokenVaultAnywhere(s) ==
  CASE s.kv # NoKey -> KeyVaultTokenVault(s)
    [] s.kv = NoKey /\ s.local # NoKey -> LocalTokenVault(s)
    [] OTHER -> NullTokenVault

\* build_token_vault
BuildTokenVault(s) ==
  CASE s.kv # NoKey -> KeyVaultTokenVault(s)
    [] s.kv = NoKey /\ s.local # NoKey /\ s.env # "prod" -> LocalTokenVault(s)
    [] s.kv = NoKey /\ s.local # NoKey /\ s.env = "prod" -> TokenVaultError
    [] OTHER -> NullTokenVault

\* A process comes up only when its vault and its adapter can be built.
Starts(s) == s.domain \in ADAPTER_BUILDERS /\ BuildTokenVault(s) # TokenVaultError

\* vault.encrypt: a fresh key wrapped by the vault's; the null vault raises.
Encrypts(s) == BuildTokenVault(s).alg \in {"kv", "local"}

\* vault.decrypt: the tag of AES-GCM, or RSA's padding, rejects another key.
Decrypts(s) == token # NoToken /\ BuildTokenVault(s) = token.vault

\* verify_api_key: the consumers whose configured key is one of the owner's
\* (keys differ; of two ids with one key the later would match).
Consumers(s, u) == {c \in DOMAIN s.keys : s.keys[c] \in u.secrets}

\* What binds a job to its owner: the salted hash of the PAT, or the id of the
\* consumer's key.
Principal(s, u, c) ==
  IF UserPat(s) THEN [salt |-> s.salt, pat |-> u.pat] ELSE [consumer |-> c]

Init ==
  /\ api = Down
  /\ worker = [w \in Workers |-> Down]
  /\ restarts = 0
  /\ record = NoJob
  /\ submitter = NoJob
  /\ token = NoToken
  /\ entry = FALSE
  /\ holder = NoWorker
  /\ tries = 0
  /\ takers = {}
  /\ crashes = 0
  /\ refused = {}

-----------------------------------------------------------------------------
(* Start-up and shut-down *)

\* The API is replaced by one with configuration s.  When _lifespan has built
\* the resources itself it logs with extra={"message": ...}, a field that
\* logging refuses with KeyError: start-up fails.
RestartApi(s) ==
  /\ restarts < MaxRestarts /\ Starts(s)
  /\ api' = IF OwnsResources THEN Failed ELSE s
  /\ restarts' = restarts + 1
  /\ UNCHANGED <<worker, record, submitter, token, arq, crashes, refused>>

\* A worker is replaced; what it was running is delivered again.
RestartWorker(w, s) ==
  /\ restarts < MaxRestarts /\ Starts(s)
  /\ worker' = [worker EXCEPT ![w] = s]
  /\ restarts' = restarts + 1
  /\ holder' = IF holder = w THEN NoWorker ELSE holder
  /\ crashes' = IF holder = w THEN crashes + 1 ELSE crashes
  /\ UNCHANGED <<api, record, submitter, token, entry, tries, takers, refused>>

-----------------------------------------------------------------------------
(* POST /research *)

\* The token is sealed and staged for a USER_PAT domain (a vault that cannot
\* means 503 and nothing is stored); the record carries the API's settings,
\* and the entry goes to arq's default queue.
Submit(u, c) ==
  /\ ApiUp /\ record = NoJob /\ c \in Consumers(api, u)
  /\ UserPat(api) => Encrypts(api)
  /\ record' = [status |-> "queued", domain |-> api.domain,
                max |-> api.attempts, owner |-> Principal(api, u, c)]
  /\ submitter' = [owner |-> u, consumer |-> c, under |-> api]
  /\ token' = IF UserPat(api) THEN [vault |-> BuildTokenVault(api), pat |-> u.pat] ELSE NoToken
  /\ entry' = TRUE
  /\ UNCHANGED <<tiers, holder, tries, takers, crashes, refused>>

\* GET /research/{job_id}: the owner asks, with any key of theirs; 404 unless
\* the job is stored under this domain and bound to them.
Poll(c) ==
  /\ ApiUp /\ record # NoJob /\ c \in Consumers(api, submitter.owner)
  /\ \/ record.domain # api.domain
     \/ record.owner # Principal(api, submitter.owner, c)
  /\ refused' = refused \cup {[consumer |-> c, under |-> api]}
  /\ UNCHANGED <<tiers, record, submitter, token, arq, crashes>>

-----------------------------------------------------------------------------
(* research_job *)

\* The worker's queue_name is where it looks; the API enqueued to the default.
Listens(w) == worker[w] # Down /\ worker[w].queue = ArqDefault

\* arq's max_tries is the worker's JOB_MAX_ATTEMPTS.
GivesUp(w) == tries >= worker[w].attempts

\* Mutant: a worker of another domain leaves the job where it is.
DeliverOwnDomain(w) ==
  /\ entry /\ holder = NoWorker /\ Listens(w) /\ worker[w].domain = record.domain
  /\ takers' = takers \cup {worker[w]}
  /\ tries' = tries + 1
  /\ holder' = w
  /\ record' = [record EXCEPT !.status = "running"]
  /\ UNCHANGED <<tiers, submitter, token, entry, crashes, refused>>

\* arq drops the job, or delivers it; a worker of another domain finds no
\* record under its own keys and returns.
Deliver(w) ==
  /\ entry /\ holder = NoWorker /\ Listens(w)
  /\ takers' = takers \cup {worker[w]}
  /\ \/ /\ ~GivesUp(w) /\ worker[w].domain = record.domain
        /\ tries' = tries + 1
        /\ holder' = w
        /\ record' = [record EXCEPT !.status = "running"]
        /\ UNCHANGED entry
     \/ /\ GivesUp(w) \/ worker[w].domain # record.domain
        /\ entry' = FALSE
        /\ UNCHANGED <<tries, holder, record>>
  /\ UNCHANGED <<tiers, submitter, token, crashes, refused>>

\* The terminal transition, which purges the token.
Settle(s) ==
  /\ record' = [record EXCEPT !.status = s]
  /\ token' = NoToken
  /\ entry' = FALSE
  /\ holder' = NoWorker

\* resolve_credentials: the user's token, or what the adapter has itself.
HasCredentials(s) == UserPat(s) => Decrypts(s)

\* The attempt succeeds: it had its credentials.
Succeed ==
  /\ holder # NoWorker
  /\ HasCredentials(worker[holder])
  /\ Settle("completed")
  /\ UNCHANGED <<tiers, submitter, tries, takers, crashes, refused>>

\* Mutant: one retry more than the record allows.
RetriesOnceMore == tries <= record.max

\* The funnel compares the attempt with record.max_attempts, the API's.
Retries == tries < record.max

\* The attempt fails, for want of credentials or of anything else.
FailAttempt ==
  /\ holder # NoWorker
  /\ \/ /\ Retries
        /\ holder' = NoWorker
        /\ UNCHANGED <<record, token, entry>>
     \/ ~Retries /\ Settle("failed")
  /\ UNCHANGED <<tiers, submitter, tries, takers, crashes, refused>>

Next ==
  \/ \E s \in Configs : RestartApi(s) \/ \E w \in Workers : RestartWorker(w, s)
  \/ \E u \in Owners : ApiUp /\ \E c \in Consumers(api, u) : Submit(u, c)
  \/ ApiUp /\ record # NoJob /\ \E c \in Consumers(api, submitter.owner) : Poll(c)
  \/ \E w \in Workers : Deliver(w)
  \/ Succeed \/ FailAttempt

\* Workers poll their queue and attempts end.
Spec == /\ Init /\ [][Next]_vars
        /\ \A w \in Workers : WF_vars(Deliver(w))
        /\ WF_vars(Succeed \/ FailAttempt)

-----------------------------------------------------------------------------
(* Properties *)

\* An API whose vault and adapter can be built comes up: create_app() is the
\* uvicorn entrypoint that builds them from the environment.
ApiComesUp == api # Failed

Terminal == {"completed", "failed"}

\* A job nobody will run any more is settled, unless a worker of another
\* domain swallowed it, a worker with a smaller JOB_MAX_ATTEMPTS than the one
\* in its record dropped it, or a worker went down under it.
LostNeedsMismatch ==
  record # NoJob /\ ~entry /\ crashes = 0 /\ record.status \notin Terminal =>
    \E s \in takers : s.domain # record.domain \/ s.attempts < record.max

\* Domains may share a Redis, since each has its own keys: a job that no worker
\* crashed under is not taken off the queue before it is settled.  arq's queue
\* is not one of those keys.
NotSwallowed ==
  record # NoJob /\ ~entry /\ crashes = 0 => record.status \in Terminal

\* A job is settled or, as above, lost, although a worker may not be able to
\* open its token or be replaced under it, as long as a worker listens where
\* the API enqueues: with another QUEUE_NAME it waits for ever.
JobEndsIfHeard ==
  record.status = "queued" ~> \/ record.status \in Terminal
                              \/ ~entry
                              \/ \A w \in Workers : ~Listens(w)

\* Zero-downtime rotation: whoever submitted keeps access to the job as long as
\* nothing but API_KEYS changes and they hold one of the active keys.  The code
\* binds a job to the id its key has in API_KEYS, where two active keys of one
\* consumer have two ids.
RotationKeepsAccess ==
  \A r \in refused :
    [r.under EXCEPT !.keys = submitter.under.keys] # submitter.under

\* A token is staged for USER_PAT jobs only, sealed with a key; in production
\* that key is Key Vault's, under every order of restarts.
StagedSealed ==
  token # NoToken =>
    /\ UserPat(submitter.under)
    /\ token.vault.alg \in {"kv", "local"}
    /\ submitter.under.env = "prod" => token.vault.alg = "kv"

=============================================================================
