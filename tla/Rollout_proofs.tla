--------------------------- MODULE Rollout_proofs ---------------------------
(***************************************************************************)
(* A job between two tiers, for any configurations, workers and restarts:  *)
(* how its token is sealed, and how it can be lost.                        *)
(***************************************************************************)
EXTENDS Rollout, TLAPS

Statuses == {"queued", "running"} \cup Terminal

\* A process runs with a configuration that was rolled out; a job that arq
\* still knows has its record, with all its fields.
RecordInv ==
  /\ api \in Configs \cup {Down, Failed}
  /\ worker \in [Workers -> Configs \cup {Down}]
  /\ holder \in Workers \cup {NoWorker}
  /\ tries \in Nat /\ crashes \in Nat
  /\ entry => record # NoJob
  /\ holder # NoWorker => entry
  /\ record # NoJob =>
       /\ record.status \in Statuses /\ record.max \in Nat \ {0}
       /\ DOMAIN record = {"status", "domain", "max", "owner"}

\* A job that waits has an attempt left by its own record, which says what the
\* API's JOB_MAX_ATTEMPTS was, unless a worker went down with one.
WaitInv ==
  /\ record = NoJob => tries = 0 /\ holder = NoWorker
  /\ entry /\ holder = NoWorker /\ crashes = 0 => tries < record.max
  /\ LostNeedsMismatch

IInv == RecordInv /\ WaitInv

-----------------------------------------------------------------------------
\* A new status leaves the other fields of the record alone.
LEMMA StatusUpdate ==
  ASSUME NEW s, DOMAIN record = {"status", "domain", "max", "owner"},
         record' = [record EXCEPT !.status = s]
  PROVE  /\ record'.status = s /\ record'.domain = record.domain
         /\ record'.max = record.max /\ record'.owner = record.owner
         /\ DOMAIN record' = {"status", "domain", "max", "owner"}
         /\ record' # NoJob
<1>1. /\ record'.status = s /\ record'.domain = record.domain
      /\ record'.max = record.max /\ record'.owner = record.owner
      /\ DOMAIN record' = {"status", "domain", "max", "owner"}
  OBVIOUS
<1>2. DOMAIN NoJob = {"status"}
  BY DEF NoJob
<1>3. "max" \in DOMAIN record' /\ "max" \notin DOMAIN NoJob
  BY <1>1, <1>2
<1>4. QED
  BY <1>1, <1>3

\* A step of the job that changes its record changes the status only.
LEMMA RecordStep == RecordInv /\ [Next]_vars => RecordInv'
<1> SUFFICES ASSUME RecordInv, [Next]_vars PROVE RecordInv'
  OBVIOUS
<1> USE WorkersNamed DEF RecordInv, tiers, arq
<1>1. ASSUME NEW s \in Configs, RestartApi(s) PROVE RecordInv'
  BY <1>1 DEF RestartApi
<1>2. ASSUME NEW s \in Configs, NEW w \in Workers, RestartWorker(w, s) PROVE RecordInv'
  BY <1>2 DEF RestartWorker
<1>3. ASSUME NEW u \in Owners, NEW c, Submit(u, c) PROVE RecordInv'
  <2>1. api \in Configs
    BY <1>3 DEF Submit, ApiUp
  <2>2. /\ record'.status = "queued" /\ record'.max = api.attempts
        /\ DOMAIN record' = {"status", "domain", "max", "owner"}
        /\ entry' = TRUE /\ UNCHANGED <<api, worker, holder, tries, crashes>>
    BY <1>3 DEF Submit
  <2>3. record' # NoJob
    BY <2>2 DEF NoJob
  <2>4. QED
    BY <2>1, <2>2, <2>3, AttemptsPositive DEF Statuses
<1>4. ASSUME NEW c, Poll(c) PROVE RecordInv'
  BY <1>4 DEF Poll
<1>5. ASSUME NEW w \in Workers, Deliver(w) PROVE RecordInv'
  <2>1. CASE /\ tries' = tries + 1 /\ holder' = w /\ UNCHANGED entry
             /\ record' = [record EXCEPT !.status = "running"]
    <3>1. /\ record'.status = "running" /\ record'.max = record.max
          /\ DOMAIN record' = {"status", "domain", "max", "owner"} /\ record' # NoJob
      BY <1>5, <2>1, StatusUpdate DEF Deliver
    <3>2. entry /\ UNCHANGED <<api, worker, crashes>>
      BY <1>5 DEF Deliver
    <3>3. QED
      BY <2>1, <3>1, <3>2 DEF Statuses
  <2>2. CASE entry' = FALSE /\ UNCHANGED <<tries, holder, record>>
    BY <1>5, <2>2 DEF Deliver
  <2>3. QED
    BY <1>5, <2>1, <2>2 DEF Deliver
<1>6. ASSUME NEW s \in Terminal, holder # NoWorker, Settle(s),
             UNCHANGED <<tiers, tries, crashes>>
      PROVE  RecordInv'
  <2>1. /\ record'.status = s /\ record'.max = record.max
        /\ DOMAIN record' = {"status", "domain", "max", "owner"} /\ record' # NoJob
    BY <1>6, StatusUpdate DEF Settle
  <2>2. QED
    BY <1>6, <2>1 DEF Settle, Statuses
<1>7. CASE Succeed
  BY <1>6, <1>7 DEF Succeed, Terminal
<1>8. CASE FailAttempt
  <2>1. CASE holder' = NoWorker /\ UNCHANGED <<record, token, entry>>
    BY <1>8, <2>1 DEF FailAttempt
  <2>2. CASE Settle("failed")
    BY <1>6, <1>8, <2>2 DEF FailAttempt, Terminal
  <2>3. QED
    BY <1>8, <2>1, <2>2 DEF FailAttempt
<1>9. CASE UNCHANGED vars
  BY <1>9 DEF vars
<1>10. QED
  BY <1>1, <1>2, <1>3, <1>4, <1>5, <1>7, <1>8, <1>9 DEF Next

LEMMA WaitStep == RecordInv /\ WaitInv /\ [Next]_vars => WaitInv'
<1> SUFFICES ASSUME RecordInv, WaitInv, [Next]_vars PROVE WaitInv'
  OBVIOUS
<1> USE WorkersNamed DEF RecordInv, WaitInv, LostNeedsMismatch, tiers, arq
<1>1. ASSUME NEW s \in Configs, RestartApi(s) PROVE WaitInv'
  BY <1>1 DEF RestartApi
<1>2. ASSUME NEW s \in Configs, NEW w \in Workers, RestartWorker(w, s) PROVE WaitInv'
  BY <1>2 DEF RestartWorker
<1>3. ASSUME NEW u \in Owners, NEW c, Submit(u, c) PROVE WaitInv'
  <2>1. api \in Configs
    BY <1>3 DEF Submit, ApiUp
  <2>2. /\ record'.max = api.attempts /\ entry' = TRUE /\ tries = 0
        /\ DOMAIN record' = {"status", "domain", "max", "owner"}
        /\ UNCHANGED <<tries, holder>>
    BY <1>3 DEF Submit
  <2>3. record' # NoJob
    BY <2>2 DEF NoJob
  <2>4. QED
    BY <2>1, <2>2, <2>3, AttemptsPositive
<1>4. ASSUME NEW c, Poll(c) PROVE WaitInv'
  BY <1>4 DEF Poll
<1>5. ASSUME NEW w \in Workers, Deliver(w) PROVE WaitInv'
  <2>0. /\ entry /\ holder = NoWorker /\ worker[w] \in Configs
        /\ takers' = takers \cup {worker[w]} /\ UNCHANGED crashes
    BY <1>5 DEF Deliver, Listens
  <2>1. CASE /\ tries' = tries + 1 /\ holder' = w /\ UNCHANGED entry
             /\ record' = [record EXCEPT !.status = "running"]
    <3>1. record' # NoJob
      BY <2>0, <2>1, StatusUpdate
    <3>2. QED
      BY <2>0, <2>1, <3>1
  <2>2. CASE /\ GivesUp(w) \/ worker[w].domain # record.domain
             /\ entry' = FALSE /\ UNCHANGED <<tries, holder, record>>
    <3>1. crashes = 0 => worker[w].domain # record.domain \/ worker[w].attempts < record.max
      BY <2>0, <2>2, AttemptsPositive DEF GivesUp
    <3>2. QED
      BY <2>0, <2>2, <3>1
  <2>3. QED
    BY <1>5, <2>1, <2>2 DEF Deliver
<1>6. ASSUME NEW s \in Terminal, holder # NoWorker, Settle(s), UNCHANGED <<tries, crashes>>
      PROVE  WaitInv'
  <2>1. record'.status = s /\ record' # NoJob
    BY <1>6, StatusUpdate DEF Settle
  <2>2. QED
    BY <1>6, <2>1 DEF Settle
<1>7. CASE Succeed
  BY <1>6, <1>7 DEF Succeed, Terminal
<1>8. CASE FailAttempt
  <2>1. CASE Retries /\ holder' = NoWorker /\ UNCHANGED <<record, token, entry>>
    BY <1>8, <2>1 DEF FailAttempt, Retries
  <2>2. CASE Settle("failed")
    BY <1>6, <1>8, <2>2 DEF FailAttempt, Terminal
  <2>3. QED
    BY <1>8, <2>1, <2>2 DEF FailAttempt
<1>9. CASE UNCHANGED vars
  BY <1>9 DEF vars
<1>10. QED
  BY <1>1, <1>2, <1>3, <1>4, <1>5, <1>7, <1>8, <1>9 DEF Next

LEMMA Invariance == Spec => []IInv
<1>1. Init => IInv
  BY DEF Init, IInv, RecordInv, WaitInv, LostNeedsMismatch
<1>2. IInv /\ [Next]_vars => IInv'
  BY RecordStep, WaitStep DEF IInv
<1>3. QED
  BY <1>1, <1>2, PTL DEF Spec

\* A job nobody runs any more is settled, unless a worker of another domain or
\* with a smaller JOB_MAX_ATTEMPTS took it or one went down under it: the two
\* counts, arq's and the record's, only disagree when configurations do.
THEOREM LossNeedsMismatch == Spec => []LostNeedsMismatch
<1>1. IInv => LostNeedsMismatch
  BY DEF IInv, WaitInv
<1>2. QED
  BY <1>1, Invariance, PTL

\* What encrypts without Key Vault is not a production process.
LEMMA ProductionVault ==
  ASSUME NEW s, Encrypts(s), s.env = "prod"
  PROVE  BuildTokenVault(s).alg = "kv"
BY DEF Encrypts, BuildTokenVault, KeyVaultTokenVault, LocalTokenVault, NullTokenVault,
       TokenVaultError

\* A staged token is sealed, and with Key Vault's key when a production API
\* staged it: build_token_vault has no way around that.
THEOREM TokensSealed == Spec => []StagedSealed
<1>1. Init => StagedSealed
  BY DEF Init, StagedSealed
<1>2. StagedSealed /\ [Next]_vars => StagedSealed'
  <2> SUFFICES ASSUME StagedSealed, [Next]_vars PROVE StagedSealed'
    OBVIOUS
  <2> USE DEF StagedSealed
  <2>1. ASSUME NEW u \in Owners, NEW c, Submit(u, c) PROVE StagedSealed'
    <3>1. CASE UserPat(api)
      <4>1. Encrypts(api) /\ submitter'.under = api /\ token'.vault = BuildTokenVault(api)
        BY <2>1, <3>1 DEF Submit
      <4>2. QED
        BY <3>1, <4>1, ProductionVault DEF Encrypts, UserPat
    <3>2. CASE ~UserPat(api)
      BY <2>1, <3>2 DEF Submit
    <3>3. QED
      BY <3>1, <3>2
  <2>2. CASE UNCHANGED submitter /\ (token' = token \/ token' = NoToken)
    BY <2>2 DEF UserPat
  <2>3. QED
    BY <2>1, <2>2
    DEF Next, RestartApi, RestartWorker, Poll, Deliver, Succeed, FailAttempt, Settle, vars
<1>3. QED
  BY <1>1, <1>2, PTL DEF Spec

=============================================================================
