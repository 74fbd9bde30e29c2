----------------------------- MODULE MCRollout -----------------------------
(***************************************************************************)
(* A small instance of Rollout: a production configuration and what a      *)
(* roll-out may make of it, one or two settings at a time.                 *)
(***************************************************************************)
EXTENDS Rollout, TLC

CONSTANTS w1, w2

Base == [env |-> "prod", domain |-> "jira", kv |-> "key1", local |-> NoKey,
         queue |-> ArqDefault, attempts |-> 2, salt |-> "salt1",
         keys |-> ("orch" :> "secret1" @@ "other" :> "secret3")]

MCConfigs == {
  Base,
  [Base EXCEPT !.kv = "key2", !.attempts = 1],
  [Base EXCEPT !.attempts = 3, !.salt = "salt2"],
  [Base EXCEPT !.queue = "custom"],
  [Base EXCEPT !.keys = "orch" :> "secret1" @@ "orch-next" :> "secret2"],
  [Base EXCEPT !.domain = "websearch", !.kv = NoKey,
               !.keys = "orch" :> "secret1" @@ "orch-next" :> "secret2"],
  [Base EXCEPT !.kv = NoKey, !.local = "key3"],
  [Base EXCEPT !.kv = NoKey, !.local = "key3", !.env = "dev"],
  [Base EXCEPT !.domain = "unknown"]}

MCOwners == {[pat |-> "pat1", secrets |-> {"secret1", "secret2"}],
             [pat |-> "pat2", secrets |-> {"secret3"}]}

MCWorkers == {w1, w2}
=============================================================================
