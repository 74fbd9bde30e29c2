--------------------------- MODULE MCExecuteAction ---------------------------
(***************************************************************************)
(* Small instances of ExecuteAction: one update_issue proposal, nothing of *)
(* it editable, and one add_comment proposal whose body may be reworded.   *)
(***************************************************************************)
EXTENDS ExecuteAction, TLC

CONSTANTS update, comment

One  == [json |-> "1", py |-> "1"]
True == [json |-> "true", py |-> "1"]
Two  == [json |-> "2", py |-> "2"]

MCProposed == update :> [issue |-> One, fields |-> One] @@ comment :> [issue |-> One, body |-> One]
MCEditable == update :> {} @@ comment :> {"body"}

\* The update, a value Python takes for the one it proposes, a reworded comment,
\* an edit that breaks the schema and a field nobody proposed.
MCPayloads == {[issue |-> One, fields |-> One], [issue |-> One, fields |-> True],
               [issue |-> One, body |-> Two], [issue |-> One],
               [issue |-> One, body |-> One, more |-> Two]}
MCValid == MCPayloads \ {[issue |-> One]}

\* For the questions that only need one way to approve each action.
FewPayloads == {[issue |-> One, fields |-> One], [issue |-> One, body |-> Two]}

Symmetry == Permutations(Reqs) \cup Permutations(Keys)
=============================================================================
