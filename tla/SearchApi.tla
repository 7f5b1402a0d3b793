------------------------------ MODULE SearchApi ------------------------------
(***************************************************************************)
(* The requests of McpTools with the query builder behind them: the query  *)
(* of a text is built from its syntax tree, and what reaches the search    *)
(* service is compared with the documents it should match.                 *)
(***************************************************************************)
EXTENDS McpTools, QueryDsl

CONSTANT Parsed      \* [Texts -> [failed, node]]: what the parser makes of a text

ASSUME QueriesAreBuilt ==
  \A text \in Texts :
    /\ Parsed[text].failed = "none" => Parsed[text].node \in TreesTo[MaxHeight]
    /\ Built[text] = BuiltQuery(Parsed[text])

-----------------------------------------------------------------------------
InService == {c \in Calls : call[c].stage = "service" /\ call[c].form.mode # "vector"}

(* The trees of the requests in the search service. *)
ReadTrees == { Parsed[call[c].form.q].node :
                 c \in { d \in InService : Parsed[call[d].form.q].failed = "none" } }

(* The query built from a tree matches exactly the documents the tree      *)
(* holds of, and is refused exactly when a value does not fit its field    *)
(* (build_search_dsl).  A legal status with an expression for its value is *)
(* left out.                                                               *)
QueriesMeanTheirTrees ==
  \A tree \in ReadTrees : ~CompoundStatus[tree] => CompilesTo(tree)

(* How alternatives are grouped, ordered or spread over their field does   *)
(* not change the score of any document, although two languages of one     *)
(* field may be scored by the better of the two (_build_node_clause).      *)
GroupingKeepsScores ==
  \A tree \in ReadTrees : ~CompoundStatus[tree] => ScoresAlike(tree)
=============================================================================
