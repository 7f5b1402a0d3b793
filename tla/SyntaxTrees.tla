---------------------------- MODULE SyntaxTrees ----------------------------
(***************************************************************************)
(* The syntax trees the parser makes of a text and the query builder reads *)
(* (src/app/query/ast.py), by their height.                                *)
(***************************************************************************)
EXTENDS Integers, Sequences

CONSTANTS
  Pieces,      \* the strings that texts, names and values are put together from
  MaxHeight    \* bound: the height of the tree of a text

ASSUME HeightIsBounded == MaxHeight \in Nat

Values == Seq(Pieces)

Blank == " "

Word(value)        == [kind |-> "word", value |-> value]
Phrase(value)      == [kind |-> "phrase", value |-> value]
Field(field, tree) == [kind |-> "field", field |-> field, value |-> tree]
Interval(field, start, end) ==
  [kind |-> "range", field |-> field, start |-> start, end |-> end]
And(left, right)   == [kind |-> "and", left |-> left, right |-> right]
Or(left, right)    == [kind |-> "or", left |-> left, right |-> right]
Not(child)         == [kind |-> "not", child |-> child]

IsLeaf(tree) == tree.kind \in {"word", "phrase"}

(* The trees with these for their parts. *)
Grown(parts) ==
  [kind : {"word", "phrase"}, value : Values]
  \cup [kind : {"range"}, field : Pieces, start : Values, end : Values]
  \cup [kind : {"field"}, field : Pieces, value : parts]
  \cup [kind : {"and", "or"}, left : parts, right : parts]
  \cup [kind : {"not"}, child : parts]

(* The trees of a text, and those that are one higher: what a tree becomes *)
(* when its alternatives are grouped in another way.                       *)
Heights == 0..(MaxHeight + 1)
TreesTo[height \in Heights] == IF height = 0 THEN {} ELSE Grown(TreesTo[height - 1])
Trees == TreesTo[MaxHeight + 1]
=============================================================================
