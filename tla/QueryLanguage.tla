--------------------------- MODULE QueryLanguage ---------------------------
(***************************************************************************)
(* The query language of the search API: the tokenizer and the recursive   *)
(* descent parser of src/app/query (tokens.py, tokenizer.py, ast.py,       *)
(* parser.py) under the budget of budget.py, and the grammar they are      *)
(* compared with.                                                          *)
(*                                                                         *)
(* A text is a sequence of pieces.  A piece is one character of structure, *)
(* a blank, or a whole run of word characters; two words are never         *)
(* adjacent.  Each piece counts as one character of the length budget.     *)
(***************************************************************************)
EXTENDS QueryBudget, SyntaxTrees, FiniteSets, SequencesExt

Quote == "\""

(* Characters that are a token of their own. *)
Single == ("(" :> "LPAREN") @@ (")" :> "RPAREN") @@ ("[" :> "LBRACKET")
          @@ ("]" :> "RBRACKET") @@ (":" :> "COLON")

(* Reserved words are recognised in either case. *)
Reserved == ("AND" :> "AND") @@ ("and" :> "AND") @@ ("OR" :> "OR")
            @@ ("NOT" :> "NOT") @@ ("TO" :> "TO")

(* What an operator makes of a value that is worked out once. *)
Given(value, Of(_)) == CHOOSE result \in { Of(v) : v \in {value} } : TRUE

Token(type, value) == [type |-> type, value |-> value]

IsBlank(text) == \A i \in DOMAIN text : text[i] = Blank

(* The first place at or after i with a piece other than a blank. *)
PastBlanks(text, i) ==
  LET j == SelectInSubSeq(text, i, Len(text), LAMBDA p : p # Blank)
  IN  IF j = 0 THEN Len(text) + 1 ELSE j

-----------------------------------------------------------------------------
(* Tokens.  A result has failed = "none" and the tokens, or the kind of    *)
(* error that ended the scan.                                              *)

Failed(why) == [failed |-> why, tokens |-> << >>]

(* A word is a field when the next piece other than a blank is a colon. *)
WordToken(text, i) ==
  LET next == PastBlanks(text, i + 1)
  IN  IF text[i] \in DOMAIN Reserved THEN Token(Reserved[text[i]], <<text[i]>>)
      ELSE IF next <= Len(text) /\ text[next] = ":" THEN Token("FIELD", <<text[i]>>)
      ELSE Token("WORD", <<text[i]>>)

RECURSIVE Scan(_, _, _, _)
Scan(text, i, tokens, budget) ==
  IF i > Len(text)
  THEN [failed |-> "none", tokens |-> Append(tokens, Token("EOF", << >>))]
  ELSE
    LET close == SelectInSubSeq(text, i + 1, Len(text), LAMBDA p : p = Quote)
        quoted == text[i] = Quote
        token == CASE quoted -> Token("PHRASE", SubSeq(text, i + 1, close - 1))
                   [] text[i] \in DOMAIN Single ->
                        Token(Single[text[i]], <<text[i]>>)
                   [] OTHER -> WordToken(text, i)
    IN  CASE text[i] = Blank -> Scan(text, i + 1, tokens, budget)
          [] quoted /\ close = 0 -> Failed("syntax")
          [] Len(tokens) >= budget["tokens"]
             /\ text[i] # Blank /\ ~(quoted /\ close = 0) -> Failed("complexity")
          [] OTHER -> Scan(text, (IF quoted THEN close ELSE i) + 1,
                           Append(tokens, token), budget)

Tokenize(text, budget) ==
  CASE IsBlank(text) -> Failed("syntax")
    [] ~IsBlank(text) /\ Len(text) > budget["chars"] -> Failed("complexity")
    [] OTHER -> Scan(text, 1, << >>, budget)

-----------------------------------------------------------------------------
(* The parser. *)

(* The parser's state.  depth is the nesting the parser is inside, node    *)
(* the tree its last function returned; a text that has no tokens fails at *)
(* once.                                                                   *)
Parser(lexed, budget) ==
  [tokens |-> lexed.tokens, failed |-> lexed.failed, budget |-> budget, index |-> 1,
   ast_nodes |-> 0, boolean_clauses |-> 0, depth |-> 0, node |-> {}]

Current(s)   == s.tokens[s.index].type
Value(s)     == s.tokens[s.index].value
Advance(s)   == [s EXCEPT !.index = @ + 1]
Fail(s, why) == [s EXCEPT !.failed = why]

(* A failure ends the parse, whatever was to follow. *)
Then(s, Step(_)) == Given(s, LAMBDA r : IF r.failed = "none" THEN Step(r) ELSE r)

Consume(s, type) == IF Current(s) = type THEN Advance(s) ELSE Fail(s, "syntax")

(* Mutant: the last node too many is not refused, nor is any clause. *)
NodeUncounted(s, node, boolean) ==
  IF s.ast_nodes > s.budget["nodes"] THEN Fail(s, "complexity")
  ELSE [s EXCEPT !.ast_nodes = @ + 1, !.node = node]

(* One more node, and one more clause for a Boolean one. *)
Node(s, node, boolean) ==
  LET clauses == s.boolean_clauses + (IF boolean THEN 1 ELSE 0)
  IN  IF s.ast_nodes >= s.budget["nodes"] \/ clauses > s.budget["clauses"]
      THEN Fail(s, "complexity")
      ELSE [s EXCEPT !.ast_nodes = @ + 1, !.boolean_clauses = clauses, !.node = node]

(* A parse one level further in, charged to the nesting budget. *)
Nested(s, Inner(_)) ==
  IF s.depth >= s.budget["depth"] THEN Fail(s, "complexity")
  ELSE [Inner([s EXCEPT !.depth = @ + 1]) EXCEPT !.depth = s.depth]

RECURSIVE ParseOr(_), OrRest(_), ParseAnd(_), AndRest(_), ParseNot(_)

(* "(" or: the group is in the tree only through what it holds. *)
ParseGroup(s) ==
  Then(Nested(Advance(s), ParseOr), LAMBDA inner : Consume(inner, "RPAREN"))

(* [start TO end], both ends single words. *)
ParseRange(s, field) ==
  LET through(r, type) == Then(r, LAMBDA q : Consume(q, type))
  IN  Then(FoldLeft(through, s, <<"WORD", "TO", "WORD", "RBRACKET">>),
           LAMBDA r : Node(r, Interval(field, Value(s), r.tokens[r.index - 2].value), FALSE))

(* What may follow the colon of a field. *)
ParseValue(s, field) ==
  LET InField(r) == Node(r, Field(field, r.node), FALSE)
  IN  CASE Current(s) = "LBRACKET" -> ParseRange(Advance(s), field)
        [] Current(s) = "LPAREN" /\ Current(Advance(s)) # "RPAREN" ->
             Then(ParseGroup(s), InField)
        [] Current(s) = "WORD" -> Then(Node(Advance(s), Word(Value(s)), FALSE), InField)
        [] Current(s) = "PHRASE" -> Then(Node(Advance(s), Phrase(Value(s)), FALSE), InField)
        [] OTHER -> Fail(s, "syntax")

ParseField(s) ==
  Then(Consume(Advance(s), "COLON"), LAMBDA r : ParseValue(r, Value(s)[1]))

ParsePrimary(s) ==
  CASE Current(s) = "LPAREN" -> ParseGroup(s)
    [] Current(s) = "FIELD" -> ParseField(s)
    [] Current(s) = "PHRASE" /\ Value(s) # << >> ->
         Node(Advance(s), Phrase(Value(s)), FALSE)
    [] Current(s) = "WORD" -> Node(Advance(s), Word(Value(s)), FALSE)
    [] OTHER -> Fail(s, "syntax")

ParseNot(s) ==
  CASE Current(s) # "NOT" -> ParsePrimary(s)
    [] Current(s) = "NOT" /\ Current(Advance(s)) \in {"AND", "OR", "EOF", "RPAREN"} ->
         Fail(s, "syntax")
    [] OTHER -> Then(Nested(Advance(s), ParseNot),
                     LAMBDA child : Node(child, Not(child.node), TRUE))

(* The rest of a chain: another operand joined to what there is, and on. *)
AndRest(s) ==
  LET joined(right) == Node(right, And(s.node, right.node), TRUE)
  IN  CASE Current(s) # "AND" -> s
        [] Current(s) = "AND"
           /\ Current(Advance(s)) \in {"AND", "OR", "EOF", "RPAREN"} -> Fail(s, "syntax")
        [] OTHER -> Then(Then(ParseNot(Advance(s)), joined), AndRest)

ParseAnd(s) ==
  IF Current(s) = "AND" THEN Fail(s, "syntax") ELSE Then(ParseNot(s), AndRest)

OrRest(s) ==
  LET joined(right) == Node(right, Or(s.node, right.node), TRUE)
  IN  CASE Current(s) # "OR" -> s
        [] Current(s) = "OR"
           /\ Current(Advance(s)) \in {"EOF", "RPAREN"} -> Fail(s, "syntax")
        [] OTHER -> Then(Then(ParseAnd(Advance(s)), joined), OrRest)

ParseOr(s) == Then(ParseAnd(s), OrRest)

(* parse_query: the whole text, to its end.  A parse that did not fail has *)
(* its tree in node.                                                       *)
ParseQuery(text, budget) ==
  Then(Then(Parser(Tokenize(text, budget), budget), ParseOr),
       LAMBDA s : IF Current(s) = "EOF" THEN s ELSE Fail(s, "syntax"))

-----------------------------------------------------------------------------
(* The reference: the grammar, as the set of the derivations of a span of  *)
(* tokens.  A derivation keeps the groups the syntax tree forgets.         *)

RECURSIVE Derivations(_, _, _, _)

Joined(op, left, right, t, i, j) ==
  UNION { { [kind |-> op, left |-> l, right |-> r] :
              l \in Derivations(left, t, i, k - 1),
              r \in Derivations(right, t, k + 1, j) } :
          k \in { n \in (i + 1)..(j - 1) :
                    t[n].type = (IF op = "or" THEN "OR" ELSE "AND") } }

Grouped(t, i, j) ==
  IF i + 2 <= j /\ t[i].type = "LPAREN" /\ t[j].type = "RPAREN"
  THEN { [kind |-> "group", child |-> d] : d \in Derivations("or", t, i + 1, j - 1) }
  ELSE {}

Atoms(t, i, j) ==
  IF i # j THEN {}
  ELSE CASE t[i].type = "WORD" -> {Word(t[i].value)}
         [] t[i].type = "PHRASE" -> {Phrase(t[i].value)}
         [] OTHER -> {}

Fields(t, i, j) ==
  IF i + 2 > j \/ t[i].type # "FIELD" \/ t[i + 1].type # "COLON" THEN {}
  ELSE LET field == t[i].value[1]
           types == [k \in 1..(j - i - 1) |-> t[i + 1 + k].type]
       IN  { Field(field, d) : d \in Atoms(t, i + 2, j) \cup Grouped(t, i + 2, j) }
           \cup IF types = <<"LBRACKET", "WORD", "TO", "WORD", "RBRACKET">>
                THEN {Interval(field, t[i + 3].value, t[i + 5].value)} ELSE {}

Derivations(level, t, i, j) ==
  CASE i > j -> {}
    [] i <= j /\ level = "or" ->
         Joined("or", "or", "and", t, i, j) \cup Derivations("and", t, i, j)
    [] i <= j /\ level = "and" ->
         Joined("and", "and", "not", t, i, j) \cup Derivations("not", t, i, j)
    [] i <= j /\ level = "not" /\ t[i].type = "NOT" ->
         { Not(d) : d \in Derivations("not", t, i + 1, j) }
    [] OTHER -> { d \in Atoms(t, i, j) : d.value # << >> }
                \cup Grouped(t, i, j) \cup Fields(t, i, j)

Parts(d) ==
  CASE d.kind \in {"and", "or"} -> {d.left, d.right}
    [] d.kind \in {"not", "group"} -> {d.child}
    [] d.kind = "field" -> {d.value}
    [] OTHER -> {}

RECURSIVE Ast(_), Size(_), Clauses(_), Depth(_)

Ast(d) ==
  CASE d.kind \in {"and", "or"} ->
         [kind |-> d.kind, left |-> Ast(d.left), right |-> Ast(d.right)]
    [] d.kind = "not" -> Not(Ast(d.child))
    [] d.kind = "group" -> Ast(d.child)
    [] d.kind = "field" -> Field(d.field, Ast(d.value))
    [] OTHER -> d

Size(d) ==
  CASE d.kind \in {"and", "or"} -> 1 + Size(d.left) + Size(d.right)
    [] d.kind = "not" -> 1 + Size(d.child)
    [] d.kind = "group" -> Size(d.child)
    [] d.kind = "field" -> 1 + Size(d.value)
    [] OTHER -> 1

Clauses(d) ==
  CASE d.kind \in {"and", "or"} -> 1 + Clauses(d.left) + Clauses(d.right)
    [] d.kind = "not" -> 1 + Clauses(d.child)
    [] d.kind = "group" -> Clauses(d.child)
    [] d.kind = "field" -> Clauses(d.value)
    [] OTHER -> 0

Depth(d) ==
  (IF d.kind \in {"not", "group"} THEN 1 ELSE 0)
  + Max({0} \cup {Depth(p) : p \in Parts(d)})

(* A text is within its budget when it is short enough, has few enough     *)
(* tokens, and its derivation is small enough by every count.              *)
Within(text, tokens, d, budget) ==
  /\ Len(text) <= budget["chars"]
  /\ Len(tokens) <= budget["tokens"]
  /\ Size(d) <= budget["nodes"]
  /\ Clauses(d) <= budget["clauses"]
  /\ Depth(d) <= budget["depth"]

Unlimited == [l \in Limits |-> 1000]

(* A text is read as the grammar reads it: it gives the one tree the       *)
(* grammar derives if and only if that tree is within every limit; an      *)
(* error of syntax means that there is no derivation, and one of           *)
(* complexity that a limit is really exceeded or there is none.            *)
ReadAsTheGrammar(text, budget) ==
  LET lexed  == Tokenize(text, Unlimited)
      tokens == Front(lexed.tokens)
      derived == IF lexed.failed # "none" THEN {}
                 ELSE Derivations("or", tokens, 1, Len(tokens))
  IN  \A parsed \in {ParseQuery(text, budget)}, trees \in {derived} :
        LET within == { d \in trees : Within(text, tokens, d, budget) }
        IN  CASE parsed.failed = "none" ->
                   Cardinality(trees) = 1 /\ trees = within
                   /\ { Ast(d) : d \in trees } = {parsed.node}
              [] parsed.failed = "syntax" -> trees = {}
              [] OTHER -> within = {}
=============================================================================
