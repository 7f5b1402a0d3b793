----------------------------- MODULE QueryDsl -----------------------------
(***************************************************************************)
(* How a syntax tree becomes an OpenSearch query: src/app/query's          *)
(* dsl_builder.py, text_field_router.py and ipc.py with the field tables   *)
(* of src/app/mappings, under the strategy every request of the service    *)
(* uses (ROUTED_DIS_MAX), and what a query matches and how it scores.      *)
(*                                                                         *)
(* A value is a sequence of pieces.  Field names are represented by one or *)
(* two of each class; an index field of text is a pair <<name, language>>. *)
(***************************************************************************)
EXTENDS SyntaxTrees, FiniteSetsExt, Functions, TLC

CONSTANTS
  Han,         \* the words with a Han character
  Ideographs,  \* those with one of the common ideographs
  Numbers,     \* the words made of digits only
  IpcCodes,    \* [value -> [code, level]], for the values that are a complete IPC
  Families,    \* [value -> code], for the values that are an IPC group without "/"
  Dates,       \* [value -> Int], for the values that are a date
  Years,       \* [value -> [first, last]], for the values of four digits
  Corpus       \* the documents queries are compared on

ASSUME CodesAreValues ==
  /\ {"granted", "active", "/00"} \subseteq Pieces
  /\ Ideographs \subseteq Han
  /\ IpcCodes \in [DOMAIN IpcCodes -> [code : Values,
                     level : {"section", "large_category", "small_category",
                              "large_group", "small_group"}]]
  /\ Families \in [DOMAIN Families -> Values]
  /\ DOMAIN IpcCodes \cap DOMAIN Families = {}
  /\ Dates \in [DOMAIN Dates -> Int]
  /\ Years \in [DOMAIN Years -> [first : Int, last : Int]]

(* The classes of field names; the other names are refused. *)
RoutedFields     == {"title", "ab", "tscd"}
PhraseFields     == {"applicant"}
PlainFields      == {"inventor"}
IdentifierFields == {"documentNumber", "patentId"}
SupportedFields  == RoutedFields \cup PhraseFields \cup PlainFields
                    \cup IdentifierFields
                    \cup {"type", "ipc", "mainIpc", "legalStatus", "ad", "documentYear"}

(* The field "" is that of a value without one. *)
NoField == ""
Scopes == SupportedFields \cup {NoField}

Stripped(value) ==
  LET kept == {i \in DOMAIN value : value[i] # Blank}
  IN  IF kept = {} THEN << >> ELSE SubSeq(value, Min(kept), Max(kept))

(* Chinese for a value with a Han character or of digits only. *)
Language(value) ==
  IF (\E i \in DOMAIN value : value[i] \in Han)
     \/ Stripped(value) \in {<<n>> : n \in Numbers}
  THEN "cn" ELSE "en"

RoutedTextFields(field, value) ==
  LET names == CASE field = NoField -> {"title", "ab"}
                 [] field = "tscd" -> {"title", "ab", "claims"}
                 [] OTHER -> {field}
  IN  names \X {Language(value)}

-----------------------------------------------------------------------------
(* Clauses.  An error takes the place of the clause of a value the builder *)
(* refuses, and of every clause around it.                                 *)

Error == [kind |-> "error"]
Match(value, fields)        == [kind |-> "match", value |-> value, fields |-> fields]
Adjacent(value, fields, slop) ==
  [kind |-> "phrase", value |-> value, fields |-> fields, slop |-> slop]
Term(field, value)          == [kind |-> "term", field |-> field, value |-> value]
InRange(field, from, to)    == [kind |-> "range", field |-> field, from |-> from, to |-> to]

Around(kind, clauses) ==
  IF \E i \in DOMAIN clauses : clauses[i] = Error THEN Error
  ELSE [kind |-> kind, of |-> clauses]

Must(clauses)    == Around("must", clauses)
Should(clauses)  == Around("should", clauses)
MustNot(clauses) == Around("must_not", clauses)
DisMax(clauses)  == Around("dis_max", clauses)

AnyTerm(fields, value) ==
  Should([i \in DOMAIN fields |-> Term(fields[i], value)])

IpcClause(value) ==
  CASE value \in DOMAIN IpcCodes -> Term("IPCListBase", IpcCodes[value].code)
    [] value \in DOMAIN Families -> Term("IPCListBase", Families[value])
    [] OTHER -> Error

(* The level of a code decides the field; a group without "/" stands for   *)
(* its large group.                                                        *)
MainIpcField == [large_group |-> "IPCSmallGroup", small_group |-> "IPCSmallGroup",
                 small_category |-> "IPCSmallCategory",
                 large_category |-> "IPCLargeCategory", section |-> "IPCSection"]

MainIpcClause(value) ==
  CASE value \in DOMAIN IpcCodes ->
         Term(MainIpcField[IpcCodes[value].level], IpcCodes[value].code)
    [] value \in DOMAIN Families -> Term("IPCLargeGroup", Families[value] \o <<"/00">>)
    [] OTHER -> Error

(* Some values stand for several statuses of the latest status alone. *)
StatusSets == [valid |-> << <<"granted">>, <<"active">> >>]

LegalStatusClause(value) ==
  IF Len(value) = 1 /\ value[1] \in DOMAIN StatusSets
  THEN Should([i \in 1..2 |-> Term("LatestLegalStatus", StatusSets[value[1]][i])])
  ELSE AnyTerm(<<"LatestLegalStatus", "LegalStatus">>, value)

(* Only a complete code is an IPC where no field says so. *)
BareIpc(leaf, field) ==
  field = NoField /\ leaf.kind = "word" /\ leaf.value \in DOMAIN IpcCodes

(* A word or a phrase, in a field or in none. *)
LeafClause(field, leaf) ==
  LET value  == leaf.value
      fields == RoutedTextFields(field, value)
      han    == \E i \in DOMAIN value : value[i] \in Ideographs
      text(names) ==
        IF leaf.kind = "word" THEN Match(value, names)
        ELSE Adjacent(value, names, IF field = "tscd" /\ han THEN 1 ELSE 0)
  IN  CASE BareIpc(leaf, field) -> Term("IPCListBase", IpcCodes[value].code)
        [] field \in PhraseFields -> Adjacent(value, {<<field, "any">>}, 0)
        [] field = "type" -> AnyTerm(<<"Type", "PatentTypeCode", "Kind">>, value)
        [] field \in PlainFields -> text({<<field, "any">>})
        [] field = "ipc" -> IpcClause(value)
        [] field = "mainIpc" -> MainIpcClause(value)
        [] field \in IdentifierFields ->
             IF Stripped(value) = << >> THEN Error
             ELSE IF field = "patentId" THEN AnyTerm(<<"patent_id">>, Stripped(value))
             ELSE AnyTerm(<<"PublicationNumber", "PublicationNumberAliases">>,
                          Stripped(value))
        [] OTHER -> text(fields)

RangeClause(tree) ==
  LET known(table) == {tree.start, tree.end} \subseteq DOMAIN table
  IN  CASE tree.field = "ad" /\ known(Dates) ->
             IF Dates[tree.start] > Dates[tree.end] THEN Error
             ELSE InRange("ApplicationDate", Dates[tree.start], Dates[tree.end])
        [] tree.field = "documentYear" /\ known(Years) ->
             IF Years[tree.start].first > Years[tree.end].first THEN Error
             ELSE InRange("PublicationDate", Years[tree.start].first, Years[tree.end].last)
        [] OTHER -> Error

(* The routed field and the language of a leaf, in none if it has none. *)
NoContext == << >>
LeafContext(tree, field) ==
  CASE IsLeaf(tree) /\ field \in RoutedFields \cup {NoField} ->
         IF BareIpc(tree, field) THEN NoContext ELSE <<field, Language(tree.value)>>
    [] tree.kind = "field" /\ field = NoField ->
         IF tree.field \in RoutedFields /\ IsLeaf(tree.value)
         THEN <<tree.field, Language(tree.value.value)>> ELSE NoContext
    [] OTHER -> NoContext

(* One text in two languages, in the same field. *)
CrossLanguage(left, right, field) ==
  LET l == LeafContext(left, field)
      r == LeafContext(right, field)
  IN  l # NoContext /\ r # NoContext /\ l[1] = r[1] /\ l[2] # r[2]

(* The clause of a tree inside a field or outside every field.  dis says   *)
(* that an "or" here may take the better of its two scores; clauses has    *)
(* those of the parts.                                                     *)

(* Mutant: an expression in a field loses the field. *)
FieldValueUnscoped(clauses, field, value, dis) ==
  clauses[value][IF IsLeaf(value) THEN field ELSE NoField][dis]

(* The value of a field: its field is that of every leaf. *)
FieldValue(clauses, field, value, dis) == clauses[value][field][dis]

FieldClause(clauses, tree, dis) ==
  LET value == tree.value
      refused == \/ tree.field \notin SupportedFields \ {"ad", "documentYear"}
                 \/ IsLeaf(value) /\ Stripped(value.value) = << >>
                 \/ value.kind \in {"field", "range"}
  IN  CASE refused -> Error
        [] ~refused /\ tree.field = "legalStatus" ->
             LegalStatusClause(IF IsLeaf(value) THEN Stripped(value.value) ELSE << >>)
        [] ~refused /\ tree.field # "legalStatus" ->
             FieldValue(clauses, tree.field, value, dis)

(* Mutant: an alternative keeps the choice for its own alternatives. *)
OrClauseNested(clauses, tree, field, dis) ==
  LET both == <<clauses[tree.left][field][dis], clauses[tree.right][field][dis]>>
  IN  IF dis /\ CrossLanguage(tree.left, tree.right, field) THEN DisMax(both) ELSE Should(both)

OrClause(clauses, tree, field, dis) ==
  LET both == <<clauses[tree.left][field][FALSE], clauses[tree.right][field][FALSE]>>
  IN  IF dis /\ CrossLanguage(tree.left, tree.right, field) THEN DisMax(both) ELSE Should(both)

NodeClause(clauses, tree, field, dis) ==
  CASE IsLeaf(tree) -> LeafClause(field, tree)
    [] tree.kind = "field" -> IF field = NoField THEN FieldClause(clauses, tree, dis) ELSE Error
    [] tree.kind = "range" -> IF field = NoField THEN RangeClause(tree) ELSE Error
    [] tree.kind = "and" -> Must(<<clauses[tree.left][field][dis], clauses[tree.right][field][dis]>>)
    [] tree.kind = "or" -> OrClause(clauses, tree, field, dis)
    [] tree.kind = "not" -> MustNot(<<clauses[tree.child][field][FALSE]>>)

ClauseOf[tree \in Trees] ==
  [field \in Scopes |-> [dis \in BOOLEAN |-> NodeClause(ClauseOf, tree, field, dis)]]

Clause(tree, field, dis) == ClauseOf[tree][field][dis]

(* The query of a parsed text; a failure is named for its exception. *)
BuiltQuery(parsed) ==
  IF parsed.failed # "none" THEN [failed |-> parsed.failed, query |-> Error]
  ELSE LET clause == Clause(parsed.node, NoField, TRUE)
       IN  IF clause = Error THEN [failed |-> "syntax", query |-> Error]
           ELSE [failed |-> "none", query |-> Must(<<clause>>)]

-----------------------------------------------------------------------------
(* The clauses, by their height: a bool or a dis_max is one higher than    *)
(* what is in it.  A bool of the builder has at most three clauses.        *)

TextFields == {"title", "ab", "claims", "applicant", "inventor"} \X {"cn", "en", "any"}
KeywordFields ==
  {"Type", "PatentTypeCode", "Kind", "LatestLegalStatus", "LegalStatus", "IPCListBase",
   "IPCSection", "IPCLargeCategory", "IPCSmallCategory", "IPCLargeGroup", "IPCSmallGroup",
   "patent_id", "PublicationNumber", "PublicationNumberAliases"}
DateFields == {"ApplicationDate", "PublicationDate"}

Enclosing(inner) ==
  [kind : {"match"}, value : Values, fields : SUBSET TextFields]
  \cup [kind : {"phrase"}, value : Values, fields : SUBSET TextFields, slop : 0..1]
  \cup [kind : {"term"}, field : KeywordFields, value : Values]
  \cup [kind : {"range"}, field : DateFields, from : Int, to : Int]
  \cup [kind : {"must", "should", "dis_max", "must_not"},
         of : [1..1 -> inner] \cup [1..2 -> inner] \cup [1..3 -> inner]]

ClauseHeights == 0..(MaxHeight + 3)
ClausesTo[height \in ClauseHeights] ==
  IF height = 0 THEN {} ELSE Enclosing(ClausesTo[height - 1])
Queries == ClausesTo[MaxHeight + 3]

-----------------------------------------------------------------------------
(* How OpenSearch reads a clause (external).  A document gives its text    *)
(* fields a sequence of words, its keyword fields a set of values and its  *)
(* date fields a day; a field it lacks matches nothing.                    *)

Words(value) == SelectSeq(value, LAMBDA p : p # Blank)

(* The words of a phrase follow one another, with at most slop places more. *)
HasPhrase(text, words, slop) ==
  /\ words # << >>
  /\ \E s \in DOMAIN text, gap \in DOMAIN words, more \in 0..slop :
       \A i \in DOMAIN words :
         LET place == s + i - 1 + (IF i > gap THEN more ELSE 0)
         IN  place \in DOMAIN text /\ text[place] = words[i]

(* Whether a clause matches, when matches says it of those in it. *)
ClauseMatches(matches, c, doc) ==
  CASE c.kind = "match" ->
         \E f \in c.fields \cap DOMAIN doc.text, i \in DOMAIN c.value :
           c.value[i] \in Range(doc.text[f])
    [] c.kind = "phrase" ->
         \E f \in c.fields \cap DOMAIN doc.text :
           HasPhrase(doc.text[f], Words(c.value), c.slop)
    [] c.kind = "term" -> c.field \in DOMAIN doc.terms /\ c.value \in doc.terms[c.field]
    [] c.kind = "range" -> c.field \in DOMAIN doc.dates /\ doc.dates[c.field] \in c.from..c.to
    [] c.kind = "must" -> \A i \in DOMAIN c.of : matches[c.of[i]][doc]
    [] c.kind \in {"should", "dis_max"} -> \E i \in DOMAIN c.of : matches[c.of[i]][doc]
    [] c.kind = "must_not" -> \A i \in DOMAIN c.of : ~matches[c.of[i]][doc]

MatchesOf[c \in Queries] == [doc \in Corpus |-> ClauseMatches(MatchesOf, c, doc)]
Matches(c, doc) == MatchesOf[c][doc]

(* A clause that matches scores one, a dis_max the best and a bool the sum *)
(* of its clauses.                                                         *)
Total(numbers) ==
  CASE DOMAIN numbers = 1..1 -> numbers[1]
    [] DOMAIN numbers = 1..2 -> numbers[1] + numbers[2]
    [] DOMAIN numbers = 1..3 -> numbers[1] + numbers[2] + numbers[3]

ClauseScore(scores, c, doc) ==
  LET inner == [i \in DOMAIN c.of |-> scores[c.of[i]][doc]]
  IN  CASE c.kind \in {"match", "phrase", "term", "range"} ->
             IF Matches(c, doc) THEN 1 ELSE 0
        [] c.kind \in {"must", "should"} -> Total(inner)
        [] c.kind = "dis_max" -> Max(Range(inner))
        [] c.kind = "must_not" -> 0

ScoreOf[c \in Queries] == [doc \in Corpus |-> ClauseScore(ScoreOf, c, doc)]
Score(c, doc) == ScoreOf[c][doc]

-----------------------------------------------------------------------------
(* The reference: what a tree says of a document. *)

(* Every value in the tree is one its field takes. *)
NodeFits(fits, tree, field) ==
  CASE tree.kind \in {"and", "or"} -> fits[tree.left][field] /\ fits[tree.right][field]
    [] tree.kind = "not" -> fits[tree.child][field]
    [] tree.kind = "range" -> field = NoField /\ RangeClause(tree) # Error
    [] tree.kind = "field" ->
         /\ field = NoField
         /\ tree.field \in SupportedFields \ {"ad", "documentYear"}
         /\ IsLeaf(tree.value) => Stripped(tree.value.value) # << >>
         /\ fits[tree.value][tree.field]
    [] OTHER -> field = "legalStatus" \/ LeafClause(field, tree) # Error

FitsOf[tree \in Trees] == [field \in Scopes |-> NodeFits(FitsOf, tree, field)]
Fits(tree, field) == FitsOf[tree][field]

(* A field distributes over the expression it is given. *)
NodeHolds(holds, tree, field, doc) ==
  CASE tree.kind = "and" -> holds[tree.left][field][doc] /\ holds[tree.right][field][doc]
    [] tree.kind = "or" -> holds[tree.left][field][doc] \/ holds[tree.right][field][doc]
    [] tree.kind = "not" -> ~holds[tree.child][field][doc]
    [] tree.kind = "field" -> holds[tree.value][tree.field][doc]
    [] tree.kind = "range" -> Matches(RangeClause(tree), doc)
    [] OTHER -> IF field = "legalStatus"
                THEN Matches(LegalStatusClause(Stripped(tree.value)), doc)
                ELSE Matches(LeafClause(field, tree), doc)

HoldsOf[tree \in Trees] ==
  [field \in Scopes |-> [doc \in Corpus |-> NodeHolds(HoldsOf, tree, field, doc)]]
Holds(tree, field, doc) == HoldsOf[tree][field][doc]

(* A legal status takes a single value. *)
CompoundStatus[tree \in Trees] ==
  CASE tree.kind \in {"and", "or"} -> CompoundStatus[tree.left] \/ CompoundStatus[tree.right]
    [] tree.kind = "not" -> CompoundStatus[tree.child]
    [] tree.kind = "field" -> \/ tree.field = "legalStatus" /\ ~IsLeaf(tree.value)
                              \/ CompoundStatus[tree.value]
    [] OTHER -> FALSE

(* A tree compiles if and only if its values fit, and its query matches    *)
(* the documents it holds of.                                              *)
CompilesTo(tree) ==
  LET clause == Clause(tree, NoField, TRUE)
  IN  /\ clause # Error <=> Fits(tree, NoField)
      /\ clause # Error =>
           \A doc \in Corpus : Matches(clause, doc) <=> Holds(tree, NoField, doc)

(* The trees that say the same with their alternatives grouped, ordered or *)
(* spread over their field in another way; others has those of the parts.  *)
RegroupedHere(tree) ==
  CASE tree.kind = "or" ->
         {Or(tree.right, tree.left)}
         \cup (IF tree.left.kind # "or" THEN {}
               ELSE {Or(tree.left.left, Or(tree.left.right, tree.right))})
    [] tree.kind = "field" ->
         (IF tree.value.kind # "or" THEN {}
          ELSE {Or(Field(tree.field, tree.value.left), Field(tree.field, tree.value.right))})
    [] OTHER -> {}

RegroupedInside(others, tree) ==
  CASE tree.kind = "and" -> { And(p, tree.right) : p \in others[tree.left] }
                            \cup { And(tree.left, p) : p \in others[tree.right] }
    [] tree.kind = "or" -> { Or(p, tree.right) : p \in others[tree.left] }
                           \cup { Or(tree.left, p) : p \in others[tree.right] }
    [] tree.kind = "not" -> { Not(p) : p \in others[tree.child] }
    [] OTHER -> {}

Regrouped[tree \in Trees] == RegroupedHere(tree) \cup RegroupedInside(Regrouped, tree)

(* How a query is grouped does not change how a document scores. *)
ScoresAlike(tree) ==
  \A other \in Regrouped[tree] :
    LET one == Clause(tree, NoField, TRUE)
        two == Clause(other, NoField, TRUE)
    IN  one # Error /\ two # Error => \A doc \in Corpus : Score(one, doc) = Score(two, doc)
=============================================================================
