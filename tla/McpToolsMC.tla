----------------------------- MODULE McpToolsMC -----------------------------
(* The scenarios TLC runs the requests of McpTools through: one request of *)
(* every text, body, page and rank, and two calls side by side.            *)
EXTENDS SearchTexts

CONSTANTS c1, c2, d1, d2, d3

MCPieces ==
  { "cn", "zero", "en", "de", "valid", "17", "H02M", "H02M7", "H02M7/00", "y1", "y2",
    "title", "ab", "tscd", "applicant", "inventor", "type", "ipc", "mainIpc", "legalStatus",
    "documentNumber", "ad", "other", " ", "granted", "active", "/00" }
MCHan == {"cn", "zero"}
MCIdeographs == {"cn"}
MCNumbers == {"17"}
MCIpcCodes == (<<"H02M">> :> [code |-> <<"H02M">>, level |-> "small_category"])
              @@ (<<"H02M7/00">> :> [code |-> <<"H02M7/00">>, level |-> "large_group"])
MCFamilies == <<"H02M7">> :> <<"H02M7">>
MCDates == (<<"y1">> :> 1) @@ (<<"y2">> :> 2)
MCYears == (<<"y1">> :> [first |-> 1, last |-> 4]) @@ (<<"y2">> :> [first |-> 5, last |-> 8])

MCBudget ==
  [bytes |-> 3, chars |-> 20, depth |-> 3, tokens |-> 11, nodes |-> 8,
   clauses |-> 3, page_size |-> 2, window |-> 5]
MCHard == [MCBudget EXCEPT !.chars = 21, !.page_size = 3, !.window = 6]

Doc(text, terms, dates) == [text |-> text, terms |-> terms, dates |-> dates]
MCCorpus ==
  { Doc(<<"title", "cn">> :> <<"cn">>, "PublicationNumber" :> {<<"17">>},
        "ApplicationDate" :> 1),
    Doc((<<"title", "cn">> :> <<"cn">>) @@ (<<"title", "en">> :> <<"en">>),
        ("IPCListBase" :> {<<"H02M">>, <<"H02M7">>})
        @@ ("LatestLegalStatus" :> {<<"granted">>}) @@ ("IPCSmallCategory" :> {<<"H02M">>}),
        "PublicationDate" :> 3),
    Doc((<<"ab", "en">> :> <<"en">>) @@ (<<"title", "en">> :> <<"en", "de">>),
        "Kind" :> {<<"en">>}, << >>),
    Doc((<<"ab", "en">> :> <<"de", "en">>) @@ (<<"applicant", "any">> :> <<"en">>)
        @@ (<<"inventor", "any">> :> <<"de">>), << >>, << >>) }

Spaced(chunks) == FoldLeft(LAMBDA text, chunk : text \o <<Blank>> \o chunk, << >>, chunks)

Chunks ==
  { <<"cn">>, <<"en">>, <<"AND">>, <<"OR">>, <<"NOT">>, <<"(">>, <<")">>,
    <<"title", ":">>, <<Quote, "en", Blank, "de", Quote>>, <<"H02M">>,
    <<"legalStatus", ":", "valid">>, <<Quote, Blank, Quote>>,
    <<"ad", ":", "[", "y1", Blank, "TO", Blank, "y2", "]">> }

Few == { <<"en">>, <<"OR">>, <<"NOT">>, <<"(">>, <<")">> }

Fielded ==
  { <<field, ":">> \o value :
      field \in { "applicant", "inventor", "type", "ipc", "mainIpc", "legalStatus",
                  "documentNumber", "tscd", "ad", "other" },
      value \in { <<"en">>, <<"17">>, <<"H02M">>, <<"H02M7">>,
                  <<Quote, "en", Blank, "de", Quote>>,
                  <<"(", "en", Blank, "OR", Blank, "cn", ")">>,
                  <<"(", "NOT", Blank, "en", ")">>,
                  <<"[", "y2", Blank, "TO", Blank, "y1", "]">>,
                  <<"(", "ab", ":", "en", ")">> } }

Alternatives ==
  { <<"cn">>, <<"en">>, <<"title", ":", "cn">>, <<"title", ":", "de">>,
    <<"(", "cn", Blank, "OR", Blank, "en", ")">>,
    <<"title", ":", "(", "cn", Blank, "OR", Blank, "en", ")">> }

Repeated(n, piece) == FlattenSeq([i \in 1..n |-> piece])

Unclosed == <<"(", "en">>

(* Around the limits.  Each kind has texts that nothing but its own limit  *)
(* refuses: blanks the length, groups under NOT the depth, a pair of       *)
(* groups the tokens, a chain the nodes and the Boolean clauses.           *)
Grouping(n) == Repeated(n, <<"(">>) \o <<"en">> \o Repeated(n, <<")">>)
Blanks == { Repeated(n, <<Blank>>) \o <<"en">> : n \in 17..20 }
Groups == { Repeated(n, <<"NOT", Blank>>) \o Grouping(m) : n \in 0..4, m \in 0..4 }
          \cup { Repeated(n, <<"(">>) \o <<"en">> \o Repeated(m, <<")">>) : n, m \in 0..4 }
PairsOfGroups == { Spaced(<<Grouping(n), op, Grouping(m)>>) :
                     n, m \in 1..3, op \in {<<"AND">>, <<"AND", Blank, "NOT">>} }
Operands == { <<"en">>, <<"title", ":", "en">>, <<"NOT", Blank, "en">> }
Chains == { Spaced([i \in 1..(2 * n - 1) |->
                      IF i % 2 = 1 THEN s[(i + 1) \div 2] ELSE <<"AND">>]) :
              n \in 1..4, s \in [1..4 -> Operands] }

QueryTexts ==
  {<<"en">>, Unclosed} \cup
  { Spaced(s) : s \in UNION { [1..n -> Chunks] : n \in 1..3 } }
  \cup { Spaced(s) : s \in [1..4 -> Few] }
  \cup Fielded
  \cup { Spaced(<<a, <<op>>, b>>) : a, b \in Alternatives, op \in {"AND", "OR"} }
  \cup { Spaced(<<a, <<"OR">>, b, <<"OR">>, c>>) :
           a, b, c \in {<<"cn">>, <<"en">>, <<"title", ":", "cn">>} }
  \cup Blanks \cup Groups \cup PairsOfGroups \cup Chains
  \cup { <<"tscd", ":", Quote, word, Blank, "en", Quote>> : word \in {"cn", "zero", "de"} }

TooLong == Repeated(11, <<"en", Blank>>)
MCTexts == QueryTexts \cup {<< >>, TooLong}
MCParsed == [text \in MCTexts |->
               Given(ParseQuery(text, MCBudget),
                     LAMBDA s : [failed |-> s.failed, node |-> s.node])]
MCBuilt == [text \in MCTexts |-> BuiltQuery(MCParsed[text])]

Form ==
  [path |-> "search", mode |-> "boolean", q |-> <<"en">>, ds |-> "all",
   sort |-> "relation", page |-> 1, page_size |-> 1, semantic |-> 0,
   vector_fields |-> {}, top_k |-> 1, target |-> None, chunks |-> <<1>>,
   declared |-> 0, header |-> "valid", json |-> TRUE, key |-> TRUE]
NoForm == [Form EXCEPT !.path = "none", !.q = << >>]

TextForms == { [Form EXCEPT !.q = text] : text \in QueryTexts }

BodyForms ==
  { [Form EXCEPT !.chunks = chunks, !.declared = declared] :
      chunks \in UNION { [1..n -> 0..2] : n \in 1..3 }, declared \in {0, 2, 3, 4} }
  \cup { [Form EXCEPT !.header = header, !.json = json, !.key = key] :
           header \in {"valid", "invalid"}, json, key \in BOOLEAN }

PageForms ==
  { [Form EXCEPT !.page = page, !.page_size = size] : page \in 0..6, size \in 0..4 }
  \cup { [Form EXCEPT !.mode = mode, !.page = page, !.page_size = size, !.semantic = length,
                      !.vector_fields = fields, !.top_k = k] :
           mode \in {"vector", "hybrid"}, page \in 1..4, size \in 1..2,
           length \in {0, 1, 20, 21, 22}, fields \in {{}, {"abstract"}}, k \in 0..4 }
  \cup { [Form EXCEPT !.mode = "hybrid", !.q = text, !.semantic = 1,
                      !.vector_fields = {"abstract"}, !.top_k = 2] :
           text \in {<< >>, Unclosed, TooLong} }

Rank == [Form EXCEPT !.path = "rank"]
Targeted == { [Rank EXCEPT !.sort = sort, !.target = d1] : sort \in {"relation", "newest", "oldest"} }
RankForms == { [Rank EXCEPT !.target = target] : target \in {"n1", "n2", "n3"} }
             \cup { [Rank EXCEPT !.q = Unclosed] }

MCTargets == {d1, d2, d3, "n1", "n2", "n3"}

Numbered(hit, key) ==
  [d \in {d1, d2, d3} |-> [hit |-> hit[d], key |-> key[d],
                           number |-> IF d = d2 THEN "n2" ELSE "n1"]]
Still == Numbered([d \in {d1, d2, d3} |-> TRUE], [d \in {d1, d2, d3} |-> 1])
Indexes == { Numbered([d \in {d1, d2, d3} |-> d # out], key) :
               out \in {d1, None}, key \in [{d1, d2, d3} -> 0..MaxKey] }

Alone(forms, indexes) ==
  { [forms |-> (c1 :> form) @@ (c2 :> NoForm), tools |-> {}, documents |-> documents] :
      form \in forms, documents \in indexes }

Pair(one, two, tools) ==
  [forms |-> (c1 :> one) @@ (c2 :> two), tools |-> tools, documents |-> Still]
Pairs ==
  { Pair([Form EXCEPT !.page_size = 4], two, {c1, c2}) :
      two \in { [Form EXCEPT !.q = Unclosed], [Form EXCEPT !.chunks = <<4>>] } }
  \cup { Pair([Form EXCEPT !.page_size = 0], [Form EXCEPT !.key = FALSE], {c1}) }

Scenarios == Alone(TextForms \cup BodyForms \cup PageForms \cup RankForms, {Still})
             \cup Alone(Targeted, Indexes) \cup Pairs

(* All of them are forms and indexes the specification starts from. *)
ASSUME ScenariosAreTyped ==
  \A s \in Scenarios :
    /\ s.forms \in [Calls -> Forms] /\ s.tools \subseteq Calls
    /\ s.documents \in [Documents -> Entries]

MCInit == \E s \in Scenarios : Init(s.forms, s.tools, s.documents)
MCSpec == MCInit /\ [][Next]_toolVars
=============================================================================
