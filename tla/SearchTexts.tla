----------------------------- MODULE SearchTexts -----------------------------
(***************************************************************************)
(* The requests of SearchApi with the tokenizer and the parser behind      *)
(* them (src/app/query): what a text is parsed into is what they make of   *)
(* it, and the texts that reach the search service are compared with the   *)
(* grammar.                                                                *)
(***************************************************************************)
EXTENDS SearchApi, QueryLanguage

ASSUME TextsAreParsed ==
  \A text \in Texts :
    \A parsed \in {ParseQuery(text, Budget)} :
      /\ Parsed[text].failed = parsed.failed
      /\ parsed.failed = "none" => Parsed[text].node = parsed.node

-----------------------------------------------------------------------------
(* The text of every request that reaches the search service is read as    *)
(* the grammar reads it: the tree is the one derivation's, whenever that   *)
(* is within each limit of the budget, and an error says which of the two  *)
(* it is (tokenize, parse_query and the ParserLimits they share).          *)
TextsReadAsTheGrammar ==
  \A c \in InService : ReadAsTheGrammar(call[c].form.q, Budget)
=============================================================================
