---------------------------- MODULE RequestPath ----------------------------
(***************************************************************************)
(* One request of the search API on its way through the service: the       *)
(* request context (core/request_context.py), the body limit               *)
(* (core/request_body_limit.py), authentication, the bulkhead and the      *)
(* schemas, the search service with its three modes and the rank of a      *)
(* target (services/search_service.py), and the errors on the way back     *)
(* (core/error_handlers.py, core/exceptions.py).  The index may change     *)
(* between any two of the operations a rank is put together from.          *)
(***************************************************************************)
EXTENDS QueryBudget, Sequences, FiniteSets, FiniteSetsExt

CONSTANTS
  Calls,       \* the requests
  Documents,   \* the documents of the index whose rank matters
  Targets,     \* what a target is named by: identifiers and publication numbers
  Texts,       \* the texts of queries
  Built,       \* [Texts -> [failed, query]]: what the query compiler makes of a text
  Budget,      \* [Limits -> Nat]: the budget of the deployment
  Hard,        \* [Limits -> Nat]: the limits of the code
  MaxTopK,     \* the largest k of a vector request
  MaxTotal,    \* bound: the most hits a search reports
  MaxKey,      \* bound: the largest score or date
  MaxChanges   \* bound: changes of the index

ASSUME BudgetIsWithin ==
  /\ {Budget, Hard} \subseteq [Limits -> Nat]
  /\ \A l \in Limits : Budget[l] \in 1..Hard[l]
  /\ Budget["window"] >= Budget["page_size"]

ASSUME TextsAreBuilt ==
  /\ << >> \in Texts
  /\ \A text \in Texts : Built[text].failed \in {"none", "syntax", "complexity"}

ASSUME RequestBounds ==
  /\ IsFiniteSet(Calls) /\ IsFiniteSet(Documents) /\ Documents \subseteq Targets
  /\ {MaxTopK, MaxTotal, MaxKey, MaxChanges} \subseteq Nat

VARIABLES
  call,        \* [Calls -> what a request is and how far it has come]
  inFlight,    \* the gauge of requests in flight
  index,       \* [Documents -> whether it is a hit, its key and its number]
  changes      \* changes of the index so far

requestVars == <<call, inFlight, index, changes>>

None == "none"

-----------------------------------------------------------------------------
(* Errors: the status of each, and the code a bare status stands for. *)

Status == [ok |-> 200, syntax |-> 400, invalid |-> 400, pagination |-> 400,
           complexity |-> 400, unauthenticated |-> 401, too_large |-> 413,
           dependency |-> 502, internal |-> 500, busy |-> 503,
           unavailable |-> 503, timeout |-> 504]

DefaultCode(status) ==
  CASE status = 400 -> "invalid"
    [] status = 401 -> "unauthenticated"
    [] status = 413 -> "too_large"
    [] status = 500 -> "internal"
    [] status = 502 -> "dependency"
    [] status = 503 -> "busy"
    [] status = 504 -> "timeout"

(* What an answer holds beyond its code: the next page, or a rank. *)
NoContent == [next_page |-> 0, status |-> None, rank |-> 0, tied |-> 0]
Reply(code, id, content) == [code |-> code, id |-> id, content |-> content]
NoId == << >>
NoReply == Reply(None, NoId, NoContent)
NoRecord == [id |-> NoId, status |-> 0, code |-> None]

(* What a rank in progress knows: its target, the key of the target and    *)
(* how many hits are ahead; since is the number of changes at its start.   *)
NoRank == [target |-> None, key |-> 0, better |-> 0, since |-> 0]

(* What a request asks of the index; nothing yet. *)
NoQuery == [kind |-> "none"]
NoBody == [query |-> NoQuery, ds |-> "all", from |-> 0, size |-> 0, vectors |-> {}, k |-> 0]

(* A request that has not arrived, or will never be made. *)
Fresh(form) ==
  [stage |-> IF form.path = "none" THEN "done" ELSE "waiting", form |-> form, id |-> NoId, received |-> 0,
   rest |-> form.chunks, response_code |-> "ok", sent |-> NoReply,
   logged |-> NoRecord, body |-> NoBody, rank |-> NoRank]

RequestInit(forms, documents) ==
  /\ call = [c \in Calls |-> Fresh(forms[c])]
  /\ inFlight = 0
  /\ index = documents
  /\ changes = 0

Moved(c, record) == call' = [call EXCEPT ![c] = record]
Stage(r, stage) == [r EXCEPT !.stage = stage]

(* The answer to a request, whose text is no longer kept.                  *)
Answer(r, code, content) ==
  [Stage(r, "answered") EXCEPT !.sent = Reply(code, r.id, content), !.form.q = << >>]

(* An error: its code also becomes that of the request.                    *)
Answered(r, code) == [Answer(r, code, NoContent) EXCEPT !.response_code = code]

(* A failure of a name; an unexpected one leaves the application. *)
FailedWith(r, why) ==
  IF why = "unexpected" THEN Stage(r, "broken") ELSE Answered(r, why)

-----------------------------------------------------------------------------
(* Types. *)

(* The stages of a request that was neither answered nor given up. *)
Ranking == {"target", "number", "locate", "better", "tied"}
Open == {"body", "routed", "queue", "service", "vector", "asking"} \cup Ranking

Codes == DOMAIN Status
Ids == {NoId} \cup ({"own", "client", "tool", "new", "foreign"} \X Calls)
Statuses == {None, "ambiguous_target", "target_not_found", "not_in_results", "matched"}

(* What a search covers: all documents, or those of one country. *)
Datasets == {"all", "country"}
VectorFields == {"abstract", "main_claim", "independent_claims"}

(* What a client may ask for; a rank is asked for by a Boolean query. *)
Forms ==
  { form \in
      [path : {"search", "rank", "none"}, mode : {"boolean", "vector", "hybrid"},
       q : Texts, ds : Datasets, sort : {"relation", "newest", "oldest"},
       page : Int, page_size : Int, semantic : Nat, vector_fields : SUBSET VectorFields,
       top_k : Int, target : Targets \cup {None}, chunks : Seq(Nat), declared : Nat,
       header : {"valid", "invalid"}, json : BOOLEAN, key : BOOLEAN] :
    form.path = "rank" => form.mode = "boolean" }

Entries == [hit : BOOLEAN, key : 0..MaxKey, number : Targets]

Stages == Open \cup {"waiting", "answered", "cancelled", "broken", "unsent", "done"}
Contents == [next_page : Nat, status : Statuses, rank : Nat, tied : Nat]
Replies == [code : Codes \cup {None}, id : Ids, content : Contents]
Records == [id : Ids, status : {0} \cup {Status[code] : code \in Codes},
            code : Codes \cup {None}]
Bodies == [query : {NoQuery} \cup {Built[text].query : text \in Texts}, ds : Datasets,
           from : Int, size : Int, vectors : SUBSET VectorFields, k : Int]
Ranks == [target : Documents \cup {None}, key : 0..MaxKey, better : Nat, since : 0..MaxChanges]

Requests ==
  [stage : Stages, form : Forms, id : Ids, received : Nat, rest : Seq(Nat),
   response_code : Codes, sent : Replies, logged : Records, body : Bodies, rank : Ranks]

RequestTypeOK ==
  /\ call \in [Calls -> Requests]
  /\ inFlight \in Int
  /\ index \in [Documents -> Entries]
  /\ changes \in 0..MaxChanges

-----------------------------------------------------------------------------
(* Arrival.  A valid identifier of the client is kept, another replaced.   *)
(* A declared length above the limit is answered before any of the body.   *)

TooLarge(bytes) == bytes > Budget["bytes"]

Accepted(form, client, own) == IF form.header = "valid" THEN client ELSE own

Arrive(c, client, form) ==
  LET r == [call[c] EXCEPT !.form = form]
      entered == [Stage(r, "body") EXCEPT !.id = Accepted(form, client, <<"own", c>>)]
  IN  /\ r.stage = "waiting"
      /\ Moved(c, IF TooLarge(form.declared) THEN Answered(entered, "too_large")
                  ELSE entered)
      /\ inFlight' = inFlight + 1
      /\ UNCHANGED <<index, changes>>

(* The next piece of the body.  The application gets nothing before the    *)
(* last one.                                                               *)
Receive(c, over) ==
  LET r == call[c]
      read == [r EXCEPT !.received = @ + Head(r.rest), !.rest = Tail(@)]
  IN  /\ r.stage = "body" /\ r.rest # << >>
      /\ Moved(c, CASE over -> Answered(read, "too_large")
                    [] ~over /\ read.rest = << >> -> Stage(read, "routed")
                    [] OTHER -> read)
      /\ UNCHANGED <<inFlight, index, changes>>

(* Mutant: each piece is compared with the limit on its own. *)
ReceiveChunkAlone(c) == call[c].rest # << >> /\ Receive(c, TooLarge(Head(call[c].rest)))
ReceiveChunk(c) ==
  call[c].rest # << >> /\ Receive(c, TooLarge(call[c].received + Head(call[c].rest)))

(* The client goes away in the middle: the body cannot be parsed. *)
Disconnect(c) ==
  /\ call[c].stage = "body"
  /\ Moved(c, Answered(call[c], "invalid"))
  /\ UNCHANGED <<inFlight, index, changes>>

(* The body is parsed before the dependencies are resolved. *)
Route(c) ==
  LET r == call[c]
  IN  /\ r.stage = "routed"
      /\ Moved(c, CASE ~r.form.json -> Answered(r, "invalid")
                    [] r.form.json /\ ~r.form.key -> Answered(r, "unauthenticated")
                    [] OTHER -> Stage(r, "queue"))
      /\ UNCHANGED <<inFlight, index, changes>>

-----------------------------------------------------------------------------
(* The schemas.  A page is judged first, then the length of a text. *)

PageIsInvalid(form) ==
  /\ form.path = "search"
  /\ form.page < 1 \/ form.page_size \notin 1..Hard["page_size"]

TextIsTooLong(form) ==
  \/ form.mode # "vector" /\ Len(form.q) > Hard["chars"]
  \/ form.mode # "boolean" /\ form.semantic > Hard["chars"]

IsInvalid(form) ==
  \/ form.mode # "vector" /\ form.q = << >>
  \/ form.mode # "boolean" /\ ( \/ form.semantic = 0 \/ form.vector_fields = {}
                                \/ form.top_k \notin 1..MaxTopK )

ValidationCode(form) ==
  CASE PageIsInvalid(form) -> "pagination"
    [] ~PageIsInvalid(form) /\ TextIsTooLong(form) -> "complexity"
    [] ~PageIsInvalid(form) /\ ~TextIsTooLong(form) /\ IsInvalid(form) -> "invalid"
    [] OTHER -> "ok"

(* The bulkhead has room; the body is validated with its slots held. *)
Admit(c) ==
  LET r == call[c]
      code == ValidationCode(r.form)
  IN  /\ r.stage = "queue"
      /\ Moved(c, IF code = "ok" THEN Stage(r, "service") ELSE Answered(r, code))
      /\ UNCHANGED <<inFlight, index, changes>>

TurnAway(c) ==
  /\ call[c].stage = "queue"
  /\ Moved(c, Answered(call[c], "busy"))
  /\ UNCHANGED <<inFlight, index, changes>>

-----------------------------------------------------------------------------
(* What a request asks of the index.  A failure is named for its exception. *)

Refused(why) == [failed |-> why, body |-> NoBody]

(* build_search_dsl: the page is judged before the text. *)
SearchDsl(form) ==
  IF OutOfRange(form, Budget) THEN Refused("pagination")
  ELSE [failed |-> Built[form.q].failed,
        body |-> [query |-> Built[form.q].query, ds |-> form.ds, from |-> Offset(form),
                  size |-> form.page_size, vectors |-> {}, k |-> 0]]

(* The Boolean part of a hybrid request is built for the first hit alone. *)
HybridQuery(form) ==
  SearchDsl([form EXCEPT !.ds = "all", !.page = 1, !.page_size = 1])

(* The body of a vector or hybrid request: k hits of each vector field,    *)
(* joined with the Boolean query if there is one.                          *)
SemanticBody(form, query) ==
  [query |-> query, ds |-> form.ds, from |-> Offset(form), size |-> form.page_size,
   vectors |-> form.vector_fields, k |-> form.top_k]

-----------------------------------------------------------------------------
(* The search service.  Once its text is compiled, a request is its body. *)

Compiled(r, stage, body) ==
  [Stage(r, stage) EXCEPT !.body = body, !.form.q = << >>]

(* A semantic request is held to the budget before anything else is done. *)
SemanticRefusal(form) ==
  CASE form.semantic > Budget["chars"] -> "complexity"
    [] form.semantic <= Budget["chars"] /\ OutOfRange(form, Budget) -> "pagination"
    [] form.semantic <= Budget["chars"] /\ ~OutOfRange(form, Budget)
       /\ Offset(form) + form.page_size > form.top_k -> "pagination"
    [] OTHER -> "none"

ServeBoolean(c) ==
  LET r == call[c]
      dsl == SearchDsl(r.form)
  IN  /\ r.stage = "service" /\ r.form.path = "search" /\ r.form.mode = "boolean"
      /\ Moved(c, IF dsl.failed # "none" THEN Answered(r, dsl.failed)
                  ELSE Compiled(r, "asking", dsl.body))
      /\ UNCHANGED <<inFlight, index, changes>>

SemanticDsl(form) ==
  CASE SemanticRefusal(form) # "none" -> Refused(SemanticRefusal(form))
    [] SemanticRefusal(form) = "none" /\ form.mode = "hybrid" -> HybridQuery(form)
    [] OTHER -> Refused("none")

ServeSemantic(c) ==
  LET r == call[c]
      dsl == SemanticDsl(r.form)
  IN  /\ r.stage = "service" /\ r.form.path = "search" /\ r.form.mode # "boolean"
      /\ Moved(c, IF dsl.failed # "none" THEN Answered(r, dsl.failed)
                  ELSE Compiled(r, "vector", SemanticBody(r.form, dsl.body.query)))
      /\ UNCHANGED <<inFlight, index, changes>>

(* The vectors of the text, or the provider's failure. *)
AskVectors(c) ==
  /\ call[c].stage = "vector"
  /\ \E outcome \in {"ok", "dependency", "unavailable", "timeout"} :
       Moved(c, IF outcome = "ok" THEN Stage(call[c], "asking")
                ELSE FailedWith(call[c], outcome))
  /\ UNCHANGED <<inFlight, index, changes>>

Failures == {"dependency", "unavailable", "timeout", "unexpected"}

(* Mutant: the next page of all hits, in the window or not. *)
NextPageOfTotal(form, total) ==
  IF form.page < (total + form.page_size - 1) \div form.page_size
  THEN form.page + 1 ELSE 0

(* The next page of a result with so many hits, 0 if there is none. *)
NextPage(form, total) ==
  LET size    == form.page_size
      window  == IF form.mode = "boolean" THEN Budget["window"]
                 ELSE Min({Budget["window"], form.top_k})
      counted == IF form.mode = "boolean" THEN total ELSE Min({total, form.top_k})
      pages   == (counted + size - 1) \div size
  IN  IF form.page < Min({pages, window \div size}) THEN form.page + 1 ELSE 0

(* The index answers a search, or fails. *)
Ask(c) ==
  LET r == call[c]
  IN  /\ r.stage = "asking"
      /\ \E total \in 0..MaxTotal :
           Moved(c, Answer(r, "ok", [NoContent EXCEPT !.next_page = NextPage(r.form, total)]))
      /\ UNCHANGED <<inFlight, index, changes>>

AskFails(c) ==
  /\ call[c].stage \in {"asking", "target", "number", "locate", "better", "tied"}
  /\ \E why \in Failures : Moved(c, FailedWith(call[c], why))
  /\ UNCHANGED <<inFlight, index, changes>>

-----------------------------------------------------------------------------
(* The rank of a target.  Its text is compiled before the target is looked *)
(* up, by its identifier and then by its publication number.               *)

Ranked(r, status, rank, tied) ==
  Answer(r, "ok", [NoContent EXCEPT !.status = status, !.rank = rank, !.tied = tied])

ServeRank(c) ==
  LET r == call[c]
      dsl == SearchDsl([r.form EXCEPT !.page = 1, !.page_size = 1])
  IN  /\ r.stage = "service" /\ r.form.path = "rank"
      /\ Moved(c, IF dsl.failed # "none" THEN Answered(r, dsl.failed)
                  ELSE [Compiled(r, "target", dsl.body) EXCEPT !.rank.since = changes])
      /\ UNCHANGED <<inFlight, index, changes>>

(* The documents found under an identifier: one, several, or none. *)
Identified(r, found) ==
  IF Cardinality(found) > 1 THEN {Ranked(r, "ambiguous_target", 0, Cardinality(found))}
  ELSE { [Stage(r, "locate") EXCEPT !.rank.target = d] : d \in found }

FindById(c) ==
  LET r == call[c]
      found == Documents \cap {r.form.target}
  IN  /\ r.stage = "target"
      /\ \E next \in Identified(r, found)
                     \cup (IF found = {} THEN {Stage(r, "number")} ELSE {}) : Moved(c, next)
      /\ UNCHANGED <<inFlight, index, changes>>

FindByNumber(c) ==
  LET r == call[c]
      found == {d \in Documents : index[d].number = r.form.target}
  IN  /\ r.stage = "number"
      /\ \E next \in Identified(r, found)
                     \cup (IF found = {} THEN {Ranked(r, "target_not_found", 0, 0)} ELSE {}) :
           Moved(c, next)
      /\ UNCHANGED <<inFlight, index, changes>>

(* The target among the hits, with its key there: a score or a date. *)
FindInQuery(c) ==
  LET r == call[c]
      target == index[r.rank.target]
  IN  /\ r.stage = "locate"
      /\ Moved(c, IF target.hit THEN [Stage(r, "better") EXCEPT !.rank.key = target.key]
                  ELSE Ranked(r, "not_in_results", 0, 0))
      /\ UNCHANGED <<inFlight, index, changes>>

(* The key 0 is that of a document without a date, behind all others.      *)
Ahead(sort, other, key) ==
  CASE sort = "oldest" /\ key # 0 -> other # 0 /\ other < key
    [] sort = "oldest" /\ key = 0 -> other # 0
    [] OTHER -> other > key

Hits == {d \in Documents : index[d].hit}

CountBetter(c) ==
  LET r == call[c]
      better == {d \in Hits : Ahead(r.form.sort, index[d].key, r.rank.key)}
  IN  /\ r.stage = "better"
      /\ Moved(c, [Stage(r, "tied") EXCEPT !.rank.better = Cardinality(better)])
      /\ UNCHANGED <<inFlight, index, changes>>

(* Mutant: the target is among its own ties. *)
TiesWithTarget(r) ==
  IF r.form.sort = "relation"
  THEN Max({0, Cardinality({d \in Hits : index[d].key >= r.rank.key}) - r.rank.better})
  ELSE Cardinality({d \in Hits : index[d].key = r.rank.key})

(* By score the ties are what is left of those that score no less; by date *)
(* they are counted without the target.                                    *)
Ties(r) ==
  IF r.form.sort = "relation"
  THEN Max({0, Cardinality({d \in Hits : index[d].key >= r.rank.key}) - r.rank.better - 1})
  ELSE Cardinality({d \in Hits \ {r.rank.target} : index[d].key = r.rank.key})

CountTied(c) ==
  LET r == call[c]
  IN  /\ r.stage = "tied"
      /\ Moved(c, Ranked(r, "matched", r.rank.better + 1, Ties(r)))
      /\ UNCHANGED <<inFlight, index, changes>>

(* A document enters or leaves the hits, or its key changes (external). *)
Change(d) ==
  /\ changes < MaxChanges
  /\ \E c \in Calls : call[c].stage \in Ranking
  /\ \E hit \in BOOLEAN, key \in 0..MaxKey : index' = [index EXCEPT ![d].hit = hit, ![d].key = key]
  /\ index' # index
  /\ changes' = changes + 1
  /\ UNCHANGED <<call, inFlight>>

-----------------------------------------------------------------------------
(* The end of a request.  Its record has the code of its answer, or the    *)
(* one its status stands for.                                              *)

(* The task of the request is cancelled: nothing is sent. *)
Cancel(c) ==
  /\ call[c].stage \in Open
  /\ Moved(c, [Stage(call[c], "cancelled") EXCEPT !.form.q = << >>])
  /\ UNCHANGED <<inFlight, index, changes>>

Logged(r, stage, status, code) ==
  [Stage(r, stage) EXCEPT !.logged = [id |-> r.id, status |-> status, code |-> code]]

Recorded(r, status) ==
  IF r.response_code = "ok" /\ status >= 400 THEN DefaultCode(status) ELSE r.response_code

Finish(c) ==
  LET r == call[c]
      status == Status[r.sent.code]
  IN  /\ r.stage = "answered"
      /\ Moved(c, Logged(r, "done", status, Recorded(r, status)))
      /\ inFlight' = inFlight - 1
      /\ UNCHANGED <<index, changes>>

(* A cancelled request is recorded as failed. *)
FinishCancelled(c) ==
  LET r == call[c]
  IN  /\ r.stage = "cancelled"
      /\ Moved(c, Logged(r, "done", 500, Recorded(r, 500)))
      /\ inFlight' = inFlight - 1
      /\ UNCHANGED <<index, changes>>

(* An unexpected exception is recorded before it is answered, outside. *)
FinishBroken(c) ==
  LET r == call[c]
  IN  /\ r.stage = "broken"
      /\ Moved(c, Logged(r, "unsent", 500, "internal"))
      /\ inFlight' = inFlight - 1
      /\ UNCHANGED <<index, changes>>

SendInternal(c) ==
  LET r == call[c]
  IN  /\ r.stage = "unsent"
      /\ Moved(c, [Stage(r, "done") EXCEPT !.sent = Reply("internal", r.id, NoContent),
                                           !.response_code = "internal"])
      /\ UNCHANGED <<inFlight, index, changes>>

(* What the service does with a request once its body is there. *)
Serve(c) ==
  \/ Admit(c) \/ ServeBoolean(c) \/ ServeSemantic(c) \/ ServeRank(c)
  \/ AskVectors(c) \/ Ask(c) \/ AskFails(c)
  \/ FindById(c) \/ FindByNumber(c) \/ FindInQuery(c) \/ CountBetter(c) \/ CountTied(c)
  \/ Finish(c) \/ FinishCancelled(c) \/ FinishBroken(c) \/ SendInternal(c)

Receiving(c) == ReceiveChunk(c) \/ Disconnect(c) \/ Route(c)
Interruption(c) == TurnAway(c) \/ Cancel(c)

-----------------------------------------------------------------------------
(* Properties. *)

PageIsInReach(r) ==
  LET last == r.body.from + r.body.size
  IN  r.stage = "asking" =>
        /\ last <= Budget["window"] /\ r.body.size <= Budget["page_size"]
        /\ r.body.vectors # {} => last <= r.body.k

NextPageIsAccepted(r) ==
  LET next == [r.form EXCEPT !.page = r.sent.content.next_page]
  IN  r.sent.content.next_page # 0 =>
        /\ ~OutOfRange(next, Budget) /\ ~PageIsInvalid(next)
        /\ next.mode # "boolean" => SemanticRefusal(next) = "none"

(* A page stays in the window of the budget and in the k hits of a vector  *)
(* request, and the next page an answer offers is one the service accepts. *)
PagesStayInTheWindow ==
  \A c \in Calls : PageIsInReach(call[c]) /\ NextPageIsAccepted(call[c])

Oversized(r) == TooLarge(r.form.declared) \/ TooLarge(r.received)

(* A body is refused for its size if and only if it was declared or had    *)
(* become too large, and nothing too large is handed on                    *)
(* (QueryRequestBodyLimitMiddleware).                                      *)
BodyLimitIsExact ==
  \A c \in Calls :
    LET r == call[c]
    IN  /\ r.stage \in Open => ~Oversized(r)
        /\ r.sent.code # None => ((r.sent.code = "too_large") = Oversized(r))

(* The place of a key in a sorted result, the missing date last. *)
Place(sort, key) ==
  CASE sort = "oldest" /\ key = 0 -> MaxKey + 1
    [] sort = "oldest" /\ key # 0 -> key
    [] OTHER -> 0 - key

Before(r) ==
  {d \in Hits : Place(r.form.sort, index[d].key) < Place(r.form.sort, index[r.rank.target].key)}
Beside(r) ==
  {d \in Hits \ {r.rank.target} :
     Place(r.form.sort, index[d].key) = Place(r.form.sort, index[r.rank.target].key)}

(* The rank and the ties of a target are those of the index if it did not  *)
(* change since the request began; in any case they are counts             *)
(* (SearchService.target_rank, count_with_min_score, build_target_rank_dsl). *)
RankIsExactWhileStill ==
  \A c \in Calls :
    LET r == call[c]
        answer == r.sent.content
    IN  answer.status = "matched" =>
          /\ answer.rank >= 1 /\ answer.tied >= 0
          /\ changes = r.rank.since =>
               /\ r.rank.target \in Hits
               /\ answer.rank = 1 + Cardinality(Before(r))
               /\ answer.tied = Cardinality(Beside(r))

(* What the service records of a request is what it answered, under the    *)
(* identifier the client was given; a request that was sent nothing is     *)
(* recorded as failed, and the gauge counts those without a record         *)
(* (RequestContextMiddleware, known_error_response).                       *)
RecordsMatchAnswers ==
  /\ inFlight = Cardinality({c \in Calls : call[c].logged = NoRecord /\ call[c].id # NoId})
  /\ \A c \in Calls :
       LET r == call[c]
       IN  r.stage = "done" /\ r.id # NoId =>
             /\ r.logged.id = r.id
             /\ IF r.sent.code = None THEN r.logged.code = "internal"
                ELSE /\ r.logged.code = r.sent.code /\ r.sent.id = r.id
                     /\ r.logged.status = Status[r.sent.code]
=============================================================================
