--------------------------- MODULE McpToolsProofs ---------------------------
(***************************************************************************)
(* What TLAPS proves of McpTools and of RequestPath under it: for any      *)
(* number of requests, tools and documents, any forms, any budget within   *)
(* the limits of the code and whatever the query compiler makes of a text; *)
(* and, in a second part, of the queries that QueryDsl compiles for them.  *)
(*                                                                         *)
(* The argument.  The properties speak of answers; what makes them true    *)
(* lies earlier.  Good(r) says, stage by stage, what is known of one       *)
(* request: what was sent and recorded so far (HistoryInv), that nothing   *)
(* too large came further than the body (SizeInv), that its page was       *)
(* judged before it was asked for (Placed), and what a rank in progress    *)
(* knows of an index that did not change since it began (Aimed).  Goes     *)
(* is the step of one request; one lemma per action shows that the action  *)
(* is such a step, and GoesKeeps that such a step keeps the invariant.     *)
(* A change of the index keeps it because every rank under way began       *)
(* before it.  The tools add who holds a permit and where a result came    *)
(* from.                                                                   *)
(***************************************************************************)
EXTENDS SearchApi, FiniteSetTheorems, SequenceTheorems, WellFoundedInduction, TLAPS

\* A request that came to nothing and is not recorded yet.
Lost == {"cancelled", "broken"}

\* What was sent and recorded, and under which identifier.
HistoryInv(r) ==
  /\ r.stage = "waiting" => r.id = NoId /\ r.received = 0
  /\ r.stage \in Open \cup Lost \cup {"waiting"} =>
       r.sent = NoReply /\ r.logged = NoRecord /\ r.response_code = "ok"
  /\ r.stage \in Open \cup Lost \cup {"answered", "unsent"} => r.id # NoId
  /\ r.stage = "answered" =>
       r.sent.code = r.response_code /\ r.sent.id = r.id /\ r.logged = NoRecord
  /\ r.stage = "unsent" =>
       r.sent = NoReply /\ r.logged = [id |-> r.id, status |-> 500, code |-> "internal"]
  /\ r.stage = "done" /\ r.id = NoId => r.sent = NoReply /\ r.logged = NoRecord
  /\ r.stage = "done" /\ r.id # NoId =>
       /\ r.logged.id = r.id
       /\ r.sent.code = None => r.sent = NoReply /\ r.logged.code = "internal"
       /\ r.sent.code # None =>
            /\ r.logged.code = r.sent.code /\ r.sent.id = r.id
            /\ r.logged.status = Status[r.sent.code]

\* Only what is not too large gets past the body.
SizeInv(r) ==
  /\ r.stage \in Open \cup Lost \cup {"unsent"} => ~Oversized(r)
  /\ r.sent.code # None => ((r.sent.code = "too_large") = Oversized(r))

\* A page is judged by the schema, then by the budget, before the index is asked.
Placed(r) ==
  /\ r.stage = "service" => ValidationCode(r.form) = "ok"
  /\ r.stage \in {"vector", "asking"} =>
       /\ r.form.path = "search" /\ ~PageIsInvalid(r.form) /\ ~OutOfRange(r.form, Budget)
       /\ r.body.from = Offset(r.form) /\ r.body.size = r.form.page_size
       /\ r.form.mode = "boolean" => r.body.vectors = {}
       /\ r.form.mode # "boolean" =>
            SemanticRefusal(r.form) = "none" /\ r.body.k = r.form.top_k

\* A rank in progress, while the index is what it was when the rank began.
Aimed(r) ==
  /\ r.stage \in Ranking => r.rank.since <= changes
  /\ r.stage \in {"locate", "better", "tied"} => r.rank.target \in Documents
  /\ r.stage \in {"better", "tied"} /\ changes = r.rank.since =>
       r.rank.target \in Hits /\ r.rank.key = index[r.rank.target].key
  /\ r.stage = "tied" /\ changes = r.rank.since => r.rank.better = Cardinality(Before(r))

\* A rank that was answered.
Counted(r) ==
  r.sent.content.status = "matched" =>
    /\ r.rank.since <= changes /\ r.sent.content.rank >= 1
    /\ changes = r.rank.since =>
         /\ r.rank.target \in Hits
         /\ r.sent.content.rank = 1 + Cardinality(Before(r))
         /\ r.sent.content.tied = Cardinality(Beside(r))

Good(r) ==
  HistoryInv(r) /\ SizeInv(r) /\ Placed(r) /\ NextPageIsAccepted(r) /\ Aimed(r) /\ Counted(r)

\* So for all requests.
RequestInv == \A c \in Calls : Good(call[c])

\* The requests in flight.
Live(r) == r.logged = NoRecord /\ r.id # NoId
Gauge(r) == IF Live(r) THEN 1 ELSE 0
GaugeInv == inFlight = Cardinality({c \in Calls : Live(call[c])})

\* A step of one request: it becomes s, and no answer or record is taken back.
Goes(c, s) ==
  /\ Moved(c, s)
  /\ s \in Requests /\ Good(s)
  /\ call[c].sent.code # None => s.sent = call[c].sent
  /\ call[c].logged # NoRecord => s.logged = call[c].logged
  /\ inFlight' = inFlight + Gauge(s) - Gauge(call[c])
  /\ UNCHANGED <<index, changes>>

-----------------------------------------------------------------------------
\* The last page that starts within a window ends within it.
LEMMA PagesFit ==
  ASSUME NEW n \in Nat, NEW s \in Nat \ {0}, NEW w \in Nat, n <= w \div s
  PROVE  n * s <= w
OBVIOUS

\* A smaller window has no more pages.
LEMMA SmallerWindow ==
  ASSUME NEW s \in Nat \ {0}, NEW v \in Nat, NEW w \in Nat, v <= w
  PROVE  v \div s <= w \div s
OBVIOUS

\* A window has a number of pages.
LEMMA DivNat ==
  ASSUME NEW s \in Nat \ {0}, NEW v \in Nat
  PROVE  v \div s \in Nat
OBVIOUS

\* Every limit of the budget is positive and within that of the code.
LEMMA BudgetNat == \A l \in Limits : Budget[l] \in Nat \ {0} /\ Hard[l] \in Nat /\ Budget[l] <= Hard[l]
<1> SUFFICES ASSUME NEW l \in Limits
             PROVE  Budget[l] \in Nat \ {0} /\ Hard[l] \in Nat /\ Budget[l] <= Hard[l]
  OBVIOUS
<1>1. Budget[l] \in 1..Hard[l] /\ Hard[l] \in Nat
  BY BudgetIsWithin
<1> QED
  BY <1>1

\* A request may be at any stage.
LEMMA StageTyped ==
  ASSUME NEW r \in Requests, NEW s \in Stages
  PROVE  Stage(r, s) \in Requests
BY DEF Stage, Requests

\* A form without its text is still a form.
LEMMA FormKept ==
  ASSUME NEW f \in Forms
  PROVE  [f EXCEPT !.q = << >>] \in Forms
BY TextsAreBuilt DEF Forms

\* So is a form for another page.
LEMMA FormPaged ==
  ASSUME NEW f \in Forms, NEW page \in Int, NEW size \in Int
  PROVE  [f EXCEPT !.page = page, !.page_size = size] \in Forms
<1> DEFINE g == [f EXCEPT !.page = page]
<1>1. g \in Forms
  BY DEF Forms
<1> HIDE DEF g
<1>2. [g EXCEPT !.page_size = size] \in Forms
  BY <1>1 DEF Forms
<1> QED
  BY <1>2 DEF g

\* An answer changes nothing of a request but its stage, its answer and its text.
LEMMA AnswerTyped ==
  ASSUME NEW r \in Requests, NEW code \in Codes, NEW content \in Contents
  PROVE  /\ Answer(r, code, content) \in Requests
         /\ Answer(r, code, content).stage = "answered"
         /\ Answer(r, code, content).form = [r.form EXCEPT !.q = << >>]
         /\ Answer(r, code, content).sent = Reply(code, r.id, content)
         /\ Answer(r, code, content).received = r.received
         /\ Answer(r, code, content).rank = r.rank
         /\ Answer(r, code, content).response_code = r.response_code
         /\ Answer(r, code, content).logged = r.logged
         /\ Answer(r, code, content).id = r.id
BY FormKept DEF Answer, Stage, Requests, Reply, Replies, Stages, Ids

\* An error has a content: none.
LEMMA NoContentTyped == NoContent \in Contents
BY DEF NoContent, Contents, Statuses

\* The codes, one by one.
LEMMA CodesAre ==
  Codes = {"ok", "syntax", "invalid", "pagination", "complexity", "unauthenticated",
           "too_large", "dependency", "internal", "busy", "unavailable", "timeout"}
BY DEF Codes, Status

\* No answer is not an answer.
LEMMA NoneIsNoCode == None \notin Codes
BY CodesAre DEF None

\* A request that is still open, and nothing of its record changed but its place, its body
\* and its rank.
LEMMA OpenIsGood ==
  ASSUME NEW r \in Requests, Good(r), r.stage \in Open,
         NEW s \in Requests, s.stage \in Open \cup Lost,
         s.id = r.id, s.sent = r.sent, s.logged = r.logged, s.received = r.received,
         s.response_code = r.response_code, s.form.declared = r.form.declared
  PROVE  /\ HistoryInv(s) /\ SizeInv(s) /\ NextPageIsAccepted(s) /\ Counted(s)
         /\ Gauge(s) = Gauge(r) /\ r.sent.code = None
<1>1. r.sent = NoReply /\ r.logged = NoRecord /\ r.response_code = "ok" /\ r.id # NoId /\ ~Oversized(r)
  BY DEF Good, HistoryInv, SizeInv
<1>2. NoReply.code = None /\ NoReply.content.status = None /\ NoReply.content.next_page = 0
  BY DEF NoReply, Reply, NoContent
<1>3. ~Oversized(s)
  BY <1>1 DEF Oversized
<1>4. HistoryInv(s)
  BY <1>1 DEF HistoryInv, Open, Ranking, Lost
<1>5. SizeInv(s)
  BY <1>1, <1>2, <1>3 DEF SizeInv
<1>6. NextPageIsAccepted(s)
  BY <1>1, <1>2 DEF NextPageIsAccepted
<1>7. Counted(s)
  BY <1>1, <1>2 DEF Counted, None
<1> QED
  BY <1>1, <1>2, <1>4, <1>5, <1>6, <1>7 DEF Gauge, Live

\* An answer that is an error.
LEMMA ErrorIsGood ==
  ASSUME NEW r \in Requests, HistoryInv(r), r.stage \in Open, NEW code \in Codes \ {"ok"},
         code = "too_large" <=> Oversized(r)
  PROVE  Answered(r, code) \in Requests /\ Good(Answered(r, code))
         /\ Gauge(Answered(r, code)) = 1 /\ Gauge(r) = 1 /\ r.sent.code = None
<1> DEFINE a == Answer(r, code, NoContent)
           s == Answered(r, code)
<1>1. /\ a \in Requests /\ a.stage = "answered" /\ a.form = [r.form EXCEPT !.q = << >>]
      /\ a.sent = Reply(code, r.id, NoContent) /\ a.received = r.received /\ a.id = r.id
      /\ a.logged = r.logged
  BY AnswerTyped, NoContentTyped
<1>2. /\ s \in Requests /\ s.stage = "answered" /\ s.form = a.form /\ s.sent = a.sent
      /\ s.received = r.received /\ s.id = r.id /\ s.logged = r.logged /\ s.response_code = code
  <2> HIDE DEF a
  <2>1. s = [a EXCEPT !.response_code = code]
    BY DEF Answered, a
  <2> HIDE DEF s
  <2> QED
    BY <1>1, <2>1 DEF Requests
<1> HIDE DEF a, s
<1>3. r.logged = NoRecord /\ r.id # NoId /\ r.sent.code = None
  BY DEF HistoryInv, NoReply, Reply
<1>4. s.form.declared = r.form.declared
  BY <1>1, <1>2 DEF Requests, Forms
<1>5. /\ s.sent.code = code /\ s.sent.id = r.id /\ s.sent.content = NoContent
      /\ NoContent.next_page = 0 /\ NoContent.status = None
  BY <1>1, <1>2 DEF Reply, NoContent
<1>6. HistoryInv(s)
  BY <1>2, <1>3, <1>5 DEF HistoryInv, Open, Ranking, Lost
<1>7. SizeInv(s)
  <2>1. Oversized(s) <=> Oversized(r)
    BY <1>2, <1>4 DEF Oversized
  <2>2. (s.sent.code = "too_large") = Oversized(s)
    BY <1>5, <2>1 DEF Oversized
  <2> QED
    BY <1>2, <2>2 DEF SizeInv, Open, Ranking, Lost
<1>8. Placed(s) /\ NextPageIsAccepted(s) /\ Aimed(s) /\ Counted(s)
  BY <1>2, <1>5 DEF Placed, NextPageIsAccepted, Aimed, Counted, Ranking, None
<1> QED
  BY <1>2, <1>3, <1>6, <1>7, <1>8 DEF Good, Gauge, Live, s

\* A step that leaves a request open.
LEMMA OpenGoes ==
  ASSUME RequestTypeOK, NEW c \in Calls, Good(call[c]), call[c].stage \in Open,
         NEW s \in Requests, s.stage \in Open \cup Lost,
         s.id = call[c].id, s.sent = call[c].sent, s.logged = call[c].logged,
         s.received = call[c].received, s.response_code = call[c].response_code,
         s.form.declared = call[c].form.declared,
         Placed(s), Aimed(s), Moved(c, s), UNCHANGED <<inFlight, index, changes>>
  PROVE  Goes(c, s)
<1>1. call[c] \in Requests /\ inFlight \in Int
  BY DEF RequestTypeOK
<1>2. /\ HistoryInv(s) /\ SizeInv(s) /\ NextPageIsAccepted(s) /\ Counted(s)
      /\ Gauge(s) = Gauge(call[c]) /\ call[c].sent.code = None
  BY <1>1, OpenIsGood
<1>3. Gauge(s) \in Int
  BY DEF Gauge
<1> QED
  BY <1>1, <1>2, <1>3 DEF Goes, Good

\* A step that answers an open request with an error.
LEMMA ErrorGoes ==
  ASSUME RequestTypeOK, NEW c \in Calls, Good(call[c]), call[c].stage \in Open,
         NEW code \in Codes \ {"ok", "too_large"},
         Moved(c, Answered(call[c], code)), UNCHANGED <<inFlight, index, changes>>
  PROVE  Goes(c, Answered(call[c], code))
<1>1. call[c] \in Requests /\ inFlight \in Int
  BY DEF RequestTypeOK
<1>2. HistoryInv(call[c]) /\ ~Oversized(call[c]) /\ call[c].logged = NoRecord
  BY DEF Good, HistoryInv, SizeInv
<1>3. /\ Answered(call[c], code) \in Requests /\ Good(Answered(call[c], code))
      /\ Gauge(Answered(call[c], code)) = 1 /\ Gauge(call[c]) = 1 /\ call[c].sent.code = None
  BY <1>1, <1>2, ErrorIsGood
<1> QED
  BY <1>1, <1>2, <1>3 DEF Goes

\* A failure of something the service asked, by name.
LEMMA FailureGoes ==
  ASSUME RequestTypeOK, NEW c \in Calls, Good(call[c]), call[c].stage \in Open,
         NEW why \in Failures,
         Moved(c, FailedWith(call[c], why)), UNCHANGED <<inFlight, index, changes>>
  PROVE  Goes(c, FailedWith(call[c], why))
<1>1. call[c] \in Requests
  BY DEF RequestTypeOK
<1>2. CASE why = "unexpected"
  <2> DEFINE s == Stage(call[c], "broken")
  <2>1. FailedWith(call[c], why) = s
    BY <1>2 DEF FailedWith
  <2>2. /\ s \in Requests /\ s.stage = "broken" /\ s.id = call[c].id /\ s.sent = call[c].sent
        /\ s.logged = call[c].logged /\ s.received = call[c].received
        /\ s.response_code = call[c].response_code /\ s.form = call[c].form
    BY <1>1 DEF Stage, Requests, Stages
  <2>3. Placed(s) /\ Aimed(s)
    BY <2>2 DEF Placed, Aimed, Ranking
  <2> QED
    BY <2>1, <2>2, <2>3, OpenGoes DEF Lost
<1>3. CASE why # "unexpected"
  <2>1. FailedWith(call[c], why) = Answered(call[c], why)
    BY <1>3 DEF FailedWith
  <2>2. why \in Codes \ {"ok", "too_large"}
    BY <1>3, CodesAre DEF Failures
  <2> QED
    BY <2>1, <2>2, ErrorGoes
<1> QED
  BY <1>2, <1>3

-----------------------------------------------------------------------------
\* A request arrives with an identifier; if it declares too much it is answered.
LEMMA ArriveStep ==
  ASSUME RequestTypeOK, NEW c \in Calls, Good(call[c]),
         NEW client \in Ids \ {NoId}, NEW form \in Forms, Arrive(c, client, form)
  PROVE  \E s \in Requests : Goes(c, s)
<1> DEFINE r == [call[c] EXCEPT !.form = form]
           own == Accepted(form, client, <<"own", c>>)
           entered == [Stage(r, "body") EXCEPT !.id = own]
<1>1. call[c] \in Requests /\ inFlight \in Int /\ call[c].stage = "waiting"
  BY DEF RequestTypeOK, Arrive, Requests
<1>2. own \in Ids /\ own # NoId
  BY DEF Accepted, Ids, NoId
<1>3. /\ entered \in Requests /\ entered.stage = "body" /\ entered.id = own
      /\ entered.form = form /\ entered.sent = call[c].sent /\ entered.logged = call[c].logged
      /\ entered.received = call[c].received /\ entered.response_code = call[c].response_code
  <2> HIDE DEF own
  <2> QED
    BY <1>1, <1>2 DEF Stage, Requests, Stages, Open
<1>4. /\ Moved(c, IF TooLarge(form.declared) THEN Answered(entered, "too_large") ELSE entered)
      /\ inFlight' = inFlight + 1 /\ UNCHANGED <<index, changes>>
  BY DEF Arrive
<1> HIDE DEF r, own, entered
<1>5. /\ call[c].sent = NoReply /\ call[c].logged = NoRecord /\ call[c].response_code = "ok"
      /\ call[c].id = NoId /\ call[c].received = 0
  BY <1>1 DEF Good, HistoryInv
<1>6. Gauge(call[c]) = 0
  BY <1>5 DEF Gauge, Live
<1>7. Oversized(entered) <=> TooLarge(form.declared)
  BY <1>3, <1>5, BudgetNat DEF Oversized, TooLarge, Limits
<1>8. HistoryInv(entered)
  BY <1>2, <1>3, <1>5 DEF HistoryInv, Open, Lost, Ranking
<1>9. NoReply.code = None /\ NoReply.content.status = None /\ NoReply.content.next_page = 0
  BY DEF NoReply, Reply, NoContent
<1>10. CASE TooLarge(form.declared)
  <2> DEFINE s == Answered(entered, "too_large")
  <2>1. s \in Requests /\ Good(s) /\ Gauge(s) = 1
    BY <1>3, <1>7, <1>8, <1>10, ErrorIsGood, CodesAre DEF Open
  <2> QED
    BY <1>1, <1>4, <1>5, <1>6, <1>9, <1>10, <2>1 DEF Goes
<1>11. CASE ~TooLarge(form.declared)
  <2>1. SizeInv(entered)
    BY <1>3, <1>5, <1>7, <1>9, <1>11 DEF SizeInv
  <2>2. Placed(entered) /\ Aimed(entered) /\ NextPageIsAccepted(entered) /\ Counted(entered)
    BY <1>3, <1>5, <1>9 DEF Placed, Aimed, NextPageIsAccepted, Counted, Ranking, None
  <2>3. Good(entered) /\ Gauge(entered) = 1
    BY <1>2, <1>3, <1>5, <1>8, <2>1, <2>2 DEF Good, Gauge, Live
  <2> QED
    BY <1>1, <1>3, <1>4, <1>5, <1>6, <1>9, <1>11, <2>3 DEF Goes
<1> QED
  BY <1>10, <1>11

\* The next piece of a body and the rest of it.
LEMMA HeadAndTail ==
  ASSUME NEW q \in Seq(Nat), q # << >>
  PROVE  Head(q) \in Nat /\ Tail(q) \in Seq(Nat)
OBVIOUS

\* A piece of the body arrives; what there is of the body is compared with the limit.
LEMMA ReceiveStep ==
  ASSUME RequestTypeOK, NEW c \in Calls, Good(call[c]), ReceiveChunk(c)
  PROVE  \E s \in Requests : Goes(c, s)
<1> DEFINE r == call[c]
           over == TooLarge(r.received + Head(r.rest))
           read == [r EXCEPT !.received = @ + Head(r.rest), !.rest = Tail(@)]
<1>1. /\ r \in Requests /\ inFlight \in Int /\ r.stage = "body" /\ r.rest # << >>
      /\ Moved(c, CASE over -> Answered(read, "too_large")
                    [] ~over /\ read.rest = << >> -> Stage(read, "routed")
                    [] OTHER -> read)
      /\ UNCHANGED <<inFlight, index, changes>>
  BY DEF RequestTypeOK, ReceiveChunk, Receive, TooLarge
<1>2. r.rest \in Seq(Nat) /\ r.received \in Nat
  BY <1>1 DEF Requests
<1>3. Head(r.rest) \in Nat /\ Tail(r.rest) \in Seq(Nat)
  BY <1>1, <1>2, HeadAndTail
<1>4. /\ read \in Requests /\ read.stage = "body" /\ read.id = r.id /\ read.form = r.form
      /\ read.sent = r.sent /\ read.logged = r.logged /\ read.response_code = r.response_code
      /\ read.received = r.received + Head(r.rest)
  <2>1. ASSUME NEW n \in Nat, NEW t \in Seq(Nat)
        PROVE  [r EXCEPT !.received = n, !.rest = t] \in Requests
    BY <1>1 DEF Requests
  <2>2. r.received + Head(r.rest) \in Nat
    BY <1>2, <1>3
  <2>3. read \in Requests
    BY <1>3, <2>1, <2>2
  <2> QED
    BY <1>1, <2>3 DEF Requests
<1> HIDE DEF read
<1>5. /\ r.sent = NoReply /\ r.logged = NoRecord /\ r.response_code = "ok" /\ r.id # NoId
      /\ ~TooLarge(r.form.declared)
  BY <1>1 DEF Good, HistoryInv, SizeInv, Oversized, Open
<1>6. HistoryInv(read) /\ (Oversized(read) <=> over)
  BY <1>4, <1>5 DEF HistoryInv, Open, Lost, Ranking, Oversized
<1>7. NoReply.code = None /\ NoReply.content.status = None /\ NoReply.content.next_page = 0
  BY DEF NoReply, Reply, NoContent
<1>8. Gauge(r) = 1
  BY <1>5 DEF Gauge, Live
<1>9. CASE over
  <2> DEFINE s == Answered(read, "too_large")
  <2>1. s \in Requests /\ Good(s) /\ Gauge(s) = 1
    BY <1>4, <1>6, <1>9, ErrorIsGood, CodesAre DEF Open
  <2>2. Moved(c, s)
    BY <1>1, <1>9
  <2> QED
    BY <1>1, <1>5, <1>7, <1>8, <2>1, <2>2 DEF Goes
<1>10. ASSUME NEW s \in Requests, s.stage \in {"body", "routed"}, Moved(c, s), ~over,
              s.id = r.id, s.form = r.form, s.sent = r.sent, s.logged = r.logged,
              s.received = read.received, s.response_code = r.response_code
       PROVE  Goes(c, s)
  <2>1. HistoryInv(s) /\ SizeInv(s)
    BY <1>4, <1>5, <1>6, <1>7, <1>10
       DEF HistoryInv, SizeInv, Open, Lost, Ranking, Oversized
  <2>2. Placed(s) /\ Aimed(s) /\ NextPageIsAccepted(s) /\ Counted(s)
    BY <1>5, <1>7, <1>10 DEF Placed, Aimed, NextPageIsAccepted, Counted, Ranking, None
  <2>3. Good(s) /\ Gauge(s) = 1
    BY <1>5, <1>10, <2>1, <2>2 DEF Good, Gauge, Live
  <2> QED
    BY <1>1, <1>5, <1>7, <1>8, <1>10, <2>3 DEF Goes
<1>11. CASE ~over /\ read.rest = << >>
  <2> DEFINE s == Stage(read, "routed")
  <2>1. /\ s \in Requests /\ s.stage = "routed" /\ s.id = r.id /\ s.form = r.form
        /\ s.sent = r.sent /\ s.logged = r.logged /\ s.received = read.received
        /\ s.response_code = r.response_code
    BY <1>4 DEF Stage, Requests, Stages, Open
  <2>2. Moved(c, s)
    BY <1>1, <1>11
  <2> QED
    BY <1>10, <1>11, <2>1, <2>2
<1>12. CASE ~over /\ read.rest # << >>
  <2>1. Moved(c, read)
    BY <1>1, <1>12
  <2> QED
    BY <1>4, <1>10, <1>12, <2>1
<1> QED
  BY <1>9, <1>11, <1>12

\* Each of these answers an open request with an error that is not about its size.
LEMMA DisconnectStep ==
  ASSUME RequestTypeOK, NEW c \in Calls, Good(call[c]), Disconnect(c) \/ TurnAway(c)
  PROVE  \E s \in Requests : Goes(c, s)
<1>1. "invalid" \in Codes \ {"ok", "too_large"} /\ "busy" \in Codes \ {"ok", "too_large"}
  BY CodesAre
<1>2. call[c].stage \in Open /\ UNCHANGED <<inFlight, index, changes>>
  BY DEF Disconnect, TurnAway, Open
<1>3. PICK code \in {"invalid", "busy"} : Moved(c, Answered(call[c], code))
  BY DEF Disconnect, TurnAway
<1>4. Goes(c, Answered(call[c], code))
  BY <1>1, <1>2, <1>3, ErrorGoes
<1> QED
  BY <1>4 DEF Goes

\* The body is parsed, then the key is looked at.
LEMMA RouteStep ==
  ASSUME RequestTypeOK, NEW c \in Calls, Good(call[c]), Route(c)
  PROVE  \E s \in Requests : Goes(c, s)
<1> DEFINE r == call[c]
           q == Stage(r, "queue")
<1>1. /\ r \in Requests /\ r.stage = "routed" /\ UNCHANGED <<inFlight, index, changes>>
      /\ Moved(c, CASE ~r.form.json -> Answered(r, "invalid")
                    [] r.form.json /\ ~r.form.key -> Answered(r, "unauthenticated")
                    [] OTHER -> q)
  BY DEF RequestTypeOK, Route
<1>2. \/ \E code \in {"invalid", "unauthenticated"} : Moved(c, Answered(r, code))
      \/ Moved(c, q)
  BY <1>1
<1>3. ASSUME NEW code \in {"invalid", "unauthenticated"}, Moved(c, Answered(r, code))
      PROVE  Goes(c, Answered(r, code))
  BY <1>1, <1>3, ErrorGoes, CodesAre DEF Open
<1>4. ASSUME Moved(c, q) PROVE Goes(c, q)
  <2>1. /\ q \in Requests /\ q.stage = "queue" /\ q.id = r.id /\ q.sent = r.sent
        /\ q.logged = r.logged /\ q.received = r.received
        /\ q.response_code = r.response_code /\ q.form = r.form
    BY <1>1 DEF Stage, Requests, Stages, Open
  <2>2. Placed(q) /\ Aimed(q)
    BY <2>1 DEF Placed, Aimed, Ranking
  <2> HIDE DEF q
  <2> QED
    BY <1>1, <1>4, <2>1, <2>2, OpenGoes DEF Open
<1> QED
  BY <1>2, <1>3, <1>4 DEF Goes

\* The body is validated with the slots held.
LEMMA AdmitStep ==
  ASSUME RequestTypeOK, NEW c \in Calls, Good(call[c]), Admit(c)
  PROVE  \E s \in Requests : Goes(c, s)
<1> DEFINE r == call[c]
           code == ValidationCode(r.form)
           q == Stage(r, "service")
<1>1. /\ r \in Requests /\ r.stage = "queue" /\ UNCHANGED <<inFlight, index, changes>>
      /\ Moved(c, IF code = "ok" THEN q ELSE Answered(r, code))
  BY DEF RequestTypeOK, Admit
<1>2. code \in {"ok", "pagination", "complexity", "invalid"}
  BY DEF ValidationCode
<1>3. CASE code # "ok"
  <2>1. code \in Codes \ {"ok", "too_large"}
    BY <1>2, <1>3, CodesAre
  <2> HIDE DEF code
  <2>2. Goes(c, Answered(r, code))
    BY <1>1, <1>3, <2>1, ErrorGoes DEF Open
  <2> QED
    BY <2>2 DEF Goes
<1>4. CASE code = "ok"
  <2>1. /\ q \in Requests /\ q.stage = "service" /\ q.id = r.id /\ q.sent = r.sent
        /\ q.logged = r.logged /\ q.received = r.received
        /\ q.response_code = r.response_code /\ q.form = r.form
    BY <1>1 DEF Stage, Requests, Stages, Open
  <2>2. Placed(q) /\ Aimed(q)
    BY <1>4, <2>1 DEF Placed, Aimed, Ranking
  <2> HIDE DEF q, code
  <2>3. Goes(c, q)
    BY <1>1, <1>4, <2>1, <2>2, OpenGoes DEF Open
  <2> QED
    BY <2>3 DEF Goes
<1> QED
  BY <1>3, <1>4

-----------------------------------------------------------------------------
\* Without its text a form asks for the same page.
LEMMA FormWithoutText ==
  ASSUME NEW f \in Forms
  PROVE  LET g == [f EXCEPT !.q = << >>]
         IN  /\ g \in Forms /\ g.path = f.path /\ g.mode = f.mode /\ g.declared = f.declared
             /\ g.page = f.page /\ g.page_size = f.page_size /\ g.top_k = f.top_k
             /\ g.sort = f.sort /\ g.semantic = f.semantic
BY FormKept DEF Forms

\* What is judged of a page depends on these fields alone.
LEMMA SamePage ==
  ASSUME NEW f \in Forms, NEW g \in Forms, g.path = f.path, g.page = f.page,
         g.page_size = f.page_size, g.top_k = f.top_k, g.semantic = f.semantic
  PROVE  /\ Offset(g) = Offset(f)
         /\ OutOfRange(g, Budget) <=> OutOfRange(f, Budget)
         /\ PageIsInvalid(g) <=> PageIsInvalid(f)
         /\ SemanticRefusal(g) = SemanticRefusal(f)
BY DEF Offset, OutOfRange, PageIsInvalid, SemanticRefusal

\* A search the schema lets through asks for a page that exists.
LEMMA ValidPage ==
  ASSUME NEW f \in Forms, ValidationCode(f) = "ok", f.path = "search"
  PROVE  ~PageIsInvalid(f) /\ f.page \in Nat \ {0} /\ f.page_size \in Nat \ {0}
<1>1. ~PageIsInvalid(f)
  BY DEF ValidationCode
<1>2. f.page \in Int /\ f.page_size \in Int
  BY DEF Forms
<1>3. Hard["page_size"] \in Nat
  BY BudgetNat DEF Limits
<1> QED
  BY <1>1, <1>2, <1>3 DEF PageIsInvalid

\* Asking nothing of the index is a body.
LEMMA NoBodyTyped == NoBody \in Bodies
<1>1. "all" \in Datasets /\ {} \in SUBSET VectorFields
  BY DEF Datasets
<1>2. NoQuery \in {NoQuery} \cup {Built[text].query : text \in Texts}
  OBVIOUS
<1> QED
  BY <1>1, <1>2 DEF NoBody, Bodies

\* What is built of a Boolean request is refused or asks for the page of the form.
LEMMA SearchDslIs ==
  ASSUME NEW f \in Forms
  PROVE  LET dsl == SearchDsl(f)
         IN  /\ dsl.failed \in {"none", "pagination", "syntax", "complexity"}
             /\ dsl.body \in Bodies
             /\ dsl.failed = "none" =>
                  /\ ~OutOfRange(f, Budget) /\ dsl.body.from = Offset(f)
                  /\ dsl.body.size = f.page_size /\ dsl.body.vectors = {}
<1>1. Offset(f) \in Int /\ f.q \in Texts /\ f.page_size \in Int /\ f.ds \in Datasets
  BY DEF Offset, Forms
<1>2. Built[f.q].failed \in {"none", "syntax", "complexity"}
  BY <1>1, TextsAreBuilt
<1>3. NoBody \in Bodies
  BY NoBodyTyped
<1>4. CASE OutOfRange(f, Budget)
  BY <1>3, <1>4 DEF SearchDsl, Refused
<1>5. CASE ~OutOfRange(f, Budget)
  <2> DEFINE body == [query |-> Built[f.q].query, ds |-> f.ds, from |-> Offset(f),
                      size |-> f.page_size, vectors |-> {}, k |-> 0]
  <2>1. SearchDsl(f) = [failed |-> Built[f.q].failed, body |-> body]
    BY <1>5 DEF SearchDsl
  <2>2. body \in Bodies
    BY <1>1 DEF Bodies
  <2> QED
    BY <1>2, <1>5, <2>1, <2>2
<1> QED
  BY <1>4, <1>5

\* A compiled request has the body, and is as it was.
LEMMA CompiledTyped ==
  ASSUME NEW r \in Requests, NEW stage \in Stages, NEW body \in Bodies
  PROVE  LET s == Compiled(r, stage, body)
         IN  /\ s \in Requests /\ s.stage = stage /\ s.body = body /\ s.id = r.id
             /\ s.form = [r.form EXCEPT !.q = << >>] /\ s.sent = r.sent
             /\ s.logged = r.logged /\ s.received = r.received /\ s.rank = r.rank
             /\ s.response_code = r.response_code
BY FormKept DEF Compiled, Stage, Requests

\* A Boolean request is compiled.
LEMMA ServeBooleanStep ==
  ASSUME RequestTypeOK, NEW c \in Calls, Good(call[c]), ServeBoolean(c)
  PROVE  \E s \in Requests : Goes(c, s)
<1> DEFINE r == call[c]
           dsl == SearchDsl(r.form)
           s == Compiled(r, "asking", dsl.body)
<1>1. /\ r \in Requests /\ r.stage = "service" /\ UNCHANGED <<inFlight, index, changes>>
      /\ r.form.path = "search" /\ r.form.mode = "boolean"
      /\ Moved(c, IF dsl.failed # "none" THEN Answered(r, dsl.failed) ELSE s)
  BY DEF RequestTypeOK, ServeBoolean
<1>2. r.form \in Forms /\ ValidationCode(r.form) = "ok"
  BY <1>1 DEF Requests, Good, Placed
<1>3. /\ dsl.failed \in {"none", "pagination", "syntax", "complexity"} /\ dsl.body \in Bodies
      /\ dsl.failed = "none" => /\ ~OutOfRange(r.form, Budget) /\ dsl.body.from = Offset(r.form)
                                /\ dsl.body.size = r.form.page_size /\ dsl.body.vectors = {}
  BY <1>2, SearchDslIs
<1> HIDE DEF dsl
<1>4. CASE dsl.failed # "none"
  <2>1. dsl.failed \in Codes \ {"ok", "too_large"}
    BY <1>3, <1>4, CodesAre
  <2>2. Goes(c, Answered(r, dsl.failed))
    BY <1>1, <1>4, <2>1, ErrorGoes DEF Open
  <2> QED
    BY <2>2 DEF Goes
<1>5. CASE dsl.failed = "none"
  <2> DEFINE g == [r.form EXCEPT !.q = << >>]
  <2>1. /\ s \in Requests /\ s.stage = "asking" /\ s.body = dsl.body /\ s.form = g
        /\ s.id = r.id /\ s.sent = r.sent /\ s.logged = r.logged /\ s.received = r.received
        /\ s.response_code = r.response_code
    <3>1. "asking" \in Stages
      BY DEF Stages, Open
    <3> QED
      BY <1>1, <1>3, <3>1, CompiledTyped
  <2>2. /\ g \in Forms /\ g.path = r.form.path /\ g.mode = r.form.mode
        /\ g.declared = r.form.declared /\ g.page = r.form.page /\ g.page_size = r.form.page_size
        /\ g.top_k = r.form.top_k /\ g.semantic = r.form.semantic
    BY <1>2, FormWithoutText
  <2> HIDE DEF g, s
  <2>3. /\ Offset(g) = Offset(r.form) /\ (OutOfRange(g, Budget) <=> OutOfRange(r.form, Budget))
        /\ (PageIsInvalid(g) <=> PageIsInvalid(r.form))
    BY <1>2, <2>2, SamePage
  <2>4. ~PageIsInvalid(r.form)
    BY <1>1, <1>2, ValidPage
  <2>5. Placed(s)
    BY <1>1, <1>3, <1>5, <2>1, <2>2, <2>3, <2>4 DEF Placed
  <2>6. Aimed(s)
    BY <2>1 DEF Aimed, Ranking
  <2>7. Moved(c, s)
    BY <1>1, <1>5
  <2>8. Goes(c, s)
    BY <1>1, <2>1, <2>2, <2>5, <2>6, <2>7, OpenGoes DEF Open
  <2> QED
    BY <2>1, <2>8
<1> QED
  BY <1>4, <1>5

\* A semantic request is refused or within the budget.
LEMMA SemanticDslIs ==
  ASSUME NEW f \in Forms
  PROVE  LET dsl == SemanticDsl(f)
         IN  /\ dsl.failed \in {"none", "pagination", "syntax", "complexity"}
             /\ dsl.body \in Bodies
             /\ dsl.failed = "none" => SemanticRefusal(f) = "none" /\ ~OutOfRange(f, Budget)
<1>1. SemanticRefusal(f) \in {"none", "pagination", "complexity"}
  BY DEF SemanticRefusal
<1>2. SemanticRefusal(f) = "none" => ~OutOfRange(f, Budget)
  <2>1. f.semantic \in Nat /\ Budget["chars"] \in Nat
    BY BudgetNat DEF Forms, Limits
  <2> QED
    BY <2>1 DEF SemanticRefusal
<1>3. NoBody \in Bodies
  BY NoBodyTyped
<1>4. CASE SemanticRefusal(f) # "none"
  BY <1>1, <1>3, <1>4 DEF SemanticDsl, Refused
<1>5. CASE SemanticRefusal(f) = "none" /\ f.mode = "hybrid"
  <2>1. [f EXCEPT !.ds = "all", !.page = 1, !.page_size = 1] \in Forms
    <3> DEFINE g == [f EXCEPT !.ds = "all"]
    <3>1. g \in Forms
      BY DEF Forms, Datasets
    <3> HIDE DEF g
    <3>2. 1 \in Int
      OBVIOUS
    <3>3. [g EXCEPT !.page = 1, !.page_size = 1] \in Forms
      BY <3>1, <3>2, FormPaged, Zenon
    <3> QED
      BY <3>3 DEF g
  <2>2. SemanticDsl(f) = SearchDsl([f EXCEPT !.ds = "all", !.page = 1, !.page_size = 1])
    BY <1>5 DEF SemanticDsl, HybridQuery
  <2> QED
    BY <1>2, <1>5, <2>1, <2>2, SearchDslIs
<1>6. CASE SemanticRefusal(f) = "none" /\ f.mode # "hybrid"
  <2>1. SemanticDsl(f) = [failed |-> "none", body |-> NoBody]
    BY <1>6 DEF SemanticDsl, Refused
  <2> QED
    BY <1>2, <1>3, <1>6, <2>1
<1> QED
  BY <1>4, <1>5, <1>6

\* A vector or hybrid request is compiled.
LEMMA ServeSemanticStep ==
  ASSUME RequestTypeOK, NEW c \in Calls, Good(call[c]), ServeSemantic(c)
  PROVE  \E s \in Requests : Goes(c, s)
<1> DEFINE r == call[c]
           dsl == SemanticDsl(r.form)
           body == SemanticBody(r.form, dsl.body.query)
           s == Compiled(r, "vector", body)
<1>1. /\ r \in Requests /\ r.stage = "service" /\ UNCHANGED <<inFlight, index, changes>>
      /\ r.form.path = "search" /\ r.form.mode # "boolean"
      /\ Moved(c, IF dsl.failed # "none" THEN Answered(r, dsl.failed) ELSE s)
  BY DEF RequestTypeOK, ServeSemantic
<1>2. r.form \in Forms /\ ValidationCode(r.form) = "ok"
  BY <1>1 DEF Requests, Good, Placed
<1>3. /\ dsl.failed \in {"none", "pagination", "syntax", "complexity"} /\ dsl.body \in Bodies
      /\ dsl.failed = "none" =>
            SemanticRefusal(r.form) = "none" /\ ~OutOfRange(r.form, Budget)
  BY <1>2, SemanticDslIs
<1> HIDE DEF dsl
<1>4. CASE dsl.failed # "none"
  <2>1. dsl.failed \in Codes \ {"ok", "too_large"}
    BY <1>3, <1>4, CodesAre
  <2>2. Goes(c, Answered(r, dsl.failed))
    BY <1>1, <1>4, <2>1, ErrorGoes DEF Open
  <2> QED
    BY <2>2 DEF Goes
<1>5. CASE dsl.failed = "none"
  <2> DEFINE g == [r.form EXCEPT !.q = << >>]
  <2>1. /\ body \in Bodies /\ body.from = Offset(r.form) /\ body.size = r.form.page_size
        /\ body.k = r.form.top_k
    <3>1. dsl.body.query \in {NoQuery} \cup {Built[text].query : text \in Texts}
      BY <1>3 DEF Bodies
    <3>2. /\ Offset(r.form) \in Int /\ r.form.page_size \in Int /\ r.form.ds \in Datasets
          /\ r.form.vector_fields \in SUBSET VectorFields /\ r.form.top_k \in Int
      BY <1>2 DEF Forms, Offset
    <3> QED
      BY <3>1, <3>2 DEF SemanticBody, Bodies
  <2> HIDE DEF body
  <2>2. /\ s \in Requests /\ s.stage = "vector" /\ s.body = body /\ s.form = g
        /\ s.id = r.id /\ s.sent = r.sent /\ s.logged = r.logged /\ s.received = r.received
        /\ s.response_code = r.response_code
    <3>1. "vector" \in Stages
      BY DEF Stages, Open
    <3> QED
      BY <1>1, <2>1, <3>1, CompiledTyped
  <2>3. /\ g \in Forms /\ g.path = r.form.path /\ g.mode = r.form.mode
        /\ g.declared = r.form.declared /\ g.page = r.form.page /\ g.page_size = r.form.page_size
        /\ g.top_k = r.form.top_k /\ g.semantic = r.form.semantic
    BY <1>2, FormWithoutText
  <2> HIDE DEF g, s
  <2>4. /\ Offset(g) = Offset(r.form) /\ (OutOfRange(g, Budget) <=> OutOfRange(r.form, Budget))
        /\ (PageIsInvalid(g) <=> PageIsInvalid(r.form))
        /\ SemanticRefusal(g) = SemanticRefusal(r.form)
    BY <1>2, <2>3, SamePage
  <2>5. ~PageIsInvalid(r.form)
    BY <1>1, <1>2, ValidPage
  <2>6. Placed(s)
    BY <1>1, <1>3, <1>5, <2>1, <2>2, <2>3, <2>4, <2>5 DEF Placed
  <2>7. Aimed(s)
    BY <2>2 DEF Aimed, Ranking
  <2>8. Moved(c, s)
    BY <1>1, <1>5
  <2>9. Goes(c, s)
    BY <1>1, <2>2, <2>3, <2>6, <2>7, <2>8, OpenGoes DEF Open
  <2> QED
    BY <2>2, <2>9
<1> QED
  BY <1>4, <1>5

\* The vectors of its text come or fail.
LEMMA AskVectorsStep ==
  ASSUME RequestTypeOK, NEW c \in Calls, Good(call[c]), AskVectors(c)
  PROVE  \E s \in Requests : Goes(c, s)
<1> DEFINE r == call[c]
           s == Stage(r, "asking")
<1>1. r \in Requests /\ r.stage = "vector" /\ UNCHANGED <<inFlight, index, changes>>
  BY DEF RequestTypeOK, AskVectors
<1>2. PICK outcome \in {"ok", "dependency", "unavailable", "timeout"} :
        Moved(c, IF outcome = "ok" THEN s ELSE FailedWith(r, outcome))
  BY DEF AskVectors
<1>3. CASE outcome = "ok"
  <2>1. /\ s \in Requests /\ s.stage = "asking" /\ s.id = r.id /\ s.sent = r.sent
        /\ s.logged = r.logged /\ s.received = r.received /\ s.body = r.body
        /\ s.response_code = r.response_code /\ s.form = r.form
    BY <1>1 DEF Stage, Requests, Stages, Open
  <2>2. Placed(s) /\ Aimed(s)
    BY <1>1, <2>1 DEF Good, Placed, Aimed, Ranking
  <2>3. Moved(c, s)
    BY <1>2, <1>3
  <2> HIDE DEF s
  <2>4. Goes(c, s)
    BY <1>1, <2>1, <2>2, <2>3, OpenGoes DEF Open
  <2> QED
    BY <2>1, <2>4
<1>4. CASE outcome # "ok"
  <2>1. Goes(c, FailedWith(r, outcome))
    BY <1>1, <1>2, <1>4, FailureGoes DEF Open, Failures
  <2> QED
    BY <2>1 DEF Goes
<1> QED
  BY <1>3, <1>4

\* The index fails.
LEMMA AskFailsStep ==
  ASSUME RequestTypeOK, NEW c \in Calls, Good(call[c]), AskFails(c)
  PROVE  \E s \in Requests : Goes(c, s)
<1>1. call[c].stage \in Open /\ UNCHANGED <<inFlight, index, changes>>
  BY DEF AskFails, Open, Ranking
<1>2. PICK why \in Failures : Moved(c, FailedWith(call[c], why))
  BY DEF AskFails
<1>3. Goes(c, FailedWith(call[c], why))
  BY <1>1, <1>2, FailureGoes
<1> QED
  BY <1>3 DEF Goes

\* The task is cancelled.
LEMMA CancelStep ==
  ASSUME RequestTypeOK, NEW c \in Calls, Good(call[c]), Cancel(c)
  PROVE  \E s \in Requests : Goes(c, s)
<1> DEFINE r == call[c]
           s == [Stage(r, "cancelled") EXCEPT !.form.q = << >>]
<1>1. /\ r \in Requests /\ r.stage \in Open /\ UNCHANGED <<inFlight, index, changes>>
      /\ Moved(c, s) /\ r.form \in Forms
  BY DEF RequestTypeOK, Cancel, Requests
<1>2. /\ s \in Requests /\ s.stage = "cancelled" /\ s.form = [r.form EXCEPT !.q = << >>]
      /\ s.id = r.id /\ s.sent = r.sent /\ s.logged = r.logged /\ s.received = r.received
      /\ s.response_code = r.response_code
  BY <1>1, FormKept DEF Stage, Requests, Stages
<1>3. s.form.declared = r.form.declared
  BY <1>1, <1>2, FormWithoutText
<1> HIDE DEF s
<1>4. Placed(s) /\ Aimed(s)
  BY <1>2 DEF Placed, Aimed, Ranking
<1>5. Goes(c, s)
  BY <1>1, <1>2, <1>3, <1>4, OpenGoes DEF Lost
<1> QED
  BY <1>2, <1>5

-----------------------------------------------------------------------------
\* An answer that is not an error, with what it says of a page or a rank.
LEMMA OkGoes ==
  ASSUME RequestTypeOK, NEW c \in Calls, Good(call[c]), call[c].stage \in Open,
         NEW content \in Contents, NEW s, s = Answer(call[c], "ok", content),
         NextPageIsAccepted(s), Counted(s), Moved(c, s), UNCHANGED <<inFlight, index, changes>>
  PROVE  Goes(c, s)
<1> DEFINE r == call[c]
<1>1. r \in Requests /\ inFlight \in Int /\ "ok" \in Codes
  BY CodesAre DEF RequestTypeOK
<1>2. /\ s \in Requests /\ s.stage = "answered" /\ s.form = [r.form EXCEPT !.q = << >>]
      /\ s.sent = Reply("ok", r.id, content) /\ s.received = r.received
      /\ s.response_code = r.response_code /\ s.logged = r.logged /\ s.id = r.id
  BY <1>1, AnswerTyped
<1>3. /\ r.sent = NoReply /\ r.logged = NoRecord /\ r.response_code = "ok" /\ r.id # NoId
      /\ ~Oversized(r) /\ r.sent.code = None
  BY DEF Good, HistoryInv, SizeInv, NoReply, Reply
<1>4. s.sent.code = "ok" /\ s.sent.id = r.id
  BY <1>2 DEF Reply
<1>5. HistoryInv(s)
  BY <1>2, <1>3, <1>4 DEF HistoryInv, Open, Ranking, Lost
<1>6. SizeInv(s)
  <2>1. s.form.declared = r.form.declared
    BY <1>1, <1>2 DEF Requests, Forms
  <2>2. ~Oversized(s)
    BY <1>2, <1>3, <2>1 DEF Oversized
  <2>3. (s.sent.code = "too_large") = Oversized(s)
    BY <1>4, <2>2 DEF Oversized
  <2> QED
    BY <1>2, <2>3 DEF SizeInv, Open, Ranking, Lost
<1>7. Placed(s) /\ Aimed(s)
  BY <1>2 DEF Placed, Aimed, Ranking
<1>8. Good(s) /\ Gauge(s) = 1 /\ Gauge(r) = 1
  BY <1>2, <1>3, <1>5, <1>6, <1>7 DEF Good, Gauge, Live
<1> QED
  BY <1>1, <1>2, <1>3, <1>8 DEF Goes

\* The smaller of two numbers.
LEMMA MinOfTwo ==
  ASSUME NEW a \in Int, NEW b \in Int
  PROVE  Min({a, b}) \in {a, b} /\ Min({a, b}) <= a /\ Min({a, b}) <= b
<1>1. \E x \in {a, b} : \A y \in {a, b} : x <= y
  <2>1. CASE a <= b
    BY <2>1
  <2>2. CASE b <= a
    BY <2>2
  <2> QED
    BY <2>1, <2>2
<1> QED
  BY <1>1 DEF Min

\* The larger of two numbers.
LEMMA MaxOfTwo ==
  ASSUME NEW a \in Int, NEW b \in Int
  PROVE  Max({a, b}) \in {a, b} /\ Max({a, b}) >= a /\ Max({a, b}) >= b
<1>1. \E x \in {a, b} : \A y \in {a, b} : x >= y
  <2>1. CASE a <= b
    BY <2>1
  <2>2. CASE b <= a
    BY <2>2
  <2> QED
    BY <2>1, <2>2
<1> QED
  BY <1>1 DEF Max

\* The page after one within reach is within reach, if there is one at all.
LEMMA NextPageFits ==
  ASSUME NEW f \in Forms, f.path = "search", ~PageIsInvalid(f), ~OutOfRange(f, Budget),
         f.mode # "boolean" => SemanticRefusal(f) = "none", NEW total \in Nat
  PROVE  /\ NextPage(f, total) \in Nat
         /\ NextPage(f, total) # 0 =>
              /\ NextPage(f, total) >= 1
              /\ NextPage(f, total) <= Budget["window"] \div f.page_size
              /\ f.mode # "boolean" => NextPage(f, total) * f.page_size <= f.top_k
<1> DEFINE size == f.page_size
           window == IF f.mode = "boolean" THEN Budget["window"]
                     ELSE Min({Budget["window"], f.top_k})
           counted == IF f.mode = "boolean" THEN total ELSE Min({total, f.top_k})
           pages == (counted + size - 1) \div size
           last == Min({pages, window \div size})
<1>1. NextPage(f, total) = IF f.page < last THEN f.page + 1 ELSE 0
  BY DEF NextPage
<1>2. f.page \in Int /\ f.page_size \in Int /\ f.top_k \in Int /\ f.semantic \in Nat
  BY DEF Forms
<1>3. Budget["window"] \in Nat /\ Hard["page_size"] \in Nat /\ Budget["chars"] \in Nat
  BY BudgetNat DEF Limits
<1>4. size \in Nat \ {0} /\ f.page \in Nat \ {0}
  BY <1>2, <1>3 DEF PageIsInvalid
<1>5. ASSUME f.mode # "boolean" PROVE f.top_k \in Nat
  <2>1. Offset(f) + size <= f.top_k
    BY <1>2, <1>3, <1>5 DEF SemanticRefusal, Offset
  <2>2. Offset(f) \in Nat
    BY <1>4 DEF Offset
  <2> QED
    BY <1>2, <1>4, <2>1, <2>2
<1>6. /\ window \in Nat /\ window <= Budget["window"]
      /\ f.mode # "boolean" => window <= f.top_k
  <2>1. CASE f.mode = "boolean"
    BY <1>3, <2>1
  <2>2. CASE f.mode # "boolean"
    <3>1. f.top_k \in Nat /\ window = Min({Budget["window"], f.top_k})
      BY <1>5, <2>2
    <3>2. /\ Min({Budget["window"], f.top_k}) \in {Budget["window"], f.top_k}
          /\ Min({Budget["window"], f.top_k}) <= Budget["window"]
          /\ Min({Budget["window"], f.top_k}) <= f.top_k
      <4>1. Budget["window"] \in Int /\ f.top_k \in Int
        BY <1>2, <1>3
      <4> QED
        BY <4>1, MinOfTwo, Zenon
    <3> QED
      BY <1>3, <3>1, <3>2
  <2> QED
    BY <2>1, <2>2
<1>7. counted \in Int
  <2>1. CASE f.mode = "boolean"
    BY <2>1
  <2>2. CASE f.mode # "boolean"
    <3>1. Min({total, f.top_k}) \in {total, f.top_k}
      <4>1. total \in Int /\ f.top_k \in Int
        BY <1>2
      <4> QED
        BY <4>1, MinOfTwo, Zenon
    <3> QED
      BY <1>2, <2>2, <3>1
  <2> QED
    BY <2>1, <2>2
<1> HIDE DEF window, counted
<1>8. pages \in Int
  BY <1>4, <1>7
<1>9. window \div size \in Nat /\ window \div size <= Budget["window"] \div size
  BY <1>3, <1>4, <1>6, DivNat, SmallerWindow
<1> HIDE DEF pages
<1>10. last \in Int /\ last <= window \div size
  <2> DEFINE most == window \div size
  <2>1. most \in Int
    BY <1>9
  <2> HIDE DEF most
  <2>2. Min({pages, most}) \in {pages, most} /\ Min({pages, most}) <= most
    BY <1>8, <2>1, MinOfTwo, Zenon
  <2> QED
    BY <1>8, <2>1, <2>2 DEF most
<1> HIDE DEF last, size
<1>11. CASE f.page < last
  <2>1. NextPage(f, total) = f.page + 1 /\ f.page + 1 \in Nat
    BY <1>1, <1>4, <1>11
  <2>2. f.page + 1 <= window \div size
    BY <1>4, <1>9, <1>10, <1>11
  <2>3. (f.page + 1) * size <= window
    BY <1>4, <1>6, <2>1, <2>2, PagesFit
  <2>4. f.page + 1 <= Budget["window"] \div size
    <3>1. Budget["window"] \div size \in Int
      BY <1>3, <1>4, DivNat
    <3> QED
      BY <1>9, <2>1, <2>2, <3>1
  <2>5. ASSUME f.mode # "boolean" PROVE (f.page + 1) * size <= f.top_k
    <3>1. (f.page + 1) * size \in Int /\ window <= f.top_k
      BY <1>4, <1>6, <2>1, <2>5
    <3> QED
      BY <1>2, <1>6, <2>3, <3>1
  <2> QED
    BY <1>4, <2>1, <2>4, <2>5 DEF size
<1>12. CASE ~(f.page < last)
  BY <1>1, <1>12
<1> QED
  BY <1>11, <1>12

\* So the service accepts it.
LEMMA NextPageAccepted ==
  ASSUME NEW f \in Forms, f.path = "search", ~PageIsInvalid(f), ~OutOfRange(f, Budget),
         f.mode # "boolean" => SemanticRefusal(f) = "none", NEW total \in Nat,
         NEW g \in Forms, g.path = f.path, g.mode = f.mode, g.page_size = f.page_size,
         g.top_k = f.top_k, g.semantic = f.semantic,
         g.page = NextPage(f, total), g.page # 0
  PROVE  /\ ~OutOfRange(g, Budget) /\ ~PageIsInvalid(g)
         /\ g.mode # "boolean" => SemanticRefusal(g) = "none"
<1>1. f.page \in Int /\ f.page_size \in Int /\ f.top_k \in Int /\ f.semantic \in Nat
  BY DEF Forms
<1>2. /\ g.page \in Nat /\ g.page >= 1 /\ g.page <= Budget["window"] \div f.page_size
      /\ f.mode # "boolean" => g.page * f.page_size <= f.top_k
  BY NextPageFits
<1>3. Budget["window"] \div f.page_size = MaxAccessiblePage(g.page_size, Budget)
  BY DEF MaxAccessiblePage
<1>4. /\ Budget["window"] \in Nat /\ Hard["page_size"] \in Nat /\ Budget["chars"] \in Nat
      /\ Budget["page_size"] \in Nat
  BY BudgetNat DEF Limits
<1>5. f.page_size >= 1 /\ f.page_size <= Budget["page_size"] /\ f.page_size \in 1..Hard["page_size"]
  BY <1>1, <1>4 DEF PageIsInvalid, OutOfRange
<1>6. ~OutOfRange(g, Budget)
  <2>1. Budget["window"] \div f.page_size \in Nat
    BY <1>1, <1>4, <1>5, DivNat
  <2> QED
    BY <1>1, <1>2, <1>3, <1>4, <1>5, <2>1 DEF OutOfRange
<1>7. ~PageIsInvalid(g)
  BY <1>2, <1>5 DEF PageIsInvalid
<1>8. ASSUME g.mode # "boolean" PROVE SemanticRefusal(g) = "none"
  <2>1. f.semantic <= Budget["chars"]
    BY <1>1, <1>4, <1>8 DEF SemanticRefusal
  <2>2. Offset(g) + g.page_size = g.page * f.page_size
    BY <1>1, <1>2 DEF Offset
  <2>3. g.page * f.page_size \in Int /\ g.page * f.page_size <= f.top_k
    BY <1>1, <1>2, <1>8
  <2> QED
    BY <1>1, <1>4, <1>6, <2>1, <2>2, <2>3 DEF SemanticRefusal
<1> QED
  BY <1>6, <1>7, <1>8

\* The index answers a search.
LEMMA AskStep ==
  ASSUME RequestTypeOK, NEW c \in Calls, Good(call[c]), Ask(c)
  PROVE  \E s \in Requests : Goes(c, s)
<1> DEFINE r == call[c]
<1>1. r \in Requests /\ r.stage = "asking" /\ UNCHANGED <<inFlight, index, changes>>
  BY DEF RequestTypeOK, Ask
<1>2. PICK total \in 0..MaxTotal :
        Moved(c, Answer(r, "ok", [NoContent EXCEPT !.next_page = NextPage(r.form, total)]))
  BY DEF Ask
<1>3. total \in Nat
  BY RequestBounds
<1>4. /\ r.form \in Forms /\ r.form.path = "search" /\ ~PageIsInvalid(r.form)
      /\ ~OutOfRange(r.form, Budget)
      /\ r.form.mode # "boolean" => SemanticRefusal(r.form) = "none"
  BY <1>1 DEF Requests, Good, Placed
<1> DEFINE n == NextPage(r.form, total)
           content == [NoContent EXCEPT !.next_page = n]
           s == Answer(r, "ok", content)
<1>5. n \in Nat
  BY <1>3, <1>4, NextPageFits
<1> HIDE DEF n
<1>6. content \in Contents /\ content.next_page = n /\ content.status = None
  BY <1>5 DEF NoContent, Contents, Statuses
<1> HIDE DEF content
<1>7. s \in Requests /\ s.form = [r.form EXCEPT !.q = << >>] /\ s.sent.content = content
  <2>1. "ok" \in Codes
    BY CodesAre
  <2>2. /\ s \in Requests /\ s.form = [r.form EXCEPT !.q = << >>]
        /\ s.sent = Reply("ok", r.id, content)
    BY <1>1, <1>6, <2>1, AnswerTyped
  <2> QED
    BY <2>2 DEF Reply
<1> HIDE DEF s
<1>8. NextPageIsAccepted(s)
  <2> DEFINE next == [s.form EXCEPT !.page = n]
  <2>1. /\ next \in Forms /\ next.path = r.form.path /\ next.mode = r.form.mode
        /\ next.page_size = r.form.page_size /\ next.top_k = r.form.top_k
        /\ next.semantic = r.form.semantic /\ next.page = n
    <3>1. /\ s.form \in Forms /\ s.form.path = r.form.path /\ s.form.mode = r.form.mode
          /\ s.form.page_size = r.form.page_size /\ s.form.top_k = r.form.top_k
          /\ s.form.semantic = r.form.semantic
      BY <1>4, <1>7, FormWithoutText
    <3> DEFINE f == s.form
    <3>2. f \in Forms
      BY <3>1
    <3> HIDE DEF f
    <3>3. ASSUME NEW m \in Int
          PROVE  /\ [f EXCEPT !.page = m] \in Forms /\ [f EXCEPT !.page = m].path = f.path
                 /\ [f EXCEPT !.page = m].mode = f.mode /\ [f EXCEPT !.page = m].page = m
                 /\ [f EXCEPT !.page = m].page_size = f.page_size
                 /\ [f EXCEPT !.page = m].top_k = f.top_k
                 /\ [f EXCEPT !.page = m].semantic = f.semantic
      BY <3>2 DEF Forms
    <3>4. n \in Int
      BY <1>5
    <3> QED
      BY <3>1, <3>3, <3>4 DEF f
  <2> HIDE DEF next
  <2>2. ASSUME n # 0
        PROVE  /\ ~OutOfRange(next, Budget) /\ ~PageIsInvalid(next)
               /\ next.mode # "boolean" => SemanticRefusal(next) = "none"
    BY <1>3, <1>4, <2>1, <2>2, NextPageAccepted DEF n
  <2> QED
    BY <1>6, <1>7, <2>2 DEF NextPageIsAccepted, next
<1>9. Counted(s)
  BY <1>6, <1>7 DEF Counted, None
<1>10. Moved(c, s)
  BY <1>2 DEF s, content, n
<1>11. s = Answer(r, "ok", content)
  BY DEF s
<1>12. Goes(c, s)
  BY <1>1, <1>6, <1>8, <1>9, <1>10, <1>11, OkGoes DEF Open
<1> QED
  BY <1>7, <1>12

-----------------------------------------------------------------------------
\* A rank begins; it remembers when.
LEMMA ServeRankStep ==
  ASSUME RequestTypeOK, NEW c \in Calls, Good(call[c]), ServeRank(c)
  PROVE  \E s \in Requests : Goes(c, s)
<1> DEFINE r == call[c]
           f == [r.form EXCEPT !.page = 1, !.page_size = 1]
           dsl == SearchDsl(f)
           t == Compiled(r, "target", dsl.body)
           s == [t EXCEPT !.rank.since = changes]
<1>1. /\ r \in Requests /\ r.stage = "service" /\ UNCHANGED <<inFlight, index, changes>>
      /\ Moved(c, IF dsl.failed # "none" THEN Answered(r, dsl.failed) ELSE s)
      /\ changes \in 0..MaxChanges
  BY DEF RequestTypeOK, ServeRank
<1>2. r.form \in Forms /\ r.rank \in Ranks
  BY <1>1 DEF Requests
<1>3. f \in Forms
  <2>1. 1 \in Int
    OBVIOUS
  <2> QED
    BY <1>2, <2>1, FormPaged, Zenon
<1> HIDE DEF f
<1>4. dsl.failed \in {"none", "pagination", "syntax", "complexity"} /\ dsl.body \in Bodies
  BY <1>3, SearchDslIs
<1> HIDE DEF dsl
<1>5. CASE dsl.failed # "none"
  <2>1. dsl.failed \in Codes \ {"ok", "too_large"}
    BY <1>4, <1>5, CodesAre
  <2>2. Goes(c, Answered(r, dsl.failed))
    BY <1>1, <1>5, <2>1, ErrorGoes DEF Open
  <2> QED
    BY <2>2 DEF Goes
<1>6. CASE dsl.failed = "none"
  <2>1. /\ t \in Requests /\ t.stage = "target" /\ t.form = [r.form EXCEPT !.q = << >>]
        /\ t.id = r.id /\ t.sent = r.sent /\ t.logged = r.logged /\ t.received = r.received
        /\ t.response_code = r.response_code
    <3>1. "target" \in Stages
      BY DEF Stages, Open, Ranking
    <3> QED
      BY <1>1, <1>4, <3>1, CompiledTyped
  <2> HIDE DEF t
  <2>2. /\ s \in Requests /\ s.stage = "target" /\ s.form = t.form /\ s.id = r.id
        /\ s.sent = r.sent /\ s.logged = r.logged /\ s.received = r.received
        /\ s.response_code = r.response_code /\ s.rank.since = changes
    <3>1. t.rank \in Ranks
      BY <2>1 DEF Requests
    <3>2. [t.rank EXCEPT !.since = changes] \in Ranks
      BY <1>1, <3>1 DEF Ranks
    <3>3. [t.rank EXCEPT !.since = changes].since = changes
      BY <3>1 DEF Ranks
    <3>4. s = [t EXCEPT !.rank = [t.rank EXCEPT !.since = changes]]
      OBVIOUS
    <3> DEFINE k == [t.rank EXCEPT !.since = changes]
    <3> HIDE DEF k, s
    <3> QED
      BY <2>1, <3>2, <3>3, <3>4 DEF Requests, k
  <2> HIDE DEF s
  <2>3. s.form.declared = r.form.declared
    BY <1>2, <2>1, <2>2, FormWithoutText
  <2>4. Placed(s) /\ Aimed(s)
    <3>1. changes <= changes
      BY <1>1
    <3> QED
      BY <2>2, <3>1 DEF Placed, Aimed, Ranking
  <2>5. Moved(c, s)
    BY <1>1, <1>6 DEF s
  <2>6. Goes(c, s)
    BY <1>1, <2>2, <2>3, <2>4, <2>5, OpenGoes DEF Open, Ranking
  <2> QED
    BY <2>2, <2>6
<1> QED
  BY <1>5, <1>6

\* Documents can be counted.
LEMMA SubsetsAreFinite ==
  ASSUME NEW S \in SUBSET Documents
  PROVE  IsFiniteSet(S) /\ Cardinality(S) \in Nat
BY RequestBounds, FS_Subset, FS_CardinalityType

\* The answer to a rank in progress.
LEMMA RankedGoes ==
  ASSUME RequestTypeOK, NEW c \in Calls, Good(call[c]), call[c].stage \in Ranking,
         NEW status \in Statuses, NEW rank \in Nat, NEW tied \in Nat,
         Moved(c, Ranked(call[c], status, rank, tied)), UNCHANGED <<inFlight, index, changes>>,
         status = "matched" =>
           /\ rank >= 1
           /\ changes = call[c].rank.since =>
                /\ call[c].rank.target \in Hits
                /\ rank = 1 + Cardinality(Before(call[c]))
                /\ tied = Cardinality(Beside(call[c]))
  PROVE  \E s \in Requests : Goes(c, s)
<1> DEFINE r == call[c]
           content == [NoContent EXCEPT !.status = status, !.rank = rank, !.tied = tied]
           s == Answer(r, "ok", content)
<1>1. r \in Requests /\ r.stage \in Open /\ r.form \in Forms
  BY DEF RequestTypeOK, Requests, Open
<1>2. /\ content \in Contents /\ content.next_page = 0 /\ content.status = status
      /\ content.rank = rank /\ content.tied = tied
  BY DEF NoContent, Contents
<1> HIDE DEF content
<1>3. Moved(c, s)
  BY DEF Ranked, content
<1>4. /\ s \in Requests /\ s.form = [r.form EXCEPT !.q = << >>]
      /\ s.sent = Reply("ok", r.id, content) /\ s.rank = r.rank
  <2>1. "ok" \in Codes
    BY CodesAre
  <2> QED
    BY <1>1, <1>2, <2>1, AnswerTyped
<1>5. s = Answer(r, "ok", content)
  OBVIOUS
<1> HIDE DEF s
<1>6. s.sent.content = content /\ s.form.sort = r.form.sort
  BY <1>1, <1>4, FormWithoutText DEF Reply
<1>7. NextPageIsAccepted(s)
  BY <1>2, <1>6 DEF NextPageIsAccepted
<1>8. Before(s) = Before(r) /\ Beside(s) = Beside(r)
  BY <1>4, <1>6 DEF Before, Beside
<1>9. Counted(s)
  <2>1. r.rank.since <= changes
    BY DEF Good, Aimed
  <2> QED
    BY <1>2, <1>4, <1>6, <1>8, <2>1 DEF Counted
<1>10. Goes(c, s)
  BY <1>1, <1>2, <1>3, <1>5, <1>7, <1>9, OkGoes
<1> QED
  BY <1>4, <1>10

\* A rank in progress that goes on to its next operation.
LEMMA RankGoesOn ==
  ASSUME RequestTypeOK, NEW c \in Calls, Good(call[c]), call[c].stage \in Ranking,
         NEW stage \in Ranking, NEW rank \in Ranks, rank.since = call[c].rank.since,
         NEW s, s = [Stage(call[c], stage) EXCEPT !.rank = rank], Aimed(s),
         Moved(c, s), UNCHANGED <<inFlight, index, changes>>
  PROVE  \E q \in Requests : Goes(c, q)
<1> DEFINE r == call[c]
<1>1. r \in Requests /\ r.stage \in Open /\ stage \in Stages /\ stage \in Open
  BY DEF RequestTypeOK, Open, Stages
<1>2. Stage(r, stage) \in Requests
  BY <1>1, StageTyped
<1>3. /\ s \in Requests /\ s.stage = stage /\ s.form = r.form /\ s.id = r.id /\ s.sent = r.sent
      /\ s.logged = r.logged /\ s.received = r.received /\ s.response_code = r.response_code
  BY <1>1, <1>2 DEF Stage, Requests
<1>4. Placed(s)
  BY <1>3 DEF Placed, Ranking
<1>5. Goes(c, s)
  BY <1>1, <1>3, <1>4, OpenGoes
<1> QED
  BY <1>3, <1>5

\* The documents a target names: several, one, or none.
LEMMA IdentifiedGoes ==
  ASSUME RequestTypeOK, NEW c \in Calls, Good(call[c]), call[c].stage \in Ranking,
         NEW found \in SUBSET Documents, NEW next \in Identified(call[c], found),
         Moved(c, next), UNCHANGED <<inFlight, index, changes>>
  PROVE  \E s \in Requests : Goes(c, s)
<1> DEFINE r == call[c]
<1>1. r \in Requests /\ r.rank \in Ranks /\ r.rank.since <= changes
  BY DEF RequestTypeOK, Requests, Good, Aimed
<1>2. CASE Cardinality(found) > 1
  <2>1. next = Ranked(r, "ambiguous_target", 0, Cardinality(found))
    BY <1>2 DEF Identified
  <2>2. Cardinality(found) \in Nat
    BY SubsetsAreFinite
  <2> QED
    BY <2>1, <2>2, RankedGoes DEF Statuses
<1>3. CASE ~(Cardinality(found) > 1)
  <2>1. PICK d \in found : next = [Stage(r, "locate") EXCEPT !.rank.target = d]
    BY <1>3 DEF Identified
  <2> DEFINE rank == [r.rank EXCEPT !.target = d]
  <2>2. rank \in Ranks /\ rank.target \in Documents /\ rank.since = r.rank.since
    BY <1>1 DEF Ranks
  <2>3. next = [Stage(r, "locate") EXCEPT !.rank = rank]
    <3>1. Stage(r, "locate").rank = r.rank
      BY <1>1 DEF Stage, Requests
    <3> QED
      BY <2>1, <3>1
  <2> HIDE DEF rank
  <2>4. next.stage = "locate" /\ next.rank = rank
    BY <1>1, <2>3 DEF Stage, Requests
  <2>5. Aimed(next)
    BY <1>1, <2>2, <2>4 DEF Aimed
  <2> QED
    BY <2>2, <2>3, <2>5, RankGoesOn DEF Ranking
<1> QED
  BY <1>2, <1>3

\* A target is looked up by its identifier.
LEMMA FindByIdStep ==
  ASSUME RequestTypeOK, NEW c \in Calls, Good(call[c]), FindById(c)
  PROVE  \E s \in Requests : Goes(c, s)
<1> DEFINE r == call[c]
           found == Documents \cap {r.form.target}
<1>1. /\ r \in Requests /\ r.rank \in Ranks /\ r.stage = "target" /\ r.rank.since <= changes
      /\ UNCHANGED <<inFlight, index, changes>>
  BY DEF RequestTypeOK, Requests, FindById, Good, Aimed, Ranking
<1>2. PICK next \in Identified(r, found) \cup (IF found = {} THEN {Stage(r, "number")} ELSE {}) :
        Moved(c, next)
  BY DEF FindById
<1>3. found \in SUBSET Documents /\ r.stage \in Ranking
  BY <1>1 DEF Ranking
<1> HIDE DEF found
<1>4. CASE next \in Identified(r, found)
  BY <1>1, <1>2, <1>3, <1>4, IdentifiedGoes
<1>5. CASE next = Stage(r, "number")
  <2>1. next = [Stage(r, "number") EXCEPT !.rank = r.rank]
    BY <1>1, <1>5 DEF Stage, Requests
  <2>2. next.stage = "number" /\ next.rank = r.rank
    BY <1>1, <1>5 DEF Stage, Requests
  <2>3. Aimed(next)
    BY <1>1, <2>2 DEF Aimed
  <2> QED
    BY <1>1, <1>2, <1>3, <2>1, <2>3, RankGoesOn DEF Ranking
<1> QED
  BY <1>2, <1>4, <1>5

\* A target is looked up by its publication number.
LEMMA FindByNumberStep ==
  ASSUME RequestTypeOK, NEW c \in Calls, Good(call[c]), FindByNumber(c)
  PROVE  \E s \in Requests : Goes(c, s)
<1> DEFINE r == call[c]
           found == {d \in Documents : index[d].number = r.form.target}
<1>1. r.stage = "number" /\ r.stage \in Ranking /\ UNCHANGED <<inFlight, index, changes>>
  BY DEF FindByNumber, Ranking
<1>2. PICK next \in Identified(r, found)
                    \cup (IF found = {} THEN {Ranked(r, "target_not_found", 0, 0)} ELSE {}) :
        Moved(c, next)
  BY DEF FindByNumber
<1>3. found \in SUBSET Documents
  OBVIOUS
<1> HIDE DEF found
<1>4. CASE next \in Identified(r, found)
  BY <1>1, <1>2, <1>3, <1>4, IdentifiedGoes
<1>5. CASE next = Ranked(r, "target_not_found", 0, 0)
  BY <1>1, <1>2, <1>5, RankedGoes DEF Statuses
<1> QED
  BY <1>2, <1>4, <1>5

\* The target is looked up among the hits, with its key.
LEMMA FindInQueryStep ==
  ASSUME RequestTypeOK, NEW c \in Calls, Good(call[c]), FindInQuery(c)
  PROVE  \E s \in Requests : Goes(c, s)
<1> DEFINE r == call[c]
           target == index[r.rank.target]
           s == [Stage(r, "better") EXCEPT !.rank.key = target.key]
<1>1. /\ r \in Requests /\ r.rank \in Ranks /\ r.stage = "locate" /\ r.stage \in Ranking
      /\ UNCHANGED <<inFlight, index, changes>>
      /\ Moved(c, IF target.hit THEN s ELSE Ranked(r, "not_in_results", 0, 0))
  BY DEF RequestTypeOK, Requests, FindInQuery, Ranking
<1>2. /\ r.rank.since <= changes /\ r.rank.target \in Documents
      /\ target.key \in 0..MaxKey
  BY <1>1 DEF Good, Aimed, RequestTypeOK, Entries
<1>3. CASE target.hit
  <2> DEFINE rank == [r.rank EXCEPT !.key = target.key]
  <2>1. /\ rank \in Ranks /\ rank.target = r.rank.target /\ rank.since = r.rank.since
        /\ rank.key = target.key
    BY <1>1, <1>2 DEF Ranks
  <2>2. s = [Stage(r, "better") EXCEPT !.rank = rank]
    <3>1. Stage(r, "better").rank = r.rank
      BY <1>1 DEF Stage, Requests
    <3> QED
      BY <3>1
  <2> HIDE DEF rank
  <2>3. s.stage = "better" /\ s.rank = rank
    BY <1>1, <2>2 DEF Stage, Requests
  <2>4. Moved(c, s) /\ r.rank.target \in Hits
    BY <1>1, <1>2, <1>3 DEF Hits
  <2> HIDE DEF s
  <2>5. Aimed(s)
    BY <1>2, <2>1, <2>3, <2>4 DEF Aimed
  <2> QED
    BY <1>1, <2>1, <2>2, <2>4, <2>5, RankGoesOn DEF Ranking
<1>4. CASE ~target.hit
  <2>1. Moved(c, Ranked(r, "not_in_results", 0, 0))
    BY <1>1, <1>4
  <2> QED
    BY <1>1, <2>1, RankedGoes DEF Statuses
<1> QED
  BY <1>3, <1>4

\* Ahead of a key are the keys with an earlier place; the same place is the same key.
LEMMA AheadIsBefore ==
  ASSUME NEW sort \in {"relation", "newest", "oldest"},
         NEW other \in 0..MaxKey, NEW key \in 0..MaxKey
  PROVE  /\ Ahead(sort, other, key) <=> Place(sort, other) < Place(sort, key)
         /\ Place(sort, other) = Place(sort, key) <=> other = key
         /\ sort = "relation" => (other >= key <=> ~(Place(sort, key) < Place(sort, other)))
BY RequestBounds DEF Ahead, Place

\* The hits before the target are counted.
LEMMA CountBetterStep ==
  ASSUME RequestTypeOK, NEW c \in Calls, Good(call[c]), CountBetter(c)
  PROVE  \E s \in Requests : Goes(c, s)
<1> DEFINE r == call[c]
           better == {d \in Hits : Ahead(r.form.sort, index[d].key, r.rank.key)}
           s == [Stage(r, "tied") EXCEPT !.rank.better = Cardinality(better)]
           rank == [r.rank EXCEPT !.better = Cardinality(better)]
<1>1. /\ r \in Requests /\ r.rank \in Ranks /\ r.stage = "better" /\ r.stage \in Ranking
      /\ UNCHANGED <<inFlight, index, changes>> /\ Moved(c, s)
  BY DEF RequestTypeOK, Requests, CountBetter, Ranking
<1>2. /\ r.rank.since <= changes /\ r.rank.target \in Documents
      /\ changes = r.rank.since =>
           r.rank.target \in Hits /\ r.rank.key = index[r.rank.target].key
  BY <1>1 DEF Good, Aimed
<1>3. Cardinality(better) \in Nat
  <2>1. better \in SUBSET Documents
    BY DEF Hits
  <2> HIDE DEF better
  <2> QED
    BY <2>1, SubsetsAreFinite
<1>4. s = [Stage(r, "tied") EXCEPT !.rank = rank]
  <2>1. Stage(r, "tied").rank = r.rank
    BY <1>1 DEF Stage, Requests
  <2> QED
    BY <2>1
<1> HIDE DEF s, better
<1>5. /\ rank \in Ranks /\ rank.target = r.rank.target /\ rank.key = r.rank.key
      /\ rank.since = r.rank.since /\ rank.better = Cardinality(better)
  BY <1>1, <1>3 DEF Ranks
<1> HIDE DEF rank
<1>6. s.stage = "tied" /\ s.rank = rank /\ s.form = r.form
  BY <1>1, <1>4 DEF Stage, Requests
<1>7. ASSUME changes = r.rank.since PROVE better = Before(s)
  <2>1. r.form.sort \in {"relation", "newest", "oldest"} /\ r.rank.key \in 0..MaxKey
    BY <1>1 DEF Requests, Forms, Ranks
  <2>2. ASSUME NEW d \in Hits
        PROVE  Ahead(r.form.sort, index[d].key, r.rank.key) <=>
                 Place(r.form.sort, index[d].key) < Place(r.form.sort, r.rank.key)
    <3>1. index[d].key \in 0..MaxKey
      BY DEF Hits, RequestTypeOK, Entries
    <3> QED
      BY <2>1, <3>1, AheadIsBefore
  <2> QED
    BY <1>2, <1>5, <1>6, <1>7, <2>2 DEF Before, better
<1>8. Aimed(s)
  BY <1>2, <1>5, <1>6, <1>7 DEF Aimed
<1> QED
  BY <1>1, <1>4, <1>5, <1>8, RankGoesOn DEF Ranking

\* By score, the hits that score no less than the target are those before it, those beside
\* it and itself.
LEMMA TiesAreBeside ==
  ASSUME RequestTypeOK, NEW r \in Requests, r.rank.target \in Hits,
         r.rank.key = index[r.rank.target].key, r.rank.better = Cardinality(Before(r))
  PROVE  Ties(r) = Cardinality(Beside(r))
<1> DEFINE sort == r.form.sort
           key == r.rank.key
           least == {d \in Hits : index[d].key >= key}
<1>1. sort \in {"relation", "newest", "oldest"} /\ key \in 0..MaxKey
  BY DEF Requests, Forms, Ranks
<1>2. \A d \in Hits : index[d].key \in 0..MaxKey
  BY DEF Hits, RequestTypeOK, Entries
<1>3. /\ Before(r) = {d \in Hits : Place(sort, index[d].key) < Place(sort, key)}
      /\ Beside(r) = {d \in Hits \ {r.rank.target} : Place(sort, index[d].key) = Place(sort, key)}
  BY DEF Before, Beside
<1>4. Beside(r) = {d \in Hits \ {r.rank.target} : index[d].key = key}
  <2>1. ASSUME NEW d \in Hits
        PROVE  Place(sort, index[d].key) = Place(sort, key) <=> index[d].key = key
    BY <1>1, <1>2, AheadIsBefore
  <2> QED
    BY <1>3, <2>1
<1>5. CASE sort # "relation"
  BY <1>4, <1>5 DEF Ties
<1>6. CASE sort = "relation"
  <2> DEFINE target == r.rank.target
             B == Before(r)
             E == Beside(r)
  <2>1. least = (B \cup E) \cup {target}
    <3>1. ASSUME NEW d \in Hits
          PROVE  index[d].key >= key <=>
                   Place(sort, index[d].key) < Place(sort, key) \/ index[d].key = key
      <4>1. index[d].key \in 0..MaxKey
        BY <1>2
      <4>2. Place(sort, index[d].key) < Place(sort, key) <=> index[d].key > key
        BY <1>1, <1>6, <4>1, RequestBounds DEF Place
      <4> QED
        BY <1>1, <4>1, <4>2, RequestBounds
    <3> QED
      BY <1>3, <1>4, <3>1
  <2>2. B \cap E = {} /\ target \notin B \cup E
    <3>1. Place(sort, key) \in Int
      BY <1>1, <1>6, RequestBounds DEF Place
    <3> HIDE DEF sort, key
    <3>2. ~(Place(sort, key) < Place(sort, key))
      BY <3>1
    <3>3. key = index[target].key
      BY DEF key
    <3> QED
      BY <1>3, <3>2, <3>3
  <2>3. B \in SUBSET Documents /\ E \in SUBSET Documents
    BY DEF Before, Beside, Hits
  <2>4. /\ IsFiniteSet(B) /\ IsFiniteSet(E) /\ Cardinality(B) \in Nat /\ Cardinality(E) \in Nat
        /\ r.rank.better = Cardinality(B)
    BY <2>3, SubsetsAreFinite
  <2> HIDE DEF B, E, least, target
  <2>5. IsFiniteSet(B \cup E) /\ Cardinality(B \cup E) = Cardinality(B) + Cardinality(E)
    <3>1. Cardinality(B \cup E) = Cardinality(B) + Cardinality(E) - Cardinality(B \cap E)
      BY <2>4, FS_Union
    <3>2. Cardinality(B \cap E) = 0
      BY <2>2, FS_EmptySet
    <3> QED
      BY <2>4, <3>1, <3>2, FS_Union
  <2>6. Cardinality(least) = Cardinality(B) + Cardinality(E) + 1
    <3> DEFINE U == B \cup E
    <3>1. IsFiniteSet(U) /\ target \notin U
      BY <2>2, <2>5
    <3> HIDE DEF U
    <3>2. Cardinality(U \cup {target}) = Cardinality(U) + 1
      BY <3>1, FS_AddElement
    <3> QED
      BY <2>1, <2>5, <3>2 DEF U
  <2>7. Ties(r) = Max({0, Cardinality(least) - r.rank.better - 1})
    BY <1>6 DEF Ties, least
  <2>8. Cardinality(least) - r.rank.better - 1 = Cardinality(E)
    BY <2>4, <2>6
  <2>9. Max({0, Cardinality(E)}) = Cardinality(E)
    <3>1. 0 \in Int /\ Cardinality(E) \in Int
      BY <2>4
    <3>2. /\ Max({0, Cardinality(E)}) \in {0, Cardinality(E)}
          /\ Max({0, Cardinality(E)}) >= Cardinality(E)
      BY <3>1, MaxOfTwo, Zenon
    <3> QED
      BY <2>4, <3>2
  <2> QED
    BY <2>7, <2>8, <2>9 DEF E
<1> QED
  BY <1>5, <1>6

\* The ties are a count even of an index that changed in between.
LEMMA TiesAreCounts ==
  ASSUME NEW r \in Requests
  PROVE  Ties(r) \in Nat
<1>1. CASE r.form.sort = "relation"
  <2> DEFINE least == {d \in Hits : index[d].key >= r.rank.key}
             n == Cardinality(least) - r.rank.better - 1
  <2>1. n \in Int
    <3>1. least \in SUBSET Documents
      BY DEF Hits
    <3> HIDE DEF least
    <3> QED
      BY <3>1, SubsetsAreFinite DEF Requests, Ranks
  <2>2. Ties(r) = Max({0, n})
    BY <1>1 DEF Ties
  <2> HIDE DEF n
  <2>3. Max({0, n}) \in {0, n} /\ Max({0, n}) >= 0
    <3>1. 0 \in Int
      OBVIOUS
    <3> QED
      BY <2>1, <3>1, MaxOfTwo, Zenon
  <2> QED
    BY <2>1, <2>2, <2>3
<1>2. CASE r.form.sort # "relation"
  <2> DEFINE same == {d \in Hits \ {r.rank.target} : index[d].key = r.rank.key}
  <2>1. same \in SUBSET Documents /\ Ties(r) = Cardinality(same)
    BY <1>2 DEF Hits, Ties
  <2> HIDE DEF same
  <2> QED
    BY <2>1, SubsetsAreFinite
<1> QED
  BY <1>1, <1>2

\* The hits beside the target are counted, and the rank is answered.
LEMMA CountTiedStep ==
  ASSUME RequestTypeOK, NEW c \in Calls, Good(call[c]), CountTied(c)
  PROVE  \E s \in Requests : Goes(c, s)
<1> DEFINE r == call[c]
<1>1. /\ r \in Requests /\ r.rank \in Ranks /\ r.stage = "tied" /\ r.stage \in Ranking
      /\ UNCHANGED <<inFlight, index, changes>>
      /\ Moved(c, Ranked(r, "matched", r.rank.better + 1, Ties(r)))
  BY DEF RequestTypeOK, Requests, CountTied, Ranking
<1>2. /\ r.rank.better \in Nat /\ r.rank.better + 1 \in Nat /\ r.rank.better + 1 >= 1
      /\ r.rank.better + 1 = 1 + r.rank.better
  BY <1>1 DEF Ranks
<1>3. Ties(r) \in Nat
  BY <1>1, TiesAreCounts
<1>4. ASSUME changes = r.rank.since
      PROVE  /\ r.rank.target \in Hits /\ r.rank.better = Cardinality(Before(r))
             /\ Ties(r) = Cardinality(Beside(r))
  <2>1. /\ r.rank.target \in Hits /\ r.rank.key = index[r.rank.target].key
        /\ r.rank.better = Cardinality(Before(r))
    BY <1>1, <1>4 DEF Good, Aimed
  <2> QED
    BY <1>1, <2>1, TiesAreBeside
<1> QED
  BY <1>1, <1>2, <1>3, <1>4, RankedGoes DEF Statuses

-----------------------------------------------------------------------------
\* The end of a request: what is recorded is what was answered.
LEMMA LoggedTyped ==
  ASSUME NEW r \in Requests, NEW stage \in Stages, NEW code \in Codes, NEW status,
         status \in {Status[k] : k \in Codes}
  PROVE  LET s == Logged(r, stage, status, code)
         IN  /\ s \in Requests /\ s.stage = stage
             /\ s.logged = [id |-> r.id, status |-> status, code |-> code]
             /\ s.id = r.id /\ s.form = r.form /\ s.received = r.received /\ s.sent = r.sent
             /\ s.response_code = r.response_code /\ s.body = r.body /\ s.rank = r.rank
<1>1. r.id \in Ids
  BY DEF Requests
<1>2. [id |-> r.id, status |-> status, code |-> code] \in Records
  BY <1>1 DEF Records
<1> QED
  BY <1>2 DEF Logged, Stage, Requests

\* A request that is recorded leaves the gauge.
LEMMA LoggedGoes ==
  ASSUME RequestTypeOK, NEW c \in Calls, Good(call[c]), NEW stage \in {"done", "unsent"},
         call[c].logged = NoRecord, call[c].id # NoId,
         NEW status, NEW code \in Codes, status \in {Status[k] : k \in Codes},
         NEW s, s = Logged(call[c], stage, status, code), HistoryInv(s),
         stage = "unsent" => ~Oversized(call[c]),
         Moved(c, s), inFlight' = inFlight - 1, UNCHANGED <<index, changes>>
  PROVE  \E q \in Requests : Goes(c, q)
<1> DEFINE r == call[c]
<1>1. r \in Requests /\ inFlight \in Int
  BY DEF RequestTypeOK
<1>2. /\ s \in Requests /\ s.stage = stage
      /\ s.logged = [id |-> r.id, status |-> status, code |-> code]
      /\ s.id = r.id /\ s.form = r.form /\ s.received = r.received /\ s.sent = r.sent
      /\ s.rank = r.rank
  <2>1. stage \in Stages
    BY DEF Stages
  <2> QED
    BY <1>1, <2>1, LoggedTyped
<1>3. SizeInv(s)
  BY <1>2 DEF Good, SizeInv, Open, Ranking, Lost, Oversized
<1>4. Placed(s) /\ Aimed(s)
  BY <1>2 DEF Placed, Aimed, Ranking
<1>5. NextPageIsAccepted(s)
  BY <1>2 DEF Good, NextPageIsAccepted
<1>6. Counted(s)
  BY <1>2 DEF Good, Counted, Before, Beside
<1>7. Gauge(s) = 0 /\ Gauge(r) = 1
  BY <1>2 DEF Gauge, Live, NoRecord
<1> QED
  BY <1>1, <1>2, <1>3, <1>4, <1>5, <1>6, <1>7 DEF Goes, Good

\* An answered request is recorded with the code of its answer.
LEMMA FinishStep ==
  ASSUME RequestTypeOK, NEW c \in Calls, Good(call[c]), Finish(c)
  PROVE  \E s \in Requests : Goes(c, s)
<1> DEFINE r == call[c]
           status == Status[r.sent.code]
           code == Recorded(r, status)
           s == Logged(r, "done", status, code)
<1>1. /\ r \in Requests /\ r.stage = "answered" /\ inFlight' = inFlight - 1
      /\ UNCHANGED <<index, changes>> /\ Moved(c, s)
  BY DEF RequestTypeOK, Finish
<1>2. r.sent.code = r.response_code /\ r.sent.id = r.id /\ r.logged = NoRecord /\ r.id # NoId
  BY <1>1 DEF Good, HistoryInv
<1>3. r.response_code \in Codes
  BY <1>1 DEF Requests
<1>4. status \in {Status[k] : k \in Codes}
  BY <1>2, <1>3
<1>5. code = r.response_code
  <2>1. r.response_code = "ok" => status = 200
    BY <1>2 DEF Status
  <2> QED
    BY <2>1 DEF Recorded
<1> HIDE DEF code
<1>6. /\ s.stage = "done" /\ s.logged = [id |-> r.id, status |-> status, code |-> code]
      /\ s.id = r.id /\ s.sent = r.sent
  <2>1. "done" \in Stages
    BY DEF Stages
  <2> QED
    BY <1>1, <1>3, <1>4, <1>5, <2>1, LoggedTyped
<1> HIDE DEF s
<1>7. s.sent.code # None
  BY <1>2, <1>3, <1>6, NoneIsNoCode
<1>8. HistoryInv(s)
  BY <1>2, <1>5, <1>6, <1>7 DEF HistoryInv, Open, Ranking, Lost
<1>9. s = Logged(r, "done", status, code)
  BY DEF s
<1> QED
  BY <1>1, <1>2, <1>3, <1>4, <1>5, <1>8, <1>9, LoggedGoes

\* A request that came to nothing is recorded as failed.
LEMMA FinishLostStep ==
  ASSUME RequestTypeOK, NEW c \in Calls, Good(call[c]), FinishCancelled(c) \/ FinishBroken(c)
  PROVE  \E s \in Requests : Goes(c, s)
<1> DEFINE r == call[c]
<1>1. /\ r \in Requests /\ r.stage \in Lost /\ inFlight' = inFlight - 1
      /\ UNCHANGED <<index, changes>>
  BY DEF RequestTypeOK, FinishCancelled, FinishBroken, Lost
<1>2. /\ r.sent = NoReply /\ r.logged = NoRecord /\ r.response_code = "ok" /\ r.id # NoId
      /\ ~Oversized(r)
  BY <1>1 DEF Good, HistoryInv, SizeInv
<1>3. Recorded(r, 500) = "internal"
  BY <1>2 DEF Recorded, DefaultCode
<1>4. PICK stage \in {"done", "unsent"} : Moved(c, Logged(r, stage, 500, "internal"))
  BY <1>3 DEF FinishCancelled, FinishBroken
<1>5. "internal" \in Codes /\ 500 \in {Status[k] : k \in Codes}
  <2>1. "internal" \in Codes /\ Status["internal"] = 500
    BY CodesAre DEF Status
  <2> QED
    BY <2>1
<1> DEFINE s == Logged(r, stage, 500, "internal")
<1>6. /\ s.stage = stage /\ s.logged = [id |-> r.id, status |-> 500, code |-> "internal"]
      /\ s.id = r.id /\ s.sent = r.sent
  <2>1. stage \in Stages
    BY DEF Stages
  <2> QED
    BY <1>1, <1>5, <2>1, LoggedTyped
<1> HIDE DEF s
<1>7. NoReply.code = None
  BY DEF NoReply, Reply
<1>8. HistoryInv(s)
  BY <1>2, <1>6, <1>7 DEF HistoryInv, Open, Ranking, Lost
<1>9. s = Logged(r, stage, 500, "internal") /\ Moved(c, s)
  BY <1>4 DEF s
<1> QED
  BY <1>1, <1>2, <1>5, <1>8, <1>9, LoggedGoes

\* An unexpected failure, recorded before, is answered.
LEMMA SendInternalStep ==
  ASSUME RequestTypeOK, NEW c \in Calls, Good(call[c]), SendInternal(c)
  PROVE  \E s \in Requests : Goes(c, s)
<1> DEFINE r == call[c]
           s == [Stage(r, "done") EXCEPT !.sent = Reply("internal", r.id, NoContent),
                                         !.response_code = "internal"]
<1>1. /\ r \in Requests /\ r.stage = "unsent" /\ UNCHANGED <<inFlight, index, changes>>
      /\ Moved(c, s) /\ inFlight \in Int
  BY DEF RequestTypeOK, SendInternal
<1>2. /\ r.sent = NoReply /\ r.id # NoId /\ ~Oversized(r)
      /\ r.logged = [id |-> r.id, status |-> 500, code |-> "internal"]
  BY <1>1 DEF Good, HistoryInv, SizeInv
<1>3. Reply("internal", r.id, NoContent) \in Replies /\ "internal" \in Codes /\ "done" \in Stages
  BY <1>1, NoContentTyped, CodesAre DEF Reply, Replies, Requests, Stages
<1>4. /\ s \in Requests /\ s.stage = "done" /\ s.sent = Reply("internal", r.id, NoContent)
      /\ s.id = r.id /\ s.form = r.form /\ s.received = r.received /\ s.logged = r.logged
  BY <1>1, <1>3 DEF Stage, Requests
<1> HIDE DEF s
<1>5. /\ s.sent.code = "internal" /\ s.sent.id = r.id /\ s.sent.content = NoContent
      /\ NoContent.next_page = 0 /\ NoContent.status = None /\ NoReply.code = None
      /\ Status["internal"] = 500
  BY <1>4 DEF Reply, NoContent, NoReply, Status
<1>6. HistoryInv(s)
  BY <1>2, <1>4, <1>5 DEF HistoryInv, Open, Ranking, Lost, None
<1>7. SizeInv(s)
  <2>1. (s.sent.code = "too_large") = Oversized(s)
    BY <1>2, <1>4, <1>5 DEF Oversized
  <2> QED
    BY <1>4, <2>1 DEF SizeInv, Open, Ranking, Lost
<1>8. Placed(s) /\ Aimed(s) /\ NextPageIsAccepted(s) /\ Counted(s)
  BY <1>4, <1>5 DEF Placed, Aimed, NextPageIsAccepted, Counted, Ranking, None
<1>9. Gauge(s) = 0 /\ Gauge(r) = 0
  BY <1>2, <1>4 DEF Gauge, Live, NoRecord
<1>10. r.sent.code = None
  BY <1>2, <1>5
<1> QED
  BY <1>1, <1>4, <1>6, <1>7, <1>8, <1>9, <1>10 DEF Goes, Good

-----------------------------------------------------------------------------
\* Every action of a request but its arrival is a step of that request.
LEMMA CallStep ==
  ASSUME RequestTypeOK, NEW c \in Calls, Good(call[c]),
         Receiving(c) \/ Interruption(c) \/ Serve(c)
  PROVE  \E s \in Requests : Goes(c, s)
<1>1. CASE Receiving(c)
  BY <1>1, ReceiveStep, DisconnectStep, RouteStep DEF Receiving
<1>2. CASE Interruption(c)
  BY <1>2, DisconnectStep, CancelStep DEF Interruption
<1>3. CASE Admit(c) \/ ServeBoolean(c) \/ ServeSemantic(c) \/ ServeRank(c)
  BY <1>3, AdmitStep, ServeBooleanStep, ServeSemanticStep, ServeRankStep
<1>4. CASE AskVectors(c) \/ Ask(c) \/ AskFails(c)
  BY <1>4, AskVectorsStep, AskStep, AskFailsStep
<1>5. CASE FindById(c) \/ FindByNumber(c) \/ FindInQuery(c) \/ CountBetter(c) \/ CountTied(c)
  BY <1>5, FindByIdStep, FindByNumberStep, FindInQueryStep, CountBetterStep, CountTiedStep
<1>6. CASE Finish(c) \/ FinishCancelled(c) \/ FinishBroken(c) \/ SendInternal(c)
  BY <1>6, FinishStep, FinishLostStep, SendInternalStep
<1> QED
  BY <1>1, <1>2, <1>3, <1>4, <1>5, <1>6 DEF Serve

\* Requests can be counted.
LEMMA CallsAreFinite ==
  ASSUME NEW S \in SUBSET Calls
  PROVE  IsFiniteSet(S) /\ Cardinality(S) \in Nat
BY RequestBounds, FS_Subset, FS_CardinalityType

\* A set of calls that changes at one call alone.
LEMMA OneMoves ==
  ASSUME NEW A \in SUBSET Calls, NEW B \in SUBSET Calls, NEW c \in Calls, A \ {c} = B \ {c}
  PROVE  /\ Cardinality(A) \in Nat /\ Cardinality(B) \in Nat
         /\ Cardinality(B) = Cardinality(A) + (IF c \in B THEN 1 ELSE 0) - (IF c \in A THEN 1 ELSE 0)
<1>1. /\ IsFiniteSet(A) /\ IsFiniteSet(B) /\ Cardinality(A) \in Nat /\ Cardinality(B) \in Nat
  BY CallsAreFinite
<1>2. /\ Cardinality(A \ {c}) = IF c \in A THEN Cardinality(A) - 1 ELSE Cardinality(A)
      /\ Cardinality(B \ {c}) = IF c \in B THEN Cardinality(B) - 1 ELSE Cardinality(B)
  BY <1>1, FS_RemoveElement
<1>3. Cardinality(A \ {c}) = Cardinality(B \ {c})
  OBVIOUS
<1> QED
  BY <1>1, <1>2, <1>3

\* A step of a request keeps the types and leaves the other requests alone.
LEMMA GoesTyped ==
  ASSUME RequestTypeOK, NEW c \in Calls, NEW s \in Requests, Goes(c, s)
  PROVE  /\ RequestTypeOK' /\ call'[c] = s /\ \A d \in Calls \ {c} : call'[d] = call[d]
         /\ inFlight' = inFlight + Gauge(s) - Gauge(call[c])
<1>1. /\ call' = [call EXCEPT ![c] = s] /\ UNCHANGED <<index, changes>>
      /\ inFlight' = inFlight + Gauge(s) - Gauge(call[c])
  BY DEF Goes, Moved
<1>2. Gauge(s) \in Int /\ Gauge(call[c]) \in Int
  BY DEF Gauge
<1> QED
  BY <1>1, <1>2 DEF RequestTypeOK

\* What is known of a request stays known while it and the index stay as they are.
LEMMA GoodKept ==
  ASSUME NEW d \in Calls, NEW r, call'[d] = r, Good(r), UNCHANGED <<index, changes>>
  PROVE  Good(call[d])'
<1>1. HistoryInv(call[d])' /\ SizeInv(call[d])'
  BY DEF Good, HistoryInv, SizeInv, Oversized
<1>2. Placed(call[d])'
  BY DEF Good, Placed
<1>3. NextPageIsAccepted(call[d])'
  BY DEF Good, NextPageIsAccepted
<1>4. Aimed(call[d])'
  BY DEF Good, Aimed, Hits, Before
<1>5. Counted(call[d])'
  BY DEF Good, Counted, Hits, Before, Beside
<1> QED
  BY <1>1, <1>2, <1>3, <1>4, <1>5 DEF Good

\* A step of a request keeps the invariant of all requests, and the gauge.
LEMMA GoesKeeps ==
  ASSUME RequestTypeOK, RequestInv, GaugeInv, NEW c \in Calls, NEW s \in Requests, Goes(c, s)
  PROVE  RequestTypeOK' /\ RequestInv' /\ GaugeInv'
<1>1. /\ RequestTypeOK' /\ call'[c] = s /\ \A d \in Calls \ {c} : call'[d] = call[d]
      /\ inFlight' = inFlight + Gauge(s) - Gauge(call[c])
  BY GoesTyped
<1>2. Good(s) /\ UNCHANGED <<index, changes>>
  BY DEF Goes
<1>3. ASSUME NEW d \in Calls PROVE Good(call[d])'
  <2>1. CASE d = c
    BY <1>1, <1>2, <2>1, GoodKept
  <2>2. CASE d # c
    <3>1. Good(call[d]) /\ call'[d] = call[d]
      BY <1>1, <2>2 DEF RequestInv
    <3>2. PICK r : r = call[d]
      OBVIOUS
    <3> QED
      BY <1>2, <3>1, <3>2, GoodKept
  <2> QED
    BY <2>1, <2>2
<1>4. RequestInv'
  BY <1>3 DEF RequestInv
<1>5. GaugeInv'
  <2> DEFINE A == {d \in Calls : Live(call[d])}
             B == {d \in Calls : Live(call'[d])}
  <2>1. A \ {c} = B \ {c} /\ A \in SUBSET Calls /\ B \in SUBSET Calls
    BY <1>1
  <2>2. /\ (IF c \in B THEN 1 ELSE 0) = Gauge(s)
        /\ (IF c \in A THEN 1 ELSE 0) = Gauge(call[c])
    BY <1>1 DEF Gauge
  <2>3. inFlight = Cardinality(A)
    BY DEF GaugeInv
  <2>4. B = {d \in Calls : Live(call[d])'}
    BY DEF Live
  <2> HIDE DEF A, B
  <2>5. Cardinality(B) = Cardinality(A) + Gauge(s) - Gauge(call[c])
    BY <2>1, <2>2, OneMoves
  <2> QED
    BY <1>1, <2>3, <2>4, <2>5 DEF GaugeInv
<1> QED
  BY <1>1, <1>4, <1>5

\* A change of the index: no rank under way began after it.
LEMMA ChangeStep ==
  ASSUME RequestTypeOK, RequestInv, GaugeInv, NEW d \in Documents, Change(d)
  PROVE  RequestTypeOK' /\ RequestInv' /\ GaugeInv'
<1>1. PICK hit \in BOOLEAN, key \in 0..MaxKey : index' = [index EXCEPT ![d].hit = hit, ![d].key = key]
  BY DEF Change
<1>2. changes < MaxChanges /\ changes' = changes + 1 /\ UNCHANGED <<call, inFlight>>
  BY DEF Change
<1>3. changes \in 0..MaxChanges /\ MaxChanges \in Nat /\ index \in [Documents -> Entries]
  BY RequestBounds DEF RequestTypeOK
<1>4. RequestTypeOK'
  <2>1. changes' \in 0..MaxChanges
    BY <1>2, <1>3
  <2>2. index' \in [Documents -> Entries]
    <3>1. index[d] \in Entries
      BY <1>3
    <3>2. [index[d] EXCEPT !.hit = hit] \in Entries
      BY <3>1 DEF Entries
    <3>3. [[index[d] EXCEPT !.hit = hit] EXCEPT !.key = key] \in Entries
      BY <3>2 DEF Entries
    <3>4. index' = [index EXCEPT ![d] = [[index[d] EXCEPT !.hit = hit] EXCEPT !.key = key]]
      BY <1>1, <1>3
    <3> DEFINE entry == [[index[d] EXCEPT !.hit = hit] EXCEPT !.key = key]
    <3> HIDE DEF entry
    <3> QED
      BY <1>3, <3>3, <3>4 DEF entry
  <2> QED
    BY <1>2, <2>1, <2>2 DEF RequestTypeOK
<1>5. ASSUME NEW c \in Calls PROVE Good(call[c])'
  <2>1. PICK r \in Requests : r = call[c] /\ Good(r) /\ call'[c] = r
    BY <1>2 DEF RequestTypeOK, RequestInv
  <2>2. r.rank.since \in Nat
    BY <2>1 DEF Requests, Ranks
  <2>3. HistoryInv(call[c])' /\ SizeInv(call[c])'
    BY <2>1 DEF Good, HistoryInv, SizeInv, Oversized
  <2>4. Placed(call[c])'
    BY <2>1 DEF Good, Placed
  <2>5. NextPageIsAccepted(call[c])'
    BY <2>1 DEF Good, NextPageIsAccepted
  <2>6. Aimed(call[c])'
    <3>1. r.stage \in {"better", "tied"} => r.stage \in Ranking
      BY DEF Ranking
    <3>2. r.stage \in Ranking => r.rank.since <= changes' /\ changes' # r.rank.since
      BY <1>2, <1>3, <2>1, <2>2 DEF Good, Aimed
    <3>3. r.stage \in {"locate", "better", "tied"} => r.rank.target \in Documents
      BY <2>1 DEF Good, Aimed
    <3> QED
      BY <2>1, <3>1, <3>2, <3>3 DEF Aimed
  <2>7. Counted(call[c])'
    <3>1. r.sent.content.status = "matched" =>
            r.rank.since <= changes' /\ changes' # r.rank.since /\ r.sent.content.rank >= 1
      BY <1>2, <1>3, <2>1, <2>2 DEF Good, Counted
    <3> QED
      BY <2>1, <3>1 DEF Counted
  <2> QED
    BY <2>3, <2>4, <2>5, <2>6, <2>7 DEF Good
<1>6. GaugeInv'
  BY <1>2 DEF GaugeInv, Live
<1> QED
  BY <1>4, <1>5, <1>6 DEF RequestInv

-----------------------------------------------------------------------------
\* The tools.  A tool that holds a permit, and a result that came from the API.
Held(t) == IF t.stage \in Holding THEN 1 ELSE 0
PermitInv == permits >= 0 /\ permits + Cardinality(Holders) = ToolCapacity

Heard(t, r) ==
  t.result.code # None /\ ~t.result.local =>
    r.sent.code = t.result.code /\ r.sent.id = t.result.id
ResultInv == \A c \in Calls : Heard(tool[c], call[c])

Inv == TypeOK /\ RequestInv /\ GaugeInv /\ PermitInv /\ ResultInv

\* A tool call that changes, and the permits with it.
LEMMA ToolMoves ==
  ASSUME TypeOK, PermitInv, NEW c \in Calls, NEW t \in Tools, Becomes(c, t),
         permits' = permits + Held(tool[c]) - Held(t),
         permits > 0 \/ Held(t) <= Held(tool[c])
  PROVE  /\ tool' \in [Calls -> Tools] /\ permits' \in Int /\ PermitInv' /\ tool'[c] = t
         /\ \A d \in Calls \ {c} : tool'[d] = tool[d]
<1>1. tool \in [Calls -> Tools] /\ permits \in Int
  BY DEF TypeOK
<1>2. /\ tool' \in [Calls -> Tools] /\ tool'[c] = t
      /\ \A d \in Calls \ {c} : tool'[d] = tool[d]
  BY <1>1 DEF Becomes
<1>3. Held(t) \in {0, 1} /\ Held(tool[c]) \in {0, 1}
  BY DEF Held
<1> DEFINE A == Holders
           B == {d \in Calls : tool'[d].stage \in Holding}
<1>4. A \ {c} = B \ {c} /\ A \in SUBSET Calls /\ B \in SUBSET Calls
  BY <1>2 DEF Holders
<1>5. /\ (IF c \in B THEN 1 ELSE 0) = Held(t)
      /\ (IF c \in A THEN 1 ELSE 0) = Held(tool[c])
  BY <1>2 DEF Held, Holders
<1>6. Holders' = B
  BY DEF Holders
<1> HIDE DEF A, B
<1>7. /\ Cardinality(A) \in Nat /\ Cardinality(B) \in Nat
      /\ Cardinality(B) = Cardinality(A) + Held(t) - Held(tool[c])
  BY <1>4, <1>5, OneMoves
<1>8. permits >= 0 /\ permits + Cardinality(A) = ToolCapacity
  BY DEF PermitInv, A
<1>9. permits' \in Int /\ permits' >= 0 /\ permits' + Cardinality(B) = ToolCapacity
  BY <1>1, <1>3, <1>7, <1>8, ToolSettings
<1> QED
  BY <1>2, <1>6, <1>9 DEF PermitInv

\* Steps of a tool that leave the requests alone.
LEMMA ToolKeeps ==
  ASSUME Inv, NEW c \in Calls, NEW t \in Tools, Becomes(c, t),
         permits' = permits + Held(tool[c]) - Held(t),
         permits > 0 \/ Held(t) <= Held(tool[c]),
         Heard(t, call[c]), UNCHANGED requestVars
  PROVE  Inv'
<1>1. /\ tool' \in [Calls -> Tools] /\ permits' \in Int /\ PermitInv' /\ tool'[c] = t
      /\ \A d \in Calls \ {c} : tool'[d] = tool[d]
  BY ToolMoves DEF Inv
<1>2. UNCHANGED <<call, inFlight, index, changes>>
  BY DEF requestVars
<1>3. RequestTypeOK' /\ GaugeInv'
  BY <1>2 DEF Inv, TypeOK, RequestTypeOK, GaugeInv, Live
<1>4. RequestInv'
  <2>1. ASSUME NEW d \in Calls PROVE Good(call[d])'
    <3>1. PICK r : r = call[d] /\ Good(r) /\ call'[d] = r
      BY <1>2 DEF Inv, RequestInv
    <3> QED
      BY <1>2, <3>1, GoodKept
  <2> QED
    BY <2>1 DEF RequestInv
<1>5. ResultInv'
  <2>1. ASSUME NEW d \in Calls PROVE Heard(tool'[d], call'[d])
    <3>1. CASE d = c
      BY <1>1, <1>2, <3>1
    <3>2. CASE d # c
      BY <1>1, <1>2, <3>2 DEF Inv, ResultInv
    <3> QED
      BY <3>1, <3>2
  <2> QED
    BY <2>1 DEF ResultInv, Heard
<1> QED
  BY <1>1, <1>3, <1>4, <1>5 DEF Inv, TypeOK

\* A step of a request that leaves the tools alone.
LEMMA RequestKeeps ==
  ASSUME Inv, NEW c \in Calls, NEW s \in Requests, Goes(c, s),
         NEW t \in Tools, t.result = tool[c].result, Held(t) = Held(tool[c]),
         tool' = [tool EXCEPT ![c] = t], UNCHANGED permits
  PROVE  Inv'
<1>1. RequestTypeOK' /\ RequestInv' /\ GaugeInv'
  BY GoesKeeps DEF Inv, TypeOK
<1>2. call'[c] = s /\ \A d \in Calls \ {c} : call'[d] = call[d]
  BY GoesTyped DEF Inv, TypeOK
<1>3. /\ tool' \in [Calls -> Tools] /\ permits' \in Int /\ PermitInv' /\ tool'[c] = t
      /\ \A d \in Calls \ {c} : tool'[d] = tool[d]
  <2>1. Held(t) \in Int /\ permits \in Int
    BY DEF Held, Inv, TypeOK
  <2>2. /\ Becomes(c, t) /\ permits' = permits + Held(tool[c]) - Held(t)
        /\ Held(t) <= Held(tool[c])
    BY <2>1 DEF Becomes
  <2> QED
    BY <2>2, ToolMoves DEF Inv
<1>4. ResultInv'
  <2>1. ASSUME NEW d \in Calls PROVE Heard(tool'[d], call'[d])
    <3>1. Heard(tool[d], call[d])
      BY DEF Inv, ResultInv
    <3>2. CASE d = c
      <4>1. call[c].sent.code # None => s.sent = call[c].sent
        BY DEF Goes
      <4> QED
        BY <1>2, <1>3, <3>1, <3>2, <4>1 DEF Heard
    <3>3. CASE d # c
      BY <1>2, <1>3, <3>1, <3>3
    <3> QED
      BY <3>2, <3>3
  <2> QED
    BY <2>1 DEF ResultInv, Heard
<1> QED
  BY <1>1, <1>3, <1>4 DEF Inv, TypeOK

\* A tool takes a permit.
LEMMA StartToolStep ==
  ASSUME Inv, NEW c \in Calls, StartTool(c)
  PROVE  Inv'
<1> DEFINE t == [tool[c] EXCEPT !.stage = "sending"]
<1>1. /\ tool[c] \in Tools /\ permits \in Int /\ tool[c].stage = "idle" /\ permits > 0
      /\ Becomes(c, t) /\ permits' = permits - 1 /\ UNCHANGED requestVars
  BY DEF Inv, TypeOK, StartTool
<1>2. t \in Tools /\ t.stage = "sending" /\ t.result = tool[c].result
  BY <1>1 DEF Tools
<1> HIDE DEF t
<1>3. Held(t) = 1 /\ Held(tool[c]) = 0
  BY <1>1, <1>2 DEF Held, Holding
<1>4. permits' = permits + Held(tool[c]) - Held(t)
  BY <1>1, <1>3
<1>5. Heard(t, call[c])
  BY <1>2 DEF Inv, ResultInv, Heard
<1> QED
  BY <1>1, <1>2, <1>4, <1>5, ToolKeeps

\* A result of the tool's own making.
LEMMA LocalTyped ==
  ASSUME NEW code \in Codes, NEW id \in Ids
  PROVE  Local(code, id) \in [code : Codes \cup {None}, id : Ids, local : BOOLEAN]
         /\ Local(code, id).local
BY DEF Local

\* A tool is refused without a permit.
LEMMA RefuseToolStep ==
  ASSUME Inv, NEW c \in Calls, RefuseTool(c)
  PROVE  Inv'
<1> DEFINE result == Local("busy", NewId(c))
           t == [tool[c] EXCEPT !.stage = "ended", !.result = result]
<1>1. /\ tool[c] \in Tools /\ permits \in Int /\ tool[c].stage = "idle"
      /\ Becomes(c, t) /\ permits' = permits /\ UNCHANGED requestVars
  BY DEF Inv, TypeOK, RefuseTool, requestVars
<1>2. /\ result \in [code : Codes \cup {None}, id : Ids, local : BOOLEAN]
      /\ result.local
  BY LocalTyped, CodesAre DEF NewId, Ids
<1> HIDE DEF result
<1>3. t \in Tools /\ t.stage = "ended" /\ t.result = result
  BY <1>1, <1>2 DEF Tools
<1> HIDE DEF t
<1>4. Held(t) = 0 /\ Held(tool[c]) = 0
  BY <1>1, <1>3 DEF Held, Holding
<1>5. permits' = permits + Held(tool[c]) - Held(t) /\ Held(t) <= Held(tool[c])
  BY <1>1, <1>4
<1>6. Heard(t, call[c])
  BY <1>2, <1>3 DEF Heard
<1> QED
  BY <1>1, <1>3, <1>5, <1>6, ToolKeeps

\* The thread has a result, from the API or of its own making.
LEMMA ReturnStep ==
  ASSUME Inv, NEW c \in Calls, tool[c].stage \in {"sending", "calling"},
         NEW result \in [code : Codes \cup {None}, id : Ids, local : BOOLEAN],
         Return(c, result),
         result.code # None /\ ~result.local =>
           call[c].sent.code = result.code /\ call[c].sent.id = result.id
  PROVE  Inv'
<1> DEFINE t == [tool[c] EXCEPT !.stage = "returned", !.result = result]
<1>1. /\ tool[c] \in Tools /\ permits \in Int /\ Becomes(c, t) /\ permits' = permits
      /\ UNCHANGED requestVars
  BY DEF Inv, TypeOK, Return, requestVars
<1>2. t \in Tools /\ t.stage = "returned" /\ t.result = result
  BY <1>1 DEF Tools
<1> HIDE DEF t
<1>3. Held(t) = 1 /\ Held(tool[c]) = 1
  BY <1>2 DEF Held, Holding
<1>4. permits' = permits + Held(tool[c]) - Held(t) /\ Held(t) <= Held(tool[c])
  BY <1>1, <1>3
<1>5. Heard(t, call[c])
  BY <1>2 DEF Heard
<1> QED
  BY <1>1, <1>2, <1>4, <1>5, ToolKeeps

\* The thread fails to reach the API, or gives up waiting.
LEMMA GiveUpStep ==
  ASSUME Inv, NEW c \in Calls, GiveUp(c)
  PROVE  Inv'
<1>1. PICK why \in NetworkFailures : Return(c, Local(why, ToolId(c)))
  BY DEF GiveUp
<1>2. /\ Local(why, ToolId(c)) \in [code : Codes \cup {None}, id : Ids, local : BOOLEAN]
      /\ Local(why, ToolId(c)).local
  <2>1. why \in Codes /\ ToolId(c) \in Ids
    BY CodesAre DEF NetworkFailures, ToolId, Ids
  <2> QED
    BY <2>1, LocalTyped
<1> QED
  BY <1>1, <1>2, ReturnStep DEF GiveUp

\* What a tool makes of an answer is a failure of its own, or the answer.
LEMMA CheckedTyped ==
  ASSUME NEW c \in Calls, NEW reply \in Replies
  PROVE  /\ Checked(c, reply) \in [code : Codes \cup {None}, id : Ids, local : BOOLEAN]
         /\ ~Checked(c, reply).local =>
              Checked(c, reply).code = reply.code /\ Checked(c, reply).id = reply.id
<1>1. CASE reply.code = None \/ (reply.code # "ok" /\ reply.id # ToolId(c))
  <2>1. "dependency" \in Codes /\ ToolId(c) \in Ids
    BY CodesAre DEF ToolId, Ids
  <2>2. Checked(c, reply) = Local("dependency", ToolId(c))
    BY <1>1 DEF Checked
  <2> QED
    BY <2>1, <2>2, LocalTyped
<1>2. CASE ~(reply.code = None \/ (reply.code # "ok" /\ reply.id # ToolId(c)))
  <2>1. Checked(c, reply) = [code |-> reply.code, id |-> reply.id, local |-> FALSE]
    BY <1>2 DEF Checked
  <2> QED
    BY <2>1 DEF Replies
<1> QED
  BY <1>1, <1>2

\* The thread hears an answer, its own or another's.
LEMMA HearStep ==
  ASSUME Inv, NEW c \in Calls, HearAnswer(c) \/ HearForeign(c)
  PROVE  Inv'
<1>1. tool[c].stage = "calling"
  BY DEF HearAnswer, HearForeign
<1>2. CASE HearAnswer(c)
  <2>1. call[c].sent \in Replies
    BY DEF Inv, TypeOK, RequestTypeOK, Requests
  <2>2. Return(c, Checked(c, call[c].sent))
    BY <1>2 DEF HearAnswer
  <2> QED
    BY <1>1, <2>1, <2>2, CheckedTyped, ReturnStep
<1>3. CASE HearForeign(c)
  <2> DEFINE reply == Reply("unavailable", <<"foreign", c>>, NoContent)
  <2>1. reply \in Replies /\ reply.code = "unavailable" /\ reply.id = <<"foreign", c>>
    BY NoContentTyped, CodesAre DEF Reply, Replies, Ids
  <2>2. Return(c, Checked(c, reply))
    BY <1>3 DEF HearForeign
  <2>3. reply.id # ToolId(c)
    BY <2>1 DEF ToolId
  <2> HIDE DEF reply
  <2>4. Checked(c, reply).local
    BY <2>1, <2>3 DEF Checked, Local
  <2> QED
    BY <1>1, <2>1, <2>2, <2>4, CheckedTyped, ReturnStep
<1> QED
  BY <1>2, <1>3

\* The caller of a tool goes away, and the permit stays.
LEMMA CancelToolStep ==
  ASSUME Inv, NEW c \in Calls, CancelTool(c)
  PROVE  Inv'
<1> DEFINE t == [tool[c] EXCEPT !.cancelled = TRUE]
<1>1. /\ tool[c] \in Tools /\ permits \in Int /\ Becomes(c, t) /\ permits' = permits
      /\ UNCHANGED requestVars
  BY DEF Inv, TypeOK, CancelTool, requestVars
<1>2. t \in Tools /\ t.stage = tool[c].stage /\ t.result = tool[c].result
  BY <1>1 DEF Tools
<1> HIDE DEF t
<1>3. Held(t) = Held(tool[c]) /\ Held(t) \in Int
  BY <1>2 DEF Held
<1>4. permits' = permits + Held(tool[c]) - Held(t) /\ Held(t) <= Held(tool[c])
  BY <1>1, <1>3
<1>5. Heard(t, call[c])
  BY <1>2 DEF Inv, ResultInv, Heard
<1> QED
  BY <1>1, <1>2, <1>4, <1>5, ToolKeeps

\* The permit comes back.
LEMMA EndToolStep ==
  ASSUME Inv, NEW c \in Calls, EndTool(c)
  PROVE  Inv'
<1> DEFINE told == [tool[c] EXCEPT !.stage = "ended"]
           untold == [tool[c] EXCEPT !.stage = "ended", !.result = NoResult]
<1>1. /\ tool[c] \in Tools /\ permits \in Int /\ tool[c].stage = "returned"
      /\ permits' = permits + 1 /\ UNCHANGED requestVars
      /\ Becomes(c, IF tool[c].cancelled THEN untold ELSE told)
  BY DEF Inv, TypeOK, EndTool
<1>2. NoResult \in [code : Codes \cup {None}, id : Ids, local : BOOLEAN] /\ NoResult.code = None
  BY DEF NoResult, Ids
<1>3. /\ told \in Tools /\ told.stage = "ended" /\ told.result = tool[c].result
      /\ untold \in Tools /\ untold.stage = "ended" /\ untold.result = NoResult
  BY <1>1, <1>2 DEF Tools
<1> HIDE DEF told, untold
<1>4. PICK t \in {told, untold} : Becomes(c, t)
  BY <1>1
<1>5. t \in Tools /\ t.stage = "ended" /\ t.result \in {tool[c].result, NoResult}
  BY <1>3, <1>4
<1>6. Held(t) = 0 /\ Held(tool[c]) = 1
  BY <1>1, <1>5 DEF Held, Holding
<1>7. permits' = permits + Held(tool[c]) - Held(t) /\ Held(t) <= Held(tool[c])
  BY <1>1, <1>6
<1>8. Heard(t, call[c])
  BY <1>2, <1>5 DEF Inv, ResultInv, Heard
<1> QED
  BY <1>1, <1>4, <1>5, <1>7, <1>8, ToolKeeps

\* The adapter keeps a form typed.
LEMMA LimitedForm ==
  ASSUME NEW f \in Forms
  PROVE  [f EXCEPT !.header = "valid", !.page_size = Limited(@)] \in Forms
<1>1. Limited(f.page_size) \in Int
  <2> DEFINE least == Min({f.page_size, PageSizeLimit})
  <2>1. f.page_size \in Int /\ PageSizeLimit \in Int
    BY ToolSettings DEF Forms
  <2>2. least \in {f.page_size, PageSizeLimit}
    BY <2>1, MinOfTwo, Zenon
  <2> HIDE DEF least
  <2>3. 1 \in Int /\ least \in Int
    BY <2>1, <2>2
  <2>4. Max({1, least}) \in {1, least}
    BY <2>3, MaxOfTwo, Zenon
  <2> QED
    BY <2>3, <2>4 DEF Limited, least
<1> DEFINE g == [f EXCEPT !.header = "valid"]
<1>2. g \in Forms /\ g.page_size = f.page_size
  BY DEF Forms
<1>3. [f EXCEPT !.header = "valid", !.page_size = Limited(@)]
      = [g EXCEPT !.page_size = Limited(f.page_size)]
  BY <1>2
<1> DEFINE size == Limited(f.page_size)
<1> HIDE DEF g, size
<1>4. [g EXCEPT !.page_size = size] \in Forms
  BY <1>1, <1>2 DEF Forms, size
<1> QED
  BY <1>3, <1>4 DEF size

\* A tool makes its request.
LEMMA SendToolStep ==
  ASSUME Inv, NEW c \in Calls, SendTool(c)
  PROVE  Inv'
<1> DEFINE form == [call[c].form EXCEPT !.header = "valid", !.page_size = Limited(@)]
           t == [tool[c] EXCEPT !.stage = "calling"]
<1>1. /\ tool[c] \in Tools /\ tool[c].stage = "sending" /\ Arrive(c, ToolId(c), form)
      /\ tool' = [tool EXCEPT ![c] = t] /\ UNCHANGED permits
  BY DEF Inv, TypeOK, SendTool, Becomes
<1>2. form \in Forms
  <2>1. call[c].form \in Forms
    BY DEF Inv, TypeOK, RequestTypeOK, Requests
  <2>2. PICK f : f = call[c].form
    OBVIOUS
  <2> QED
    BY <2>1, LimitedForm
<1>3. ToolId(c) \in Ids \ {NoId}
  BY DEF ToolId, Ids, NoId
<1> HIDE DEF form
<1>4. PICK s \in Requests : Goes(c, s)
  BY <1>1, <1>2, <1>3, ArriveStep DEF Inv, TypeOK, RequestInv
<1>5. t \in Tools /\ t.stage = "calling" /\ t.result = tool[c].result
  BY <1>1 DEF Tools
<1>6. Held(t) = Held(tool[c])
  BY <1>1, <1>5 DEF Held, Holding
<1> HIDE DEF t
<1> QED
  BY <1>1, <1>4, <1>5, <1>6, RequestKeeps

\* A client makes a request.
LEMMA ArriveDirectlyStep ==
  ASSUME Inv, NEW c \in Calls, ArriveDirectly(c)
  PROVE  Inv'
<1>1. /\ tool[c] \in Tools /\ Arrive(c, <<"client", c>>, call[c].form)
      /\ UNCHANGED <<tool, permits>> /\ call[c].form \in Forms /\ tool \in [Calls -> Tools]
  BY DEF Inv, TypeOK, RequestTypeOK, Requests, ArriveDirectly
<1>2. <<"client", c>> \in Ids \ {NoId}
  BY DEF Ids, NoId
<1>3. PICK s \in Requests : Goes(c, s)
  BY <1>1, <1>2, ArriveStep DEF Inv, TypeOK, RequestInv
<1>4. tool' = [tool EXCEPT ![c] = tool[c]]
  BY <1>1
<1> QED
  BY <1>1, <1>3, <1>4, RequestKeeps

-----------------------------------------------------------------------------
\* A request that has not arrived.
LEMMA FreshIsGood ==
  ASSUME NEW f \in Forms
  PROVE  Fresh(f) \in Requests /\ Good(Fresh(f)) /\ ~Live(Fresh(f)) /\ Fresh(f).sent = NoReply
<1> DEFINE r == Fresh(f)
<1>1. /\ r.stage \in {"waiting", "done"} /\ r.form = f /\ r.id = NoId /\ r.received = 0
      /\ r.response_code = "ok" /\ r.sent = NoReply /\ r.logged = NoRecord /\ r.body = NoBody
      /\ r.rank = NoRank /\ r.rest = f.chunks
  BY DEF Fresh
<1>2. NoReply \in Replies /\ NoRecord \in Records /\ NoId \in Ids
  <2>1. NoId \in Ids
    BY DEF Ids
  <2> QED
    BY <2>1, NoContentTyped DEF NoReply, Reply, Replies, NoRecord, Records
<1>3. NoRank \in Ranks
  <2>1. 0 \in 0..MaxKey /\ 0 \in 0..MaxChanges
    BY RequestBounds
  <2> QED
    BY <2>1 DEF NoRank, Ranks
<1>4. r \in Requests
  <2>1. f.chunks \in Seq(Nat) /\ "ok" \in Codes /\ r.stage \in Stages
    BY <1>1, CodesAre DEF Forms, Stages
  <2>2. r = [stage |-> r.stage, form |-> f, id |-> NoId, received |-> 0, rest |-> f.chunks,
             response_code |-> "ok", sent |-> NoReply, logged |-> NoRecord, body |-> NoBody,
             rank |-> NoRank]
    BY DEF Fresh
  <2> HIDE DEF r
  <2> QED
    BY <1>2, <1>3, <2>1, <2>2, NoBodyTyped DEF Requests
<1> HIDE DEF r
<1>5. NoReply.code = None /\ NoReply.content.next_page = 0 /\ NoReply.content.status = None
  BY DEF NoReply, Reply, NoContent
<1>6. HistoryInv(r) /\ SizeInv(r)
  BY <1>1, <1>5 DEF HistoryInv, SizeInv, Open, Ranking, Lost
<1>7. Placed(r) /\ Aimed(r) /\ NextPageIsAccepted(r) /\ Counted(r)
  BY <1>1, <1>5 DEF Placed, Aimed, NextPageIsAccepted, Counted, Ranking, None
<1> QED
  BY <1>1, <1>4, <1>6, <1>7 DEF Good, Live, r

\* The invariant holds at first, for any forms, tools and documents.
LEMMA InitInv ==
  ASSUME NEW forms \in [Calls -> Forms], NEW tools \in SUBSET Calls,
         NEW documents \in [Documents -> Entries], Init(forms, tools, documents)
  PROVE  Inv
<1>1. /\ call = [c \in Calls |-> Fresh(forms[c])] /\ inFlight = 0 /\ index = documents
      /\ changes = 0 /\ permits = ToolCapacity
      /\ tool = [c \in Calls |-> IF c \in tools THEN Tool("idle") ELSE Tool("none")]
  BY DEF Init, RequestInit
<1>2. ASSUME NEW c \in Calls
      PROVE  /\ call[c] \in Requests /\ Good(call[c]) /\ ~Live(call[c]) /\ call[c].sent = NoReply
  <2>1. PICK f \in Forms : f = forms[c] /\ call[c] = Fresh(f)
    BY <1>1
  <2> QED
    BY <2>1, FreshIsGood
<1>3. ASSUME NEW c \in Calls
      PROVE  tool[c] \in Tools /\ tool[c].stage \in {"idle", "none"} /\ tool[c].result.code = None
  <2>1. PICK stage \in {"idle", "none"} : tool[c] = Tool(stage)
    BY <1>1
  <2> QED
    BY <2>1 DEF Tool, Tools, NoResult, Ids
<1>4. RequestTypeOK
  <2>1. call \in [Calls -> Requests]
    BY <1>1, <1>2
  <2>2. 0 \in 0..MaxChanges
    BY RequestBounds
  <2> QED
    BY <1>1, <2>1, <2>2 DEF RequestTypeOK
<1>5. TypeOK
  BY <1>1, <1>3, <1>4, ToolSettings DEF TypeOK
<1>6. RequestInv
  BY <1>2 DEF RequestInv
<1>7. GaugeInv
  <2>1. {c \in Calls : Live(call[c])} = {}
    BY <1>2
  <2> QED
    BY <1>1, <2>1, FS_EmptySet DEF GaugeInv
<1>8. PermitInv
  <2>1. Holders = {}
    BY <1>3 DEF Holders, Holding
  <2> QED
    BY <1>1, <2>1, FS_EmptySet, ToolSettings DEF PermitInv
<1>9. ResultInv
  BY <1>3 DEF ResultInv, Heard
<1> QED
  BY <1>5, <1>6, <1>7, <1>8, <1>9 DEF Inv

\* Every action keeps it.
LEMMA NextKeeps ==
  ASSUME Inv, Next
  PROVE  Inv'
<1>1. CASE \E d \in Documents : Change(d) /\ UNCHANGED <<tool, permits>>
  <2>1. PICK d \in Documents : Change(d) /\ UNCHANGED <<tool, permits>>
    BY <1>1
  <2>2. RequestTypeOK' /\ RequestInv' /\ GaugeInv' /\ call' = call
    BY <2>1, ChangeStep DEF Inv, TypeOK, Change
  <2> QED
    BY <2>1, <2>2 DEF Inv, TypeOK, PermitInv, Holders, ResultInv, Heard
<1>2. ASSUME NEW c \in Calls, Receiving(c) \/ Interruption(c) \/ Serve(c),
             UNCHANGED <<tool, permits>>
      PROVE  Inv'
  <2>1. PICK s \in Requests : Goes(c, s)
    BY <1>2, CallStep DEF Inv, TypeOK, RequestInv
  <2>2. tool[c] \in Tools /\ tool' = [tool EXCEPT ![c] = tool[c]]
    BY <1>2 DEF Inv, TypeOK
  <2> QED
    BY <1>2, <2>1, <2>2, RequestKeeps
<1>3. ASSUME NEW c \in Calls,
             \/ ArriveDirectly(c)
             \/ StartTool(c) \/ RefuseTool(c) \/ ThreadOf(c) \/ CancelTool(c) \/ EndTool(c)
             \/ (Receiving(c) \/ Interruption(c)) /\ UNCHANGED <<tool, permits>>
             \/ Served(c)
      PROVE  Inv'
  <2>1. CASE ArriveDirectly(c)
    BY <2>1, ArriveDirectlyStep
  <2>2. CASE StartTool(c) \/ RefuseTool(c) \/ CancelTool(c) \/ EndTool(c)
    BY <2>2, StartToolStep, RefuseToolStep, CancelToolStep, EndToolStep
  <2>3. CASE ThreadOf(c)
    BY <2>3, SendToolStep, GiveUpStep, HearStep DEF ThreadOf
  <2>4. CASE (Receiving(c) \/ Interruption(c)) /\ UNCHANGED <<tool, permits>>
    BY <1>2, <2>4
  <2>5. CASE Served(c)
    BY <1>2, <2>5 DEF Served
  <2> QED
    BY <1>3, <2>1, <2>2, <2>3, <2>4, <2>5
<1> QED
  BY <1>1, <1>3 DEF Next

\* So does doing nothing.
LEMMA StutterKeeps ==
  ASSUME Inv, UNCHANGED toolVars
  PROVE  Inv'
<1>1. UNCHANGED <<call, inFlight, index, changes, tool, permits>>
  BY DEF toolVars
<1>2. TypeOK'
  BY <1>1 DEF Inv, TypeOK, RequestTypeOK
<1>3. RequestInv'
  <2>1. ASSUME NEW d \in Calls PROVE Good(call[d])'
    <3>1. PICK r : r = call[d] /\ Good(r) /\ call'[d] = r
      BY <1>1 DEF Inv, RequestInv
    <3> QED
      BY <1>1, <3>1, GoodKept
  <2> QED
    BY <2>1 DEF RequestInv
<1>4. GaugeInv' /\ PermitInv' /\ ResultInv'
  BY <1>1 DEF Inv, GaugeInv, Live, PermitInv, Holders, ResultInv, Heard
<1> QED
  BY <1>2, <1>3, <1>4 DEF Inv

\* The inductive invariant.
LEMMA Invariance == Spec => []Inv
<1>1. (\E forms \in [Calls -> Forms], tools \in SUBSET Calls, documents \in [Documents -> Entries] :
          Init(forms, tools, documents)) => Inv
  BY InitInv
<1>2. Inv /\ [Next]_toolVars => Inv'
  BY NextKeeps, StutterKeeps
<1> QED
  BY <1>1, <1>2, PTL DEF Spec

\* Every request, every tool call and the index stay of their types.
THEOREM TypesHold == Spec => []TypeOK
<1>1. Inv => TypeOK
  BY DEF Inv
<1> QED
  BY <1>1, Invariance, PTL

\* What a search asks of the index stays in the result window of the budget and in the k hits
\* of a vector request, and the next page an answer offers is one the service accepts
\* (QueryBudget.validate_page, SearchService._next_page): for every budget and every form.
THEOREM PagesHold == Spec => []PagesStayInTheWindow
<1>1. Inv => PagesStayInTheWindow
  <2> SUFFICES ASSUME Inv, NEW c \in Calls
               PROVE  PageIsInReach(call[c]) /\ NextPageIsAccepted(call[c])
    BY DEF PagesStayInTheWindow
  <2> DEFINE r == call[c]
  <2>1. r \in Requests /\ Placed(r) /\ NextPageIsAccepted(r)
    BY DEF Inv, TypeOK, RequestTypeOK, RequestInv, Good
  <2>2. ASSUME r.stage = "asking" PROVE PageIsInReach(r)
    <3>1. /\ r.form \in Forms /\ ~PageIsInvalid(r.form) /\ ~OutOfRange(r.form, Budget)
          /\ r.form.path = "search"
          /\ r.body.from = Offset(r.form) /\ r.body.size = r.form.page_size
          /\ r.form.mode = "boolean" => r.body.vectors = {}
          /\ r.form.mode # "boolean" =>
               SemanticRefusal(r.form) = "none" /\ r.body.k = r.form.top_k
      BY <2>1, <2>2 DEF Placed, Requests
    <3> DEFINE f == r.form
    <3>2. /\ f.page \in Int /\ f.page_size \in Int /\ f.top_k \in Int /\ f.semantic \in Nat
      BY <3>1 DEF Forms
    <3>3. /\ Budget["window"] \in Nat /\ Hard["page_size"] \in Nat /\ Budget["chars"] \in Nat
          /\ Budget["page_size"] \in Nat
      BY BudgetNat DEF Limits
    <3>4. /\ f.page \in Nat /\ f.page_size \in Nat \ {0} /\ f.page_size <= Budget["page_size"]
          /\ f.page <= Budget["window"] \div f.page_size
      BY <3>1, <3>2, <3>3 DEF PageIsInvalid, OutOfRange, MaxAccessiblePage
    <3>5. f.page * f.page_size <= Budget["window"]
      BY <3>3, <3>4, PagesFit
    <3>6. r.body.from + r.body.size = f.page * f.page_size
      BY <3>1, <3>2 DEF Offset
    <3>7. ASSUME r.body.vectors # {} PROVE r.body.from + r.body.size <= r.body.k
      <4>1. SemanticRefusal(f) = "none" /\ r.body.k = f.top_k
        BY <3>1, <3>7
      <4>2. ~(Offset(f) + f.page_size > f.top_k)
        BY <3>2, <3>3, <4>1 DEF SemanticRefusal
      <4>3. Offset(f) \in Int
        BY <3>2 DEF Offset
      <4> QED
        BY <3>1, <3>2, <4>1, <4>2, <4>3
    <3> QED
      BY <3>1, <3>4, <3>5, <3>6, <3>7 DEF PageIsInReach
  <2>3. ASSUME r.stage # "asking" PROVE PageIsInReach(r)
    BY <2>3 DEF PageIsInReach
  <2> QED
    BY <2>1, <2>2, <2>3
<1> QED
  BY <1>1, Invariance, PTL

\* A body is refused for its size if and only if it was declared or had become too large
\* (QueryRequestBodyLimitMiddleware), in whatever pieces it comes.
THEOREM BodyLimitHolds == Spec => []BodyLimitIsExact
<1>1. Inv => BodyLimitIsExact
  BY DEF Inv, RequestInv, Good, SizeInv, BodyLimitIsExact
<1> QED
  BY <1>1, Invariance, PTL

\* A rank is exact if the index did not change while it was put together, and a pair of counts
\* otherwise (SearchService.target_rank), whatever the keys and however many documents tie.
THEOREM RankHolds == Spec => []RankIsExactWhileStill
<1>1. Inv => RankIsExactWhileStill
  <2> SUFFICES ASSUME Inv, NEW c \in Calls, call[c].sent.content.status = "matched"
               PROVE  LET r == call[c]
                          answer == r.sent.content
                      IN  /\ answer.rank >= 1 /\ answer.tied >= 0
                          /\ changes = r.rank.since =>
                               /\ r.rank.target \in Hits
                               /\ answer.rank = 1 + Cardinality(Before(r))
                               /\ answer.tied = Cardinality(Beside(r))
    BY DEF RankIsExactWhileStill
  <2>1. Counted(call[c]) /\ call[c] \in Requests
    BY DEF Inv, TypeOK, RequestTypeOK, RequestInv, Good
  <2>2. call[c].sent.content.tied \in Nat
    BY <2>1 DEF Requests, Replies, Contents
  <2> QED
    BY <2>1, <2>2 DEF Counted
<1> QED
  BY <1>1, Invariance, PTL

\* No more threads run tools than there are permits, whoever of their callers was cancelled,
\* and no permit is lost (run_tool with abandon_on_cancel=False).
THEOREM ToolThreadsHold == Spec => []ToolThreadsAreBounded
<1>1. Inv => ToolThreadsAreBounded
  <2> SUFFICES ASSUME Inv PROVE ToolThreadsAreBounded
    OBVIOUS
  <2> DEFINE A == {c \in Calls : tool[c].stage \in {"sending", "calling"}}
             B == {c \in Calls : tool[c].stage \in {"sending", "calling", "returned"}}
  <2>1. permits \in Int /\ permits >= 0 /\ permits + Cardinality(B) = ToolCapacity
    BY DEF Inv, TypeOK, PermitInv, Holders, Holding
  <2>2. A \in SUBSET Calls /\ B \in SUBSET Calls /\ A \subseteq B
    OBVIOUS
  <2>3. ToolThreadsAreBounded <=>
          Cardinality(A) <= ToolCapacity /\ permits + Cardinality(B) = ToolCapacity
    BY DEF ToolThreadsAreBounded
  <2> HIDE DEF A, B
  <2>4. Cardinality(A) <= Cardinality(B) /\ Cardinality(A) \in Nat /\ Cardinality(B) \in Nat
    BY <2>2, CallsAreFinite, FS_Subset
  <2> QED
    BY <2>1, <2>3, <2>4, ToolSettings
<1> QED
  BY <1>1, Invariance, PTL

\* What the service records of a request, what it answered and what a tool reports of it have
\* one code and one identifier, and the gauge counts the requests without a record
\* (RequestContextMiddleware, known_error_response, _ValidatedHttpClient.request).
THEOREM TracesHold == Spec => []AnswersCanBeTraced
<1>1. Inv => AnswersCanBeTraced
  <2> SUFFICES ASSUME Inv PROVE AnswersCanBeTraced
    OBVIOUS
  <2>1. inFlight = Cardinality({c \in Calls : call[c].logged = NoRecord /\ call[c].id # NoId})
    BY DEF Inv, GaugeInv, Live
  <2>2. ASSUME NEW c \in Calls, call[c].stage = "done", call[c].id # NoId
        PROVE  LET r == call[c]
               IN  /\ r.logged.id = r.id
                   /\ IF r.sent.code = None THEN r.logged.code = "internal"
                      ELSE /\ r.logged.code = r.sent.code /\ r.sent.id = r.id
                           /\ r.logged.status = Status[r.sent.code]
    BY <2>2 DEF Inv, RequestInv, Good, HistoryInv
  <2>3. RecordsMatchAnswers
    BY <2>1, <2>2 DEF RecordsMatchAnswers
  <2>4. ASSUME NEW c \in Calls, tool[c].result.code \notin {None, "ok"}, ~tool[c].result.local
        PROVE  /\ tool[c].result.id = call[c].id
               /\ call[c].logged # NoRecord =>
                    /\ call[c].logged.id = tool[c].result.id
                    /\ call[c].logged.code = tool[c].result.code
    <3> DEFINE r == call[c]
    <3>1. /\ r.sent.code = tool[c].result.code /\ r.sent.id = tool[c].result.id
          /\ r.sent.code # None
      BY <2>4 DEF Inv, ResultInv, Heard
    <3>2. NoReply.code = None
      BY DEF NoReply, Reply
    <3>3. HistoryInv(r) /\ r.stage \in Stages
      BY DEF Inv, TypeOK, RequestTypeOK, Requests, RequestInv, Good
    <3>4. r.stage \in {"answered", "done"}
      BY <3>1, <3>2, <3>3 DEF HistoryInv, Stages, Lost
    <3>5. r.stage = "done" => r.id # NoId
      BY <3>1, <3>2, <3>3 DEF HistoryInv
    <3> QED
      BY <3>1, <3>3, <3>4, <3>5 DEF HistoryInv
  <2>5. ToolErrorsCanBeTraced
    BY <2>4 DEF ToolErrorsCanBeTraced
  <2> QED
    BY <2>3, <2>5 DEF AnswersCanBeTraced
<1> QED
  BY <1>1, Invariance, PTL

\* A request is answered once and recorded once (RequestContextMiddleware,
\* QueryRequestBodyLimitMiddleware): no step takes either back, in whatever order
\* interruptions, changes of the index and tools come.
THEOREM AnswersStayFinal == Spec => AnswersAreFinal
<1> DEFINE Final == \A c \in Calls :
                      /\ call[c].sent.code # None => call'[c].sent = call[c].sent
                      /\ call[c].logged # NoRecord => call'[c].logged = call[c].logged
<1>1. ASSUME Inv, NEW d \in Calls, NEW s \in Requests, Goes(d, s)
      PROVE  Final
  <2>1. call'[d] = s /\ \A c \in Calls \ {d} : call'[c] = call[c]
    BY <1>1, GoesTyped DEF Inv, TypeOK
  <2>2. /\ call[d].sent.code # None => s.sent = call[d].sent
        /\ call[d].logged # NoRecord => s.logged = call[d].logged
    BY <1>1 DEF Goes
  <2> QED
    BY <2>1, <2>2
<1>2. ASSUME UNCHANGED call
      PROVE  Final
  BY <1>2
<1>3. ASSUME Inv, Next
      PROVE  Final
  <2>1. CASE \E d \in Documents : Change(d) /\ UNCHANGED <<tool, permits>>
    BY <1>2, <2>1 DEF Change
  <2>2. ASSUME NEW c \in Calls, Receiving(c) \/ Interruption(c) \/ Serve(c)
        PROVE  Final
    <3>1. PICK s \in Requests : Goes(c, s)
      BY <1>3, <2>2, CallStep DEF Inv, TypeOK, RequestInv
    <3> QED
      BY <1>1, <1>3, <3>1
  <2>3. ASSUME NEW c \in Calls, NEW client \in Ids \ {NoId}, NEW form \in Forms,
               Arrive(c, client, form)
        PROVE  Final
    <3>1. PICK s \in Requests : Goes(c, s)
      BY <1>3, <2>3, ArriveStep DEF Inv, TypeOK, RequestInv
    <3> QED
      BY <1>1, <1>3, <3>1
  <2>4. ASSUME NEW c \in Calls, ArriveDirectly(c)
        PROVE  Final
    <3>1. <<"client", c>> \in Ids \ {NoId} /\ call[c].form \in Forms
      BY <1>3 DEF Ids, NoId, Inv, TypeOK, RequestTypeOK, Requests
    <3>2. Arrive(c, <<"client", c>>, call[c].form)
      BY <2>4 DEF ArriveDirectly
    <3> HIDE DEF Final
    <3> QED
      BY <2>3, <3>1, <3>2
  <2>5. ASSUME NEW c \in Calls, SendTool(c)
        PROVE  Final
    <3> DEFINE form == [call[c].form EXCEPT !.header = "valid", !.page_size = Limited(@)]
    <3>1. ToolId(c) \in Ids \ {NoId} /\ form \in Forms
      <4>1. call[c].form \in Forms
        BY <1>3 DEF Inv, TypeOK, RequestTypeOK, Requests
      <4>2. form \in Forms
        BY <4>1, LimitedForm
      <4> QED
        BY <4>2 DEF ToolId, Ids, NoId
    <3>2. Arrive(c, ToolId(c), form)
      BY <2>5 DEF SendTool
    <3> HIDE DEF Final, form
    <3> QED
      BY <2>3, <3>1, <3>2
  <2>6. ASSUME NEW c \in Calls,
               StartTool(c) \/ RefuseTool(c) \/ GiveUp(c) \/ HearAnswer(c) \/ HearForeign(c)
               \/ CancelTool(c) \/ EndTool(c)
        PROVE  Final
    <3>1. UNCHANGED call
      BY <2>6 DEF StartTool, RefuseTool, GiveUp, HearAnswer, HearForeign, Return, CancelTool,
                  EndTool, requestVars
    <3> HIDE DEF Final
    <3> QED
      BY <1>2, <3>1
  <2>7. CASE \E c \in Calls :
               \/ ArriveDirectly(c)
               \/ StartTool(c) \/ RefuseTool(c) \/ ThreadOf(c) \/ CancelTool(c) \/ EndTool(c)
               \/ (Receiving(c) \/ Interruption(c)) /\ UNCHANGED <<tool, permits>>
               \/ Served(c)
    <3> HIDE DEF Final
    <3> QED
      BY <2>2, <2>4, <2>5, <2>6, <2>7 DEF ThreadOf, Served
  <2> HIDE DEF Final
  <2> QED
    BY <1>3, <2>1, <2>7 DEF Next
<1>4. Inv /\ [Next]_toolVars => [Final]_toolVars
  BY <1>3
<1> QED
  BY <1>4, Invariance, PTL DEF Spec, AnswersAreFinal

-----------------------------------------------------------------------------
(* The permits of the tools, as a limiter *)

\* A tool takes its permit when it starts and holds it until its thread has returned,
\* whatever becomes of the caller.
LEMMA HoldersStep ==
  ASSUME Inv, [Next]_toolVars
  PROVE  [ToolSlots!Next]_Holders
<1>1. tool \in [Calls -> Tools] /\ permits \in Int /\ permits >= 0
      /\ permits + Cardinality(Holders) = ToolCapacity
  BY DEF Inv, TypeOK, PermitInv
<1>2. ASSUME NEW c \in Calls, NEW t, Becomes(c, t), t.stage \in Holding <=> c \in Holders
      PROVE  Holders' = Holders
  BY <1>1, <1>2 DEF Becomes, Holders
<1>3. ASSUME NEW c \in Calls, StartTool(c) PROVE ToolSlots!Next
  <2> DEFINE t == [tool[c] EXCEPT !.stage = "sending"]
  <2>1. Becomes(c, t) /\ tool[c].stage = "idle" /\ permits > 0
    BY <1>3 DEF StartTool
  <2>2. t.stage = "sending"
    BY <1>1 DEF Tools
  <2> HIDE DEF t
  <2>3. c \notin Holders /\ Holders' = Holders \cup {c}
    BY <1>1, <2>1, <2>2 DEF Becomes, Holders, Holding
  <2>4. Cardinality(Holders) < ToolCapacity
    <3>1. Cardinality(Holders) \in Nat
      BY CallsAreFinite, FS_Subset, FS_CardinalityType DEF Holders
    <3> QED
      BY <1>1, <2>1, <3>1, ToolSettings
  <2> QED
    BY <2>3, <2>4 DEF ToolSlots!Next, ToolSlots!Take, ToolSlots!Cardinality, Cardinality
<1>4. ASSUME NEW c \in Calls, EndTool(c) PROVE ToolSlots!Next
  <2> DEFINE t == IF tool[c].cancelled
                  THEN [tool[c] EXCEPT !.stage = "ended", !.result = NoResult]
                  ELSE [tool[c] EXCEPT !.stage = "ended"]
  <2>1. Becomes(c, t) /\ tool[c].stage = "returned" /\ t.stage = "ended"
    BY <1>1, <1>4 DEF EndTool, Tools
  <2> HIDE DEF t
  <2>2. c \in Holders /\ Holders' = Holders \ {c}
    BY <1>1, <2>1 DEF Becomes, Holders, Holding
  <2> QED
    BY <2>2 DEF ToolSlots!Next, ToolSlots!Give
<1>5. ASSUME NEW c \in Calls, RefuseTool(c) PROVE Holders' = Holders
  <2> DEFINE t == [tool[c] EXCEPT !.stage = "ended", !.result = Local("busy", NewId(c))]
  <2>1. Becomes(c, t) /\ tool[c].stage = "idle" /\ t.stage = "ended"
    BY <1>1, <1>5 DEF RefuseTool, Tools
  <2> HIDE DEF t
  <2> QED
    BY <1>2, <2>1 DEF Holders, Holding
<1>6. ASSUME NEW c \in Calls, CancelTool(c) PROVE Holders' = Holders
  <2>1. PICK t : Becomes(c, t) /\ t.stage = tool[c].stage
    BY <1>1, <1>6 DEF CancelTool, Tools
  <2> QED
    BY <1>2, <2>1 DEF Holders
<1>7. ASSUME NEW c \in Calls, ThreadOf(c) PROVE Holders' = Holders
  <2>1. ASSUME NEW result, Return(c, result), tool[c].stage \in Holding PROVE Holders' = Holders
    <3> DEFINE t == [tool[c] EXCEPT !.stage = "returned", !.result = result]
    <3>1. Becomes(c, t) /\ t.stage = "returned"
      BY <1>1, <2>1 DEF Return, Tools
    <3> HIDE DEF t
    <3> QED
      BY <1>2, <2>1, <3>1 DEF Holders, Holding
  <2>2. CASE SendTool(c)
    <3> DEFINE t == [tool[c] EXCEPT !.stage = "calling"]
    <3>1. Becomes(c, t) /\ t.stage = "calling" /\ tool[c].stage = "sending"
      BY <1>1, <2>2 DEF SendTool, Tools
    <3> HIDE DEF t
    <3> QED
      BY <1>2, <3>1 DEF Holders, Holding
  <2>3. CASE GiveUp(c) \/ HearAnswer(c) \/ HearForeign(c)
    <3>1. tool[c].stage \in Holding /\ \E result : Return(c, result)
      BY <2>3 DEF GiveUp, HearAnswer, HearForeign, Holding
    <3> QED
      BY <2>1, <3>1
  <2> QED
    BY <1>7, <2>2, <2>3 DEF ThreadOf
<1>8. ASSUME tool' = tool PROVE Holders' = Holders
  BY <1>8 DEF Holders
<1>9. CASE UNCHANGED toolVars
  BY <1>8, <1>9 DEF toolVars
<1>10. CASE \E d \in Documents : Change(d) /\ UNCHANGED <<tool, permits>>
  BY <1>8, <1>10
<1>11. ASSUME NEW c \in Calls,
              \/ ArriveDirectly(c) \/ Served(c)
              \/ (Receiving(c) \/ Interruption(c)) /\ UNCHANGED <<tool, permits>>
       PROVE  Holders' = Holders
  <2>1. tool' = tool
    BY <1>11 DEF ArriveDirectly, Served
  <2> QED
    BY <1>8, <2>1
<1> QED
  BY <1>3, <1>4, <1>5, <1>6, <1>7, <1>9, <1>10, <1>11 DEF Next

\* The tools are limited as plain slots are: cancelling a caller frees none, and a tool that
\* is refused has taken none (run_tool with abandon_on_cancel=False).
THEOREM ToolsAreLimited == Spec => ToolsHoldSlots
<1>1. (\E forms \in [Calls -> Forms], tools \in SUBSET Calls, documents \in [Documents -> Entries] :
          Init(forms, tools, documents)) => ToolSlots!Init
  BY DEF Init, Tool, ToolSlots!Init, Holders, Holding
<1>2. Inv /\ [Next]_toolVars => [ToolSlots!Next]_Holders
  BY HoldersStep
<1> QED
  BY <1>1, <1>2, Invariance, PTL DEF Spec, ToolsHoldSlots, ToolSlots!Spec

-----------------------------------------------------------------------------
(***************************************************************************)
(* The query language: what TLAPS proves of QueryDsl, for every corpus,    *)
(* every table of codes, dates and years and trees of every height.        *)
(*                                                                         *)
(* The definitions of QueryDsl are recursive functions on trees and on     *)
(* clauses.  That each is satisfied is proved, not assumed: a function on  *)
(* the trees of a height extends to the next, as the value of a tree       *)
(* depends on those of its parts alone.  The equations of the definitions  *)
(* follow, kind by kind, and the theorems by induction on the height.      *)
(***************************************************************************)

\* A set of numbers that is not empty has a least one.
LEMMA LeastNumber ==
  ASSUME NEW S \in SUBSET Nat, S # {}
  PROVE  \E n \in S : \A m \in S : n <= m
<1> DEFINE R == OpToRel(<, Nat)
<1>1. IsWellFoundedOn(R, Nat)
  BY NatLessThanWellFounded
<1>2. \A m, n \in Nat : m < n => <<m, n>> \in R
  BY Zenon DEF OpToRel
<1> HIDE DEF R
<1>3. PICK n \in S : \A m \in S : <<m, n>> \notin R
  BY <1>1, WFMin
<1>4. ASSUME NEW m \in S PROVE n <= m
  <2>1. ~(m < n)
    BY <1>2, <1>3, <1>4
  <2> QED
    BY <2>1
<1> QED
  BY <1>4

\* What holds of no height and of the next height holds of every height: the induction of
\* this part, over a set because the provers take no operator for a parameter.
LEMMA Climb ==
  ASSUME NEW top \in Nat, NEW S, 0 \in S, \A n \in 0..top : n \in S /\ n < top => n + 1 \in S
  PROVE  0..top \subseteq S
<1> DEFINE missed == {n \in 0..top : n \notin S}
<1>1. missed \in SUBSET Nat
  OBVIOUS
<1>2. ASSUME missed # {} PROVE FALSE
  <2>1. PICK n \in missed : \A m \in missed : n <= m
    BY <1>1, <1>2, LeastNumber
  <2>2. n # 0 /\ n \in Nat
    BY <1>1
  <2>3. n - 1 \in 0..top /\ n - 1 \notin missed /\ n - 1 < top
    BY <2>1, <2>2
  <2>4. n \in S
    BY <2>2, <2>3
  <2> QED
    BY <2>4
<1> QED
  BY <1>2

\* The height of the highest trees and of the highest clauses.
Top == MaxHeight + 1

LEMMA TopIsAHeight ==
  Top \in Nat /\ Heights = 0..Top /\ Trees = TreesTo[Top]
BY HeightIsBounded DEF Top, Heights, Trees

QueryTop == MaxHeight + 3

LEMMA QueryTopIsAHeight ==
  QueryTop \in Nat /\ ClauseHeights = 0..QueryTop /\ Queries = ClausesTo[QueryTop]
BY HeightIsBounded DEF QueryTop, ClauseHeights, Queries

\* The trees of every height: the recursive definition of TreesTo is satisfied.
LEMMA TreesByHeight ==
  /\ TreesTo[0] = {}
  /\ \A h \in Heights : h + 1 \in Heights => TreesTo[h + 1] = Grown(TreesTo[h])
<1> DEFINE step(f, i) == IF i = 0 THEN {} ELSE Grown(f[i - 1])
           is(f, n) == f = [i \in 0..n |-> step(f, i)]
           S == {n \in Nat : \E f : is(f, n)}
<1>0. Top \in Nat /\ Heights = 0..Top
  BY TopIsAHeight
<1>1. 0 \in S
  <2> DEFINE f == [i \in 0..0 |-> {}]
  <2>1. is(f, 0)
    OBVIOUS
  <2> QED
    BY <2>1
<1>2. ASSUME NEW n \in 0..Top, n \in S, n < Top PROVE n + 1 \in S
  <2>0. n \in Nat /\ n + 1 \in Nat
    BY <1>0
  <2>1. PICK f : is(f, n)
    BY <1>2
  <2> DEFINE g == [i \in 0..(n + 1) |-> step(f, i)]
  <2> HIDE DEF step
  <2>2. \A i \in 0..n : g[i] = f[i]
    BY <2>0, <2>1
  <2>3. \A i \in 0..(n + 1) : step(f, i) = step(g, i)
    <3> SUFFICES ASSUME NEW i \in 0..(n + 1), i # 0 PROVE f[i - 1] = g[i - 1]
      BY DEF step
    <3>1. i - 1 \in 0..n
      BY <2>0
    <3> HIDE DEF g
    <3> QED
      BY <2>2, <3>1
  <2>4. is(g, n + 1)
    BY <2>3
  <2> HIDE DEF is
  <2> QED
    BY <2>0, <2>4
<1> HIDE DEF S
<1>3. 0..Top \subseteq S
  BY <1>0, <1>1, <1>2, Climb
<1>4. \E f : f = [i \in Heights |-> step(f, i)]
  <2> HIDE DEF step
  <2>1. Top \in S
    BY <1>0, <1>3
  <2> QED
    BY <1>0, <2>1 DEF S
<1>5. TreesTo = [i \in Heights |-> step(TreesTo, i)]
  BY <1>4 DEF TreesTo
<1> HIDE DEF step
<1>6. \A i \in Heights : TreesTo[i] = step(TreesTo, i)
  BY <1>5
<1>7. TreesTo[0] = {}
  BY <1>0, <1>6 DEF step
<1>8. ASSUME NEW h \in Heights, h + 1 \in Heights PROVE TreesTo[h + 1] = Grown(TreesTo[h])
  <2>1. h \in Nat /\ h + 1 # 0 /\ h + 1 - 1 = h
    BY <1>0
  <2> QED
    BY <1>6, <1>8, <2>1 DEF step
<1> QED
  BY <1>7, <1>8

\* A tree and its parts, kind by kind.
Shaped(t, parts) ==
  \/ t.kind \in {"word", "phrase"} /\ t.value \in Values
  \/ t.kind = "range" /\ t.field \in Pieces /\ t.start \in Values /\ t.end \in Values
  \/ t.kind = "field" /\ t.field \in Pieces /\ t.value \in parts
  \/ t.kind \in {"and", "or"} /\ t.left \in parts /\ t.right \in parts
  \/ t.kind = "not" /\ t.child \in parts

LEMMA NodesHaveParts ==
  ASSUME NEW parts, NEW t \in Grown(parts)
  PROVE  Shaped(t, parts)
BY DEF Grown, Shaped

LEMMA GrownGrows ==
  ASSUME NEW parts, NEW more, parts \subseteq more
  PROVE  Grown(parts) \subseteq Grown(more)
BY DEF Grown

\* A tree of a height is one of every greater height.
LEMMA TreesGrow ==
  /\ \A h \in Heights : h + 1 \in Heights => TreesTo[h] \subseteq TreesTo[h + 1]
  /\ \A h \in Heights : TreesTo[h] \subseteq Trees
<1> DEFINE S == {n \in Nat : n < Top => TreesTo[n] \subseteq TreesTo[n + 1]}
           D == {n \in Nat : TreesTo[Top - n] \subseteq Trees}
<1>0. Top \in Nat /\ Heights = 0..Top /\ Trees = TreesTo[Top]
  BY TopIsAHeight
<1>1. 0 \in S
  BY <1>0, TreesByHeight
<1>2. ASSUME NEW n \in 0..Top, n \in S, n < Top PROVE n + 1 \in S
  <2>1. n \in Nat /\ n + 1 \in Nat /\ n \in Heights /\ n + 1 \in Heights
    BY <1>0, <1>2
  <2>2. TreesTo[n] \subseteq TreesTo[n + 1]
    BY <1>2
  <2>3. ASSUME n + 1 < Top PROVE TreesTo[n + 1] \subseteq TreesTo[n + 1 + 1]
    <3>1. n + 1 + 1 \in Heights
      BY <1>0, <2>1, <2>3
    <3>2. TreesTo[n + 1] = Grown(TreesTo[n]) /\ TreesTo[n + 1 + 1] = Grown(TreesTo[n + 1])
      BY <2>1, <3>1, TreesByHeight
    <3> QED
      BY <2>2, <3>2, GrownGrows
  <2> QED
    BY <2>1, <2>3
<1> HIDE DEF S
<1>3. 0..Top \subseteq S
  BY <1>0, <1>1, <1>2, Climb
<1>4. \A h \in Heights : h + 1 \in Heights => TreesTo[h] \subseteq TreesTo[h + 1]
  BY <1>0, <1>3 DEF S
<1>5. 0 \in D
  BY <1>0
<1>6. ASSUME NEW n \in 0..Top, n \in D, n < Top PROVE n + 1 \in D
  <2>1. n \in Nat /\ n + 1 \in Nat /\ Top - (n + 1) \in Heights /\ Top - n \in Heights
        /\ Top - (n + 1) + 1 = Top - n
    BY <1>0, <1>6
  <2>2. TreesTo[Top - (n + 1)] \subseteq TreesTo[Top - n]
    BY <1>4, <2>1
  <2> QED
    BY <1>6, <2>1, <2>2
<1> HIDE DEF D
<1>7. 0..Top \subseteq D
  BY <1>0, <1>5, <1>6, Climb
<1>8. ASSUME NEW h \in Heights PROVE TreesTo[h] \subseteq Trees
  <2>1. Top - h \in 0..Top /\ Top - (Top - h) = h
    BY <1>0
  <2> QED
    BY <1>7, <2>1 DEF D
<1> QED
  BY <1>4, <1>8

\* Every tree is put together from trees.
LEMMA TreeNodes ==
  ASSUME NEW tree \in Trees
  PROVE  \E h \in Heights : h + 1 \in Heights /\ TreesTo[h] \subseteq Trees
                            /\ tree \in Grown(TreesTo[h])
<1>1. MaxHeight \in Heights /\ MaxHeight + 1 \in Heights
  BY HeightIsBounded DEF Heights
<1> QED
  BY <1>1, TreesByHeight, TreesGrow DEF Trees

LEMMA TreePartsAreTrees ==
  ASSUME NEW tree \in Trees
  PROVE  Shaped(tree, Trees)
BY TreeNodes, NodesHaveParts DEF Shaped


\* The clauses of every height: the recursive definition of ClausesTo is satisfied.
LEMMA ClausesByHeight ==
  /\ ClausesTo[0] = {}
  /\ \A h \in ClauseHeights : h + 1 \in ClauseHeights => ClausesTo[h + 1] = Enclosing(ClausesTo[h])
<1> DEFINE step(f, i) == IF i = 0 THEN {} ELSE Enclosing(f[i - 1])
           is(f, n) == f = [i \in 0..n |-> step(f, i)]
           S == {n \in Nat : \E f : is(f, n)}
<1>0. QueryTop \in Nat /\ ClauseHeights = 0..QueryTop
  BY QueryTopIsAHeight
<1>1. 0 \in S
  <2> DEFINE f == [i \in 0..0 |-> {}]
  <2>1. is(f, 0)
    OBVIOUS
  <2> QED
    BY <2>1
<1>2. ASSUME NEW n \in 0..QueryTop, n \in S, n < QueryTop PROVE n + 1 \in S
  <2>0. n \in Nat /\ n + 1 \in Nat
    BY <1>0
  <2>1. PICK f : is(f, n)
    BY <1>2
  <2> DEFINE g == [i \in 0..(n + 1) |-> step(f, i)]
  <2> HIDE DEF step
  <2>2. \A i \in 0..n : g[i] = f[i]
    BY <2>0, <2>1
  <2>3. \A i \in 0..(n + 1) : step(f, i) = step(g, i)
    <3> SUFFICES ASSUME NEW i \in 0..(n + 1), i # 0 PROVE f[i - 1] = g[i - 1]
      BY DEF step
    <3>1. i - 1 \in 0..n
      BY <2>0
    <3> HIDE DEF g
    <3> QED
      BY <2>2, <3>1
  <2>4. is(g, n + 1)
    BY <2>3
  <2> HIDE DEF is
  <2> QED
    BY <2>0, <2>4
<1> HIDE DEF S
<1>3. 0..QueryTop \subseteq S
  BY <1>0, <1>1, <1>2, Climb
<1>4. \E f : f = [i \in ClauseHeights |-> step(f, i)]
  <2> HIDE DEF step
  <2>1. QueryTop \in S
    BY <1>0, <1>3
  <2> QED
    BY <1>0, <2>1 DEF S
<1>5. ClausesTo = [i \in ClauseHeights |-> step(ClausesTo, i)]
  BY <1>4 DEF ClausesTo
<1> HIDE DEF step
<1>6. \A i \in ClauseHeights : ClausesTo[i] = step(ClausesTo, i)
  BY <1>5
<1>7. ClausesTo[0] = {}
  BY <1>0, <1>6 DEF step
<1>8. ASSUME NEW h \in ClauseHeights, h + 1 \in ClauseHeights PROVE ClausesTo[h + 1] = Enclosing(ClausesTo[h])
  <2>1. h \in Nat /\ h + 1 # 0 /\ h + 1 - 1 = h
    BY <1>0
  <2> QED
    BY <1>6, <1>8, <2>1 DEF step
<1> QED
  BY <1>7, <1>8

\* A clause and those in it, kind by kind.
Enclosed(c, inner) ==
  \/ c.kind \in {"match", "phrase", "term", "range"}
  \/ /\ c.kind \in {"must", "should", "dis_max", "must_not"}
     /\ \/ c.of \in [1..1 -> inner]
        \/ c.of \in [1..2 -> inner]
        \/ c.of \in [1..3 -> inner]

LEMMA ClausesEnclose ==
  ASSUME NEW inner, NEW c \in Enclosing(inner)
  PROVE  Enclosed(c, inner)
BY DEF Enclosing, Enclosed

LEMMA EnclosingGrows ==
  ASSUME NEW inner, NEW more, inner \subseteq more
  PROVE  Enclosing(inner) \subseteq Enclosing(more)
BY DEF Enclosing

\* A clause of a height is one of every greater height.
LEMMA ClausesGrow ==
  /\ \A h \in ClauseHeights : h + 1 \in ClauseHeights => ClausesTo[h] \subseteq ClausesTo[h + 1]
  /\ \A h \in ClauseHeights : ClausesTo[h] \subseteq Queries
<1> DEFINE S == {n \in Nat : n < QueryTop => ClausesTo[n] \subseteq ClausesTo[n + 1]}
           D == {n \in Nat : ClausesTo[QueryTop - n] \subseteq Queries}
<1>0. QueryTop \in Nat /\ ClauseHeights = 0..QueryTop /\ Queries = ClausesTo[QueryTop]
  BY QueryTopIsAHeight
<1>1. 0 \in S
  BY <1>0, ClausesByHeight
<1>2. ASSUME NEW n \in 0..QueryTop, n \in S, n < QueryTop PROVE n + 1 \in S
  <2>1. n \in Nat /\ n + 1 \in Nat /\ n \in ClauseHeights /\ n + 1 \in ClauseHeights
    BY <1>0, <1>2
  <2>2. ClausesTo[n] \subseteq ClausesTo[n + 1]
    BY <1>2
  <2>3. ASSUME n + 1 < QueryTop PROVE ClausesTo[n + 1] \subseteq ClausesTo[n + 1 + 1]
    <3>1. n + 1 + 1 \in ClauseHeights
      BY <1>0, <2>1, <2>3
    <3>2. ClausesTo[n + 1] = Enclosing(ClausesTo[n]) /\ ClausesTo[n + 1 + 1] = Enclosing(ClausesTo[n + 1])
      BY <2>1, <3>1, ClausesByHeight
    <3> QED
      BY <2>2, <3>2, EnclosingGrows
  <2> QED
    BY <2>1, <2>3
<1> HIDE DEF S
<1>3. 0..QueryTop \subseteq S
  BY <1>0, <1>1, <1>2, Climb
<1>4. \A h \in ClauseHeights : h + 1 \in ClauseHeights => ClausesTo[h] \subseteq ClausesTo[h + 1]
  BY <1>0, <1>3 DEF S
<1>5. 0 \in D
  BY <1>0
<1>6. ASSUME NEW n \in 0..QueryTop, n \in D, n < QueryTop PROVE n + 1 \in D
  <2>1. n \in Nat /\ n + 1 \in Nat /\ QueryTop - (n + 1) \in ClauseHeights /\ QueryTop - n \in ClauseHeights
        /\ QueryTop - (n + 1) + 1 = QueryTop - n
    BY <1>0, <1>6
  <2>2. ClausesTo[QueryTop - (n + 1)] \subseteq ClausesTo[QueryTop - n]
    BY <1>4, <2>1
  <2> QED
    BY <1>6, <2>1, <2>2
<1> HIDE DEF D
<1>7. 0..QueryTop \subseteq D
  BY <1>0, <1>5, <1>6, Climb
<1>8. ASSUME NEW h \in ClauseHeights PROVE ClausesTo[h] \subseteq Queries
  <2>1. QueryTop - h \in 0..QueryTop /\ QueryTop - (QueryTop - h) = h
    BY <1>0
  <2> QED
    BY <1>7, <2>1 DEF D
<1> QED
  BY <1>4, <1>8

\* Every query is put together from queries.
LEMMA QueriesEnclose ==
  ASSUME NEW c \in Queries
  PROVE  Enclosed(c, Queries)
<1>1. MaxHeight + 2 \in ClauseHeights /\ MaxHeight + 2 + 1 \in ClauseHeights /\ MaxHeight + 2 + 1 = MaxHeight + 3
  BY HeightIsBounded DEF ClauseHeights
<1>2. c \in Enclosing(ClausesTo[MaxHeight + 2])
  BY <1>1, ClausesByHeight DEF Queries
<1>3. c \in Enclosing(Queries)
  BY <1>1, <1>2, ClausesGrow, EnclosingGrows
<1> QED
  BY <1>3, ClausesEnclose

\* What the clause of a tree is made of those of its parts, and that it depends on these alone.
ClauseStep(f, t) ==
  [field \in Scopes |-> [dis \in BOOLEAN |-> NodeClause(f, t, field, dis)]]

LEMMA ClauseStepIsLocal ==
  ASSUME NEW parts, NEW f, NEW g, \A p \in parts : f[p] = g[p], NEW t \in Grown(parts)
  PROVE  ClauseStep(f, t) = ClauseStep(g, t)
<1> SUFFICES ASSUME NEW field \in Scopes, NEW dis \in BOOLEAN
             PROVE  NodeClause(f, t, field, dis) = NodeClause(g, t, field, dis)
  BY DEF ClauseStep
<1>0. Shaped(t, parts)
  BY NodesHaveParts
<1>1. CASE IsLeaf(t)
  BY <1>1 DEF NodeClause, IsLeaf
<1>2. CASE t.kind = "range"
  BY <1>2 DEF NodeClause, IsLeaf
<1>3. CASE t.kind = "field" /\ t.value \in parts
  BY <1>3 DEF NodeClause, IsLeaf, FieldClause, FieldValue, OrClause
<1>4. CASE t.kind = "and" /\ t.left \in parts /\ t.right \in parts
  BY <1>4 DEF NodeClause, IsLeaf
<1>5. CASE t.kind = "or" /\ t.left \in parts /\ t.right \in parts
  BY <1>5 DEF NodeClause, IsLeaf, FieldClause, FieldValue, OrClause
<1>6. CASE t.kind = "not" /\ t.child \in parts
  BY <1>6 DEF NodeClause, IsLeaf
<1> QED
  BY <1>0, <1>1, <1>2, <1>3, <1>4, <1>5, <1>6 DEF Shaped, IsLeaf

\* So the recursive definition of the clauses is satisfied, by a function on all trees.
LEMMA ClausesDefined ==
  \A t \in Trees : ClauseOf[t] = ClauseStep(ClauseOf, t)
<1> DEFINE is(f, n) == f = [t \in TreesTo[n] |-> ClauseStep(f, t)]
           S == {n \in Nat : \E f : is(f, n)}
<1>0. Top \in Nat /\ Heights = 0..Top /\ Trees = TreesTo[Top]
  BY TopIsAHeight
<1>1. 0 \in S
  <2> DEFINE f == [t \in TreesTo[0] |-> 0]
  <2>1. is(f, 0)
    BY TreesByHeight
  <2> QED
    BY <2>1
<1>2. ASSUME NEW n \in 0..Top, n \in S, n < Top PROVE n + 1 \in S
  <2>0. n \in Heights /\ n + 1 \in Heights /\ n + 1 \in Nat
    BY <1>0, <1>2
  <2>1. PICK f : is(f, n)
    BY <1>2
  <2> DEFINE g == [t \in TreesTo[n + 1] |-> ClauseStep(f, t)]
  <2>2. \A t \in TreesTo[n] : g[t] = f[t]
    BY <2>0, <2>1, TreesGrow
  <2> HIDE DEF g
  <2>3. \A t \in TreesTo[n + 1] : ClauseStep(g, t) = ClauseStep(f, t)
    BY <2>0, <2>2, TreesByHeight, ClauseStepIsLocal
  <2>4. is(g, n + 1)
    BY <2>3 DEF g
  <2> HIDE DEF is
  <2> QED
    BY <2>0, <2>4
<1> HIDE DEF S
<1>3. 0..Top \subseteq S
  BY <1>0, <1>1, <1>2, Climb
<1>4. \E f : f = [t \in Trees |-> ClauseStep(f, t)]
  BY <1>0, <1>3 DEF S
<1>5. ClauseOf = [t \in Trees |-> ClauseStep(ClauseOf, t)]
  BY <1>4 DEF ClauseOf, ClauseStep
<1> QED
  BY <1>5

\* The same for what fits,
FitsStep(f, t) == [field \in Scopes |-> NodeFits(f, t, field)]

LEMMA FitsStepIsLocal ==
  ASSUME NEW parts, NEW f, NEW g, \A p \in parts : f[p] = g[p], NEW t \in Grown(parts)
  PROVE  FitsStep(f, t) = FitsStep(g, t)
<1> SUFFICES ASSUME NEW field \in Scopes
             PROVE  NodeFits(f, t, field) = NodeFits(g, t, field)
  BY DEF FitsStep
<1>0. Shaped(t, parts)
  BY NodesHaveParts
<1>1. CASE IsLeaf(t)
  BY <1>1 DEF NodeFits, IsLeaf
<1>2. CASE t.kind = "range"
  BY <1>2 DEF NodeFits, IsLeaf
<1>3. CASE t.kind = "field" /\ t.value \in parts
  BY <1>3 DEF NodeFits, IsLeaf
<1>4. CASE t.kind = "and" /\ t.left \in parts /\ t.right \in parts
  BY <1>4 DEF NodeFits, IsLeaf
<1>5. CASE t.kind = "or" /\ t.left \in parts /\ t.right \in parts
  BY <1>5 DEF NodeFits, IsLeaf
<1>6. CASE t.kind = "not" /\ t.child \in parts
  BY <1>6 DEF NodeFits, IsLeaf
<1> QED
  BY <1>0, <1>1, <1>2, <1>3, <1>4, <1>5, <1>6 DEF Shaped, IsLeaf

LEMMA FitsDefined ==
  \A t \in Trees : FitsOf[t] = FitsStep(FitsOf, t)
<1> DEFINE is(f, n) == f = [t \in TreesTo[n] |-> FitsStep(f, t)]
           S == {n \in Nat : \E f : is(f, n)}
<1>0. Top \in Nat /\ Heights = 0..Top /\ Trees = TreesTo[Top]
  BY TopIsAHeight
<1>1. 0 \in S
  <2> DEFINE f == [t \in TreesTo[0] |-> 0]
  <2>1. is(f, 0)
    BY TreesByHeight
  <2> QED
    BY <2>1
<1>2. ASSUME NEW n \in 0..Top, n \in S, n < Top PROVE n + 1 \in S
  <2>0. n \in Heights /\ n + 1 \in Heights /\ n + 1 \in Nat
    BY <1>0, <1>2
  <2>1. PICK f : is(f, n)
    BY <1>2
  <2> DEFINE g == [t \in TreesTo[n + 1] |-> FitsStep(f, t)]
  <2>2. \A t \in TreesTo[n] : g[t] = f[t]
    BY <2>0, <2>1, TreesGrow
  <2> HIDE DEF g
  <2>3. \A t \in TreesTo[n + 1] : FitsStep(g, t) = FitsStep(f, t)
    BY <2>0, <2>2, TreesByHeight, FitsStepIsLocal
  <2>4. is(g, n + 1)
    BY <2>3 DEF g
  <2> HIDE DEF is
  <2> QED
    BY <2>0, <2>4
<1> HIDE DEF S
<1>3. 0..Top \subseteq S
  BY <1>0, <1>1, <1>2, Climb
<1>4. \E f : f = [t \in Trees |-> FitsStep(f, t)]
  BY <1>0, <1>3 DEF S
<1>5. FitsOf = [t \in Trees |-> FitsStep(FitsOf, t)]
  BY <1>4 DEF FitsOf, FitsStep
<1> QED
  BY <1>5

\* for what holds of a document,
HoldsStep(f, t) ==
  [field \in Scopes |-> [doc \in Corpus |-> NodeHolds(f, t, field, doc)]]

LEMMA HoldsStepIsLocal ==
  ASSUME NEW parts, NEW f, NEW g, \A p \in parts : f[p] = g[p], NEW t \in Grown(parts)
  PROVE  HoldsStep(f, t) = HoldsStep(g, t)
<1> SUFFICES ASSUME NEW field \in Scopes, NEW doc \in Corpus
             PROVE  NodeHolds(f, t, field, doc) = NodeHolds(g, t, field, doc)
  BY DEF HoldsStep
<1>0. Shaped(t, parts)
  BY NodesHaveParts
<1>1. CASE IsLeaf(t)
  BY <1>1 DEF NodeHolds, IsLeaf
<1>2. CASE t.kind = "range"
  BY <1>2 DEF NodeHolds, IsLeaf
<1>3. CASE t.kind = "field" /\ t.value \in parts
  BY <1>3 DEF NodeHolds, IsLeaf
<1>4. CASE t.kind = "and" /\ t.left \in parts /\ t.right \in parts
  BY <1>4 DEF NodeHolds, IsLeaf
<1>5. CASE t.kind = "or" /\ t.left \in parts /\ t.right \in parts
  BY <1>5 DEF NodeHolds, IsLeaf
<1>6. CASE t.kind = "not" /\ t.child \in parts
  BY <1>6 DEF NodeHolds, IsLeaf
<1> QED
  BY <1>0, <1>1, <1>2, <1>3, <1>4, <1>5, <1>6 DEF Shaped, IsLeaf

LEMMA HoldsDefined ==
  \A t \in Trees : HoldsOf[t] = HoldsStep(HoldsOf, t)
<1> DEFINE is(f, n) == f = [t \in TreesTo[n] |-> HoldsStep(f, t)]
           S == {n \in Nat : \E f : is(f, n)}
<1>0. Top \in Nat /\ Heights = 0..Top /\ Trees = TreesTo[Top]
  BY TopIsAHeight
<1>1. 0 \in S
  <2> DEFINE f == [t \in TreesTo[0] |-> 0]
  <2>1. is(f, 0)
    BY TreesByHeight
  <2> QED
    BY <2>1
<1>2. ASSUME NEW n \in 0..Top, n \in S, n < Top PROVE n + 1 \in S
  <2>0. n \in Heights /\ n + 1 \in Heights /\ n + 1 \in Nat
    BY <1>0, <1>2
  <2>1. PICK f : is(f, n)
    BY <1>2
  <2> DEFINE g == [t \in TreesTo[n + 1] |-> HoldsStep(f, t)]
  <2>2. \A t \in TreesTo[n] : g[t] = f[t]
    BY <2>0, <2>1, TreesGrow
  <2> HIDE DEF g
  <2>3. \A t \in TreesTo[n + 1] : HoldsStep(g, t) = HoldsStep(f, t)
    BY <2>0, <2>2, TreesByHeight, HoldsStepIsLocal
  <2>4. is(g, n + 1)
    BY <2>3 DEF g
  <2> HIDE DEF is
  <2> QED
    BY <2>0, <2>4
<1> HIDE DEF S
<1>3. 0..Top \subseteq S
  BY <1>0, <1>1, <1>2, Climb
<1>4. \E f : f = [t \in Trees |-> HoldsStep(f, t)]
  BY <1>0, <1>3 DEF S
<1>5. HoldsOf = [t \in Trees |-> HoldsStep(HoldsOf, t)]
  BY <1>4 DEF HoldsOf, HoldsStep
<1> QED
  BY <1>5

\* for the statuses with an expression,
CompoundStep(f, t) ==
  CASE t.kind \in {"and", "or"} -> f[t.left] \/ f[t.right]
    [] t.kind = "not" -> f[t.child]
    [] t.kind = "field" -> \/ t.field = "legalStatus" /\ ~IsLeaf(t.value)
                           \/ f[t.value]
    [] OTHER -> FALSE

LEMMA CompoundStepIsLocal ==
  ASSUME NEW parts, NEW f, NEW g, \A p \in parts : f[p] = g[p], NEW t \in Grown(parts)
  PROVE  CompoundStep(f, t) = CompoundStep(g, t)
<1>0. Shaped(t, parts)
  BY NodesHaveParts
<1>1. CASE IsLeaf(t)
  BY <1>1 DEF CompoundStep, IsLeaf
<1>2. CASE t.kind = "range"
  BY <1>2 DEF CompoundStep, IsLeaf
<1>3. CASE t.kind = "field" /\ t.value \in parts
  BY <1>3 DEF CompoundStep, IsLeaf
<1>4. CASE t.kind = "and" /\ t.left \in parts /\ t.right \in parts
  BY <1>4 DEF CompoundStep, IsLeaf
<1>5. CASE t.kind = "or" /\ t.left \in parts /\ t.right \in parts
  BY <1>5 DEF CompoundStep, IsLeaf
<1>6. CASE t.kind = "not" /\ t.child \in parts
  BY <1>6 DEF CompoundStep, IsLeaf
<1> QED
  BY <1>0, <1>1, <1>2, <1>3, <1>4, <1>5, <1>6 DEF Shaped, IsLeaf

LEMMA CompoundDefined ==
  \A t \in Trees : CompoundStatus[t] = CompoundStep(CompoundStatus, t)
<1> DEFINE is(f, n) == f = [t \in TreesTo[n] |-> CompoundStep(f, t)]
           S == {n \in Nat : \E f : is(f, n)}
<1>0. Top \in Nat /\ Heights = 0..Top /\ Trees = TreesTo[Top]
  BY TopIsAHeight
<1>1. 0 \in S
  <2> DEFINE f == [t \in TreesTo[0] |-> 0]
  <2>1. is(f, 0)
    BY TreesByHeight
  <2> QED
    BY <2>1
<1>2. ASSUME NEW n \in 0..Top, n \in S, n < Top PROVE n + 1 \in S
  <2>0. n \in Heights /\ n + 1 \in Heights /\ n + 1 \in Nat
    BY <1>0, <1>2
  <2>1. PICK f : is(f, n)
    BY <1>2
  <2> DEFINE g == [t \in TreesTo[n + 1] |-> CompoundStep(f, t)]
  <2>2. \A t \in TreesTo[n] : g[t] = f[t]
    BY <2>0, <2>1, TreesGrow
  <2> HIDE DEF g
  <2>3. \A t \in TreesTo[n + 1] : CompoundStep(g, t) = CompoundStep(f, t)
    BY <2>0, <2>2, TreesByHeight, CompoundStepIsLocal
  <2>4. is(g, n + 1)
    BY <2>3 DEF g
  <2> HIDE DEF is
  <2> QED
    BY <2>0, <2>4
<1> HIDE DEF S
<1>3. 0..Top \subseteq S
  BY <1>0, <1>1, <1>2, Climb
<1>4. \E f : f = [t \in Trees |-> CompoundStep(f, t)]
  BY <1>0, <1>3 DEF S
<1>5. CompoundStatus = [t \in Trees |-> CompoundStep(CompoundStatus, t)]
  BY <1>4 DEF CompoundStatus, CompoundStep
<1> QED
  BY <1>5

\* for the other groupings,
RegroupStep(f, t) == RegroupedHere(t) \cup RegroupedInside(f, t)

LEMMA RegroupStepIsLocal ==
  ASSUME NEW parts, NEW f, NEW g, \A p \in parts : f[p] = g[p], NEW t \in Grown(parts)
  PROVE  RegroupStep(f, t) = RegroupStep(g, t)
<1> SUFFICES RegroupedInside(f, t) = RegroupedInside(g, t)
  BY DEF RegroupStep
<1>0. Shaped(t, parts)
  BY NodesHaveParts
<1>1. CASE IsLeaf(t)
  BY <1>1 DEF RegroupedInside, IsLeaf
<1>2. CASE t.kind = "range"
  BY <1>2 DEF RegroupedInside, IsLeaf
<1>3. CASE t.kind = "field" /\ t.value \in parts
  BY <1>3 DEF RegroupedInside, IsLeaf
<1>4. CASE t.kind = "and" /\ t.left \in parts /\ t.right \in parts
  BY <1>4 DEF RegroupedInside, IsLeaf
<1>5. CASE t.kind = "or" /\ t.left \in parts /\ t.right \in parts
  BY <1>5 DEF RegroupedInside, IsLeaf
<1>6. CASE t.kind = "not" /\ t.child \in parts
  BY <1>6 DEF RegroupedInside, IsLeaf
<1> QED
  BY <1>0, <1>1, <1>2, <1>3, <1>4, <1>5, <1>6 DEF Shaped, IsLeaf

LEMMA RegroupedDefined ==
  \A t \in Trees : Regrouped[t] = RegroupStep(Regrouped, t)
<1> DEFINE is(f, n) == f = [t \in TreesTo[n] |-> RegroupStep(f, t)]
           S == {n \in Nat : \E f : is(f, n)}
<1>0. Top \in Nat /\ Heights = 0..Top /\ Trees = TreesTo[Top]
  BY TopIsAHeight
<1>1. 0 \in S
  <2> DEFINE f == [t \in TreesTo[0] |-> 0]
  <2>1. is(f, 0)
    BY TreesByHeight
  <2> QED
    BY <2>1
<1>2. ASSUME NEW n \in 0..Top, n \in S, n < Top PROVE n + 1 \in S
  <2>0. n \in Heights /\ n + 1 \in Heights /\ n + 1 \in Nat
    BY <1>0, <1>2
  <2>1. PICK f : is(f, n)
    BY <1>2
  <2> DEFINE g == [t \in TreesTo[n + 1] |-> RegroupStep(f, t)]
  <2>2. \A t \in TreesTo[n] : g[t] = f[t]
    BY <2>0, <2>1, TreesGrow
  <2> HIDE DEF g
  <2>3. \A t \in TreesTo[n + 1] : RegroupStep(g, t) = RegroupStep(f, t)
    BY <2>0, <2>2, TreesByHeight, RegroupStepIsLocal
  <2>4. is(g, n + 1)
    BY <2>3 DEF g
  <2> HIDE DEF is
  <2> QED
    BY <2>0, <2>4
<1> HIDE DEF S
<1>3. 0..Top \subseteq S
  BY <1>0, <1>1, <1>2, Climb
<1>4. \E f : f = [t \in Trees |-> RegroupStep(f, t)]
  BY <1>0, <1>3 DEF S
<1>5. Regrouped = [t \in Trees |-> RegroupStep(Regrouped, t)]
  BY <1>4 DEF Regrouped, RegroupStep
<1> QED
  BY <1>5

\* for what a clause matches,
MatchesStep(f, c) == [doc \in Corpus |-> ClauseMatches(f, c, doc)]

LEMMA MatchesStepIsLocal ==
  ASSUME NEW parts, NEW f, NEW g, \A p \in parts : f[p] = g[p], NEW t \in Enclosing(parts)
  PROVE  MatchesStep(f, t) = MatchesStep(g, t)
<1> SUFFICES ASSUME NEW doc \in Corpus
             PROVE  ClauseMatches(f, t, doc) = ClauseMatches(g, t, doc)
  BY DEF MatchesStep
<1>0. Enclosed(t, parts)
  BY ClausesEnclose
<1>1. CASE t.kind \in {"match", "phrase", "term", "range"}
  BY <1>1 DEF ClauseMatches
<1>2. CASE /\ t.kind \in {"must", "should", "dis_max", "must_not"}
           /\ \A i \in DOMAIN t.of : t.of[i] \in parts
  BY <1>2 DEF ClauseMatches
<1> QED
  BY <1>0, <1>1, <1>2 DEF Enclosed

LEMMA MatchesDefined ==
  \A t \in Queries : MatchesOf[t] = MatchesStep(MatchesOf, t)
<1> DEFINE is(f, n) == f = [t \in ClausesTo[n] |-> MatchesStep(f, t)]
           S == {n \in Nat : \E f : is(f, n)}
<1>0. QueryTop \in Nat /\ ClauseHeights = 0..QueryTop /\ Queries = ClausesTo[QueryTop]
  BY QueryTopIsAHeight
<1>1. 0 \in S
  <2> DEFINE f == [t \in ClausesTo[0] |-> 0]
  <2>1. is(f, 0)
    BY ClausesByHeight
  <2> QED
    BY <2>1
<1>2. ASSUME NEW n \in 0..QueryTop, n \in S, n < QueryTop PROVE n + 1 \in S
  <2>0. n \in ClauseHeights /\ n + 1 \in ClauseHeights /\ n + 1 \in Nat
    BY <1>0, <1>2
  <2>1. PICK f : is(f, n)
    BY <1>2
  <2> DEFINE g == [t \in ClausesTo[n + 1] |-> MatchesStep(f, t)]
  <2>2. \A t \in ClausesTo[n] : g[t] = f[t]
    BY <2>0, <2>1, ClausesGrow
  <2> HIDE DEF g
  <2>3. \A t \in ClausesTo[n + 1] : MatchesStep(g, t) = MatchesStep(f, t)
    BY <2>0, <2>2, ClausesByHeight, MatchesStepIsLocal
  <2>4. is(g, n + 1)
    BY <2>3 DEF g
  <2> HIDE DEF is
  <2> QED
    BY <2>0, <2>4
<1> HIDE DEF S
<1>3. 0..QueryTop \subseteq S
  BY <1>0, <1>1, <1>2, Climb
<1>4. \E f : f = [t \in Queries |-> MatchesStep(f, t)]
  BY <1>0, <1>3 DEF S
<1>5. MatchesOf = [t \in Queries |-> MatchesStep(MatchesOf, t)]
  BY <1>4 DEF MatchesOf, MatchesStep
<1> QED
  BY <1>5

\* and for its score.
ScoreStep(f, c) == [doc \in Corpus |-> ClauseScore(f, c, doc)]

LEMMA ScoreStepIsLocal ==
  ASSUME NEW parts, NEW f, NEW g, \A p \in parts : f[p] = g[p], NEW t \in Enclosing(parts)
  PROVE  ScoreStep(f, t) = ScoreStep(g, t)
<1> SUFFICES ASSUME NEW doc \in Corpus
             PROVE  ClauseScore(f, t, doc) = ClauseScore(g, t, doc)
  BY DEF ScoreStep
<1>0. Enclosed(t, parts)
  BY ClausesEnclose
<1>1. CASE t.kind \in {"match", "phrase", "term", "range"}
  BY <1>1 DEF ClauseScore
<1>2. CASE /\ t.kind \in {"must", "should", "dis_max", "must_not"}
           /\ \A i \in DOMAIN t.of : t.of[i] \in parts
  BY <1>2 DEF ClauseScore
<1> QED
  BY <1>0, <1>1, <1>2 DEF Enclosed

LEMMA ScoreDefined ==
  \A t \in Queries : ScoreOf[t] = ScoreStep(ScoreOf, t)
<1> DEFINE is(f, n) == f = [t \in ClausesTo[n] |-> ScoreStep(f, t)]
           S == {n \in Nat : \E f : is(f, n)}
<1>0. QueryTop \in Nat /\ ClauseHeights = 0..QueryTop /\ Queries = ClausesTo[QueryTop]
  BY QueryTopIsAHeight
<1>1. 0 \in S
  <2> DEFINE f == [t \in ClausesTo[0] |-> 0]
  <2>1. is(f, 0)
    BY ClausesByHeight
  <2> QED
    BY <2>1
<1>2. ASSUME NEW n \in 0..QueryTop, n \in S, n < QueryTop PROVE n + 1 \in S
  <2>0. n \in ClauseHeights /\ n + 1 \in ClauseHeights /\ n + 1 \in Nat
    BY <1>0, <1>2
  <2>1. PICK f : is(f, n)
    BY <1>2
  <2> DEFINE g == [t \in ClausesTo[n + 1] |-> ScoreStep(f, t)]
  <2>2. \A t \in ClausesTo[n] : g[t] = f[t]
    BY <2>0, <2>1, ClausesGrow
  <2> HIDE DEF g
  <2>3. \A t \in ClausesTo[n + 1] : ScoreStep(g, t) = ScoreStep(f, t)
    BY <2>0, <2>2, ClausesByHeight, ScoreStepIsLocal
  <2>4. is(g, n + 1)
    BY <2>3 DEF g
  <2> HIDE DEF is
  <2> QED
    BY <2>0, <2>4
<1> HIDE DEF S
<1>3. 0..QueryTop \subseteq S
  BY <1>0, <1>1, <1>2, Climb
<1>4. \E f : f = [t \in Queries |-> ScoreStep(f, t)]
  BY <1>0, <1>3 DEF S
<1>5. ScoreOf = [t \in Queries |-> ScoreStep(ScoreOf, t)]
  BY <1>4 DEF ScoreOf, ScoreStep
<1> QED
  BY <1>5

\* The clauses without clauses in them, and those one higher.
Below == ClausesTo[1]
Shallow == ClausesTo[2]

LEMMA LowClauses ==
  /\ Below = Enclosing({})
  /\ Shallow = Enclosing(Below)
  /\ Below \subseteq Shallow
<1>1. 0 \in ClauseHeights /\ 1 \in ClauseHeights /\ 0 + 1 = 1 /\ 2 \in ClauseHeights /\ 1 + 1 = 2
  BY HeightIsBounded DEF ClauseHeights
<1>2. ClausesTo[0] = {} /\ ClausesTo[1] = Enclosing(ClausesTo[0])
  BY <1>1, ClausesByHeight
<1>3. ClausesTo[2] = Enclosing(ClausesTo[1]) /\ ClausesTo[1] \subseteq ClausesTo[2]
  BY <1>1, ClausesByHeight, ClausesGrow
<1> QED
  BY <1>2, <1>3 DEF Below, Shallow

\* What the builder makes of a value has no clause in it.
LEMMA LeafClausesAreLow ==
  /\ \A field \in KeywordFields, value \in Values : Term(field, value) \in Below
  /\ \A field \in DateFields, from, to \in Int : InRange(field, from, to) \in Below
  /\ \A value \in Values, names \in SUBSET TextFields : Match(value, names) \in Below
  /\ \A value \in Values, names \in SUBSET TextFields, slop \in 0..1 :
       Adjacent(value, names, slop) \in Below
BY LowClauses DEF Enclosing, Term, InRange, Match, Adjacent

\* An error is no clause.
LEMMA NoErrorBelow ==
  ASSUME NEW inner
  PROVE  Error \notin Enclosing(inner)
BY DEF Enclosing, Error

\* The kinds of the clauses that hold clauses.
Joints == {"must", "should", "dis_max", "must_not"}

\* Clauses put together without an error are a clause.
LEMMA AroundEncloses ==
  ASSUME NEW kind \in Joints, NEW inner, Error \notin inner,
         NEW clauses \in [1..1 -> inner] \cup [1..2 -> inner] \cup [1..3 -> inner]
  PROVE  /\ Around(kind, clauses) = [kind |-> kind, of |-> clauses]
         /\ Around(kind, clauses) \in Enclosing(inner)
<1>1. \A i \in DOMAIN clauses : clauses[i] # Error
  OBVIOUS
<1>2. Around(kind, clauses) = [kind |-> kind, of |-> clauses]
  BY <1>1 DEF Around
<1> QED
  BY <1>2 DEF Enclosing, Joints

\* The first and the last of some places of a value are among its places.
LEMMA LastPlaces ==
  ASSUME NEW len \in Nat, NEW kept, kept \subseteq 1..len, kept # {}
  PROVE  Min(kept) \in 1..len /\ Max(kept) \in 1..len
<1>1. kept \in SUBSET Nat
  OBVIOUS
<1>2. \E x \in kept : \A y \in kept : x <= y
  BY <1>1, LeastNumber
<1>3. Min(kept) \in kept
  BY <1>2 DEF Min
<1> DEFINE back == {n \in Nat : \E i \in kept : n = len - i}
<1>4. back # {}
  <2>1. PICK i \in kept : TRUE
    OBVIOUS
  <2>2. len - i \in back
    OBVIOUS
  <2> QED
    BY <2>2
<1>5. PICK n \in back : \A m \in back : n <= m
  BY <1>4, LeastNumber
<1>6. PICK i \in kept : n = len - i
  BY <1>5
<1>7. \A j \in kept : len - j \in back
  OBVIOUS
<1>8. \A j \in kept : i >= j
  BY <1>5, <1>6, <1>7
<1>9. Max(kept) \in kept
  BY <1>8 DEF Max
<1> QED
  BY <1>3, <1>9

\* A value stripped of its blanks is a value.
LEMMA StrippedIsAValue ==
  ASSUME NEW value \in Values
  PROVE  Stripped(value) \in Values
<1> DEFINE kept == {i \in DOMAIN value : value[i] # Blank}
<1>1. Len(value) \in Nat /\ DOMAIN value = 1..Len(value) /\ \A i \in DOMAIN value : value[i] \in Pieces
  BY DEF Values
<1>2. CASE kept = {}
  BY <1>2 DEF Stripped, Values
<1>3. CASE kept # {}
  <2>1. Min(kept) \in 1..Len(value) /\ Max(kept) \in 1..Len(value)
    BY <1>1, <1>3, LastPlaces
  <2>2. \A i \in Min(kept)..Max(kept) : value[i] \in Pieces
    BY <1>1, <2>1
  <2>3. SubSeq(value, Min(kept), Max(kept)) \in Seq(Pieces)
    <3> HIDE DEF kept
    <3> QED
      BY <2>1, <2>2, SubSeqProperties
  <2> QED
    BY <1>3, <2>3 DEF Stripped, Values
<1> QED
  BY <1>2, <1>3

\* The clauses of a leaf, field by field.
LEMMA AnyTermIsShallow ==
  ASSUME NEW fields \in [1..1 -> KeywordFields] \cup [1..2 -> KeywordFields]
                      \cup [1..3 -> KeywordFields],
         NEW value \in Values
  PROVE  AnyTerm(fields, value) \in Shallow /\ AnyTerm(fields, value) # Error
<1> DEFINE terms == [i \in DOMAIN fields |-> Term(fields[i], value)]
<1>1. \A i \in DOMAIN fields : Term(fields[i], value) \in Below
  BY LeafClausesAreLow
<1>2. terms \in [1..1 -> Below] \cup [1..2 -> Below] \cup [1..3 -> Below]
  BY <1>1
<1> HIDE DEF terms
<1>3. Error \notin Below
  BY LowClauses, NoErrorBelow
<1>4. Around("should", terms) \in Enclosing(Below)
  BY <1>2, <1>3, AroundEncloses DEF Joints
<1> QED
  BY <1>4, LowClauses, NoErrorBelow DEF AnyTerm, Should, terms

LEMMA LegalStatusIsShallow ==
  ASSUME NEW value \in Values
  PROVE  LegalStatusClause(value) \in Shallow /\ LegalStatusClause(value) # Error
<1>1. CASE ~(Len(value) = 1 /\ value[1] \in DOMAIN StatusSets)
  <2>1. <<"LatestLegalStatus", "LegalStatus">> \in [1..2 -> KeywordFields]
    BY DEF KeywordFields
  <2> QED
    BY <1>1, <2>1, AnyTermIsShallow DEF LegalStatusClause
<1>2. CASE Len(value) = 1 /\ value[1] \in DOMAIN StatusSets
  <2> DEFINE status(i) == Term("LatestLegalStatus", StatusSets[value[1]][i])
             terms == [i \in 1..2 |-> status(i)]
  <2>1. value[1] = "valid" /\ StatusSets["valid"] = << <<"granted">>, <<"active">> >>
    BY <1>2 DEF StatusSets
  <2>0. "granted" \in Pieces /\ "active" \in Pieces /\ "LatestLegalStatus" \in KeywordFields
    BY CodesAreValues DEF KeywordFields
  <2>2. <<"granted">> \in Values /\ <<"active">> \in Values
    BY <2>0 DEF Values
  <2>3. \A i \in 1..2 : StatusSets[value[1]][i] \in Values
    BY <2>1, <2>2
  <2>4. \A i \in 1..2 : status(i) \in Below
    BY <2>0, <2>3, LeafClausesAreLow
  <2>5. terms \in [1..2 -> Below]
    BY <2>4
  <2> HIDE DEF terms
  <2>6. Error \notin Below
    BY LowClauses, NoErrorBelow
  <2>7. Around("should", terms) \in Enclosing(Below)
    BY <2>5, <2>6, AroundEncloses DEF Joints
  <2> QED
    BY <1>2, <2>7, LowClauses, NoErrorBelow DEF LegalStatusClause, Should, terms
<1> QED
  BY <1>1, <1>2

(* The fields whose values the builder reads; a legal status and a range    *)
(* are read where their field is.                                          *)
ReadScopes == Scopes \ {"legalStatus", "ad", "documentYear"}

LEMMA RoutedFieldsAreText ==
  ASSUME NEW field \in {"title", "ab", "tscd", NoField}, NEW value
  PROVE  RoutedTextFields(field, value) \subseteq TextFields
<1>1. Language(value) \in {"cn", "en"}
  BY DEF Language
<1>2. CASE field = NoField
  BY <1>1, <1>2 DEF RoutedTextFields, TextFields, NoField
<1>3. CASE field = "tscd"
  BY <1>1, <1>3 DEF RoutedTextFields, TextFields, NoField
<1>4. CASE field \in {"title", "ab"}
  BY <1>1, <1>4 DEF RoutedTextFields, TextFields, NoField
<1> QED
  BY <1>2, <1>3, <1>4

LEMMA IpcIsLow ==
  ASSUME NEW value \in Values
  PROVE  /\ IpcClause(value) \in Below \cup {Error}
         /\ MainIpcClause(value) \in Below \cup {Error}
         /\ value \in DOMAIN IpcCodes => Term("IPCListBase", IpcCodes[value].code) \in Below
<1>1. ASSUME value \in DOMAIN IpcCodes
      PROVE  /\ IpcCodes[value].code \in Values
             /\ MainIpcField[IpcCodes[value].level] \in KeywordFields
  BY <1>1, CodesAreValues DEF MainIpcField, KeywordFields
<1>2. ASSUME value \in DOMAIN Families
      PROVE  Families[value] \in Values /\ Families[value] \o <<"/00">> \in Values
  <2>1. Families[value] \in Values /\ <<"/00">> \in Values
    BY <1>2, CodesAreValues DEF Values
  <2> QED
    BY <2>1, ConcatProperties DEF Values
<1>3. {"IPCListBase", "IPCLargeGroup"} \subseteq KeywordFields
  BY DEF KeywordFields
<1>4. \A field \in KeywordFields, code \in Values : Term(field, code) \in Below
  BY LeafClausesAreLow
<1>5. CASE value \in DOMAIN IpcCodes
  BY <1>1, <1>3, <1>4, <1>5, CodesAreValues DEF IpcClause, MainIpcClause
<1>6. CASE value \notin DOMAIN IpcCodes /\ value \in DOMAIN Families
  BY <1>2, <1>3, <1>4, <1>6 DEF IpcClause, MainIpcClause
<1>7. CASE value \notin DOMAIN IpcCodes /\ value \notin DOMAIN Families
  BY <1>7 DEF IpcClause, MainIpcClause
<1> QED
  BY <1>5, <1>6, <1>7

LEMMA LeafClauseIsShallow ==
  ASSUME NEW leaf, IsLeaf(leaf), leaf.value \in Values, NEW field \in ReadScopes
  PROVE  LeafClause(field, leaf) \in Shallow \cup {Error}
<1> DEFINE value == leaf.value
           clause == LeafClause(field, leaf)
<1>0. Below \subseteq Shallow /\ value \in Values
  BY LowClauses
<1>1. ASSUME NEW names \in SUBSET TextFields, NEW slop \in 0..1
      PROVE  Match(value, names) \in Below /\ Adjacent(value, names, slop) \in Below
  BY LeafClausesAreLow
<1>2. CASE BareIpc(leaf, field)
  <2>1. value \in DOMAIN IpcCodes
    BY <1>2 DEF BareIpc
  <2>2. clause = Term("IPCListBase", IpcCodes[value].code)
    BY <1>2 DEF LeafClause, BareIpc, PhraseFields, PlainFields, IdentifierFields, NoField
  <2> QED
    BY <1>0, <2>1, <2>2, IpcIsLow
<1>3. CASE field = "applicant"
  <2>1. {<<field, "any">>} \in SUBSET TextFields
    BY <1>3 DEF TextFields
  <2>2. clause = Adjacent(value, {<<field, "any">>}, 0)
    BY <1>3 DEF LeafClause, BareIpc, PhraseFields, PlainFields, IdentifierFields, NoField
  <2> QED
    BY <1>0, <1>1, <2>1, <2>2
<1>4. CASE field = "type"
  <2>1. clause = AnyTerm(<<"Type", "PatentTypeCode", "Kind">>, value)
    BY <1>4 DEF LeafClause, BareIpc, PhraseFields, PlainFields, IdentifierFields, NoField
  <2>2. <<"Type", "PatentTypeCode", "Kind">> \in [1..3 -> KeywordFields]
    BY DEF KeywordFields
  <2> QED
    BY <1>0, <2>1, <2>2, AnyTermIsShallow
<1>5. CASE field = "inventor"
  <2>1. {<<field, "any">>} \in SUBSET TextFields
    BY <1>5 DEF TextFields
  <2>2. \/ clause = Match(value, {<<field, "any">>})
        \/ clause = Adjacent(value, {<<field, "any">>}, 0)
    BY <1>5 DEF LeafClause, BareIpc, PhraseFields, PlainFields, IdentifierFields, NoField
  <2> QED
    BY <1>0, <1>1, <2>1, <2>2
<1>6. CASE field \in {"ipc", "mainIpc"}
  <2>1. clause \in {IpcClause(value), MainIpcClause(value)}
    BY <1>6 DEF LeafClause, BareIpc, PhraseFields, PlainFields, IdentifierFields, NoField
  <2> QED
    BY <1>0, <2>1, IpcIsLow
<1>7. CASE field \in {"documentNumber", "patentId"}
  <2>1. Stripped(value) \in Values
    BY <1>0, StrippedIsAValue
  <2>2. \/ clause = Error
        \/ clause = AnyTerm(<<"patent_id">>, Stripped(value))
        \/ clause = AnyTerm(<<"PublicationNumber", "PublicationNumberAliases">>, Stripped(value))
    BY <1>7 DEF LeafClause, BareIpc, PhraseFields, PlainFields, IdentifierFields, NoField
  <2>3. /\ <<"patent_id">> \in [1..1 -> KeywordFields]
        /\ <<"PublicationNumber", "PublicationNumberAliases">> \in [1..2 -> KeywordFields]
    BY DEF KeywordFields
  <2> QED
    BY <2>1, <2>2, <2>3, AnyTermIsShallow
<1>8. CASE ~BareIpc(leaf, field) /\ field \in {"title", "ab", "tscd", NoField}
  <2>1. RoutedTextFields(field, value) \in SUBSET TextFields
    BY <1>8, RoutedFieldsAreText
  <2>2. \/ clause = Match(value, RoutedTextFields(field, value))
        \/ clause = Adjacent(value, RoutedTextFields(field, value), 0)
        \/ clause = Adjacent(value, RoutedTextFields(field, value), 1)
    BY <1>8 DEF LeafClause, PhraseFields, PlainFields, IdentifierFields, NoField
  <2> QED
    BY <1>0, <1>1, <2>1, <2>2
<1> QED
  BY <1>2, <1>3, <1>4, <1>5, <1>6, <1>7, <1>8
     DEF ReadScopes, Scopes, SupportedFields, RoutedFields, PhraseFields, PlainFields,
         IdentifierFields

LEMMA RangeIsLow ==
  ASSUME NEW tree
  PROVE  RangeClause(tree) \in Below \cup {Error}
<1>1. /\ "ApplicationDate" \in DateFields
      /\ "PublicationDate" \in DateFields
  BY DEF DateFields
<1>2. CASE tree.field = "ad" /\ {tree.start, tree.end} \subseteq DOMAIN Dates
  <2>1. Dates[tree.start] \in Int /\ Dates[tree.end] \in Int
    BY <1>2, CodesAreValues
  <2>2. RangeClause(tree) \in {Error, InRange("ApplicationDate", Dates[tree.start], Dates[tree.end])}
    BY <1>2 DEF RangeClause
  <2> QED
    BY <1>1, <2>1, <2>2, LeafClausesAreLow
<1>3. CASE tree.field = "documentYear" /\ {tree.start, tree.end} \subseteq DOMAIN Years
  <2>1. Years[tree.start].first \in Int /\ Years[tree.end].last \in Int
    BY <1>3, CodesAreValues
  <2>2. RangeClause(tree) \in
          {Error, InRange("PublicationDate", Years[tree.start].first, Years[tree.end].last)}
    BY <1>3 DEF RangeClause
  <2> QED
    BY <1>1, <2>1, <2>2, LeafClausesAreLow
<1>4. CASE /\ ~(tree.field = "ad" /\ {tree.start, tree.end} \subseteq DOMAIN Dates)
           /\ ~(tree.field = "documentYear" /\ {tree.start, tree.end} \subseteq DOMAIN Years)
  BY <1>4 DEF RangeClause
<1> QED
  BY <1>2, <1>3, <1>4


-----------------------------------------------------------------------------
(* The recursive definitions, kind by kind. *)

\* The clause of a tree.
LEMMA ClauseEquations ==
  ASSUME NEW tree \in Trees, NEW field \in Scopes, NEW dis \in BOOLEAN
  PROVE  /\ IsLeaf(tree) => Clause(tree, field, dis) = LeafClause(field, tree)
         /\ tree.kind = "field" =>
              Clause(tree, field, dis) =
                IF field = NoField THEN FieldClause(ClauseOf, tree, dis) ELSE Error
         /\ tree.kind = "range" =>
              Clause(tree, field, dis) = IF field = NoField THEN RangeClause(tree) ELSE Error
         /\ tree.kind = "and" =>
              Clause(tree, field, dis) =
                Must(<<Clause(tree.left, field, dis), Clause(tree.right, field, dis)>>)
         /\ tree.kind = "or" =>
              Clause(tree, field, dis) =
                IF dis /\ CrossLanguage(tree.left, tree.right, field)
                THEN DisMax(<<Clause(tree.left, field, FALSE), Clause(tree.right, field, FALSE)>>)
                ELSE Should(<<Clause(tree.left, field, FALSE), Clause(tree.right, field, FALSE)>>)
         /\ tree.kind = "not" =>
              Clause(tree, field, dis) = MustNot(<<Clause(tree.child, field, FALSE)>>)
<1>1. Clause(tree, field, dis) = NodeClause(ClauseOf, tree, field, dis)
  <2> DEFINE row(f) == [d \in BOOLEAN |-> NodeClause(ClauseOf, tree, f, d)]
  <2>1. ClauseOf[tree] = [f \in Scopes |-> row(f)]
    BY ClausesDefined DEF ClauseStep
  <2> HIDE DEF row
  <2>2. ClauseOf[tree][field] = row(field)
    BY <2>1
  <2> QED
    BY <2>2 DEF Clause, row
<1>2. CASE IsLeaf(tree)
  BY <1>1, <1>2 DEF NodeClause, IsLeaf
<1>3. CASE tree.kind \in {"field", "range"}
  BY <1>1, <1>3 DEF NodeClause, IsLeaf
<1>4. CASE tree.kind \in {"and", "not"}
  BY <1>1, <1>4 DEF NodeClause, IsLeaf, Clause
<1>5. CASE tree.kind = "or"
  BY <1>1, <1>5 DEF NodeClause, IsLeaf, OrClause, Clause
<1> QED
  BY <1>2, <1>3, <1>4, <1>5 DEF IsLeaf

\* Whether the values of a tree fit.
LEMMA FitsEquations ==
  ASSUME NEW tree \in Trees, NEW field \in Scopes
  PROVE  /\ tree.kind \in {"and", "or"} =>
              (Fits(tree, field) <=> Fits(tree.left, field) /\ Fits(tree.right, field))
         /\ tree.kind = "not" => (Fits(tree, field) <=> Fits(tree.child, field))
         /\ tree.kind = "range" =>
              (Fits(tree, field) <=> field = NoField /\ RangeClause(tree) # Error)
         /\ tree.kind = "field" =>
              (Fits(tree, field) <=> /\ field = NoField
                                     /\ tree.field \in SupportedFields \ {"ad", "documentYear"}
                                     /\ IsLeaf(tree.value) => Stripped(tree.value.value) # << >>
                                     /\ Fits(tree.value, tree.field))
         /\ IsLeaf(tree) =>
              (Fits(tree, field) <=> field = "legalStatus" \/ LeafClause(field, tree) # Error)
<1>1. Fits(tree, field) = NodeFits(FitsOf, tree, field)
  BY FitsDefined DEF Fits, FitsStep
<1>2. CASE tree.kind \in {"and", "or", "not"}
  BY <1>1, <1>2 DEF NodeFits, IsLeaf, Fits
<1>3. CASE tree.kind = "range"
  BY <1>1, <1>3 DEF NodeFits, IsLeaf
<1>4. CASE tree.kind = "field"
  BY <1>1, <1>4 DEF NodeFits, IsLeaf, Fits
<1>5. CASE IsLeaf(tree)
  BY <1>1, <1>5 DEF NodeFits, IsLeaf
<1> QED
  BY <1>2, <1>3, <1>4, <1>5 DEF IsLeaf

\* Whether a tree holds of a document.
LEMMA HoldsEquations ==
  ASSUME NEW tree \in Trees, NEW field \in Scopes, NEW doc \in Corpus
  PROVE  /\ tree.kind = "and" =>
              (Holds(tree, field, doc) <=>
                 Holds(tree.left, field, doc) /\ Holds(tree.right, field, doc))
         /\ tree.kind = "or" =>
              (Holds(tree, field, doc) <=>
                 Holds(tree.left, field, doc) \/ Holds(tree.right, field, doc))
         /\ tree.kind = "not" => (Holds(tree, field, doc) <=> ~Holds(tree.child, field, doc))
         /\ tree.kind = "field" =>
              (Holds(tree, field, doc) <=> Holds(tree.value, tree.field, doc))
         /\ tree.kind = "range" => (Holds(tree, field, doc) <=> Matches(RangeClause(tree), doc))
         /\ IsLeaf(tree) =>
              (Holds(tree, field, doc) <=>
                 IF field = "legalStatus"
                 THEN Matches(LegalStatusClause(Stripped(tree.value)), doc)
                 ELSE Matches(LeafClause(field, tree), doc))
<1>1. Holds(tree, field, doc) = NodeHolds(HoldsOf, tree, field, doc)
  <2> DEFINE row(f) == [d \in Corpus |-> NodeHolds(HoldsOf, tree, f, d)]
  <2>1. HoldsOf[tree] = [f \in Scopes |-> row(f)]
    BY HoldsDefined DEF HoldsStep
  <2> HIDE DEF row
  <2>2. HoldsOf[tree][field] = row(field)
    BY <2>1
  <2> QED
    BY <2>2 DEF Holds, row
<1>2. CASE tree.kind \in {"and", "or", "not"}
  BY <1>1, <1>2 DEF NodeHolds, IsLeaf, Holds
<1>3. CASE tree.kind = "range"
  BY <1>1, <1>3 DEF NodeHolds, IsLeaf
<1>4. CASE tree.kind = "field"
  BY <1>1, <1>4 DEF NodeHolds, IsLeaf, Holds
<1>5. CASE IsLeaf(tree)
  BY <1>1, <1>5 DEF NodeHolds, IsLeaf
<1> QED
  BY <1>2, <1>3, <1>4, <1>5 DEF IsLeaf

\* Where no status takes an expression, none does in the parts.
LEMMA CompoundEquations ==
  ASSUME NEW tree \in Trees, ~CompoundStatus[tree]
  PROVE  /\ tree.kind \in {"and", "or"} =>
              ~CompoundStatus[tree.left] /\ ~CompoundStatus[tree.right]
         /\ tree.kind = "not" => ~CompoundStatus[tree.child]
         /\ tree.kind = "field" =>
              /\ ~CompoundStatus[tree.value]
              /\ tree.field = "legalStatus" => IsLeaf(tree.value)
<1>1. CompoundStatus[tree] = CompoundStep(CompoundStatus, tree)
  BY CompoundDefined
<1>2. CASE tree.kind \in {"and", "or", "not"}
  BY <1>1, <1>2 DEF CompoundStep
<1>3. CASE tree.kind = "field"
  BY <1>1, <1>3 DEF CompoundStep
<1> QED
  BY <1>2, <1>3

\* What a clause matches.
LEMMA MatchesEquations ==
  ASSUME NEW c \in Queries, NEW doc \in Corpus
  PROVE  /\ c.kind = "must" =>
              (Matches(c, doc) <=> \A i \in DOMAIN c.of : Matches(c.of[i], doc))
         /\ c.kind \in {"should", "dis_max"} =>
              (Matches(c, doc) <=> \E i \in DOMAIN c.of : Matches(c.of[i], doc))
         /\ c.kind = "must_not" =>
              (Matches(c, doc) <=> \A i \in DOMAIN c.of : ~Matches(c.of[i], doc))
<1>1. Matches(c, doc) = ClauseMatches(MatchesOf, c, doc)
  BY MatchesDefined DEF Matches, MatchesStep
<1> QED
  BY <1>1 DEF ClauseMatches, Matches

\* What a clause scores.
LEMMA ScoreEquations ==
  ASSUME NEW c \in Queries, NEW doc \in Corpus
  PROVE  /\ c.kind \in {"match", "phrase", "term", "range"} =>
              Score(c, doc) = IF Matches(c, doc) THEN 1 ELSE 0
         /\ c.kind \in {"must", "should"} =>
              Score(c, doc) = Total([i \in DOMAIN c.of |-> Score(c.of[i], doc)])
         /\ c.kind = "dis_max" =>
              Score(c, doc) = Max(Range([i \in DOMAIN c.of |-> Score(c.of[i], doc)]))
         /\ c.kind = "must_not" => Score(c, doc) = 0
<1>1. Score(c, doc) = ClauseScore(ScoreOf, c, doc)
  BY ScoreDefined DEF Score, ScoreStep
<1> QED
  BY <1>1 DEF ClauseScore, Score

-----------------------------------------------------------------------------
(* The height of a clause. *)

\* An error spreads to the clause around it; without one the clauses join.
LEMMA ErrorsSpread ==
  ASSUME NEW kind, NEW a, NEW b
  PROVE  /\ a = Error \/ b = Error => Around(kind, <<a, b>>) = Error
         /\ a = Error => Around(kind, <<a>>) = Error
<1>1. ASSUME a = Error \/ b = Error PROVE Around(kind, <<a, b>>) = Error
  <2>1. \E i \in DOMAIN <<a, b>> : <<a, b>>[i] = Error
    BY <1>1
  <2> QED
    BY <2>1 DEF Around
<1>2. ASSUME a = Error PROVE Around(kind, <<a>>) = Error
  <2>1. \E i \in DOMAIN <<a>> : <<a>>[i] = Error
    BY <1>2
  <2> QED
    BY <2>1 DEF Around
<1> QED
  BY <1>1, <1>2

LEMMA ClausesJoin ==
  ASSUME NEW inner, Error \notin inner, NEW a \in inner, NEW b \in inner,
         NEW kind \in Joints
  PROVE  /\ Around(kind, <<a, b>>) = [kind |-> kind, of |-> <<a, b>>]
         /\ Around(kind, <<a, b>>) \in Enclosing(inner)
         /\ Around(kind, <<a>>) = [kind |-> kind, of |-> <<a>>]
         /\ Around(kind, <<a>>) \in Enclosing(inner)
<1>1. <<a, b>> \in [1..2 -> inner] /\ <<a>> \in [1..1 -> inner]
  OBVIOUS
<1> QED
  BY <1>1, AroundEncloses

LEMMA JoinedIsAClause ==
  ASSUME NEW inner, Error \notin inner, NEW a, a \in inner \/ a = Error,
         NEW b, b \in inner \/ b = Error
  PROVE  /\ Around("must", <<a, b>>) \in Enclosing(inner) \cup {Error}
         /\ Around("should", <<a, b>>) \in Enclosing(inner) \cup {Error}
         /\ Around("dis_max", <<a, b>>) \in Enclosing(inner) \cup {Error}
         /\ MustNot(<<a>>) \in Enclosing(inner) \cup {Error}
<1>1. ASSUME NEW kind \in Joints
      PROVE  /\ Around(kind, <<a, b>>) \in Enclosing(inner) \cup {Error}
             /\ Around(kind, <<a>>) \in Enclosing(inner) \cup {Error}
  <2>1. a # Error => Around(kind, <<a>>) \in Enclosing(inner)
    BY ClausesJoin
  <2>2. a # Error /\ b # Error => Around(kind, <<a, b>>) \in Enclosing(inner)
    BY ClausesJoin
  <2> QED
    BY <2>1, <2>2, ErrorsSpread
<1> QED
  BY <1>1 DEF MustNot, Joints

\* A shallow clause is one of every tree.
LEMMA LowClausesEverywhere ==
  \A h \in Heights : h + 2 \in ClauseHeights => Shallow \subseteq ClausesTo[h + 2]
<1> DEFINE S == {n \in Nat : n + 2 \in ClauseHeights => Shallow \subseteq ClausesTo[n + 2]}
<1>0. Top \in Nat /\ Heights = 0..Top /\ QueryTop \in Nat /\ ClauseHeights = 0..QueryTop
  BY TopIsAHeight, QueryTopIsAHeight
<1>1. 0 \in S
  BY <1>0 DEF Shallow
<1>2. ASSUME NEW n \in 0..Top, n \in S, n < Top PROVE n + 1 \in S
  <2>1. n \in Nat /\ n + 1 \in Nat /\ n + 1 + 2 = n + 2 + 1
    BY <1>0
  <2>2. ASSUME n + 2 + 1 \in ClauseHeights PROVE Shallow \subseteq ClausesTo[n + 2 + 1]
    <3>1. n + 2 \in ClauseHeights
      BY <1>0, <2>1, <2>2
    <3> QED
      BY <1>2, <2>2, <3>1, ClausesGrow
  <2> QED
    BY <2>1, <2>2
<1> HIDE DEF S
<1>3. 0..Top \subseteq S
  BY <1>0, <1>1, <1>2, Climb
<1> QED
  BY <1>0, <1>3 DEF S

\* A field is refused, takes a status, or is the field of its value.
LEMMA FieldClauseCases ==
  ASSUME NEW tree, tree.kind = "field", NEW dis \in BOOLEAN
  PROVE  \/ /\ FieldClause(ClauseOf, tree, dis) = Error
            /\ \/ tree.field \notin SupportedFields \ {"ad", "documentYear"}
               \/ IsLeaf(tree.value) /\ Stripped(tree.value.value) = << >>
               \/ tree.value.kind \in {"field", "range"}
         \/ /\ FieldClause(ClauseOf, tree, dis) =
                 LegalStatusClause(IF IsLeaf(tree.value) THEN Stripped(tree.value.value) ELSE << >>)
            /\ tree.field = "legalStatus"
            /\ IsLeaf(tree.value) => Stripped(tree.value.value) # << >>
         \/ /\ FieldClause(ClauseOf, tree, dis) = Clause(tree.value, tree.field, dis)
            /\ tree.field \in ReadScopes \ {NoField}
            /\ IsLeaf(tree.value) => Stripped(tree.value.value) # << >>
            /\ tree.value.kind \notin {"field", "range"}
<1> DEFINE refused == \/ tree.field \notin SupportedFields \ {"ad", "documentYear"}
                      \/ IsLeaf(tree.value) /\ Stripped(tree.value.value) = << >>
                      \/ tree.value.kind \in {"field", "range"}
<1>1. CASE refused
  BY <1>1 DEF FieldClause
<1>2. CASE ~refused /\ tree.field = "legalStatus"
  BY <1>2 DEF FieldClause
<1>3. CASE ~refused /\ tree.field # "legalStatus"
  <2>1. FieldClause(ClauseOf, tree, dis) = Clause(tree.value, tree.field, dis)
    BY <1>3 DEF FieldClause, FieldValue, Clause
  <2>2. tree.field \in ReadScopes \ {NoField}
    BY <1>3 DEF ReadScopes, Scopes, SupportedFields, RoutedFields, PhraseFields, PlainFields,
                IdentifierFields, NoField
  <2> QED
    BY <1>3, <2>1, <2>2
<1> QED
  BY <1>1, <1>2, <1>3

LEMMA ScopesKnown ==
  /\ ReadScopes \subseteq Scopes
  /\ NoField \in ReadScopes
  /\ SupportedFields \subseteq Scopes
BY DEF ReadScopes, Scopes, SupportedFields, RoutedFields, PhraseFields, PlainFields,
       IdentifierFields, NoField

\* What is known of the clauses of the trees of a height.
Typed(h) ==
  \A tree \in TreesTo[h], field \in ReadScopes, dis \in BOOLEAN :
    Clause(tree, field, dis) \in ClausesTo[h + 1] \cup {Error}

\* A tree has a clause that is one higher at most, or an error.
LEMMA ClausesAreTyped ==
  \A h \in Heights : h + 1 \in ClauseHeights /\ Typed(h)
<1> DEFINE S == {n \in Nat : Typed(n)}
<1>0. /\ Top \in Nat /\ Heights = 0..Top /\ ClauseHeights = 0..QueryTop
      /\ \A h \in Heights : h + 1 \in ClauseHeights /\ h + 2 \in ClauseHeights
  BY HeightIsBounded, TopIsAHeight, QueryTopIsAHeight DEF Top, QueryTop
<1>1. 0 \in S
  BY TreesByHeight DEF Typed
<1>2. ASSUME NEW n \in 0..Top, n \in S, n < Top PROVE n + 1 \in S
  <2>0. n \in Heights /\ n + 1 \in Heights /\ n + 1 \in Nat /\ n \in ClauseHeights /\ n + 1 \in ClauseHeights
        /\ n + 1 + 1 \in ClauseHeights /\ n + 1 + 1 = n + 2 /\ n + 2 \in ClauseHeights
    BY <1>0, <1>2, HeightIsBounded DEF Top, QueryTop
  <2> DEFINE inner == ClausesTo[n + 1]
             outer == ClausesTo[n + 2]
  <2>1. outer = Enclosing(inner) /\ inner \subseteq outer /\ Shallow \subseteq outer /\ Below \subseteq outer
    BY <2>0, ClausesByHeight, ClausesGrow, LowClausesEverywhere, LowClauses
  <2>2. Error \notin inner
    <3>1. inner = Enclosing(ClausesTo[n])
      BY <1>0, <2>0, ClausesByHeight
    <3> QED
      BY <3>1, NoErrorBelow
  <2>3. \A t \in TreesTo[n], f \in ReadScopes, d \in BOOLEAN : Clause(t, f, d) \in inner \cup {Error}
    BY <1>2 DEF Typed
  <2> HIDE DEF inner, outer
  <2>4. ASSUME NEW tree \in TreesTo[n + 1], NEW field \in ReadScopes, NEW dis \in BOOLEAN
        PROVE  Clause(tree, field, dis) \in outer \cup {Error}
    <3>0. tree \in Trees /\ Shaped(tree, TreesTo[n]) /\ field \in Scopes /\ FALSE \in BOOLEAN
      BY <2>0, TreesByHeight, TreesGrow, NodesHaveParts, ScopesKnown
    <3>1. CASE IsLeaf(tree)
      <4>1. Clause(tree, field, dis) = LeafClause(field, tree)
        BY <3>0, <3>1, ClauseEquations
      <4>2. tree.value \in Values
        BY <3>0, <3>1 DEF Shaped, IsLeaf
      <4>3. LeafClause(field, tree) \in Shallow \cup {Error}
        BY <3>1, <4>2, LeafClauseIsShallow
      <4> QED
        BY <2>1, <4>1, <4>3
    <3>2. CASE tree.kind = "range"
      <4>1. Clause(tree, field, dis) \in {RangeClause(tree), Error}
        BY <3>0, <3>2, ClauseEquations
      <4> QED
        BY <2>1, <4>1, RangeIsLow
    <3>3. CASE tree.kind = "field"
      <4>1. tree.value \in TreesTo[n]
        BY <3>0, <3>3 DEF Shaped
      <4>2. IsLeaf(tree.value) => tree.value.value \in Values
        <5>1. tree.value \in Trees
          BY <2>0, <4>1, TreesGrow
        <5> QED
          BY <5>1, TreePartsAreTrees DEF Shaped, IsLeaf
      <4>3. LegalStatusClause(IF IsLeaf(tree.value) THEN Stripped(tree.value.value) ELSE << >>) \in outer
        BY <2>1, <4>2, StrippedIsAValue, LegalStatusIsShallow, EmptySeq DEF Values
      <4>4. tree.field \in ReadScopes => Clause(tree.value, tree.field, dis) \in outer \cup {Error}
        BY <2>1, <2>3, <4>1
      <4>5. Clause(tree, field, dis) \in {FieldClause(ClauseOf, tree, dis), Error}
        BY <3>0, <3>3, ClauseEquations
      <4>6. FieldClause(ClauseOf, tree, dis) \in outer \cup {Error}
        BY <3>3, <4>3, <4>4, FieldClauseCases
      <4> QED
        BY <4>5, <4>6
    <3>4. CASE tree.kind = "and"
      <4>1. tree.left \in TreesTo[n] /\ tree.right \in TreesTo[n]
        BY <3>0, <3>4 DEF Shaped
      <4>2. /\ Clause(tree.left, field, dis) \in inner \cup {Error}
            /\ Clause(tree.right, field, dis) \in inner \cup {Error}
        BY <2>3, <4>1
      <4> QED
        <5> DEFINE a == Clause(tree.left, field, dis)
                   b == Clause(tree.right, field, dis)
        <5>1. Clause(tree, field, dis) = Around("must", <<a, b>>)
          <6>1. Clause(tree, field, dis) = Must(<<a, b>>)
            BY <3>0, <3>4, ClauseEquations
          <6> QED
            BY <6>1 DEF Must
        <5> HIDE DEF a, b
        <5>2. a \in inner \cup {Error} /\ b \in inner \cup {Error}
          BY <4>2 DEF a, b
        <5>3. Around("must", <<a, b>>) \in Enclosing(inner) \cup {Error}
          BY <2>2, <5>2, JoinedIsAClause
        <5> QED
          BY <2>1, <5>1, <5>3
    <3>5. CASE tree.kind = "or"
      <4>1. tree.left \in TreesTo[n] /\ tree.right \in TreesTo[n]
        BY <3>0, <3>5 DEF Shaped
      <4>2. /\ Clause(tree.left, field, FALSE) \in inner \cup {Error}
            /\ Clause(tree.right, field, FALSE) \in inner \cup {Error}
        BY <2>3, <4>1
      <4> QED
        <5> DEFINE a == Clause(tree.left, field, FALSE)
                   b == Clause(tree.right, field, FALSE)
        <5>1. Clause(tree, field, dis) \in {Around("should", <<a, b>>), Around("dis_max", <<a, b>>)}
          <6>1. \/ Clause(tree, field, dis) = Should(<<a, b>>)
                \/ Clause(tree, field, dis) = DisMax(<<a, b>>)
            BY <3>0, <3>5, ClauseEquations
          <6> QED
            BY <6>1 DEF Should, DisMax
        <5> HIDE DEF a, b
        <5>2. a \in inner \cup {Error} /\ b \in inner \cup {Error}
          BY <4>2 DEF a, b
        <5>3. /\ Around("should", <<a, b>>) \in Enclosing(inner) \cup {Error}
              /\ Around("dis_max", <<a, b>>) \in Enclosing(inner) \cup {Error}
          BY <2>2, <5>2, JoinedIsAClause
        <5> QED
          BY <2>1, <5>1, <5>3
    <3>6. CASE tree.kind = "not"
      <4>1. tree.child \in TreesTo[n]
        BY <3>0, <3>6 DEF Shaped
      <4>2. Clause(tree.child, field, FALSE) \in inner \cup {Error}
        BY <2>3, <4>1
      <4> QED
        <5> DEFINE a == Clause(tree.child, field, FALSE)
        <5>1. Clause(tree, field, dis) = MustNot(<<a>>)
          BY <3>0, <3>6, ClauseEquations
        <5> HIDE DEF a
        <5>2. a \in inner \cup {Error}
          BY <4>2 DEF a
        <5>3. MustNot(<<a>>) \in Enclosing(inner) \cup {Error}
          BY <2>2, <5>2, JoinedIsAClause
        <5> QED
          BY <2>1, <5>1, <5>3
    <3> QED
      BY <3>0, <3>1, <3>2, <3>3, <3>4, <3>5, <3>6 DEF Shaped, IsLeaf
  <2> QED
    BY <2>0, <2>4 DEF Typed, outer
<1> HIDE DEF S
<1>3. 0..Top \subseteq S
  BY <1>0, <1>1, <1>2, Climb
<1> QED
  BY <1>0, <1>3 DEF S

-----------------------------------------------------------------------------
(* A tree compiles to its meaning. *)

\* A must matches what both clauses match, a should and a dis_max what one of them matches.
LEMMA JoinedMatches ==
  ASSUME NEW k \in ClauseHeights, k + 1 \in ClauseHeights,
         NEW a \in ClausesTo[k], NEW b \in ClausesTo[k], NEW doc \in Corpus
  PROVE  /\ Around("must", <<a, b>>) # Error
         /\ Matches(Around("must", <<a, b>>), doc) <=> Matches(a, doc) /\ Matches(b, doc)
         /\ Around("should", <<a, b>>) # Error
         /\ Matches(Around("should", <<a, b>>), doc) <=> Matches(a, doc) \/ Matches(b, doc)
         /\ Around("dis_max", <<a, b>>) # Error
         /\ Matches(Around("dis_max", <<a, b>>), doc) <=> Matches(a, doc) \/ Matches(b, doc)
         /\ Around("must_not", <<a>>) # Error
         /\ Matches(Around("must_not", <<a>>), doc) <=> ~Matches(a, doc)
<1>0. Error \notin ClausesTo[k] /\ Error \notin Queries
  <2>1. k + 1 \in Nat /\ k \in Nat /\ Error \notin Enclosing(ClausesTo[k])
    BY NoErrorBelow, QueryTopIsAHeight
  <2>2. ClausesTo[k] \subseteq ClausesTo[k + 1] /\ ClausesTo[k + 1] = Enclosing(ClausesTo[k])
    BY ClausesByHeight, ClausesGrow
  <2>3. MaxHeight + 2 \in ClauseHeights /\ MaxHeight + 2 + 1 \in ClauseHeights
        /\ MaxHeight + 2 + 1 = MaxHeight + 3
    BY HeightIsBounded DEF ClauseHeights
  <2>4. Queries = Enclosing(ClausesTo[MaxHeight + 2])
    BY <2>3, ClausesByHeight DEF Queries
  <2> QED
    BY <2>1, <2>2, <2>4, NoErrorBelow
<1>1. ASSUME NEW kind \in Joints
      PROVE  /\ Around(kind, <<a, b>>) = [kind |-> kind, of |-> <<a, b>>]
             /\ Around(kind, <<a, b>>) \in Queries
             /\ Around(kind, <<a>>) = [kind |-> kind, of |-> <<a>>]
             /\ Around(kind, <<a>>) \in Queries
  <2>1. Enclosing(ClausesTo[k]) \subseteq Queries
    BY ClausesByHeight, ClausesGrow
  <2>2. /\ Around(kind, <<a, b>>) \in Enclosing(ClausesTo[k])
        /\ Around(kind, <<a>>) \in Enclosing(ClausesTo[k])
    BY <1>0, ClausesJoin
  <2>3. /\ Around(kind, <<a, b>>) = [kind |-> kind, of |-> <<a, b>>]
        /\ Around(kind, <<a>>) = [kind |-> kind, of |-> <<a>>]
    BY <1>0, ClausesJoin
  <2> QED
    BY <2>1, <2>2, <2>3
<1> DEFINE both(kind) == Around(kind, <<a, b>>)
<1>2. ASSUME NEW kind \in {"must", "should", "dis_max"}
      PROVE  both(kind) \in Queries /\ both(kind).kind = kind /\ both(kind).of = <<a, b>>
  BY <1>1, <1>2 DEF Joints
<1>3. DOMAIN <<a, b>> = {1, 2} /\ <<a, b>>[1] = a /\ <<a, b>>[2] = b
  OBVIOUS
<1> HIDE DEF both
<1>4. Matches(both("must"), doc) <=> Matches(a, doc) /\ Matches(b, doc)
  <2>1. both("must") \in Queries /\ both("must").kind = "must" /\ both("must").of = <<a, b>>
    BY <1>2
  <2>2. Matches(both("must"), doc) <=> \A i \in DOMAIN <<a, b>> : Matches(<<a, b>>[i], doc)
    BY <2>1, MatchesEquations
  <2> QED
    BY <1>3, <2>2
<1>5. ASSUME NEW kind \in {"should", "dis_max"}
      PROVE  Matches(both(kind), doc) <=> Matches(a, doc) \/ Matches(b, doc)
  <2>1. both(kind) \in Queries /\ both(kind).kind = kind /\ both(kind).of = <<a, b>>
    BY <1>2
  <2>2. Matches(both(kind), doc) <=> \E i \in DOMAIN <<a, b>> : Matches(<<a, b>>[i], doc)
    BY <2>1, MatchesEquations
  <2> QED
    BY <1>3, <2>2
<1>6. Matches(Around("must_not", <<a>>), doc) <=> ~Matches(a, doc)
  <2> DEFINE one == Around("must_not", <<a>>)
  <2>1. one \in Queries /\ one.kind = "must_not" /\ one.of = <<a>>
    BY <1>1 DEF Joints
  <2> HIDE DEF one
  <2>2. Matches(one, doc) <=> \A i \in DOMAIN <<a>> : ~Matches(<<a>>[i], doc)
    BY <2>1, MatchesEquations
  <2> QED
    BY <2>2 DEF one
<1> QED
  BY <1>0, <1>1, <1>4, <1>5, <1>6 DEF both, Joints

\* What the clause of a tree promises.
Means(tree, field, dis) ==
  /\ Clause(tree, field, dis) # Error <=> Fits(tree, field)
  /\ Clause(tree, field, dis) # Error =>
       \A doc \in Corpus : Matches(Clause(tree, field, dis), doc) <=> Holds(tree, field, doc)

\* Each kind of tree means what it says when its parts do.
LEMMA LeafMeans ==
  ASSUME NEW tree \in Trees, IsLeaf(tree), NEW field \in ReadScopes, NEW dis \in BOOLEAN
  PROVE  Means(tree, field, dis)
<1>0. field \in Scopes /\ field # "legalStatus"
  BY ScopesKnown DEF ReadScopes
<1>1. Clause(tree, field, dis) = LeafClause(field, tree)
  BY <1>0, ClauseEquations
<1>2. Fits(tree, field) <=> LeafClause(field, tree) # Error
  BY <1>0, FitsEquations
<1>3. \A doc \in Corpus : Holds(tree, field, doc) <=> Matches(LeafClause(field, tree), doc)
  BY <1>0, HoldsEquations
<1> QED
  BY <1>1, <1>2, <1>3 DEF Means

LEMMA RangeMeans ==
  ASSUME NEW tree \in Trees, tree.kind = "range", NEW field \in ReadScopes, NEW dis \in BOOLEAN
  PROVE  Means(tree, field, dis)
<1>0. field \in Scopes
  BY ScopesKnown
<1>1. Clause(tree, field, dis) = IF field = NoField THEN RangeClause(tree) ELSE Error
  BY <1>0, ClauseEquations
<1>2. Fits(tree, field) <=> field = NoField /\ RangeClause(tree) # Error
  BY <1>0, FitsEquations
<1>3. \A doc \in Corpus : Holds(tree, field, doc) <=> Matches(RangeClause(tree), doc)
  BY <1>0, HoldsEquations
<1> QED
  BY <1>1, <1>2, <1>3 DEF Means

LEMMA FieldMeans ==
  ASSUME NEW tree \in Trees, tree.kind = "field", ~CompoundStatus[tree],
         NEW field \in ReadScopes, NEW dis \in BOOLEAN,
         tree.field \in ReadScopes => Means(tree.value, tree.field, dis)
  PROVE  Means(tree, field, dis)
<1> DEFINE value == tree.value
<1>0. field \in Scopes /\ value \in Trees /\ NoField \in Scopes
  BY ScopesKnown, TreePartsAreTrees DEF Shaped
<1>1. Fits(tree, field) <=> /\ field = NoField
                            /\ tree.field \in SupportedFields \ {"ad", "documentYear"}
                            /\ IsLeaf(value) => Stripped(value.value) # << >>
                            /\ Fits(value, tree.field)
  BY <1>0, FitsEquations
<1>2. Clause(tree, field, dis) = IF field = NoField THEN FieldClause(ClauseOf, tree, dis) ELSE Error
  BY <1>0, ClauseEquations
<1>3. \A doc \in Corpus : Holds(tree, field, doc) <=> Holds(value, tree.field, doc)
  BY <1>0, HoldsEquations
<1>4. tree.field = "legalStatus" => IsLeaf(value)
  BY CompoundEquations
<1>5. \A f \in SupportedFields : f \in Scopes /\ f # NoField
  BY ScopesKnown DEF SupportedFields, RoutedFields, PhraseFields, PlainFields, IdentifierFields,
                     NoField
<1>6. CASE field # NoField
  BY <1>1, <1>2, <1>6 DEF Means
<1>7. CASE /\ field = NoField
           /\ FieldClause(ClauseOf, tree, dis) = Error
           /\ \/ tree.field \notin SupportedFields \ {"ad", "documentYear"}
              \/ IsLeaf(value) /\ Stripped(value.value) = << >>
              \/ value.kind \in {"field", "range"}
  <2>1. ASSUME tree.field \in SupportedFields, value.kind \in {"field", "range"}
        PROVE  ~Fits(value, tree.field)
    BY <1>0, <1>5, <2>1, FitsEquations
  <2>2. ~Fits(tree, field)
    BY <1>1, <1>7, <2>1
  <2>3. Clause(tree, field, dis) = Error
    BY <1>2, <1>7
  <2> QED
    BY <2>2, <2>3 DEF Means
<1>8. CASE /\ field = NoField
           /\ FieldClause(ClauseOf, tree, dis) =
                LegalStatusClause(IF IsLeaf(value) THEN Stripped(value.value) ELSE << >>)
           /\ tree.field = "legalStatus"
           /\ IsLeaf(value) => Stripped(value.value) # << >>
  <2>1. IsLeaf(value) /\ value.value \in Values
    BY <1>0, <1>4, <1>8, TreePartsAreTrees DEF Shaped, IsLeaf
  <2>2. Clause(tree, field, dis) = LegalStatusClause(Stripped(value.value))
    BY <1>2, <1>8, <2>1
  <2>3. LegalStatusClause(Stripped(value.value)) # Error
    BY <2>1, StrippedIsAValue, LegalStatusIsShallow
  <2>4. tree.field \in SupportedFields \ {"ad", "documentYear"} /\ tree.field \in Scopes
    BY <1>8 DEF SupportedFields, Scopes
  <2>5. Fits(value, tree.field)
    BY <1>0, <1>8, <2>1, <2>4, FitsEquations
  <2>6. \A doc \in Corpus :
          Holds(value, tree.field, doc) <=> Matches(LegalStatusClause(Stripped(value.value)), doc)
    BY <1>0, <1>8, <2>1, <2>4, HoldsEquations
  <2>7. Fits(tree, field)
    BY <1>1, <1>8, <2>4, <2>5
  <2> QED
    BY <1>3, <2>2, <2>3, <2>6, <2>7 DEF Means
<1>9. CASE /\ field = NoField
           /\ FieldClause(ClauseOf, tree, dis) = Clause(value, tree.field, dis)
           /\ tree.field \in ReadScopes \ {NoField}
           /\ IsLeaf(value) => Stripped(value.value) # << >>
           /\ value.kind \notin {"field", "range"}
  <2>1. tree.field \in SupportedFields \ {"ad", "documentYear"}
    BY <1>9 DEF ReadScopes, Scopes
  <2>2. Means(value, tree.field, dis)
    BY <1>9
  <2>3. Clause(tree, field, dis) = Clause(value, tree.field, dis)
    BY <1>2, <1>9
  <2>4. Fits(tree, field) <=> Fits(value, tree.field)
    BY <1>1, <1>9, <2>1
  <2> QED
    BY <1>3, <2>2, <2>3, <2>4 DEF Means
<1> QED
  BY <1>6, <1>7, <1>8, <1>9, FieldClauseCases

\* The choice the branches of a tree are left.
Within(tree, dis) == IF tree.kind = "and" THEN dis ELSE FALSE

LEMMA BranchesMean ==
  ASSUME NEW k \in ClauseHeights, k + 1 \in ClauseHeights, NEW tree \in Trees,
         tree.kind \in {"and", "or"}, NEW field \in ReadScopes, NEW dis \in BOOLEAN,
         Clause(tree.left, field, Within(tree, dis)) \in ClausesTo[k]
           \/ Clause(tree.left, field, Within(tree, dis)) = Error,
         Clause(tree.right, field, Within(tree, dis)) \in ClausesTo[k]
           \/ Clause(tree.right, field, Within(tree, dis)) = Error,
         Means(tree.left, field, Within(tree, dis)), Means(tree.right, field, Within(tree, dis))
  PROVE  Means(tree, field, dis)
<1> DEFINE within == Within(tree, dis)
           a == Clause(tree.left, field, within)
           b == Clause(tree.right, field, within)
           c == Clause(tree, field, dis)
<1>0. field \in Scopes
  BY ScopesKnown
<1>1. Fits(tree, field) <=> Fits(tree.left, field) /\ Fits(tree.right, field)
  BY <1>0, FitsEquations
<1>2. /\ tree.kind = "and" => c = Around("must", <<a, b>>)
      /\ tree.kind = "or" => c \in {Around("should", <<a, b>>), Around("dis_max", <<a, b>>)}
  <2>1. CASE tree.kind = "and"
    <3>1. c = Must(<<Clause(tree.left, field, dis), Clause(tree.right, field, dis)>>)
      BY <1>0, <2>1, ClauseEquations
    <3> QED
      BY <2>1, <3>1 DEF Must, Within
  <2>2. CASE tree.kind = "or"
    <3>1. \/ c = Should(<<Clause(tree.left, field, FALSE), Clause(tree.right, field, FALSE)>>)
          \/ c = DisMax(<<Clause(tree.left, field, FALSE), Clause(tree.right, field, FALSE)>>)
      BY <1>0, <2>2, ClauseEquations
    <3> QED
      BY <2>2, <3>1 DEF Should, DisMax, Within
  <2> QED
    BY <2>1, <2>2
<1>3. \A doc \in Corpus :
        /\ tree.kind = "and" =>
             (Holds(tree, field, doc) <=> Holds(tree.left, field, doc) /\ Holds(tree.right, field, doc))
        /\ tree.kind = "or" =>
             (Holds(tree, field, doc) <=> Holds(tree.left, field, doc) \/ Holds(tree.right, field, doc))
  BY <1>0, HoldsEquations
<1>4. /\ a # Error <=> Fits(tree.left, field)
      /\ a # Error => \A doc \in Corpus : Matches(a, doc) <=> Holds(tree.left, field, doc)
      /\ b # Error <=> Fits(tree.right, field)
      /\ b # Error => \A doc \in Corpus : Matches(b, doc) <=> Holds(tree.right, field, doc)
  BY DEF Means
<1>5. /\ a \in ClausesTo[k] \/ a = Error
      /\ b \in ClausesTo[k] \/ b = Error
  OBVIOUS
<1>6. SUFFICES /\ c # Error <=> Fits(tree, field)
               /\ c # Error => \A doc \in Corpus : Matches(c, doc) <=> Holds(tree, field, doc)
  BY DEF Means
<1> HIDE DEF a, b, c
<1>7. CASE a = Error \/ b = Error
  <2>1. \A kind : Around(kind, <<a, b>>) = Error
    BY <1>7, ErrorsSpread
  <2>2. c = Error
    BY <1>2, <2>1
  <2> QED
    BY <1>1, <1>4, <1>7, <2>2
<1>8. CASE a # Error /\ b # Error
  <2>1. a \in ClausesTo[k] /\ b \in ClausesTo[k]
    BY <1>5, <1>8
  <2>2. c # Error
    <3>1. \A kind \in Joints : Around(kind, <<a, b>>) # Error
      <4>1. Error \notin ClausesTo[k]
        <5>1. ClausesTo[k] \subseteq ClausesTo[k + 1] /\ ClausesTo[k + 1] = Enclosing(ClausesTo[k])
          BY ClausesByHeight, ClausesGrow
        <5> QED
          BY <5>1, NoErrorBelow
      <4>2. ASSUME NEW kind \in Joints PROVE Around(kind, <<a, b>>) \in Enclosing(ClausesTo[k])
        BY <2>1, <4>1, ClausesJoin
      <4> QED
        BY <4>2, NoErrorBelow
    <3> QED
      BY <1>2, <3>1 DEF Joints
  <2>3. ASSUME NEW doc \in Corpus PROVE Matches(c, doc) <=> Holds(tree, field, doc)
    <3>1. /\ Matches(Around("must", <<a, b>>), doc) <=> Matches(a, doc) /\ Matches(b, doc)
          /\ Matches(Around("should", <<a, b>>), doc) <=> Matches(a, doc) \/ Matches(b, doc)
          /\ Matches(Around("dis_max", <<a, b>>), doc) <=> Matches(a, doc) \/ Matches(b, doc)
      BY <2>1, JoinedMatches
    <3>2. CASE tree.kind = "and"
      BY <1>2, <1>3, <1>4, <1>8, <3>1, <3>2
    <3>3. CASE tree.kind = "or"
      BY <1>2, <1>3, <1>4, <1>8, <3>1, <3>3
    <3> QED
      BY <3>2, <3>3
  <2> QED
    BY <1>1, <1>4, <1>8, <2>2, <2>3
<1> QED
  BY <1>7, <1>8

LEMMA NegationMeans ==
  ASSUME NEW k \in ClauseHeights, k + 1 \in ClauseHeights, NEW tree \in Trees,
         tree.kind = "not", NEW field \in ReadScopes, NEW dis \in BOOLEAN,
         Clause(tree.child, field, FALSE) \in ClausesTo[k] \/ Clause(tree.child, field, FALSE) = Error,
         Means(tree.child, field, FALSE)
  PROVE  Means(tree, field, dis)
<1> DEFINE a == Clause(tree.child, field, FALSE)
           c == Clause(tree, field, dis)
<1>0. field \in Scopes
  BY ScopesKnown
<1>1. Fits(tree, field) <=> Fits(tree.child, field)
  BY <1>0, FitsEquations
<1>2. c = Around("must_not", <<a>>)
  <2>1. c = MustNot(<<Clause(tree.child, field, FALSE)>>)
    BY <1>0, ClauseEquations
  <2> QED
    BY <2>1 DEF MustNot
<1>3. \A doc \in Corpus : Holds(tree, field, doc) <=> ~Holds(tree.child, field, doc)
  BY <1>0, HoldsEquations
<1>4. /\ a # Error <=> Fits(tree.child, field)
      /\ a # Error => \A doc \in Corpus : Matches(a, doc) <=> Holds(tree.child, field, doc)
  BY DEF Means
<1>5. a \in ClausesTo[k] \/ a = Error
  OBVIOUS
<1>6. SUFFICES /\ c # Error <=> Fits(tree, field)
               /\ c # Error => \A doc \in Corpus : Matches(c, doc) <=> Holds(tree, field, doc)
  BY DEF Means
<1> HIDE DEF a, c
<1>7. CASE a = Error
  BY <1>1, <1>2, <1>4, <1>7, ErrorsSpread
<1>8. CASE a # Error
  <2>1. a \in ClausesTo[k]
    BY <1>5, <1>8
  <2>2. c # Error
    <3>1. ClausesTo[k] \subseteq ClausesTo[k + 1] /\ ClausesTo[k + 1] = Enclosing(ClausesTo[k])
      BY ClausesByHeight, ClausesGrow
    <3>2. Error \notin ClausesTo[k]
      BY <3>1, NoErrorBelow
    <3> QED
      <4>1. "must_not" \in Joints
        BY DEF Joints
      <4>2. Around("must_not", <<a>>) \in Enclosing(ClausesTo[k])
        BY <2>1, <3>2, <4>1, ClausesJoin
      <4> QED
        BY <1>2, <4>2, NoErrorBelow
  <2>3. \A doc \in Corpus : Matches(Around("must_not", <<a>>), doc) <=> ~Matches(a, doc)
    BY <2>1, JoinedMatches
  <2> QED
    BY <1>1, <1>2, <1>3, <1>4, <1>8, <2>2, <2>3
<1> QED
  BY <1>7, <1>8

\* So all trees do, by induction on their height.
LEMMA TreesMean ==
  \A h \in Heights : \A tree \in TreesTo[h], field \in ReadScopes, dis \in BOOLEAN :
    ~CompoundStatus[tree] => Means(tree, field, dis)
<1> DEFINE M(n) == \A tree \in TreesTo[n], field \in ReadScopes, dis \in BOOLEAN :
                     ~CompoundStatus[tree] => Means(tree, field, dis)
           S == {n \in Nat : M(n)}
<1>0. Top \in Nat /\ Heights = 0..Top /\ ClauseHeights = 0..QueryTop
  BY TopIsAHeight, QueryTopIsAHeight
<1>1. 0 \in S
  BY TreesByHeight
<1>2. ASSUME NEW n \in 0..Top, n \in S, n < Top PROVE n + 1 \in S
  <2>0. n \in Heights /\ n + 1 \in Heights /\ n + 1 \in Nat /\ n + 1 \in ClauseHeights
        /\ n + 1 + 1 \in ClauseHeights
    BY <1>0, <1>2, HeightIsBounded DEF Top, QueryTop
  <2>1. M(n)
    BY <1>2
  <2>2. \A t \in TreesTo[n], f \in ReadScopes, d \in BOOLEAN :
          Clause(t, f, d) \in ClausesTo[n + 1] \/ Clause(t, f, d) = Error
    <3>1. Typed(n)
      BY <2>0, ClausesAreTyped
    <3> QED
      BY <3>1 DEF Typed
  <2>3. ASSUME NEW tree \in TreesTo[n + 1], NEW field \in ReadScopes, NEW dis \in BOOLEAN,
               ~CompoundStatus[tree]
        PROVE  Means(tree, field, dis)
    <3>0. tree \in Trees /\ Shaped(tree, TreesTo[n])
      BY <2>0, TreesByHeight, TreesGrow, NodesHaveParts
    <3>1. CASE IsLeaf(tree)
      BY <3>0, <3>1, LeafMeans
    <3>2. CASE tree.kind = "range"
      BY <3>0, <3>2, RangeMeans
    <3>3. CASE tree.kind = "field"
      <4>1. tree.value \in TreesTo[n]
        BY <3>0, <3>3 DEF Shaped
      <4>2. ~CompoundStatus[tree.value]
        BY <2>3, <3>0, <3>3, CompoundEquations
      <4>3. tree.field \in ReadScopes => Means(tree.value, tree.field, dis)
        BY <2>1, <4>1, <4>2
      <4> QED
        BY <2>3, <3>0, <3>3, <4>3, FieldMeans
    <3>4. CASE tree.kind \in {"and", "or"}
      <4> DEFINE within == Within(tree, dis)
      <4>0. within \in BOOLEAN
        BY DEF Within
      <4>1. tree.left \in TreesTo[n] /\ tree.right \in TreesTo[n]
        BY <3>0, <3>4 DEF Shaped
      <4>2. ~CompoundStatus[tree.left] /\ ~CompoundStatus[tree.right]
        BY <2>3, <3>0, <3>4, CompoundEquations
      <4> HIDE DEF M
      <4>3. Means(tree.left, field, within) /\ Means(tree.right, field, within)
        BY <2>1, <4>0, <4>1, <4>2 DEF M
      <4>4. /\ Clause(tree.left, field, within) \in ClausesTo[n + 1]
               \/ Clause(tree.left, field, within) = Error
            /\ Clause(tree.right, field, within) \in ClausesTo[n + 1]
               \/ Clause(tree.right, field, within) = Error
        BY <2>2, <4>0, <4>1
      <4> QED
        BY <2>0, <3>0, <3>4, <4>3, <4>4, BranchesMean
    <3>5. CASE tree.kind = "not"
      <4>0. FALSE \in BOOLEAN
        OBVIOUS
      <4>1. tree.child \in TreesTo[n]
        BY <3>0, <3>5 DEF Shaped
      <4>2. ~CompoundStatus[tree.child]
        BY <2>3, <3>0, <3>5, CompoundEquations
      <4>3. Means(tree.child, field, FALSE)
        BY <2>1, <4>0, <4>1, <4>2
      <4>4. Clause(tree.child, field, FALSE) \in ClausesTo[n + 1]
            \/ Clause(tree.child, field, FALSE) = Error
        BY <2>2, <4>0, <4>1
      <4> QED
        BY <2>0, <3>0, <3>5, <4>3, <4>4, NegationMeans
    <3> QED
      BY <3>0, <3>1, <3>2, <3>3, <3>4, <3>5 DEF Shaped, IsLeaf
  <2> QED
    BY <2>0, <2>3
<1> HIDE DEF S
<1>3. 0..Top \subseteq S
  BY <1>0, <1>1, <1>2, Climb
<1> QED
  BY <1>0, <1>3 DEF S

\* For every syntax tree, of any shape and up to any height: it compiles exactly when each of its
\* values is one its field takes, and its query then matches exactly the documents the tree
\* holds of (_build_node_clause).  A legal status with an expression for its value is left out.
THEOREM TreesCompileToTheirMeaning ==
  \A tree \in Trees : ~CompoundStatus[tree] => CompilesTo(tree)
<1>1. Top \in Heights /\ Trees = TreesTo[Top] /\ NoField \in ReadScopes /\ TRUE \in BOOLEAN
  BY TopIsAHeight, ScopesKnown
<1> QED
  BY <1>1, TreesMean DEF CompilesTo, Means

-----------------------------------------------------------------------------
(* Scores. *)

\* The sum and the best of up to three numbers are numbers.
LEMMA BestIsANumber ==
  ASSUME NEW x \in Int, NEW y \in Int, NEW z \in Int
  PROVE  Max({x, y, z}) \in Int
<1>1. \E best \in {x, y, z} : \A other \in {x, y, z} : best >= other
  OBVIOUS
<1>2. Max({x, y, z}) \in {x, y, z}
  BY <1>1 DEF Max
<1> QED
  BY <1>2

LEMMA NumbersOfClauses ==
  ASSUME NEW len \in 1..3, NEW numbers \in [1..len -> Int]
  PROVE  Total(numbers) \in Int /\ Max(Range(numbers)) \in Int
<1>1. CASE len = 1
  <2>1. DOMAIN numbers = 1..1 /\ numbers[1] \in Int
    BY <1>1
  <2>2. Range(numbers) = {numbers[1], numbers[1], numbers[1]}
    BY <2>1 DEF Range
  <2>3. Total(numbers) = numbers[1]
    <3>1. 1..1 # 1..2 /\ 1..1 # 1..3
      OBVIOUS
    <3> QED
      BY <2>1, <3>1 DEF Total
  <2> QED
    BY <2>1, <2>2, <2>3, BestIsANumber
<1>2. CASE len = 2
  <2>1. DOMAIN numbers = 1..2 /\ numbers[1] \in Int /\ numbers[2] \in Int
    BY <1>2
  <2>2. Range(numbers) = {numbers[1], numbers[2], numbers[2]}
    BY <2>1 DEF Range
  <2>3. Total(numbers) = numbers[1] + numbers[2]
    BY <2>1 DEF Total
  <2> QED
    BY <2>1, <2>2, <2>3, BestIsANumber
<1>3. CASE len = 3
  <2>1. DOMAIN numbers = 1..3 /\ numbers[1] \in Int /\ numbers[2] \in Int /\ numbers[3] \in Int
    BY <1>3
  <2>2. Range(numbers) = {numbers[1], numbers[2], numbers[3]}
    BY <2>1 DEF Range
  <2>3. Total(numbers) = numbers[1] + numbers[2] + numbers[3]
    BY <2>1 DEF Total
  <2> QED
    BY <2>1, <2>2, <2>3, BestIsANumber
<1> QED
  BY <1>1, <1>2, <1>3

\* So every clause scores a number.
LEMMA ScoresAreNumbers ==
  \A h \in ClauseHeights : \A c \in ClausesTo[h], doc \in Corpus : Score(c, doc) \in Int
<1> DEFINE N(n) == \A c \in ClausesTo[n], doc \in Corpus : Score(c, doc) \in Int
           S == {n \in Nat : N(n)}
<1>0. QueryTop \in Nat /\ ClauseHeights = 0..QueryTop
  BY QueryTopIsAHeight
<1>1. 0 \in S
  BY ClausesByHeight
<1>2. ASSUME NEW n \in 0..QueryTop, n \in S, n < QueryTop PROVE n + 1 \in S
  <2>0. n \in ClauseHeights /\ n + 1 \in ClauseHeights /\ n + 1 \in Nat
    BY <1>0, <1>2
  <2>1. N(n)
    BY <1>2
  <2>2. ASSUME NEW c \in ClausesTo[n + 1], NEW doc \in Corpus PROVE Score(c, doc) \in Int
    <3>0. c \in Queries /\ Enclosed(c, ClausesTo[n])
      BY <2>0, ClausesByHeight, ClausesGrow, ClausesEnclose
    <3>1. CASE c.kind \in {"match", "phrase", "term", "range"}
      <4>1. Score(c, doc) = IF Matches(c, doc) THEN 1 ELSE 0
        BY <3>0, <3>1, ScoreEquations
      <4> QED
        BY <4>1
    <3>2. CASE c.kind = "must_not"
      <4>1. Score(c, doc) = 0
        BY <3>0, <3>2, ScoreEquations
      <4> QED
        BY <4>1
    <3>3. CASE c.kind \in {"must", "should", "dis_max"}
      <4> DEFINE inner == [i \in DOMAIN c.of |-> Score(c.of[i], doc)]
      <4>1. PICK len \in 1..3 : c.of \in [1..len -> ClausesTo[n]]
        BY <3>0, <3>3 DEF Enclosed
      <4>2. inner \in [1..len -> Int]
        BY <2>1, <4>1
      <4>3. Score(c, doc) \in {Total(inner), Max(Range(inner))}
        BY <3>0, <3>3, ScoreEquations
      <4> HIDE DEF inner
      <4> QED
        BY <4>2, <4>3, NumbersOfClauses
    <3> QED
      BY <3>0, <3>1, <3>2, <3>3 DEF Enclosed
  <2> QED
    BY <2>0, <2>2
<1> HIDE DEF S
<1>3. 0..QueryTop \subseteq S
  BY <1>0, <1>1, <1>2, Climb
<1> QED
  BY <1>0, <1>3 DEF S

\* The score of two clauses put together.
LEMMA JoinedScores ==
  ASSUME NEW k \in ClauseHeights, k + 1 \in ClauseHeights,
         NEW a \in ClausesTo[k], NEW b \in ClausesTo[k], NEW doc \in Corpus
  PROVE  /\ Score(Around("must", <<a, b>>), doc) = Score(a, doc) + Score(b, doc)
         /\ Score(Around("should", <<a, b>>), doc) = Score(a, doc) + Score(b, doc)
         /\ Score(Around("dis_max", <<a, b>>), doc) = Max({Score(a, doc), Score(b, doc)})
         /\ Score(Around("must_not", <<a>>), doc) = 0
<1>0. Error \notin ClausesTo[k] /\ Enclosing(ClausesTo[k]) \subseteq Queries
  <2>1. ClausesTo[k] \subseteq ClausesTo[k + 1] /\ ClausesTo[k + 1] = Enclosing(ClausesTo[k])
    BY ClausesByHeight, ClausesGrow
  <2> QED
    BY <2>1, NoErrorBelow, ClausesGrow
<1>1. ASSUME NEW kind \in Joints
      PROVE  /\ Around(kind, <<a, b>>) = [kind |-> kind, of |-> <<a, b>>]
             /\ Around(kind, <<a, b>>) \in Queries
             /\ Around(kind, <<a>>) = [kind |-> kind, of |-> <<a>>]
             /\ Around(kind, <<a>>) \in Queries
  <2>1. /\ Around(kind, <<a, b>>) \in Enclosing(ClausesTo[k])
        /\ Around(kind, <<a>>) \in Enclosing(ClausesTo[k])
    BY <1>0, ClausesJoin
  <2>2. /\ Around(kind, <<a, b>>) = [kind |-> kind, of |-> <<a, b>>]
        /\ Around(kind, <<a>>) = [kind |-> kind, of |-> <<a>>]
    BY <1>0, ClausesJoin
  <2> QED
    BY <1>0, <2>1, <2>2
<1> DEFINE both(kind) == Around(kind, <<a, b>>)
           inner == [i \in DOMAIN <<a, b>> |-> Score(<<a, b>>[i], doc)]
<1>2. ASSUME NEW kind \in {"must", "should", "dis_max"}
      PROVE  both(kind) \in Queries /\ both(kind).kind = kind /\ both(kind).of = <<a, b>>
  BY <1>1, <1>2 DEF Joints
<1>3. DOMAIN inner = 1..2 /\ inner[1] = Score(a, doc) /\ inner[2] = Score(b, doc)
  OBVIOUS
<1>4. Total(inner) = Score(a, doc) + Score(b, doc)
  <2> HIDE DEF inner
  <2> QED
    BY <1>3 DEF Total
<1>5. Range(inner) = {Score(a, doc), Score(b, doc)}
  <2> HIDE DEF inner
  <2> QED
    BY <1>3 DEF Range
<1> HIDE DEF both
<1>6. ASSUME NEW kind \in {"must", "should"}
      PROVE  Score(both(kind), doc) = Score(a, doc) + Score(b, doc)
  <2>1. both(kind) \in Queries /\ both(kind).kind = kind /\ both(kind).of = <<a, b>>
    BY <1>2
  <2>2. Score(both(kind), doc) = Total(inner)
    BY <2>1, ScoreEquations
  <2> QED
    BY <1>4, <2>2
<1>7. Score(both("dis_max"), doc) = Max({Score(a, doc), Score(b, doc)})
  <2>1. both("dis_max") \in Queries /\ both("dis_max").kind = "dis_max" /\ both("dis_max").of = <<a, b>>
    BY <1>2
  <2>2. Score(both("dis_max"), doc) = Max(Range(inner))
    BY <2>1, ScoreEquations
  <2> QED
    BY <1>5, <2>2
<1>8. Score(Around("must_not", <<a>>), doc) = 0
  <2>1. Around("must_not", <<a>>) \in Queries /\ Around("must_not", <<a>>).kind = "must_not"
    BY <1>1 DEF Joints
  <2> QED
    BY <2>1, ScoreEquations
<1> QED
  BY <1>6, <1>7, <1>8 DEF both

-----------------------------------------------------------------------------
(* What the clause of a branch is made of, and its score. *)

\* The parts of every tree have clauses, or errors.
LEMMA PartsHaveClauses ==
  \A part \in TreesTo[MaxHeight], field \in ReadScopes, dis \in BOOLEAN :
    Clause(part, field, dis) \in ClausesTo[MaxHeight + 1] \/ Clause(part, field, dis) = Error
<1>1. MaxHeight \in Heights
  BY HeightIsBounded DEF Heights
<1>2. Typed(MaxHeight)
  BY <1>1, ClausesAreTyped
<1> QED
  BY <1>2 DEF Typed

\* Whether an alternative takes the better of its two scores.
Better(tree, field, dis) ==
  tree.kind = "or" /\ dis /\ CrossLanguage(tree.left, tree.right, field)

\* The score of an "and" and of an "or".
LEMMA BranchScores ==
  ASSUME NEW tree \in Trees, tree.kind \in {"and", "or"}, NEW field \in ReadScopes,
         NEW dis \in BOOLEAN, Clause(tree, field, dis) # Error, NEW doc \in Corpus
  PROVE  /\ Clause(tree.left, field, Within(tree, dis)) # Error
         /\ Clause(tree.right, field, Within(tree, dis)) # Error
         /\ Score(Clause(tree.left, field, Within(tree, dis)), doc) \in Int
         /\ Score(Clause(tree.right, field, Within(tree, dis)), doc) \in Int
         /\ Better(tree, field, dis) =>
              Score(Clause(tree, field, dis), doc) =
                Max({Score(Clause(tree.left, field, Within(tree, dis)), doc),
                     Score(Clause(tree.right, field, Within(tree, dis)), doc)})
         /\ ~Better(tree, field, dis) =>
              Score(Clause(tree, field, dis), doc) =
                Score(Clause(tree.left, field, Within(tree, dis)), doc)
                + Score(Clause(tree.right, field, Within(tree, dis)), doc)
<1> DEFINE a == Clause(tree.left, field, Within(tree, dis))
           b == Clause(tree.right, field, Within(tree, dis))
           c == Clause(tree, field, dis)
<1>0. /\ field \in Scopes
      /\ MaxHeight \in Heights /\ MaxHeight + 1 \in Heights
      /\ MaxHeight + 1 \in ClauseHeights /\ MaxHeight + 1 + 1 \in ClauseHeights
  BY ScopesKnown, HeightIsBounded DEF Heights, ClauseHeights
<1>1. tree.left \in TreesTo[MaxHeight] /\ tree.right \in TreesTo[MaxHeight]
  <2>1. tree \in Grown(TreesTo[MaxHeight])
    BY <1>0, TreesByHeight DEF Trees
  <2>2. Shaped(tree, TreesTo[MaxHeight])
    BY <2>1, NodesHaveParts
  <2> QED
    BY <2>2 DEF Shaped
<1>2. Within(tree, dis) \in BOOLEAN
  BY DEF Within
<1>3. /\ a \in ClausesTo[MaxHeight + 1] \/ a = Error
      /\ b \in ClausesTo[MaxHeight + 1] \/ b = Error
  BY <1>1, <1>2, PartsHaveClauses
<1>4. c = IF Better(tree, field, dis) THEN Around("dis_max", <<a, b>>)
          ELSE Around(IF tree.kind = "and" THEN "must" ELSE "should", <<a, b>>)
  <2>1. CASE tree.kind = "and"
    <3>1. c = Must(<<Clause(tree.left, field, dis), Clause(tree.right, field, dis)>>)
      BY <1>0, <2>1, ClauseEquations
    <3> QED
      BY <2>1, <3>1 DEF Must, Within, Better
  <2>2. CASE tree.kind = "or"
    <3>1. c = IF dis /\ CrossLanguage(tree.left, tree.right, field)
              THEN DisMax(<<Clause(tree.left, field, FALSE), Clause(tree.right, field, FALSE)>>)
              ELSE Should(<<Clause(tree.left, field, FALSE), Clause(tree.right, field, FALSE)>>)
      BY <1>0, <2>2, ClauseEquations
    <3> QED
      BY <2>2, <3>1 DEF Should, DisMax, Within, Better
  <2> QED
    BY <2>1, <2>2
<1>5. c # Error
  OBVIOUS
<1> HIDE DEF a, b, c
<1>6. a # Error /\ b # Error
  <2>1. a = Error \/ b = Error => \A kind : Around(kind, <<a, b>>) = Error
    BY ErrorsSpread
  <2> QED
    BY <1>4, <1>5, <2>1
<1>7. a \in ClausesTo[MaxHeight + 1] /\ b \in ClausesTo[MaxHeight + 1]
  BY <1>3, <1>6
<1>8. Score(a, doc) \in Int /\ Score(b, doc) \in Int
  BY <1>0, <1>7, ScoresAreNumbers
<1>9. /\ Score(Around("must", <<a, b>>), doc) = Score(a, doc) + Score(b, doc)
      /\ Score(Around("should", <<a, b>>), doc) = Score(a, doc) + Score(b, doc)
      /\ Score(Around("dis_max", <<a, b>>), doc) = Max({Score(a, doc), Score(b, doc)})
  BY <1>0, <1>7, JoinedScores
<1>10. /\ Better(tree, field, dis) => Score(c, doc) = Max({Score(a, doc), Score(b, doc)})
       /\ ~Better(tree, field, dis) => Score(c, doc) = Score(a, doc) + Score(b, doc)
  BY <1>4, <1>9
<1> QED
  BY <1>6, <1>8, <1>10 DEF a, b, c

LEMMA AlternativeScores ==
  ASSUME NEW tree \in Trees, tree.kind = "or", NEW field \in ReadScopes,
         NEW dis \in BOOLEAN, Clause(tree, field, dis) # Error, NEW doc \in Corpus
  PROVE  /\ Clause(tree.left, field, FALSE) # Error
         /\ Clause(tree.right, field, FALSE) # Error
         /\ Score(Clause(tree.left, field, FALSE), doc) \in Int
         /\ Score(Clause(tree.right, field, FALSE), doc) \in Int
         /\ Better(tree, field, dis) =>
              Score(Clause(tree, field, dis), doc) =
                Max({Score(Clause(tree.left, field, FALSE), doc),
                     Score(Clause(tree.right, field, FALSE), doc)})
         /\ ~Better(tree, field, dis) =>
              Score(Clause(tree, field, dis), doc) =
                Score(Clause(tree.left, field, FALSE), doc)
                + Score(Clause(tree.right, field, FALSE), doc)
<1>1. Within(tree, dis) = FALSE
  BY DEF Within
<1>2. /\ Clause(tree.left, field, Within(tree, dis)) # Error
      /\ Clause(tree.right, field, Within(tree, dis)) # Error
      /\ Score(Clause(tree.left, field, Within(tree, dis)), doc) \in Int
      /\ Score(Clause(tree.right, field, Within(tree, dis)), doc) \in Int
      /\ Better(tree, field, dis) =>
           Score(Clause(tree, field, dis), doc) =
             Max({Score(Clause(tree.left, field, Within(tree, dis)), doc),
                  Score(Clause(tree.right, field, Within(tree, dis)), doc)})
      /\ ~Better(tree, field, dis) =>
           Score(Clause(tree, field, dis), doc) =
             Score(Clause(tree.left, field, Within(tree, dis)), doc)
             + Score(Clause(tree.right, field, Within(tree, dis)), doc)
  BY BranchScores
<1> QED
  BY <1>1, <1>2, Zenon

\* A negation scores nothing.
LEMMA NegationScores ==
  ASSUME NEW tree \in Trees, tree.kind = "not", NEW field \in ReadScopes, NEW dis \in BOOLEAN,
         Clause(tree, field, dis) # Error, NEW doc \in Corpus
  PROVE  Score(Clause(tree, field, dis), doc) = 0
<1> DEFINE a == Clause(tree.child, field, FALSE)
           c == Clause(tree, field, dis)
<1>0. /\ field \in Scopes /\ FALSE \in BOOLEAN
      /\ MaxHeight \in Heights /\ MaxHeight + 1 \in Heights
      /\ MaxHeight + 1 \in ClauseHeights /\ MaxHeight + 1 + 1 \in ClauseHeights
  BY ScopesKnown, HeightIsBounded DEF Heights, ClauseHeights
<1>1. tree.child \in TreesTo[MaxHeight]
  <2>1. tree \in Grown(TreesTo[MaxHeight])
    BY <1>0, TreesByHeight DEF Trees
  <2>2. Shaped(tree, TreesTo[MaxHeight])
    BY <2>1, NodesHaveParts
  <2> QED
    BY <2>2 DEF Shaped
<1>2. a \in ClausesTo[MaxHeight + 1] \/ a = Error
  BY <1>0, <1>1, PartsHaveClauses
<1>3. c = Around("must_not", <<a>>)
  <2>1. c = MustNot(<<Clause(tree.child, field, FALSE)>>)
    BY <1>0, ClauseEquations
  <2> QED
    BY <2>1 DEF MustNot
<1>4. c # Error
  OBVIOUS
<1> HIDE DEF a, c
<1>5. a \in ClausesTo[MaxHeight + 1]
  BY <1>2, <1>3, <1>4, ErrorsSpread
<1>6. Score(Around("must_not", <<a>>), doc) = 0
  BY <1>0, <1>5, JoinedScores
<1> QED
  BY <1>3, <1>6 DEF c

-----------------------------------------------------------------------------
(* The other groupings of a tree. *)

\* The parts of a tree of a height are trees of that height.
LEMMA PartsAreShaped ==
  ASSUME NEW h \in Heights, NEW tree \in TreesTo[h]
  PROVE  Shaped(tree, TreesTo[h])
<1>0. Top \in Nat /\ Heights = 0..Top
  BY TopIsAHeight
<1>1. h # 0
  BY TreesByHeight
<1>2. h - 1 \in Heights /\ h - 1 + 1 = h
  BY <1>0, <1>1
<1>3. TreesTo[h] = Grown(TreesTo[h - 1]) /\ TreesTo[h - 1] \subseteq TreesTo[h]
  BY <1>2, TreesByHeight, TreesGrow
<1>4. Shaped(tree, TreesTo[h - 1])
  BY <1>3, NodesHaveParts
<1> QED
  BY <1>3, <1>4 DEF Shaped

\* Trees put together are one higher.
LEMMA MadeTrees ==
  ASSUME NEW h \in Heights, h + 1 \in Heights, NEW left \in TreesTo[h], NEW right \in TreesTo[h]
  PROVE  /\ And(left, right) \in TreesTo[h + 1]
         /\ Or(left, right) \in TreesTo[h + 1]
         /\ Not(left) \in TreesTo[h + 1]
         /\ \A field \in Pieces : Field(field, left) \in TreesTo[h + 1]
<1>1. TreesTo[h + 1] = Grown(TreesTo[h])
  BY TreesByHeight
<1> HIDE DEF TreesTo
<1> QED
  BY <1>1 DEF Grown, And, Or, Not, Field

\* Another grouping of a tree is a tree, one higher at most.
LEMMA RegroupingsAreTrees ==
  \A h \in Heights : h + 1 \in Heights =>
    \A tree \in TreesTo[h] : Regrouped[tree] \subseteq TreesTo[h + 1]
<1> DEFINE G(n) == n < Top => \A tree \in TreesTo[n] : Regrouped[tree] \subseteq TreesTo[n + 1]
           S == {n \in Nat : G(n)}
<1>0. Top \in Nat /\ Heights = 0..Top
  BY TopIsAHeight
<1>1. 0 \in S
  BY TreesByHeight
<1>2. ASSUME NEW n \in 0..Top, n \in S, n < Top PROVE n + 1 \in S
  <2>0. n \in Heights /\ n + 1 \in Heights /\ n + 1 \in Nat
    BY <1>0, <1>2
  <2>1. ASSUME n + 1 < Top, NEW tree \in TreesTo[n + 1], NEW other \in Regrouped[tree]
        PROVE  other \in TreesTo[n + 1 + 1]
    <3>0. n + 1 + 1 \in Heights
      BY <1>0, <2>0, <2>1
    <3>1. \A t \in TreesTo[n] : Regrouped[t] \subseteq TreesTo[n + 1]
      BY <1>2
    <3>2. tree \in Trees /\ Shaped(tree, TreesTo[n])
      BY <2>0, TreesByHeight, TreesGrow, NodesHaveParts
    <3>3. TreesTo[n] \subseteq TreesTo[n + 1]
      BY <2>0, TreesGrow
    <3>4. other \in RegroupedHere(tree) \/ other \in RegroupedInside(Regrouped, tree)
      BY <2>1, <3>2, RegroupedDefined DEF RegroupStep
    <3>5. \A t \in TreesTo[n] : Shaped(t, TreesTo[n])
      BY <2>0, PartsAreShaped
    <3>6. \A left, right \in TreesTo[n] : Or(left, right) \in TreesTo[n + 1]
      BY <2>0, MadeTrees
    <3>7. \A field \in Pieces, t \in TreesTo[n] : Field(field, t) \in TreesTo[n + 1]
      BY <2>0, MadeTrees
    <3>8. \A left, right \in TreesTo[n + 1] :
            /\ And(left, right) \in TreesTo[n + 1 + 1]
            /\ Or(left, right) \in TreesTo[n + 1 + 1]
            /\ Not(left) \in TreesTo[n + 1 + 1]
      BY <2>0, <3>0, MadeTrees
    <3>9. CASE tree.kind = "or"
      <4>1. tree.left \in TreesTo[n] /\ tree.right \in TreesTo[n]
        BY <3>2, <3>9 DEF Shaped
      <4>2. CASE other = Or(tree.right, tree.left)
        BY <3>3, <3>8, <4>1, <4>2
      <4>3. CASE /\ tree.left.kind = "or"
                 /\ other = Or(tree.left.left, Or(tree.left.right, tree.right))
        <5>1. tree.left.left \in TreesTo[n] /\ tree.left.right \in TreesTo[n]
          BY <3>5, <4>1, <4>3 DEF Shaped
        <5>2. Or(tree.left.right, tree.right) \in TreesTo[n + 1]
          BY <3>6, <4>1, <5>1
        <5> QED
          BY <3>3, <3>8, <4>3, <5>1, <5>2
      <4>4. CASE other \in { Or(p, tree.right) : p \in Regrouped[tree.left] }
        BY <3>1, <3>3, <3>8, <4>1, <4>4
      <4>5. CASE other \in { Or(tree.left, p) : p \in Regrouped[tree.right] }
        BY <3>1, <3>3, <3>8, <4>1, <4>5
      <4> QED
        BY <3>4, <3>9, <4>2, <4>3, <4>4, <4>5 DEF RegroupedHere, RegroupedInside
    <3>10. CASE tree.kind = "and"
      <4>1. tree.left \in TreesTo[n] /\ tree.right \in TreesTo[n]
        BY <3>2, <3>10 DEF Shaped
      <4>2. \/ other \in { And(p, tree.right) : p \in Regrouped[tree.left] }
            \/ other \in { And(tree.left, p) : p \in Regrouped[tree.right] }
        BY <3>4, <3>10 DEF RegroupedHere, RegroupedInside
      <4> QED
        BY <3>1, <3>3, <3>8, <4>1, <4>2
    <3>11. CASE tree.kind = "not"
      <4>1. tree.child \in TreesTo[n]
        BY <3>2, <3>11 DEF Shaped
      <4>2. other \in { Not(p) : p \in Regrouped[tree.child] }
        BY <3>4, <3>11 DEF RegroupedHere, RegroupedInside
      <4> QED
        BY <3>1, <3>8, <4>1, <4>2
    <3>12. CASE tree.kind = "field"
      <4>1. tree.value \in TreesTo[n] /\ tree.field \in Pieces
        BY <3>2, <3>12 DEF Shaped
      <4>2. /\ tree.value.kind = "or"
            /\ other = Or(Field(tree.field, tree.value.left), Field(tree.field, tree.value.right))
        BY <3>4, <3>12 DEF RegroupedHere, RegroupedInside
      <4>3. tree.value.left \in TreesTo[n] /\ tree.value.right \in TreesTo[n]
        BY <3>5, <4>1, <4>2 DEF Shaped
      <4> QED
        BY <3>7, <3>8, <4>1, <4>2, <4>3
    <3>13. CASE tree.kind \in {"word", "phrase", "range"}
      BY <3>4, <3>13 DEF RegroupedHere, RegroupedInside
    <3> QED
      BY <3>2, <3>9, <3>10, <3>11, <3>12, <3>13 DEF Shaped
  <2>2. G(n + 1)
    BY <2>1
  <2> HIDE DEF G
  <2> QED
    BY <2>0, <2>2
<1> HIDE DEF G
<1>3. 0..Top \subseteq S
  <2> HIDE DEF S
  <2> QED
    BY <1>0, <1>1, <1>2, Climb
<1>4. ASSUME NEW h \in Heights, h + 1 \in Heights, NEW tree \in TreesTo[h]
      PROVE  Regrouped[tree] \subseteq TreesTo[h + 1]
  <2>1. G(h) /\ h < Top
    BY <1>0, <1>3, <1>4
  <2> QED
    BY <2>1 DEF G
<1> QED
  BY <1>4

-----------------------------------------------------------------------------
(* The other groupings of a tree score as it does. *)

\* Two trees that score alike wherever both are read.
Alike(one, two) ==
  \A field \in ReadScopes, dis \in BOOLEAN :
    Clause(one, field, dis) # Error /\ Clause(two, field, dis) # Error =>
      \A doc \in Corpus : Score(Clause(one, field, dis), doc) = Score(Clause(two, field, dis), doc)

(* An expression has no language of its own, so a bool or a field around a *)
(* bool never takes the better of two scores.                              *)
LEMMA ExpressionsHaveNoLanguage ==
  ASSUME NEW tree, NEW field,
         \/ tree.kind \in {"and", "or", "not", "range"}
         \/ tree.kind = "field" /\ ~IsLeaf(tree.value)
  PROVE  LeafContext(tree, field) = NoContext
<1>1. CASE tree.kind \in {"and", "or", "not", "range"}
  BY <1>1 DEF LeafContext, IsLeaf
<1>2. CASE tree.kind = "field" /\ ~IsLeaf(tree.value)
  BY <1>2 DEF LeafContext, IsLeaf
<1> QED
  BY <1>1, <1>2

\* Alternatives score alike in either order,
LEMMA SwappedAlike ==
  ASSUME NEW tree \in Trees, tree.kind = "or", Or(tree.right, tree.left) \in Trees
  PROVE  Alike(tree, Or(tree.right, tree.left))
<1> DEFINE two == Or(tree.right, tree.left)
<1>0. two.kind = "or" /\ two.left = tree.right /\ two.right = tree.left
  BY DEF Or
<1>1. two \in Trees
  OBVIOUS
<1> HIDE DEF two
<1>2. ASSUME NEW field \in ReadScopes, NEW dis \in BOOLEAN, Clause(tree, field, dis) # Error,
             Clause(two, field, dis) # Error, NEW doc \in Corpus
      PROVE  Score(Clause(tree, field, dis), doc) = Score(Clause(two, field, dis), doc)
  <2> DEFINE x == Score(Clause(tree.left, field, FALSE), doc)
             y == Score(Clause(tree.right, field, FALSE), doc)
  <2>1. Within(tree, dis) = FALSE /\ Within(two, dis) = FALSE
    BY <1>0 DEF Within
  <2>2. /\ x \in Int /\ y \in Int
        /\ Better(tree, field, dis) => Score(Clause(tree, field, dis), doc) = Max({x, y})
        /\ ~Better(tree, field, dis) => Score(Clause(tree, field, dis), doc) = x + y
    BY <1>2, AlternativeScores
  <2>3. /\ Better(two, field, dis) => Score(Clause(two, field, dis), doc) = Max({y, x})
        /\ ~Better(two, field, dis) => Score(Clause(two, field, dis), doc) = y + x
    <3>1. /\ Better(two, field, dis) =>
               Score(Clause(two, field, dis), doc) =
                 Max({Score(Clause(two.left, field, FALSE), doc),
                      Score(Clause(two.right, field, FALSE), doc)})
          /\ ~Better(two, field, dis) =>
               Score(Clause(two, field, dis), doc) =
                 Score(Clause(two.left, field, FALSE), doc)
                 + Score(Clause(two.right, field, FALSE), doc)
      BY <1>0, <1>1, <1>2, AlternativeScores
    <3> QED
      BY <1>0, <3>1
  <2>4. Better(tree, field, dis) <=> Better(two, field, dis)
    BY <1>0 DEF Better, CrossLanguage
  <2> HIDE DEF x, y
  <2>5. {x, y} = {y, x}
    OBVIOUS
  <2>6. x + y = y + x
    BY <2>2
  <2> QED
    BY <2>2, <2>3, <2>4, <2>5, <2>6
<1>3. Alike(tree, two)
  BY <1>2 DEF Alike
<1> QED
  BY <1>3 DEF two

\* grouped from the left or from the right,
LEMMA RegroupedAlike ==
  ASSUME NEW tree \in Trees, tree.kind = "or", tree.left.kind = "or",
         Or(tree.left.left, Or(tree.left.right, tree.right)) \in Trees
  PROVE  Alike(tree, Or(tree.left.left, Or(tree.left.right, tree.right)))
<1> DEFINE most == tree.left
           rest == Or(tree.left.right, tree.right)
           two == Or(tree.left.left, rest)
<1>0. /\ two.kind = "or" /\ two.left = most.left /\ two.right = rest
      /\ rest.kind = "or" /\ rest.left = most.right /\ rest.right = tree.right
  BY DEF Or
<1>1. two \in Trees /\ most \in Trees /\ most.kind = "or"
  BY TreePartsAreTrees DEF Shaped
<1>2. tree.left = most
  OBVIOUS
<1> HIDE DEF two, rest, most
<1>3. rest \in Trees
  BY <1>0, <1>1, TreePartsAreTrees DEF Shaped
<1>4. ASSUME NEW field \in ReadScopes, NEW dis \in BOOLEAN, Clause(tree, field, dis) # Error,
             Clause(two, field, dis) # Error, NEW doc \in Corpus
      PROVE  Score(Clause(tree, field, dis), doc) = Score(Clause(two, field, dis), doc)
  <2> DEFINE x == Score(Clause(most.left, field, FALSE), doc)
             y == Score(Clause(most.right, field, FALSE), doc)
             z == Score(Clause(tree.right, field, FALSE), doc)
  <2>1. /\ \A d \in BOOLEAN : Within(tree, d) = FALSE
        /\ \A d \in BOOLEAN : Within(two, d) = FALSE
        /\ \A d \in BOOLEAN : Within(most, d) = FALSE
        /\ \A d \in BOOLEAN : Within(rest, d) = FALSE
    BY <1>0, <1>1 DEF Within
  <2>2. /\ LeafContext(most, field) = NoContext
        /\ LeafContext(rest, field) = NoContext
    BY <1>0, <1>1, ExpressionsHaveNoLanguage
  <2>3. /\ ~Better(tree, field, dis) /\ ~Better(two, field, dis)
        /\ ~Better(most, field, FALSE) /\ ~Better(rest, field, FALSE)
    BY <1>0, <1>2, <2>2 DEF Better, CrossLanguage
  <2>4. /\ Clause(most, field, FALSE) # Error
        /\ z \in Int
        /\ Score(Clause(tree, field, dis), doc) = Score(Clause(most, field, FALSE), doc) + z
    BY <1>2, <1>4, <2>3, AlternativeScores
  <2>5. /\ Clause(rest, field, FALSE) # Error
        /\ x \in Int
        /\ Score(Clause(two, field, dis), doc) = x + Score(Clause(rest, field, FALSE), doc)
    <3>1. /\ Clause(two.right, field, FALSE) # Error
          /\ Score(Clause(two.left, field, FALSE), doc) \in Int
          /\ Score(Clause(two, field, dis), doc) =
               Score(Clause(two.left, field, FALSE), doc) + Score(Clause(two.right, field, FALSE), doc)
      BY <1>0, <1>1, <1>4, <2>3, AlternativeScores
    <3> QED
      BY <1>0, <3>1
  <2>6. /\ y \in Int
        /\ Score(Clause(most, field, FALSE), doc) = x + y
    BY <1>1, <2>3, <2>4, AlternativeScores
  <2>7. Score(Clause(rest, field, FALSE), doc) = y + z
    <3>1. Score(Clause(rest, field, FALSE), doc) =
            Score(Clause(rest.left, field, FALSE), doc) + Score(Clause(rest.right, field, FALSE), doc)
      BY <1>0, <1>3, <2>3, <2>5, AlternativeScores
    <3> QED
      BY <1>0, <3>1
  <2> HIDE DEF x, y, z
  <2>8. x + y + z = x + (y + z)
    BY <2>4, <2>5, <2>6
  <2> QED
    BY <2>4, <2>5, <2>6, <2>7, <2>8
<1>5. Alike(tree, two)
  BY <1>4 DEF Alike
<1> QED
  BY <1>5 DEF two, rest, most

\* A field around a part is the part in that field, and of its language.
LEMMA FieldOfAPart ==
  ASSUME NEW part, NEW f \in ReadScopes \ {NoField}, Field(f, part) \in Trees, NEW dis \in BOOLEAN,
         Clause(Field(f, part), NoField, dis) # Error
  PROVE  Clause(Field(f, part), NoField, dis) = Clause(part, f, dis)
<1> DEFINE tree == Field(f, part)
<1>1. tree.kind = "field" /\ tree.field = f /\ tree.value = part /\ tree \in Trees
  BY DEF Field
<1>2. NoField \in Scopes /\ f # "legalStatus"
  BY ScopesKnown DEF ReadScopes
<1> HIDE DEF tree
<1>3. Clause(tree, NoField, dis) = FieldClause(ClauseOf, tree, dis)
  BY <1>1, <1>2, ClauseEquations
<1>4. FieldClause(ClauseOf, tree, dis) # Error => FieldClause(ClauseOf, tree, dis) = Clause(part, f, dis)
  BY <1>1, <1>2, FieldClauseCases
<1> QED
  BY <1>3, <1>4 DEF tree

LEMMA LanguageInAField ==
  ASSUME NEW part, NEW f \in ReadScopes \ {NoField}
  PROVE  LeafContext(Field(f, part), NoField) = LeafContext(part, f)
<1> DEFINE tree == Field(f, part)
<1>1. tree.kind = "field" /\ tree.field = f /\ tree.value = part
  BY DEF Field
<1>2. ~BareIpc(part, f) /\ f # NoField
  BY DEF BareIpc
<1>3. f \in RoutedFields \cup {NoField} <=> f \in RoutedFields
  BY <1>2
<1> HIDE DEF tree
<1>4. LeafContext(tree, NoField) =
        IF f \in RoutedFields /\ IsLeaf(part) THEN <<f, Language(part.value)>> ELSE NoContext
  BY <1>1 DEF LeafContext, IsLeaf
<1>5. CASE IsLeaf(part) /\ f \in RoutedFields
  <2>1. LeafContext(part, f) = <<f, Language(part.value)>>
    BY <1>2, <1>5 DEF LeafContext, IsLeaf
  <2> QED
    BY <1>4, <1>5, <2>1 DEF tree
<1>6. CASE ~(IsLeaf(part) /\ f \in RoutedFields)
  <2>1. LeafContext(part, f) = NoContext
    BY <1>2, <1>3, <1>6 DEF LeafContext
  <2> QED
    BY <1>4, <1>6, <2>1 DEF tree
<1> QED
  BY <1>5, <1>6

\* and inside their field or each in its own.
LEMMA SpreadAlike ==
  ASSUME NEW tree \in Trees, tree.kind = "field", tree.value.kind = "or", ~CompoundStatus[tree],
         Or(Field(tree.field, tree.value.left), Field(tree.field, tree.value.right)) \in Trees
  PROVE  Alike(tree, Or(Field(tree.field, tree.value.left), Field(tree.field, tree.value.right)))
<1> DEFINE value == tree.value
           f == tree.field
           one == Field(f, value.left)
           other == Field(f, value.right)
           two == Or(one, other)
<1>0. two.kind = "or" /\ two.left = one /\ two.right = other /\ two \in Trees
  BY DEF Or
<1>1. one \in Trees /\ other \in Trees /\ value \in Trees
  <2> HIDE DEF two, one, other
  <2> QED
    BY <1>0, TreePartsAreTrees DEF Shaped
<1>2. ~IsLeaf(value) /\ value.kind = "or"
  BY DEF IsLeaf
<1>3. f # "legalStatus"
  BY <1>2, CompoundEquations
<1> HIDE DEF two
<1>4. ASSUME NEW field \in ReadScopes, NEW dis \in BOOLEAN, Clause(tree, field, dis) # Error,
             Clause(two, field, dis) # Error
      PROVE  Clause(tree, field, dis) = Clause(two, field, dis)
  <2>0. NoField \in Scopes /\ field \in Scopes /\ FALSE \in BOOLEAN
    BY ScopesKnown
  <2>1. field = NoField /\ Clause(tree, NoField, dis) = FieldClause(ClauseOf, tree, dis)
    BY <1>4, <2>0, ClauseEquations
  <2>2. /\ FieldClause(ClauseOf, tree, dis) = Clause(value, f, dis)
        /\ f \in ReadScopes \ {NoField}
    BY <1>3, <1>4, <2>1, FieldClauseCases
  <2>3. f \in Scopes
    BY <2>2 DEF ReadScopes
  <2> DEFINE a == Clause(value.left, f, FALSE)
             b == Clause(value.right, f, FALSE)
             c == Clause(one, NoField, FALSE)
             d == Clause(other, NoField, FALSE)
  <2>4. Clause(value, f, dis) =
          IF dis /\ CrossLanguage(value.left, value.right, f)
          THEN DisMax(<<a, b>>) ELSE Should(<<a, b>>)
    BY <1>1, <1>2, <2>3, ClauseEquations
  <2>5. Clause(two, NoField, dis) =
          IF dis /\ CrossLanguage(one, other, NoField)
          THEN DisMax(<<c, d>>) ELSE Should(<<c, d>>)
    BY <1>0, <2>0, ClauseEquations
  <2>6. CrossLanguage(one, other, NoField) <=> CrossLanguage(value.left, value.right, f)
    BY <2>2, LanguageInAField DEF CrossLanguage
  <2>7. c # Error /\ d # Error
    <3> HIDE DEF c, d
    <3>1. \A kind : c = Error \/ d = Error => Around(kind, <<c, d>>) = Error
      BY ErrorsSpread
    <3> QED
      BY <1>4, <2>1, <2>5, <3>1 DEF Should, DisMax
  <2>8. c = a /\ d = b
    BY <1>1, <2>0, <2>2, <2>7, FieldOfAPart
  <2> HIDE DEF a, b, c, d
  <2> QED
    BY <2>1, <2>2, <2>4, <2>5, <2>6, <2>8
<1>5. Alike(tree, two)
  BY <1>4 DEF Alike
<1> QED
  BY <1>5 DEF two

\* Trees score alike when their parts do and take the same choice.
LEMMA BranchesAlike ==
  ASSUME NEW one \in Trees, NEW two \in Trees, one.kind \in {"and", "or"}, two.kind = one.kind,
         Alike(one.left, two.left), Alike(one.right, two.right),
         \A field : CrossLanguage(one.left, one.right, field)
                    <=> CrossLanguage(two.left, two.right, field)
  PROVE  Alike(one, two)
<1>1. ASSUME NEW field \in ReadScopes, NEW dis \in BOOLEAN, Clause(one, field, dis) # Error,
             Clause(two, field, dis) # Error, NEW doc \in Corpus
      PROVE  Score(Clause(one, field, dis), doc) = Score(Clause(two, field, dis), doc)
  <2> DEFINE l1 == Clause(one.left, field, Within(one, dis))
             r1 == Clause(one.right, field, Within(one, dis))
             l2 == Clause(two.left, field, Within(two, dis))
             r2 == Clause(two.right, field, Within(two, dis))
  <2>1. /\ l1 # Error /\ r1 # Error
        /\ Better(one, field, dis) =>
             Score(Clause(one, field, dis), doc) = Max({Score(l1, doc), Score(r1, doc)})
        /\ ~Better(one, field, dis) =>
             Score(Clause(one, field, dis), doc) = Score(l1, doc) + Score(r1, doc)
    BY <1>1, BranchScores
  <2>2. /\ l2 # Error /\ r2 # Error
        /\ Better(two, field, dis) =>
             Score(Clause(two, field, dis), doc) = Max({Score(l2, doc), Score(r2, doc)})
        /\ ~Better(two, field, dis) =>
             Score(Clause(two, field, dis), doc) = Score(l2, doc) + Score(r2, doc)
    BY <1>1, BranchScores
  <2>3. Within(one, dis) = Within(two, dis) /\ Within(one, dis) \in BOOLEAN
    BY DEF Within
  <2>4. Better(one, field, dis) <=> Better(two, field, dis)
    BY DEF Better
  <2>5. \A within \in BOOLEAN :
          /\ Clause(one.left, field, within) # Error /\ Clause(two.left, field, within) # Error =>
               Score(Clause(one.left, field, within), doc) = Score(Clause(two.left, field, within), doc)
          /\ Clause(one.right, field, within) # Error /\ Clause(two.right, field, within) # Error =>
               Score(Clause(one.right, field, within), doc) = Score(Clause(two.right, field, within), doc)
    BY DEF Alike
  <2>6. Score(l1, doc) = Score(l2, doc) /\ Score(r1, doc) = Score(r2, doc)
    <3> DEFINE within == Within(one, dis)
    <3>1. within \in BOOLEAN /\ Within(two, dis) = within
      BY <2>3
    <3> HIDE DEF within
    <3>2. /\ Clause(one.left, field, within) # Error /\ Clause(two.left, field, within) # Error =>
               Score(Clause(one.left, field, within), doc) = Score(Clause(two.left, field, within), doc)
          /\ Clause(one.right, field, within) # Error /\ Clause(two.right, field, within) # Error =>
               Score(Clause(one.right, field, within), doc) = Score(Clause(two.right, field, within), doc)
      BY <2>5, <3>1
    <3> QED
      BY <2>1, <2>2, <3>1, <3>2, Zenon DEF within
  <2> HIDE DEF l1, r1, l2, r2
  <2> QED
    BY <2>1, <2>2, <2>4, <2>6
<1> QED
  BY <1>1 DEF Alike

LEMMA NegationsAlike ==
  ASSUME NEW one \in Trees, NEW two \in Trees, one.kind = "not", two.kind = "not"
  PROVE  Alike(one, two)
BY NegationScores DEF Alike

(* What has another grouping is an expression, and so is the other one. *)
LEMMA GroupingsAreExpressions ==
  ASSUME NEW tree \in Trees, NEW other \in Regrouped[tree], NEW field
  PROVE  LeafContext(tree, field) = NoContext /\ LeafContext(other, field) = NoContext
<1>0. other \in RegroupedHere(tree) \/ other \in RegroupedInside(Regrouped, tree)
  BY RegroupedDefined DEF RegroupStep
<1>1. CASE tree.kind \in {"and", "or", "not"}
  <2>1. other.kind = tree.kind
    BY <1>0, <1>1 DEF RegroupedHere, RegroupedInside, And, Or, Not
  <2> QED
    BY <1>1, <2>1, ExpressionsHaveNoLanguage
<1>2. CASE tree.kind = "field"
  <2>1. tree.value.kind = "or" /\ other.kind = "or"
    BY <1>0, <1>2 DEF RegroupedHere, RegroupedInside, Or
  <2> QED
    BY <1>2, <2>1, ExpressionsHaveNoLanguage DEF IsLeaf
<1>3. CASE tree.kind \in {"word", "phrase", "range"}
  BY <1>0, <1>3 DEF RegroupedHere, RegroupedInside
<1> QED
  BY <1>1, <1>2, <1>3, TreePartsAreTrees DEF Shaped

\* So all other groupings score alike, by induction on the height.
LEMMA GroupingsAlike ==
  \A h \in Heights : h + 1 \in Heights =>
    \A tree \in TreesTo[h] : ~CompoundStatus[tree] =>
      \A other \in Regrouped[tree] : Alike(tree, other)
<1> DEFINE G(n) == n < Top => \A tree \in TreesTo[n] : ~CompoundStatus[tree] =>
                                \A other \in Regrouped[tree] : Alike(tree, other)
           S == {n \in Nat : G(n)}
<1>0. Top \in Nat /\ Heights = 0..Top
  BY TopIsAHeight
<1>1. 0 \in S
  BY TreesByHeight
<1>2. ASSUME NEW n \in 0..Top, n \in S, n < Top PROVE n + 1 \in S
  <2>0. n \in Heights /\ n + 1 \in Heights /\ n + 1 \in Nat
    BY <1>0, <1>2
  <2>1. ASSUME n + 1 < Top, NEW tree \in TreesTo[n + 1], ~CompoundStatus[tree],
               NEW other \in Regrouped[tree]
        PROVE  Alike(tree, other)
    <3>0. n + 1 + 1 \in Heights
      BY <1>0, <2>0, <2>1
    <3>1. \A t \in TreesTo[n] : ~CompoundStatus[t] => \A p \in Regrouped[t] : Alike(t, p)
      BY <1>2
    <3>2. /\ tree \in Trees /\ Shaped(tree, TreesTo[n])
          /\ TreesTo[n] \subseteq Trees
          /\ \A t \in TreesTo[n] : Regrouped[t] \subseteq Trees
      BY <2>0, TreesByHeight, TreesGrow, NodesHaveParts, RegroupingsAreTrees
    <3>3. other \in Trees
      BY <2>0, <2>1, <3>0, RegroupingsAreTrees, TreesGrow
    <3>4. other \in RegroupedHere(tree) \/ other \in RegroupedInside(Regrouped, tree)
      BY <2>1, <3>2, RegroupedDefined DEF RegroupStep
    <3>5. \A t : Alike(t, t)
      BY DEF Alike
    <3>6. CASE tree.kind \in {"and", "or"}
      <4>0. tree.left \in TreesTo[n] /\ tree.right \in TreesTo[n]
        BY <3>2, <3>6 DEF Shaped
      <4>1. ~CompoundStatus[tree.left] /\ ~CompoundStatus[tree.right]
        BY <2>1, <3>2, <3>6, CompoundEquations
      <4>2. ASSUME other.kind = tree.kind, other.right = tree.right, other.left \in Regrouped[tree.left]
            PROVE  Alike(tree, other)
        <5>1. Alike(tree.left, other.left) /\ Alike(tree.right, other.right)
          BY <3>1, <3>5, <4>0, <4>1, <4>2
        <5>2. \A field : /\ LeafContext(tree.left, field) = NoContext
                         /\ LeafContext(other.left, field) = NoContext
          BY <3>2, <4>0, <4>2, GroupingsAreExpressions
        <5>3. \A field : CrossLanguage(tree.left, tree.right, field)
                         <=> CrossLanguage(other.left, other.right, field)
          BY <5>2 DEF CrossLanguage
        <5> QED
          BY <3>2, <3>3, <3>6, <4>2, <5>1, <5>3, BranchesAlike
      <4>3. ASSUME other.kind = tree.kind, other.left = tree.left, other.right \in Regrouped[tree.right]
            PROVE  Alike(tree, other)
        <5>1. Alike(tree.left, other.left) /\ Alike(tree.right, other.right)
          BY <3>1, <3>5, <4>0, <4>1, <4>3
        <5>2. \A field : /\ LeafContext(tree.right, field) = NoContext
                         /\ LeafContext(other.right, field) = NoContext
          BY <3>2, <4>0, <4>3, GroupingsAreExpressions
        <5>3. \A field : CrossLanguage(tree.left, tree.right, field)
                         <=> CrossLanguage(other.left, other.right, field)
          BY <5>2 DEF CrossLanguage
        <5> QED
          BY <3>2, <3>3, <3>6, <4>3, <5>1, <5>3, BranchesAlike
      <4>4. CASE tree.kind = "and"
        <5>1. \/ other \in { And(p, tree.right) : p \in Regrouped[tree.left] }
              \/ other \in { And(tree.left, p) : p \in Regrouped[tree.right] }
          BY <3>4, <4>4 DEF RegroupedHere, RegroupedInside
        <5> QED
          BY <4>2, <4>3, <4>4, <5>1 DEF And
      <4>5. CASE tree.kind = "or"
        <5>1. \/ other = Or(tree.right, tree.left)
              \/ tree.left.kind = "or" /\ other = Or(tree.left.left, Or(tree.left.right, tree.right))
              \/ other \in { Or(p, tree.right) : p \in Regrouped[tree.left] }
              \/ other \in { Or(tree.left, p) : p \in Regrouped[tree.right] }
          BY <3>4, <4>5 DEF RegroupedHere, RegroupedInside
        <5>2. CASE other = Or(tree.right, tree.left)
          BY <3>2, <3>3, <4>5, <5>2, SwappedAlike
        <5>3. CASE tree.left.kind = "or"
                   /\ other = Or(tree.left.left, Or(tree.left.right, tree.right))
          BY <3>2, <3>3, <4>5, <5>3, RegroupedAlike
        <5>4. CASE other \in { Or(p, tree.right) : p \in Regrouped[tree.left] }
          BY <4>2, <4>5, <5>4 DEF Or
        <5>5. CASE other \in { Or(tree.left, p) : p \in Regrouped[tree.right] }
          BY <4>3, <4>5, <5>5 DEF Or
        <5> QED
          BY <5>1, <5>2, <5>3, <5>4, <5>5
      <4> QED
        BY <3>6, <4>4, <4>5
    <3>7. CASE tree.kind = "not"
      <4>1. other.kind = "not"
        BY <3>4, <3>7 DEF RegroupedHere, RegroupedInside, Not
      <4> QED
        BY <3>2, <3>3, <3>7, <4>1, NegationsAlike
    <3>8. CASE tree.kind = "field"
      <4>1. /\ tree.value.kind = "or"
            /\ other = Or(Field(tree.field, tree.value.left), Field(tree.field, tree.value.right))
        BY <3>4, <3>8 DEF RegroupedHere, RegroupedInside
      <4> QED
        BY <2>1, <3>2, <3>3, <3>8, <4>1, SpreadAlike
    <3>9. CASE tree.kind \in {"word", "phrase", "range"}
      BY <3>4, <3>9 DEF RegroupedHere, RegroupedInside
    <3> QED
      BY <3>2, <3>6, <3>7, <3>8, <3>9 DEF Shaped
  <2>2. G(n + 1)
    BY <2>1
  <2> HIDE DEF G
  <2> QED
    BY <2>0, <2>2
<1> HIDE DEF G
<1>3. 0..Top \subseteq S
  <2> HIDE DEF S
  <2> QED
    BY <1>0, <1>1, <1>2, Climb
<1>4. ASSUME NEW h \in Heights, h + 1 \in Heights PROVE G(h) /\ h < Top
  BY <1>0, <1>3, <1>4
<1> QED
  BY <1>4 DEF G

\* For every syntax tree, of any shape and up to any height: how its alternatives are grouped,
\* ordered or spread over their field does not change the score of any document, although two
\* languages of one field may be scored by the better of the two (_build_node_clause).
THEOREM GroupingsScoreAlike ==
  \A tree \in TreesTo[MaxHeight] : ~CompoundStatus[tree] => ScoresAlike(tree)
<1>1. MaxHeight \in Heights /\ MaxHeight + 1 \in Heights
  BY HeightIsBounded DEF Heights
<1>2. NoField \in ReadScopes /\ TRUE \in BOOLEAN
  BY ScopesKnown
<1>3. ASSUME NEW tree \in TreesTo[MaxHeight], ~CompoundStatus[tree], NEW other \in Regrouped[tree]
      PROVE  Alike(tree, other)
  BY <1>1, <1>3, GroupingsAlike
<1> QED
  BY <1>2, <1>3 DEF ScoresAlike, Alike

-----------------------------------------------------------------------------
(* The queries of the requests. *)

\* What the builder makes of a tree that compiles.
LEMMA QueryOfAClause ==
  ASSUME NEW tree \in TreesTo[MaxHeight]
  PROVE  LET clause == Clause(tree, NoField, TRUE)
             built == BuiltQuery([failed |-> "none", node |-> tree])
         IN  /\ clause = Error => built.failed = "syntax"
             /\ clause # Error =>
                  /\ built.failed = "none" /\ built.query \in Queries
                  /\ \A doc \in Corpus : Matches(built.query, doc) <=> Matches(clause, doc)
<1> DEFINE clause == Clause(tree, NoField, TRUE)
           built == BuiltQuery([failed |-> "none", node |-> tree])
<1>1. /\ MaxHeight + 1 \in ClauseHeights /\ MaxHeight + 1 + 1 \in ClauseHeights
      /\ NoField \in ReadScopes /\ TRUE \in BOOLEAN
  BY ScopesKnown, HeightIsBounded DEF ClauseHeights
<1>2. clause \in ClausesTo[MaxHeight + 1] \/ clause = Error
  BY <1>1, PartsHaveClauses
<1>3. built = IF clause = Error THEN [failed |-> "syntax", query |-> Error]
              ELSE [failed |-> "none", query |-> Around("must", <<clause>>)]
  BY DEF BuiltQuery, Must
<1> HIDE DEF clause, built
<1>4. ASSUME clause # Error
      PROVE  /\ built.failed = "none" /\ built.query \in Queries
             /\ \A doc \in Corpus : Matches(built.query, doc) <=> Matches(clause, doc)
  <2> DEFINE query == Around("must", <<clause>>)
  <2>1. clause \in ClausesTo[MaxHeight + 1]
    BY <1>2, <1>4
  <2>2. /\ Error \notin ClausesTo[MaxHeight + 1]
        /\ Enclosing(ClausesTo[MaxHeight + 1]) \subseteq Queries
    <3>1. /\ ClausesTo[MaxHeight + 1] \subseteq ClausesTo[MaxHeight + 1 + 1]
          /\ ClausesTo[MaxHeight + 1 + 1] = Enclosing(ClausesTo[MaxHeight + 1])
      BY <1>1, ClausesByHeight, ClausesGrow
    <3> QED
      BY <1>1, <3>1, NoErrorBelow, ClausesGrow
  <2>3. "must" \in Joints
    BY DEF Joints
  <2>4. query \in Enclosing(ClausesTo[MaxHeight + 1]) /\ query = [kind |-> "must", of |-> <<clause>>]
    <3> DEFINE inner == ClausesTo[MaxHeight + 1]
    <3>1. clause \in inner /\ Error \notin inner
      BY <2>1, <2>2
    <3> HIDE DEF inner
    <3>2. query \in Enclosing(inner) /\ query = [kind |-> "must", of |-> <<clause>>]
      BY <2>3, <3>1, ClausesJoin
    <3> QED
      BY <3>2 DEF inner
  <2>5. query \in Queries /\ query.kind = "must" /\ query.of = <<clause>>
    BY <2>2, <2>4
  <2>6. built.failed = "none" /\ built.query = query
    BY <1>3, <1>4
  <2> HIDE DEF query
  <2>7. ASSUME NEW doc \in Corpus PROVE Matches(query, doc) <=> Matches(clause, doc)
    <3>1. Matches(query, doc) <=> \A i \in DOMAIN <<clause>> : Matches(<<clause>>[i], doc)
      BY <2>5, MatchesEquations
    <3> QED
      BY <3>1
  <2> QED
    BY <2>5, <2>6, <2>7
<1>5. clause = Error => built.failed = "syntax"
  BY <1>3
<1> QED
  BY <1>4, <1>5 DEF clause, built

\* For every text the parser reads, of any shape and depth: a query is built of it exactly when
\* every value in it is one its field takes, and the query that is sent then matches exactly
\* the documents the text says (build_search_dsl).  A legal status with an expression for its
\* value is left out.
THEOREM QueriesMatchTheirTexts ==
  \A text \in Texts :
    LET node == Parsed[text].node
    IN  Parsed[text].failed = "none" /\ ~CompoundStatus[node] =>
          /\ Built[text].failed = "none" <=> Fits(node, NoField)
          /\ Built[text].failed = "none" =>
               /\ Built[text].query \in Queries
               /\ \A doc \in Corpus : Matches(Built[text].query, doc) <=> Holds(node, NoField, doc)
<1> SUFFICES ASSUME NEW text \in Texts, Parsed[text].failed = "none",
                    ~CompoundStatus[Parsed[text].node]
             PROVE  /\ Built[text].failed = "none" <=> Fits(Parsed[text].node, NoField)
                    /\ Built[text].failed = "none" =>
                         /\ Built[text].query \in Queries
                         /\ \A doc \in Corpus :
                              Matches(Built[text].query, doc) <=> Holds(Parsed[text].node, NoField, doc)
  OBVIOUS
<1> DEFINE node == Parsed[text].node
           clause == Clause(node, NoField, TRUE)
           built == BuiltQuery([failed |-> "none", node |-> node])
<1>1. node \in TreesTo[MaxHeight] /\ node \in Trees
  <2>1. MaxHeight \in Heights
    BY HeightIsBounded DEF Heights
  <2> QED
    BY <2>1, QueriesAreBuilt, TreesGrow
<1>2. Built[text] = built
  <2>1. Built[text] = BuiltQuery(Parsed[text])
    BY QueriesAreBuilt
  <2> QED
    BY <2>1 DEF BuiltQuery
<1>3. CompilesTo(node)
  BY <1>1, TreesCompileToTheirMeaning
<1>4. /\ clause = Error => built.failed = "syntax"
      /\ clause # Error =>
           /\ built.failed = "none" /\ built.query \in Queries
           /\ \A doc \in Corpus : Matches(built.query, doc) <=> Matches(clause, doc)
  BY <1>1, QueryOfAClause
<1>5. /\ clause # Error <=> Fits(node, NoField)
      /\ clause # Error => \A doc \in Corpus : Matches(clause, doc) <=> Holds(node, NoField, doc)
  BY <1>3 DEF CompilesTo
<1> HIDE DEF clause, built, node
<1>6. /\ built.failed = "none" <=> Fits(node, NoField)
      /\ built.failed = "none" =>
           /\ built.query \in Queries
           /\ \A doc \in Corpus : Matches(built.query, doc) <=> Holds(node, NoField, doc)
  BY <1>4, <1>5
<1> QED
  BY <1>2, <1>6 DEF node

\* The trees of the requests in the service are trees.
LEMMA ReadTreesAreTrees == TypeOK => ReadTrees \subseteq TreesTo[MaxHeight]
<1> SUFFICES ASSUME TypeOK, NEW c \in InService, Parsed[call[c].form.q].failed = "none"
             PROVE  Parsed[call[c].form.q].node \in TreesTo[MaxHeight]
  BY DEF ReadTrees
<1>1. c \in Calls
  BY DEF InService
<1>2. call[c] \in Requests
  BY <1>1 DEF TypeOK, RequestTypeOK
<1>3. call[c].form \in Forms
  BY <1>2 DEF Requests
<1>4. call[c].form.q \in Texts
  BY <1>3 DEF Forms
<1> QED
  BY <1>4, QueriesAreBuilt

\* Whatever its request, the query built from a tree matches exactly the documents the tree holds
\* of, and is refused exactly when a value does not fit its field (build_search_dsl).
THEOREM QueriesHold == Spec => []QueriesMeanTheirTrees
<1>1. TypeOK => QueriesMeanTheirTrees
  <2>1. TreesTo[MaxHeight] \subseteq Trees
    <3>1. MaxHeight \in Heights
      BY HeightIsBounded DEF Heights
    <3> QED
      BY <3>1, TreesGrow
  <2> QED
    BY <2>1, ReadTreesAreTrees, TreesCompileToTheirMeaning DEF QueriesMeanTheirTrees
<1> QED
  BY <1>1, TypesHold, PTL

\* Whatever its request, the score of a document does not depend on how the alternatives of a
\* tree are grouped, ordered or spread over their field (_build_node_clause).
THEOREM GroupingHolds == Spec => []GroupingKeepsScores
<1>1. TypeOK => GroupingKeepsScores
  BY ReadTreesAreTrees, GroupingsScoreAlike DEF GroupingKeepsScores
<1> QED
  BY <1>1, TypesHold, PTL
=============================================================================
