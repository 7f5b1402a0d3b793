------------------------------ MODULE McpTools ------------------------------
(***************************************************************************)
(* The tools of the MCP server (mcp_server/server.py and                   *)
(* patent_api_client.py, with the adapter in                               *)
(* src/app/integrations/patenthub_adapter.py) in front of the search API.  *)
(* A tool call takes one of a few permits without waiting and makes one    *)
(* request of the API from a worker thread; its caller may be cancelled,   *)
(* the thread is not.                                                      *)
(***************************************************************************)
EXTENDS RequestPath

CONSTANTS
  ToolCapacity,   \* max_concurrent_tools
  PageSizeLimit   \* page_size_limit of the adapter

ASSUME ToolSettings == ToolCapacity \in Nat \ {0} /\ PageSizeLimit \in Nat \ {0}

VARIABLES
  tool,       \* [Calls -> the tool call a request is made for, if any]
  permits     \* free tokens of the tool limiter

toolVars == <<call, inFlight, index, changes, tool, permits>>

(* The identifier a tool gives its request, and one made up on the spot. *)
ToolId(c) == <<"tool", c>>
NewId(c) == <<"new", c>>

NoResult == [code |-> None, id |-> NoId, local |-> FALSE]
Local(code, id) == [code |-> code, id |-> id, local |-> TRUE]

Tool(stage) == [stage |-> stage, cancelled |-> FALSE, result |-> NoResult]

(* A call is made by a tool, directly by a client, or not at all. *)
Init(forms, tools, documents) ==
  /\ RequestInit(forms, documents)
  /\ tool = [c \in Calls |-> IF c \in tools THEN Tool("idle") ELSE Tool("none")]
  /\ permits = ToolCapacity

Becomes(c, record) == tool' = [tool EXCEPT ![c] = record]

(* With every permit taken a tool call is refused at once. *)
StartTool(c) ==
  /\ tool[c].stage = "idle"
  /\ permits > 0
  /\ Becomes(c, [tool[c] EXCEPT !.stage = "sending"])
  /\ permits' = permits - 1
  /\ UNCHANGED requestVars

RefuseTool(c) ==
  /\ tool[c].stage = "idle"
  /\ permits = 0
  /\ Becomes(c, [tool[c] EXCEPT !.stage = "ended", !.result = Local("busy", NewId(c))])
  /\ UNCHANGED <<requestVars, permits>>

(* The adapter brings the size of a page within its limit. *)
Limited(size) == Max({1, Min({size, PageSizeLimit})})

SendTool(c) ==
  /\ tool[c].stage = "sending"
  /\ Arrive(c, ToolId(c), [call[c].form EXCEPT !.header = "valid",
                                               !.page_size = Limited(@)])
  /\ Becomes(c, [tool[c] EXCEPT !.stage = "calling"])
  /\ UNCHANGED permits

(* The thread has a result. *)
Return(c, result) ==
  /\ Becomes(c, [tool[c] EXCEPT !.stage = "returned", !.result = result])
  /\ UNCHANGED <<requestVars, permits>>

NetworkFailures == {"timeout", "unavailable", "dependency"}

(* The API cannot be reached, the connection fails, or the client's        *)
(* timeout passes while the request goes on.                               *)
GiveUp(c) ==
  /\ tool[c].stage \in {"sending", "calling"}
  /\ \E why \in NetworkFailures : Return(c, Local(why, ToolId(c)))

(* Mutant: an error is passed on whoever it was for. *)
CheckedUnmatched(c, reply) ==
  IF reply.code = None THEN Local("dependency", ToolId(c))
  ELSE [code |-> reply.code, id |-> reply.id, local |-> FALSE]

(* An error must carry the identifier of its request; a connection that    *)
(* ends without an answer, or another's error, is a failure of the API.    *)
Checked(c, reply) ==
  IF reply.code = None \/ (reply.code # "ok" /\ reply.id # ToolId(c))
  THEN Local("dependency", ToolId(c))
  ELSE [code |-> reply.code, id |-> reply.id, local |-> FALSE]

HearAnswer(c) ==
  /\ tool[c].stage = "calling"
  /\ call[c].stage = "done" \/ call[c].sent.code # None
  /\ Return(c, Checked(c, call[c].sent))

(* The error of a party between the two (external). *)
HearForeign(c) ==
  /\ tool[c].stage = "calling"
  /\ Return(c, Checked(c, Reply("unavailable", <<"foreign", c>>, NoContent)))

(* Mutant: the permit comes back with the cancellation. *)
CancelToolReleasing(c) ==
  /\ tool[c].stage \in {"sending", "calling", "returned"} /\ ~tool[c].cancelled
  /\ Becomes(c, [tool[c] EXCEPT !.cancelled = TRUE])
  /\ permits' = permits + 1
  /\ UNCHANGED requestVars

(* The caller is cancelled: the thread runs on, and the permit with it. *)
CancelTool(c) ==
  /\ tool[c].stage \in {"sending", "calling", "returned"} /\ ~tool[c].cancelled
  /\ Becomes(c, [tool[c] EXCEPT !.cancelled = TRUE])
  /\ UNCHANGED <<requestVars, permits>>

(* Back on the event loop: the permit is released, and the result given to *)
(* a caller that is still there.                                           *)
EndTool(c) ==
  /\ tool[c].stage = "returned"
  /\ Becomes(c, IF tool[c].cancelled
                THEN [tool[c] EXCEPT !.stage = "ended", !.result = NoResult]
                ELSE [tool[c] EXCEPT !.stage = "ended"])
  /\ permits' = permits + 1
  /\ UNCHANGED requestVars

ArriveDirectly(c) ==
  /\ tool[c].stage = "none"
  /\ Arrive(c, <<"client", c>>, call[c].form)
  /\ UNCHANGED <<tool, permits>>

Served(c) == Serve(c) /\ UNCHANGED <<tool, permits>>
ThreadOf(c) == SendTool(c) \/ GiveUp(c) \/ HearAnswer(c) \/ HearForeign(c)

Next ==
  \/ \E c \in Calls :
       \/ ArriveDirectly(c)
       \/ StartTool(c) \/ RefuseTool(c) \/ ThreadOf(c) \/ CancelTool(c) \/ EndTool(c)
       \/ (Receiving(c) \/ Interruption(c)) /\ UNCHANGED <<tool, permits>>
       \/ Served(c)
  \/ \E d \in Documents : Change(d) /\ UNCHANGED <<tool, permits>>

(* Any forms, called by tools or by clients, over any index. *)
Spec ==
  /\ \E forms \in [Calls -> Forms], tools \in SUBSET Calls, documents \in [Documents -> Entries] :
       Init(forms, tools, documents)
  /\ [][Next]_toolVars

-----------------------------------------------------------------------------
Tools ==
  [stage : {"none", "idle", "sending", "calling", "returned", "ended"},
   cancelled : BOOLEAN,
   result : [code : Codes \cup {None}, id : Ids, local : BOOLEAN]]

TypeOK ==
  /\ RequestTypeOK
  /\ tool \in [Calls -> Tools]
  /\ permits \in Int

(* No more threads run tools than there are permits, whoever of their      *)
(* callers went away, and every permit is free or with a tool              *)
(* (run_tool with abandon_on_cancel=False).                                *)
ToolThreadsAreBounded ==
  LET with(stages) == Cardinality({c \in Calls : tool[c].stage \in stages})
  IN  /\ with({"sending", "calling"}) <= ToolCapacity
      /\ permits + with({"sending", "calling", "returned"}) = ToolCapacity

(* An error a tool reports of the API is the one the API recorded for the  *)
(* request of this tool, under the same identifier                         *)
(* (_ValidatedHttpClient.request, RequestContextMiddleware).               *)
ToolErrorsCanBeTraced ==
  \A c \in Calls :
    LET result == tool[c].result
        r == call[c]
    IN  result.code \notin {None, "ok"} /\ ~result.local =>
          /\ result.id = r.id
          /\ r.logged # NoRecord => r.logged.id = result.id /\ r.logged.code = result.code

(* A request is answered once and recorded once: nothing that happens      *)
(* later changes either (RequestContextMiddleware.send_with_request_id).   *)
AnswersAreFinal ==
  [][\A c \in Calls :
       /\ call[c].sent.code # None => call'[c].sent = call[c].sent
       /\ call[c].logged # NoRecord => call'[c].logged = call[c].logged]_toolVars

(* What went wrong with a request can be traced from either end: by what   *)
(* the service answered and recorded, and by what a tool reported.         *)
AnswersCanBeTraced == RecordsMatchAnswers /\ ToolErrorsCanBeTraced
(* The tools that hold a permit, whoever of their callers is still there,  *)
(* are the holders of a plain limiter.                                     *)
Holding == {"sending", "calling", "returned"}
Holders == {c \in Calls : tool[c].stage \in Holding}

ToolSlots == INSTANCE Slots WITH
  Users <- Calls, Capacity <- ToolCapacity, holders <- Holders
ToolsHoldSlots == ToolSlots!Spec

=============================================================================
