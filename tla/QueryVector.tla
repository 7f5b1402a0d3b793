---------------------------- MODULE QueryVector ----------------------------
(***************************************************************************)
(* ArkQueryVectorAdapter: heavy requests, each in a thread of its own, ask *)
(* for the vector of a text.  The request to the provider runs on the one  *)
(* event loop of a background thread; the asking thread waits for it       *)
(* without a limit, because the wait_for around the request is the only    *)
(* one who cancels it.  close stops that loop.                             *)
(*                                                                         *)
(* A request holds a connection of the pool from its start until it was    *)
(* answered or its cancellation has been cleaned up.                       *)
(***************************************************************************)
EXTENDS Naturals, Sequences, FiniteSets

CONSTANTS
    Workers,            \* threads with a heavy request
    MaxConnections,     \* of the pool; also the heavy bulkhead's capacity
    Dimensions          \* of the vectors that are asked for

ASSUME CapacityAssumption ==
    {MaxConnections, Dimensions} \subseteq Nat \ {0} /\ IsFiniteSet(Workers)

VARIABLES
    adapterClosed,      \* _closed
    loop,               \* of _loop: "none", "running", "closing", "closed"
    call,               \* of each worker: where it is in generate
    late,               \* workers whose request has passed its deadline
    post,               \* of each worker: its _post on the loop
    outcome             \* of each worker: what its _post came to

vectorVars == <<adapterClosed, loop, call, late, post, outcome>>

VectorInit ==
    /\ adapterClosed = FALSE
    /\ loop = "none"
    /\ call = [w \in Workers |-> "idle"]
    /\ late = {}
    /\ post = [w \in Workers |-> "none"]
    /\ outcome = [w \in Workers |-> "none"]

Calling == {w \in Workers : call[w] # "idle"}
Connected == {w \in Workers : post[w] \in {"sending", "cancelling"}}

-----------------------------------------------------------------------------
(* What the provider may answer, and what generate makes of it.  A number   *)
(* is "zero", "one", "nan" or a Boolean; `form` is how the embedding came.  *)
Numbers == {"zero", "one", "nan", "bool"}
Answers ==
    [status : {"ok", "rejected", "throttled", "failed"},
     model : {"asked", "other", "missing"},
     form : {"list", "base64", "torn", "two", "none"},
     vector : UNION {[1..n -> Numbers] : n \in 0..(Dimensions + 1)}]

(* _extract_embedding: base64 decodes to floats of four bytes, at least one. *)
Extracted(a) ==
    \/ a.form = "list"
    \/ a.form = "base64" /\ a.vector # <<>> /\ "bool" \notin {a.vector[i] : i \in DOMAIN a.vector}

(* validate_query_vector_result                                             *)
Validated(a) ==
    /\ a.model = "asked"
    /\ Len(a.vector) = Dimensions
    /\ \A i \in DOMAIN a.vector : a.vector[i] \in {"zero", "one"}
    /\ \E i \in DOMAIN a.vector : a.vector[i] # "zero"

Verdict(a) ==
    CASE a.status \in {"throttled", "failed"} -> "unavailable"
      [] a.status = "rejected" -> "error"
      [] OTHER -> IF a.model # "missing" /\ Extracted(a) /\ Validated(a)
                  THEN "vector" ELSE "invalid"

Verdicts == {Verdict(a) : a \in Answers}

-----------------------------------------------------------------------------
StartLoop == loop' = "running" /\ UNCHANGED <<adapterClosed, call, late, post, outcome>>

(* A request that the heavy bulkhead admits calls generate, which refuses   *)
(* when the adapter is closed or the deadline has passed.                   *)
Generate(w) ==
    /\ call[w] = "idle"
    /\ Cardinality(Calling) < MaxConnections
    /\ loop # "none" /\ ~adapterClosed
    /\ call' = [call EXCEPT ![w] = "checked"]
    /\ UNCHANGED <<adapterClosed, loop, late, post, outcome>>

(* run_coroutine_threadsafe; a closed loop raises.                          *)
SubmitPost(w) ==
    /\ call[w] = "checked"
    /\ IF loop = "closed"
       THEN call' = [call EXCEPT ![w] = "idle"] /\ late' = late \ {w} /\ UNCHANGED post
       ELSE /\ call' = [call EXCEPT ![w] = "waiting"]
            /\ post' = [post EXCEPT ![w] = "queued"]
            /\ UNCHANGED late
    /\ UNCHANGED <<adapterClosed, loop, outcome>>

LoopRuns == loop \in {"running", "closing"}

EndPost(w, what) ==
    /\ post' = [post EXCEPT ![w] = "done"]
    /\ outcome' = [outcome EXCEPT ![w] = what]
    /\ UNCHANGED <<adapterClosed, loop, call, late>>

BeginPost(w) ==
    /\ LoopRuns
    /\ post[w] = "queued"
    /\ IF w \in late
       THEN EndPost(w, "timeout")
       ELSE /\ post' = [post EXCEPT ![w] = "sending"]
            /\ UNCHANGED <<adapterClosed, loop, call, late, outcome>>

(* The provider answers, the connection fails, or a timeout of the client's *)
(* own (connect, read, write or pool) ends the request by itself.           *)
AnswerPost(w) ==
    /\ LoopRuns
    /\ post[w] = "sending"
    /\ \E what \in Verdicts \cup {"timeout"} : EndPost(w, what)

(* Mutant: the client's own timeout is trusted, which every byte renews. *)
TimeOutPostNever(w) == FALSE /\ UNCHANGED vectorVars

(* wait_for cancels the request at the deadline and waits for its clean-up. *)
TimeOutPost(w) ==
    /\ LoopRuns
    /\ post[w] = "sending" /\ w \in late
    /\ post' = [post EXCEPT ![w] = "cancelling"]
    /\ UNCHANGED <<adapterClosed, loop, call, late, outcome>>

CleanUp(w) ==
    /\ LoopRuns
    /\ post[w] = "cancelling"
    /\ EndPost(w, "timeout")

(* Mutant: the thread stops waiting at the deadline itself. *)
ResumeAtDeadline(w) ==
    /\ call[w] = "waiting"
    /\ post[w] = "done" \/ w \in late
    /\ call' = [call EXCEPT ![w] = "idle"]
    /\ late' = late \ {w}
    /\ UNCHANGED <<adapterClosed, loop, post, outcome>>

(* The thread has its result, which it uses if the deadline has not passed. *)
Resume(w) ==
    /\ call[w] = "waiting"
    /\ post[w] = "done"
    /\ call' = [call EXCEPT ![w] = "idle"]
    /\ post' = [post EXCEPT ![w] = "none"]
    /\ outcome' = [outcome EXCEPT ![w] = "none"]
    /\ late' = late \ {w}
    /\ UNCHANGED <<adapterClosed, loop>>

Expire(w) ==
    /\ call[w] # "idle" /\ w \notin late
    /\ late' = late \cup {w}
    /\ UNCHANGED <<adapterClosed, loop, call, post, outcome>>

(* close: the flag, then aclose on the loop, waited for without a limit;    *)
(* whatever aclose does, the loop is stopped, its thread joined.            *)
CloseAdapter ==
    /\ ~adapterClosed
    /\ adapterClosed' = TRUE
    /\ loop' = "closing"
    /\ UNCHANGED <<call, late, post, outcome>>

StopLoop ==
    /\ loop = "closing"
    /\ loop' = "closed"
    /\ UNCHANGED <<adapterClosed, call, late, post, outcome>>

PostStep(w) == BeginPost(w) \/ TimeOutPost(w) \/ CleanUp(w)

-----------------------------------------------------------------------------
VectorTypeOK ==
    /\ adapterClosed \in BOOLEAN
    /\ loop \in {"none", "running", "closing", "closed"}
    /\ call \in [Workers -> {"idle", "checked", "waiting"}]
    /\ late \subseteq Workers
    /\ post \in [Workers -> {"none", "queued", "sending", "cancelling", "done"}]
    /\ outcome \in [Workers -> {"none", "vector", "unavailable", "error", "invalid", "timeout"}]

(* Nobody waits for what a stopped loop will never do (the thread's wait    *)
(* has no limit of its own).                                                *)
NobodyWaitsForAStoppedLoop ==
    loop = "closed" => \A w \in Workers : call[w] = "waiting" => post[w] = "done"

(* A request that the heavy bulkhead admitted finds a connection in the     *)
(* pool: those that gave up gave theirs back first.                         *)
AdmittedFindsAConnection ==
    (\E w \in Workers : post[w] = "queued") => Cardinality(Connected) < MaxConnections
=============================================================================
