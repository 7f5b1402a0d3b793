------------------------------ MODULE Lifespan ------------------------------
(***************************************************************************)
(* The lifespan of app/main.py: it builds the process's resources, marks   *)
(* the service started, and after the last request takes everything down   *)
(* in one order, whichever step of that raises.  It is composed with the   *)
(* two resources that have threads, the readiness probe and the adapter    *)
(* for query vectors, and with the requests that use them.                 *)
(*                                                                         *)
(* The server is uvicorn: it serves after start-up has returned, and ends  *)
(* the lifespan when every request has been answered; the unit file gives  *)
(* it no limit for that.                                                   *)
(***************************************************************************)
EXTENDS ReadinessProbe, QueryVector

VARIABLES
    phase,                      \* where the lifespan is
    lifecycle,                  \* ServiceLifecycle.state
    open                        \* resources that were built and not closed

vars == <<probeVars, vectorVars, phase, lifecycle, open>>

(* What is built, in this order, and what of it under the try that marks a  *)
(* failure; the adapter is the last.  Closing has its own order.            *)
Building == <<"repository", "client", "probe", "metrics", "control", "logs", "vector">>

Guarded == {"repository", "client", "probe"}

Closing == <<"metrics", "logs", "probe", "client", "vector", "repository">>

At(where, i) == phase = [at |-> where, step |-> i]
GoTo(where, i) == phase' = [at |-> where, step |-> i]

Init ==
    /\ ProbeInit
    /\ VectorInit
    /\ phase = [at |-> "build", step |-> 1]
    /\ lifecycle = "starting"
    /\ open = {}

-----------------------------------------------------------------------------
(* Start-up.  The metrics reader and the log reader are optional: failing   *)
(* to build them leaves the service without.                                *)
Optional == {"metrics", "logs"}

Build(i) ==
    /\ At("build", i)
    /\ GoTo("build", i + 1)
    /\ \/ open' = open \cup {Building[i]}
       \/ Building[i] \in Optional /\ UNCHANGED open
    /\ IF Building[i] = "vector" THEN StartLoop ELSE UNCHANGED vectorVars
    /\ UNCHANGED <<probeVars, lifecycle>>

BuildFails(i) ==
    /\ At("build", i)
    /\ Building[i] \notin Optional
    /\ GoTo("failed", 0)
    /\ lifecycle' = IF Building[i] \in Guarded THEN "failed" ELSE lifecycle
    /\ UNCHANGED <<probeVars, vectorVars, open>>

MarkStarted ==
    /\ At("build", Len(Building) + 1)
    /\ lifecycle' = "started"
    /\ GoTo("serve", 0)
    /\ UNCHANGED <<probeVars, vectorVars, open>>

-----------------------------------------------------------------------------
(* Requests.  /ready and the verification of a runtime configuration look   *)
(* at the lifecycle before they ask the probe.                              *)
AskProbe(c, force) ==
    /\ At("serve", 0)
    /\ lifecycle = "started"
    /\ AnswerAtOnce(c, force) \/ Join(c, force)
    /\ UNCHANGED <<vectorVars, phase, lifecycle, open>>

ProbeStep ==
    /\ \/ \E c \in Callers : Receive(c) \/ CancelCaller(c) \/ Forget(c)
       \/ \E n \in Refreshes : RefreshStep(n) \/ CheckReturns(n)
       \/ Take
       \/ CacheExpires
    /\ UNCHANGED <<vectorVars, phase, lifecycle, open>>

VectorStep ==
    /\ \E w \in Workers :
          \/ At("serve", 0) /\ Generate(w)
          \/ SubmitPost(w) \/ PostStep(w) \/ AnswerPost(w) \/ Resume(w) \/ Expire(w)
    /\ UNCHANGED <<probeVars, phase, lifecycle, open>>

-----------------------------------------------------------------------------
(* Mutant: the server waits for the answers that it awaits, not for threads. *)
DrainedOfAskers == At("serve", 0) /\ \A c \in Callers : joined[c] = 0 /\ answer[c] = "none"

(* The server has an answer for every request.                              *)
Drained ==
    /\ At("serve", 0)
    /\ Calling = {}
    /\ \A c \in Callers : joined[c] = 0 /\ answer[c] = "none"

BeginShutdown ==
    /\ Drained
    /\ lifecycle' = "stopping"
    /\ GoTo("close", 1)
    /\ UNCHANGED <<probeVars, vectorVars, open>>

(* Mutant: what raises ends the shutdown. *)
AfterClosingPlain(i, raised) == IF raised THEN Len(Closing) + 1 ELSE i + 1

(* Each step is under the finally of the one before.                        *)
AfterClosing(i, raised) == i + 1

CloseResource(i) ==
    /\ At("close", i)
    /\ Closing[i] \notin {"vector"}
    /\ open' = open \ {Closing[i]}
    /\ \E raised \in BOOLEAN : GoTo("close", AfterClosing(i, raised))
    /\ IF Closing[i] = "probe"
       THEN Close /\ UNCHANGED <<vectorVars, lifecycle>>
       ELSE UNCHANGED <<probeVars, vectorVars, lifecycle>>

CloseVector(i) ==
    /\ At("close", i)
    /\ Closing[i] = "vector"
    /\ \/ CloseAdapter /\ UNCHANGED <<phase, open>>
       \/ /\ StopLoop
          /\ open' = open \ {"vector"}
          /\ \E raised \in BOOLEAN : GoTo("close", AfterClosing(i, raised))
    /\ UNCHANGED <<probeVars, lifecycle>>

Unpublish ==
    /\ At("close", Len(Closing) + 1)
    /\ GoTo("ended", 0)
    /\ UNCHANGED <<probeVars, vectorVars, lifecycle, open>>

StartUp == (\E i \in DOMAIN Building : Build(i) \/ BuildFails(i)) \/ MarkStarted
Shutdown == (\E i \in DOMAIN Closing : CloseResource(i) \/ CloseVector(i)) \/ Unpublish

Next ==
    \/ StartUp
    \/ \E c \in Callers, force \in BOOLEAN : AskProbe(c, force)
    \/ ProbeStep
    \/ VectorStep
    \/ BeginShutdown
    \/ Shutdown

Spec == Init /\ [][Next]_vars

(* Threads, loops and timers run; deadlines pass; aclose of the provider's  *)
(* client, which only closes sockets, returns.                              *)
FairSpec ==
    /\ Spec
    /\ WF_vars(Shutdown)
    /\ \A w \in Workers :
          WF_vars((SubmitPost(w) \/ PostStep(w) \/ Resume(w) \/ Expire(w))
                  /\ UNCHANGED <<probeVars, phase, lifecycle, open>>)

-----------------------------------------------------------------------------
TypeOK ==
    /\ ProbeTypeOK
    /\ VectorTypeOK
    /\ phase \in [at : {"build", "failed", "serve", "close", "ended"},
                  step : 0..(Len(Building) + 1)]
    /\ lifecycle \in {"starting", "started", "stopping", "failed"}
    /\ open \subseteq {Building[i] : i \in DOMAIN Building}

(* While /startup says started, everything that is not optional is there,   *)
(* and the loop of the adapter runs.                                        *)
StartedMeansServing == lifecycle = "started" =>
    /\ {Building[i] : i \in DOMAIN Building} \ Optional \subseteq open
    /\ ~closed /\ loop = "running"

(* A start-up that fails leaves no thread (main.py:231): the adapter, whose *)
(* constructor starts one, is built last.                                   *)
FailedStartLeavesNoThread == phase.at = "failed" => loop = "none"

(* Whatever raises on the way, the shutdown closes all that can be closed.  *)
EverythingIsClosed == phase.at = "ended" =>
    /\ open \subseteq {"control"}
    /\ closed /\ loop = "closed"

(* What is open follows the state of the service, at its start and at its   *)
(* end.                                                                     *)
ResourcesFollowTheLifecycle ==
    StartedMeansServing /\ FailedStartLeavesNoThread /\ EverythingIsClosed

(* No asker is told ready by a service that has begun to stop, and none     *)
(* meets the cancellation of a check that close takes from the queue.       *)
AskersDoNotMeetTheShutdown == \A c \in Callers :
    /\ answer[c] = "ready" => lifecycle = "started"
    /\ answer[c] # "cancelled"

(* No request is caught in the shutdown: none that waits for a vector, and  *)
(* none that asks whether the service is ready.                             *)
NobodyIsCaughtInTheShutdown == NobodyWaitsForAStoppedLoop /\ AskersDoNotMeetTheShutdown

(* Every call of generate ends: by the deadline of its request at the       *)
(* latest, whatever the provider does.                                      *)
GenerateEnds == \A w \in Workers : call[w] # "idle" ~> call[w] = "idle"

(* A shutdown that has begun ends.                                          *)
ShutdownEnds == phase.at = "close" ~> phase.at = "ended"

(* Nothing hangs, in service or at the end of it.                           *)
EverythingEnds == GenerateEnds /\ ShutdownEnds
(* The requests in generate are the holders of what the heavy bulkhead      *)
(* gives, and those at the provider of the connections of the pool: it      *)
(* needs no queue, for none that was admitted ever waits for one.           *)
VectorSlots == INSTANCE Slots WITH
    Users <- Workers, Capacity <- MaxConnections, holders <- Calling
ConnectionSlots == INSTANCE Slots WITH
    Users <- Workers, Capacity <- MaxConnections, holders <- Connected

VectorsHoldSlots == VectorSlots!Spec /\ ConnectionSlots!Spec

=============================================================================
