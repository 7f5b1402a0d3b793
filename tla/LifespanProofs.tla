---------------------------- MODULE LifespanProofs ----------------------------
(***************************************************************************)
(* What TLAPS proves of Lifespan, for any askers, refreshes, workers and   *)
(* connections: nobody is caught in the shutdown, an admitted request      *)
(* finds a connection, and the resources follow the lifecycle.             *)
(*                                                                         *)
(* The invariant has a part for each that takes part.  The lifespan: what  *)
(* is open at each step of building and closing.  The requests: there are  *)
(* none but in service, where nothing is closed.  The probe: before it is  *)
(* closed, no refresh is cancelled, because the check that a timeout takes *)
(* out of the queue belongs to a refresh that has returned.                *)
(***************************************************************************)
EXTENDS Lifespan, FiniteSetTheorems, TLAPS

(* The probe, with any number of callers and refreshes.  SharedInv ties a   *)
(* task and its work item to the one refresh that is registered: a task    *)
(* that has not ended is the registered one, and a work item that waits in *)
(* the executor belongs to such a task.                                    *)

Unended == {"created", "waiting"}

SharedInv ==
    \A n \in Refreshes :
        /\ refresh[n] \in Unended => n = inflight
        /\ item[n] = "queued" => refresh[n] = "waiting"
        /\ n > started => refresh[n] = "none"

OneThread == \A m, n \in Running : m = n

\* Type correctness of the probe.
THEOREM ProbeTypes == ProbeSpec => []ProbeTypeOK
<1>1. ProbeInit => ProbeTypeOK
  <2> SUFFICES ASSUME ProbeInit PROVE ProbeTypeOK
    OBVIOUS
  <2>1. cached \in BOOLEAN \cup {Nil} /\ result \in [Refreshes -> BOOLEAN]
    BY DEF ProbeInit
  <2>2. started \in 0..MaxRefreshes /\ inflight \in 0..started /\ joined \in [Callers -> 0..started]
    BY BoundAssumption DEF ProbeInit
  <2>3. queue \in Seq(Refreshes)
    BY DEF ProbeInit
  <2> QED
    BY <2>1, <2>2, <2>3 DEF ProbeInit, ProbeTypeOK
<1>2. ProbeTypeOK /\ [ProbeNext]_probeVars => ProbeTypeOK'
  <2> SUFFICES ASSUME ProbeTypeOK, [ProbeNext]_probeVars PROVE ProbeTypeOK'
    OBVIOUS
  <2> USE BoundAssumption DEF ProbeTypeOK, probe, tasks, executor, callers, Refreshes
  <2>1. ASSUME NEW c \in Callers, NEW force \in BOOLEAN, AnswerAtOnce(c, force) PROVE ProbeTypeOK'
    BY <2>1 DEF AnswerAtOnce, Tell, AsAnswer
  <2>2. ASSUME NEW c \in Callers, NEW force \in BOOLEAN, Join(c, force) PROVE ProbeTypeOK'
    <3>1. CASE Launch(c)
      <4>1. started' \in Nat /\ started' <= MaxRefreshes /\ started' = started + 1
        BY <3>1 DEF Launch
      <4>2. joined' \in [Callers -> 0..started'] /\ inflight' \in 0..started'
        BY <3>1, <4>1 DEF Launch
      <4> QED
        BY <3>1, <4>1, <4>2 DEF Launch
    <3>2. CASE joined' = [joined EXCEPT ![c] = inflight] /\ UNCHANGED <<probe, tasks, executor, answer>>
      BY <3>2
    <3> QED
      BY <2>2, <3>1, <3>2 DEF Join
  <2>3. ASSUME NEW c \in Callers, Receive(c) \/ CancelCaller(c) \/ Forget(c) PROVE ProbeTypeOK'
    <3>1. \A ready : AsAnswer(ready) \in {"ready", "notReady"}
      BY DEF AsAnswer
    <3>2. answer' \in [Callers -> {"none", "ready", "notReady", "cancelled"}]
      BY <2>3, <3>1 DEF Receive, CancelCaller, Forget, Tell
    <3>3. joined' \in [Callers -> 0..started]
      BY <2>3 DEF Receive, CancelCaller, Forget
    <3> QED
      BY <2>3, <3>2, <3>3 DEF Receive, CancelCaller, Forget
  <2>4. ASSUME NEW n \in Refreshes, NEW ready \in BOOLEAN, Settle(n, ready),
               item' \in [Refreshes -> {"none", "queued", "running", "yes", "no", "cancelled"}],
               queue' \in Seq(Refreshes), slotTaken' \in BOOLEAN
        PROVE  ProbeTypeOK'
    BY <2>4 DEF Settle
  <2>5. ASSUME NEW n \in Refreshes, Submit(n) PROVE ProbeTypeOK'
    <3>1. CASE Settle(n, FALSE) /\ UNCHANGED executor
      BY <2>4, <3>1
    <3>2. CASE /\ refresh' = [refresh EXCEPT ![n] = "waiting"]
               /\ item' = [item EXCEPT ![n] = "queued"]
               /\ queue' = Append(queue, n)
               /\ UNCHANGED <<probe, started, result, slotTaken, callers>>
      BY <3>2
    <3> QED
      BY <2>5, <3>1, <3>2 DEF Submit
  <2>6. ASSUME NEW n \in Refreshes, Complete(n) PROVE ProbeTypeOK'
    BY <2>4, <2>6 DEF Complete
  <2>7. ASSUME NEW n \in Refreshes, Drop(n) PROVE ProbeTypeOK'
    BY <2>7 DEF Drop
  <2>8. ASSUME NEW n \in Refreshes, TimeOut(n) PROVE ProbeTypeOK'
    BY <2>4, <2>8 DEF TimeOut
  <2>9. CASE Take
    <3>1. Head(queue) \in Refreshes /\ queue' \in Seq(Refreshes)
      BY <2>9 DEF Take
    <3> QED
      BY <2>9, <3>1 DEF Take
  <2>10. ASSUME NEW n \in Refreshes, CheckReturns(n) PROVE ProbeTypeOK'
    BY <2>10 DEF CheckReturns
  <2>11. CASE CacheExpires
    BY <2>11 DEF CacheExpires
  <2>12. CASE Close
    <3>1. /\ item' \in [Refreshes -> {"none", "queued", "running", "yes", "no", "cancelled"}]
          /\ queue' \in Seq(Refreshes)
      BY <2>12 DEF Close
    <3>2. cached' \in BOOLEAN \cup {Nil} /\ closed' \in BOOLEAN /\ status' \in BOOLEAN
      BY <2>12 DEF Close
    <3> QED
      BY <2>12, <3>1, <3>2 DEF Close
  <2>13. CASE UNCHANGED probeVars
    BY <2>13 DEF probeVars
  <2> QED
    BY <2>1, <2>2, <2>3, <2>5, <2>6, <2>7, <2>8, <2>9, <2>10, <2>11, <2>12, <2>13
       DEF ProbeNext, RefreshStep
<1> QED
  BY <1>1, <1>2, PTL DEF ProbeSpec

LEMMA SharedStep == ProbeTypeOK /\ SharedInv /\ [ProbeNext]_probeVars => SharedInv'
<1> SUFFICES ASSUME ProbeTypeOK, SharedInv, [ProbeNext]_probeVars PROVE SharedInv'
  OBVIOUS
<1> USE BoundAssumption DEF ProbeTypeOK, SharedInv, Unended, probe, tasks, executor, Refreshes
<1>1. CASE UNCHANGED <<refresh, item, inflight, started>>
  BY <1>1
<1>2. ASSUME NEW c \in Callers, inflight = 0, Launch(c) PROVE SharedInv'
  BY <1>2 DEF Launch
<1>3. ASSUME NEW c \in Callers, NEW force \in BOOLEAN, Join(c, force) PROVE SharedInv'
  BY <1>1, <1>2, <1>3 DEF Join
<1>4. ASSUME NEW n \in Refreshes, refresh[n] \in Unended, NEW ready \in BOOLEAN, Settle(n, ready),
             \A m \in Refreshes : m # n => item'[m] = item[m],
             item'[n] # "queued"
      PROVE  SharedInv'
  BY <1>4 DEF Settle
<1>5. ASSUME NEW n \in Refreshes, Submit(n) PROVE SharedInv'
  <2>1. CASE Settle(n, FALSE) /\ UNCHANGED executor
    BY <1>4, <1>5, <2>1 DEF Submit
  <2>2. CASE /\ refresh' = [refresh EXCEPT ![n] = "waiting"]
             /\ item' = [item EXCEPT ![n] = "queued"]
             /\ UNCHANGED <<inflight, started>>
    BY <1>5, <2>2 DEF Submit
  <2> QED
    BY <1>5, <2>1, <2>2 DEF Submit
<1>6. ASSUME NEW n \in Refreshes, Complete(n) PROVE SharedInv'
  BY <1>4, <1>6 DEF Complete
<1>7. ASSUME NEW n \in Refreshes, Drop(n) PROVE SharedInv'
  BY <1>7 DEF Drop
<1>8. ASSUME NEW n \in Refreshes, TimeOut(n) PROVE SharedInv'
  BY <1>4, <1>8 DEF TimeOut
<1>9. CASE Take
  <2>1. Head(queue) \in Refreshes
    BY <1>9 DEF Take
  <2> DEFINE n == Head(queue)
  <2>2. /\ \A m \in Refreshes : m # n => item'[m] = item[m]
        /\ item'[n] \in {"cancelled", "no", "running"}
        /\ UNCHANGED <<refresh, inflight, started>>
    BY <1>9, <2>1 DEF Take
  <2> QED
    BY <2>1, <2>2
<1>10. ASSUME NEW n \in Refreshes, CheckReturns(n) PROVE SharedInv'
  BY <1>10 DEF CheckReturns
<1>11. CASE Close
  BY <1>11 DEF Close
<1>12. CASE CacheExpires \/ UNCHANGED probeVars
  BY <1>1, <1>12 DEF CacheExpires, probeVars
<1>13. ASSUME NEW c \in Callers, NEW force \in BOOLEAN,
              AnswerAtOnce(c, force) \/ Receive(c) \/ CancelCaller(c) \/ Forget(c)
       PROVE  SharedInv'
  BY <1>1, <1>13 DEF AnswerAtOnce, Receive, CancelCaller, Forget
<1> QED
  BY <1>3, <1>5, <1>6, <1>7, <1>8, <1>9, <1>10, <1>11, <1>12, <1>13 DEF ProbeNext,
                                                                        RefreshStep

LEMMA SharedInvariant == ProbeSpec => []SharedInv
<1>1. ProbeInit => SharedInv
  BY DEF ProbeInit, SharedInv, Unended
<1> QED
  BY <1>1, SharedStep, ProbeTypes, PTL DEF ProbeSpec

\* All askers share one refresh, for any number of askers and refreshes.
THEOREM OneRefresh == ProbeSpec => []OneRefreshAtATime
<1>1. SharedInv => OneRefreshAtATime
  BY DEF SharedInv, OneRefreshAtATime, Unended
<1> QED
  BY <1>1, SharedInvariant, PTL

\* What the probe owes the dependency is the check that runs and at most one
\* more, after any number of timeouts.
THEOREM BoundedBacklog == ProbeSpec => []BacklogIsBounded
<1>1. ProbeTypeOK /\ OneThread /\ [ProbeNext]_probeVars => OneThread'
  <2> SUFFICES ASSUME ProbeTypeOK, OneThread, [ProbeNext]_probeVars PROVE OneThread'
    OBVIOUS
  <2> USE DEF ProbeTypeOK, OneThread, Running, probe, tasks, executor
  <2>1. CASE UNCHANGED item
    BY <2>1
  <2>2. ASSUME \A n \in Refreshes : item'[n] = "running" => item[n] = "running" PROVE OneThread'
    BY <2>2
  <2>3. CASE Take
    BY <2>3 DEF Take
  <2>4. ASSUME NEW n \in Refreshes, RefreshStep(n) \/ CheckReturns(n) PROVE OneThread'
    BY <2>2, <2>4 DEF RefreshStep, Submit, Complete, Drop, TimeOut, CheckReturns
  <2>5. ASSUME NEW c \in Callers, NEW force \in BOOLEAN,
               \/ AnswerAtOnce(c, force) \/ Join(c, force)
               \/ Receive(c) \/ CancelCaller(c) \/ Forget(c)
        PROVE  OneThread'
    BY <2>1, <2>5 DEF AnswerAtOnce, Join, Launch, Receive, CancelCaller, Forget
  <2>6. CASE Close
    BY <2>2, <2>6 DEF Close
  <2>7. CASE CacheExpires \/ UNCHANGED probeVars
    BY <2>1, <2>7 DEF CacheExpires, probeVars
  <2> QED
    BY <2>3, <2>4, <2>5, <2>6, <2>7 DEF ProbeNext
<1>2. ProbeSpec => []OneThread
  <2>1. ProbeInit => OneThread
    BY DEF ProbeInit, OneThread, Running
  <2> QED
    BY <1>1, <2>1, ProbeTypes, PTL DEF ProbeSpec
<1>3. SharedInv /\ OneThread => BacklogIsBounded
  <2> SUFFICES ASSUME SharedInv, OneThread PROVE BacklogIsBounded
    OBVIOUS
  <2> DEFINE owed == {n \in Refreshes : item[n] \in {"queued", "running"}}
  <2>1. \A n \in owed : item[n] = "queued" => n = inflight
    BY DEF SharedInv, Unended
  <2>2. \E r : owed \subseteq {inflight, r}
    <3>1. CASE Running = {}
      BY <2>1, <3>1 DEF Running
    <3>2. CASE \E r : r \in Running
      BY <2>1, <3>2 DEF Running, OneThread
    <3> QED
      BY <3>1, <3>2
  <2>3. PICK r : owed \subseteq {inflight, r}
    BY <2>2
  <2>4. IsFiniteSet({inflight, r}) /\ Cardinality({inflight, r}) <= 2
    <3>1. IsFiniteSet({r}) /\ Cardinality({r}) = 1
      BY FS_Singleton
    <3>2. {inflight, r} = {r} \cup {inflight}
      OBVIOUS
    <3> QED
      BY <3>1, <3>2, FS_AddElement
  <2>5. Cardinality(owed) <= Cardinality({inflight, r})
    BY <2>3, <2>4, FS_Subset
  <2>6. Cardinality(owed) \in Nat /\ Cardinality({inflight, r}) \in Nat
    BY <2>3, <2>4, FS_Subset, FS_CardinalityType
  <2> QED
    BY <2>4, <2>5, <2>6 DEF BacklogIsBounded
<1> QED
  BY <1>2, <1>3, SharedInvariant, PTL

\* After close no answer is remembered and the gauge stays down for good.
THEOREM StaysUnready == ProbeSpec => []NotReadyOnceClosed
<1>1. ProbeInit => NotReadyOnceClosed
  BY DEF ProbeInit, NotReadyOnceClosed
<1>2. ProbeTypeOK /\ NotReadyOnceClosed /\ [ProbeNext]_probeVars => NotReadyOnceClosed'
  <2> SUFFICES ASSUME ProbeTypeOK, NotReadyOnceClosed, [ProbeNext]_probeVars PROVE NotReadyOnceClosed'
    OBVIOUS
  <2> USE DEF NotReadyOnceClosed, probe
  <2>1. ASSUME NEW n \in Refreshes, RefreshStep(n) \/ CheckReturns(n) PROVE NotReadyOnceClosed'
    BY <2>1 DEF RefreshStep, Submit, Complete, Drop, TimeOut, Settle, CheckReturns
  <2>2. ASSUME NEW c \in Callers, NEW force \in BOOLEAN,
               \/ AnswerAtOnce(c, force) \/ Join(c, force)
               \/ Receive(c) \/ CancelCaller(c) \/ Forget(c)
        PROVE  NotReadyOnceClosed'
    BY <2>2 DEF AnswerAtOnce, Join, Launch, Receive, CancelCaller, Forget
  <2>3. CASE Take \/ CacheExpires \/ Close \/ UNCHANGED probeVars
    BY <2>3 DEF Take, CacheExpires, Close, probeVars
  <2> QED
    BY <2>1, <2>2, <2>3 DEF ProbeNext
<1> QED
  BY <1>1, <1>2, ProbeTypes, PTL DEF ProbeSpec
-----------------------------------------------------------------------------
(* The probe inside the lifespan *)

\* Whatever the lifespan does is, seen from the probe, one of the probe's own steps or
\* nothing: all that is proved of the probe holds in the service (main.py, is_ready, close).
THEOREM LifespanRunsTheProbe == Spec => ProbeSpec
<1>1. Init => ProbeInit
  BY DEF Init
<1>2. [Next]_vars => [ProbeNext]_probeVars
  <2> SUFFICES ASSUME [Next]_vars PROVE ProbeNext \/ UNCHANGED probeVars
    OBVIOUS
  <2>1. ASSUME NEW c \in Callers, NEW force \in BOOLEAN, AskProbe(c, force) PROVE ProbeNext
    BY <2>1 DEF AskProbe, ProbeNext
  <2>2. CASE ProbeStep
    BY <2>2 DEF ProbeStep, ProbeNext
  <2>3. CASE VectorStep
    BY <2>3 DEF VectorStep
  <2>4. CASE StartUp
    BY <2>4 DEF StartUp, Build, BuildFails, MarkStarted
  <2>5. CASE BeginShutdown
    BY <2>5 DEF BeginShutdown
  <2>6. CASE Shutdown
    BY <2>6 DEF Shutdown, CloseResource, CloseVector, Unpublish, ProbeNext
  <2>7. CASE UNCHANGED vars
    BY <2>7 DEF vars
  <2> QED
    BY <2>1, <2>2, <2>3, <2>4, <2>5, <2>6, <2>7 DEF Next
<1> QED
  BY <1>1, <1>2, PTL DEF Spec, ProbeSpec

-----------------------------------------------------------------------------
(* What holds of the composition *)

Names == {"repository", "client", "probe", "metrics", "control", "logs", "vector"}

LifecycleInv ==
    /\ phase \in [at : {"build", "failed", "serve", "close", "ended"}, step : 0..8]
    /\ lifecycle \in {"starting", "started", "stopping", "failed"}
    /\ open \subseteq Names
    /\ phase.at = "build" =>
          /\ phase.step > 0 /\ lifecycle = "starting" /\ ~ closed
          /\ loop = IF phase.step = 8 THEN "running" ELSE "none"
          /\ \A j \in 1..7 : j < phase.step => Building[j] \in Optional \cup open
    /\ phase.at = "failed" => loop = "none" /\ lifecycle # "started"
    /\ phase.at = "serve" =>
          /\ lifecycle = "started" /\ loop = "running" /\ ~ closed
          /\ Names \ Optional \subseteq open
    /\ phase.at = "close" =>
          /\ phase.step \in 1..7 /\ lifecycle = "stopping"
          /\ phase.step > 3 => closed
          /\ phase.step > 5 => loop = "closed"
          /\ phase.step <= 5 => loop \in {"running", "closing"}
          /\ \A j \in 1..6 : j < phase.step => Closing[j] \notin open
    /\ phase.at = "ended" =>
          lifecycle = "stopping" /\ closed /\ loop = "closed" /\ open \subseteq {"control"}

VectorInv ==
    /\ VectorTypeOK
    /\ \A w \in Workers : call[w] # "waiting" => post[w] = "none"
    /\ Cardinality(Calling) <= MaxConnections
    /\ phase.at # "serve" => Calling = {}

NotCancelled(n) ==
    /\ refresh[n] # "cancelled"
    /\ refresh[n] # "none" => n <= started
    /\ item[n] = "cancelled" => refresh[n] = "returned" /\ n <= started

RefreshInv ==
    /\ started \in 0..MaxRefreshes /\ inflight \in 0..MaxRefreshes
    /\ refresh = [n \in Refreshes |-> refresh[n]]
    /\ item = [n \in Refreshes |-> item[n]]
    /\ ~ closed => \A n \in Refreshes : NotCancelled(n)

AskersInv ==
    /\ joined \in [Callers -> 0..MaxRefreshes]
    /\ answer = [c \in Callers |-> answer[c]]
    /\ \A c \in Callers : answer[c] # "cancelled"
    /\ phase.at # "serve" => \A c \in Callers : joined[c] = 0 /\ answer[c] = "none"

Inv == LifecycleInv /\ VectorInv /\ RefreshInv /\ AskersInv

-----------------------------------------------------------------------------
LEMMA BuildingIs ==
  /\ Building = <<"repository", "client", "probe", "metrics", "control", "logs", "vector">>
  /\ Len(Building) = 7 /\ DOMAIN Building = 1..7
BY DEF Building

LEMMA ClosingIs == Len(Closing) = 6 /\ DOMAIN Closing = 1..6
BY DEF Closing

LEMMA NamesAre == {Building[i] : i \in DOMAIN Building} = Names
<1>1. \A i \in 1..7 : i \in {1, 2, 3, 4, 5, 6, 7}
  OBVIOUS
<1> QED
  BY <1>1, BuildingIs DEF Names

LEMMA CallingFinite == IsFiniteSet(Calling) /\ Cardinality(Calling) \in Nat
<1>1. IsFiniteSet(Calling)
  BY CapacityAssumption, FS_Subset DEF Calling
<1> QED
  BY <1>1, FS_CardinalityType

-----------------------------------------------------------------------------
(* The requests for vectors *)

\* A step of one worker that leaves everybody else and the loop as they are.
LEMMA WorkerStep ==
  ASSUME VectorInv, phase' = phase, UNCHANGED <<adapterClosed, loop>>, NEW w \in Workers,
         \/ At("serve", 0) /\ Generate(w)
         \/ SubmitPost(w) \/ PostStep(w) \/ AnswerPost(w) \/ Resume(w) \/ Expire(w)
  PROVE  VectorInv'
<1> USE CapacityAssumption DEF VectorInv, VectorTypeOK
<1>1. \A a : Verdict(a) \in {"unavailable", "error", "vector", "invalid"}
  BY DEF Verdict
<1>2. ASSUME Calling' \subseteq Calling PROVE /\ Cardinality(Calling') <= MaxConnections
                                              /\ phase'.at # "serve" => Calling' = {}
  <2>1. Cardinality(Calling') <= Cardinality(Calling) /\ Cardinality(Calling') \in Nat
    BY <1>2, CallingFinite, FS_Subset, FS_CardinalityType
  <2> QED
    BY <1>2, <2>1, CallingFinite
<1>3. CASE At("serve", 0) /\ Generate(w)
  <2>1. /\ call[w] = "idle" /\ Cardinality(Calling) < MaxConnections
        /\ call' = [call EXCEPT ![w] = "checked"] /\ UNCHANGED <<late, post, outcome>>
    BY <1>3 DEF Generate
  <2>2. Calling' = Calling \cup {w} /\ w \notin Calling
    BY <2>1 DEF Calling
  <2>3. Cardinality(Calling') = Cardinality(Calling) + 1
    BY <2>2, CallingFinite, FS_AddElement
  <2>4. Cardinality(Calling') <= MaxConnections
    BY <2>1, <2>3, CallingFinite
  <2>5. phase'.at = "serve"
    BY <1>3 DEF At
  <2> QED
    BY <2>1, <2>4, <2>5
<1>4. CASE SubmitPost(w)
  <2>1. Calling' \subseteq Calling
    BY <1>4 DEF SubmitPost, Calling
  <2> QED
    BY <1>2, <1>4, <2>1 DEF SubmitPost
<1>5. ASSUME NEW what \in {"timeout", "unavailable", "error", "vector", "invalid"}, EndPost(w, what),
             post[w] \in {"queued", "sending", "cancelling"}
      PROVE  VectorInv'
  <2>1. Calling' \subseteq Calling
    BY <1>5 DEF EndPost, Calling
  <2> QED
    BY <1>2, <1>5, <2>1 DEF EndPost
<1>6. CASE BeginPost(w)
  <2>1. CASE w \in late
    BY <1>5, <1>6, <2>1 DEF BeginPost
  <2>2. CASE w \notin late
    <3>1. Calling' \subseteq Calling
      BY <1>6, <2>2 DEF BeginPost, Calling
    <3> QED
      BY <1>2, <1>6, <2>2, <3>1 DEF BeginPost
  <2> QED
    BY <2>1, <2>2
<1>7. CASE TimeOutPost(w)
  <2>1. Calling' \subseteq Calling
    BY <1>7 DEF TimeOutPost, Calling
  <2> QED
    BY <1>2, <1>7, <2>1 DEF TimeOutPost
<1>8. CASE CleanUp(w)
  BY <1>5, <1>8 DEF CleanUp
<1>9. CASE AnswerPost(w)
  <2>1. PICK what \in Verdicts \cup {"timeout"} : EndPost(w, what)
    BY <1>9 DEF AnswerPost
  <2>2. what \in {"unavailable", "error", "vector", "invalid", "timeout"}
    BY <1>1 DEF Verdicts
  <2> QED
    BY <1>5, <1>9, <2>1, <2>2 DEF AnswerPost
<1>10. CASE Resume(w)
  <2>1. Calling' \subseteq Calling
    BY <1>10 DEF Resume, Calling
  <2> QED
    BY <1>2, <1>10, <2>1 DEF Resume
<1>11. CASE Expire(w)
  <2>1. Calling' \subseteq Calling
    BY <1>11 DEF Expire, Calling
  <2> QED
    BY <1>2, <1>11, <2>1 DEF Expire
<1> QED
  BY <1>3, <1>4, <1>6, <1>7, <1>8, <1>9, <1>10, <1>11 DEF PostStep

\* Steps that concern the loop, the probe or the lifespan only.
LEMMA VectorElsewhere ==
  ASSUME VectorInv, UNCHANGED <<call, late, post, outcome>>, adapterClosed' \in BOOLEAN,
         loop' \in {"none", "running", "closing", "closed"},
         phase'.at # "serve" => Calling = {}
  PROVE  VectorInv'
<1>1. Calling' = Calling
  BY DEF Calling
<1> QED
  BY <1>1 DEF VectorInv, VectorTypeOK

-----------------------------------------------------------------------------
(* The probe, before it is closed *)

\* A refresh ends while the probe is open.
LEMMA SettleStep ==
  ASSUME RefreshInv, NEW n \in Refreshes, NEW ready, Settle(n, ready),
         refresh[n] # "none",
         item' = [item EXCEPT ![n] = item'[n]]
  PROVE  RefreshInv' /\ UNCHANGED <<closed, joined, answer>>
<1>1. /\ refresh' = [refresh EXCEPT ![n] = "returned"] /\ inflight' = 0
      /\ UNCHANGED <<started, closed, joined, answer>>
  BY DEF Settle, callers
<1>2. item' = [m \in Refreshes |-> item'[m]]
  BY DEF RefreshInv
<1>3. ASSUME ~ closed, NEW m \in Refreshes PROVE NotCancelled(m)'
  <2>1. CASE m = n
    BY <1>1, <1>3, <2>1 DEF RefreshInv, NotCancelled
  <2>2. CASE m # n
    <3>1. refresh'[m] = refresh[m] /\ item'[m] = item[m]
      BY <1>1, <2>2 DEF RefreshInv
    <3> QED
      BY <1>1, <1>3, <3>1 DEF RefreshInv, NotCancelled
  <2> QED
    BY <2>1, <2>2
<1> QED
  BY <1>1, <1>2, <1>3, BoundAssumption DEF RefreshInv

LEMMA ProbeKeeps ==
  ASSUME RefreshInv,
         \/ \E n \in Refreshes : RefreshStep(n) \/ CheckReturns(n)
         \/ Take \/ CacheExpires
  PROVE  RefreshInv' /\ UNCHANGED <<closed, joined, answer>>
<1> USE DEF probe, tasks, executor, callers
<1>1. ASSUME NEW n \in Refreshes, Submit(n) \/ Complete(n) \/ TimeOut(n),
             ~ closed \/ ~ Submit(n)
      PROVE  RefreshInv' /\ UNCHANGED <<closed, joined, answer>>
  <2>1. CASE Submit(n)
    <3>1. /\ refresh' = [refresh EXCEPT ![n] = "waiting"] /\ refresh[n] = "created"
          /\ item' = [item EXCEPT ![n] = "queued"]
          /\ UNCHANGED <<started, inflight, closed, joined, answer>>
      BY <1>1, <2>1 DEF Submit
    <3> QED
      BY <3>1 DEF RefreshInv, NotCancelled
  <2>2. CASE Complete(n)
    <3>1. refresh[n] # "none" /\ item' = [item EXCEPT ![n] = item'[n]]
      BY <2>2 DEF Complete, RefreshInv
    <3>2. Settle(n, item[n] = "yes")
      BY <2>2 DEF Complete
    <3> QED
      BY <3>1, <3>2, SettleStep
  <2>3. CASE TimeOut(n)
    <3>1. refresh[n] # "none" /\ item' = [item EXCEPT ![n] = item'[n]]
      BY <2>3 DEF TimeOut, RefreshInv
    <3> QED
      BY <2>3, <3>1, SettleStep DEF TimeOut
  <2> QED
    BY <1>1, <2>1, <2>2, <2>3
<1>2. ASSUME NEW n \in Refreshes, Submit(n), closed
      PROVE  RefreshInv' /\ UNCHANGED <<closed, joined, answer>>
  <2>1. /\ refresh[n] # "none" /\ item' = [item EXCEPT ![n] = item'[n]]
        /\ Settle(n, FALSE)
    BY <1>2 DEF Submit, RefreshInv
  <2> QED
    BY <2>1, SettleStep
<1>3. ASSUME NEW n \in Refreshes, Drop(n)
      PROVE  RefreshInv' /\ UNCHANGED <<closed, joined, answer>>
  BY <1>3 DEF Drop, RefreshInv, NotCancelled
<1>4. ASSUME NEW n \in Refreshes, CheckReturns(n)
      PROVE  RefreshInv' /\ UNCHANGED <<closed, joined, answer>>
  <2>1. PICK said \in {"yes", "no"} : item' = [item EXCEPT ![n] = said]
    BY <1>4 DEF CheckReturns
  <2> QED
    BY <1>4, <2>1 DEF CheckReturns, RefreshInv, NotCancelled
<1>5. CASE Take
  <2> DEFINE n == Head(queue)
  <2>1. /\ item' = [item EXCEPT ![n] = item'[n]]
        /\ item'[n] = "cancelled" /\ n \in Refreshes => item[n] = "cancelled"
        /\ UNCHANGED <<started, inflight, refresh, closed, joined, answer>>
    BY <1>5 DEF Take, RefreshInv
  <2> QED
    BY <2>1 DEF RefreshInv, NotCancelled
<1>6. CASE CacheExpires
  BY <1>6 DEF CacheExpires, RefreshInv, NotCancelled
<1> QED
  BY <1>1, <1>2, <1>3, <1>4, <1>5, <1>6 DEF RefreshStep

\* An asker comes, is told, or goes, while the service is in service.
LEMMA AskerStep ==
  ASSUME RefreshInv, AskersInv, ~ closed, phase' = phase, NEW c \in Callers,
         \/ \E force \in BOOLEAN :
               phase.at = "serve" /\ (AnswerAtOnce(c, force) \/ Join(c, force))
         \/ Receive(c) \/ CancelCaller(c) \/ Forget(c)
  PROVE  RefreshInv' /\ AskersInv' /\ closed' = closed
<1> USE BoundAssumption
    DEF probe, tasks, executor, callers, Tell, Refreshes
<1>0. \A ready : AsAnswer(ready) \in {"ready", "notReady"}
  BY DEF AsAnswer
<1>1. ASSUME NEW force \in BOOLEAN, phase.at = "serve", AnswerAtOnce(c, force)
      PROVE  RefreshInv' /\ AskersInv' /\ closed' = closed
  <2>1. UNCHANGED <<started, inflight, refresh, item, closed, joined>>
    BY <1>1 DEF AnswerAtOnce
  <2>2. \E what \in {"ready", "notReady"} : answer' = [answer EXCEPT ![c] = what]
    BY <1>0, <1>1 DEF AnswerAtOnce
  <2> QED
    BY <1>1, <2>1, <2>2 DEF RefreshInv, NotCancelled, AskersInv
<1>2. ASSUME NEW force \in BOOLEAN, phase.at = "serve", Join(c, force)
      PROVE  RefreshInv' /\ AskersInv' /\ closed' = closed
  <2>1. CASE Launch(c)
    <3>1. /\ started' = started + 1 /\ started' \in 0..MaxRefreshes /\ inflight' = started'
          /\ refresh' = [refresh EXCEPT ![started'] = "created"]
          /\ joined' = [joined EXCEPT ![c] = started']
          /\ UNCHANGED <<closed, item, answer>>
      BY <2>1 DEF Launch, RefreshInv
    <3>2. RefreshInv'
      <4>1. ASSUME NEW n \in Refreshes PROVE NotCancelled(n)'
        <5>1. NotCancelled(n) /\ started \in Nat /\ n \in Nat
          BY DEF RefreshInv
        <5>2. CASE n = started'
          BY <3>1, <5>1, <5>2 DEF RefreshInv, NotCancelled
        <5>3. CASE n # started'
          <6>1. refresh'[n] = refresh[n] /\ item'[n] = item[n]
            BY <3>1, <5>3 DEF RefreshInv
          <6> QED
            BY <3>1, <5>1, <6>1 DEF NotCancelled
        <5> QED
          BY <5>2, <5>3
      <4>2. refresh' = [n \in 1..MaxRefreshes |-> refresh'[n]]
        BY <3>1 DEF RefreshInv
      <4> QED
        BY <3>1, <4>1, <4>2 DEF RefreshInv
    <3>3. AskersInv'
      BY <1>2, <3>1 DEF AskersInv
    <3> QED
      BY <3>1, <3>2, <3>3
  <2>2. CASE ~ Launch(c)
    <3>1. joined' = [joined EXCEPT ![c] = inflight]
          /\ UNCHANGED <<started, inflight, refresh, item, closed, answer>>
      BY <1>2, <2>2 DEF Join
    <3> QED
      BY <1>2, <3>1 DEF RefreshInv, NotCancelled, AskersInv
  <2> QED
    BY <2>1, <2>2
<1>3. CASE Receive(c)
  <2>1. /\ joined[c] # 0 /\ joined' = [joined EXCEPT ![c] = 0]
        /\ UNCHANGED <<started, inflight, refresh, item, closed>>
    BY <1>3 DEF Receive
  <2>2. joined[c] \in Refreshes
    BY <2>1 DEF AskersInv
  <2>3. refresh[joined[c]] # "cancelled"
    BY <2>2 DEF RefreshInv, NotCancelled
  <2>4. \E what \in {"ready", "notReady"} : answer' = [answer EXCEPT ![c] = what]
    BY <1>0, <1>3, <2>3 DEF Receive
  <2>5. phase.at = "serve"
    BY <2>1 DEF AskersInv
  <2> QED
    BY <2>1, <2>4, <2>5 DEF RefreshInv, NotCancelled, AskersInv
<1>4. CASE CancelCaller(c)
  BY <1>4 DEF CancelCaller, RefreshInv, NotCancelled, AskersInv
<1>5. CASE Forget(c)
  BY <1>5 DEF Forget, RefreshInv, NotCancelled, AskersInv
<1> QED
  BY <1>1, <1>2, <1>3, <1>4, <1>5

-----------------------------------------------------------------------------
(* The lifespan *)

LEMMA InitHolds == Init => Inv
<1> SUFFICES ASSUME Init PROVE Inv
  OBVIOUS
<1> USE DEF Init
<1>1. LifecycleInv
  BY DEF LifecycleInv, ProbeInit, VectorInit
<1>2. VectorInv
  <2>1. Calling = {}
    BY DEF Calling, VectorInit
  <2>2. Cardinality(Calling) = 0 /\ MaxConnections \in Nat
    BY <2>1, FS_EmptySet, CapacityAssumption
  <2>3. adapterClosed \in BOOLEAN
    BY DEF VectorInit
  <2>4. VectorTypeOK
    BY <2>3 DEF VectorInit, VectorTypeOK
  <2> QED
    BY <2>1, <2>2, <2>4 DEF VectorInv, VectorInit
<1>3. RefreshInv
  BY BoundAssumption DEF RefreshInv, NotCancelled, ProbeInit
<1>4. AskersInv
  BY BoundAssumption DEF AskersInv, ProbeInit
<1> QED
  BY <1>1, <1>2, <1>3, <1>4 DEF Inv

LEMMA ProbeUntouched ==
  ASSUME RefreshInv, AskersInv, UNCHANGED probeVars,
         phase'.at # "serve" => \A c \in Callers : joined[c] = 0 /\ answer[c] = "none"
  PROVE  RefreshInv' /\ AskersInv'
BY DEF RefreshInv, NotCancelled, AskersInv, probeVars, probe, tasks, executor, callers

LEMMA LifecycleUntouched ==
  ASSUME LifecycleInv, UNCHANGED <<phase, lifecycle, open, closed, loop>>
  PROVE  LifecycleInv'
BY DEF LifecycleInv

LEMMA StartUpStep ==
  ASSUME Inv, StartUp
  PROVE  Inv'
<1> USE BuildingIs DEF At, GoTo
<1>1. /\ phase.at = "build" /\ UNCHANGED probeVars /\ closed' = closed
      /\ UNCHANGED <<call, late, post, outcome, adapterClosed>>
  BY DEF StartUp, Build, BuildFails, MarkStarted, StartLoop, vectorVars, probeVars, probe,
         tasks, executor, callers
<1>2. RefreshInv' /\ AskersInv'
  BY <1>1, ProbeUntouched DEF Inv, AskersInv
<1>3. Calling = {} /\ adapterClosed \in BOOLEAN
  BY <1>1 DEF Inv, VectorInv, VectorTypeOK
<1>4. LifecycleInv' /\ loop' \in {"none", "running", "closing", "closed"}
  <2> USE DEF Inv, LifecycleInv
  <2>1. ASSUME NEW i \in 1..7, Build(i)
        PROVE  LifecycleInv' /\ loop' \in {"none", "running", "closing", "closed"}
    <3>1. /\ phase = [at |-> "build", step |-> i] /\ phase' = [at |-> "build", step |-> i + 1]
          /\ lifecycle' = lifecycle
      BY <2>1 DEF Build
    <3>2. /\ open' \subseteq Names /\ open \subseteq open'
          /\ Building[i] \in Optional \cup open'
      BY <2>1, NamesAre DEF Build
    <3>3. Building[i] = "vector" <=> i = 7
      OBVIOUS
    <3>4. loop' = IF i = 7 THEN "running" ELSE loop
      BY <2>1, <3>3 DEF Build, StartLoop, vectorVars
    <3>5. \A j \in 1..7 : j < i + 1 => Building[j] \in Optional \cup open'
      <4>1. \A j \in 1..7 : j < i + 1 => j < i \/ j = i
        OBVIOUS
      <4> QED
        BY <3>1, <3>2, <4>1
    <3> HIDE BuildingIs
    <3> QED
      BY <1>1, <3>1, <3>2, <3>4, <3>5
  <2>2. ASSUME NEW i \in 1..7, BuildFails(i)
        PROVE  LifecycleInv' /\ loop' \in {"none", "running", "closing", "closed"}
    BY <1>1, <2>2 DEF BuildFails, vectorVars
  <2>3. CASE MarkStarted
    <3>1. /\ phase = [at |-> "build", step |-> 8] /\ phase' = [at |-> "serve", step |-> 0]
          /\ lifecycle' = "started" /\ UNCHANGED <<open, loop>>
      BY <2>3 DEF MarkStarted, vectorVars
    <3>2. Names \ Optional \subseteq open
      BY <3>1, NamesAre
    <3> QED
      BY <1>1, <3>1, <3>2
  <2> QED
    BY <2>1, <2>2, <2>3 DEF StartUp
<1>5. VectorInv'
  BY <1>1, <1>3, <1>4, VectorElsewhere DEF Inv
<1> QED
  BY <1>2, <1>4, <1>5 DEF Inv

LEMMA ShutdownStep ==
  ASSUME Inv, BeginShutdown \/ Shutdown
  PROVE  Inv'
<1> USE ClosingIs DEF At, GoTo
<1>1. CASE BeginShutdown
  <2>1. /\ phase.at = "serve" /\ Calling = {} /\ phase' = [at |-> "close", step |-> 1]
        /\ \A c \in Callers : joined[c] = 0 /\ answer[c] = "none"
        /\ lifecycle' = "stopping" /\ UNCHANGED <<probeVars, open, closed, loop>>
        /\ UNCHANGED <<call, late, post, outcome, adapterClosed>>
    BY <1>1 DEF BeginShutdown, Drained, vectorVars, probeVars, probe, tasks, executor,
                callers
  <2>2. RefreshInv' /\ AskersInv'
    BY <2>1, ProbeUntouched DEF Inv
  <2>3. VectorInv'
    BY <2>1, VectorElsewhere DEF Inv, VectorInv, VectorTypeOK
  <2>4. LifecycleInv'
    BY <2>1 DEF Inv, LifecycleInv
  <2> QED
    BY <2>2, <2>3, <2>4 DEF Inv
<1>2. ASSUME NEW i \in 1..6, CloseResource(i) PROVE Inv'
  <2>1. /\ phase = [at |-> "close", step |-> i] /\ phase' = [at |-> "close", step |-> i + 1]
        /\ open' = open \ {Closing[i]} /\ UNCHANGED <<lifecycle, loop, joined, answer>>
        /\ UNCHANGED <<call, late, post, outcome, adapterClosed>>
    BY <1>2 DEF CloseResource, AfterClosing, vectorVars, probeVars, probe, tasks, executor,
                callers, Close
  <2>2. i # 5 /\ (i = 3 <=> Closing[i] = "probe")
    BY <1>2 DEF CloseResource, Closing
  <2>3. closed' = IF i = 3 THEN TRUE ELSE closed
    BY <1>2, <2>2 DEF CloseResource, probeVars, probe, tasks, executor, callers, Close
  <2>4. RefreshInv'
    <3>1. CASE i = 3
      BY <1>2, <2>2, <3>1 DEF Inv, RefreshInv, CloseResource, Close, tasks
    <3>2. CASE i # 3
      BY <1>2, <2>2, <3>2 DEF Inv, RefreshInv, NotCancelled, CloseResource, probeVars,
                              probe, tasks, executor, callers
    <3> QED
      BY <3>1, <3>2
  <2>5. AskersInv'
    BY <2>1 DEF Inv, AskersInv
  <2>6. VectorInv'
    BY <2>1, VectorElsewhere DEF Inv, VectorInv, VectorTypeOK
  <2>7. \A j \in 1..6 : j < i + 1 => Closing[j] \notin open'
    <3>1. \A j \in 1..6 : j < i + 1 => j < i \/ j = i
      OBVIOUS
    <3> QED
      BY <2>1, <3>1 DEF Inv, LifecycleInv
  <2>8. LifecycleInv'
    BY <2>1, <2>2, <2>3, <2>7 DEF Inv, LifecycleInv
  <2> QED
    BY <2>4, <2>5, <2>6, <2>8 DEF Inv
<1>3. ASSUME NEW i \in 1..6, CloseVector(i) PROVE Inv'
  <2>1. i = 5 /\ phase = [at |-> "close", step |-> i]
    BY <1>3 DEF CloseVector, Closing
  <2>2. /\ UNCHANGED <<probeVars, lifecycle, call, late, post, outcome, closed>>
        /\ adapterClosed' = TRUE \/ adapterClosed' = adapterClosed
    BY <1>3 DEF CloseVector, CloseAdapter, StopLoop, probeVars, probe, tasks, executor,
                callers
  <2>3. \/ UNCHANGED <<phase, open>> /\ loop' = "closing"
        \/ /\ phase' = [at |-> "close", step |-> i + 1] /\ open' = open \ {Closing[i]}
           /\ loop' = "closed"
    BY <1>3 DEF CloseVector, CloseAdapter, StopLoop, AfterClosing, Closing
  <2>4. RefreshInv' /\ AskersInv'
    BY <2>1, <2>2, ProbeUntouched DEF Inv, AskersInv
  <2>5. VectorInv'
    <3>1. adapterClosed' \in BOOLEAN
      BY <2>2, Zenon DEF Inv, VectorInv, VectorTypeOK
    <3> QED
      BY <2>1, <2>2, <2>3, <3>1, VectorElsewhere DEF Inv, VectorInv
  <2>6. LifecycleInv'
    <3>1. CASE UNCHANGED <<phase, open>> /\ loop' = "closing"
      BY <2>1, <2>2, <3>1 DEF Inv, LifecycleInv
    <3>2. CASE /\ phase' = [at |-> "close", step |-> i + 1] /\ open' = open \ {Closing[i]}
               /\ loop' = "closed"
      <4>1. \A j \in 1..6 : j < i + 1 => j < i \/ j = i
        OBVIOUS
      <4>2. \A j \in 1..6 : j < i + 1 => Closing[j] \notin open'
        BY <2>1, <3>2, <4>1 DEF Inv, LifecycleInv
      <4> QED
        BY <2>1, <2>2, <3>2, <4>2 DEF Inv, LifecycleInv
    <3> QED
      BY <2>3, <3>1, <3>2
  <2> QED
    BY <2>4, <2>5, <2>6 DEF Inv
<1>4. CASE Unpublish
  <2>1. /\ phase = [at |-> "close", step |-> 7] /\ phase' = [at |-> "ended", step |-> 0]
        /\ UNCHANGED <<probeVars, lifecycle, open, loop, closed>>
        /\ UNCHANGED <<call, late, post, outcome, adapterClosed>>
    BY <1>4 DEF Unpublish, vectorVars, probeVars, probe, tasks, executor, callers
  <2>2. RefreshInv' /\ AskersInv'
    BY <2>1, ProbeUntouched DEF Inv, AskersInv
  <2>3. VectorInv'
    BY <2>1, VectorElsewhere DEF Inv, VectorInv, VectorTypeOK
  <2>4. open \subseteq {"control"}
    <3>1. \A j \in 1..6 : Closing[j] \notin open
      BY <2>1 DEF Inv, LifecycleInv
    <3>2. 1 \in 1..6 /\ 2 \in 1..6 /\ 3 \in 1..6 /\ 4 \in 1..6 /\ 5 \in 1..6 /\ 6 \in 1..6
      OBVIOUS
    <3> QED
      BY <3>1, <3>2 DEF Inv, LifecycleInv, Names, Closing
  <2>5. LifecycleInv'
    BY <2>1, <2>4 DEF Inv, LifecycleInv
  <2> QED
    BY <2>2, <2>3, <2>5 DEF Inv
<1> QED
  BY <1>1, <1>2, <1>3, <1>4 DEF Shutdown

LEMMA Inductive == Spec => []Inv
<1>1. Inv /\ [Next]_vars => Inv'
  <2> SUFFICES ASSUME Inv, [Next]_vars PROVE Inv'
    OBVIOUS
  <2>1. ASSUME UNCHANGED <<vectorVars, phase, lifecycle, open>>, closed' = closed
        PROVE  LifecycleInv' /\ VectorInv'
    BY <2>1, LifecycleUntouched, VectorElsewhere
       DEF Inv, vectorVars, VectorInv, VectorTypeOK
  <2>2. ASSUME NEW c \in Callers, NEW force \in BOOLEAN, AskProbe(c, force) PROVE Inv'
    <3>1. phase.at = "serve" /\ ~ closed /\ UNCHANGED <<vectorVars, phase, lifecycle, open>>
      BY <2>2 DEF AskProbe, At, Inv, LifecycleInv
    <3>2. RefreshInv' /\ AskersInv' /\ closed' = closed
      BY <2>2, <3>1, AskerStep DEF AskProbe, Inv
    <3> QED
      BY <2>1, <3>1, <3>2 DEF Inv
  <2>3. CASE ProbeStep
    <3>1. UNCHANGED <<vectorVars, phase, lifecycle, open>>
      BY <2>3 DEF ProbeStep
    <3>2. ASSUME NEW c \in Callers, Receive(c) \/ CancelCaller(c) \/ Forget(c)
          PROVE  Inv'
      <4>1. phase.at = "serve"
        BY <3>2 DEF Receive, CancelCaller, Forget, Inv, AskersInv
      <4>2. ~ closed
        BY <4>1 DEF Inv, LifecycleInv
      <4>3. RefreshInv' /\ AskersInv' /\ closed' = closed
        BY <3>1, <3>2, <4>2, AskerStep DEF Inv
      <4> QED
        BY <2>1, <3>1, <4>3 DEF Inv
    <3>3. ASSUME \/ \E n \in Refreshes : RefreshStep(n) \/ CheckReturns(n)
                 \/ Take \/ CacheExpires
          PROVE  Inv'
      <4>1. RefreshInv' /\ UNCHANGED <<closed, joined, answer>>
        BY <3>3, ProbeKeeps DEF Inv
      <4>2. AskersInv'
        BY <3>1, <4>1 DEF Inv, AskersInv
      <4> QED
        BY <2>1, <3>1, <4>1, <4>2 DEF Inv
    <3> QED
      BY <2>3, <3>2, <3>3 DEF ProbeStep
  <2>4. CASE VectorStep
    <3>1. UNCHANGED <<probeVars, phase, lifecycle, open>>
      BY <2>4 DEF VectorStep
    <3>2. PICK w \in Workers :
            \/ At("serve", 0) /\ Generate(w)
            \/ SubmitPost(w) \/ PostStep(w) \/ AnswerPost(w) \/ Resume(w) \/ Expire(w)
      BY <2>4 DEF VectorStep
    <3>3. UNCHANGED <<adapterClosed, loop>>
      BY <3>2 DEF Generate, SubmitPost, PostStep, BeginPost, TimeOutPost, CleanUp, EndPost,
                  AnswerPost, Resume, Expire
    <3>4. VectorInv'
      BY <3>1, <3>2, <3>3, WorkerStep DEF Inv
    <3>5. RefreshInv' /\ AskersInv'
      BY <3>1, ProbeUntouched DEF Inv, AskersInv
    <3>6. LifecycleInv'
      BY <3>1, <3>3, LifecycleUntouched DEF Inv, probeVars, probe, tasks, executor, callers
    <3> QED
      BY <3>4, <3>5, <3>6 DEF Inv
  <2>5. CASE UNCHANGED vars
    BY <2>1, <2>5, ProbeUntouched DEF vars, probeVars, probe, tasks, executor, callers,
                                      Inv, AskersInv
  <2> QED
    BY <2>2, <2>3, <2>4, <2>5, StartUpStep, ShutdownStep DEF Next
<1> QED
  BY <1>1, InitHolds, PTL DEF Spec

\* Type correctness of the lifespan, the probe and the adapter.
THEOREM LifespanTypes == Spec => []TypeOK
<1>1. Inv /\ ProbeTypeOK => TypeOK
  BY BuildingIs, NamesAre DEF Inv, LifecycleInv, VectorInv, TypeOK
<1> QED
  BY <1>1, Inductive, LifespanRunsTheProbe, ProbeTypes, PTL

\* Nobody is caught in the shutdown: no request waits for a loop that has stopped, and no
\* asker is told ready by a service that stops, or meets a check that close cancelled
\* (the order of lifespan, ReadinessProbe.close and ArkQueryVectorAdapter.close).
THEOREM ShutdownCatchesNobody == Spec => []NobodyIsCaughtInTheShutdown
<1>1. Inv => NobodyIsCaughtInTheShutdown
  <2> SUFFICES ASSUME Inv PROVE NobodyIsCaughtInTheShutdown
    OBVIOUS
  <2>1. NobodyWaitsForAStoppedLoop
    <3>1. loop = "closed" => phase.at # "serve"
      BY DEF Inv, LifecycleInv
    <3> QED
      BY <3>1 DEF Inv, VectorInv, Calling, NobodyWaitsForAStoppedLoop
  <2>2. AskersDoNotMeetTheShutdown
    BY DEF Inv, AskersInv, LifecycleInv, AskersDoNotMeetTheShutdown
  <2> QED
    BY <2>1, <2>2 DEF NobodyIsCaughtInTheShutdown
<1> QED
  BY <1>1, Inductive, PTL

\* Those who have a connection, or are given one back, are among the others in generate.
LEMMA ConnectionLeft ==
  ASSUME Inv, NEW w \in Workers, post[w] = "queued"
  PROVE  Cardinality(Connected) < MaxConnections
<1>1. Connected \subseteq Calling \ {w} /\ w \in Calling
  BY DEF Inv, VectorInv, Connected, Calling
<1>2. IsFiniteSet(Calling \ {w}) /\ Cardinality(Calling \ {w}) = Cardinality(Calling) - 1
  BY <1>1, CallingFinite, FS_RemoveElement
<1>3. Cardinality(Connected) <= Cardinality(Calling \ {w}) /\ Cardinality(Connected) \in Nat
  BY <1>1, <1>2, FS_Subset, FS_CardinalityType
<1> QED
  BY <1>2, <1>3, CallingFinite, CapacityAssumption DEF Inv, VectorInv

\* The pool has a connection for every request that the heavy bulkhead admitted, also
\* while those that gave up are being cleaned up (ArkQueryVectorAdapter._post).
THEOREM PoolIsLargeEnough == Spec => []AdmittedFindsAConnection
<1>1. Inv => AdmittedFindsAConnection
  BY ConnectionLeft DEF AdmittedFindsAConnection
<1> QED
  BY <1>1, Inductive, PTL

\* A service that says started has all it needs, a start that failed leaves no thread, and
\* the shutdown closes everything whatever raises on the way (lifespan).
THEOREM ResourcesKeepToTheLifecycle == Spec => []ResourcesFollowTheLifecycle
<1>1. Inv => ResourcesFollowTheLifecycle
  BY NamesAre
     DEF Inv, LifecycleInv, ResourcesFollowTheLifecycle, StartedMeansServing,
         FailedStartLeavesNoThread, EverythingIsClosed
<1> QED
  BY <1>1, Inductive, PTL

-----------------------------------------------------------------------------
(* The requests for vectors and the connections, as limiters *)

\* A step that is no worker's leaves both sets of holders alone.
LEMMA OnlyWorkersMove ==
  ASSUME [Next]_vars, ~ VectorStep
  PROVE  Calling' = Calling /\ Connected' = Connected
<1>1. CASE StartUp
  <2>1. UNCHANGED <<call, post>>
    BY <1>1 DEF StartUp, Build, BuildFails, MarkStarted, StartLoop, vectorVars
  <2> QED
    BY <2>1 DEF Calling, Connected
<1>2. CASE \/ \E c \in Callers, force \in BOOLEAN : AskProbe(c, force)
           \/ ProbeStep \/ BeginShutdown \/ UNCHANGED vars
  <2>1. UNCHANGED <<call, post>>
    BY <1>2 DEF AskProbe, ProbeStep, BeginShutdown, vars, vectorVars
  <2> QED
    BY <2>1 DEF Calling, Connected
<1>3. CASE Shutdown
  <2>1. UNCHANGED <<call, post>>
    BY <1>3 DEF Shutdown, CloseResource, CloseVector, CloseAdapter, StopLoop, Unpublish,
                vectorVars
  <2> QED
    BY <2>1 DEF Calling, Connected
<1> QED
  BY <1>1, <1>2, <1>3 DEF Next

\* A request enters and leaves generate.
LEMMA CallingStep ==
  ASSUME Inv, [Next]_vars
  PROVE  [VectorSlots!Next]_Calling
<1> USE DEF Inv, VectorInv, VectorTypeOK
<1>1. ASSUME NEW w \in Workers, Generate(w) PROVE VectorSlots!Next
  <2>1. w \notin Calling /\ Cardinality(Calling) < MaxConnections /\ Calling' = Calling \cup {w}
    BY <1>1 DEF Generate, Calling
  <2> QED
    BY <2>1 DEF VectorSlots!Next, VectorSlots!Take, VectorSlots!Cardinality, Cardinality
<1>2. ASSUME NEW w \in Workers, call[w] # "idle",
             \/ UNCHANGED call
             \/ \E stage \in {"idle", "waiting"} : call' = [call EXCEPT ![w] = stage]
      PROVE  [VectorSlots!Next]_Calling
  <2>1. Calling' = Calling \/ (w \in Calling /\ Calling' = Calling \ {w})
    BY <1>2 DEF Calling
  <2> QED
    BY <2>1 DEF VectorSlots!Next, VectorSlots!Give
<1>3. ASSUME NEW w \in Workers, PostStep(w) \/ AnswerPost(w) \/ Expire(w)
      PROVE  Calling' = Calling
  BY <1>3 DEF PostStep, BeginPost, TimeOutPost, CleanUp, AnswerPost, EndPost, Expire, Calling
<1>4. ASSUME NEW w \in Workers, SubmitPost(w) \/ Resume(w)
      PROVE  [VectorSlots!Next]_Calling
  <2>1. /\ call[w] # "idle"
        /\ \E stage \in {"idle", "waiting"} : call' = [call EXCEPT ![w] = stage]
    BY <1>4 DEF SubmitPost, Resume
  <2> QED
    BY <1>2, <2>1
<1> QED
  BY <1>1, <1>3, <1>4, OnlyWorkersMove DEF VectorStep

\* A request takes a connection when it starts, and keeps it while it is cancelled.
LEMMA ConnectedStep ==
  ASSUME Inv, [Next]_vars
  PROVE  [ConnectionSlots!Next]_Connected
<1> USE DEF Inv, VectorInv, VectorTypeOK
<1>1. ASSUME NEW w \in Workers, BeginPost(w) PROVE [ConnectionSlots!Next]_Connected
  <2>1. CASE w \in late
    <3>1. Connected' = Connected
      BY <1>1, <2>1 DEF BeginPost, EndPost, Connected
    <3> QED
      BY <3>1
  <2>2. CASE w \notin late
    <3>1. w \notin Connected /\ Connected' = Connected \cup {w}
      BY <1>1, <2>2 DEF BeginPost, Connected
    <3>2. Cardinality(Connected) < MaxConnections
      BY <1>1, ConnectionLeft DEF BeginPost
    <3> QED
      BY <3>1, <3>2
         DEF ConnectionSlots!Next, ConnectionSlots!Take, ConnectionSlots!Cardinality, Cardinality
  <2> QED
    BY <2>1, <2>2
<1>2. ASSUME NEW w \in Workers, AnswerPost(w) \/ CleanUp(w) PROVE ConnectionSlots!Next
  <2>1. w \in Connected /\ Connected' = Connected \ {w}
    BY <1>2 DEF AnswerPost, CleanUp, EndPost, Connected
  <2> QED
    BY <2>1 DEF ConnectionSlots!Next, ConnectionSlots!Give
<1>3. ASSUME NEW w \in Workers,
             Generate(w) \/ SubmitPost(w) \/ TimeOutPost(w) \/ Resume(w) \/ Expire(w)
      PROVE  Connected' = Connected
  BY <1>3 DEF Generate, SubmitPost, TimeOutPost, Resume, Expire, Connected
<1> QED
  BY <1>1, <1>2, <1>3, OnlyWorkersMove DEF VectorStep, PostStep

\* The requests in generate come and go as a limiter of the heavy bulkhead's capacity lets
\* them, which is what module Bulkhead implements; and the connections are given out as
\* another one would, though nothing in the adapter counts them (_post, wait_for).
THEOREM VectorsAreLimited == Spec => VectorsHoldSlots
<1>1. Init => VectorSlots!Init /\ ConnectionSlots!Init
  BY DEF Init, VectorInit, Calling, Connected, VectorSlots!Init, ConnectionSlots!Init
<1>2. Inv /\ [Next]_vars => [VectorSlots!Next]_Calling /\ [ConnectionSlots!Next]_Connected
  BY CallingStep, ConnectedStep
<1> QED
  BY <1>1, <1>2, Inductive, PTL
     DEF Spec, VectorsHoldSlots, VectorSlots!Spec, ConnectionSlots!Spec
=============================================================================
