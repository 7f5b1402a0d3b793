-------------------------- MODULE DeadlineConnection --------------------------
(***************************************************************************)
(* The connections of the OpenSearch client: name resolution, connecting,  *)
(* sending and reading under one absolute deadline, none of which the      *)
(* blocking calls below can be trusted to respect.                         *)
(*                                                                         *)
(* An exchange of a thread runs two phases on its connection, request and  *)
(* response.  A phase arms a timer thread that shuts the socket when the   *)
(* deadline passes, and ends by cancelling and joining it.  The request    *)
(* phase of a connection without socket resolves the host in a daemon      *)
(* thread, of which a semaphore allows ResolverSlots at a time, and which  *)
(* a caller past its deadline leaves behind.                               *)
(*                                                                         *)
(* The deadline of an exchange passes at any moment (Expire).  TLS is left *)
(* out: its handshake is a phase of the same kind inside the request.      *)
(***************************************************************************)
EXTENDS Naturals, FiniteSets

CONSTANTS
    Threads,
    ResolverSlots       \* _DNS_RESOLVER_WORKERS

ASSUME ResolverAssumption == ResolverSlots \in Nat \ {0} /\ IsFiniteSet(Threads)

VARIABLES
    slots,      \* _DNS_RESOLVER_SLOTS
    orphans,    \* resolver threads nobody waits for any more
    worker,     \* of each thread: the resolver thread it waits for
    sock,       \* of each thread: the socket of its connection
    phase, at,  \* of each thread: where it is
    late,       \* of each thread: its deadline has passed
    timer,      \* of each thread: the timer of its phase
    target,     \* of each thread: its timer saw the present socket
    expired,    \* of each thread: the event its timer sets
    result      \* of each thread: what its exchange, or its phase, came to

resolver == <<slots, orphans, worker>>
timers == <<timer, target, expired>>
vars == <<resolver, sock, phase, at, late, timers, result>>

Goto(t, stage) == at' = [at EXCEPT ![t] = stage]

TypeOK ==
    /\ slots \in 0..ResolverSlots
    /\ orphans \in 0..ResolverSlots
    /\ worker \in [Threads -> {"none", "running", "resolved", "failed"}]
    /\ sock \in [Threads -> {"none", "open", "shut"}]
    /\ phase \in [Threads -> {"none", "request", "response"}]
    /\ at \in [Threads -> {"idle", "begin", "slot", "start", "resolving", "addresses", "dial",
                           "connecting", "talking", "returned", "raised", "check", "final"}]
    /\ late \in [Threads -> BOOLEAN]
    /\ timer \in [Threads -> {"off", "armed", "firing", "fired"}]
    /\ target \in [Threads -> BOOLEAN]
    /\ expired \in [Threads -> BOOLEAN]
    /\ result \in [Threads -> {"none", "ok", "error", "timeout"}]

Init ==
    /\ slots = ResolverSlots
    /\ orphans = 0
    /\ worker = [t \in Threads |-> "none"]
    /\ sock = [t \in Threads |-> "none"]
    /\ phase = [t \in Threads |-> "none"]
    /\ at = [t \in Threads |-> "idle"]
    /\ late = [t \in Threads |-> FALSE]
    /\ timer = [t \in Threads |-> "off"]
    /\ target = [t \in Threads |-> FALSE]
    /\ expired = [t \in Threads |-> FALSE]
    /\ result = [t \in Threads |-> "none"]

-----------------------------------------------------------------------------
(* The exchange, as urllib3 drives it *)

\* A thread takes its connection, with or without a socket, out of the pool.
Start(t) ==
    /\ at[t] = "idle"
    /\ phase' = [phase EXCEPT ![t] = "request"]
    /\ late' = [late EXCEPT ![t] = FALSE]
    /\ result' = [result EXCEPT ![t] = "none"]
    /\ Goto(t, "begin")
    /\ UNCHANGED <<resolver, sock, timers>>

Expire(t) ==
    /\ at[t] # "idle"
    /\ ~ late[t]
    /\ late' = [late EXCEPT ![t] = TRUE]
    /\ UNCHANGED <<resolver, sock, phase, at, timers, result>>

\* The exchange raises: the connection is closed and dropped.
Abandon(t, what) ==
    /\ result' = [result EXCEPT ![t] = what]
    /\ sock' = [sock EXCEPT ![t] = "none"]
    /\ phase' = [phase EXCEPT ![t] = "none"]
    /\ Goto(t, "idle")

\* The server closes a connection that waits in the pool.
Drop(t) ==
    /\ at[t] = "idle"
    /\ sock[t] = "open"
    /\ sock' = [sock EXCEPT ![t] = "none"]
    /\ UNCHANGED <<resolver, phase, at, late, timers, result>>

-----------------------------------------------------------------------------
(* _run_with_deadline *)

TooLate(t) ==
    /\ at[t] = "begin"
    /\ late[t]
    /\ Abandon(t, "timeout")
    /\ UNCHANGED <<resolver, late, timers>>

Begin(t) ==
    /\ at[t] = "begin"
    /\ ~ late[t]
    /\ timer' = [timer EXCEPT ![t] = "armed"]
    /\ target' = [target EXCEPT ![t] = FALSE]
    /\ expired' = [expired EXCEPT ![t] = FALSE]
    /\ Goto(t, IF phase[t] = "request" /\ sock[t] = "none" THEN "slot" ELSE "talking")
    /\ UNCHANGED <<resolver, sock, phase, late, result>>

\* The timer thread: it sets the event and looks at the sockets ...
Fire(t) ==
    /\ timer[t] = "armed"
    /\ late[t]
    /\ timer' = [timer EXCEPT ![t] = "firing"]
    /\ expired' = [expired EXCEPT ![t] = TRUE]
    /\ target' = [target EXCEPT ![t] = sock[t] # "none"]
    /\ UNCHANGED <<resolver, sock, phase, at, late, result>>

\* ... and then shuts those it saw.
Abort(t) ==
    /\ timer[t] = "firing"
    /\ timer' = [timer EXCEPT ![t] = "fired"]
    /\ sock' = [sock EXCEPT ![t] = IF target[t] /\ @ # "none" THEN "shut" ELSE @]
    /\ UNCHANGED <<resolver, phase, at, late, target, expired, result>>

\* The callback raises: past the deadline that is a timeout, and the socket is
\* shut by the thread itself.
Fail(t) ==
    /\ Goto(t, "raised")
    /\ IF expired[t] \/ late[t]
       THEN /\ result' = [result EXCEPT ![t] = "timeout"]
            /\ expired' = [expired EXCEPT ![t] = TRUE]
            /\ sock' = [sock EXCEPT ![t] = IF @ = "none" THEN @ ELSE "shut"]
       ELSE /\ result' = [result EXCEPT ![t] = "error"]
            /\ UNCHANGED <<expired, sock>>
    /\ UNCHANGED <<phase, late, timer>>

\* Mutant: a phase that ends well leaves its timer running.
EndTimerOnFailure(t) ==
    /\ at[t] \in {"returned", "raised"}
    /\ timer[t] # "firing"
    /\ timer' = [timer EXCEPT ![t] = IF at[t] = "raised" THEN "off" ELSE @]
    /\ IF at[t] = "raised"
       THEN Abandon(t, result[t])
       ELSE Goto(t, "check") /\ UNCHANGED <<result, sock, phase>>
    /\ UNCHANGED <<resolver, late, target, expired>>

\* Whether the callback returned or raised, the timer is cancelled and joined: one
\* that has begun to fire is waited for.
EndTimer(t) ==
    /\ at[t] \in {"returned", "raised"}
    /\ timer[t] # "firing"
    /\ timer' = [timer EXCEPT ![t] = "off"]
    /\ IF at[t] = "raised"
       THEN Abandon(t, result[t])
       ELSE Goto(t, "check") /\ UNCHANGED <<result, sock, phase>>
    /\ UNCHANGED <<resolver, late, target, expired>>

\* What the callback returned counts only before the deadline.
Check(t) ==
    /\ at[t] = "check"
    /\ IF expired[t] \/ late[t]
       THEN Abandon(t, "timeout")
       ELSE /\ phase' = [phase EXCEPT ![t] = "response"]
            /\ Goto(t, IF phase[t] = "request" THEN "begin" ELSE "final")
            /\ UNCHANGED <<result, sock>>
    /\ UNCHANGED <<resolver, late, timers>>

\* getresponse looks at the clock once more; then the connection is back in
\* the pool with its socket.
Deliver(t) ==
    /\ at[t] = "final"
    /\ IF late[t]
       THEN Abandon(t, "timeout")
       ELSE /\ result' = [result EXCEPT ![t] = "ok"]
            /\ phase' = [phase EXCEPT ![t] = "none"]
            /\ Goto(t, "idle")
            /\ UNCHANGED sock
    /\ UNCHANGED <<resolver, late, timers>>

-----------------------------------------------------------------------------
(* _resolve_addresses *)

TakeSlot(t) ==
    /\ at[t] = "slot"
    /\ slots > 0
    /\ slots' = slots - 1
    /\ Goto(t, "start")
    /\ UNCHANGED <<orphans, worker, sock, phase, late, timers, result>>

MissSlot(t) ==
    /\ at[t] = "slot"
    /\ late[t]
    /\ Fail(t)
    /\ UNCHANGED <<resolver, target>>

StartWorker(t) ==
    /\ at[t] = "start"
    /\ worker' = [worker EXCEPT ![t] = "running"]
    /\ Goto(t, "resolving")
    /\ UNCHANGED <<slots, orphans, sock, phase, late, timers, result>>

\* Mutant: the slot of a thread that cannot be started is lost.
StartFailsKeepingSlot(t) ==
    /\ at[t] = "start"
    /\ Fail(t)
    /\ UNCHANGED <<resolver, target>>

StartFails(t) ==
    /\ at[t] = "start"
    /\ slots' = slots + 1
    /\ Fail(t)
    /\ UNCHANGED <<orphans, worker, target>>

\* getaddrinfo returns, if it ever does; the worker releases its slot.
WorkerEnds(t) ==
    /\ worker[t] = "running"
    /\ \E what \in {"resolved", "failed"} : worker' = [worker EXCEPT ![t] = what]
    /\ slots' = slots + 1
    /\ UNCHANGED <<orphans, sock, phase, at, late, timers, result>>

OrphanEnds ==
    /\ orphans > 0
    /\ orphans' = orphans - 1
    /\ slots' = slots + 1
    /\ UNCHANGED <<worker, sock, phase, at, late, timers, result>>

Resolved(t) ==
    /\ at[t] = "resolving"
    /\ worker[t] = "resolved"
    /\ worker' = [worker EXCEPT ![t] = "none"]
    /\ Goto(t, "addresses")
    /\ UNCHANGED <<slots, orphans, sock, phase, late, timers, result>>

Unresolved(t) ==
    /\ at[t] = "resolving"
    /\ worker[t] = "failed"
    /\ worker' = [worker EXCEPT ![t] = "none"]
    /\ Fail(t)
    /\ UNCHANGED <<slots, orphans, target>>

\* Mutant: the caller waits for the resolver without a limit.
LeaveEndedWorker(t) ==
    /\ at[t] = "resolving"
    /\ late[t]
    /\ worker[t] # "running"
    /\ worker' = [worker EXCEPT ![t] = "none"]
    /\ Fail(t)
    /\ UNCHANGED <<slots, orphans, target>>

\* The caller leaves; a worker that still runs keeps its slot until it ends.
LeaveWorker(t) ==
    /\ at[t] = "resolving"
    /\ late[t]
    /\ orphans' = IF worker[t] = "running" THEN orphans + 1 ELSE orphans
    /\ worker' = [worker EXCEPT ![t] = "none"]
    /\ Fail(t)
    /\ UNCHANGED <<slots, target>>

-----------------------------------------------------------------------------
(* _new_conn, and the conversation *)

\* The loop over the addresses checks the clock before it makes a socket.
NextAddress(t) ==
    /\ at[t] = "addresses"
    /\ ~ late[t]
    /\ Goto(t, "dial")
    /\ UNCHANGED <<resolver, sock, phase, late, timers, result>>

NoTimeForAddress(t) ==
    /\ at[t] = "addresses"
    /\ late[t]
    /\ Fail(t)
    /\ UNCHANGED <<resolver, target>>

Dial(t) ==
    /\ at[t] = "dial"
    /\ sock' = [sock EXCEPT ![t] = "open"]
    /\ Goto(t, "connecting")
    /\ UNCHANGED <<resolver, phase, late, timers, result>>

Connected(t) ==
    /\ at[t] = "connecting"
    /\ sock[t] = "open"
    /\ Goto(t, "talking")
    /\ UNCHANGED <<resolver, sock, phase, late, timers, result>>

\* The socket is closed and forgotten, so that the timer's is another one.
TryNext(t) ==
    /\ at[t] = "connecting"
    /\ sock' = [sock EXCEPT ![t] = "none"]
    /\ target' = [target EXCEPT ![t] = FALSE]
    /\ Goto(t, "addresses")
    /\ UNCHANGED <<resolver, phase, late, timer, expired, result>>

\* The last address failed, or the socket's own timeout ended the connect.
ConnectFails(t) ==
    /\ at[t] = "connecting"
    /\ Goto(t, "raised")
    /\ sock' = [sock EXCEPT ![t] = "none"]
    /\ target' = [target EXCEPT ![t] = FALSE]
    /\ expired' = [expired EXCEPT ![t] = @ \/ late[t]]
    /\ result' = [result EXCEPT ![t] = IF expired[t] \/ late[t] THEN "timeout" ELSE "error"]
    /\ UNCHANGED <<resolver, phase, late, timer>>

\* The request is sent, or the response is read.
Talk(t) ==
    /\ at[t] = "talking"
    /\ sock[t] = "open"
    /\ Goto(t, "returned")
    /\ UNCHANGED <<resolver, sock, phase, late, timers, result>>

TalkFails(t) ==
    /\ at[t] = "talking"
    /\ Fail(t)
    /\ UNCHANGED <<resolver, target>>

-----------------------------------------------------------------------------
\* What a thread does by itself, without the server or the resolver.
Own(t) ==
    \/ TooLate(t) \/ Begin(t) \/ EndTimer(t) \/ Check(t) \/ Deliver(t)
    \/ TakeSlot(t) \/ MissSlot(t) \/ StartWorker(t) \/ StartFails(t)
    \/ Resolved(t) \/ Unresolved(t) \/ LeaveWorker(t)
    \/ NextAddress(t) \/ NoTimeForAddress(t) \/ Dial(t)

Network(t) ==
    \/ Connected(t) \/ TryNext(t) \/ ConnectFails(t) \/ Talk(t) \/ TalkFails(t)
    \/ WorkerEnds(t) \/ Drop(t)

Next ==
    \/ OrphanEnds
    \/ \E t \in Threads : Start(t) \/ Expire(t) \/ Fire(t) \/ Abort(t) \/ Own(t) \/ Network(t)

Spec == Init /\ [][Next]_vars

\* The socket was made between a check of the clock and the timer's look.
Missed(t) == timer[t] = "fired" /\ ~ target[t]

\* Threads and timers run and time passes.  A call on a socket that was shut
\* fails, and so it does on one the timer missed, by the timeout that _new_conn
\* gave it.
\* Nothing is assumed of getaddrinfo or the server.
FairSpec ==
    /\ Spec
    /\ \A t \in Threads :
          /\ WF_vars(Own(t)) /\ WF_vars(Expire(t)) /\ WF_vars(Fire(t)) /\ WF_vars(Abort(t))
          /\ WF_vars((sock[t] = "shut" \/ Missed(t)) /\ TalkFails(t))
          /\ WF_vars(late[t] /\ ConnectFails(t))

-----------------------------------------------------------------------------
(* Correctness *)

\* Every slot of the resolver belongs to a thread that is to start a worker, to
\* a worker somebody waits for, or to an orphan: neither timeouts nor failed
\* starts lose or double one, and so there are never more resolver threads
\* than slots (_resolve_addresses).
SlotHolders == {t \in Threads : at[t] = "start" \/ worker[t] = "running"}
ResolverSlotsAreConserved == slots + orphans + Cardinality(SlotHolders) = ResolverSlots

\* A socket that goes back to the pool belongs to an exchange that ended well,
\* and no timer is left that could shut it under the next one
\* (_run_with_deadline).
PooledSocketIsSafe ==
    \A t \in Threads : at[t] = "idle" =>
        /\ timer[t] = "off"
        /\ sock[t] # "none" => sock[t] = "open" /\ result[t] = "ok"

\* An exchange ends although the resolver hangs with all its slots taken or
\* the server never answers.
EveryExchangeEnds == \A t \in Threads : at[t] = "begin" ~> at[t] = "idle"

=============================================================================
