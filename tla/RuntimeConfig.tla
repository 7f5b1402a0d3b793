---------------------------- MODULE RuntimeConfig ----------------------------
(***************************************************************************)
(* The runtime configuration control plane of one service process:         *)
(* RuntimeConfigProvider (the pointer to the live snapshot and to the one  *)
(* a manual rollback would restore), RuntimeConfigController (apply and    *)
(* rollback, one at a time under an asyncio.Lock), and the SQLite store    *)
(* that outlives the process (drafts, version rows, operation rows and     *)
(* their append-only events).                                              *)
(*                                                                         *)
(* A step of the specification is what a coroutine does between two        *)
(* awaits, together with the store call the first of them was waiting for. *)
(* A caller may be cancelled at any await.  Everywhere but in the wait for *)
(* the lock and in the verification the await is protected: it finishes    *)
(* first and the cancellation is raised after it, so the cancellation is   *)
(* an alternative outcome of the step.                                     *)
(*                                                                         *)
(* A version is a fresh number (the code: a hash over a random nonce); 0   *)
(* is the deployment baseline, whose version is its content fingerprint    *)
(* and is therefore the same in every process with these settings.  An     *)
(* operation is named by the idempotency key it was reserved under, which  *)
(* the store keeps unique.                                                 *)
(***************************************************************************)
EXTENDS Naturals, Sequences

CONSTANTS
    Callers,         \* concurrent administrator requests
    IdemKeys,        \* idempotency keys
    Drafts,          \* draft identifiers
    Levels,          \* values a parameter may take
    BaselineValues,  \* the values the process is deployed with
    Patches,         \* candidate values a draft may carry (partial functions)
    Nil              \* absent

Params == {"timeout", "deadline", "capacity"}
HotParams == {"timeout", "deadline"}
Values == [Params -> Levels]
Patch == UNION {[D -> Levels] : D \in SUBSET Params}

\* What a caller may ask for, naming versions that are among those in V.
RequestsNaming(V) ==
    [kind : {"apply"}, key : IdemKeys, expected : V, arg : Drafts]
      \cup
    [kind : {"rollback"}, key : IdemKeys, expected : V, arg : V]

ASSUME ConstantsAssumption ==
    /\ Levels \subseteq Nat
    /\ BaselineValues \in Values
    /\ Patches \subseteq Patch
    /\ Nil \notin Nat
    /\ Nil \notin IdemKeys
    /\ Nil \notin RequestsNaming(Nat)

VARIABLES
    current,         \* RuntimeConfigProvider._current
    previous,        \* RuntimeConfigProvider._previous
    minted,          \* number of versions minted so far
    values,          \* what each version holds; a snapshot is immutable
    recentMutation,  \* _last_mutation_at lies within the cooldown
    queue,           \* the controller's lock: its head holds it, the rest wait
    pc, call, reply, \* of each caller's coroutine
    frame,           \* local variables of the coroutine that holds the lock
    versionRows,     \* table config_runtime_versions
    drafts,          \* table config_change_drafts, and drafts being created
    opRows,          \* table config_runtime_operation_requests
    opEvents         \* table config_runtime_operation_events, per operation

provider == <<current, previous>>
versions == <<minted, values>>
store == <<versionRows, drafts, opRows, opEvents>>
vars == <<current, previous, minted, values, recentMutation, queue, pc, call,
          reply, frame, versionRows, drafts, opRows, opEvents>>

Baseline == 0
Versions == 0..minted

-----------------------------------------------------------------------------
(* Drafts and their validation. *)

Overlay(base, patch) ==
    [p \in Params |-> IF p \in DOMAIN patch THEN patch[p] ELSE base[p]]

\* The relation between the dependency parameters, which no single parameter
\* can keep: the dependency timeout must fit in the request deadline.
Consistent(v) == v["timeout"] <= v["deadline"]

\* Mutant: each value is checked alone, not the values together.
ValidatedAlone(patch, base) == \A p \in DOMAIN patch : patch[p] # base[p]

Validated(patch, base) ==
    /\ \A p \in DOMAIN patch : patch[p] # base[p]
    /\ (DOMAIN patch \cap HotParams # {}) => Consistent(Overlay(base, patch))

Draft(phase, base, patch, status) ==
    [phase |-> phase, base |-> base, patch |-> patch, status |-> status]

NoDraft == Draft("none", Nil, Nil, "none")

\* Every changed parameter is reloadable at runtime, and there is one.
HotOnly(d) ==
    /\ DOMAIN drafts[d].patch # {}
    /\ DOMAIN drafts[d].patch \subseteq HotParams

-----------------------------------------------------------------------------
(* The lock, the coroutine of a caller, and what the caller is told. *)

Frame(cur, undo, new, swap, code, via) ==
    [cur |-> cur,     \* the version that was live when the operation began
     undo |-> undo,   \* the rollback pointer before the swap
     new |-> new,     \* the version that replaces cur
     swap |-> swap,   \* has the provider been changed, or changed back
     code |-> code, via |-> via]   \* the failure, if control left the try block

NoFrame == Frame(Nil, Nil, Nil, "none", "none", "none")

Holds(c) == queue # <<>> /\ Head(queue) = c
At(c, stage) == Holds(c) /\ pc[c] = stage
Goto(c, stage) == pc' = [pc EXCEPT ![c] = stage]
Key(c) == call[c].key

\* Mutant: an exit that does not release the lock.
AnswerHoldingLock(c, kind, op) ==
    /\ Goto(c, "replied")
    /\ reply' = [reply EXCEPT ![c] = [kind |-> kind, op |-> op]]
    /\ call' = [call EXCEPT ![c] = Nil]
    /\ frame' = NoFrame
    /\ UNCHANGED queue

\* Leave apply or rollback: the lock is released, its next waiter gets it.
Answer(c, kind, op) ==
    /\ Goto(c, "replied")
    /\ reply' = [reply EXCEPT ![c] = [kind |-> kind, op |-> op]]
    /\ call' = [call EXCEPT ![c] = Nil]
    /\ queue' = Tail(queue)
    /\ frame' = NoFrame

\* Control reaches an except clause of apply or rollback.  The swap is undone
\* first if it took place; either way a "failed" event ends the operation.
\* Of the failure codes only version_conflict is told apart: it decides what a
\* replay answers.
Abort(c, code, via) ==
    /\ Goto(c, IF frame.swap = "done" /\ current = frame.new
               THEN "restore" ELSE "auditFailure")
    /\ frame' = Frame(frame.cur, frame.undo, frame.new, frame.swap, code, via)
    /\ UNCHANGED <<queue, call, reply>>

Continue(c, stage) ==
    /\ Goto(c, stage)
    /\ UNCHANGED <<queue, call, reply, frame>>

-----------------------------------------------------------------------------
(* The operation tables. *)

Event(type, prev, cur, code) ==
    [type |-> type, prev |-> prev, cur |-> cur, code |-> code]
Successes == {"applied", "rolled_back"}
AppendEvent(k, e) == opEvents' = [opEvents EXCEPT ![k] = Append(@, e)]
Latest(k) == opEvents[k][Len(opEvents[k])]
Committed(k) == opRows[k] # Nil /\ Latest(k).type \in Successes

\* Mutant: a success is replayed whatever is live now.
RepeatRecordedKind(k) ==
    IF Latest(k).type \in Successes THEN "ok"
    ELSE IF Latest(k).code = "version_conflict" THEN "conflict" ELSE "error"

\* The outcome of a request whose key names an operation already.
RepeatKind(k) ==
    IF Latest(k).type \in Successes
    THEN IF Latest(k).cur = current THEN "ok" ELSE "conflict"
    ELSE IF Latest(k).code = "version_conflict" THEN "conflict" ELSE "error"

-----------------------------------------------------------------------------
Stages == {"idle", "lookup", "reserve", "loadDraft", "recordCurrent",
           "recordReplacement", "verify", "commit", "restore", "reverify",
           "auditFailure", "replied"}
Codes == {"none", "failed", "version_conflict"}
Replies == [kind : {"ok", "conflict", "error", "rate_limited", "cancelled"},
            op : IdemKeys \cup {Nil}]
Frames == [cur : Nat \cup {Nil}, undo : Nat \cup {Nil}, new : Nat \cup {Nil},
           swap : {"none", "done", "undone"}, code : Codes,
           via : {"none", "error", "cancelled"}]
Events == [type : {"started", "applied", "rolled_back", "failed"},
           prev : Nat \cup {Nil}, cur : Nat \cup {Nil}, code : Codes]

ProviderOK ==
    /\ minted \in Nat
    /\ values \in [Versions -> Values]
    /\ current \in Versions
    /\ previous \in Versions \cup {Nil}

CoroutinesOK ==
    /\ recentMutation \in BOOLEAN
    /\ queue \in Seq(Callers)
    /\ pc \in [Callers -> Stages]
    /\ call \in [Callers -> RequestsNaming(Nat) \cup {Nil}]
    /\ reply \in [Callers -> Replies \cup {Nil}]
    /\ frame \in Frames

StoreOK ==
    /\ versionRows \subseteq Nat \cup {Nil}
    /\ drafts \in [Drafts -> {NoDraft} \cup
                     [phase : {"pending", "stored"}, base : Versions,
                      patch : Patches, status : {"validated", "invalid"}]]
    /\ opRows \in [IdemKeys -> RequestsNaming(Nat) \cup {Nil}]
    /\ opEvents \in [IdemKeys -> Seq(Events)]

TypeOK == ProviderOK /\ CoroutinesOK /\ StoreOK

Init ==
    /\ current = Baseline
    /\ previous = Nil
    /\ minted = 0
    /\ values = [v \in {Baseline} |-> BaselineValues]
    /\ recentMutation = FALSE
    /\ queue = <<>>
    /\ pc = [c \in Callers |-> "idle"]
    /\ call = [c \in Callers |-> Nil]
    /\ reply = [c \in Callers |-> Nil]
    /\ frame = NoFrame
    /\ versionRows = {}
    /\ drafts = [d \in Drafts |-> NoDraft]
    /\ opRows = [k \in IdemKeys |-> Nil]
    /\ opEvents = [k \in IdemKeys |-> <<>>]

-----------------------------------------------------------------------------
(* POST config-drafts runs in a worker thread: it reads the live snapshot, *)
(* and stores the draft later, whatever became live meanwhile.             *)

ReadBaseline(d) ==
    /\ drafts[d].phase = "none"
    /\ \E patch \in Patches :
          drafts' = [drafts EXCEPT ![d] =
             Draft("pending", current, patch,
                   IF Validated(patch, values[current]) THEN "validated" ELSE "invalid")]
    /\ UNCHANGED <<provider, versions, recentMutation, queue, pc, call, reply,
                   frame, versionRows, opRows, opEvents>>

StoreDraft(d) ==
    /\ drafts[d].phase = "pending"
    /\ \/ drafts' = [drafts EXCEPT ![d] = Draft("stored", @.base, @.patch, @.status)]
       \/ drafts' = [drafts EXCEPT ![d] = NoDraft]     \* the store failed
    /\ UNCHANGED <<provider, versions, recentMutation, queue, pc, call, reply,
                   frame, versionRows, opRows, opEvents>>

-----------------------------------------------------------------------------
(* A caller's request. *)

Call(c) ==
    /\ pc[c] = "idle"
    /\ \E r \in RequestsNaming(Versions) : call' = [call EXCEPT ![c] = r]
    /\ Goto(c, "lookup")
    /\ queue' = Append(queue, c)
    /\ UNCHANGED <<provider, versions, recentMutation, reply, frame, store>>

\* Cancelled while waiting for the lock: nothing has happened yet.
CancelWaiting(c) ==
    /\ pc[c] = "lookup"
    /\ \E i \in 2..Len(queue) :
          /\ queue[i] = c
          /\ queue' = SubSeq(queue, 1, i - 1) \o SubSeq(queue, i + 1, Len(queue))
    /\ Goto(c, "replied")
    /\ call' = [call EXCEPT ![c] = Nil]
    /\ reply' = [reply EXCEPT ![c] = [kind |-> "cancelled", op |-> Nil]]
    /\ UNCHANGED <<provider, versions, recentMutation, frame, store>>

\* A success is answered with a list of the latest operations, one more read of
\* the store: if it fails, or the caller is cancelled in it, the caller is told
\* so although its operation is committed.
ListingFails(c) ==
    /\ pc[c] = "replied"
    /\ \E k \in IdemKeys, kind \in {"error", "cancelled"} :
          /\ reply[c] = [kind |-> "ok", op |-> k]
          /\ reply' = [reply EXCEPT ![c] = [kind |-> kind, op |-> k]]
    /\ UNCHANGED <<provider, versions, recentMutation, queue, pc, call, frame, store>>

\* The client has its answer.
Return(c) ==
    /\ pc[c] = "replied"
    /\ Goto(c, "idle")
    /\ reply' = [reply EXCEPT ![c] = Nil]
    /\ UNCHANGED <<provider, versions, recentMutation, queue, call, frame, store>>

-----------------------------------------------------------------------------
(* _reserve_or_replay *)

LookupFails(c) ==
    /\ At(c, "lookup")
    /\ \E kind \in {"error", "cancelled"} : Answer(c, kind, Nil)
    /\ UNCHANGED <<provider, versions, recentMutation, store>>

\* The key is known: replay its outcome, or refuse a different request.
LookupFinds(c) ==
    /\ At(c, "lookup")
    /\ opRows[Key(c)] # Nil
    /\ \/ Answer(c, IF opRows[Key(c)] = call[c]
                    THEN RepeatKind(Key(c)) ELSE "conflict", Key(c))
       \/ Answer(c, "cancelled", Key(c))
    /\ UNCHANGED <<provider, versions, recentMutation, store>>

\* Admission comes before any durable row.
LookupMisses(c) ==
    /\ At(c, "lookup")
    /\ opRows[Key(c)] = Nil
    /\ \/ /\ Answer(c, "cancelled", Nil)
          /\ UNCHANGED recentMutation
       \/ /\ recentMutation
          /\ Answer(c, "rate_limited", Nil)
          /\ UNCHANGED recentMutation
       \/ /\ ~ recentMutation
          /\ recentMutation' = TRUE
          /\ Continue(c, "reserve")
    /\ UNCHANGED <<provider, versions, store>>

ReserveFails(c) ==
    /\ At(c, "reserve")
    /\ \E kind \in {"error", "cancelled"} : Answer(c, kind, Nil)
    /\ UNCHANGED <<provider, versions, recentMutation, store>>

Mint(content) ==
    /\ minted' = minted + 1
    /\ values' = [v \in 0..minted + 1 |->
                     IF v = minted + 1 THEN content ELSE values[v]]

\* The request row and its "started" event, one transaction.  Only this
\* process inserts rows and it holds the lock, so the key is still unknown.
\* The code goes on to its first checks: both need the expected version to be
\* live, a rollback needs its target to be the rollback pointer.
Reserve(c) ==
    /\ At(c, "reserve")
    /\ opRows' = [opRows EXCEPT ![Key(c)] = call[c]]
    /\ AppendEvent(Key(c), Event("started", Nil, Nil, "none"))
    /\ LET r == call[c]
           refused == \/ r.expected # current
                      \/ r.kind = "rollback" /\ r.arg # previous
           Entered(new, code, via) == Frame(current, Nil, new, "none", code, via)
       IN \/ /\ frame' = Entered(Nil, "failed", "cancelled")
             /\ Goto(c, "auditFailure")
             /\ UNCHANGED versions
          \/ /\ refused
             /\ frame' = Entered(Nil, "version_conflict", "error")
             /\ Goto(c, "auditFailure")
             /\ UNCHANGED versions
          \/ /\ ~ refused
             /\ r.kind = "apply"
             /\ frame' = Entered(Nil, "none", "none")
             /\ Goto(c, "loadDraft")
             /\ UNCHANGED versions
          \/ /\ ~ refused
             /\ r.kind = "rollback"
             /\ Mint(values[previous])
             /\ frame' = Entered(minted + 1, "none", "none")
             /\ Goto(c, "recordCurrent")
    /\ UNCHANGED <<provider, recentMutation, queue, call, reply, versionRows, drafts>>

-----------------------------------------------------------------------------
(* apply and rollback, from the draft to the commit *)

\* Mutant: a cancellation leaves at once, as an unprotected await would.
InterruptAtOnce(c) == Answer(c, "cancelled", Key(c))

Interrupt(c) == Abort(c, "failed", "cancelled")
Fail(c) == Abort(c, "failed", "error")

\* Mutant: the draft's baseline is not compared.
AcceptableOnAnyBase(d, version) ==
    /\ drafts[d].phase = "stored"
    /\ drafts[d].status = "validated"
    /\ HotOnly(d)

Acceptable(d, version) ==
    /\ drafts[d].phase = "stored"
    /\ drafts[d].base = version
    /\ drafts[d].status = "validated"
    /\ HotOnly(d)

\* The draft is read after the expected version was checked.  It is refused as
\* expired (a version conflict) if another version was live when it was made
\* or its TTL, on the wall clock, has run out.
LoadDraft(c) ==
    LET d == call[c].arg IN
    /\ At(c, "loadDraft")
    /\ \/ /\ Acceptable(d, frame.cur)
          /\ Mint(Overlay(values[frame.cur], drafts[d].patch))
          /\ frame' = Frame(frame.cur, Nil, minted + 1, "none", "none", "none")
          /\ Goto(c, "recordCurrent")
          /\ UNCHANGED <<queue, call, reply>>
       \/ /\ drafts[d].phase = "stored"
          /\ Abort(c, "version_conflict", "error")
          /\ UNCHANGED versions
       \/ Fail(c) /\ UNCHANGED versions
       \/ Interrupt(c) /\ UNCHANGED versions
    /\ UNCHANGED <<provider, recentMutation, store>>

RecordCurrent(c) ==
    /\ At(c, "recordCurrent")
    /\ \/ /\ versionRows' = versionRows \cup {frame.cur}
          /\ Continue(c, "recordReplacement") \/ Interrupt(c)
       \/ /\ UNCHANGED versionRows
          /\ Fail(c) \/ Interrupt(c)
    /\ UNCHANGED <<provider, versions, recentMutation, drafts, opRows, opEvents>>

\* RuntimeConfigProvider.replace compares and swaps.  The comparison cannot
\* fail while the lock is held: a guard that is false would stop the caller.
Replace(expected, new) ==
    /\ current = expected
    /\ current' = new
    /\ previous' = current

\* Mutant: only the version that is replaced is recorded.
ReplaceUnrecorded(c) ==
    /\ At(c, "recordReplacement")
    /\ \/ /\ Replace(frame.cur, frame.new)
          /\ frame' = Frame(frame.cur, previous, frame.new, "done", "none", "none")
          /\ Goto(c, "verify")
          /\ UNCHANGED <<queue, call, reply>>
       \/ (Fail(c) \/ Interrupt(c)) /\ UNCHANGED provider
    /\ UNCHANGED <<versions, recentMutation, store>>

\* The second version row, and then without an await: remember the rollback
\* pointer, swap, read back, start the verification.
RecordReplacement(c) ==
    /\ At(c, "recordReplacement")
    /\ \/ /\ versionRows' = versionRows \cup {frame.new}
          /\ \/ /\ Replace(frame.cur, frame.new)
                /\ frame' = Frame(frame.cur, previous, frame.new, "done", "none", "none")
                /\ Goto(c, "verify")
                /\ UNCHANGED <<queue, call, reply>>
             \/ Interrupt(c) /\ UNCHANGED provider
       \/ /\ UNCHANGED <<versionRows, provider>>
          /\ Fail(c) \/ Interrupt(c)
    /\ UNCHANGED <<versions, recentMutation, drafts, opRows, opEvents>>

\* Lifecycle, repository and readiness together say yes or no.  The one await
\* of the operation that a cancellation interrupts at once.
Verify(c) ==
    /\ At(c, "verify")
    /\ \/ Continue(c, "commit")
       \/ Fail(c)
       \/ Interrupt(c)
    /\ UNCHANGED <<provider, versions, recentMutation, store>>

\* Mutant: a cancellation during the terminal write is taken for a failure.
CommitUnlessCancelled(c) ==
    /\ At(c, "commit")
    /\ \/ /\ AppendEvent(Key(c),
                Event(IF call[c].kind = "apply" THEN "applied" ELSE "rolled_back",
                      frame.cur, frame.new, "none"))
          /\ Answer(c, "ok", Key(c)) \/ Interrupt(c)
       \/ UNCHANGED opEvents /\ (Fail(c) \/ Interrupt(c))
    /\ UNCHANGED <<provider, versions, recentMutation, versionRows, drafts, opRows>>

\* The terminal event is the commit point: a cancellation that arrives while
\* it is being written does not undo it.
Commit(c) ==
    /\ At(c, "commit")
    /\ \/ /\ AppendEvent(Key(c),
                Event(IF call[c].kind = "apply" THEN "applied" ELSE "rolled_back",
                      frame.cur, frame.new, "none"))
          /\ \E kind \in {"ok", "cancelled"} : Answer(c, kind, Key(c))
       \/ /\ UNCHANGED opEvents
          /\ Fail(c) \/ Interrupt(c)
    /\ UNCHANGED <<provider, versions, recentMutation, versionRows, drafts, opRows>>

-----------------------------------------------------------------------------
(* _finish_failed_operation, in a task of its own: it cannot be cancelled *)

\* Mutant: the pointer of a manual rollback is not put back.
RestoreCurrentOnly(c) ==
    /\ At(c, "restore")
    /\ current' = frame.cur
    /\ previous' = Nil
    /\ frame' = Frame(frame.cur, frame.undo, frame.new, "undone", frame.code, frame.via)
    /\ Goto(c, "reverify")
    /\ UNCHANGED <<versions, recentMutation, queue, call, reply, store>>

\* RuntimeConfigProvider.restore compares as replace does, and as there the
\* comparison cannot fail while the lock is held; its failure would stop the
\* caller here, where the code audits a failed rollback.
Restore(c) ==
    /\ At(c, "restore")
    /\ current = frame.new
    /\ current' = frame.cur
    /\ previous' = frame.undo
    /\ frame' = Frame(frame.cur, frame.undo, frame.new, "undone", frame.code, frame.via)
    /\ Goto(c, "reverify")
    /\ UNCHANGED <<versions, recentMutation, queue, call, reply, store>>

\* The verification of the restored snapshot decides only which failure code
\* the audit gets.
Reverify(c) ==
    /\ At(c, "reverify")
    /\ Continue(c, "auditFailure")
    /\ UNCHANGED <<provider, versions, recentMutation, store>>

FailureKind == IF frame.code = "version_conflict" THEN "conflict" ELSE "error"

\* A swap that was undone reports a failed audit write to its caller; without
\* a swap the "started" event is left alone as the record of the operation.
\* A caller cancelled during the recovery of a failed operation gets a
\* cancellation that does not name the operation.
AuditFailure(c) ==
    /\ At(c, "auditFailure")
    /\ \/ AppendEvent(Key(c), Event("failed",
                IF frame.swap = "undone" THEN frame.new ELSE frame.cur,
                frame.cur, frame.code))
       \/ UNCHANGED opEvents
    /\ \/ frame.via = "cancelled" /\ Answer(c, "cancelled", Key(c))
       \/ frame.via = "error" /\ Answer(c, FailureKind, Key(c))
       \/ frame.via = "error" /\ Answer(c, "cancelled", Nil)
    /\ UNCHANGED <<provider, versions, recentMutation, versionRows, drafts, opRows>>

-----------------------------------------------------------------------------
(* The environment: time passes; the process dies and is started again with *)
(* the same settings, at any point, and the tables are all that is left.    *)

CoolDown ==
    /\ recentMutation
    /\ recentMutation' = FALSE
    /\ UNCHANGED <<provider, versions, queue, pc, call, reply, frame, store>>

Restart ==
    /\ current' = Baseline
    /\ previous' = Nil
    /\ recentMutation' = FALSE
    /\ queue' = <<>>
    /\ pc' = [c \in Callers |-> "idle"]
    /\ call' = [c \in Callers |-> Nil]
    /\ reply' = [c \in Callers |-> Nil]
    /\ frame' = NoFrame
    /\ drafts' = [d \in Drafts |->
                     IF drafts[d].phase = "stored" THEN drafts[d] ELSE NoDraft]
    /\ UNCHANGED <<versions, versionRows, opRows, opEvents>>

\* What a caller's coroutine does by itself.
Step(c) ==
    \/ LookupFails(c) \/ LookupFinds(c) \/ LookupMisses(c)
    \/ ReserveFails(c) \/ Reserve(c)
    \/ LoadDraft(c) \/ RecordCurrent(c) \/ RecordReplacement(c)
    \/ Verify(c) \/ Commit(c)
    \/ Restore(c) \/ Reverify(c) \/ AuditFailure(c)

Next ==
    \/ \E d \in Drafts : ReadBaseline(d) \/ StoreDraft(d)
    \/ \E c \in Callers : Call(c) \/ CancelWaiting(c) \/ Step(c)
                          \/ ListingFails(c) \/ Return(c)
    \/ CoolDown
    \/ Restart

Spec == Init /\ [][Next]_vars

\* Store calls are bounded by SQLite's busy timeout, the verification by the
\* timeout of the readiness check, and the event loop runs what is ready.
FairSpec == Spec /\ \A c \in Callers : WF_vars(Step(c))

-----------------------------------------------------------------------------
(* Correctness *)

\* Between the swap and the commit point the provider shows a version that
\* may still be taken back.
Provisional == frame.swap = "done"
CommittedLive == IF Provisional THEN frame.cur ELSE current
CommittedUndo == IF Provisional THEN frame.undo ELSE previous
CommittedVersions == {Baseline} \cup {Latest(k).cur : k \in {x \in IdemKeys : Committed(x)}}

\* Whatever fails, is cancelled or crashes, a version stays live after its
\* operation only if that operation's success is in the durable audit, and the
\* pointer of a manual rollback never names a version that was taken back
\* (_restore_after_failure and the except clauses of apply and rollback).
OnlyCommittedVersionsStayLive ==
    /\ CommittedLive \in CommittedVersions
    /\ CommittedUndo \in CommittedVersions \cup {Nil}

\* Both sides of a swap have their durable row before the pointer moves
\* (apply and rollback record them first), so the audit can always name the
\* live version and the one a rollback would restore.
RecordedBeforeLive ==
    current # Baseline =>
        /\ current \in versionRows
        /\ previous # Nil
        /\ previous \in versionRows

\* No lost update: an applied draft was computed from exactly the version it
\* replaced, however many drafts, applies, rollbacks and restarts lie between
\* its creation and its application (the expected-version check together with
\* the draft's baseline).
AppliedDraftSawWhatItReplaced ==
    \A k \in IdemKeys :
        (opRows[k] # Nil /\ Latest(k).type = "applied") =>
            LET d == opRows[k].arg
                e == Latest(k)
            IN /\ drafts[d].base = e.prev
               /\ opRows[k].expected = e.prev
               /\ values[e.cur] = Overlay(values[e.prev], drafts[d].patch)

\* No sequence of applies and rollbacks of drafts that were each validated on
\* their own makes the live values violate the relation between timeout and
\* deadline that the validation enforces, unless they are the deployed ones;
\* and a parameter that needs a restart never changes while the process runs.
LiveValuesSound ==
    /\ Consistent(values[current]) \/ values[current] = BaselineValues
    /\ values[current]["capacity"] = BaselineValues["capacity"]

\* The audit of an operation is "started" and then at most one outcome: a late
\* cancellation, a failed write or a retry never adds a second one.
OneOutcomePerOperation ==
    \A k \in IdemKeys :
        /\ opRows[k] # Nil <=> opEvents[k] # <<>>
        /\ Len(opEvents[k]) <= 2
        /\ \A i \in 1..Len(opEvents[k]) : opEvents[k][i].type = "started" <=> i = 1

\* A caller is told that its operation succeeded, by the original answer or by
\* a replay of its idempotency key, only at a moment when the version that
\* operation produced is the live one (_repeat_or_raise).
SuccessMeansLive ==
    [][\A c \in Callers :
          (pc[c] # "replied" /\ pc'[c] = "replied" /\ reply'[c].kind = "ok") =>
              \E k \in IdemKeys : /\ reply'[c].op = k
                                 /\ Committed(k)'
                                 /\ Latest(k).cur' = current']_vars

\* Every operation that was reserved ends with the configuration it found: seen
\* through the commit point, the control plane is an atomic ledger of versions.
Ledger == INSTANCE ConfigLedger WITH
    live <- CommittedLive,
    undo <- CommittedUndo,
    content <- [v \in CommittedVersions |-> values[v]],
    state <- [k \in IdemKeys |->
                IF opRows[k] = Nil THEN "free"
                ELSE IF Latest(k).type = "started" THEN "open" ELSE "closed"]

LedgerSpec == Ledger!Spec

\* Every call is answered: the lock is always handed on, through failures,
\* cancellations and the recovery, which no cancellation can interrupt.
CallsAreAnswered == \A c \in Callers : pc[c] = "lookup" ~> pc[c] \in {"replied", "idle"}

=============================================================================
