------------------------- MODULE RuntimeConfigProofs -------------------------
(***************************************************************************)
(* What TLAPS proves of RuntimeConfig, for every set of callers, keys,     *)
(* drafts, levels and patches.  The invariants the runs check are not      *)
(* inductive: they say nothing of the coroutine between two awaits.  What  *)
(* they need is said here of the holder of the lock, stage by stage.       *)
(***************************************************************************)
EXTENDS RuntimeConfig, SequenceTheorems, TLAPS

\* Stages in which the operation of the caller has its row.
Running == {"loadDraft", "recordCurrent", "recordReplacement", "verify",
            "commit", "restore", "reverify", "auditFailure"}

\* Stages that only the holder of the lock reaches.
Working == {"reserve"} \cup Running

\* Stages between the swap and its commit or its undoing.
Swapped == {"verify", "commit", "restore"}

\* Stages that still lead to a commit and have a version to commit.
Minted == {"recordCurrent", "recordReplacement", "verify", "commit"}

\* One coroutine at a time is past the lookup, and it knows its request.
LockInv ==
    \A c \in Callers :
        /\ pc[c] \in Working => Holds(c)
        /\ pc[c] \in Working \cup {"lookup"} => call[c] \in RequestsNaming(Nat)

\* The local variables say where the provider stands.
FrameInv ==
    /\ (\A c \in Callers : pc[c] \notin Running) => frame = NoFrame
    /\ \A c \in Callers : pc[c] \in Running =>
          /\ frame.cur \in Versions
          /\ frame.swap = "done" <=> pc[c] \in Swapped
          /\ pc[c] \in Swapped => /\ current = frame.new
                                  /\ previous = frame.cur
                                  /\ frame.undo \in Versions \cup {Nil}
          /\ pc[c] \notin Swapped => current = frame.cur
          /\ pc[c] \in Minted => frame.new \in Versions
          /\ pc[c] = "loadDraft" => call[c].kind = "apply"

\* The audit of an operation follows its coroutine.
AuditInv ==
    /\ OneOutcomePerOperation
    /\ \A c \in Callers :
          /\ pc[c] = "reserve" => opRows[Key(c)] = Nil
          /\ pc[c] \in Running => /\ opRows[Key(c)] = call[c]
                                  /\ Len(opEvents[Key(c)]) = 1

\* Whatever a draft was validated against, every version keeps the relation.
SoundVersion(v) ==
    /\ Consistent(values[v]) \/ values[v] = BaselineValues
    /\ values[v]["capacity"] = BaselineValues["capacity"]

ValuesInv ==
    /\ \A v \in Versions : SoundVersion(v)
    /\ \A d \in Drafts : (drafts[d].status = "validated") =>
          Validated(drafts[d].patch, values[drafts[d].base])

\* The draft an apply works on is the one it loaded, made on the live version.
Derived(d, from, to) ==
    /\ drafts[d].phase = "stored"
    /\ drafts[d].base = from
    /\ values[to] = Overlay(values[from], drafts[d].patch)

BaseInv ==
    /\ \A k \in IdemKeys :
          (opRows[k] # Nil /\ Latest(k).type = "applied") =>
              /\ opRows[k].kind = "apply"
              /\ opRows[k].expected = Latest(k).prev
              /\ Latest(k).prev \in Versions
              /\ Latest(k).cur \in Versions
              /\ opRows[k].arg \in Drafts
              /\ Derived(opRows[k].arg, Latest(k).prev, Latest(k).cur)
    /\ \A c \in Callers :
          /\ pc[c] = "loadDraft" => call[c].expected = frame.cur
          /\ (pc[c] \in Minted /\ call[c].kind = "apply") =>
                /\ call[c].expected = frame.cur
                /\ Derived(call[c].arg, frame.cur, frame.new)

-----------------------------------------------------------------------------
LEMMA InitType == Init => TypeOK
<1> SUFFICES ASSUME Init PROVE TypeOK
  OBVIOUS
<1>1. ProviderOK
  <2>1. Versions = {0} /\ values \in [{0} -> Values]
    BY ConstantsAssumption DEF Init, Versions, Baseline
  <2> QED
    BY <2>1 DEF Init, ProviderOK, Baseline
<1>2. CoroutinesOK
  <2>1. frame \in Frames
    BY DEF Init, NoFrame, Frame, Frames, Codes
  <2>2. queue \in Seq(Callers)
    BY EmptySeq DEF Init
  <2> QED
    BY <2>1, <2>2 DEF Init, CoroutinesOK, Stages
<1>3. StoreOK
  <2>1. opEvents \in [IdemKeys -> Seq(Events)]
    BY DEF Init
  <2> QED
    BY <2>1 DEF Init, StoreOK
<1> QED
  BY <1>1, <1>2, <1>3 DEF TypeOK

\* Leaving apply or rollback keeps the types of the coroutines.
LEMMA AnswerType ==
  ASSUME CoroutinesOK, recentMutation' \in BOOLEAN,
         NEW c \in Callers, Holds(c),
         NEW kind \in {"ok", "conflict", "error", "rate_limited", "cancelled"},
         NEW op \in IdemKeys \cup {Nil},
         Answer(c, kind, op)
  PROVE  CoroutinesOK'
<1>1. queue' \in Seq(Callers)
  BY HeadTailProperties DEF Answer, Holds, CoroutinesOK
<1>2. frame' \in Frames
  BY DEF Answer, NoFrame, Frame, Frames, Codes
<1> QED
  BY <1>1, <1>2 DEF Answer, Goto, CoroutinesOK, Stages, Replies

\* So does entering an except clause.
LEMMA AbortType ==
  ASSUME CoroutinesOK, recentMutation' \in BOOLEAN,
         NEW c \in Callers, NEW code \in Codes, NEW via \in {"error", "cancelled"},
         Abort(c, code, via)
  PROVE  CoroutinesOK'
<1>1. frame' \in Frames
  BY DEF Abort, Frame, Frames, CoroutinesOK
<1> QED
  BY <1>1 DEF Abort, Goto, CoroutinesOK, Stages

LEMMA ContinueType ==
  ASSUME CoroutinesOK, recentMutation' \in BOOLEAN,
         NEW c \in Callers, NEW stage \in Stages,
         Continue(c, stage)
  PROVE  CoroutinesOK'
BY DEF Continue, Goto, CoroutinesOK

\* An event of the audit keeps the types of the store.
LEMMA AppendType ==
  ASSUME StoreOK, NEW k \in IdemKeys, NEW e \in Events, AppendEvent(k, e)
  PROVE  opEvents' \in [IdemKeys -> Seq(Events)]
BY AppendProperties DEF AppendEvent, StoreOK

LEMMA MintType ==
  ASSUME ProviderOK, NEW content \in Values, Mint(content)
  PROVE  /\ minted' \in Nat /\ minted' = minted + 1
         /\ Versions \subseteq Versions' /\ minted' \in Versions'
         /\ values' \in [Versions' -> Values]
         /\ \A v \in Versions : values'[v] = values[v]
         /\ values'[minted'] = content
BY DEF ProviderOK, Mint, Versions

LEMMA OverlayType ==
  ASSUME NEW base \in Values, NEW patch \in Patches
  PROVE  Overlay(base, patch) \in Values
BY ConstantsAssumption DEF Overlay, Values, Patch

\* The holder of the lock past the lookup has a request.
LEMMA KeyType ==
  ASSUME TypeOK, LockInv, NEW c \in Callers, pc[c] \in Working \cup {"lookup"}
  PROVE  /\ call[c] \in RequestsNaming(Nat)
         /\ Key(c) \in IdemKeys
         /\ call[c] # Nil
         /\ call[c].kind \in {"apply", "rollback"}
         /\ call[c].kind = "apply" => call[c].arg \in Drafts
BY ConstantsAssumption DEF LockInv, Key, RequestsNaming

\* A waiter that gives up leaves the holder of the lock where it is.
LEMMA LeaveQueue ==
  ASSUME queue \in Seq(Callers), NEW i \in 2..Len(queue)
  PROVE  LET q == SubSeq(queue, 1, i - 1) \o SubSeq(queue, i + 1, Len(queue))
         IN  q \in Seq(Callers) /\ q # <<>> /\ Head(q) = Head(queue)
<1> DEFINE front == SubSeq(queue, 1, i - 1)
           rest == SubSeq(queue, i + 1, Len(queue))
<1>1. front \in Seq(Callers) /\ Len(front) = i - 1 /\ front[1] = queue[1]
  <2>1. \A j \in 1..(i - 1) : queue[j] \in Callers
    BY LenProperties
  <2> QED
    BY <2>1, SubSeqProperties
<1>2. rest \in Seq(Callers)
  <2>1. \A j \in (i + 1)..Len(queue) : queue[j] \in Callers
    BY LenProperties
  <2> QED
    BY <2>1, LenProperties, SubSeqProperties
<1> HIDE DEF front, rest
<1>3. /\ front \o rest \in Seq(Callers)
      /\ Len(front \o rest) >= 1
      /\ (front \o rest)[1] = queue[1]
  BY <1>1, <1>2, ConcatProperties, LenProperties
<1>4. Head(front \o rest) = Head(queue) /\ front \o rest # <<>>
  BY <1>3
<1> QED
  BY <1>3, <1>4 DEF front, rest

\* A step of a coroutine moves its own program counter: to an answer, or on to
\* a stage of the lock's holder.
LEMMA StepShape ==
  ASSUME TypeOK, NEW c \in Callers, Step(c)
  PROVE  /\ \A d \in Callers : d # c => pc'[d] = pc[d] /\ call'[d] = call[d]
         /\ \/ pc'[c] = "replied"
            \/ queue' = queue /\ call' = call /\ pc'[c] \in Working
<1> DEFINE Shape ==
      /\ \A d \in Callers : d # c => pc'[d] = pc[d] /\ call'[d] = call[d]
      /\ \/ pc'[c] = "replied"
         \/ queue' = queue /\ call' = call /\ pc'[c] \in Working
<1>1. ASSUME NEW kind, NEW op, Answer(c, kind, op) PROVE Shape
  BY <1>1 DEF Answer, Goto, TypeOK, CoroutinesOK
<1>2. ASSUME NEW code, NEW via, Abort(c, code, via) PROVE Shape
  BY <1>2 DEF Abort, Goto, TypeOK, CoroutinesOK, Working, Running
<1>3. ASSUME NEW stage \in Working, Continue(c, stage) PROVE Shape
  BY <1>3 DEF Continue, Goto, TypeOK, CoroutinesOK
<1>4. ASSUME NEW stage \in Working, Goto(c, stage), UNCHANGED <<queue, call>> PROVE Shape
  BY <1>4 DEF Goto, TypeOK, CoroutinesOK
<1>5. {"reserve", "loadDraft", "recordCurrent", "recordReplacement", "verify",
       "commit", "reverify", "auditFailure"} \subseteq Working
  BY DEF Working, Running
<1> SUFFICES Shape
  OBVIOUS
<1> HIDE DEF Shape
<1>6. CASE LookupFails(c) \/ LookupFinds(c) \/ LookupMisses(c)
  BY <1>1, <1>3, <1>5, <1>6 DEF LookupFails, LookupFinds, LookupMisses
<1>7. CASE ReserveFails(c) \/ Reserve(c)
  BY <1>1, <1>4, <1>5, <1>7 DEF ReserveFails, Reserve
<1>8. CASE LoadDraft(c)
  BY <1>2, <1>4, <1>5, <1>8 DEF LoadDraft, Fail, Interrupt
<1>9. CASE RecordCurrent(c)
  BY <1>2, <1>3, <1>5, <1>9 DEF RecordCurrent, Fail, Interrupt
<1>10. CASE RecordReplacement(c)
  BY <1>2, <1>4, <1>5, <1>10 DEF RecordReplacement, Fail, Interrupt
<1>11. CASE Verify(c) \/ Commit(c)
  BY <1>1, <1>2, <1>3, <1>5, <1>11 DEF Verify, Commit, Fail, Interrupt
<1>12. CASE Restore(c) \/ Reverify(c) \/ AuditFailure(c)
  BY <1>1, <1>3, <1>4, <1>5, <1>12 DEF Restore, Reverify, AuditFailure
<1> QED
  BY <1>6, <1>7, <1>8, <1>9, <1>10, <1>11, <1>12 DEF Step

LEMMA LockStep == TypeOK /\ LockInv /\ [Next]_vars => LockInv'
<1> SUFFICES ASSUME TypeOK, LockInv, [Next]_vars PROVE LockInv'
  OBVIOUS
<1>1. ASSUME NEW d \in Drafts, ReadBaseline(d) \/ StoreDraft(d) PROVE LockInv'
  BY <1>1 DEF ReadBaseline, StoreDraft, LockInv, Holds, Working, Running, RequestsNaming
<1>2. ASSUME NEW c \in Callers, Call(c) PROVE LockInv'
  <2>2. \A d \in Callers : Holds(d) => Holds(d)'
    BY <1>2, HeadTailAppend, AppendProperties DEF Call, Holds, TypeOK, CoroutinesOK
  <2>3. call'[c] \in RequestsNaming(Nat)
    BY <1>2 DEF Call, TypeOK, ProviderOK, CoroutinesOK, RequestsNaming, Versions
  <2>4. \A d \in Callers : d # c => pc'[d] = pc[d] /\ call'[d] = call[d]
    BY <1>2 DEF Call, Goto, TypeOK, CoroutinesOK
  <2>5. pc'[c] \notin Working
    BY <1>2 DEF Call, Goto, TypeOK, CoroutinesOK, Working, Running
  <2> QED
    BY <2>2, <2>3, <2>4, <2>5 DEF LockInv, Working, Running, RequestsNaming
<1>3. ASSUME NEW c \in Callers, CancelWaiting(c) PROVE LockInv'
  <2>1. \A d \in Callers : Holds(d) => Holds(d)'
    BY <1>3, LeaveQueue DEF CancelWaiting, Holds, TypeOK, CoroutinesOK
  <2>2. \A d \in Callers : d # c => pc'[d] = pc[d] /\ call'[d] = call[d]
    BY <1>3 DEF CancelWaiting, Goto, TypeOK, CoroutinesOK
  <2>3. pc'[c] \notin Working \cup {"lookup"}
    BY <1>3 DEF CancelWaiting, Goto, TypeOK, CoroutinesOK, Working, Running
  <2> QED
    BY <2>1, <2>2, <2>3 DEF LockInv, Working, Running, RequestsNaming
<1>4. ASSUME NEW c \in Callers, ListingFails(c) \/ Return(c) PROVE LockInv'
  BY <1>4 DEF ListingFails, Return, LockInv, Goto, Holds, TypeOK, CoroutinesOK, Working, Running
\* Every step past the wait is a step of the holder of the lock: it goes on,
\* or answers and is the last one to be past the lookup.
<1>5. ASSUME NEW c \in Callers, Step(c) PROVE LockInv'
  <2>1. Holds(c) /\ pc[c] \in Working \cup {"lookup"}
    BY <1>5 DEF Step, LookupFails, LookupFinds, LookupMisses, ReserveFails, Reserve,
        LoadDraft, RecordCurrent, RecordReplacement, Verify, Commit, Restore,
        Reverify, AuditFailure, At, Working, Running
  <2>2. \A d \in Callers : d # c => pc[d] \notin Working
    BY <2>1 DEF LockInv, Holds
  <2>3. /\ \A d \in Callers : d # c => pc'[d] = pc[d] /\ call'[d] = call[d]
        /\ \/ pc'[c] = "replied"
           \/ queue' = queue /\ call' = call /\ pc'[c] \in Working
    BY <1>5, StepShape
  <2> QED
    BY <2>1, <2>2, <2>3 DEF LockInv, Holds, Working, Running
<1>6. CASE CoolDown
  BY <1>6 DEF CoolDown, LockInv, Holds
<1>7. CASE Restart
  BY <1>7 DEF Restart, LockInv, Working, Running
<1>8. CASE UNCHANGED vars
  BY <1>8 DEF vars, LockInv, Holds
<1> QED
  BY <1>1, <1>2, <1>3, <1>4, <1>5, <1>6, <1>7, <1>8 DEF Next

LEMMA TypeStep == TypeOK /\ LockInv /\ FrameInv /\ [Next]_vars => TypeOK'
<1> SUFFICES ASSUME TypeOK, LockInv, FrameInv, [Next]_vars PROVE TypeOK'
  OBVIOUS
<1> USE DEF provider, versions, store
<1>1. ASSUME NEW d \in Drafts, ReadBaseline(d) PROVE TypeOK'
  <2>1. StoreOK'
    BY <1>1 DEF ReadBaseline, TypeOK, ProviderOK, StoreOK, NoDraft, Draft, Versions
  <2> QED
    BY <1>1, <2>1 DEF ReadBaseline, TypeOK, ProviderOK, CoroutinesOK, Versions
<1>2. ASSUME NEW d \in Drafts, StoreDraft(d) PROVE TypeOK'
  <2>1. StoreOK'
    <3>1. drafts[d] \in [phase : {"pending", "stored"}, base : Versions,
                         patch : Patches, status : {"validated", "invalid"}]
      BY <1>2 DEF StoreDraft, TypeOK, StoreOK, NoDraft, Draft
    <3>2. Draft("stored", drafts[d].base, drafts[d].patch, drafts[d].status)
            \in [phase : {"pending", "stored"}, base : Versions,
                 patch : Patches, status : {"validated", "invalid"}]
      BY <3>1 DEF Draft
    <3>3. drafts' \in [Drafts -> {NoDraft} \cup
                         [phase : {"pending", "stored"}, base : Versions,
                          patch : Patches, status : {"validated", "invalid"}]]
      BY <1>2, <3>2 DEF StoreDraft, TypeOK, StoreOK
    <3> QED
      BY <1>2, <3>3 DEF StoreDraft, TypeOK, StoreOK, Versions
  <2> QED
    BY <1>2, <2>1 DEF StoreDraft, TypeOK, ProviderOK, CoroutinesOK, Versions
<1>3. ASSUME NEW c \in Callers, Call(c) PROVE TypeOK'
  <2>1. CoroutinesOK'
    BY <1>3, AppendProperties DEF Call, Goto, TypeOK, ProviderOK, CoroutinesOK, Versions,
        RequestsNaming, Stages
  <2> QED
    BY <1>3, <2>1 DEF Call, TypeOK, ProviderOK, StoreOK, Versions
<1>4. ASSUME NEW c \in Callers, CancelWaiting(c) PROVE TypeOK'
  <2>1. CoroutinesOK'
    BY <1>4, LeaveQueue DEF CancelWaiting, Goto, TypeOK, CoroutinesOK, Stages, Replies
  <2> QED
    BY <1>4, <2>1 DEF CancelWaiting, TypeOK, ProviderOK, StoreOK, Versions
<1>5. ASSUME NEW c \in Callers, ListingFails(c) \/ Return(c) PROVE TypeOK'
  <2>1. CoroutinesOK'
    <3>1. CASE ListingFails(c)
      BY <3>1 DEF ListingFails, TypeOK, CoroutinesOK, Replies
    <3>2. CASE Return(c)
      BY <3>2 DEF Return, Goto, TypeOK, CoroutinesOK, Stages
    <3> QED
      BY <1>5, <3>1, <3>2
  <2> QED
    BY <1>5, <2>1 DEF ListingFails, Return, TypeOK, ProviderOK, StoreOK, Versions
<1>6. ASSUME NEW c \in Callers, LookupFails(c) \/ LookupFinds(c) \/ LookupMisses(c)
      PROVE  TypeOK'
  <2>1. Key(c) \in IdemKeys
    BY <1>6, KeyType DEF LookupFails, LookupFinds, LookupMisses, At
  <2>2. RepeatKind(Key(c)) \in {"ok", "conflict", "error"}
    BY DEF RepeatKind
  <2>3. CoroutinesOK'
    <3>1. CoroutinesOK /\ Holds(c)
      BY <1>6 DEF LookupFails, LookupFinds, LookupMisses, At, TypeOK
    <3>2. recentMutation' \in BOOLEAN
      BY <1>6 DEF LookupFails, LookupFinds, LookupMisses, TypeOK, CoroutinesOK
    <3>3. CASE LookupFails(c)
      BY <3>1, <3>2, <3>3, AnswerType DEF LookupFails
    <3>4. CASE LookupFinds(c)
      BY <2>1, <2>2, <3>1, <3>2, <3>4, AnswerType DEF LookupFinds
    <3>5. CASE LookupMisses(c)
      BY <3>1, <3>2, <3>5, AnswerType, ContinueType DEF LookupMisses, Stages
    <3> QED
      BY <1>6, <3>3, <3>4, <3>5
  <2> QED
    BY <1>6, <2>3 DEF LookupFails, LookupFinds, LookupMisses, TypeOK, ProviderOK, StoreOK, Versions
<1>7. ASSUME NEW c \in Callers, ReserveFails(c) PROVE TypeOK'
  <2>1. CoroutinesOK'
    BY <1>7, AnswerType DEF ReserveFails, At, TypeOK, CoroutinesOK
  <2> QED
    BY <1>7, <2>1 DEF ReserveFails, TypeOK, ProviderOK, StoreOK, Versions
<1>8. ASSUME NEW c \in Callers, Reserve(c) PROVE TypeOK'
  <2>1. Key(c) \in IdemKeys /\ call[c] \in RequestsNaming(Nat) /\ call[c] # Nil
    BY <1>8, KeyType DEF Reserve, At, Working
  <2>2. opEvents' \in [IdemKeys -> Seq(Events)]
    <3>1. Event("started", Nil, Nil, "none") \in Events
      BY DEF Event, Events, Codes
    <3> QED
      BY <1>8, <2>1, <3>1, AppendType DEF Reserve, TypeOK
  <2>3. ProviderOK' /\ Versions \subseteq Versions'
    <3>1. call[c].kind = "rollback" /\ call[c].arg = previous => previous \in Versions
      BY <2>1, ConstantsAssumption DEF TypeOK, ProviderOK, RequestsNaming, Versions
    <3>2. CASE UNCHANGED <<minted, values>>
      BY <1>8, <3>2 DEF Reserve, TypeOK, ProviderOK, Versions
    <3>3. CASE previous \in Versions /\ Mint(values[previous])
      BY <1>8, <3>3, MintType DEF Reserve, TypeOK, ProviderOK, Versions
    <3> QED
      BY <1>8, <3>1, <3>2, <3>3 DEF Reserve
  <2>4. CoroutinesOK'
    <3>1. frame' \in Frames
      BY <1>8 DEF Reserve, Frame, Frames, Codes, TypeOK, ProviderOK, Versions
    <3>2. pc' \in [Callers -> Stages]
      BY <1>8 DEF Reserve, Goto, TypeOK, CoroutinesOK, Stages
    <3> QED
      BY <1>8, <3>1, <3>2 DEF Reserve, TypeOK, CoroutinesOK
  <2>5. StoreOK'
    BY <1>8, <2>1, <2>2, <2>3 DEF Reserve, TypeOK, StoreOK
  <2> QED
    BY <2>3, <2>4, <2>5 DEF TypeOK
<1>9. ASSUME NEW c \in Callers, LoadDraft(c) PROVE TypeOK'
  <2> DEFINE d == call[c].arg
  <2>1. CASE /\ Fail(c) \/ Interrupt(c) \/ Abort(c, "version_conflict", "error")
             /\ UNCHANGED <<minted, values>>
    <3>1. CoroutinesOK'
      BY <1>9, <2>1, AbortType DEF LoadDraft, Fail, Interrupt, TypeOK, CoroutinesOK, Codes
    <3> QED
      BY <1>9, <2>1, <3>1 DEF LoadDraft, TypeOK, ProviderOK, StoreOK, Versions
  <2>2. CASE /\ Acceptable(d, frame.cur)
             /\ Mint(Overlay(values[frame.cur], drafts[d].patch))
             /\ frame' = Frame(frame.cur, Nil, minted + 1, "none", "none", "none")
             /\ Goto(c, "recordCurrent")
             /\ UNCHANGED <<queue, call, reply>>
    <3>1. CoroutinesOK'
      BY <1>9, <2>2 DEF LoadDraft, Frame, Frames, Codes, Goto, Stages, TypeOK, ProviderOK, CoroutinesOK
    <3>2. d \in Drafts
      BY <1>9, KeyType DEF LoadDraft, At, FrameInv, Working, Running
    <3>3. values[frame.cur] \in Values
      BY <1>9 DEF LoadDraft, At, Running, FrameInv, TypeOK, ProviderOK
    <3>4. drafts[d].patch \in Patches
      BY <2>2, <3>2 DEF Acceptable, TypeOK, StoreOK, NoDraft, Draft
    <3>5. ProviderOK' /\ Versions \subseteq Versions'
      BY <1>9, <2>2, <3>3, <3>4, OverlayType, MintType DEF LoadDraft, TypeOK, ProviderOK
    <3>6. StoreOK'
      BY <1>9, <3>5 DEF LoadDraft, TypeOK, StoreOK
    <3> QED
      BY <3>1, <3>5, <3>6 DEF TypeOK
  <2> QED
    BY <1>9, <2>1, <2>2 DEF LoadDraft
<1>10. ASSUME NEW c \in Callers, RecordCurrent(c) PROVE TypeOK'
  <2>1. CoroutinesOK'
    BY <1>10, AbortType, ContinueType
       DEF RecordCurrent, Fail, Interrupt, Codes, Stages, TypeOK, CoroutinesOK
  <2>2. StoreOK'
    BY <1>10 DEF RecordCurrent, TypeOK, ProviderOK, CoroutinesOK, StoreOK, Frames, Versions
  <2> QED
    BY <1>10, <2>1, <2>2 DEF RecordCurrent, TypeOK, ProviderOK, Versions
<1>11. ASSUME NEW c \in Callers, RecordReplacement(c) PROVE TypeOK'
  <2>1. CoroutinesOK'
    <3>1. CASE Fail(c) \/ Interrupt(c)
      BY <1>11, <3>1, AbortType DEF RecordReplacement, Fail, Interrupt, Codes, TypeOK, CoroutinesOK
    <3>2. CASE /\ frame' = Frame(frame.cur, previous, frame.new, "done", "none", "none")
               /\ Goto(c, "verify")
               /\ UNCHANGED <<queue, call, reply>>
      <4>1. frame' \in Frames
        BY <3>2 DEF Frame, Frames, Codes, TypeOK, ProviderOK, CoroutinesOK, Versions
      <4> QED
        BY <1>11, <3>2, <4>1 DEF RecordReplacement, Goto, Stages, TypeOK, CoroutinesOK
    <3> QED
      BY <1>11, <3>1, <3>2 DEF RecordReplacement
  <2>2. StoreOK'
    BY <1>11 DEF RecordReplacement, TypeOK, ProviderOK, CoroutinesOK, StoreOK, Frames, Versions
  <2>3. ProviderOK'
    <3>1. frame.new \in Versions
      BY <1>11 DEF RecordReplacement, At, FrameInv, Running, Minted
    <3> QED
      BY <1>11, <3>1 DEF RecordReplacement, Replace, TypeOK, ProviderOK, Versions
  <2> QED
    BY <2>1, <2>2, <2>3 DEF TypeOK
<1>12. ASSUME NEW c \in Callers, Verify(c) PROVE TypeOK'
  <2>1. CoroutinesOK'
    BY <1>12, AbortType, ContinueType
       DEF Verify, Fail, Interrupt, Codes, Stages, TypeOK, CoroutinesOK
  <2> QED
    BY <1>12, <2>1 DEF Verify, TypeOK, ProviderOK, StoreOK, Versions
<1>13. ASSUME NEW c \in Callers, Commit(c) PROVE TypeOK'
  <2>1. Holds(c) /\ Key(c) \in IdemKeys
    BY <1>13, KeyType DEF Commit, At, Working, Running
  <2>2. CoroutinesOK'
    BY <1>13, <2>1, AbortType, AnswerType
       DEF Commit, Fail, Interrupt, Codes, TypeOK, CoroutinesOK
  <2>3. opEvents' \in [IdemKeys -> Seq(Events)]
    <3>1. \A type \in {"applied", "rolled_back"} :
             Event(type, frame.cur, frame.new, "none") \in Events
      BY DEF Event, Events, Codes, TypeOK, CoroutinesOK, Frames
    <3> QED
      BY <1>13, <2>1, <3>1, AppendType DEF Commit, TypeOK, StoreOK
  <2> QED
    BY <1>13, <2>2, <2>3 DEF Commit, TypeOK, ProviderOK, StoreOK, Versions
<1>14. ASSUME NEW c \in Callers, Restore(c) PROVE TypeOK'
  <2>1. frame' \in Frames
    BY <1>14 DEF Restore, Frame, Frames, TypeOK, CoroutinesOK
  <2>2. CoroutinesOK'
    BY <1>14, <2>1 DEF Restore, Goto, Stages, TypeOK, CoroutinesOK
  <2>3. frame.cur \in Versions /\ frame.undo \in Versions \cup {Nil}
    BY <1>14 DEF Restore, At, FrameInv, Running, Swapped
  <2> QED
    BY <1>14, <2>2, <2>3 DEF Restore, TypeOK, ProviderOK, StoreOK, Versions
<1>15. ASSUME NEW c \in Callers, Reverify(c) PROVE TypeOK'
  <2>1. CoroutinesOK'
    BY <1>15, ContinueType DEF Reverify, Stages, TypeOK, CoroutinesOK
  <2> QED
    BY <1>15, <2>1 DEF Reverify, TypeOK, ProviderOK, StoreOK, Versions
<1>16. ASSUME NEW c \in Callers, AuditFailure(c) PROVE TypeOK'
  <2>1. Holds(c) /\ Key(c) \in IdemKeys
    BY <1>16, KeyType DEF AuditFailure, At, Working, Running
  <2>2. CoroutinesOK'
    BY <1>16, <2>1, AnswerType DEF AuditFailure, FailureKind, TypeOK, CoroutinesOK
  <2>3. opEvents' \in [IdemKeys -> Seq(Events)]
    <3>1. \A v \in {frame.new, frame.cur} : Event("failed", v, frame.cur, frame.code) \in Events
      BY DEF Event, Events, TypeOK, CoroutinesOK, Frames
    <3> QED
      BY <1>16, <2>1, <3>1, AppendType DEF AuditFailure, TypeOK, StoreOK
  <2> QED
    BY <1>16, <2>2, <2>3 DEF AuditFailure, TypeOK, ProviderOK, StoreOK, Versions
<1>17. CASE CoolDown
  BY <1>17 DEF CoolDown, TypeOK, ProviderOK, CoroutinesOK, StoreOK, Versions
<1>18. CASE Restart
  <2>1. CoroutinesOK'
    <3>1. frame' \in Frames
      BY <1>18 DEF Restart, NoFrame, Frame, Frames, Codes
    <3>2. queue' \in Seq(Callers)
      BY <1>18, EmptySeq DEF Restart
    <3> QED
      BY <1>18, <3>1, <3>2 DEF Restart, CoroutinesOK, Stages
  <2>2. StoreOK'
    BY <1>18 DEF Restart, TypeOK, StoreOK, Versions
  <2> QED
    BY <1>18, <2>1, <2>2 DEF Restart, Baseline, TypeOK, ProviderOK, Versions
<1>19. CASE UNCHANGED vars
  BY <1>19 DEF vars, TypeOK, ProviderOK, CoroutinesOK, StoreOK, Versions
<1> QED
  BY <1>1, <1>2, <1>3, <1>4, <1>5, <1>6, <1>7, <1>8, <1>9, <1>10, <1>11, <1>12,
     <1>13, <1>14, <1>15, <1>16, <1>17, <1>18, <1>19 DEF Next, Step

\* The coroutine that moves is the only one past the lookup, so what the
\* invariant says of the others it says of nobody.
LEMMA Alone ==
  ASSUME LockInv, NEW c \in Callers, Holds(c), NEW d \in Callers, d # c
  PROVE  pc[d] \notin Working
BY DEF LockInv, Holds

LEMMA FrameStep == TypeOK /\ LockInv /\ FrameInv /\ [Next]_vars => FrameInv'
<1> SUFFICES ASSUME TypeOK, LockInv, FrameInv, [Next]_vars PROVE FrameInv'
  OBVIOUS
<1> USE DEF provider, versions
<1>1. ASSUME NEW d \in Drafts, ReadBaseline(d) \/ StoreDraft(d) PROVE FrameInv'
  BY <1>1 DEF ReadBaseline, StoreDraft, FrameInv, Versions, Running, Swapped, Minted
<1>2. ASSUME NEW c \in Callers, Call(c) PROVE FrameInv'
  BY <1>2 DEF Call, Goto, FrameInv, Versions, Running, Swapped, Minted, TypeOK, CoroutinesOK
<1>3. ASSUME NEW c \in Callers, CancelWaiting(c) PROVE FrameInv'
  BY <1>3 DEF CancelWaiting, Goto, FrameInv, Versions, Running, Swapped, Minted, TypeOK, CoroutinesOK
<1>4. ASSUME NEW c \in Callers, ListingFails(c) \/ Return(c) PROVE FrameInv'
  BY <1>4 DEF ListingFails, Return, Goto, FrameInv, Versions, Running, Swapped, Minted, TypeOK,
              CoroutinesOK
\* An answer leaves nobody past the lookup.
<1>5. ASSUME NEW c \in Callers, Holds(c), NEW kind, NEW op, Answer(c, kind, op)
      PROVE  FrameInv'
  BY <1>5, Alone DEF Answer, Goto, FrameInv, Running, Working, TypeOK, CoroutinesOK
\* An except clause is entered with the local variables as they are.
<1>6. ASSUME NEW c \in Callers, Holds(c), pc[c] \in Running, NEW code, NEW via,
             Abort(c, code, via), UNCHANGED <<provider, versions>>
      PROVE  FrameInv'
  <2>1. pc'[c] = IF pc[c] \in Swapped THEN "restore" ELSE "auditFailure"
    BY <1>6 DEF Abort, Goto, FrameInv, TypeOK, CoroutinesOK
  <2>2. \A d \in Callers : d # c => pc'[d] = pc[d] /\ pc[d] \notin Running
    BY <1>6, Alone DEF Abort, Goto, Working, TypeOK, CoroutinesOK
  <2> QED
    BY <1>6, <2>1, <2>2 DEF Abort, Frame, FrameInv, Versions, Running, Swapped, Minted
<1>7. ASSUME NEW c \in Callers, Holds(c), pc[c] \in Running, NEW stage,
             Continue(c, stage), UNCHANGED <<provider, versions>>,
             <<pc[c], stage>> \in {<<"recordCurrent", "recordReplacement">>,
                                  <<"verify", "commit">>, <<"reverify", "auditFailure">>}
      PROVE  FrameInv'
  <2>1. \A d \in Callers : d # c => pc'[d] = pc[d] /\ pc[d] \notin Running
    BY <1>7, Alone DEF Continue, Goto, Working, TypeOK, CoroutinesOK
  <2>2. pc'[c] = stage
    BY <1>7 DEF Continue, Goto, TypeOK, CoroutinesOK
  <2> QED
    BY <1>7, <2>1, <2>2 DEF Continue, FrameInv, Versions, Running, Swapped, Minted
<1>8. ASSUME NEW c \in Callers, LookupFails(c) \/ LookupFinds(c) \/ ReserveFails(c)
      PROVE  FrameInv'
  BY <1>5, <1>8 DEF LookupFails, LookupFinds, ReserveFails, At
<1>9. ASSUME NEW c \in Callers, LookupMisses(c) PROVE FrameInv'
  <2>1. CASE Continue(c, "reserve")
    BY <1>9, <2>1 DEF LookupMisses, At, Continue, Goto, FrameInv, Versions, Running, Swapped,
        Minted, TypeOK, CoroutinesOK
  <2> QED
    BY <1>5, <1>9, <2>1 DEF LookupMisses, At
<1>10. ASSUME NEW c \in Callers, Reserve(c) PROVE FrameInv'
  <2>1. \A d \in Callers : d # c => pc'[d] = pc[d] /\ pc[d] \notin Running
    BY <1>10, Alone DEF Reserve, At, Goto, Working, TypeOK, CoroutinesOK
  <2>2. \/ pc'[c] = "auditFailure"
        \/ pc'[c] = "loadDraft" /\ call[c].kind = "apply"
        \/ pc'[c] = "recordCurrent" /\ frame'.new = minted + 1 /\ minted' = minted + 1
    BY <1>10 DEF Reserve, Goto, Frame, Mint, TypeOK, CoroutinesOK
  <2>3. /\ frame'.cur = current /\ frame'.swap = "none"
        /\ minted' = minted \/ minted' = minted + 1
    BY <1>10 DEF Reserve, Frame, Mint
  <2>4. call' = call /\ current' = current
    BY <1>10 DEF Reserve
  <2> QED
    BY <2>1, <2>2, <2>3, <2>4 DEF FrameInv, Versions, Running, Swapped, Minted, TypeOK, ProviderOK
<1>11. ASSUME NEW c \in Callers, LoadDraft(c) PROVE FrameInv'
  <2>1. CASE /\ Mint(Overlay(values[frame.cur], drafts[call[c].arg].patch))
             /\ frame' = Frame(frame.cur, Nil, minted + 1, "none", "none", "none")
             /\ Goto(c, "recordCurrent")
             /\ UNCHANGED <<queue, call, reply>>
    <3>1. \A d \in Callers : d # c => pc'[d] = pc[d] /\ pc[d] \notin Running
      BY <1>11, <2>1, Alone DEF LoadDraft, At, Goto, Working, TypeOK, CoroutinesOK
    <3>2. pc'[c] = "recordCurrent"
      BY <2>1 DEF Goto, TypeOK, CoroutinesOK
    <3> QED
      BY <1>11, <2>1, <3>1, <3>2 DEF LoadDraft, At, Mint, Frame, FrameInv, Versions, Running,
          Swapped, Minted, TypeOK, ProviderOK
  <2>2. CASE /\ Fail(c) \/ Interrupt(c) \/ Abort(c, "version_conflict", "error")
             /\ UNCHANGED versions
    BY <1>6, <1>11, <2>2 DEF LoadDraft, At, Running, Fail, Interrupt
  <2> QED
    BY <1>11, <2>1, <2>2 DEF LoadDraft
<1>12. ASSUME NEW c \in Callers, RecordCurrent(c) PROVE FrameInv'
  BY <1>6, <1>7, <1>12 DEF RecordCurrent, At, Running, Fail, Interrupt
<1>13. ASSUME NEW c \in Callers, RecordReplacement(c) PROVE FrameInv'
  <2>1. CASE UNCHANGED provider /\ (Fail(c) \/ Interrupt(c))
    BY <1>6, <1>13, <2>1 DEF RecordReplacement, At, Running, Fail, Interrupt
  <2>2. CASE /\ Replace(frame.cur, frame.new)
             /\ frame' = Frame(frame.cur, previous, frame.new, "done", "none", "none")
             /\ Goto(c, "verify")
             /\ UNCHANGED <<queue, call, reply>>
    <3>1. \A d \in Callers : d # c => pc'[d] = pc[d] /\ pc[d] \notin Running
      BY <1>13, <2>2, Alone DEF RecordReplacement, At, Goto, Working, TypeOK, CoroutinesOK
    <3>2. pc'[c] = "verify"
      BY <2>2 DEF Goto, TypeOK, CoroutinesOK
    <3> QED
      BY <1>13, <2>2, <3>1, <3>2 DEF RecordReplacement, At, Replace, Frame, FrameInv, Versions,
          Running, Swapped, Minted, TypeOK, ProviderOK
  <2> QED
    BY <1>13, <2>1, <2>2 DEF RecordReplacement
<1>14. ASSUME NEW c \in Callers, Verify(c) PROVE FrameInv'
  BY <1>6, <1>7, <1>14 DEF Verify, At, Running, Fail, Interrupt
<1>15. ASSUME NEW c \in Callers, Commit(c) PROVE FrameInv'
  BY <1>5, <1>6, <1>15 DEF Commit, At, Running, Fail, Interrupt
<1>16. ASSUME NEW c \in Callers, Restore(c) PROVE FrameInv'
  <2>1. \A d \in Callers : d # c => pc'[d] = pc[d] /\ pc[d] \notin Running
    BY <1>16, Alone DEF Restore, At, Goto, Working, TypeOK, CoroutinesOK
  <2>2. pc'[c] = "reverify"
    BY <1>16 DEF Restore, Goto, TypeOK, CoroutinesOK
  <2> QED
    BY <1>16, <2>1, <2>2 DEF Restore, At, Frame, FrameInv, Versions, Running, Swapped, Minted
<1>17. ASSUME NEW c \in Callers, Reverify(c) PROVE FrameInv'
  BY <1>7, <1>17 DEF Reverify, At, Running
<1>18. ASSUME NEW c \in Callers, AuditFailure(c) PROVE FrameInv'
  BY <1>5, <1>18 DEF AuditFailure, At
<1>19. CASE CoolDown
  BY <1>19 DEF CoolDown, FrameInv, Versions, Running, Swapped, Minted
<1>20. CASE Restart
  BY <1>20 DEF Restart, FrameInv, NoFrame, Frame, Running
<1>21. CASE UNCHANGED vars
  BY <1>21 DEF vars, FrameInv, Versions, Running, Swapped, Minted
<1> QED
  BY <1>1, <1>2, <1>3, <1>4, <1>8, <1>9, <1>10, <1>11, <1>12, <1>13, <1>14, <1>15,
     <1>16, <1>17, <1>18, <1>19, <1>20, <1>21 DEF Next, Step

-----------------------------------------------------------------------------
CoreInv == TypeOK /\ LockInv /\ FrameInv

LEMMA CoreInvariant == Spec => []CoreInv
<1>1. Init => CoreInv
  <2>1. Init => LockInv /\ FrameInv
    BY DEF Init, LockInv, FrameInv, Working, Running
  <2> QED
    BY <2>1, InitType DEF CoreInv
<1>2. CoreInv /\ [Next]_vars => CoreInv'
  BY TypeStep, LockStep, FrameStep DEF CoreInv
<1> QED
  BY <1>1, <1>2, PTL DEF Spec

\* Appending an event leaves the other operations alone.
LEMMA AppendEffect ==
  ASSUME TypeOK, NEW k \in IdemKeys, NEW e \in Events, AppendEvent(k, e)
  PROVE  /\ \A j \in IdemKeys : j # k => opEvents'[j] = opEvents[j]
         /\ opEvents[k] \in Seq(Events) /\ opEvents'[k] \in Seq(Events)
         /\ opEvents'[k] = Append(opEvents[k], e)
         /\ Len(opEvents[k]) \in Nat
         /\ Len(opEvents'[k]) = Len(opEvents[k]) + 1
         /\ opEvents'[k] # <<>>
         /\ \A i \in 1..Len(opEvents[k]) : opEvents'[k][i] = opEvents[k][i]
         /\ opEvents'[k][Len(opEvents[k]) + 1] = e
BY AppendProperties, LenProperties DEF AppendEvent, TypeOK, StoreOK

LEMMA AuditStep == CoreInv /\ AuditInv /\ [Next]_vars => AuditInv'
<1> SUFFICES ASSUME CoreInv, AuditInv, [Next]_vars PROVE AuditInv'
  OBVIOUS
<1> USE DEF CoreInv
\* A step that leaves the audit alone, and each coroutine where it was, past
\* the lookup, or out of the lock.
<1>1. ASSUME UNCHANGED <<opRows, opEvents>>,
             \A c \in Callers :
                \/ pc'[c] \notin Working
                \/ pc'[c] = pc[c] /\ call'[c] = call[c]
                \/ pc[c] \in Running /\ pc'[c] \in Running /\ call'[c] = call[c]
      PROVE  AuditInv'
  BY <1>1 DEF AuditInv, OneOutcomePerOperation, Key, Working, Running
<1>2. ASSUME NEW d \in Drafts, ReadBaseline(d) \/ StoreDraft(d) PROVE AuditInv'
  BY <1>1, <1>2 DEF ReadBaseline, StoreDraft
<1>3. ASSUME NEW c \in Callers, Call(c) \/ CancelWaiting(c) \/ ListingFails(c) \/ Return(c)
      PROVE  AuditInv'
  BY <1>1, <1>3 DEF Call, CancelWaiting, ListingFails, Return, store, Goto, Working, Running,
                    TypeOK, CoroutinesOK
<1>4. ASSUME NEW c \in Callers, NEW kind, NEW op, Answer(c, kind, op),
             UNCHANGED <<opRows, opEvents>>
      PROVE  AuditInv'
  BY <1>1, <1>4 DEF Answer, Goto, Working, Running, TypeOK, CoroutinesOK
<1>5. ASSUME NEW c \in Callers, pc[c] \in Running, NEW stage \in Running, Goto(c, stage),
             UNCHANGED <<call, opRows, opEvents>>
      PROVE  AuditInv'
  BY <1>1, <1>5 DEF Goto, TypeOK, CoroutinesOK
<1>6. ASSUME NEW c \in Callers, pc[c] \in Running, NEW code, NEW via, Abort(c, code, via),
             UNCHANGED <<opRows, opEvents>>
      PROVE  AuditInv'
  BY <1>5, <1>6 DEF Abort, Running
<1>7. ASSUME NEW c \in Callers, LookupFails(c) \/ LookupFinds(c) \/ ReserveFails(c)
      PROVE  AuditInv'
  BY <1>4, <1>7 DEF LookupFails, LookupFinds, ReserveFails, store
<1>8. ASSUME NEW c \in Callers, LookupMisses(c) PROVE AuditInv'
  <2>1. CASE Continue(c, "reserve")
    <3>1. \A d \in Callers : d # c => pc'[d] = pc[d]
      BY <2>1 DEF Continue, Goto, TypeOK, CoroutinesOK
    <3>2. pc'[c] = "reserve" /\ call' = call /\ opRows[Key(c)] = Nil
      BY <1>8, <2>1 DEF LookupMisses, Continue, Goto, TypeOK, CoroutinesOK
    <3> QED
      BY <1>8, <3>1, <3>2
         DEF LookupMisses, store, AuditInv, OneOutcomePerOperation, Key, Running
  <2> QED
    BY <1>4, <1>8, <2>1 DEF LookupMisses, store
<1>9. ASSUME NEW c \in Callers, Reserve(c) PROVE AuditInv'
  <2> DEFINE k == Key(c)
             e == Event("started", Nil, Nil, "none")
  <2>1. k \in IdemKeys /\ call[c] # Nil /\ call' = call
    BY <1>9, KeyType DEF Reserve, At, Working
  <2>2. e \in Events /\ e.type = "started"
    BY DEF Event, Events, Codes
  <2>3. AppendEvent(k, e) /\ opRows' = [opRows EXCEPT ![k] = call[c]]
    BY <1>9 DEF Reserve
  <2>4. opEvents[k] = <<>>
    BY <1>9, <2>1 DEF Reserve, At, AuditInv, OneOutcomePerOperation
  <2> HIDE DEF k, e
  <2>5. /\ \A j \in IdemKeys : j # k => opEvents'[j] = opEvents[j] /\ opRows'[j] = opRows[j]
        /\ Len(opEvents'[k]) = 1 /\ opEvents'[k] # <<>> /\ opEvents'[k][1].type = "started"
        /\ opRows'[k] = call[c]
    <3>1. \A j \in IdemKeys : j # k => opRows'[j] = opRows[j]
      BY <2>1, <2>3 DEF TypeOK, StoreOK
    <3>2. opRows'[k] = call[c]
      BY <2>1, <2>3 DEF TypeOK, StoreOK
    <3>3. /\ \A j \in IdemKeys : j # k => opEvents'[j] = opEvents[j]
          /\ opEvents'[k] # <<>>
          /\ Len(opEvents'[k]) = Len(opEvents[k]) + 1
          /\ opEvents'[k][Len(opEvents[k]) + 1] = e
      BY <2>1, <2>2, <2>3, AppendEffect
    <3>4. Len(opEvents[k]) = 0
      BY <2>4
    <3> QED
      BY <2>2, <3>1, <3>2, <3>3, <3>4
  <2>6. OneOutcomePerOperation'
    <3>1. ASSUME NEW j \in IdemKeys
          PROVE  Len(opEvents'[j]) <= 2 /\ (opRows'[j] # Nil <=> opEvents'[j] # <<>>)
      <4>1. CASE j = k
        <5>1. Len(opEvents'[j]) = 1 /\ opEvents'[j] # <<>> /\ opRows'[j] # Nil
          BY <2>1, <2>5, <4>1, Zenon
        <5> QED
          BY <5>1
      <4> QED
        BY <2>5, <4>1 DEF AuditInv, OneOutcomePerOperation
    <3>2. ASSUME NEW j \in IdemKeys, NEW i \in 1..Len(opEvents'[j])
          PROVE  opEvents'[j][i].type = "started" <=> i = 1
      BY <2>1, <2>5, <3>2 DEF AuditInv, OneOutcomePerOperation
    <3> QED
      BY <3>1, <3>2 DEF OneOutcomePerOperation
  <2>7. \A d \in Callers : d # c => pc'[d] = pc[d] /\ pc[d] \notin Working
    BY <1>9, Alone DEF Reserve, At, Goto, TypeOK, CoroutinesOK
  <2>8. pc'[c] # "reserve"
    BY <1>9 DEF Reserve, Goto, TypeOK, CoroutinesOK
  <2> QED
    BY <2>1, <2>5, <2>6, <2>7, <2>8 DEF AuditInv, Working, k, Key
<1>10. ASSUME NEW c \in Callers, LoadDraft(c) PROVE AuditInv'
  BY <1>5, <1>6, <1>10 DEF LoadDraft, At, store, Running, Fail, Interrupt
<1>11. ASSUME NEW c \in Callers, RecordCurrent(c) PROVE AuditInv'
  BY <1>5, <1>6, <1>11 DEF RecordCurrent, At, Running, Continue, Fail, Interrupt
<1>12. ASSUME NEW c \in Callers, RecordReplacement(c) PROVE AuditInv'
  BY <1>5, <1>6, <1>12 DEF RecordReplacement, At, Running, Fail, Interrupt
<1>13. ASSUME NEW c \in Callers, Verify(c) \/ Restore(c) \/ Reverify(c) PROVE AuditInv'
  BY <1>5, <1>6, <1>13 DEF Verify, Restore, Reverify, At, store, Running, Continue, Fail, Interrupt
\* The outcome is appended by the coroutine that answers: it is alone past the
\* lookup, and the operation has only been started.
<1>14. ASSUME NEW c \in Callers, Holds(c), pc[c] \in Running, NEW e \in Events,
              e.type # "started", AppendEvent(Key(c), e), opRows' = opRows,
              NEW kind, NEW op, Answer(c, kind, op)
       PROVE  AuditInv'
  <2> DEFINE k == Key(c)
  <2>1. k \in IdemKeys /\ opRows[k] # Nil /\ Len(opEvents[k]) = 1
    BY <1>14, KeyType DEF AuditInv, Working
  <2> HIDE DEF k
  <2>2. /\ \A j \in IdemKeys : j # k => opEvents'[j] = opEvents[j]
        /\ Len(opEvents'[k]) = 2 /\ opEvents'[k] # <<>>
        /\ opEvents'[k][1] = opEvents[k][1] /\ opEvents'[k][2] = e
    <3>1. AppendEvent(k, e) /\ e \in Events
      BY <1>14 DEF k
    <3>2. /\ \A j \in IdemKeys : j # k => opEvents'[j] = opEvents[j]
          /\ Len(opEvents'[k]) = Len(opEvents[k]) + 1
          /\ opEvents'[k] # <<>>
          /\ \A i \in 1..Len(opEvents[k]) : opEvents'[k][i] = opEvents[k][i]
          /\ opEvents'[k][Len(opEvents[k]) + 1] = e
      BY <2>1, <3>1, AppendEffect
    <3> QED
      BY <2>1, <3>2
  <2>3. OneOutcomePerOperation'
    <3>1. ASSUME NEW j \in IdemKeys
          PROVE  Len(opEvents'[j]) <= 2 /\ (opRows'[j] # Nil <=> opEvents'[j] # <<>>)
      <4>1. CASE j = k
        <5>1. Len(opEvents'[j]) = 2 /\ opEvents'[j] # <<>> /\ opRows'[j] # Nil
          BY <1>14, <2>1, <2>2, <4>1, Zenon
        <5> QED
          BY <5>1
      <4> QED
        BY <1>14, <2>2, <4>1 DEF AuditInv, OneOutcomePerOperation
    <3>2. ASSUME NEW j \in IdemKeys, NEW i \in 1..Len(opEvents'[j])
          PROVE  opEvents'[j][i].type = "started" <=> i = 1
      <4>1. opEvents[k][1].type = "started"
        BY <2>1 DEF AuditInv, OneOutcomePerOperation
      <4>2. CASE j = k
        BY <1>14, <2>2, <3>2, <4>1, <4>2
      <4> QED
        BY <2>2, <3>2, <4>2 DEF AuditInv, OneOutcomePerOperation
    <3> QED
      BY <3>1, <3>2 DEF OneOutcomePerOperation
  <2>4. \A d \in Callers : pc'[d] \notin Working
    BY <1>14, Alone DEF Answer, Goto, Working, Running, TypeOK, CoroutinesOK
  <2> QED
    BY <2>3, <2>4 DEF AuditInv, Working
<1>15. ASSUME NEW c \in Callers, Commit(c) PROVE AuditInv'
  <2>1. \A type \in {"applied", "rolled_back"} :
           /\ Event(type, frame.cur, frame.new, "none") \in Events
           /\ Event(type, frame.cur, frame.new, "none").type # "started"
    BY DEF Event, Events, Codes, TypeOK, CoroutinesOK, Frames
  <2> QED
    BY <1>6, <1>14, <1>15, <2>1 DEF Commit, At, Running, Fail, Interrupt
<1>16. ASSUME NEW c \in Callers, AuditFailure(c) PROVE AuditInv'
  <2>1. \A v \in {frame.new, frame.cur} :
           /\ Event("failed", v, frame.cur, frame.code) \in Events
           /\ Event("failed", v, frame.cur, frame.code).type # "started"
    BY DEF Event, Events, TypeOK, CoroutinesOK, Frames
  <2> QED
    BY <1>4, <1>14, <1>16, <2>1 DEF AuditFailure, At, Running
<1>17. CASE CoolDown
  BY <1>1, <1>17 DEF CoolDown, store
<1>18. CASE Restart
  BY <1>1, <1>18 DEF Restart, Working, Running
<1>19. CASE UNCHANGED vars
  BY <1>1, <1>19 DEF vars
<1> QED
  BY <1>2, <1>3, <1>7, <1>8, <1>9, <1>10, <1>11, <1>12, <1>13, <1>15, <1>16, <1>17,
     <1>18, <1>19 DEF Next, Step

-----------------------------------------------------------------------------
AuditedInv == CoreInv /\ AuditInv

LEMMA AuditedInvariant == Spec => []AuditedInv
<1>1. Init => AuditInv
  BY DEF Init, AuditInv, OneOutcomePerOperation, Running
<1>2. AuditedInv /\ [Next]_vars => AuditedInv'
  <2>1. CoreInv /\ [Next]_vars => CoreInv'
    BY TypeStep, LockStep, FrameStep DEF CoreInv
  <2> QED
    BY <2>1, AuditStep DEF AuditedInv
<1> QED
  BY <1>1, <1>2, CoreInvariant, PTL DEF Spec, AuditedInv

\* The coroutine that holds the lock in these stages has an operation without
\* an outcome.
LEMMA NotYetCommitted ==
  ASSUME AuditedInv, NEW c \in Callers, pc[c] \in Working
  PROVE  Key(c) \in IdemKeys /\ ~ Committed(Key(c))
<1>1. Key(c) \in IdemKeys
  BY KeyType DEF AuditedInv, CoreInv
<1>2. CASE pc[c] = "reserve"
  BY <1>1, <1>2 DEF AuditedInv, AuditInv, Committed
<1>3. CASE pc[c] \in Running
  BY <1>1, <1>3 DEF AuditedInv, AuditInv, OneOutcomePerOperation, Committed, Latest, Successes
<1> QED
  BY <1>1, <1>2, <1>3 DEF Working

\* What was committed stays committed, under the same versions.
LEMMA CommittedStay ==
  ASSUME AuditedInv, [Next]_vars, NEW k \in IdemKeys, Committed(k)
  PROVE  Committed(k)' /\ Latest(k)' = Latest(k) /\ opRows'[k] = opRows[k]
<1>1. CASE opRows'[k] = opRows[k] /\ opEvents'[k] = opEvents[k]
  BY <1>1 DEF Committed, Latest
<1>2. ASSUME NEW c \in Callers, pc[c] \in Working,
             \/ opRows' = opRows \/ opRows' = [opRows EXCEPT ![Key(c)] = call[c]],
             \/ opEvents' = opEvents \/ \E e : AppendEvent(Key(c), e)
      PROVE  opRows'[k] = opRows[k] /\ opEvents'[k] = opEvents[k]
  <2>1. Key(c) # k
    BY <1>2, NotYetCommitted
  <2> QED
    BY <1>2, <2>1 DEF AuditedInv, CoreInv, TypeOK, StoreOK, AppendEvent
<1>3. CASE UNCHANGED <<opRows, opEvents>>
  BY <1>1, <1>3
<1>4. ASSUME NEW c \in Callers, Step(c) PROVE opRows'[k] = opRows[k] /\ opEvents'[k] = opEvents[k]
  <2>1. CASE LookupFails(c) \/ LookupFinds(c) \/ LookupMisses(c) \/ ReserveFails(c) \/ LoadDraft(c)
             \/ Verify(c) \/ Restore(c) \/ Reverify(c)
    BY <2>1 DEF LookupFails, LookupFinds, LookupMisses, ReserveFails, LoadDraft, Verify, Restore,
        Reverify, store
  <2>2. CASE RecordCurrent(c) \/ RecordReplacement(c)
    BY <2>2 DEF RecordCurrent, RecordReplacement
  <2>3. CASE Reserve(c)
    BY <1>2, <2>3 DEF Reserve, At, Working
  <2>4. CASE Commit(c)
    BY <1>2, <2>4 DEF Commit, At, Working, Running
  <2>5. CASE AuditFailure(c)
    BY <1>2, <2>5 DEF AuditFailure, At, Working, Running
  <2> QED
    BY <1>4, <2>1, <2>2, <2>3, <2>4, <2>5 DEF Step
<1>5. CASE \E d \in Drafts : ReadBaseline(d) \/ StoreDraft(d)
  BY <1>3, <1>5 DEF ReadBaseline, StoreDraft
<1>6. CASE \E c \in Callers : Call(c) \/ CancelWaiting(c) \/ ListingFails(c) \/ Return(c)
  BY <1>3, <1>6 DEF Call, CancelWaiting, ListingFails, Return, store
<1>7. CASE CoolDown \/ Restart \/ UNCHANGED vars
  BY <1>3, <1>7 DEF CoolDown, Restart, vars, store
<1> QED
  BY <1>1, <1>4, <1>5, <1>6, <1>7 DEF Next

-----------------------------------------------------------------------------
(* The commit point *)

\* The step that makes a success of an operation.
Committing(c) ==
    /\ At(c, "commit")
    /\ AppendEvent(Key(c),
          Event(IF call[c].kind = "apply" THEN "applied" ELSE "rolled_back",
                frame.cur, frame.new, "none"))
    /\ \E kind \in {"ok", "cancelled"} : Answer(c, kind, Key(c))
    /\ UNCHANGED <<provider, versions, recentMutation, versionRows, drafts, opRows>>

\* Nothing else moves the versions that are seen through it, but a restart.
LEMMA CommitPoint ==
  ASSUME CoreInv, [Next]_vars
  PROVE  \/ UNCHANGED <<CommittedLive, CommittedUndo>>
         \/ Restart
         \/ \E c \in Callers : Committing(c)
<1> USE DEF CoreInv
<1> DEFINE Same == UNCHANGED <<CommittedLive, CommittedUndo>>
\* The provider and the local variables are left alone.
<1>1. ASSUME UNCHANGED <<current, previous, frame>> PROVE Same
  BY <1>1 DEF CommittedLive, CommittedUndo, Provisional
\* The local variables change outside the stages between swap and outcome.
<1>2. ASSUME NEW c \in Callers, Holds(c), pc[c] \notin Swapped,
             frame'.swap # "done", UNCHANGED <<current, previous>>
      PROVE  Same
  <2>1. frame.swap # "done"
    <3>1. CASE pc[c] \in Running
      BY <1>2, <3>1 DEF FrameInv
    <3>2. CASE pc[c] \notin Running
      <4>1. frame = NoFrame
        BY <1>2, <3>2, Alone DEF FrameInv, Working
      <4> QED
        BY <4>1 DEF NoFrame, Frame
    <3> QED
      BY <3>1, <3>2
  <2> QED
    BY <1>2, <2>1 DEF CommittedLive, CommittedUndo, Provisional
<1>3. ASSUME NEW c \in Callers, NEW kind, NEW op, Answer(c, kind, op) PROVE frame'.swap # "done"
  BY <1>3 DEF Answer, NoFrame, Frame
<1>4. ASSUME NEW c \in Callers, NEW code, NEW via, Abort(c, code, via),
             UNCHANGED <<current, previous>>
      PROVE  Same
  BY <1>4 DEF Abort, Frame, CommittedLive, CommittedUndo, Provisional
<1>5. ASSUME NEW c \in Callers, Step(c) PROVE Same \/ Committing(c)
  <2>1. CASE LookupFails(c) \/ LookupFinds(c) \/ ReserveFails(c)
    BY <1>2, <1>3, <2>1 DEF LookupFails, LookupFinds, ReserveFails, At, Swapped, provider
  <2>2. CASE LookupMisses(c)
    BY <1>1, <1>2, <1>3, <2>2 DEF LookupMisses, At, Swapped, provider, Continue
  <2>3. CASE Reserve(c)
    <3>1. frame'.swap = "none"
      BY <2>3 DEF Reserve, Frame
    <3> QED
      BY <1>2, <2>3, <3>1 DEF Reserve, At, Swapped, provider
  <2>4. CASE LoadDraft(c)
    BY <1>2, <1>4, <2>4 DEF LoadDraft, At, Swapped, provider, Frame, Fail, Interrupt
  <2>5. CASE RecordCurrent(c)
    BY <1>1, <1>4, <2>5 DEF RecordCurrent, provider, Continue, Fail, Interrupt
  <2>6. CASE RecordReplacement(c)
    <3>1. CASE Replace(frame.cur, frame.new)
               /\ frame' = Frame(frame.cur, previous, frame.new, "done", "none", "none")
      <4>1. frame.swap # "done"
        BY <2>6 DEF RecordReplacement, At, FrameInv, Running, Swapped
      <4> QED
        BY <3>1, <4>1 DEF Replace, Frame, CommittedLive, CommittedUndo, Provisional
    <3>2. CASE UNCHANGED provider /\ (Fail(c) \/ Interrupt(c))
      BY <1>4, <3>2 DEF provider, Fail, Interrupt
    <3> QED
      BY <2>6, <3>1, <3>2 DEF RecordReplacement
  <2>7. CASE Verify(c) \/ Reverify(c)
    BY <1>1, <1>4, <2>7 DEF Verify, Reverify, provider, Continue, Fail, Interrupt
  <2>8. CASE Commit(c)
    <3>1. CASE Fail(c) \/ Interrupt(c)
      BY <1>4, <2>8, <3>1 DEF Commit, provider, Fail, Interrupt
    <3> QED
      BY <2>8, <3>1 DEF Commit, Committing
  <2>9. CASE Restore(c)
    <3>1. frame.swap = "done"
      BY <2>9 DEF Restore, At, FrameInv, Running, Swapped
    <3> QED
      BY <2>9, <3>1 DEF Restore, Frame, CommittedLive, CommittedUndo, Provisional
  <2>10. CASE AuditFailure(c)
    BY <1>2, <1>3, <2>10 DEF AuditFailure, At, Swapped, provider
  <2> QED
    BY <1>5, <2>1, <2>2, <2>3, <2>4, <2>5, <2>6, <2>7, <2>8, <2>9, <2>10 DEF Step
<1>6. CASE \E d \in Drafts : ReadBaseline(d) \/ StoreDraft(d)
  BY <1>1, <1>6 DEF ReadBaseline, StoreDraft, provider
<1>7. CASE \E c \in Callers : Call(c) \/ CancelWaiting(c) \/ ListingFails(c) \/ Return(c)
  BY <1>1, <1>7 DEF Call, CancelWaiting, ListingFails, Return, provider
<1>8. CASE CoolDown \/ UNCHANGED vars
  BY <1>1, <1>8 DEF CoolDown, vars, provider
<1> QED
  BY <1>5, <1>6, <1>7, <1>8 DEF Next

\* An event that is appended is the latest one of its operation.
LEMMA Appended ==
  ASSUME AuditedInv, NEW c \in Callers, pc[c] \in Working, NEW e \in Events,
         NEW k, k = Key(c), AppendEvent(k, e)
  PROVE  /\ k \in IdemKeys
         /\ opEvents'[k] # <<>> /\ Latest(k)' = e
         /\ \A j \in IdemKeys : j # k => opEvents'[j] = opEvents[j] /\ Latest(j)' = Latest(j)
<1>1. k \in IdemKeys
  BY KeyType DEF AuditedInv, CoreInv
<1>2. /\ \A j \in IdemKeys : j # k => opEvents'[j] = opEvents[j]
      /\ opEvents'[k] # <<>>
      /\ opEvents'[k][Len(opEvents[k]) + 1] = e
      /\ Len(opEvents'[k]) = Len(opEvents[k]) + 1
  BY <1>1, AppendEffect DEF AuditedInv, CoreInv
<1>3. Latest(k)' = e
  BY <1>2 DEF Latest
<1>4. \A j \in IdemKeys : j # k => Latest(j)' = Latest(j)
  BY <1>2 DEF Latest
<1> QED
  BY <1>1, <1>2, <1>3, <1>4

\* The commit: the operation was open, and what was provisional is in the audit now.
LEMMA CommitEffect ==
  ASSUME AuditedInv, NEW c \in Callers, Committing(c), NEW k, k = Key(c)
  PROVE  /\ k \in IdemKeys /\ opRows' = opRows /\ opRows[k] # Nil
         /\ Latest(k).type = "started"
         /\ Latest(k)'.type \in Successes /\ Latest(k)'.cur = frame.new
         /\ \A j \in IdemKeys : j # k => Latest(j)' = Latest(j)
         /\ CommittedLive = frame.cur /\ CommittedUndo = frame.undo
         /\ CommittedLive' = frame.new /\ CommittedUndo' = frame.cur
<1> USE DEF AuditedInv, CoreInv
<1> DEFINE type == IF call[c].kind = "apply" THEN "applied" ELSE "rolled_back"
           e == Event(type, frame.cur, frame.new, "none")
<1>1. e \in Events /\ e.type \in Successes /\ e.cur = frame.new
  BY DEF Event, Events, Codes, Successes, TypeOK, CoroutinesOK, Frames
<1>2. pc[c] \in Working /\ pc[c] \in Running /\ pc[c] \in Swapped
  BY DEF Committing, At, Working, Running, Swapped
<1>3. AppendEvent(k, e)
  BY DEF Committing
<1>4. /\ k \in IdemKeys /\ Latest(k)' = e
      /\ \A j \in IdemKeys : j # k => Latest(j)' = Latest(j)
  BY <1>1, <1>2, <1>3, Appended
<1>5. opRows[k] # Nil /\ Latest(k).type = "started"
  BY <1>2, <1>4, KeyType DEF AuditInv, OneOutcomePerOperation, Latest
<1>6. frame.swap = "done" /\ current = frame.new /\ previous = frame.cur
  BY <1>2 DEF FrameInv
<1>7. frame'.swap = "none"
  BY DEF Committing, Answer, NoFrame, Frame
<1>8. /\ CommittedLive = frame.cur /\ CommittedUndo = frame.undo
      /\ CommittedLive' = frame.new /\ CommittedUndo' = frame.cur
  BY <1>6, <1>7 DEF Committing, provider, CommittedLive, CommittedUndo, Provisional
<1>9. opRows' = opRows
  BY DEF Committing
<1> HIDE DEF e
<1> QED
  BY <1>1, <1>4, <1>5, <1>8, <1>9

LEMMA LiveStep ==
  AuditedInv /\ OnlyCommittedVersionsStayLive /\ [Next]_vars => OnlyCommittedVersionsStayLive'
<1> SUFFICES ASSUME AuditedInv, OnlyCommittedVersionsStayLive, [Next]_vars
             PROVE  OnlyCommittedVersionsStayLive'
  OBVIOUS
<1>1. CommittedVersions \subseteq CommittedVersions'
  BY CommittedStay DEF CommittedVersions
<1>2. CASE UNCHANGED <<CommittedLive, CommittedUndo>>
  BY <1>1, <1>2 DEF OnlyCommittedVersionsStayLive
<1>3. ASSUME NEW c \in Callers, Committing(c) PROVE OnlyCommittedVersionsStayLive'
  <2>1. PICK k : k = Key(c)
    OBVIOUS
  <2>2. k \in IdemKeys /\ Committed(k)' /\ Latest(k)'.cur = frame.new
    BY <1>3, <2>1, CommitEffect DEF Committed
  <2>3. frame.new \in CommittedVersions'
    BY <2>2 DEF CommittedVersions
  <2>4. frame.cur \in CommittedVersions'
    BY <1>1, <1>3, CommitEffect DEF OnlyCommittedVersionsStayLive
  <2> QED
    BY <1>3, <2>3, <2>4, CommitEffect DEF OnlyCommittedVersionsStayLive
<1>4. CASE Restart
  BY <1>4 DEF Restart, NoFrame, Frame, OnlyCommittedVersionsStayLive, CommittedLive, CommittedUndo,
      Provisional, CommittedVersions
<1> QED
  BY <1>2, <1>3, <1>4, CommitPoint DEF AuditedInv

-----------------------------------------------------------------------------
\* A minted version leaves the values of the others, and with them what is
\* known of the drafts, as they are.
LEMMA MintKeepsValues ==
  ASSUME CoreInv, ValuesInv, NEW content \in Values, Mint(content), drafts' = drafts,
         Consistent(content) \/ content = BaselineValues,
         content["capacity"] = BaselineValues["capacity"]
  PROVE  ValuesInv'
<1>1. /\ \A v \in Versions : values'[v] = values[v]
      /\ values'[minted + 1] = content
      /\ \A v \in Versions' : v \in Versions \/ v = minted + 1
  BY DEF CoreInv, TypeOK, ProviderOK, Mint, Versions
<1>2. \A v \in Versions' : SoundVersion(v)'
  BY <1>1 DEF ValuesInv, SoundVersion
<1>3. \A d \in Drafts : drafts[d].status = "validated" => drafts[d].base \in Versions
  BY DEF CoreInv, TypeOK, StoreOK, NoDraft, Draft
<1>4. \A d \in Drafts : drafts'[d].status = "validated" =>
         Validated(drafts'[d].patch, values'[drafts'[d].base])
  BY <1>1, <1>3 DEF ValuesInv
<1> QED
  BY <1>2, <1>4 DEF ValuesInv

LEMMA ValuesStep == CoreInv /\ ValuesInv /\ [Next]_vars => ValuesInv'
<1> SUFFICES ASSUME CoreInv, ValuesInv, [Next]_vars PROVE ValuesInv'
  OBVIOUS
\* A draft keeps its contents, disappears, or was validated on the live version.
<1>1. ASSUME UNCHANGED versions,
             \A d \in Drafts :
                \/ drafts'[d] = drafts[d]
                \/ drafts'[d].status # "validated"
                \/ /\ drafts'[d].base = drafts[d].base
                   /\ drafts'[d].patch = drafts[d].patch
                   /\ drafts'[d].status = drafts[d].status
                \/ Validated(drafts'[d].patch, values[drafts'[d].base])
      PROVE  ValuesInv'
  BY <1>1 DEF ValuesInv, SoundVersion, Versions, versions
<1>2. CASE UNCHANGED <<versions, drafts>>
  BY <1>1, <1>2
<1>3. ASSUME NEW d \in Drafts, ReadBaseline(d) PROVE ValuesInv'
  <2>1. \A x \in Drafts : \/ drafts'[x] = drafts[x]
                         \/ drafts'[x].status # "validated"
                         \/ Validated(drafts'[x].patch, values[drafts'[x].base])
    BY <1>3 DEF ReadBaseline, Draft, CoreInv, TypeOK, StoreOK
  <2> QED
    BY <1>1, <1>3, <2>1 DEF ReadBaseline
<1>4. ASSUME NEW d \in Drafts, StoreDraft(d) PROVE ValuesInv'
  <2>1. \A x \in Drafts : \/ drafts'[x] = drafts[x]
                         \/ drafts'[x].status # "validated"
                         \/ /\ drafts'[x].base = drafts[x].base
                            /\ drafts'[x].patch = drafts[x].patch
                            /\ drafts'[x].status = drafts[x].status
    BY <1>4 DEF StoreDraft, Draft, NoDraft, CoreInv, TypeOK, StoreOK
  <2> QED
    BY <1>1, <1>4, <2>1 DEF StoreDraft
<1>5. ASSUME NEW c \in Callers, Reserve(c) PROVE ValuesInv'
  <2>1. CASE UNCHANGED versions
    BY <1>2, <1>5, <2>1 DEF Reserve
  <2>2. CASE Mint(values[previous]) /\ call[c].kind = "rollback" /\ call[c].arg = previous
    <3>1. call[c] \in RequestsNaming(Nat)
      BY <1>5, KeyType DEF Reserve, At, Working, CoreInv
    <3>2. previous \in Versions
      BY <2>2, <3>1, ConstantsAssumption
         DEF RequestsNaming, CoreInv, TypeOK, ProviderOK, Versions
    <3> QED
      BY <1>5, <2>2, <3>2, MintKeepsValues
         DEF Reserve, ValuesInv, SoundVersion, CoreInv, TypeOK, ProviderOK
  <2> QED
    BY <1>5, <2>1, <2>2 DEF Reserve, versions
<1>6. ASSUME NEW c \in Callers, LoadDraft(c) PROVE ValuesInv'
  <2> DEFINE d == call[c].arg
             content == Overlay(values[frame.cur], drafts[d].patch)
  <2>1. CASE UNCHANGED versions
    BY <1>2, <1>6, <2>1 DEF LoadDraft, store
  <2>2. CASE Acceptable(d, frame.cur) /\ Mint(content)
    <3>1. d \in Drafts /\ frame.cur \in Versions
      BY <1>6, KeyType DEF LoadDraft, At, CoreInv, FrameInv, Working, Running
    <3>2. values[frame.cur] \in Values
      BY <3>1 DEF CoreInv, TypeOK, ProviderOK
    <3>3. drafts[d].patch \in Patches
      BY <2>2, <3>1 DEF Acceptable, CoreInv, TypeOK, StoreOK, NoDraft, Draft
    <3>4. Consistent(content)
      BY <2>2, <3>1 DEF Acceptable, HotOnly, ValuesInv, Validated
    <3>5. content["capacity"] = values[frame.cur]["capacity"]
      BY <2>2, <3>1 DEF Acceptable, HotOnly, HotParams, Overlay, Params
    <3>6. content \in Values
      BY <3>2, <3>3, OverlayType
    <3> HIDE DEF content
    <3>7. content["capacity"] = BaselineValues["capacity"]
      BY <3>1, <3>5 DEF ValuesInv, SoundVersion
    <3> QED
      BY <1>6, <2>2, <3>4, <3>6, <3>7, MintKeepsValues DEF LoadDraft, store
  <2> QED
    BY <1>6, <2>1, <2>2 DEF LoadDraft
<1>7. ASSUME NEW c \in Callers, Step(c), ~ Reserve(c), ~ LoadDraft(c) PROVE ValuesInv'
  BY <1>2, <1>7 DEF Step, LookupFails, LookupFinds, LookupMisses, ReserveFails, RecordCurrent,
      RecordReplacement, Verify, Commit, Restore, Reverify, AuditFailure, store
<1>8. CASE \E c \in Callers : Call(c) \/ CancelWaiting(c) \/ ListingFails(c) \/ Return(c)
  BY <1>2, <1>8 DEF Call, CancelWaiting, ListingFails, Return, store
<1>9. CASE CoolDown \/ UNCHANGED vars
  BY <1>2, <1>9 DEF CoolDown, vars, store, versions
<1>10. CASE Restart
  <2>1. \A x \in Drafts : drafts'[x] = drafts[x] \/ drafts'[x].status # "validated"
    BY <1>10 DEF Restart, NoDraft, Draft
  <2> QED
    BY <1>1, <1>10, <2>1 DEF Restart
<1> QED
  BY <1>3, <1>4, <1>5, <1>6, <1>7, <1>8, <1>9, <1>10 DEF Next

\* A stored draft is immutable.
LEMMA StoredStay ==
  ASSUME CoreInv, [Next]_vars, NEW d \in Drafts, drafts[d].phase = "stored"
  PROVE  drafts'[d] = drafts[d]
<1>1. CASE UNCHANGED drafts
  BY <1>1
<1>2. CASE \E x \in Drafts : ReadBaseline(x) \/ StoreDraft(x)
  BY <1>2 DEF ReadBaseline, StoreDraft, CoreInv, TypeOK, StoreOK
<1>3. CASE \E c \in Callers : Call(c) \/ CancelWaiting(c) \/ ListingFails(c) \/ Return(c)
  BY <1>3 DEF Call, CancelWaiting, ListingFails, Return, store
<1>4. CASE \E c \in Callers : Step(c)
  BY <1>4 DEF Step, LookupFails, LookupFinds, LookupMisses, ReserveFails, Reserve, LoadDraft,
      RecordCurrent, RecordReplacement, Verify, Commit, Restore, Reverify, AuditFailure, store
<1>5. CASE CoolDown \/ UNCHANGED vars
  BY <1>5 DEF CoolDown, vars, store
<1>6. CASE Restart
  BY <1>6 DEF Restart
<1> QED
  BY <1>2, <1>3, <1>4, <1>5, <1>6 DEF Next

\* So is a version.
LEMMA VersionsStay ==
  ASSUME CoreInv, [Next]_vars, NEW v \in Versions
  PROVE  v \in Versions' /\ values'[v] = values[v]
<1> USE DEF CoreInv, TypeOK, ProviderOK, Versions
<1>1. CASE UNCHANGED versions
  BY <1>1 DEF versions
<1>2. ASSUME NEW content, Mint(content) PROVE v \in Versions' /\ values'[v] = values[v]
  BY <1>2 DEF Mint
<1>3. CASE \E d \in Drafts : ReadBaseline(d) \/ StoreDraft(d)
  BY <1>1, <1>3 DEF ReadBaseline, StoreDraft
<1>4. CASE \E c \in Callers : Call(c) \/ CancelWaiting(c) \/ ListingFails(c) \/ Return(c)
  BY <1>1, <1>4 DEF Call, CancelWaiting, ListingFails, Return
<1>5. ASSUME NEW c \in Callers, Reserve(c) \/ LoadDraft(c)
      PROVE  v \in Versions' /\ values'[v] = values[v]
  BY <1>1, <1>2, <1>5 DEF Reserve, LoadDraft
<1>6. ASSUME NEW c \in Callers, Step(c), ~ Reserve(c), ~ LoadDraft(c)
      PROVE  v \in Versions' /\ values'[v] = values[v]
  BY <1>1, <1>6 DEF Step, LookupFails, LookupFinds, LookupMisses, ReserveFails,
      RecordCurrent, RecordReplacement, Verify, Commit, Restore, Reverify, AuditFailure
<1>7. CASE CoolDown \/ Restart \/ UNCHANGED vars
  BY <1>1, <1>7 DEF CoolDown, Restart, vars, versions
<1> QED
  BY <1>3, <1>4, <1>5, <1>6, <1>7 DEF Next

LEMMA DerivedStays ==
  ASSUME CoreInv, [Next]_vars, NEW d \in Drafts, NEW from \in Versions, NEW to \in Versions,
         Derived(d, from, to)
  PROVE  Derived(d, from, to)'
BY StoredStay, VersionsStay DEF Derived

\* Only a commit makes an operation applied.
LEMMA OnlyCommitApplies ==
  ASSUME AuditedInv, [Next]_vars, NEW k \in IdemKeys,
         (opRows[k] # Nil /\ Latest(k).type = "applied")',
         ~ (opRows[k] # Nil /\ Latest(k).type = "applied")
  PROVE  \E c \in Callers : /\ Commit(c) /\ Key(c) = k /\ call[c].kind = "apply"
                            /\ Latest(k)' = Event("applied", frame.cur, frame.new, "none")
<1> USE DEF AuditedInv, CoreInv
<1>1. CASE UNCHANGED <<opRows, opEvents>>
  BY <1>1 DEF Latest
\* The event that is appended is the latest one.
<1>2. ASSUME NEW c \in Callers, pc[c] \in Working, NEW e \in Events, AppendEvent(Key(c), e),
             \A j \in IdemKeys : j # Key(c) => opRows'[j] = opRows[j]
      PROVE  Key(c) = k /\ Latest(k)' = e
  <2>1. Key(c) \in IdemKeys
    BY <1>2, KeyType
  <2>2. /\ \A j \in IdemKeys : j # Key(c) => opEvents'[j] = opEvents[j]
        /\ opEvents'[Key(c)][Len(opEvents[Key(c)]) + 1] = e
        /\ Len(opEvents'[Key(c)]) = Len(opEvents[Key(c)]) + 1
    BY <1>2, <2>1, AppendEffect
  <2>3. Key(c) = k
    <3>1. SUFFICES ASSUME Key(c) # k PROVE FALSE
      OBVIOUS
    <3>2. opEvents'[k] = opEvents[k] /\ opRows'[k] = opRows[k]
      BY <1>2, <2>2, <3>1
    <3> QED
      BY <3>2 DEF Latest
  <2>4. Latest(k)' = opEvents'[k][Len(opEvents'[k])]
    BY DEF Latest
  <2>5. opEvents'[k][Len(opEvents'[k])] = e
    BY <2>2, <2>3
  <2> QED
    BY <2>3, <2>4, <2>5
<1>3. ASSUME NEW c \in Callers, Reserve(c) PROVE FALSE
  <2>1. Event("started", Nil, Nil, "none") \in Events
    BY DEF Event, Events, Codes
  <2>2. pc[c] \in Working
    BY <1>3 DEF Reserve, At, Working
  <2>3. \A j \in IdemKeys : j # Key(c) => opRows'[j] = opRows[j]
    BY <1>3 DEF Reserve, TypeOK, StoreOK
  <2>4. Latest(k)' = Event("started", Nil, Nil, "none")
    BY <1>2, <1>3, <2>1, <2>2, <2>3 DEF Reserve
  <2> QED
    BY <2>4 DEF Event
<1>4. ASSUME NEW c \in Callers, AuditFailure(c) PROVE FALSE
  <2>1. \A v \in {frame.new, frame.cur} : /\ Event("failed", v, frame.cur, frame.code) \in Events
                                         /\ Event("failed", v, frame.cur, frame.code).type = "failed"
    BY DEF Event, Events, TypeOK, CoroutinesOK, Frames
  <2>2. CASE UNCHANGED opEvents
    BY <1>1, <1>4, <2>2 DEF AuditFailure, Latest
  <2>3. CASE \E v \in {frame.new, frame.cur} :
                AppendEvent(Key(c), Event("failed", v, frame.cur, frame.code))
    BY <1>2, <1>4, <2>1, <2>3 DEF AuditFailure, At, Working, Running
  <2> QED
    BY <1>4, <2>2, <2>3 DEF AuditFailure
<1>5. ASSUME NEW c \in Callers, Commit(c)
      PROVE  /\ Key(c) = k /\ call[c].kind = "apply"
             /\ Latest(k)' = Event("applied", frame.cur, frame.new, "none")
  <2>1. \A type \in {"applied", "rolled_back"} : Event(type, frame.cur, frame.new, "none") \in Events
    BY DEF Event, Events, Codes, TypeOK, CoroutinesOK, Frames
  <2> DEFINE type == IF call[c].kind = "apply" THEN "applied" ELSE "rolled_back"
  <2>2. CASE UNCHANGED opEvents
    BY <1>5, <2>2 DEF Commit, Latest
  <2>3. CASE AppendEvent(Key(c), Event(type, frame.cur, frame.new, "none"))
    <3>1. Key(c) = k /\ Latest(k)' = Event(type, frame.cur, frame.new, "none")
      BY <1>2, <1>5, <2>1, <2>3 DEF Commit, At, Working, Running
    <3>2. type = "applied"
      BY <3>1 DEF Event
    <3> QED
      BY <3>1, <3>2
  <2> QED
    BY <1>5, <2>2, <2>3 DEF Commit
<1>6. ASSUME NEW c \in Callers, Step(c), ~ Reserve(c), ~ Commit(c), ~ AuditFailure(c)
      PROVE  FALSE
  BY <1>1, <1>6 DEF Step, LookupFails, LookupFinds, LookupMisses, ReserveFails, LoadDraft,
      RecordCurrent, RecordReplacement, Verify, Restore, Reverify, store, Latest
<1>7. CASE \E d \in Drafts : ReadBaseline(d) \/ StoreDraft(d)
  BY <1>1, <1>7 DEF ReadBaseline, StoreDraft
<1>8. CASE \E c \in Callers : Call(c) \/ CancelWaiting(c) \/ ListingFails(c) \/ Return(c)
  BY <1>1, <1>8 DEF Call, CancelWaiting, ListingFails, Return, store
<1>9. CASE CoolDown \/ Restart \/ UNCHANGED vars
  BY <1>1, <1>9 DEF CoolDown, Restart, vars, store
<1> QED
  BY <1>3, <1>4, <1>5, <1>6, <1>7, <1>8, <1>9 DEF Next

\* A coroutine on its way to a commit is the one it was, with the versions it
\* works on, or has just entered apply or rollback or loaded its draft.
LEMMA StillMaking ==
  ASSUME CoreInv, [Next]_vars, NEW c \in Callers, pc'[c] \in {"loadDraft"} \cup Minted
  PROVE  \/ /\ pc[c] \in {"loadDraft"} \cup Minted
            /\ pc'[c] \in Minted <=> pc[c] \in Minted
            /\ call'[c] = call[c] /\ frame'.cur = frame.cur /\ frame'.new = frame.new
         \/ Reserve(c) \/ LoadDraft(c)
<1> USE DEF CoreInv
<1> DEFINE Same == /\ pc[c] \in {"loadDraft"} \cup Minted
                   /\ pc'[c] \in Minted <=> pc[c] \in Minted
                   /\ call'[c] = call[c] /\ frame'.cur = frame.cur /\ frame'.new = frame.new
<1>1. ASSUME pc'[c] = pc[c], call'[c] = call[c], frame' = frame PROVE Same
  BY <1>1
<1>2. ASSUME NEW d \in Callers, Step(d), d # c PROVE FALSE
  <2>1. Holds(d)
    BY <1>2 DEF Step, At, LookupFails, LookupFinds, LookupMisses, ReserveFails, Reserve, LoadDraft,
        RecordCurrent, RecordReplacement, Verify, Commit, Restore, Reverify, AuditFailure
  <2>2. pc'[c] = pc[c]
    BY <1>2, StepShape
  <2>3. pc[c] \notin Working
    BY <1>2, <2>1, Alone
  <2> QED
    BY <2>2, <2>3 DEF Working, Running, Minted
<1>3. ASSUME NEW kind, NEW op, Answer(c, kind, op) PROVE FALSE
  BY <1>3 DEF Answer, Goto, TypeOK, CoroutinesOK, Minted
<1>4. ASSUME NEW code, NEW via, Abort(c, code, via) PROVE FALSE
  BY <1>4 DEF Abort, Goto, TypeOK, CoroutinesOK, Minted
<1>5. ASSUME NEW stage \in Minted, pc[c] \in Minted, Continue(c, stage) PROVE Same
  BY <1>5 DEF Continue, Goto, TypeOK, CoroutinesOK, Minted
<1>6. CASE LookupFails(c) \/ LookupFinds(c) \/ ReserveFails(c)
  BY <1>3, <1>6 DEF LookupFails, LookupFinds, ReserveFails
<1>7. CASE LookupMisses(c)
  BY <1>3, <1>7 DEF LookupMisses, Continue, Goto, TypeOK, CoroutinesOK, Minted
<1>8. CASE RecordCurrent(c)
  BY <1>4, <1>5, <1>8 DEF RecordCurrent, At, Fail, Interrupt, Minted
<1>9. CASE RecordReplacement(c)
  <2>1. CASE /\ frame' = Frame(frame.cur, previous, frame.new, "done", "none", "none")
             /\ Goto(c, "verify")
             /\ UNCHANGED <<queue, call, reply>>
    BY <1>9, <2>1 DEF RecordReplacement, At, Goto, Frame, TypeOK, CoroutinesOK, Minted
  <2> QED
    BY <1>4, <1>9, <2>1 DEF RecordReplacement, Fail, Interrupt
<1>10. CASE Verify(c) \/ Commit(c)
  BY <1>3, <1>4, <1>5, <1>10 DEF Verify, Commit, At, Fail, Interrupt, Minted
<1>11. CASE Restore(c) \/ Reverify(c) \/ AuditFailure(c)
  BY <1>3, <1>11 DEF Restore, Reverify, AuditFailure, Continue, Goto, TypeOK, CoroutinesOK, Minted
<1>12. CASE Step(c)
  BY <1>6, <1>7, <1>8, <1>9, <1>10, <1>11, <1>12 DEF Step
<1>13. CASE \E d \in Drafts : ReadBaseline(d) \/ StoreDraft(d)
  BY <1>1, <1>13 DEF ReadBaseline, StoreDraft
<1>14. CASE \E d \in Callers : Call(d) \/ CancelWaiting(d) \/ ListingFails(d) \/ Return(d)
  BY <1>14 DEF Call, CancelWaiting, ListingFails, Return, Goto, TypeOK, CoroutinesOK, Minted
<1>15. CASE CoolDown \/ UNCHANGED vars
  BY <1>1, <1>15 DEF CoolDown, vars
<1>16. CASE Restart
  BY <1>16 DEF Restart, Minted
<1> QED
  BY <1>2, <1>12, <1>13, <1>14, <1>15, <1>16 DEF Next

\* What it works on after entering apply and after loading the draft.
LEMMA StartMaking ==
  ASSUME CoreInv, [Next]_vars, NEW c \in Callers, Reserve(c) \/ LoadDraft(c),
         BaseInv
  PROVE  /\ pc'[c] = "loadDraft" => call'[c].expected = frame'.cur
         /\ (pc'[c] \in Minted /\ call'[c].kind = "apply") =>
               /\ call'[c].expected = frame'.cur
               /\ Derived(call[c].arg, frame.cur, frame.new)'
<1> USE DEF CoreInv
<1>1. CASE Reserve(c)
  <2>1. call' = call /\ frame'.cur = current
    BY <1>1 DEF Reserve, Frame
  <2>2. \/ pc'[c] = "auditFailure"
        \/ pc'[c] = "loadDraft" /\ call[c].expected = current
        \/ pc'[c] = "recordCurrent" /\ call[c].kind = "rollback"
    BY <1>1 DEF Reserve, Goto, TypeOK, CoroutinesOK
  <2> QED
    BY <2>1, <2>2 DEF Minted
<1>2. CASE LoadDraft(c)
  <2>1. CASE pc'[c] \notin {"loadDraft"} \cup Minted
    BY <2>1
  <2>2. CASE Fail(c) \/ Interrupt(c) \/ Abort(c, "version_conflict", "error")
    <3>1. pc'[c] \notin {"loadDraft"} \cup Minted
      BY <2>2 DEF Fail, Interrupt, Abort, Goto, TypeOK, CoroutinesOK, Minted
    <3> QED
      BY <2>1, <3>1
  <2>3. CASE /\ Acceptable(call[c].arg, frame.cur)
             /\ Mint(Overlay(values[frame.cur], drafts[call[c].arg].patch))
             /\ frame' = Frame(frame.cur, Nil, minted + 1, "none", "none", "none")
             /\ Goto(c, "recordCurrent")
             /\ UNCHANGED <<queue, call, reply>>
    <3>1. pc[c] = "loadDraft" /\ drafts' = drafts
      BY <1>2 DEF LoadDraft, At, store
    <3>2. pc'[c] = "recordCurrent"
      BY <2>3 DEF Goto, TypeOK, CoroutinesOK
    <3>3. frame'.cur = frame.cur /\ frame'.new = minted + 1
      BY <2>3 DEF Frame
    <3>4. call[c].expected = frame.cur
      BY <3>1 DEF BaseInv
    <3>5. frame.cur \in Versions
      BY <3>1 DEF FrameInv, Running
    <3>6. /\ values'[frame.cur] = values[frame.cur]
          /\ values'[minted + 1] = Overlay(values[frame.cur], drafts[call[c].arg].patch)
      BY <2>3, <3>5 DEF Mint, TypeOK, ProviderOK, Versions
    <3>7. drafts[call[c].arg].phase = "stored" /\ drafts[call[c].arg].base = frame.cur
      BY <2>3 DEF Acceptable
    <3>8. Derived(call[c].arg, frame.cur, frame.new)'
      BY <2>3, <3>1, <3>3, <3>6, <3>7 DEF Derived
    <3> QED
      BY <2>3, <3>2, <3>3, <3>4, <3>8
  <2> QED
    BY <1>2, <2>2, <2>3 DEF LoadDraft
<1> QED
  BY <1>1, <1>2

LEMMA BaseStep == AuditedInv /\ BaseInv /\ [Next]_vars => BaseInv'
<1> SUFFICES ASSUME AuditedInv, BaseInv, [Next]_vars PROVE BaseInv'
  OBVIOUS
<1>0. CoreInv
  BY DEF AuditedInv
<1>1. ASSUME NEW k \in IdemKeys, (opRows[k] # Nil /\ Latest(k).type = "applied")'
      PROVE  (/\ opRows[k].kind = "apply"
              /\ opRows[k].expected = Latest(k).prev
              /\ Latest(k).prev \in Versions
              /\ Latest(k).cur \in Versions
              /\ opRows[k].arg \in Drafts
              /\ Derived(opRows[k].arg, Latest(k).prev, Latest(k).cur))'
  <2>1. CASE opRows[k] # Nil /\ Latest(k).type = "applied"
    <3>1. Committed(k)
      BY <2>1 DEF Committed, Successes
    <3>2. Latest(k)' = Latest(k) /\ opRows'[k] = opRows[k]
      BY <3>1, CommittedStay
    <3>3. /\ opRows[k].kind = "apply"
          /\ opRows[k].expected = Latest(k).prev
          /\ Latest(k).prev \in Versions
          /\ Latest(k).cur \in Versions
          /\ opRows[k].arg \in Drafts
          /\ Derived(opRows[k].arg, Latest(k).prev, Latest(k).cur)
      BY <2>1 DEF BaseInv
    <3>4. Latest(k).prev \in Versions' /\ Latest(k).cur \in Versions'
      BY <1>0, <3>3, VersionsStay
    <3>5. Derived(opRows[k].arg, Latest(k).prev, Latest(k).cur)'
      <4>1. \A d, u, v : /\ d \in Drafts /\ u \in Versions /\ v \in Versions
                         /\ Derived(d, u, v)
                         => /\ drafts'[d].phase = "stored" /\ drafts'[d].base = u
                            /\ values'[v] = Overlay(values'[u], drafts'[d].patch)
        BY <1>0, DerivedStays DEF Derived
      <4> QED
        BY <3>2, <3>3, <4>1 DEF Derived
    <3> QED
      BY <3>2, <3>3, <3>4, <3>5
  <2>2. CASE ~ (opRows[k] # Nil /\ Latest(k).type = "applied")
    <3>1. PICK c \in Callers : /\ Commit(c) /\ Key(c) = k /\ call[c].kind = "apply"
                               /\ Latest(k)' = Event("applied", frame.cur, frame.new, "none")
      BY <1>1, <2>2, OnlyCommitApplies
    <3>2. pc[c] = "commit" /\ opRows' = opRows
      BY <3>1 DEF Commit, At
    <3>3. opRows[k] = call[c]
      BY <3>1, <3>2 DEF AuditedInv, AuditInv, Running
    <3>4. Latest(k)'.prev = frame.cur /\ Latest(k)'.cur = frame.new
      BY <3>1 DEF Event
    <3>5. frame.cur \in Versions /\ frame.new \in Versions
      BY <1>0, <3>2 DEF CoreInv, FrameInv, Running, Minted
    <3>6. call[c].expected = frame.cur /\ Derived(call[c].arg, frame.cur, frame.new)
      BY <3>1, <3>2 DEF BaseInv, Minted
    <3>7. call[c].arg \in Drafts
      BY <1>0, <3>1, <3>2, KeyType DEF CoreInv, Working, Running
    <3>8. frame.cur \in Versions' /\ frame.new \in Versions'
      BY <1>0, <3>5, VersionsStay
    <3>9. Derived(opRows[k].arg, Latest(k).prev, Latest(k).cur)'
      <4>1. /\ drafts'[call[c].arg] = drafts[call[c].arg]
            /\ values'[frame.cur] = values[frame.cur]
            /\ values'[frame.new] = values[frame.new]
        BY <1>0, <3>5, <3>6, <3>7, StoredStay, VersionsStay DEF Derived
      <4> QED
        BY <3>2, <3>3, <3>4, <3>6, <4>1 DEF Derived
    <3> QED
      BY <3>1, <3>2, <3>3, <3>4, <3>6, <3>7, <3>8, <3>9
  <2> QED
    BY <2>1, <2>2
<1>2. ASSUME NEW c \in Callers, pc'[c] \in {"loadDraft"} \cup Minted
      PROVE  (/\ pc[c] = "loadDraft" => call[c].expected = frame.cur
              /\ (pc[c] \in Minted /\ call[c].kind = "apply") =>
                    /\ call[c].expected = frame.cur
                    /\ Derived(call[c].arg, frame.cur, frame.new))'
  <2>1. CASE Reserve(c) \/ LoadDraft(c)
    BY <1>0, <2>1, StartMaking
  <2>2. CASE /\ pc[c] \in {"loadDraft"} \cup Minted
             /\ pc'[c] \in Minted <=> pc[c] \in Minted
             /\ call'[c] = call[c] /\ frame'.cur = frame.cur /\ frame'.new = frame.new
    <3>1. CASE pc[c] \notin Minted
      BY <1>2, <2>2, <3>1 DEF BaseInv
    <3>2. CASE pc[c] \in Minted /\ call[c].kind # "apply"
      BY <2>2, <3>2 DEF Minted
    <3>3. CASE pc[c] \in Minted /\ call[c].kind = "apply"
      <4>1. call[c].expected = frame.cur /\ Derived(call[c].arg, frame.cur, frame.new)
        BY <3>3 DEF BaseInv
      <4>2. frame.cur \in Versions /\ frame.new \in Versions
        BY <1>0, <3>3 DEF CoreInv, FrameInv, Running, Minted
      <4>3. call[c].arg \in Drafts
        BY <1>0, <3>3, KeyType DEF CoreInv, Working, Running, Minted
      <4>4. /\ drafts'[call[c].arg] = drafts[call[c].arg]
            /\ values'[frame.cur] = values[frame.cur]
            /\ values'[frame.new] = values[frame.new]
        BY <1>0, <4>1, <4>2, <4>3, StoredStay, VersionsStay DEF Derived
      <4>5. Derived(call[c].arg, frame.cur, frame.new)'
        BY <2>2, <4>1, <4>4 DEF Derived
      <4> QED
        BY <2>2, <3>3, <4>1, <4>5 DEF Minted
    <3> QED
      BY <3>1, <3>2, <3>3
  <2> QED
    BY <1>0, <1>2, <2>1, <2>2, StillMaking
<1> QED
  BY <1>1, <1>2 DEF BaseInv

-----------------------------------------------------------------------------
(* Version rows *)

RecordOf(c) ==
    /\ pc[c] \in {"recordReplacement"} \cup Swapped => frame.cur \in versionRows
    /\ pc[c] \in Swapped =>
          /\ frame.new \in versionRows
          /\ frame.cur # Baseline => frame.undo # Nil /\ frame.undo \in versionRows

\* What an operation will swap, or has swapped and may put back, is recorded.
RecordInv == RecordedBeforeLive /\ \A c \in Callers : RecordOf(c)

LEMMA RecordStep == CoreInv /\ RecordInv /\ [Next]_vars => RecordInv'
<1> SUFFICES ASSUME CoreInv, RecordInv, [Next]_vars PROVE RecordInv'
  OBVIOUS
<1> USE ConstantsAssumption DEF CoreInv
\* Rows are only added.
<1>1. ASSUME UNCHANGED provider, versionRows \subseteq versionRows' PROVE RecordedBeforeLive'
  BY <1>1 DEF RecordInv, RecordedBeforeLive, provider
<1>2. ASSUME NEW c \in Callers, Step(c), RecordedBeforeLive', RecordOf(c)' PROVE RecordInv'
  <2>1. Holds(c)
    BY <1>2 DEF Step, LookupFails, LookupFinds, LookupMisses, ReserveFails, Reserve, LoadDraft,
                RecordCurrent, RecordReplacement, Verify, Commit, Restore, Reverify,
                AuditFailure, At
  <2>2. \A d \in Callers : d # c => pc'[d] \notin {"recordReplacement"} \cup Swapped
    BY <1>2, <2>1, StepShape DEF LockInv, Working, Running, Swapped, Holds
  <2> QED
    BY <1>2, <2>2 DEF RecordInv, RecordOf
<1>3. ASSUME NEW c \in Callers, NEW kind, NEW op, Answer(c, kind, op) PROVE RecordOf(c)'
  BY <1>3 DEF Answer, Goto, RecordOf, Swapped, TypeOK, CoroutinesOK
<1>4. ASSUME NEW c \in Callers, pc[c] \in Running, NEW code, NEW via, Abort(c, code, via),
             versionRows \subseteq versionRows'
      PROVE  RecordOf(c)'
  <2>1. /\ pc'[c] \in {"restore", "auditFailure"}
        /\ pc'[c] = "restore" => frame.swap = "done"
        /\ frame'.cur = frame.cur /\ frame'.undo = frame.undo /\ frame'.new = frame.new
    BY <1>4 DEF Abort, Goto, Frame, TypeOK, CoroutinesOK
  <2>2. pc'[c] = "restore" => pc[c] \in Swapped
    BY <1>4, <2>1 DEF FrameInv
  <2> QED
    BY <1>4, <2>1, <2>2 DEF RecordInv, RecordOf, Swapped
<1>5. ASSUME NEW c \in Callers, pc'[c] \notin {"recordReplacement"} \cup Swapped
      PROVE  RecordOf(c)'
  BY <1>5 DEF RecordOf
<1>6. ASSUME NEW c \in Callers, Step(c) PROVE RecordInv'
  <2>1. CASE LookupFails(c) \/ LookupFinds(c) \/ ReserveFails(c) \/ AuditFailure(c)
    <3>1. RecordOf(c)'
      BY <1>3, <2>1 DEF LookupFails, LookupFinds, ReserveFails, AuditFailure
    <3>2. UNCHANGED provider /\ versionRows' = versionRows
      BY <2>1 DEF LookupFails, LookupFinds, ReserveFails, AuditFailure, store
    <3> QED
      BY <1>1, <1>2, <1>6, <3>1, <3>2
  <2>2. CASE LookupMisses(c) \/ Reserve(c) \/ Reverify(c)
    <3>1. pc'[c] \notin {"recordReplacement"} \cup Swapped
      BY <2>2 DEF LookupMisses, Reserve, Reverify, Answer, Continue, Goto, Swapped, TypeOK,
                  CoroutinesOK
    <3>2. UNCHANGED provider /\ versionRows' = versionRows
      BY <2>2 DEF LookupMisses, Reserve, Reverify, store
    <3> QED
      BY <1>1, <1>2, <1>5, <1>6, <3>1, <3>2
  <2>3. CASE LoadDraft(c)
    <3>1. UNCHANGED provider /\ versionRows' = versionRows /\ pc[c] \in Running
      BY <2>3 DEF LoadDraft, store, At, Running
    <3>2. RecordOf(c)'
      <4>1. CASE Goto(c, "recordCurrent")
        BY <1>5, <4>1 DEF Goto, Swapped, TypeOK, CoroutinesOK
      <4>2. CASE ~ Goto(c, "recordCurrent")
        BY <1>4, <2>3, <3>1, <4>2 DEF LoadDraft, Fail, Interrupt
      <4> QED
        BY <4>1, <4>2
    <3> QED
      BY <1>1, <1>2, <1>6, <3>1, <3>2
  <2>4. CASE RecordCurrent(c)
    <3>1. /\ UNCHANGED provider /\ versionRows \subseteq versionRows' /\ pc[c] \in Running
          /\ \/ versionRows' = versionRows \cup {frame.cur} /\ Continue(c, "recordReplacement")
             \/ Fail(c) \/ Interrupt(c)
      BY <2>4 DEF RecordCurrent, At, Running
    <3>2. RecordOf(c)'
      <4>1. CASE versionRows' = versionRows \cup {frame.cur} /\ Continue(c, "recordReplacement")
        BY <4>1 DEF Continue, Goto, RecordOf, Swapped, TypeOK, CoroutinesOK
      <4>2. CASE Fail(c) \/ Interrupt(c)
        BY <1>4, <3>1, <4>2 DEF Fail, Interrupt
      <4> QED
        BY <3>1, <4>1, <4>2
    <3> QED
      BY <1>1, <1>2, <1>6, <3>1, <3>2
  <2>5. CASE RecordReplacement(c)
    <3>1. CASE /\ versionRows' = versionRows \cup {frame.new}
               /\ Replace(frame.cur, frame.new)
               /\ frame' = Frame(frame.cur, previous, frame.new, "done", "none", "none")
               /\ Goto(c, "verify")
      <4>1. frame.cur \in versionRows /\ frame.cur \in Nat
        BY <2>5 DEF RecordReplacement, At, RecordInv, RecordOf, FrameInv, Running, Versions,
                    TypeOK, ProviderOK
      <4>2. RecordedBeforeLive'
        BY <3>1, <4>1 DEF Replace, RecordedBeforeLive
      <4>3. frame'.cur = frame.cur /\ frame'.undo = previous /\ frame'.new = frame.new
        BY <3>1 DEF Frame
      <4>4. RecordOf(c)'
        BY <3>1, <4>1, <4>3 DEF Replace, RecordInv, RecordedBeforeLive, RecordOf
      <4> QED
        BY <1>2, <1>6, <4>2, <4>4
    <3>2. CASE UNCHANGED provider /\ versionRows \subseteq versionRows' /\ (Fail(c) \/ Interrupt(c))
      <4>1. pc[c] \in Running
        BY <2>5 DEF RecordReplacement, At, Running
      <4>2. RecordOf(c)'
        BY <1>4, <3>2, <4>1 DEF Fail, Interrupt
      <4> QED
        BY <1>1, <1>2, <1>6, <3>2, <4>2
    <3> QED
      BY <2>5, <3>1, <3>2 DEF RecordReplacement
  <2>6. CASE Verify(c)
    <3>1. UNCHANGED provider /\ versionRows' = versionRows /\ pc[c] = "verify"
      BY <2>6 DEF Verify, store, At
    <3>2. RecordOf(c)'
      <4>1. CASE Continue(c, "commit")
        BY <3>1, <4>1 DEF Continue, Goto, RecordInv, RecordOf, Swapped, TypeOK, CoroutinesOK
      <4>2. CASE Fail(c) \/ Interrupt(c)
        BY <1>4, <3>1, <4>2 DEF Fail, Interrupt, Running
      <4> QED
        BY <2>6, <4>1, <4>2 DEF Verify
    <3> QED
      BY <1>1, <1>2, <1>6, <3>1, <3>2
  <2>7. CASE Commit(c)
    <3>1. UNCHANGED provider /\ versionRows' = versionRows /\ pc[c] \in Running
      BY <2>7 DEF Commit, At, Running
    <3>2. RecordOf(c)'
      BY <1>3, <1>4, <2>7, <3>1 DEF Commit, Fail, Interrupt
    <3> QED
      BY <1>1, <1>2, <1>6, <3>1, <3>2
  <2>8. CASE Restore(c)
    <3>1. /\ current' = frame.cur /\ previous' = frame.undo /\ versionRows' = versionRows
          /\ pc[c] = "restore" /\ pc'[c] = "reverify"
      BY <2>8 DEF Restore, At, Goto, store, TypeOK, CoroutinesOK
    <3>2. RecordedBeforeLive'
      BY <3>1 DEF RecordInv, RecordOf, Swapped, RecordedBeforeLive
    <3>3. RecordOf(c)'
      BY <1>5, <3>1 DEF Swapped
    <3> QED
      BY <1>2, <1>6, <3>2, <3>3
  <2> QED
    BY <1>6, <2>1, <2>2, <2>3, <2>4, <2>5, <2>6, <2>7, <2>8 DEF Step
<1>7. ASSUME UNCHANGED <<provider, frame, versionRows>>,
             \A c \in Callers : pc'[c] \in {"recordReplacement"} \cup Swapped => pc'[c] = pc[c]
      PROVE  RecordInv'
  <2>1. RecordedBeforeLive'
    BY <1>1, <1>7
  <2>2. ASSUME NEW c \in Callers PROVE RecordOf(c)'
    BY <1>7 DEF RecordInv, RecordOf
  <2> QED
    BY <2>1, <2>2 DEF RecordInv
<1>8. CASE \E d \in Drafts : ReadBaseline(d) \/ StoreDraft(d)
  BY <1>7, <1>8 DEF ReadBaseline, StoreDraft
<1>9. ASSUME NEW c \in Callers, Call(c) \/ CancelWaiting(c) \/ ListingFails(c) \/ Return(c)
      PROVE  RecordInv'
  BY <1>7, <1>9 DEF Call, CancelWaiting, ListingFails, Return, store, Goto, Swapped, TypeOK,
                    CoroutinesOK
<1>10. CASE CoolDown \/ UNCHANGED vars
  BY <1>7, <1>10 DEF CoolDown, vars, store, provider
<1>11. CASE Restart
  BY <1>11 DEF Restart, RecordInv, RecordOf, RecordedBeforeLive, Swapped
<1> QED
  BY <1>6, <1>8, <1>9, <1>10, <1>11 DEF Next

-----------------------------------------------------------------------------
(* The ledger *)

\* What the ledger sees of an operation, and of the versions.
StateOf(k) ==
    IF opRows[k] = Nil THEN "free"
    ELSE IF Latest(k).type = "started" THEN "open" ELSE "closed"

States == [k \in IdemKeys |-> StateOf(k)]
Content == [v \in CommittedVersions |-> values[v]]

\* The version a commit would make live is a new one, with the values that an
\* apply or a rollback promises.
Target(c) == IF pc[c] \in Swapped THEN frame.undo ELSE previous

Improves(from, to) ==
    /\ values[to] # values[from]
    /\ Consistent(values[to])
    /\ values[to]["capacity"] = values[from]["capacity"]

KeepsItsPromise(c) ==
    /\ frame.new \notin CommittedVersions
    /\ call[c].kind = "apply" => Improves(frame.cur, frame.new)
    /\ call[c].kind = "rollback" =>
          Target(c) \in Versions /\ values[frame.new] = values[Target(c)]

PromiseInv ==
    /\ CommittedVersions \subseteq Versions
    /\ \A c \in Callers : pc[c] \in Minted => KeepsItsPromise(c)

\* What a step may do to the audit.
Reserves(k) == StateOf(k) = "free" /\ StateOf(k)' = "open"
Closes(k) == StateOf(k) = "open" /\ StateOf(k)' = "closed"
OthersStay(k) == \A j \in IdemKeys : j # k => opRows'[j] = opRows[j] /\ Latest(j)' = Latest(j)

LEMMA ReserveEffect ==
  ASSUME AuditedInv, NEW c \in Callers, Reserve(c), NEW k, k = Key(c)
  PROVE  /\ k \in IdemKeys /\ Reserves(k) /\ OthersStay(k)
         /\ ~ Committed(k) /\ ~ Committed(k)'
<1> USE DEF AuditedInv, CoreInv
<1> DEFINE e == Event("started", Nil, Nil, "none")
<1>1. e \in Events /\ e.type = "started"
  BY DEF Event, Events, Codes
<1>2. pc[c] = "reserve" /\ AppendEvent(k, e) /\ opRows' = [opRows EXCEPT ![k] = call[c]]
  BY DEF Reserve, At
<1> HIDE DEF e
<1>3. /\ k \in IdemKeys /\ Latest(k)' = e
      /\ \A j \in IdemKeys : j # k => Latest(j)' = Latest(j)
  BY <1>1, <1>2, Appended DEF Working
<1>4. opRows[k] = Nil /\ call[c] # Nil
  BY <1>2, KeyType DEF AuditInv, Working
<1>5. /\ opRows'[k] = call[c]
      /\ \A j \in IdemKeys : j # k => opRows'[j] = opRows[j]
  BY <1>2, <1>3 DEF TypeOK, StoreOK
<1> QED
  BY <1>1, <1>3, <1>4, <1>5 DEF Reserves, OthersStay, StateOf, Committed, Successes

LEMMA FailureEffect ==
  ASSUME AuditedInv, NEW c \in Callers, AuditFailure(c), ~ UNCHANGED opEvents, NEW k, k = Key(c)
  PROVE  /\ k \in IdemKeys /\ Closes(k) /\ OthersStay(k)
         /\ ~ Committed(k) /\ ~ Committed(k)'
<1> USE DEF AuditedInv, CoreInv
<1>1. PICK v \in {frame.new, frame.cur} :
         AppendEvent(k, Event("failed", v, frame.cur, frame.code))
  BY DEF AuditFailure
<1> DEFINE e == Event("failed", v, frame.cur, frame.code)
<1>2. e \in Events /\ e.type = "failed"
  BY DEF Event, Events, TypeOK, CoroutinesOK, Frames
<1>3. pc[c] \in Working /\ pc[c] \in Running /\ opRows' = opRows
  BY DEF AuditFailure, At, Working, Running
<1> HIDE DEF e
<1>4. /\ k \in IdemKeys /\ Latest(k)' = e
      /\ \A j \in IdemKeys : j # k => Latest(j)' = Latest(j)
  BY <1>1, <1>2, <1>3, Appended DEF e
<1>5. opRows[k] # Nil /\ Latest(k).type = "started"
  BY <1>3, <1>4, KeyType DEF AuditInv, OneOutcomePerOperation, Latest
<1> QED
  BY <1>2, <1>3, <1>4, <1>5 DEF Closes, OthersStay, StateOf, Committed, Successes

LEMMA AuditCases ==
  ASSUME AuditedInv, [Next]_vars
  PROVE  \/ UNCHANGED <<opRows, opEvents>>
         \/ \E c \in Callers : Reserve(c)
         \/ \E c \in Callers : AuditFailure(c) /\ ~ UNCHANGED opEvents
         \/ \E c \in Callers : Committing(c)
<1>1. ASSUME NEW c \in Callers, Commit(c) PROVE Committing(c) \/ UNCHANGED <<opRows, opEvents>>
  BY <1>1 DEF Commit, Committing
<1>2. ASSUME NEW c \in Callers, AuditFailure(c)
      PROVE  ~ UNCHANGED opEvents \/ UNCHANGED <<opRows, opEvents>>
  BY <1>2 DEF AuditFailure
<1>3. ASSUME NEW c \in Callers, Step(c), ~ Reserve(c), ~ Commit(c), ~ AuditFailure(c)
      PROVE  UNCHANGED <<opRows, opEvents>>
  BY <1>3 DEF Step, LookupFails, LookupFinds, LookupMisses, ReserveFails, LoadDraft,
      RecordCurrent, RecordReplacement, Verify, Restore, Reverify, store
<1>4. CASE \E d \in Drafts : ReadBaseline(d) \/ StoreDraft(d)
  BY <1>4 DEF ReadBaseline, StoreDraft
<1>5. CASE \E c \in Callers : Call(c) \/ CancelWaiting(c) \/ ListingFails(c) \/ Return(c)
  BY <1>5 DEF Call, CancelWaiting, ListingFails, Return, store
<1>6. CASE CoolDown \/ Restart \/ UNCHANGED vars
  BY <1>6 DEF CoolDown, Restart, vars, store
<1> QED
  BY <1>1, <1>2, <1>3, <1>4, <1>5, <1>6 DEF Next

\* Only a commit commits a version.
LEMMA SameVersions ==
  ASSUME NEW k, OthersStay(k), ~ Committed(k), ~ Committed(k)'
  PROVE  CommittedVersions' = CommittedVersions
<1>1. ASSUME NEW j \in IdemKeys
      PROVE  /\ Committed(j)' <=> Committed(j)
             /\ Committed(j) => Latest(j)' = Latest(j)
  <2>1. CASE j = k
    BY <2>1
  <2>2. CASE j # k
    <3>1. opRows'[j] = opRows[j] /\ Latest(j)' = Latest(j)
      BY <2>2 DEF OthersStay
    <3> QED
      BY <3>1 DEF Committed
  <2> QED
    BY <2>1, <2>2
<1>2. /\ \A j \in IdemKeys : Committed(j)' <=> Committed(j)
      /\ \A j \in IdemKeys : Committed(j) => Latest(j)' = Latest(j)
  BY <1>1
<1> QED
  BY <1>2 DEF CommittedVersions

LEMMA OneVersionMore ==
  ASSUME AuditedInv, NEW c \in Callers, Committing(c)
  PROVE  CommittedVersions' = CommittedVersions \cup {frame.new}
<1>1. PICK k : k = Key(c)
  OBVIOUS
<1>2. /\ k \in IdemKeys /\ ~ Committed(k) /\ Committed(k)' /\ Latest(k)'.cur = frame.new
      /\ \A j \in IdemKeys : j # k => /\ Committed(j)' <=> Committed(j)
                                     /\ Latest(j)' = Latest(j)
  BY <1>1, CommitEffect DEF Committed, Successes
<1> QED
  BY <1>2 DEF CommittedVersions

LEMMA VersionsKept ==
  ASSUME AuditedInv, [Next]_vars, \A c \in Callers : ~ Committing(c)
  PROVE  CommittedVersions' = CommittedVersions
<1>1. CASE UNCHANGED <<opRows, opEvents>>
  BY <1>1 DEF CommittedVersions, Committed, Latest
<1>2. ASSUME NEW c \in Callers, Reserve(c) \/ (AuditFailure(c) /\ ~ UNCHANGED opEvents)
      PROVE  CommittedVersions' = CommittedVersions
  <2>1. PICK k : k = Key(c)
    OBVIOUS
  <2> QED
    BY <1>2, <2>1, ReserveEffect, FailureEffect, SameVersions
<1> QED
  BY <1>1, <1>2, AuditCases

\* What a rollback is about to bring back does not change on its way.
LEMMA TargetStays ==
  ASSUME CoreInv, [Next]_vars, NEW c \in Callers, pc[c] \in Minted, pc'[c] \in Minted
  PROVE  Target(c)' = Target(c)
<1> USE DEF CoreInv
<1>1. ASSUME UNCHANGED <<previous, frame>>, pc'[c] \in Swapped <=> pc[c] \in Swapped
      PROVE  Target(c)' = Target(c)
  BY <1>1 DEF Target
<1>2. ASSUME NEW d \in Callers, Step(d), d # c PROVE FALSE
  <2>1. Holds(d)
    BY <1>2 DEF Step, At, LookupFails, LookupFinds, LookupMisses, ReserveFails, Reserve, LoadDraft,
        RecordCurrent, RecordReplacement, Verify, Commit, Restore, Reverify, AuditFailure
  <2> QED
    BY <1>2, <2>1, Alone DEF Working, Running, Minted
<1>3. ASSUME NEW kind, NEW op, Answer(c, kind, op) PROVE FALSE
  BY <1>3 DEF Answer, Goto, TypeOK, CoroutinesOK, Minted
<1>4. ASSUME NEW code, NEW via, Abort(c, code, via) PROVE FALSE
  BY <1>4 DEF Abort, Goto, TypeOK, CoroutinesOK, Minted
<1>5. CASE RecordCurrent(c)
  BY <1>1, <1>4, <1>5 DEF RecordCurrent, At, Continue, Goto, Fail, Interrupt, provider, Swapped,
      TypeOK, CoroutinesOK
<1>6. CASE RecordReplacement(c)
  <2>1. CASE /\ frame' = Frame(frame.cur, previous, frame.new, "done", "none", "none")
             /\ Goto(c, "verify")
    <3>1. pc[c] \notin Swapped /\ pc'[c] \in Swapped
      BY <1>6, <2>1 DEF RecordReplacement, At, Goto, Swapped, TypeOK, CoroutinesOK
    <3> QED
      BY <2>1, <3>1 DEF Target, Frame
  <2> QED
    BY <1>4, <1>6, <2>1 DEF RecordReplacement, Fail, Interrupt
<1>7. CASE Verify(c)
  BY <1>1, <1>4, <1>7 DEF Verify, At, Continue, Goto, Fail, Interrupt, provider, Swapped,
      TypeOK, CoroutinesOK
<1>8. CASE Commit(c)
  BY <1>3, <1>4, <1>8 DEF Commit, Fail, Interrupt
<1>9. ASSUME Step(c), ~ RecordCurrent(c), ~ RecordReplacement(c), ~ Verify(c), ~ Commit(c)
      PROVE  FALSE
  BY <1>9 DEF Step, At, LookupFails, LookupFinds, LookupMisses, ReserveFails, Reserve, LoadDraft,
      Restore, Reverify, AuditFailure, Minted
<1>10. CASE \E d \in Drafts : ReadBaseline(d) \/ StoreDraft(d)
  BY <1>1, <1>10 DEF ReadBaseline, StoreDraft, provider
<1>11. ASSUME NEW d \in Callers, Call(d) \/ CancelWaiting(d) \/ ListingFails(d) \/ Return(d)
       PROVE  Target(c)' = Target(c)
  <2>1. d # c
    BY <1>11 DEF Call, CancelWaiting, ListingFails, Return, Minted
  <2> QED
    BY <1>1, <1>11, <2>1 DEF Call, CancelWaiting, ListingFails, Return, Goto, provider, TypeOK,
                             CoroutinesOK
<1>12. CASE CoolDown \/ UNCHANGED vars
  BY <1>1, <1>12 DEF CoolDown, vars, provider
<1>13. CASE Restart
  BY <1>13 DEF Restart, Minted
<1> QED
  BY <1>2, <1>5, <1>6, <1>7, <1>8, <1>9, <1>10, <1>11, <1>12, <1>13 DEF Next

\* An apply mints what it promises.
LEMMA LoadKeepsPromise ==
  ASSUME AuditedInv, ValuesInv, PromiseInv, [Next]_vars, NEW c \in Callers, LoadDraft(c),
         pc'[c] \in Minted, CommittedVersions' = CommittedVersions
  PROVE  KeepsItsPromise(c)'
<1> USE DEF AuditedInv, CoreInv
<1> DEFINE d == call[c].arg
           patch == drafts[d].patch
           content == Overlay(values[frame.cur], patch)
<1>1. /\ Acceptable(d, frame.cur) /\ Mint(content)
      /\ frame' = Frame(frame.cur, Nil, minted + 1, "none", "none", "none")
      /\ call' = call
  <2>1. ASSUME NEW code, NEW via, Abort(c, code, via) PROVE FALSE
    BY <2>1 DEF Abort, Goto, TypeOK, CoroutinesOK, Minted
  <2> QED
    BY <2>1 DEF LoadDraft, Fail, Interrupt
<1>2. pc[c] = "loadDraft" /\ call[c].kind = "apply" /\ d \in Drafts /\ frame.cur \in Versions
  BY KeyType DEF LoadDraft, At, FrameInv, Working, Running
<1>3. frame'.cur = frame.cur /\ frame'.new = minted + 1
  BY <1>1 DEF Frame
<1>4. values'[frame.cur] = values[frame.cur] /\ values'[minted + 1] = content
  BY <1>1, <1>2 DEF Mint, TypeOK, ProviderOK, Versions
<1>5. /\ drafts[d].status = "validated" /\ drafts[d].base = frame.cur
      /\ DOMAIN patch # {} /\ DOMAIN patch \subseteq HotParams
  BY <1>1 DEF Acceptable, HotOnly
<1>6. Validated(patch, values[frame.cur])
  BY <1>2, <1>5 DEF ValuesInv
<1> HIDE DEF d, patch
<1>7. content # values[frame.cur]
  <2>1. PICK p \in DOMAIN patch : TRUE
    BY <1>5
  <2>2. p \in Params
    BY <1>5, <2>1 DEF HotParams, Params
  <2>3. content[p] = patch[p]
    BY <2>1, <2>2 DEF Overlay
  <2> QED
    BY <1>6, <2>1, <2>3 DEF Validated
<1>8. Consistent(content)
  BY <1>5, <1>6 DEF Validated
<1>9. content["capacity"] = values[frame.cur]["capacity"]
  BY <1>5 DEF HotParams, Overlay, Params
<1>10. minted + 1 \notin CommittedVersions
  BY DEF PromiseInv, Versions, TypeOK, ProviderOK
<1> HIDE DEF content
<1>11. Improves(frame.cur, frame.new)'
  BY <1>3, <1>4, <1>7, <1>8, <1>9 DEF Improves, Consistent
<1> QED
  BY <1>1, <1>2, <1>3, <1>10, <1>11 DEF KeepsItsPromise

\* So does a rollback.
LEMMA ReserveKeepsPromise ==
  ASSUME AuditedInv, PromiseInv, [Next]_vars, NEW c \in Callers, Reserve(c),
         pc'[c] \in Minted, CommittedVersions' = CommittedVersions
  PROVE  KeepsItsPromise(c)'
<1> USE DEF AuditedInv, CoreInv
<1>1. /\ call[c].kind = "rollback" /\ call[c].arg = previous /\ Mint(values[previous])
      /\ frame' = Frame(current, Nil, minted + 1, "none", "none", "none")
      /\ pc'[c] = "recordCurrent" /\ call' = call /\ previous' = previous
  BY DEF Reserve, Goto, TypeOK, CoroutinesOK, Minted, provider
<1>2. call[c] \in RequestsNaming(Nat)
  BY KeyType DEF Reserve, At, Working
<1>3. previous \in Versions
  BY <1>1, <1>2, ConstantsAssumption DEF RequestsNaming, TypeOK, ProviderOK, Versions
<1>4. frame'.new = minted + 1
  BY <1>1 DEF Frame
<1>5. values'[previous] = values[previous] /\ values'[minted + 1] = values[previous]
  BY <1>1, <1>3 DEF Mint, TypeOK, ProviderOK, Versions
<1>6. minted + 1 \notin CommittedVersions
  BY DEF PromiseInv, Versions, TypeOK, ProviderOK
<1>7. Target(c)' = previous
  BY <1>1 DEF Target, Swapped
<1>8. previous \in Versions'
  BY <1>3, VersionsStay
<1> QED
  BY <1>1, <1>4, <1>5, <1>6, <1>7, <1>8 DEF KeepsItsPromise

LEMMA PromiseStep == AuditedInv /\ ValuesInv /\ PromiseInv /\ [Next]_vars => PromiseInv'
<1> SUFFICES ASSUME AuditedInv, ValuesInv, PromiseInv, [Next]_vars PROVE PromiseInv'
  OBVIOUS
<1> USE DEF AuditedInv, CoreInv
<1>1. Versions \subseteq Versions'
  BY VersionsStay
<1>2. CommittedVersions' \subseteq Versions'
  <2>1. ASSUME NEW c \in Callers, Committing(c) PROVE CommittedVersions' \subseteq Versions'
    <3>1. frame.new \in Versions
      BY <2>1 DEF Committing, At, FrameInv, Running, Minted
    <3> QED
      BY <1>1, <2>1, <3>1, OneVersionMore DEF PromiseInv
  <2> QED
    BY <1>1, <2>1, VersionsKept DEF PromiseInv
<1>3. ASSUME NEW c \in Callers, pc'[c] \in Minted PROVE KeepsItsPromise(c)'
  <2>1. ASSUME NEW d \in Callers, Committing(d) PROVE FALSE
    <3>1. Holds(d) /\ pc' = [pc EXCEPT ![d] = "replied"]
      BY <2>1 DEF Committing, At, Answer, Goto
    <3>2. d # c /\ pc'[c] = pc[c]
      BY <1>3, <3>1 DEF TypeOK, CoroutinesOK, Minted
    <3> QED
      BY <1>3, <3>1, <3>2, Alone DEF Working, Running, Minted
  <2>2. CommittedVersions' = CommittedVersions
    BY <2>1, VersionsKept
  <2>3. CASE Reserve(c) \/ LoadDraft(c)
    BY <1>3, <2>2, <2>3, ReserveKeepsPromise, LoadKeepsPromise
  <2>4. CASE /\ pc[c] \in Minted
             /\ call'[c] = call[c] /\ frame'.cur = frame.cur /\ frame'.new = frame.new
    <3>1. KeepsItsPromise(c) /\ Target(c)' = Target(c)
      BY <1>3, <2>4, TargetStays DEF PromiseInv
    <3>2. frame.cur \in Versions /\ frame.new \in Versions
      BY <2>4 DEF FrameInv, Running, Minted
    <3>3. /\ values'[frame.cur] = values[frame.cur]
          /\ values'[frame.new] = values[frame.new]
          /\ Target(c) \in Versions => /\ Target(c) \in Versions'
                                       /\ values'[Target(c)] = values[Target(c)]
      BY <3>2, VersionsStay
    <3>4. Improves(frame.cur, frame.new) => Improves(frame.cur, frame.new)'
      BY <2>4, <3>3 DEF Improves
    <3> QED
      BY <2>2, <2>4, <3>1, <3>3, <3>4 DEF KeepsItsPromise
  <2> QED
    BY <1>3, <2>3, <2>4, StillMaking DEF Minted
<1> QED
  BY <1>2, <1>3 DEF PromiseInv

\* The actions of the ledger, in terms of the control plane.
LEMMA LedgerActions ==
  ASSUME NEW k
  PROVE  /\ Ledger!Open(k) <=>
               /\ States[k] = "free" /\ States' = [States EXCEPT ![k] = "open"]
               /\ UNCHANGED <<CommittedLive, CommittedUndo, Content>>
         /\ Ledger!Fail(k) <=>
               /\ States[k] = "open" /\ States' = [States EXCEPT ![k] = "closed"]
               /\ UNCHANGED <<CommittedLive, CommittedUndo, Content>>
         /\ Ledger!Advance(k) <=>
               /\ States[k] = "open" /\ States' = [States EXCEPT ![k] = "closed"]
               /\ CommittedLive' \notin DOMAIN Content
               /\ DOMAIN Content' = DOMAIN Content \cup {CommittedLive'}
               /\ \A v \in DOMAIN Content : Content'[v] = Content[v]
               /\ CommittedUndo' = CommittedLive
         /\ Ledger!Apply(k) <=>
               /\ Ledger!Advance(k)
               /\ Content'[CommittedLive'] # Content[CommittedLive]
               /\ Content'[CommittedLive']["timeout"] <= Content'[CommittedLive']["deadline"]
               /\ Content'[CommittedLive']["capacity"] = Content[CommittedLive]["capacity"]
         /\ Ledger!Rollback(k) <=>
               /\ CommittedUndo # Nil
               /\ Ledger!Advance(k)
               /\ Content'[CommittedLive'] = Content[CommittedUndo]
         /\ Ledger!Restart <=>
               /\ CommittedLive' = 0 /\ CommittedUndo' = Nil
               /\ UNCHANGED <<Content, States>>
BY DEF Ledger!Open, Ledger!Fail, Ledger!Advance, Ledger!Apply, Ledger!Rollback, Ledger!Restart,
    States, StateOf, Content

\* The record of the operations that a step names, as the ledger sees it.
LEMMA RecordMoves ==
  ASSUME NEW k \in IdemKeys, OthersStay(k)
  PROVE  /\ Reserves(k) => States[k] = "free" /\ States' = [States EXCEPT ![k] = "open"]
         /\ Closes(k) => States[k] = "open" /\ States' = [States EXCEPT ![k] = "closed"]
<1>1. ASSUME NEW j \in IdemKeys, j # k PROVE StateOf(j)' = StateOf(j)
  <2>1. opRows'[j] = opRows[j] /\ Latest(j)' = Latest(j)
    BY <1>1 DEF OthersStay
  <2> QED
    BY <2>1 DEF StateOf
<1>2. \A j \in IdemKeys : j # k => StateOf(j)' = StateOf(j)
  BY <1>1
<1>3. States' = [j \in IdemKeys |-> StateOf(j)'] /\ States[k] = StateOf(k)
  BY DEF States
<1>4. ASSUME NEW to, StateOf(k)' = to PROVE States' = [States EXCEPT ![k] = to]
  BY <1>2, <1>3, <1>4 DEF States
<1> QED
  BY <1>3, <1>4 DEF Reserves, Closes

\* A commit is an apply or a rollback of the ledger.
LEMMA CommitAdvances ==
  ASSUME AuditedInv, OnlyCommittedVersionsStayLive, PromiseInv, [Next]_vars,
         NEW c \in Callers, Committing(c), NEW k, k = Key(c)
  PROVE  k \in IdemKeys /\ (Ledger!Apply(k) \/ Ledger!Rollback(k))
<1> USE DEF AuditedInv, CoreInv
<1>1. /\ k \in IdemKeys /\ opRows' = opRows /\ opRows[k] # Nil
      /\ Latest(k).type = "started" /\ Latest(k)'.type \in Successes
      /\ \A j \in IdemKeys : j # k => Latest(j)' = Latest(j)
      /\ CommittedLive = frame.cur /\ CommittedUndo = frame.undo
      /\ CommittedLive' = frame.new /\ CommittedUndo' = frame.cur
  BY CommitEffect
<1>2. pc[c] = "commit" /\ values' = values /\ minted' = minted
  BY DEF Committing, At, versions
<1>3. KeepsItsPromise(c)
  BY <1>2 DEF PromiseInv, Minted
<1>4. call[c].kind \in {"apply", "rollback"}
  BY <1>2, KeyType DEF Working, Running
<1>5. Closes(k) /\ OthersStay(k)
  BY <1>1 DEF Closes, OthersStay, StateOf, Successes
<1>6. States[k] = "open" /\ States' = [States EXCEPT ![k] = "closed"]
  BY <1>1, <1>5, RecordMoves
<1>7. CommittedVersions' = CommittedVersions \cup {frame.new}
  BY OneVersionMore
<1>8. /\ DOMAIN Content = CommittedVersions
      /\ DOMAIN Content' = CommittedVersions \cup {frame.new}
      /\ \A v \in CommittedVersions : Content[v] = values[v] /\ Content'[v] = values[v]
      /\ Content'[frame.new] = values[frame.new]
  BY <1>2, <1>7 DEF Content
<1>9. Ledger!Advance(k)
  BY <1>1, <1>3, <1>6, <1>8, LedgerActions DEF KeepsItsPromise
<1>10. frame.cur \in CommittedVersions
  BY <1>1 DEF OnlyCommittedVersionsStayLive
<1>11. CASE call[c].kind = "apply"
  <2>1. Improves(frame.cur, frame.new)
    BY <1>3, <1>11 DEF KeepsItsPromise
  <2> QED
    BY <1>1, <1>8, <1>9, <1>10, <2>1, LedgerActions DEF Improves, Consistent
<1>12. CASE call[c].kind = "rollback"
  <2>1. frame.undo \in Versions /\ values[frame.new] = values[frame.undo]
    BY <1>2, <1>3, <1>12 DEF KeepsItsPromise, Target, Swapped
  <2>2. frame.undo # Nil
    BY <2>1, ConstantsAssumption DEF Versions, TypeOK, ProviderOK
  <2>3. frame.undo \in CommittedVersions
    BY <1>1, <2>2 DEF OnlyCommittedVersionsStayLive
  <2> QED
    BY <1>1, <1>8, <1>9, <2>1, <2>2, <2>3, LedgerActions
<1> QED
  BY <1>4, <1>11, <1>12

\* Every step of the control plane is a step of the ledger, or none.
LEMMA LedgerStep ==
  ASSUME AuditedInv, OnlyCommittedVersionsStayLive, PromiseInv, [Next]_vars
  PROVE  [Ledger!Next]_(Ledger!vars)
<1> USE DEF AuditedInv, CoreInv
<1>1. UNCHANGED Ledger!vars <=> UNCHANGED <<CommittedLive, CommittedUndo, Content, States>>
  BY DEF Ledger!vars, Content, States, StateOf
<1>2. ASSUME CommittedVersions' = CommittedVersions PROVE Content' = Content
  <2>1. \A v \in CommittedVersions : values'[v] = values[v]
    BY VersionsStay DEF PromiseInv
  <2> QED
    BY <1>2, <2>1 DEF Content
<1>3. ASSUME UNCHANGED <<opRows, opEvents>> PROVE States' = States /\ Content' = Content
  <2>1. CommittedVersions' = CommittedVersions
    BY <1>3 DEF CommittedVersions, Committed, Latest
  <2> QED
    BY <1>2, <1>3, <2>1 DEF States, StateOf, Latest
<1>4. ASSUME NEW c \in Callers, Committing(c) PROVE Ledger!Next
  <2>1. PICK k : k = Key(c)
    OBVIOUS
  <2> QED
    BY <1>4, <2>1, CommitAdvances DEF Ledger!Next
<1>5. CASE Restart
  <2>1. CommittedLive' = 0 /\ CommittedUndo' = Nil
    BY <1>5 DEF Restart, CommittedLive, CommittedUndo, Provisional, NoFrame, Frame, Baseline
  <2>2. States' = States /\ Content' = Content
    BY <1>3, <1>5 DEF Restart
  <2> QED
    BY <2>1, <2>2, LedgerActions DEF Ledger!Next
<1>6. ASSUME UNCHANGED <<CommittedLive, CommittedUndo>>, UNCHANGED <<opRows, opEvents>>
      PROVE  UNCHANGED Ledger!vars
  BY <1>1, <1>3, <1>6
<1>7. ASSUME UNCHANGED <<CommittedLive, CommittedUndo>>, NEW c \in Callers, Reserve(c)
      PROVE  Ledger!Next
  <2>1. PICK k : k = Key(c)
    OBVIOUS
  <2>2. k \in IdemKeys /\ Reserves(k) /\ OthersStay(k) /\ ~ Committed(k) /\ ~ Committed(k)'
    BY <1>7, <2>1, ReserveEffect
  <2>3. Content' = Content
    BY <1>2, <2>2, SameVersions
  <2>4. Ledger!Open(k)
    BY <1>7, <2>2, <2>3, RecordMoves, LedgerActions
  <2> QED
    BY <2>2, <2>4 DEF Ledger!Next
<1>8. ASSUME UNCHANGED <<CommittedLive, CommittedUndo>>,
             NEW c \in Callers, AuditFailure(c), ~ UNCHANGED opEvents
      PROVE  Ledger!Next
  <2>1. PICK k : k = Key(c)
    OBVIOUS
  <2>2. k \in IdemKeys /\ Closes(k) /\ OthersStay(k) /\ ~ Committed(k) /\ ~ Committed(k)'
    BY <1>8, <2>1, FailureEffect
  <2>3. Content' = Content
    BY <1>2, <2>2, SameVersions
  <2>4. Ledger!Fail(k)
    BY <1>8, <2>2, <2>3, RecordMoves, LedgerActions
  <2> QED
    BY <2>2, <2>4 DEF Ledger!Next
<1>9. \/ UNCHANGED <<CommittedLive, CommittedUndo>>
      \/ Restart
      \/ \E c \in Callers : Committing(c)
  BY CommitPoint
<1> QED
  BY <1>4, <1>5, <1>6, <1>7, <1>8, <1>9, AuditCases

-----------------------------------------------------------------------------
(* What a caller is told *)

\* A success is answered by the commit, or by the replay of an operation whose
\* version is live.
LEMMA SuccessCases ==
  ASSUME CoreInv, [Next]_vars, NEW c \in Callers,
         pc[c] # "replied", pc'[c] = "replied", reply'[c].kind = "ok"
  PROVE  Committing(c) \/ (LookupFinds(c) /\ RepeatKind(Key(c)) = "ok" /\ reply'[c].op = Key(c))
<1> USE DEF CoreInv, TypeOK, CoroutinesOK
<1>1. ASSUME NEW kind, NEW op, Answer(c, kind, op) PROVE kind = "ok" /\ reply'[c].op = op
  BY <1>1 DEF Answer
<1>2. ASSUME NEW code, NEW via, Abort(c, code, via) PROVE FALSE
  BY <1>2 DEF Abort, Goto
<1>3. ASSUME NEW stage, stage # "replied", Goto(c, stage) PROVE FALSE
  BY <1>3 DEF Goto
<1>4. CASE LookupFinds(c)
  BY <1>1, <1>4 DEF LookupFinds
<1>5. CASE LookupFails(c) \/ LookupMisses(c) \/ ReserveFails(c)
  BY <1>1, <1>3, <1>5 DEF LookupFails, LookupMisses, ReserveFails, Continue
<1>6. CASE Reserve(c) \/ LoadDraft(c)
  BY <1>2, <1>3, <1>6 DEF Reserve, LoadDraft, Fail, Interrupt
<1>7. CASE RecordCurrent(c) \/ RecordReplacement(c) \/ Verify(c)
  BY <1>2, <1>3, <1>7 DEF RecordCurrent, RecordReplacement, Verify, Fail, Interrupt, Continue
<1>8. CASE Commit(c)
  BY <1>2, <1>8 DEF Commit, Committing, Fail, Interrupt
<1>9. CASE Restore(c) \/ Reverify(c)
  BY <1>3, <1>9 DEF Restore, Reverify, Continue
<1>10. CASE AuditFailure(c)
  BY <1>1, <1>10 DEF AuditFailure, FailureKind
<1>11. ASSUME NEW d \in Callers, Step(d), d # c PROVE FALSE
  BY <1>11, StepShape
<1>12. ASSUME NEW d \in Callers, Call(d) \/ CancelWaiting(d) \/ ListingFails(d) \/ Return(d)
      PROVE  FALSE
  BY <1>12 DEF Call, CancelWaiting, ListingFails, Return, Goto
<1>13. CASE \E d \in Drafts : ReadBaseline(d) \/ StoreDraft(d)
  BY <1>13 DEF ReadBaseline, StoreDraft
<1>14. CASE CoolDown \/ Restart \/ UNCHANGED vars
  BY <1>14 DEF CoolDown, Restart, vars
<1>15. CASE \E d \in Callers : Step(d)
  BY <1>4, <1>5, <1>6, <1>7, <1>8, <1>9, <1>10, <1>11, <1>15 DEF Step
<1> QED
  BY <1>12, <1>13, <1>14, <1>15 DEF Next

LEMMA SuccessStep ==
  ASSUME AuditedInv, [Next]_vars, NEW c \in Callers,
         pc[c] # "replied", pc'[c] = "replied", reply'[c].kind = "ok"
  PROVE  \E k \in IdemKeys : /\ reply'[c].op = k
                             /\ Committed(k)'
                             /\ Latest(k).cur' = current'
<1> USE DEF AuditedInv, CoreInv
<1>1. PICK k : k = Key(c)
  OBVIOUS
<1>2. CASE Committing(c)
  <2>1. k \in IdemKeys /\ Committed(k)' /\ Latest(k)'.cur = frame.new
    BY <1>1, <1>2, CommitEffect DEF Committed
  <2>2. current' = frame.new
    BY <1>2 DEF Committing, At, FrameInv, Running, Swapped, provider
  <2>3. reply'[c].op = k
    BY <1>1, <1>2 DEF Committing, Answer, TypeOK, CoroutinesOK
  <2> QED
    BY <2>1, <2>2, <2>3
<1>3. CASE LookupFinds(c) /\ RepeatKind(Key(c)) = "ok" /\ reply'[c].op = Key(c)
  <2>1. k \in IdemKeys /\ Committed(k) /\ Latest(k).cur = current
    BY <1>1, <1>3, KeyType DEF LookupFinds, At, RepeatKind, Committed
  <2>2. Committed(k)' /\ Latest(k)' = Latest(k)
    BY <2>1, CommittedStay
  <2>3. current' = current
    BY <1>3 DEF LookupFinds, provider
  <2> QED
    BY <1>1, <1>3, <2>1, <2>2, <2>3
<1> QED
  BY <1>2, <1>3, SuccessCases

-----------------------------------------------------------------------------
(* The theorems. *)

\* Type correctness: every variable of the control plane keeps its type.
THEOREM TypeCorrectness == Spec => []TypeOK
BY CoreInvariant, PTL DEF CoreInv

\* The audit of an operation holds at most one outcome, after its "started",
\* however calls, cancellations, failures and restarts interleave.
THEOREM OneOutcome == Spec => []OneOutcomePerOperation
<1>1. AuditedInv => OneOutcomePerOperation
  BY DEF AuditedInv, AuditInv
<1> QED
  BY <1>1, AuditedInvariant, PTL

\* A version that stays live, and the one a manual rollback would restore, was
\* committed in the durable audit or is the deployment baseline.
THEOREM OnlyCommittedStaysLive == Spec => []OnlyCommittedVersionsStayLive
<1>1. Init => OnlyCommittedVersionsStayLive
  BY DEF Init, NoFrame, Frame, OnlyCommittedVersionsStayLive, CommittedLive, CommittedUndo,
      Provisional, CommittedVersions
<1> QED
  BY <1>1, LiveStep, AuditedInvariant, PTL DEF Spec

\* The version that is live, and the one a rollback would restore, have their durable rows
\* (apply and rollback record both sides before the pointer moves).
THEOREM RowsComeFirst == Spec => []RecordedBeforeLive
<1>1. Init => RecordInv
  BY DEF Init, RecordInv, RecordOf, RecordedBeforeLive, Swapped
<1>2. Spec => []RecordInv
  BY <1>1, RecordStep, CoreInvariant, PTL DEF Spec
<1>3. RecordInv => RecordedBeforeLive
  BY DEF RecordInv
<1> QED
  BY <1>2, <1>3, PTL

\* The live values keep the relation between timeout and deadline, and the
\* parameters that need a restart, whatever drafts were applied in whatever order.
THEOREM ValuesStaySound == Spec => []LiveValuesSound
<1>1. Init => ValuesInv
  BY DEF Init, ValuesInv, SoundVersion, Versions, Baseline, NoDraft, Draft
<1>2. Spec => []ValuesInv
  BY <1>1, ValuesStep, CoreInvariant, PTL DEF Spec
<1>3. CoreInv /\ ValuesInv => LiveValuesSound
  BY DEF CoreInv, TypeOK, ProviderOK, ValuesInv, SoundVersion, LiveValuesSound
<1> QED
  BY <1>2, <1>3, CoreInvariant, PTL

\* An applied draft was computed from exactly the version it replaced, however
\* many drafts, operations and restarts lie between its creation and its use.
THEOREM AppliedDraftsSawTheirBase == Spec => []AppliedDraftSawWhatItReplaced
<1>1. Init => BaseInv
  BY DEF Init, BaseInv, Minted
<1>2. Spec => []BaseInv
  BY <1>1, BaseStep, AuditedInvariant, PTL DEF Spec
<1>3. BaseInv => AppliedDraftSawWhatItReplaced
  BY DEF BaseInv, Derived, AppliedDraftSawWhatItReplaced
<1> QED
  BY <1>2, <1>3, PTL

\* A caller is told of a success, by the commit or by a replay of its key, only
\* when the version its operation produced is the live one.
THEOREM SuccessIsLive == Spec => SuccessMeansLive
<1>1. AuditedInv /\ [Next]_vars =>
        [\A c \in Callers :
            (pc[c] # "replied" /\ pc'[c] = "replied" /\ reply'[c].kind = "ok") =>
                \E k \in IdemKeys : /\ reply'[c].op = k
                                   /\ Committed(k)'
                                   /\ Latest(k).cur' = current']_vars
  BY SuccessStep
<1> QED
  BY <1>1, AuditedInvariant, PTL DEF Spec, SuccessMeansLive

\* Seen through its commit point, with every await, cancellation, failure,
\* recovery and restart in between, the control plane is the atomic ledger.
THEOREM ControlPlaneIsALedger == Spec => LedgerSpec
<1>1. Init => Ledger!Init
  <2> SUFFICES ASSUME Init PROVE Ledger!Init
    OBVIOUS
  <2>1. CommittedLive = 0 /\ CommittedUndo = Nil /\ CommittedVersions = {0}
    BY DEF Init, CommittedLive, CommittedUndo, Provisional, NoFrame, Frame, CommittedVersions,
        Committed, Baseline
  <2>2. Content = [v \in {0} |-> BaselineValues]
    BY <2>1 DEF Init, Content, Baseline
  <2>3. States = [k \in IdemKeys |-> "free"]
    BY DEF Init, States, StateOf
  <2> QED
    BY <2>1, <2>2, <2>3 DEF Ledger!Init, Content, States, StateOf
<1>2. Init => PromiseInv
  BY DEF Init, PromiseInv, CommittedVersions, Committed, Baseline, Versions, Minted
<1>3. Init => ValuesInv
  BY DEF Init, ValuesInv, SoundVersion, Versions, Baseline, NoDraft, Draft
<1>4. Spec => []ValuesInv
  BY <1>3, ValuesStep, CoreInvariant, PTL DEF Spec
<1>5. Spec => []PromiseInv
  BY <1>2, <1>4, PromiseStep, AuditedInvariant, PTL DEF Spec
<1>6. AuditedInv /\ OnlyCommittedVersionsStayLive /\ PromiseInv /\ [Next]_vars
        => [Ledger!Next]_(Ledger!vars)
  BY LedgerStep
<1> QED
  BY <1>1, <1>5, <1>6, AuditedInvariant, OnlyCommittedStaysLive, PTL
     DEF Spec, LedgerSpec, Ledger!Spec

=============================================================================
