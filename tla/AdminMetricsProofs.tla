------------------------- MODULE AdminMetricsProofs -------------------------
(***************************************************************************)
(* What the metrics reader promises for any number of viewers and batches  *)
(* and any lifetime of the cache.  The invariant says that the registered  *)
(* batch is the only one that may run, and relates the age of what can be  *)
(* handed out to what is left of the cache entry's lifetime.               *)
(***************************************************************************)
EXTENDS AdminMetrics, FiniteSetTheorems, TLAPS

Unstarted == \A n \in Batches : n > started => batch[n] = "none"

Answers == [kind : {"none", "metrics", "closed", "failed", "cancelled"}, batch : 0..started]
Entries == [batch : 0..started, left : 0..CacheTicks]

ReaderInv ==
    /\ closed => inflight = 0 /\ cache = NoEntry
    /\ \A n \in Batches : /\ batch[n] = "running" => n = inflight
                          /\ batch[n] # "done" => age[n] = 0
    /\ cache.batch # 0 =>
          /\ batch[cache.batch] = "done"
          /\ cache.batch \notin abandoned => age[cache.batch] + cache.left = CacheTicks
    /\ (inflight # 0 /\ batch[inflight] = "done" /\ inflight \notin abandoned) =>
          /\ age[inflight] = 0
          /\ \E v \in Viewers : awaiting[v] = inflight

LEMMA TypeStep == TypeOK /\ Unstarted /\ [Next]_vars => TypeOK' /\ Unstarted'
<1> SUFFICES ASSUME TypeOK, Unstarted, [Next]_vars PROVE TypeOK' /\ Unstarted'
  OBVIOUS
<1> USE BoundAssumption DEF TypeOK, Unstarted, Batches
<1> DEFINE Good == TypeOK' /\ Unstarted'
<1>1. ASSUME NEW kind \in {"metrics", "closed", "failed", "cancelled"}, NEW n \in 0..started, Tell(kind, n)
      PROVE  answer' \in Answers
  BY <1>1 DEF Tell, Answers
<1>2. ASSUME NEW v \in Viewers, ReadClosed(v) \/ ReadCached(v) PROVE Good
  <2>1. 0 \in 0..started /\ cache.batch \in 0..started
    OBVIOUS
  <2>2. answer' \in Answers
    BY <1>1, <1>2, <2>1 DEF ReadClosed, ReadCached
  <2> QED
    BY <1>2, <2>2 DEF ReadClosed, ReadCached, Answers
<1>3. ASSUME NEW v \in Viewers, ReadShared(v) PROVE Good
  BY <1>3 DEF ReadShared
<1>4. ASSUME NEW v \in Viewers, ReadNew(v) PROVE Good
  <2>1. /\ started' = started + 1 /\ started' \in 0..MaxBatches /\ started' \in Batches
        /\ 0..started \subseteq 0..started' /\ inflight' \in 0..started'
    BY <1>4 DEF ReadNew
  <2>2. abandoned' \subseteq 1..started' /\ awaiting' \in [Viewers -> 0..started']
    BY <1>4, <2>1 DEF ReadNew
  <2>3. cache' \in [batch : 0..started', left : 0..CacheTicks]
    BY <1>4, <2>1 DEF ReadNew
  <2>4. answer' \in [kind : {"none", "metrics", "closed", "failed", "cancelled"}, batch : 0..started']
    BY <1>4, <2>1 DEF ReadNew
  <2>5. Unstarted'
    BY <1>4, <2>1 DEF ReadNew
  <2> QED
    BY <1>4, <2>1, <2>2, <2>3, <2>4, <2>5 DEF ReadNew
<1>5. ASSUME NEW v \in Viewers, Receive(v) PROVE Good
  <2>1. awaiting[v] \in 0..started /\ UNCHANGED <<started, batch, age, abandoned, closed>>
    BY <1>5 DEF Receive
  <2>2. cache' \in Entries /\ inflight' \in 0..started
    BY <1>5, <2>1 DEF Receive, Entries
  <2>3. answer' \in Answers
    BY <1>1, <1>5, <2>1 DEF Receive
  <2>4. awaiting' \in [Viewers -> 0..started]
    BY <1>5, <2>1 DEF Receive
  <2> QED
    BY <2>1, <2>2, <2>3, <2>4 DEF Answers, Entries
<1>6. ASSUME NEW v \in Viewers, ReceiveFailed(v) \/ ReceiveCancelled(v) PROVE Good
  <2>1. answer' \in Answers
    BY <1>1, <1>6 DEF ReceiveFailed, ReceiveCancelled
  <2>2. /\ inflight' \in {inflight, 0} /\ awaiting' = [awaiting EXCEPT ![v] = 0]
        /\ UNCHANGED <<cache, started, batch, age, abandoned, closed>>
    BY <1>6 DEF ReceiveFailed, ReceiveCancelled
  <2>3. inflight' \in 0..started /\ awaiting' \in [Viewers -> 0..started]
    BY <2>2
  <2> QED
    BY <2>1, <2>2, <2>3 DEF Answers
<1>7. ASSUME NEW v \in Viewers, CancelViewer(v) PROVE Good
  <2>1. abandoned' \subseteq 1..started
    <3>1. awaiting[v] \in 1..started
      BY <1>7 DEF CancelViewer
    <3>2. Orphaned(awaiting[v], awaiting') \subseteq {awaiting[v]}
      BY DEF Orphaned
    <3>3. abandoned' = abandoned \/ abandoned' = abandoned \cup Orphaned(awaiting[v], awaiting')
      BY <1>7 DEF CancelViewer
    <3> QED
      BY <3>1, <3>2, <3>3
  <2>2. awaiting' \in [Viewers -> 0..started]
    BY <1>7 DEF CancelViewer
  <2> QED
    BY <1>7, <2>1, <2>2 DEF CancelViewer
<1>8. ASSUME NEW n \in Batches, EndBatch(n) PROVE Good
  <2>1. n <= started
    BY <1>8 DEF EndBatch
  <2>2. abandoned' \subseteq 1..started
    BY <1>8, <2>1 DEF EndBatch, Orphaned
  <2> QED
    BY <1>8, <2>1, <2>2 DEF EndBatch
<1>9. ASSUME NEW n \in Batches, FailBatch(n) PROVE Good
  <2>1. n <= started
    BY <1>9 DEF FailBatch
  <2> QED
    BY <1>9, <2>1 DEF FailBatch
<1>10. CASE Tick
  <2>1. age' \in [Batches -> 0..CacheTicks]
    BY <1>10 DEF Tick
  <2>2. cache' \in Entries
    BY <1>10 DEF Tick, Entries
  <2> QED
    BY <1>10, <2>1, <2>2 DEF Tick, Entries
<1>11. CASE Close
  <2>1. cache' \in Entries
    BY <1>11 DEF Close, NoEntry, Entries
  <2> QED
    BY <1>11, <2>1 DEF Close, Entries
<1>12. CASE UNCHANGED vars
  BY <1>12 DEF vars
<1> QED
  BY <1>2, <1>3, <1>4, <1>5, <1>6, <1>7, <1>8, <1>9, <1>10, <1>11, <1>12
     DEF Next, Read, Resume, End

LEMMA TypeInvariant == Spec => [](TypeOK /\ Unstarted)
<1>1. Init => TypeOK /\ Unstarted
  <2> SUFFICES ASSUME Init PROVE TypeOK /\ Unstarted
    OBVIOUS
  <2>1. started = 0 /\ cache \in Entries /\ answer \in Answers
    BY BoundAssumption DEF Init, NoEntry, NoAnswer, Entries, Answers
  <2>2. /\ inflight \in 0..started /\ started \in 0..MaxBatches
        /\ abandoned \subseteq 1..started /\ awaiting \in [Viewers -> 0..started]
        /\ age \in [Batches -> 0..CacheTicks]
    BY BoundAssumption DEF Init
  <2> QED
    BY <2>1, <2>2 DEF Init, TypeOK, Unstarted, Entries, Answers
<1> QED
  BY <1>1, TypeStep, PTL DEF Spec

LEMMA ReaderStep == TypeOK /\ Unstarted /\ ReaderInv /\ [Next]_vars => ReaderInv'
<1> SUFFICES ASSUME TypeOK, Unstarted, ReaderInv, [Next]_vars PROVE ReaderInv'
  OBVIOUS
<1> USE BoundAssumption DEF TypeOK, Unstarted, ReaderInv, Batches
<1>1. CASE UNCHANGED <<closed, inflight, cache, batch, age, abandoned, awaiting>>
  BY <1>1
<1>2. ASSUME NEW v \in Viewers, ReadClosed(v) \/ ReadCached(v) PROVE ReaderInv'
  BY <1>1, <1>2 DEF ReadClosed, ReadCached
\* A viewer that did not await the registered batch stands aside.
<1>3. ASSUME NEW v \in Viewers, UNCHANGED <<closed, inflight, cache, batch, age, abandoned>>,
             \A w \in Viewers : (inflight # 0 /\ awaiting[w] = inflight) => awaiting'[w] = inflight
      PROVE  ReaderInv'
  BY <1>3
<1>4. ASSUME NEW v \in Viewers, ReadShared(v) PROVE ReaderInv'
  BY <1>3, <1>4 DEF ReadShared
<1>5. ASSUME NEW v \in Viewers, ReadNew(v) PROVE ReaderInv'
  <2>1. /\ started + 1 \in Batches /\ started' = started + 1 /\ inflight' = started + 1
        /\ batch' = [batch EXCEPT ![started + 1] = "running"]
        /\ batch[started + 1] = "none"
        /\ inflight = 0
        /\ UNCHANGED <<cache, age, abandoned, closed>> /\ ~ closed
    BY <1>5 DEF ReadNew
  <2>2. cache.batch # 0 => batch'[cache.batch] = "done"
    BY <2>1
  <2> QED
    BY <2>1, <2>2
<1>6. ASSUME NEW v \in Viewers, Receive(v) PROVE ReaderInv'
  <2>1. CASE inflight = awaiting[v]
    <3>1. /\ cache'.batch = inflight /\ cache'.left = CacheTicks /\ inflight' = 0
          /\ inflight # 0 /\ batch[inflight] = "done"
          /\ UNCHANGED <<batch, age, abandoned, closed>>
      BY <1>6, <2>1 DEF Receive
    <3> QED
      BY <3>1
  <2>2. CASE inflight # awaiting[v]
    BY <1>3, <1>6, <2>2 DEF Receive
  <2> QED
    BY <2>1, <2>2
<1>7. ASSUME NEW v \in Viewers, ReceiveCancelled(v) PROVE ReaderInv'
  <2>1. CASE inflight = awaiting[v]
    BY <1>7, <2>1 DEF ReceiveCancelled
  <2>2. CASE inflight # awaiting[v]
    BY <1>3, <1>7, <2>2 DEF ReceiveCancelled
  <2> QED
    BY <2>1, <2>2
<1>8. ASSUME NEW v \in Viewers, ReceiveFailed(v) PROVE ReaderInv'
  <2>1. CASE inflight = awaiting[v]
    BY <1>8, <2>1 DEF ReceiveFailed
  <2>2. CASE inflight # awaiting[v]
    BY <1>3, <1>8, <2>2 DEF ReceiveFailed
  <2> QED
    BY <2>1, <2>2
<1>9. ASSUME NEW v \in Viewers, CancelViewer(v) PROVE ReaderInv'
  <2> DEFINE n == awaiting[v]
  <2>1. /\ n # 0 /\ awaiting' = [awaiting EXCEPT ![v] = 0]
        /\ UNCHANGED <<cache, inflight, batch, age, closed>>
    BY <1>9 DEF CancelViewer
  <2>2. CASE inflight = n /\ batch[n] = "done"
    <3>1. abandoned' = abandoned \cup Orphaned(n, awaiting')
      BY <1>9, <2>2 DEF CancelViewer
    <3>2. \/ \E w \in Viewers : awaiting'[w] = n
          \/ n \in abandoned'
      BY <3>1 DEF Orphaned
    <3> QED
      BY <2>1, <2>2, <3>1, <3>2
  <2>3. CASE ~ (inflight = n /\ batch[n] = "done")
    <3>1. abandoned' = abandoned
      BY <1>9, <2>3 DEF CancelViewer
    <3> QED
      BY <2>1, <2>3, <3>1
  <2> QED
    BY <2>2, <2>3
<1>10. ASSUME NEW n \in Batches, EndBatch(n) PROVE ReaderInv'
  <2>1. /\ batch[n] = "running" /\ n = inflight /\ age[n] = 0
        /\ batch' = [batch EXCEPT ![n] = "done"]
        /\ abandoned' = abandoned \cup Orphaned(n, awaiting)
        /\ UNCHANGED <<cache, inflight, age, closed, awaiting>>
    BY <1>10 DEF EndBatch
  <2>2. (\E v \in Viewers : awaiting[v] = n) \/ n \in abandoned'
    BY <2>1 DEF Orphaned
  <2>3. cache.batch # n
    BY <2>1
  <2> QED
    BY <2>1, <2>2, <2>3
<1>11. ASSUME NEW n \in Batches, FailBatch(n) PROVE ReaderInv'
  BY <1>11 DEF FailBatch
<1>12. CASE Tick
  <2>1. /\ cache'.batch = cache.batch
        /\ cache'.left = IF cache.left > 0 THEN cache.left - 1 ELSE 0
        /\ UNCHANGED <<inflight, batch, abandoned, closed, awaiting>>
        /\ \A n \in Batches : age'[n] = IF batch[n] = "done" /\ age[n] < CacheTicks
                                        THEN age[n] + 1 ELSE age[n]
    BY <1>12 DEF Tick
  <2>2. ~ (inflight # 0 /\ batch[inflight] = "done" /\ inflight \notin abandoned)
    BY <1>12 DEF Tick, Resuming
  <2>3. cache.batch # 0 => cache.batch \in Batches
    OBVIOUS
  <2>4. cache'.batch # 0 =>
          /\ batch'[cache'.batch] = "done"
          /\ cache'.batch \notin abandoned' => age'[cache'.batch] + cache'.left = CacheTicks
    <3> SUFFICES ASSUME cache.batch # 0, cache.batch \notin abandoned
                 PROVE  age'[cache.batch] + cache'.left = CacheTicks
      BY <2>1
    <3>1. /\ age[cache.batch] + cache.left = CacheTicks /\ batch[cache.batch] = "done"
          /\ age[cache.batch] \in Nat /\ cache.left \in Nat
      BY <2>3
    <3>2. age'[cache.batch] = IF age[cache.batch] < CacheTicks
                              THEN age[cache.batch] + 1 ELSE age[cache.batch]
      BY <2>1, <2>3, <3>1
    <3> QED
      BY <2>1, <3>1, <3>2
  <2>5. closed' => inflight' = 0 /\ cache' = NoEntry
    <3>1. cache = NoEntry => cache' = NoEntry
      BY <1>12 DEF Tick, NoEntry
    <3> QED
      BY <2>1, <3>1
  <2> QED
    BY <2>1, <2>2, <2>4, <2>5
<1>13. CASE Close
  <2>1. /\ cache' = NoEntry /\ cache'.batch = 0 /\ inflight' = 0
        /\ \A n \in Batches : /\ batch'[n] # "running"
                              /\ batch'[n] = batch[n] \/ batch[n] = "running"
        /\ age' = age
    BY <1>13 DEF Close, NoEntry
  <2> QED
    BY <2>1
<1>14. CASE UNCHANGED vars
  BY <1>1, <1>14 DEF vars
<1> QED
  BY <1>2, <1>4, <1>5, <1>6, <1>7, <1>8, <1>9, <1>10, <1>11, <1>12, <1>13, <1>14
     DEF Next, Read, Resume, End

LEMMA ReaderInvariant == Spec => [](TypeOK /\ ReaderInv)
<1>1. Init => ReaderInv
  BY DEF Init, ReaderInv, NoEntry
<1> QED
  BY <1>1, ReaderStep, TypeInvariant, PTL DEF Spec

\* What was ended last is what is handed out: no viewer that resumes, and no
\* entry of the cache, is behind a batch that any viewer was shown.
OrderInv ==
    /\ inflight \in {0, started}
    /\ inflight # 0 => cache.batch < inflight
    /\ ~ closed => \A n \in Batches : batch[n] = "done" => n = inflight \/ n <= cache.batch
    /\ answer.kind = "metrics" =>
          /\ answer.batch \in Batches
          /\ batch[answer.batch] = "done"
          /\ ~ closed => answer.batch <= cache.batch
    /\ \A v \in Viewers : (awaiting[v] # 0 /\ batch[awaiting[v]] = "done") =>
          \A n \in Batches : batch[n] = "done" => n <= awaiting[v]

Forward == (answer.kind = "metrics" /\ answer'.kind = "metrics") => answer'.batch >= answer.batch

LEMMA OrderStep ==
  ASSUME TypeOK, Unstarted, ReaderInv, OrderInv, [Next]_vars
  PROVE  OrderInv' /\ (answer' = answer \/ Forward)
<1> USE BoundAssumption DEF TypeOK, Unstarted, Batches
<1> DEFINE Good == OrderInv' /\ (answer' = answer \/ Forward)
<1>1. CASE UNCHANGED <<inflight, started, cache, batch, closed, answer, awaiting>>
  BY <1>1 DEF OrderInv
<1>2. ASSUME NEW v \in Viewers, ReadClosed(v) \/ ReadCached(v) PROVE Good
  <2>1. /\ UNCHANGED <<inflight, started, cache, batch, closed, awaiting>>
        /\ \/ answer'.kind = "closed"
           \/ /\ answer'.kind = "metrics" /\ answer'.batch = cache.batch
              /\ cache.batch # 0 /\ ~ closed
    BY <1>2 DEF ReadClosed, ReadCached, Tell, Valid
  <2>2. answer'.kind = "metrics" => cache.batch \in Batches /\ batch[cache.batch] = "done"
    BY <2>1 DEF ReaderInv
  <2>3. Forward
    BY <2>1 DEF Forward, OrderInv
  <2> QED
    BY <2>1, <2>2, <2>3 DEF OrderInv
<1>3. ASSUME NEW v \in Viewers, ReadShared(v) PROVE Good
  <2>1. /\ UNCHANGED <<inflight, started, cache, batch, closed, answer>> /\ inflight # 0
        /\ awaiting' = [awaiting EXCEPT ![v] = inflight]
    BY <1>3 DEF ReadShared
  <2>2. \A n \in Batches : batch[n] = "done" => n <= inflight
    BY <2>1 DEF OrderInv
  <2>3. ASSUME NEW w \in Viewers, awaiting'[w] # 0, batch[awaiting'[w]] = "done",
               NEW n \in Batches, batch[n] = "done"
        PROVE  n <= awaiting'[w]
    <3>1. CASE w = v
      BY <2>1, <2>2, <2>3, <3>1
    <3>2. CASE w # v
      BY <2>1, <2>3, <3>2 DEF OrderInv
    <3> QED
      BY <3>1, <3>2
  <2> QED
    BY <2>1, <2>3 DEF OrderInv
<1>4. ASSUME NEW v \in Viewers, ReadNew(v) PROVE Good
  <2>1. /\ inflight = 0 /\ ~ closed /\ started' = started + 1 /\ inflight' = started + 1
        /\ started + 1 \in Batches
        /\ batch' = [batch EXCEPT ![started + 1] = "running"]
        /\ awaiting' = [awaiting EXCEPT ![v] = started + 1]
        /\ UNCHANGED <<cache, closed, answer>>
    BY <1>4 DEF ReadNew
  <2>2. \A n \in Batches : batch'[n] = "done" <=> batch[n] = "done"
    BY <2>1
  <2>3. cache.batch < inflight'
    BY <2>1
  <2>4. ASSUME NEW w \in Viewers, awaiting'[w] # 0, batch'[awaiting'[w]] = "done",
               NEW n \in Batches, batch'[n] = "done"
        PROVE  n <= awaiting'[w]
    <3>1. w # v
      BY <2>1, <2>4
    <3> QED
      BY <2>1, <2>2, <2>4, <3>1 DEF OrderInv
  <2> QED
    BY <2>1, <2>2, <2>3, <2>4 DEF OrderInv
<1>5. ASSUME NEW v \in Viewers, Receive(v) PROVE Good
  <2> DEFINE m == awaiting[v]
  <2>1. /\ m \in Batches /\ batch[m] = "done"
        /\ answer'.kind = "metrics" /\ answer'.batch = m
        /\ UNCHANGED <<started, batch, closed>>
        /\ awaiting' = [awaiting EXCEPT ![v] = 0]
    BY <1>5 DEF Receive, Tell
  <2>2. ASSUME NEW n \in Batches, batch[n] = "done" PROVE n <= m
    <3>1. awaiting[v] # 0 /\ batch[awaiting[v]] = "done"
      BY <2>1
    <3> QED
      BY <2>2, <3>1 DEF OrderInv
  <2>3. Forward
    BY <2>1, <2>2 DEF Forward, OrderInv
  <2>4. \A w \in Viewers : (awaiting'[w] # 0 /\ batch'[awaiting'[w]] = "done") =>
           \A n \in Batches : batch'[n] = "done" => n <= awaiting'[w]
    BY <2>1 DEF OrderInv
  <2>5. CASE inflight = m
    <3>1. cache'.batch = m /\ inflight' = 0
      BY <1>5, <2>5 DEF Receive
    <3> QED
      BY <2>1, <2>2, <2>3, <2>4, <3>1 DEF OrderInv
  <2>6. CASE inflight # m
    <3>1. cache' = cache /\ inflight' = inflight
      BY <1>5, <2>6 DEF Receive
    <3>2. ~ closed => m <= cache.batch
      BY <2>1, <2>6 DEF OrderInv
    <3> QED
      BY <2>1, <2>3, <2>4, <3>1, <3>2 DEF OrderInv
  <2> QED
    BY <2>5, <2>6
\* A viewer that stops waiting, and is shown nothing.
<1>6. ASSUME NEW v \in Viewers, ReceiveCancelled(v) \/ CancelViewer(v) PROVE Good
  <2>1. /\ awaiting' = [awaiting EXCEPT ![v] = 0]
        /\ UNCHANGED <<inflight, started, cache, batch, closed>>
        /\ answer' = answer \/ answer'.kind = "cancelled"
    BY <1>6 DEF ReceiveCancelled, CancelViewer, Tell
  <2>2. \A w \in Viewers : awaiting'[w] # 0 => awaiting'[w] = awaiting[w]
    BY <2>1
  <2> QED
    BY <2>1, <2>2 DEF OrderInv, Forward
\* A failed batch is never shown, and makes room for the next one.
<1>7. ASSUME NEW v \in Viewers, ReceiveFailed(v) PROVE Good
  <2>1. /\ awaiting' = [awaiting EXCEPT ![v] = 0] /\ inflight' \in {inflight, 0}
        /\ batch[awaiting[v]] = "failed" /\ awaiting[v] \in Batches
        /\ inflight' = IF inflight = awaiting[v] THEN 0 ELSE inflight
        /\ UNCHANGED <<started, cache, batch, closed>>
        /\ answer'.kind = "failed"
    BY <1>7 DEF ReceiveFailed, Tell
  <2>2. \A w \in Viewers : awaiting'[w] # 0 => awaiting'[w] = awaiting[w]
    BY <2>1
  <2>3. \A n \in Batches : (batch[n] = "done" /\ n = inflight) => n = inflight'
    BY <2>1
  <2> QED
    BY <2>1, <2>2, <2>3 DEF OrderInv, Forward
<1>8. ASSUME NEW n \in Batches, FailBatch(n) PROVE Good
  <2>1. /\ batch' = [batch EXCEPT ![n] = "failed"] /\ batch[n] = "running"
        /\ UNCHANGED <<inflight, started, cache, closed, answer, awaiting>>
    BY <1>8 DEF FailBatch
  <2>2. \A k \in Batches : batch'[k] = "done" <=> batch[k] = "done"
    BY <2>1
  <2>3. ASSUME NEW w \in Viewers, awaiting[w] # 0, batch'[awaiting[w]] = "done",
               NEW k \in Batches, batch'[k] = "done"
        PROVE  k <= awaiting[w]
    <3>1. awaiting[w] \in Batches
      BY <2>3
    <3> QED
      BY <2>2, <2>3, <3>1 DEF OrderInv
  <2> QED
    BY <2>1, <2>2, <2>3 DEF OrderInv
<1>9. ASSUME NEW n \in Batches, EndBatch(n) PROVE Good
  <2>1. /\ n = inflight /\ n = started /\ batch' = [batch EXCEPT ![n] = "done"]
        /\ UNCHANGED <<inflight, started, cache, closed, answer, awaiting>>
    BY <1>9 DEF EndBatch, ReaderInv, OrderInv
  <2>2. ASSUME NEW w \in Viewers, awaiting'[w] # 0, batch'[awaiting'[w]] = "done"
        PROVE  awaiting'[w] = n
    BY <1>9, <2>1, <2>2 DEF EndBatch, Resuming
  <2>3. \A k \in Batches : batch'[k] = "done" => k <= n
    BY <2>1
  <2>4. \A w \in Viewers : (awaiting'[w] # 0 /\ batch'[awaiting'[w]] = "done") =>
           \A k \in Batches : batch'[k] = "done" => k <= awaiting'[w]
    BY <2>2, <2>3
  <2> QED
    BY <2>1, <2>4 DEF OrderInv
<1>10. CASE Tick
  BY <1>10 DEF Tick, OrderInv
<1>11. CASE Close
  <2>1. /\ inflight' = 0 /\ closed' /\ UNCHANGED <<started, answer, awaiting>>
        /\ \A n \in Batches : batch'[n] = "done" <=> batch[n] = "done"
    BY <1>11 DEF Close
  <2>2. answer.kind = "metrics" => answer.batch \in Batches /\ batch'[answer.batch] = "done"
    BY <2>1 DEF OrderInv
  <2>3. ASSUME NEW v \in Viewers, awaiting[v] # 0, batch'[awaiting[v]] = "done",
               NEW n \in Batches, batch'[n] = "done"
        PROVE  n <= awaiting[v]
    <3>1. awaiting[v] \in Batches
      BY <2>3
    <3> QED
      BY <2>1, <2>3, <3>1 DEF OrderInv
  <2> QED
    BY <2>1, <2>2, <2>3 DEF OrderInv
<1> QED
  BY <1>1, <1>2, <1>3, <1>4, <1>5, <1>6, <1>7, <1>8, <1>9, <1>10, <1>11
     DEF Next, Read, Resume, End, vars

-----------------------------------------------------------------------------
\* Type correctness of the reader.
THEOREM ReaderTypes == Spec => []TypeOK
BY TypeInvariant, PTL

\* Prometheus is asked by one batch at a time.
THEOREM SingleFlight == Spec => []OneBatchAtATime
<1>1. ReaderInv => OneBatchAtATime
  <2> SUFFICES ASSUME ReaderInv PROVE OneBatchAtATime
    OBVIOUS
  <2> DEFINE running == {n \in Batches : batch[n] = "running"}
  <2>1. running \subseteq {inflight}
    BY DEF ReaderInv
  <2>2. IsFiniteSet({inflight}) /\ Cardinality({inflight}) = 1
    BY FS_Singleton
  <2>3. Cardinality(running) <= 1
    BY <2>1, <2>2, FS_Subset
  <2> QED
    BY <2>3 DEF OneBatchAtATime
<1> QED
  BY <1>1, ReaderInvariant, PTL

\* A closed reader keeps nothing, whatever ends or resumes afterwards.
THEOREM ClosedIsEmpty == Spec => []NothingKeptAfterClose
<1>1. TypeOK /\ ReaderInv => NothingKeptAfterClose
  BY DEF TypeOK, ReaderInv, NothingKeptAfterClose, Batches
<1> QED
  BY <1>1, ReaderInvariant, PTL

\* Only a batch that all its viewers left is ever handed out past the lifetime
\* of the cache.
THEOREM OnlyAbandonedDataIsStale == Spec => []FreshUnlessAbandoned
<1>1. TypeOK /\ ReaderInv => FreshUnlessAbandoned
  <2> SUFFICES ASSUME TypeOK, ReaderInv, Offered # 0, Offered \notin abandoned
               PROVE  age[Offered] < CacheTicks
    BY DEF FreshUnlessAbandoned
  <2> USE BoundAssumption DEF TypeOK, ReaderInv, Batches
  <2>1. CASE Valid(cache)
    <3>1. Offered = cache.batch /\ cache.batch # 0 /\ cache.left > 0
      BY <2>1 DEF Offered, Valid
    <3>2. cache.batch \in Batches /\ cache.left \in Nat
      BY <3>1
    <3>3. age[cache.batch] + cache.left = CacheTicks
      BY <3>1
    <3> QED
      BY <3>1, <3>2, <3>3
  <2>2. CASE ~ Valid(cache)
    <3>1. Offered = inflight /\ batch[inflight] = "done"
      BY <2>2 DEF Offered
    <3> QED
      BY <3>1
  <2> QED
    BY <2>1, <2>2
<1> QED
  BY <1>1, ReaderInvariant, PTL

\* No viewer is shown older data than a viewer before it, whoever comes, goes,
\* or resumes late, across expiry and close.
THEOREM NobodyGoesBack == Spec => DataNeverGoesBack
<1>1. Init => OrderInv
  BY DEF Init, OrderInv, NoEntry, NoAnswer
<1>2. TypeOK /\ Unstarted /\ ReaderInv /\ OrderInv /\ [Next]_vars => OrderInv'
  BY OrderStep
<1>3. Spec => []OrderInv
  BY <1>1, <1>2, TypeInvariant, ReaderInvariant, PTL DEF Spec
<1>4. TypeOK /\ Unstarted /\ ReaderInv /\ OrderInv /\ [Next]_vars =>
        [(answer.kind = "metrics" /\ answer'.kind = "metrics")
          => answer'.batch >= answer.batch]_vars
  <2> SUFFICES ASSUME TypeOK, Unstarted, ReaderInv, OrderInv, [Next]_vars,
                      answer.kind = "metrics", answer'.kind = "metrics"
               PROVE  answer'.batch >= answer.batch
    OBVIOUS
  <2>1. answer.batch \in 0..started
    BY DEF TypeOK
  <2> QED
    BY <2>1, OrderStep DEF Forward
<1> QED
  BY <1>3, <1>4, TypeInvariant, ReaderInvariant, PTL DEF Spec, DataNeverGoesBack

=============================================================================
