--------------------------- MODULE AdminLogsProofs ---------------------------
(***************************************************************************)
(* What TLAPS proves of AdminLogs, for any clients, threads, queries, page *)
(* sizes and limits: the busy flag is right, pages go back, and a walk     *)
(* through the pages misses nothing.  That pages go back follows the       *)
(* cursor: it is never above what a walk has shown, and neither is what a  *)
(* scan was asked, or has found, for a client that still waits.  That      *)
(* nothing is missing follows the records: each one was shown, or lies     *)
(* below the cursor, or the page admits that it was cut.                   *)
(***************************************************************************)
EXTENDS AdminLogs, FiniteSetTheorems, SequenceTheorems, WellFoundedInduction, TLAPS

FlagInv ==
    /\ BusyIsRight
    /\ \A n \in releases : future[n] \in {"done", "cancelled"}

Behind(c, S) == \A r \in Shown(c), s \in S : r.at > s.at

(* A page of what is in S: its cursor is at one of them, above none it shows. *)
PageOf(page, S) ==
    /\ page.items \subseteq S
    /\ page.next = NoCursor
       \/ (/\ \E e \in S : page.next.at = e.at
          /\ \A s \in page.items : page.next.at <= s.at)

WalkOf(c) ==
    /\ walk[c].pages \in Seq(SUBSET Record)
    /\ walk[c].state = "rest" => walk[c].pages = <<>>
    /\ walk[c].state = "walking" =>
          /\ walk[c].cursor # NoCursor
          /\ walk[c].cursor.at \in Nat
          /\ \A r \in Shown(c) : walk[c].cursor.at <= r.at
    /\ \A i, j \in DOMAIN walk[c].pages : i < j =>
          \A r \in walk[c].pages[i], s \in walk[c].pages[j] : r.at > s.at

AskOf(c) ==
    waiting[c] # 0 =>
        /\ future[waiting[c]] \in {"queued", "running"} =>
              /\ Behind(c, Before(Record, ask[waiting[c]].place))
              /\ ask[waiting[c]].limit \in Limits
        /\ future[waiting[c]] = "done" =>
              \E S \in SUBSET Record : Behind(c, S) /\ PageOf(result[waiting[c]].page, S)

Functions2 ==
    /\ walk = [c \in Clients |-> walk[c]]
    /\ ask = [n \in Scans |-> ask[n]]
    /\ result = [n \in Scans |-> result[n]]

PagesInv == Functions2 /\ \A c \in Clients : WalkOf(c) /\ AskOf(c)

(* The places of the records agree with their times, as far as threads keep to it. *)
Forming == {t \in Threads : forming[t] # None}

OrderInv ==
    /\ scope = "current_process" => sequence + Cardinality(Forming) <= MaxRecords
    /\ scope = "journal_local" => sequence <= MaxEntries
    /\ \A r \in records : r.at <= sequence /\ r.time <= now
    /\ \A r, s \in records : r.at = s.at => r = s
    /\ \A r, s \in records : r.at < s.at => r.time <= s.time + Disorder
    /\ \A t \in Threads : forming[t] # None =>
          forming[t].time <= now /\ now <= forming[t].time + Skew

(* What a scan that looks for q does not end before.                        *)
Fresh(r, q) ==
    /\ r.kind # "garbage" /\ Matches(r, q)
    /\ r.time >= now - q.window + Disorder

(* The page shows r, leaves it to the next page, or admits that it was cut. *)
Covers(page, r) ==
    \/ r \in page.items
    \/ page.next # NoCursor /\ r.at < page.next.at
    \/ page.next = NoCursor /\ page.truncated

WalkGoesOn(c) ==
    LET w == walk[c] IN
    /\ w.state = "rest" => w.cursor = NoCursor
    /\ w.state # "rest" => /\ w.query \in Queries /\ w.from \in Nat
                           /\ w.boot \in Nat /\ w.boot <= boot
                           /\ scope = "journal_local" \/ w.boot = boot => w.from <= sequence
    /\ w.state = "walking" => w.cursor.query = w.query
    /\ w.state \in {"walking", "ended"} =>
          \A r \in records :
             (r.at <= w.from /\ OfItsTime(r, c) /\ Fresh(r, w.query)) =>
                 r \in Shown(c) \/ (w.state = "walking" /\ r.at < w.cursor.at)

(* The scan that a client waits for goes on where its walk is, and once it  *)
(* is done its page and what was shown before leave nothing out.            *)
AskGoesOn(c) ==
    LET n == waiting[c]
        w == walk[c]
    IN  n # 0 =>
        /\ scope = "journal_local" /\ w.state \in {"rest", "walking"}
        /\ future[n] \in {"queued", "running"} =>
              /\ ask[n].query \in Queries
              /\ w.state = "rest" => ask[n].place = Top
              /\ w.state = "walking" => ask[n].query = w.query /\ ask[n].place = w.cursor.at
        /\ (future[n] = "done" /\ result[n].page.available) =>
              /\ result[n].query \in Queries
              /\ result[n].newest \in Nat /\ result[n].newest <= sequence
              /\ result[n].page.next # NoCursor => result[n].page.next.query = result[n].query
              /\ w.state = "walking" => result[n].query = w.query
              /\ \A r \in records :
                    (/\ r.at <= IF w.state = "walking" THEN w.from ELSE result[n].newest
                     /\ Fresh(r, result[n].query)) =>
                        r \in Shown(c) \/ Covers(result[n].page, r)

MissInv == \A c \in Clients : WalkGoesOn(c) /\ AskGoesOn(c)

-----------------------------------------------------------------------------
(* Types *)

LEMMA SizesAre ==
  /\ Capacity \in Nat \ {0} /\ ScanLimit \in Nat \ {0} /\ Limits \subseteq Nat \ {0}
  /\ Codes \subseteq Nat /\ LoggedKinds \subseteq Kinds /\ MaxScans \in Nat
  /\ Scans \subseteq Nat \ {0}
BY SizeAssumption DEF Scans

LEMMA FirstOfSubset == \A S, n : FirstOf(S, n) \subseteq S
BY DEF FirstOf

\* A record more.
LEMMA RecordAdded ==
  ASSUME RecordsOK, NEW new \in Record, records' \subseteq records \cup {new}
  PROVE  records' \subseteq Record /\ IsFiniteSet(records')
<1>1. IsFiniteSet(records \cup {new})
  BY FS_AddElement DEF RecordsOK
<1> QED
  BY <1>1, FS_Subset DEF RecordsOK

LEMMA RecordsStep ==
  ASSUME RecordsOK, [Next]_vars
  PROVE  RecordsOK'
<1> USE SizesAre DEF RecordsOK, recordVars, readerVars
<1>1. ASSUME NEW t \in Threads, NEW kind \in LoggedKinds, NEW code \in Codes, Form(t, kind, code)
      PROVE  RecordsOK'
  <2>1. [time |-> now, kind |-> kind, code |-> code] \in
           [time : Nat, kind : LoggedKinds, code : Codes]
    OBVIOUS
  <2> QED
    BY <1>1, <2>1 DEF Form
<1>2. ASSUME NEW t \in Threads, Enter(t) PROVE RecordsOK'
  <2> DEFINE f == forming[t]
             new == [at |-> sequence + 1, boot |-> boot, time |-> f.time,
                     kind |-> f.kind, code |-> f.code]
  <2>1. f \in [time : Nat, kind : LoggedKinds, code : Codes]
    BY <1>2 DEF Enter
  <2>2. new \in Record
    BY <2>1 DEF Record
  <2>3. \/ sequence' = sequence + 1 /\ records' = FirstOf(records \cup {new}, Capacity)
        \/ sequence' = sequence /\ records' = records
    BY <1>2 DEF Enter
  <2> HIDE DEF new
  <2>4. records' \subseteq records \cup {new} /\ sequence' \in Nat
    BY <2>3, FirstOfSubset
  <2>5. records' \subseteq Record /\ IsFiniteSet(records')
    BY <2>2, <2>4, RecordAdded
  <2> QED
    BY <1>2, <2>4, <2>5 DEF Enter
<1>3. ASSUME NEW kind \in LoggedKinds, NEW code \in Codes, WriteEntry(kind, code) PROVE RecordsOK'
  <2> DEFINE new == [at |-> sequence + 1, boot |-> 0, time |-> now, kind |-> kind, code |-> code]
  <2>1. new \in Record
    BY DEF Record
  <2>2. sequence' = sequence + 1 /\ records' = records \cup {new}
    BY <1>3 DEF WriteEntry
  <2> HIDE DEF new
  <2>3. records' \subseteq Record /\ IsFiniteSet(records')
    BY <2>1, <2>2, RecordAdded
  <2> QED
    BY <1>3, <2>2, <2>3 DEF WriteEntry
<1>4. CASE Vacuum
  <2>1. records' \subseteq records
    BY <1>4 DEF Vacuum
  <2>2. IsFiniteSet(records')
    BY <2>1, FS_Subset
  <2> QED
    BY <1>4, <2>1, <2>2 DEF Vacuum
<1>5. CASE Tick
  BY <1>5 DEF Tick
<1>6. ASSUME NEW c \in Clients,
             \/ Begin(c) \/ SubmitFails(c) \/ Resume(c) \/ GiveUp(c)
             \/ \E q \in Queries, limit \in Limits : ReadProcess(c, q, limit) \/ Submit(c, q, limit)
      PROVE  RecordsOK'
  BY <1>6 DEF Begin, SubmitFails, Resume, GiveUp, ReadProcess, Submit
<1>7. ASSUME NEW n \in Scans, Scan(n) \/ EndScan(n) \/ Release(n) PROVE RecordsOK'
  BY <1>7 DEF Scan, EndScan, Release
<1>8. CASE Close \/ EndClose
  BY <1>8 DEF Close, EndClose
<1>9. CASE Restart
  <2>1. /\ records' \subseteq Record /\ IsFiniteSet(records')
        /\ sequence' \in Nat /\ boot' \in Nat
        /\ forming' \in [Threads -> {None} \cup [time : Nat, kind : LoggedKinds, code : Codes]]
    <3>1. \/ /\ boot' = boot + 1 /\ forming' = [t \in Threads |-> None]
             /\ records' = {} /\ sequence' = 0
          \/ UNCHANGED <<boot, recordVars>>
      BY <1>9 DEF Restart
    <3>2. CASE UNCHANGED <<boot, recordVars>>
      BY <3>2
    <3>3. CASE /\ boot' = boot + 1 /\ forming' = [t \in Threads |-> None]
               /\ records' = {} /\ sequence' = 0
      BY <3>3, FS_EmptySet
    <3> QED
      BY <3>1, <3>2, <3>3
  <2>2. scope' = scope /\ now' = now
    BY <1>9 DEF Restart
  <2> QED
    BY <2>1, <2>2
<1>10. CASE UNCHANGED vars
  BY <1>10 DEF vars
<1> QED
  BY <1>1, <1>2, <1>3, <1>4, <1>5, <1>6, <1>7, <1>8, <1>9, <1>10
     DEF Next, Logging, Reading, Scanning

LEMMA ReaderStep ==
  ASSUME ReaderOK, [Next]_vars
  PROVE  ReaderOK'
<1> USE SizesAre DEF ReaderOK
<1>1. CASE Logging \/ Vacuum \/ Tick
  BY <1>1 DEF Logging, Form, Enter, WriteEntry, Vacuum, Tick, readerVars
<1>2. ASSUME NEW c \in Clients, NEW q \in Queries, NEW limit \in Limits, Submit(c, q, limit)
      PROVE  ReaderOK'
  <2>1. PICK n \in Scans : /\ busy' = TRUE /\ active' = n
                           /\ future' = [future EXCEPT ![n] = "queued"]
                           /\ waiting' = [waiting EXCEPT ![c] = n]
    BY <1>2 DEF Submit
  <2>2. n \in 0..MaxScans
    BY DEF Scans
  <2> QED
    BY <1>2, <2>1, <2>2 DEF Submit
<1>3. ASSUME NEW c \in Clients,
             Begin(c) \/ \E q \in Queries, limit \in Limits : ReadProcess(c, q, limit)
      PROVE  ReaderOK'
  BY <1>3 DEF Begin, ReadProcess, readerVars
<1>4. ASSUME NEW c \in Clients, SubmitFails(c) PROVE ReaderOK'
  BY <1>4 DEF SubmitFails
<1>5. ASSUME NEW c \in Clients, GiveUp(c) PROVE ReaderOK'
  <2>1. waiting' = [waiting EXCEPT ![c] = 0]
    BY <1>5 DEF GiveUp
  <2>2. waiting' \in [Clients -> 0..MaxScans]
    BY <2>1
  <2> QED
    BY <1>5, <2>2 DEF GiveUp
<1>r. ASSUME NEW n, ReleaseActive(n) PROVE busy' \in BOOLEAN /\ active' \in 0..MaxScans
  <2>1. \/ active' = 0 /\ busy' = FALSE
        \/ active' = active /\ busy' = busy
    BY <1>r DEF ReleaseActive
  <2>2. busy' \in BOOLEAN
    BY <2>1, Zenon
  <2>3. active' \in 0..MaxScans
    BY <2>1
  <2> QED
    BY <2>2, <2>3
<1>6. ASSUME NEW c \in Clients, Resume(c) PROVE ReaderOK'
  BY <1>6, <1>r DEF Resume
<1>7. ASSUME NEW n \in Scans, Scan(n) PROVE ReaderOK'
  BY <1>7 DEF Scan
<1>8. ASSUME NEW n \in Scans, EndScan(n) PROVE ReaderOK'
  BY <1>8 DEF EndScan
<1>9. ASSUME NEW n \in Scans, Release(n) PROVE ReaderOK'
  BY <1>9, <1>r DEF Release
<1>10. CASE Close
  BY <1>10 DEF Close
<1>11. CASE EndClose
  <2>1. PICK cancelled \in SUBSET Scans :
          /\ future' = [n \in Scans |-> IF n \in cancelled THEN "cancelled" ELSE future[n]]
          /\ releases' = releases \cup cancelled
    BY <1>11 DEF EndClose
  <2> QED
    BY <1>11, <2>1 DEF EndClose
<1>12. CASE Restart
  <2>1. /\ busy' = FALSE /\ active' = 0 /\ closing' = "open" /\ worker' = FALSE
        /\ future' = [n \in Scans |-> "none"] /\ releases' = {}
        /\ waiting' = [c \in Clients |-> 0]
    BY <1>12 DEF Restart
  <2>2. busy' \in BOOLEAN /\ worker' \in BOOLEAN
    BY <2>1, Zenon
  <2>3. active' \in 0..MaxScans /\ waiting' \in [Clients -> 0..MaxScans]
    BY <2>1
  <2> QED
    BY <2>1, <2>2, <2>3
<1>13. CASE UNCHANGED vars
  BY <1>13 DEF vars, readerVars
<1> QED
  BY <1>1, <1>2, <1>3, <1>4, <1>5, <1>6, <1>7, <1>8, <1>9, <1>10, <1>11, <1>12, <1>13
     DEF Next, Reading, Scanning

-----------------------------------------------------------------------------
(* The busy flag *)

\* Who releases has ended, so the scan that runs is another one.
LEMMA ReleaseKeepsFlag ==
  ASSUME ReaderOK, FlagInv, NEW n \in Scans, future[n] \in {"done", "cancelled"},
         ReleaseActive(n), future' = future, worker' = worker, releases' \subseteq releases
  PROVE  FlagInv'
<1>1. CASE active = n
  <2>1. active' = 0 /\ busy' = FALSE
    BY <1>1 DEF ReleaseActive
  <2>2. \A m \in Scans : future[m] \notin {"queued", "running"}
    BY <1>1 DEF FlagInv, BusyIsRight, OneScanAtATime
  <2> QED
    BY <2>1, <2>2 DEF FlagInv, BusyIsRight, OneScanAtATime, BusyMeansScanning
<1>2. CASE active # n
  BY <1>2 DEF ReleaseActive, FlagInv, BusyIsRight, OneScanAtATime, BusyMeansScanning
<1> QED
  BY <1>1, <1>2

LEMMA FlagUntouched ==
  ASSUME FlagInv, UNCHANGED <<busy, active, worker, future, releases>>
  PROVE  FlagInv'
BY Zenon DEF FlagInv, BusyIsRight, OneScanAtATime, BusyMeansScanning

LEMMA FlagStep ==
  ASSUME ReaderOK, FlagInv, [Next]_vars
  PROVE  FlagInv'
<1> USE SizesAre DEF FlagInv, BusyIsRight, OneScanAtATime, BusyMeansScanning, ReaderOK
<1>1. CASE Logging \/ Vacuum \/ Tick
  <2>1. UNCHANGED readerVars
    BY <1>1 DEF Logging, Form, Enter, WriteEntry, Vacuum, Tick
  <2> QED
    BY <2>1, FlagUntouched DEF readerVars
<1>2. ASSUME NEW c \in Clients, NEW q \in Queries, NEW limit \in Limits, Submit(c, q, limit)
      PROVE  FlagInv'
  <2>1. PICK n \in Scans : /\ ~ InUse(n) /\ busy' = TRUE /\ active' = n
                           /\ future' = [future EXCEPT ![n] = "queued"]
    BY <1>2 DEF Submit
  <2>2. /\ ~ busy /\ n # 0 /\ n \notin releases /\ releases' = releases
        /\ \A m \in Scans : m # n => future'[m] = future[m]
        /\ future'[n] = "queued"
    BY <1>2, <2>1 DEF Submit, InUse
  <2>3. \A m \in Scans : future'[m] \in {"queued", "running"} => m = n
    BY <2>2
  <2>4. OneScanAtATime' /\ BusyMeansScanning'
    BY <2>1, <2>2, <2>3
  <2>5. \A m \in releases' : future'[m] \in {"done", "cancelled"}
    BY <2>2
  <2> QED
    BY <2>4, <2>5
<1>3. ASSUME NEW c \in Clients,
             Begin(c) \/ \E q \in Queries, limit \in Limits : ReadProcess(c, q, limit)
      PROVE  FlagInv'
  <2>1. UNCHANGED readerVars
    BY <1>3 DEF Begin, ReadProcess
  <2> QED
    BY <2>1, FlagUntouched DEF readerVars
<1>4. ASSUME NEW c \in Clients, SubmitFails(c) PROVE FlagInv'
  BY <1>4 DEF SubmitFails
<1>5. ASSUME NEW c \in Clients, GiveUp(c) PROVE FlagInv'
  BY <1>5 DEF GiveUp
<1>6. ASSUME NEW c \in Clients, Resume(c) PROVE FlagInv'
  <2>1. waiting[c] \in Scans
    BY <1>6 DEF Resume, Scans
  <2> QED
    BY <1>6, <2>1, ReleaseKeepsFlag DEF Resume
<1>7. ASSUME NEW n \in Scans, Scan(n) PROVE FlagInv'
  BY <1>7 DEF Scan
<1>8. ASSUME NEW n \in Scans, EndScan(n) PROVE FlagInv'
  BY <1>8 DEF EndScan
<1>9. ASSUME NEW n \in Scans, Release(n) PROVE FlagInv'
  BY <1>9, ReleaseKeepsFlag DEF Release
<1>10. CASE Close
  BY <1>10 DEF Close
<1>11. CASE EndClose
  <2>1. PICK cancelled \in SUBSET Scans :
          /\ future' = [n \in Scans |-> IF n \in cancelled THEN "cancelled" ELSE future[n]]
          /\ releases' = releases \cup cancelled
    BY <1>11 DEF EndClose
  <2> QED
    BY <1>11, <2>1 DEF EndClose
<1>12. CASE Restart
  <2>1. busy' = FALSE /\ future' = [n \in Scans |-> "none"] /\ releases' = {}
    BY <1>12 DEF Restart
  <2> QED
    BY <2>1
<1>13. CASE UNCHANGED vars
  BY <1>13 DEF vars, readerVars
<1> QED
  BY <1>1, <1>2, <1>3, <1>4, <1>5, <1>6, <1>7, <1>8, <1>9, <1>10, <1>11, <1>12, <1>13
     DEF Next, Reading, Scanning

LEMMA FlagInductive == Spec => [](TypeOK /\ FlagInv)
<1>1. Init => TypeOK /\ FlagInv
  <2> SUFFICES ASSUME Init PROVE TypeOK /\ FlagInv
    OBVIOUS
  <2>1. RecordsOK
    BY FS_EmptySet DEF Init, RecordsOK
  <2>2. busy \in BOOLEAN /\ worker \in BOOLEAN
    BY Zenon DEF Init
  <2>3. ReaderOK
    BY <2>2, SizesAre DEF Init, ReaderOK
  <2>4. FlagInv
    BY DEF Init, FlagInv, BusyIsRight, OneScanAtATime, BusyMeansScanning
  <2> QED
    BY <2>1, <2>3, <2>4 DEF TypeOK
<1>2. TypeOK /\ FlagInv /\ [Next]_vars => (TypeOK /\ FlagInv)'
  BY RecordsStep, ReaderStep, FlagStep DEF TypeOK
<1> QED
  BY <1>1, <1>2, PTL DEF Spec

\* Type correctness: a record is a record, and the reader's states are its states.
THEOREM LogTypes == Spec => []TypeOK
BY FlagInductive, PTL

\* The busy flag is up for every scan that runs and for nothing else (_release compares the
\* active scan with the one that ended).
THEOREM BusyStaysRight == Spec => []BusyIsRight
<1>1. FlagInv => BusyIsRight
  BY DEF FlagInv
<1> QED
  BY <1>1, FlagInductive, PTL

-----------------------------------------------------------------------------
(* Pages *)

\* A set of numbers has a least one: of the sets of what is below a member, one is minimal.
LEMMA SomeLeast ==
  ASSUME NEW T, T \subseteq Nat, T # {}
  PROVE  \E x \in T : \A y \in T : x <= y
<1> DEFINE Below(x) == {y \in T : y < x}
           F == {Below(x) : x \in T}
<1>1. F \subseteq FiniteSubsetsOf(Nat) /\ F # {}
  <2>3. F # {}
    <3> HIDE DEF Below
    <3> QED
      OBVIOUS
  <2>4. ASSUME NEW x \in T PROVE Below(x) \in FiniteSubsetsOf(Nat)
    <3>1. x \in Nat /\ \A y \in T : y < x => y \in 0..x
      OBVIOUS
    <3>2. Below(x) \subseteq 0..x /\ Below(x) \subseteq Nat
      BY <3>1
    <3>3. IsFiniteSet(0..x)
      BY <3>1, FS_Interval
    <3> HIDE DEF Below
    <3>4. IsFiniteSet(Below(x))
      BY <3>2, <3>3, FS_Subset
    <3> QED
      BY <3>2, <3>4 DEF FiniteSubsetsOf
  <2> HIDE DEF Below
  <2> QED
    BY <2>3, <2>4
<1>2. PICK D \in F : \A E \in F : ~ (<<E, D>> \in StrictSubsetOrdering(Nat))
  <2> HIDE DEF F
  <2> QED
    BY <1>1, FS_StrictSubsetOrderingWellFounded, WFMin
<1>3. PICK x \in T : D = Below(x)
  OBVIOUS
<1>4. ASSUME NEW y \in T, y < x PROVE FALSE
  <2>1. Below(y) \subseteq Below(x) /\ y \in Below(x) /\ y \notin Below(y)
    <3>1. x \in Nat /\ y \in Nat /\ ~ (y < y)
      OBVIOUS
    <3>2. \A z \in T : z < y => z < x
      BY <1>4, <3>1
    <3> QED
      BY <1>4, <3>1, <3>2
  <2>2. Below(y) \in F /\ Below(y) \subseteq Nat /\ Below(x) \subseteq Nat
    OBVIOUS
  <2> HIDE DEF Below, F
  <2>3. <<Below(y), Below(x)>> \in StrictSubsetOrdering(Nat)
    BY <2>1, <2>2 DEF StrictSubsetOrdering
  <2> QED
    BY <1>2, <1>3, <2>2, <2>3
<1> QED
  BY <1>4

LEMMA LowestIs ==
  ASSUME NEW S, S # {}, \A r \in S : r.at \in Nat
  PROVE  (\E e \in S : Lowest(S) = e.at) /\ \A r \in S : Lowest(S) <= r.at
<1> DEFINE T == {r.at : r \in S}
<1>1. T \subseteq Nat /\ T # {}
  OBVIOUS
<1>2. PICK x \in T : \A y \in T : x <= y
  <2> HIDE DEF T
  <2> QED
    BY <1>1, SomeLeast
<1>3. Min(T) \in T /\ \A y \in T : Min(T) <= y
  BY <1>2 DEF Min
<1> QED
  BY <1>1, <1>3 DEF Lowest

LEMMA ProcessPageIs ==
  ASSUME NEW S \in SUBSET Record, NEW q, NEW place, NEW limit, NEW t
  PROVE  PageOf(ProcessPage(S, q, place, limit, t), Before(S, place))
<1> DEFINE scanned == UpToFirstOld(Before(S, place), t - q.window)
           hits == {r \in scanned : Matches(r, q)}
           items == FirstOf(hits, limit)
           more == hits # items
           next == IF more /\ items # {} THEN Cursor("p2", q, Lowest(items)) ELSE NoCursor
<1>1. items \subseteq hits /\ hits \subseteq Before(S, place)
  BY FirstOfSubset DEF UpToFirstOld
<1>2. items \subseteq Record /\ \A r \in items : r.at \in Nat
  BY <1>1 DEF Before, Record
<1>3. /\ ProcessPage(S, q, place, limit, t).items = items
      /\ ProcessPage(S, q, place, limit, t).next = next
  BY DEF ProcessPage, Page
<1>4. next = NoCursor \/ (/\ \E e \in Before(S, place) : next.at = e.at
                        /\ \A s \in items : next.at <= s.at)
  <2> HIDE DEF items
  <2>1. CASE items = {}
    BY <2>1
  <2>2. CASE items # {}
    <3>1. (\E e \in items : Lowest(items) = e.at) /\ \A r \in items : Lowest(items) <= r.at
      BY <1>2, <2>2, LowestIs
    <3>2. Cursor("p2", q, Lowest(items)).at = Lowest(items)
      BY DEF Cursor
    <3> QED
      BY <1>1, <3>1, <3>2
  <2> QED
    BY <2>1, <2>2
<1> HIDE DEF items, next, hits
<1> QED
  BY <1>1, <1>2, <1>3, <1>4 DEF PageOf

LEMMA JournalPageIs ==
  ASSUME NEW S \in SUBSET Record, NEW q, NEW place, NEW limit \in Nat \ {0}, NEW t,
         NEW budget \in Nat
  PROVE  PageOf(JournalPage(S, q, place, limit, t, budget), Before(S, place))
<1> DEFINE reached == FirstOf(Before(S, place), budget)
           fresh == UpToFirstOld(reached, t - q.window)
           hits == {e \in fresh : e.kind # "garbage" /\ Matches(e, q)}
           items == FirstOf(hits, limit)
           full == Cardinality(items) = limit
           cut == fresh = reached /\ Cardinality(reached) = budget
           next == IF full \/ (cut /\ budget > 0)
                   THEN Cursor("j2", q, LastExamined(items, reached, full)) ELSE NoCursor
<1>1. items \subseteq hits /\ hits \subseteq reached /\ reached \subseteq Before(S, place)
  BY FirstOfSubset DEF UpToFirstOld
<1>2. reached \subseteq Record /\ \A r \in reached : r.at \in Nat
  BY <1>1 DEF Before, Record
<1>3. /\ JournalPage(S, q, place, limit, t, budget).items = items
      /\ JournalPage(S, q, place, limit, t, budget).next = next
  BY DEF JournalPage, Page
<1>4. next = NoCursor \/ (/\ \E e \in Before(S, place) : next.at = e.at
                        /\ \A s \in items : next.at <= s.at)
  <2> HIDE DEF items, reached, hits, fresh
  <2>1. CASE full
    <3>1. items # {}
      BY <2>1, FS_EmptySet
    <3>2. (\E e \in items : Lowest(items) = e.at) /\ \A r \in items : Lowest(items) <= r.at
      BY <1>1, <1>2, <3>1, LowestIs
    <3>3. next.at = Lowest(items)
      BY <2>1 DEF Cursor, LastExamined
    <3> QED
      BY <1>1, <3>2, <3>3
  <2>2. CASE ~ full /\ cut /\ budget > 0
    <3>1. reached # {}
      BY <2>2, FS_EmptySet
    <3>2. (\E e \in reached : Lowest(reached) = e.at) /\ \A r \in reached : Lowest(reached) <= r.at
      BY <1>2, <3>1, LowestIs
    <3>3. next.at = Lowest(reached)
      BY <2>2 DEF Cursor, LastExamined
    <3> QED
      BY <1>1, <3>2, <3>3
  <2> QED
    BY <2>1, <2>2
<1> HIDE DEF items, next, hits, reached
<1> QED
  BY <1>1, <1>2, <1>3, <1>4 DEF PageOf

\* A page that lies behind what a walk has shown is added to it.
LEMMA ShowKeeps ==
  ASSUME Functions2, NEW c \in Clients, WalkOf(c),
         NEW q, NEW page, NEW newest,
         NEW S \in SUBSET Record, Behind(c, S), PageOf(page, S), Show(c, q, page, newest)
  PROVE  /\ WalkOf(c)'
         /\ walk' = [d \in Clients |-> walk'[d]]
         /\ \A d \in Clients : d # c => walk'[d] = walk[d]
<1>1. /\ walk' = [d \in Clients |-> walk'[d]]
      /\ \A d \in Clients : d # c => walk'[d] = walk[d]
  BY DEF Functions2, Show
<1>2. CASE ~ page.available
  <2>1. walk'[c] = walk[c]
    BY <1>2 DEF Functions2, Show
  <2> QED
    BY <1>1, <2>1 DEF WalkOf, Shown
<1>3. CASE page.available
  <2> DEFINE old == walk[c].pages
             new == Append(old, page.items)
  <2>1. /\ walk'[c].pages = new
        /\ walk'[c].cursor = page.next
        /\ walk'[c].state = IF page.next # NoCursor THEN "walking"
                            ELSE IF page.truncated THEN "cut" ELSE "ended"
    BY <1>3 DEF Functions2, Show
  <2>2. old \in Seq(SUBSET Record) /\ page.items \in SUBSET Record
    BY DEF WalkOf, PageOf
  <2> HIDE DEF new
  <2>3. /\ new \in Seq(SUBSET Record)
        /\ DOMAIN new = 1..(Len(old) + 1) /\ DOMAIN old = 1..Len(old) /\ Len(old) \in Nat
        /\ \A i \in 1..Len(old) : new[i] = old[i]
        /\ new[Len(old) + 1] = page.items
    BY <2>2 DEF new
  <2>4. \A i \in DOMAIN old : \A r \in old[i], s \in page.items : r.at > s.at
    BY DEF Behind, Shown, PageOf
  <2>5. \A i, j \in DOMAIN old : i < j => \A r \in old[i], s \in old[j] : r.at > s.at
    BY DEF WalkOf
  <2>6. \A i, j \in DOMAIN new : i < j => \A r \in new[i], s \in new[j] : r.at > s.at
    <3> SUFFICES ASSUME NEW i \in DOMAIN new, NEW j \in DOMAIN new, i < j
                 PROVE  \A r \in new[i], s \in new[j] : r.at > s.at
      OBVIOUS
    <3>1. i \in 1..Len(old)
      BY <2>3
    <3>2. CASE j = Len(old) + 1
      BY <2>3, <2>4, <3>1, <3>2
    <3>3. CASE j \in 1..Len(old)
      BY <2>3, <2>5, <3>1, <3>3
    <3> QED
      BY <2>3, <3>2, <3>3
  <2>7. ASSUME page.next # NoCursor
        PROVE  /\ page.next.at \in Nat
               /\ \A i \in DOMAIN new : \A r \in new[i] : page.next.at <= r.at
    <3>1. PICK e \in S : page.next.at = e.at
      BY <2>7 DEF PageOf
    <3>2. e.at \in Nat /\ \A s \in page.items : page.next.at <= s.at
      BY <2>7 DEF PageOf, Record
    <3>3. \A i \in DOMAIN old : \A r \in old[i] : r.at > e.at /\ r.at \in Nat
      BY <2>2 DEF Behind, Shown, Record
    <3>4. \A i \in DOMAIN new : \A r \in new[i] : page.next.at <= r.at
      <4> SUFFICES ASSUME NEW i \in DOMAIN new, NEW r \in new[i] PROVE page.next.at <= r.at
        OBVIOUS
      <4>1. CASE i \in DOMAIN old
        BY <2>3, <3>1, <3>2, <3>3, <4>1
      <4>2. CASE i = Len(old) + 1
        BY <2>3, <3>2, <4>2
      <4> QED
        BY <2>3, <4>1, <4>2
    <3> QED
      BY <3>1, <3>2, <3>4
  <2>8. Shown(c)' = UNION {new[i] : i \in DOMAIN new}
    BY <2>1 DEF Shown
  <2>9. walk'[c].state # "rest" /\ (walk'[c].state = "walking" => page.next # NoCursor)
    BY <2>1
  <2>10. walk'[c].state = "walking" =>
            /\ walk'[c].cursor # NoCursor
            /\ walk'[c].cursor.at \in Nat
            /\ \A r \in Shown(c)' : walk'[c].cursor.at <= r.at
    BY <2>1, <2>7, <2>8, <2>9
  <2>11. /\ walk'[c].pages \in Seq(SUBSET Record)
         /\ walk'[c].state = "rest" => walk'[c].pages = <<>>
    BY <2>1, <2>3, <2>9
  <2>12. \A i, j \in DOMAIN walk'[c].pages : i < j =>
            \A r \in walk'[c].pages[i], s \in walk'[c].pages[j] : r.at > s.at
    BY <2>1, <2>6
  <2>13. WalkOf(c)'
    BY ONLY <2>10, <2>11, <2>12 DEF WalkOf
  <2> QED
    BY <1>1, <2>13
<1> QED
  BY <1>1, <1>2, <1>3

\* Whoever walks asks for what is behind all it was shown.
LEMMA PlaceIsBehind ==
  ASSUME NEW c \in Clients, WalkOf(c), CanAsk(c), NEW q, Place(c, Version, q) # Invalid
  PROVE  Behind(c, Before(Record, Place(c, Version, q)))
<1>1. CASE walk[c].state = "rest"
  BY <1>1 DEF WalkOf, Behind, Shown
<1>2. CASE walk[c].state = "walking"
  <2>1. Place(c, Version, q) = walk[c].cursor.at
    BY <1>2 DEF WalkOf, Place, Decode
  <2>2. \A r \in Shown(c) : walk[c].cursor.at <= r.at /\ r.at \in Nat
    BY <1>2 DEF WalkOf, Shown, Record
  <2>3. walk[c].cursor.at \in Nat /\ \A s \in Record : s.at \in Nat
    BY <1>2 DEF WalkOf, Record
  <2> QED
    BY <2>1, <2>2, <2>3 DEF Behind, Before
<1> QED
  BY <1>1, <1>2 DEF CanAsk

\* A client whose walk and scan stay as they are.
LEMMA ClientUntouched ==
  ASSUME NEW c \in Clients, WalkOf(c), AskOf(c), walk'[c] = walk[c], waiting'[c] = waiting[c],
         waiting[c] # 0 => /\ future'[waiting[c]] = future[waiting[c]]
                           /\ ask'[waiting[c]] = ask[waiting[c]]
                           /\ result'[waiting[c]] = result[waiting[c]]
  PROVE  WalkOf(c)' /\ AskOf(c)'
<1>1. Shown(c)' = Shown(c)
  BY DEF Shown
<1>2. WalkOf(c)'
  BY <1>1 DEF WalkOf
<1>3. AskOf(c)'
  BY <1>1 DEF AskOf, Behind
<1> QED
  BY <1>2, <1>3

\* What does not touch walks, scans and clients keeps the pages.
LEMMA PagesUntouched ==
  ASSUME PagesInv, UNCHANGED <<walk, ask, result, future, waiting>>
  PROVE  PagesInv'
<1>1. Functions2'
  BY DEF PagesInv, Functions2
<1>2. ASSUME NEW c \in Clients PROVE WalkOf(c)' /\ AskOf(c)'
  BY ClientUntouched DEF PagesInv
<1> QED
  BY <1>1, <1>2 DEF PagesInv


\* Another client took a result.
LEMMA ResultTaken ==
  ASSUME ReaderOK, Functions2, NEW d \in Clients, WalkOf(d), AskOf(d),
         walk'[d] = walk[d], waiting'[d] = waiting[d], UNCHANGED <<ask, future>>,
         NEW n, result' = [result EXCEPT ![n] = NoResult]
  PROVE  WalkOf(d)' /\ AskOf(d)'
<1>1. CASE waiting[d] # n
  <2>1. waiting[d] # 0 => waiting[d] \in Scans
    BY SizesAre DEF ReaderOK, Scans
  <2>2. waiting[d] # 0 => result'[waiting[d]] = result[waiting[d]]
    BY <1>1, <2>1 DEF Functions2
  <2> QED
    BY <2>2, ClientUntouched
<1>2. CASE waiting[d] = n
  <2>1. Shown(d)' = Shown(d)
    BY DEF Shown
  <2>2. WalkOf(d)'
    BY <2>1 DEF WalkOf
  <2>3. waiting[d] # 0 => result'[waiting[d]].page = Unavailable
    BY <1>2, SizesAre DEF Functions2, ReaderOK, Scans, NoResult
  <2>4. PageOf(Unavailable, {}) /\ Behind(d, {})'
    BY DEF PageOf, Unavailable, Behind
  <2>5. AskOf(d)'
    BY <2>1, <2>3, <2>4 DEF AskOf, Behind
  <2> QED
    BY <2>2, <2>5
<1> QED
  BY <1>1, <1>2

LEMMA PagesStep ==
  ASSUME TypeOK, PagesInv, [Next]_vars
  PROVE  PagesInv'
<1> USE SizesAre
<1>1. CASE Logging \/ Vacuum \/ Tick \/ Close
  <2>1. UNCHANGED <<walk, ask, result, future, waiting>>
    BY <1>1 DEF Logging, Form, Enter, WriteEntry, Vacuum, Tick, Close, readerVars
  <2> QED
    BY <2>1, PagesUntouched
<1>2. ASSUME NEW c \in Clients, Begin(c) PROVE PagesInv'
  <2>1. /\ walk' = [d \in Clients |-> walk'[d]] /\ walk'[c] = AtRest
        /\ \A d \in Clients : d # c => walk'[d] = walk[d]
        /\ UNCHANGED <<ask, result, future, waiting>> /\ waiting'[c] = 0
    BY <1>2 DEF Begin, PagesInv, Functions2, readerVars
  <2>2. WalkOf(c)' /\ AskOf(c)'
    BY <2>1 DEF WalkOf, AskOf, AtRest
  <2>3. ASSUME NEW d \in Clients, d # c PROVE WalkOf(d)' /\ AskOf(d)'
    BY <2>1, <2>3, ClientUntouched DEF PagesInv
  <2> QED
    BY <2>1, <2>2, <2>3 DEF PagesInv, Functions2
<1>3. ASSUME NEW c \in Clients, NEW q \in Queries, NEW limit \in Limits, ReadProcess(c, q, limit)
      PROVE  PagesInv'
  <2> DEFINE place == Place(c, Version, q)
             page == ProcessPage(records, q, place, limit, now)
  <2>1. PageOf(page, Before(records, place))
    BY ProcessPageIs DEF TypeOK, RecordsOK
  <2>2. Before(records, place) \subseteq Before(Record, place)
    BY DEF TypeOK, RecordsOK, Before
  <2>3. Behind(c, Before(Record, place))
    BY <1>3, PlaceIsBehind DEF ReadProcess, PagesInv
  <2>4. Behind(c, Before(records, place)) /\ Before(records, place) \in SUBSET Record
    BY <2>2, <2>3 DEF Behind, Before
  <2>5. /\ Show(c, q, page, sequence) /\ UNCHANGED <<ask, result, future, waiting>>
        /\ waiting[c] = 0 /\ walk[c].state \in {"rest", "walking"}
    BY <1>3 DEF ReadProcess, CanAsk, readerVars
  <2> HIDE DEF place, page
  <2>6. /\ WalkOf(c)' /\ walk' = [d \in Clients |-> walk'[d]]
        /\ \A d \in Clients : d # c => walk'[d] = walk[d]
    BY <2>1, <2>4, <2>5, ShowKeeps DEF PagesInv
  <2>7. AskOf(c)'
    BY <2>5 DEF AskOf
  <2>8. ASSUME NEW d \in Clients, d # c PROVE WalkOf(d)' /\ AskOf(d)'
    BY <2>5, <2>6, <2>8, ClientUntouched DEF PagesInv
  <2> QED
    BY <2>5, <2>6, <2>7, <2>8 DEF PagesInv, Functions2
<1>4. ASSUME NEW c \in Clients, NEW q \in Queries, NEW limit \in Limits, Submit(c, q, limit)
      PROVE  PagesInv'
  <2>1. PICK n \in Scans :
          /\ ~ InUse(n)
          /\ future' = [future EXCEPT ![n] = "queued"]
          /\ ask' = [ask EXCEPT ![n] =
                       [place |-> Place(c, Version, q), query |-> q, limit |-> limit]]
          /\ waiting' = [waiting EXCEPT ![c] = n]
    BY <1>4 DEF Submit
  <2>2. UNCHANGED <<walk, result>> /\ Behind(c, Before(Record, Place(c, Version, q)))
    BY <1>4, PlaceIsBehind DEF Submit, PagesInv
  <2>3. /\ waiting'[c] = n /\ future'[n] = "queued" /\ ask'[n].place = Place(c, Version, q)
        /\ ask'[n].limit = limit
        /\ \A d \in Clients : d # c => waiting'[d] = waiting[d] /\ waiting[d] # n
        /\ \A m \in Scans : m # n => future'[m] = future[m] /\ ask'[m] = ask[m]
        /\ \A d \in Clients : waiting[d] # 0 => waiting[d] \in Scans
    BY <2>1 DEF TypeOK, ReaderOK, PagesInv, Functions2, InUse, Scans
  <2>4. WalkOf(c)' /\ AskOf(c)'
    <3>1. Shown(c)' = Shown(c)
      BY <2>2 DEF Shown
    <3>2. WalkOf(c)'
      BY <2>2, <3>1 DEF PagesInv, WalkOf
    <3>3. AskOf(c)'
      BY <2>2, <2>3, <3>1 DEF AskOf, Behind
    <3> QED
      BY <3>2, <3>3
  <2>5. ASSUME NEW d \in Clients, d # c PROVE WalkOf(d)' /\ AskOf(d)'
    BY <2>2, <2>3, <2>5, ClientUntouched DEF PagesInv
  <2>6. Functions2'
    BY <2>1, <2>2 DEF PagesInv, Functions2
  <2> QED
    BY <2>4, <2>5, <2>6 DEF PagesInv
<1>5. ASSUME NEW c \in Clients, SubmitFails(c) PROVE PagesInv'
  BY <1>5, PagesUntouched DEF SubmitFails
<1>6. ASSUME NEW n \in Scans, Scan(n) PROVE PagesInv'
  <2>1. /\ UNCHANGED <<walk, ask, result, waiting>>
        /\ future[n] = "queued" /\ future'[n] = "running"
        /\ \A m \in Scans : m # n => future'[m] = future[m]
    BY <1>6 DEF Scan, TypeOK, ReaderOK
  <2>2. ASSUME NEW c \in Clients PROVE WalkOf(c)' /\ AskOf(c)'
    <3>1. CASE waiting[c] # n
      BY <2>1, <3>1, ClientUntouched DEF PagesInv, TypeOK, ReaderOK, Scans
    <3>2. CASE waiting[c] = n
      <4>1. Shown(c)' = Shown(c)
        BY <2>1 DEF Shown
      <4>2. WalkOf(c)'
        BY <2>1, <4>1 DEF PagesInv, WalkOf
      <4>3. AskOf(c)'
        BY <2>1, <3>2, <4>1 DEF PagesInv, AskOf, Behind
      <4> QED
        BY <4>2, <4>3
    <3> QED
      BY <3>1, <3>2
  <2> QED
    BY <2>1, <2>2 DEF PagesInv, Functions2
<1>7. ASSUME NEW n \in Scans, EndScan(n) PROVE PagesInv'
  <2>1. PICK page \in {Unavailable} \cup
            {JournalPage(records, ask[n].query, ask[n].place, ask[n].limit, now, b) :
                b \in 0..ScanLimit} :
          result' = IF \E c \in Clients : waiting[c] = n
                    THEN [result EXCEPT ![n] =
                            [page |-> page, newest |-> sequence, query |-> ask[n].query]]
                    ELSE result
    BY <1>7 DEF EndScan
  <2>2. /\ UNCHANGED <<walk, waiting>> /\ future[n] = "running" /\ future'[n] = "done"
        /\ ask' = [ask EXCEPT ![n] = NoAsk]
        /\ \A m \in Scans : m # n => /\ future'[m] = future[m] /\ ask'[m] = ask[m]
                                    /\ result'[m] = result[m]
    BY <1>7, <2>1 DEF EndScan, TypeOK, ReaderOK, PagesInv, Functions2
  <2>s. PICK S \in SUBSET Record : S = Before(records, ask[n].place)
    BY DEF TypeOK, RecordsOK, Before
  <2>3. ask[n].limit \in Limits => PageOf(page, S)
    <3> SUFFICES ASSUME ask[n].limit \in Limits PROVE PageOf(page, S)
      OBVIOUS
    <3>1. CASE page = Unavailable
      BY <3>1 DEF PageOf, Unavailable
    <3>2. CASE page # Unavailable
      <4>1. PICK b \in 0..ScanLimit :
              page = JournalPage(records, ask[n].query, ask[n].place, ask[n].limit, now, b)
        BY <3>2
      <4> QED
        BY <2>s, <4>1, JournalPageIs DEF TypeOK, RecordsOK
    <3> QED
      BY <3>1, <3>2
  <2>4. S \subseteq Before(Record, ask[n].place)
    BY <2>s DEF TypeOK, RecordsOK, Before
  <2>5. ASSUME NEW c \in Clients PROVE WalkOf(c)' /\ AskOf(c)'
    <3>1. CASE waiting[c] # n
      BY <2>2, <3>1, ClientUntouched DEF PagesInv, TypeOK, ReaderOK, Scans
    <3>2. CASE waiting[c] = n
      <4>1. Shown(c)' = Shown(c)
        BY <2>2 DEF Shown
      <4>2. WalkOf(c)'
        BY <2>2, <4>1 DEF PagesInv, WalkOf
      <4>3. Behind(c, S) /\ PageOf(page, S)
        <5>1. Behind(c, Before(Record, ask[n].place)) /\ ask[n].limit \in Limits
          BY <2>2, <3>2 DEF PagesInv, AskOf, Scans
        <5> QED
          BY <2>3, <2>4, <5>1 DEF Behind
      <4>4. result'[n].page = page
        BY <2>1, <3>2 DEF PagesInv, Functions2
      <4>5. Behind(c, S)'
        BY <4>1, <4>3 DEF Behind
      <4>6. AskOf(c)'
        BY <2>2, <2>4, <3>2, <4>3, <4>4, <4>5 DEF AskOf, Scans
      <4> QED
        BY <4>2, <4>6
    <3> QED
      BY <3>1, <3>2
  <2>6. Functions2'
    BY <2>1, <2>2 DEF PagesInv, Functions2
  <2> QED
    BY <2>5, <2>6 DEF PagesInv
<1>8. ASSUME NEW n \in Scans, Release(n) PROVE PagesInv'
  BY <1>8, PagesUntouched DEF Release
<1>9. ASSUME NEW c \in Clients, GiveUp(c) PROVE PagesInv'
  <2>1. /\ UNCHANGED <<walk, ask, future>> /\ waiting'[c] = 0
        /\ result' = [result EXCEPT ![waiting[c]] = NoResult]
        /\ \A d \in Clients : d # c => waiting'[d] = waiting[d]
    BY <1>9 DEF GiveUp, TypeOK, ReaderOK
  <2>2. AskOf(c)'
    BY <2>1 DEF AskOf
  <2>3. ASSUME NEW d \in Clients, d # c PROVE WalkOf(d)' /\ AskOf(d)'
    BY <2>1, <2>3, ResultTaken DEF PagesInv, TypeOK
  <2>4. WalkOf(c)'
    BY <2>1 DEF PagesInv, WalkOf, Shown
  <2> QED
    BY <2>1, <2>2, <2>3, <2>4 DEF PagesInv, Functions2
<1>10. ASSUME NEW c \in Clients, Resume(c) PROVE PagesInv'
  <2> DEFINE n == waiting[c]
  <2>1. /\ UNCHANGED <<ask, future>> /\ waiting'[c] = 0 /\ n \in Scans /\ future[n] = "done"
        /\ result' = [result EXCEPT ![n] = NoResult]
        /\ Show(c, result[n].query, result[n].page, result[n].newest)
        /\ \A d \in Clients : d # c => waiting'[d] = waiting[d]
    BY <1>10 DEF Resume, TypeOK, ReaderOK, Scans
  <2>2. PICK S \in SUBSET Record : Behind(c, S) /\ PageOf(result[n].page, S)
    BY <2>1 DEF PagesInv, AskOf, Scans
  <2>3. /\ WalkOf(c)' /\ walk' = [d \in Clients |-> walk'[d]]
        /\ \A d \in Clients : d # c => walk'[d] = walk[d]
    BY <2>1, <2>2, ShowKeeps DEF PagesInv
  <2>4. AskOf(c)'
    BY <2>1 DEF AskOf
  <2> HIDE DEF n
  <2>5. ASSUME NEW d \in Clients, d # c PROVE WalkOf(d)' /\ AskOf(d)'
    BY <2>1, <2>3, <2>5, ResultTaken DEF PagesInv, TypeOK
  <2> QED
    BY <2>1, <2>3, <2>4, <2>5 DEF PagesInv, Functions2
<1>11. CASE EndClose
  <2>1. PICK cancelled \in SUBSET Scans :
          future' = [n \in Scans |-> IF n \in cancelled THEN "cancelled" ELSE future[n]]
    BY <1>11 DEF EndClose
  <2>2. UNCHANGED <<walk, ask, result, waiting>>
    BY <1>11 DEF EndClose
  <2>3. ASSUME NEW c \in Clients PROVE WalkOf(c)' /\ AskOf(c)'
    <3>1. Shown(c)' = Shown(c)
      BY <2>2 DEF Shown
    <3>2. WalkOf(c)'
      BY <2>2, <3>1 DEF PagesInv, WalkOf
    <3>3. AskOf(c)'
      BY <2>1, <2>2, <3>1 DEF PagesInv, AskOf, Behind, TypeOK, ReaderOK, Scans
    <3> QED
      BY <3>2, <3>3
  <2> QED
    BY <2>2, <2>3 DEF PagesInv, Functions2
<1>12. CASE Restart
  <2>1. /\ walk' = walk /\ waiting' = [c \in Clients |-> 0]
        /\ ask' = [n \in Scans |-> NoAsk] /\ result' = [n \in Scans |-> NoResult]
    BY <1>12 DEF Restart
  <2>2. ASSUME NEW c \in Clients PROVE WalkOf(c)' /\ AskOf(c)'
    BY <2>1 DEF PagesInv, WalkOf, AskOf, Shown
  <2> QED
    BY <2>1, <2>2 DEF PagesInv, Functions2
<1>13. CASE UNCHANGED vars
  BY <1>13, PagesUntouched DEF vars, readerVars
<1> QED
  BY <1>1, <1>2, <1>3, <1>4, <1>5, <1>6, <1>7, <1>8, <1>9, <1>10, <1>11, <1>12, <1>13
     DEF Next, Reading, Scanning

LEMMA PagesInductive == Spec => []PagesInv
<1>1. Init => PagesInv
  <2> SUFFICES ASSUME Init PROVE PagesInv
    OBVIOUS
  <2>1. Functions2
    BY DEF Init, Functions2
  <2>2. ASSUME NEW c \in Clients PROVE WalkOf(c) /\ AskOf(c)
    <3>1. walk[c] = AtRest /\ waiting[c] = 0
      BY DEF Init
    <3>2. AtRest.pages = <<>> /\ AtRest.state = "rest"
      BY DEF AtRest
    <3>3. <<>> \in Seq(SUBSET Record) /\ DOMAIN <<>> = {}
      OBVIOUS
    <3>4. AskOf(c)
      BY <3>1 DEF AskOf
    <3> QED
      BY <3>1, <3>2, <3>3, <3>4 DEF WalkOf
  <2> QED
    BY <2>1, <2>2 DEF PagesInv
<1>2. TypeOK /\ PagesInv /\ [Next]_vars => PagesInv'
  BY PagesStep
<1> QED
  BY <1>1, <1>2, LogTypes, PTL DEF Spec

\* A walk goes back: no page shows anything again or out of turn, whatever is logged, evicted
\* or restarted between its pages (_encode_cursor and _decode_cursor, and what read does).
THEOREM PagesStayBehind == Spec => []PagesGoBack
<1>1. PagesInv => PagesGoBack
  BY DEF PagesInv, WalkOf, PagesGoBack
<1> QED
  BY <1>1, PagesInductive, PTL

-----------------------------------------------------------------------------
(* Nothing is missing: what a page leaves out *)

LEMMA NewerFinite ==
  ASSUME NEW S, IsFiniteSet(S), NEW r
  PROVE  IsFiniteSet(NewerIn(S, r)) /\ Cardinality(NewerIn(S, r)) \in Nat
BY FS_Subset, FS_CardinalityType DEF NewerIn

\* What the first n of S leave out lies behind them.
LEMMA FirstOfBehind ==
  ASSUME NEW S, IsFiniteSet(S), \A r \in S : r.at \in Nat, NEW n \in Nat,
         NEW r \in S, r \notin FirstOf(S, n), NEW e \in FirstOf(S, n)
  PROVE  r.at < e.at
<1>1. Cardinality(NewerIn(S, r)) \in Nat /\ Cardinality(NewerIn(S, e)) \in Nat
  BY NewerFinite
<1>2. Cardinality(NewerIn(S, e)) < n /\ ~ (Cardinality(NewerIn(S, r)) < n) /\ e \in S
  BY DEF FirstOf
<1>3. ASSUME e.at <= r.at PROVE FALSE
  <2>1. NewerIn(S, r) \subseteq NewerIn(S, e)
    BY <1>2, <1>3 DEF NewerIn
  <2>2. Cardinality(NewerIn(S, r)) <= Cardinality(NewerIn(S, e))
    BY <2>1, NewerFinite, FS_Subset
  <2> QED
    BY <1>1, <1>2, <2>2
<1> QED
  BY <1>2, <1>3

\* They are n when something is left out.
LEMMA FirstOfFull ==
  ASSUME NEW S, IsFiniteSet(S), \A r \in S : r.at \in Nat,
         \A r, s \in S : r.at = s.at => r = s,
         NEW n \in Nat, FirstOf(S, n) # S
  PROVE  Cardinality(FirstOf(S, n)) = n
<1> DEFINE F == FirstOf(S, n)
           Rank(r) == Cardinality(NewerIn(S, r))
<1>1. F \subseteq S /\ IsFiniteSet(F) /\ Cardinality(F) \in Nat
  BY FirstOfSubset, FS_Subset, FS_CardinalityType
<1>2. \A r : Rank(r) \in Nat
  BY NewerFinite
<1>3. \A r \in S : r \in F <=> Rank(r) < n
  BY DEF FirstOf
<1> HIDE DEF F
\* The newest record that is left out has at least n before it, and all are in F.
<1>4. Cardinality(F) >= n
  <2> DEFINE T == {Rank(r) : r \in S \ F}
  <2>1. T \subseteq Nat /\ T # {}
    <3> HIDE DEF Rank
    <3> QED
      BY <1>1, <1>2 DEF F
  <2>2. PICK x \in T : \A y \in T : x <= y
    <3> HIDE DEF T
    <3> QED
      BY <2>1, SomeLeast
  <2>3. PICK r \in S \ F : x = Rank(r)
    OBVIOUS
  <2>4. ASSUME NEW s \in NewerIn(S, r), s \notin F PROVE FALSE
    <3>1. s \in S /\ s.at > r.at
      BY <2>4 DEF NewerIn
    <3>2. NewerIn(S, s) \subseteq NewerIn(S, r) /\ s \notin NewerIn(S, s)
      BY <2>3, <3>1 DEF NewerIn
    <3>3. Rank(s) < Rank(r)
      BY <2>4, <3>2, NewerFinite, FS_Subset
    <3>4. Rank(s) \in T
      BY <2>4, <3>1
    <3> QED
      BY <1>2, <2>2, <2>3, <3>3, <3>4
  <2>5. NewerIn(S, r) \subseteq F
    BY <2>4
  <2>6. Rank(r) <= Cardinality(F)
    BY <1>1, <2>5, FS_Subset
  <2>7. ~ (Rank(r) < n)
    BY <1>3, <2>3
  <2> HIDE DEF Rank
  <2> QED
    BY <1>1, <1>2, <2>6, <2>7
\* The oldest of F has fewer than n before it, and the others of F are there.
<1>5. Cardinality(F) <= n
  <2>1. CASE F = {}
    BY <2>1, FS_EmptySet
  <2>2. CASE F # {}
    <3>1. PICK e \in F : \A s \in F : e.at <= s.at
      <4>1. \A s \in F : s.at \in Nat
        BY <1>1
      <4> QED
        BY <2>2, <4>1, LowestIs
    <3>2. F \subseteq NewerIn(S, e) \cup {e}
      BY <1>1, <3>1 DEF NewerIn
    <3>3. /\ IsFiniteSet(NewerIn(S, e) \cup {e})
          /\ Cardinality(NewerIn(S, e) \cup {e}) = Rank(e) + 1
      <4>1. e \notin NewerIn(S, e)
        BY <1>1 DEF NewerIn
      <4> QED
        BY <4>1, NewerFinite, FS_AddElement
    <3>4. Cardinality(F) <= Rank(e) + 1
      BY <3>2, <3>3, FS_Subset
    <3>5. Rank(e) < n
      BY <1>1, <1>3, <3>1
    <3> HIDE DEF Rank
    <3> QED
      BY <1>1, <1>2, <3>4, <3>5
  <2> QED
    BY <2>1, <2>2
<1> QED
  BY <1>1, <1>4, <1>5 DEF F

-----------------------------------------------------------------------------
(* Nothing is missing: places and times *)

LEMMA BoundsAre ==
  /\ Scopes \subseteq {"current_process", "journal_local"} /\ IsFiniteSet(Threads)
  /\ MaxRecords \in Nat /\ MaxEntries \in Nat /\ Skew \in Nat /\ Disorder \in Nat
  /\ \A q \in Queries : q.window \in Nat
BY SizeAssumption DEF Query, Disorder

LEMMA TopIsAbove ==
  ASSUME TypeOK, OrderInv
  PROVE  /\ Top \in Nat /\ sequence < Top
         /\ \A r \in records : r.at \in Nat /\ r.at < Top
<1>1. Top \in Nat /\ MaxRecords < Top /\ MaxEntries < Top
  <2> DEFINE S == {MaxRecords, MaxEntries}
  <2>1. \E x \in S : \A y \in S : x >= y
    BY BoundsAre
  <2>2. Max(S) \in S /\ \A y \in S : Max(S) >= y
    BY <2>1 DEF Max
  <2> QED
    BY <2>2, BoundsAre DEF Top
<1>2. sequence < Top
  <2>1. sequence \in Nat /\ scope \in {"current_process", "journal_local"}
    BY BoundsAre DEF TypeOK, RecordsOK
  <2>2. Cardinality(Forming) \in Nat
    BY BoundsAre, FS_Subset, FS_CardinalityType DEF Forming
  <2> QED
    BY <1>1, <2>1, <2>2, BoundsAre DEF OrderInv
<1> QED
  BY <1>1, <1>2 DEF TypeOK, RecordsOK, Record, OrderInv

\* A record that is entered goes behind all others.
LEMMA OneRecordMore ==
  ASSUME RecordsOK, OrderInv, NEW new \in Record,
         new.at = sequence + 1, new.time <= now, now <= new.time + Disorder,
         records' \subseteq records \cup {new},
         sequence' = sequence + 1, now' = now, scope' = scope
  PROVE  /\ \A r \in records' : r.at <= sequence' /\ r.time <= now'
         /\ \A r, s \in records' : r.at = s.at => r = s
         /\ \A r, s \in records' : r.at < s.at => r.time <= s.time + Disorder'
<1> USE BoundsAre
<1>1. Disorder' = Disorder
  BY DEF Disorder
<1>2. /\ \A r \in records : r.at \in Nat /\ r.time \in Nat
      /\ new.at \in Nat /\ new.time \in Nat /\ sequence \in Nat /\ now \in Nat
  BY DEF RecordsOK, Record
<1>3. \A r \in records : r.at < new.at /\ r.time <= now
  BY <1>2 DEF OrderInv
<1>4. \A r \in records' : r \in records \/ r = new
  OBVIOUS
<1>5. \A r \in records' : r.at <= sequence' /\ r.time <= now'
  BY <1>2, <1>3, <1>4
<1>6. \A r, s \in records' : r.at = s.at => r = s
  BY <1>2, <1>3, <1>4 DEF OrderInv
<1>7. ASSUME NEW r \in records', NEW s \in records', r.at < s.at
      PROVE  r.time <= s.time + Disorder
  <2>1. CASE r \in records /\ s \in records
    BY <1>7, <2>1 DEF OrderInv
  <2>2. CASE r \in records /\ s = new
    BY <1>2, <1>3, <2>2
  <2>3. CASE r = new
    BY <1>2, <1>3, <1>4, <1>7, <2>3
  <2> QED
    BY <1>4, <2>1, <2>2, <2>3
<1> QED
  BY <1>1, <1>5, <1>6, <1>7

LEMMA OrderKept ==
  ASSUME OrderInv, UNCHANGED <<scope, sequence, now, forming>>, records' \subseteq records
  PROVE  OrderInv'
BY DEF OrderInv, Disorder, Forming

LEMMA OrderStep ==
  ASSUME TypeOK, OrderInv, [Next]_vars
  PROVE  OrderInv'
<1> USE BoundsAre, SizesAre
<1>0. RecordsOK /\ IsFiniteSet(Forming) /\ Cardinality(Forming) \in Nat
  BY FS_Subset, FS_CardinalityType DEF TypeOK, Forming
<1>1. ASSUME NEW t \in Threads, NEW kind \in LoggedKinds, NEW code \in Codes, Form(t, kind, code)
      PROVE  OrderInv'
  <2>1. /\ scope = "current_process" /\ forming[t] = None
        /\ UNCHANGED <<scope, now, records, sequence>>
        /\ forming' = [forming EXCEPT ![t] = [time |-> now, kind |-> kind, code |-> code]]
        /\ sequence + Cardinality(Forming) < MaxRecords
    BY <1>1 DEF Form, Forming
  <2>2. forming'[t].time = now /\ forming'[t] # None
    <3>1. [time |-> now, kind |-> kind, code |-> code].time # None.time
      BY <1>0 DEF None, RecordsOK
    <3> QED
      BY <1>0, <2>1, <3>1 DEF RecordsOK
  <2>3. \A u \in Threads : u # t => forming'[u] = forming[u]
    BY <1>0, <2>1 DEF RecordsOK
  <2>4. Forming' = Forming \cup {t} /\ t \notin Forming
    BY <2>1, <2>2, <2>3 DEF Forming
  <2>5. Cardinality(Forming') = Cardinality(Forming) + 1
    BY <1>0, <2>4, FS_AddElement
  <2>6. \A u \in Threads : forming'[u] # None =>
           forming'[u].time <= now /\ now <= forming'[u].time + Skew
    BY <1>0, <2>2, <2>3 DEF OrderInv, RecordsOK
  <2>7. sequence' + Cardinality(Forming') <= MaxRecords
    BY <1>0, <2>1, <2>5 DEF RecordsOK
  <2>8. Disorder' = Disorder
    BY <2>1 DEF Disorder
  <2> QED
    BY <2>1, <2>6, <2>7, <2>8 DEF OrderInv
<1>2. ASSUME NEW t \in Threads, Enter(t) PROVE OrderInv'
  <2> DEFINE f == forming[t]
             new == [at |-> sequence + 1, boot |-> boot, time |-> f.time,
                     kind |-> f.kind, code |-> f.code]
  <2>1. /\ scope = "current_process" /\ f # None /\ UNCHANGED <<scope, now>>
        /\ forming' = [forming EXCEPT ![t] = None]
        /\ \/ sequence' = sequence + 1 /\ records' = FirstOf(records \cup {new}, Capacity)
           \/ sequence' = sequence /\ records' = records
    BY <1>2 DEF Enter
  <2>2. f \in [time : Nat, kind : LoggedKinds, code : Codes] /\ new \in Record
    BY <1>0, <2>1 DEF RecordsOK, Record
  <2>3. new.at = sequence + 1 /\ new.time = f.time /\ Disorder = Skew
    BY <2>1 DEF Disorder
  <2> HIDE DEF new
  <2>4. f.time <= now /\ now <= f.time + Skew
    BY <2>1 DEF OrderInv
  <2>5. Forming' = Forming \ {t} /\ t \in Forming
    BY <1>0, <2>1 DEF Forming, RecordsOK
  <2>6. Cardinality(Forming') = Cardinality(Forming) - 1
    BY <1>0, <2>5, FS_RemoveElement
  <2>7. sequence' + Cardinality(Forming') <= MaxRecords
    BY <1>0, <2>1, <2>6 DEF OrderInv, RecordsOK
  <2>8. \A u \in Threads : forming'[u] # None =>
           forming'[u].time <= now' /\ now' <= forming'[u].time + Skew
    BY <1>0, <2>1 DEF OrderInv, RecordsOK
  <2>9. /\ \A r \in records' : r.at <= sequence' /\ r.time <= now'
        /\ \A r, s \in records' : r.at = s.at => r = s
        /\ \A r, s \in records' : r.at < s.at => r.time <= s.time + Disorder'
    <3>1. CASE sequence' = sequence /\ records' = records
      BY <2>1, <3>1 DEF OrderInv, Disorder
    <3>2. CASE sequence' = sequence + 1 /\ records' = FirstOf(records \cup {new}, Capacity)
      BY <1>0, <2>1, <2>2, <2>3, <2>4, <3>2, FirstOfSubset, OneRecordMore
    <3> QED
      BY <2>1, <3>1, <3>2
  <2> QED
    BY <2>1, <2>7, <2>8, <2>9 DEF OrderInv
<1>3. ASSUME NEW kind \in LoggedKinds, NEW code \in Codes, WriteEntry(kind, code) PROVE OrderInv'
  <2> DEFINE new == [at |-> sequence + 1, boot |-> 0, time |-> now, kind |-> kind, code |-> code]
  <2>1. /\ scope = "journal_local" /\ sequence < MaxEntries /\ UNCHANGED <<scope, now, forming>>
        /\ sequence' = sequence + 1 /\ records' = records \cup {new}
    BY <1>3 DEF WriteEntry
  <2>2. new \in Record /\ new.at = sequence + 1 /\ new.time = now
    BY <1>0 DEF RecordsOK, Record
  <2>3. new.time <= now /\ now <= new.time + Disorder
    BY <1>0, <2>2 DEF RecordsOK
  <2> HIDE DEF new
  <2>4. /\ \A r \in records' : r.at <= sequence' /\ r.time <= now'
        /\ \A r, s \in records' : r.at = s.at => r = s
        /\ \A r, s \in records' : r.at < s.at => r.time <= s.time + Disorder'
    BY <1>0, <2>1, <2>2, <2>3, OneRecordMore
  <2>5. sequence' <= MaxEntries
    BY <1>0, <2>1 DEF RecordsOK
  <2> QED
    BY <2>1, <2>4, <2>5 DEF OrderInv
<1>4. CASE Vacuum
  BY <1>4, OrderKept DEF Vacuum
<1>5. CASE Tick
  <2>1. /\ now' = now + 1 /\ UNCHANGED <<scope, forming, records, sequence>>
        /\ \A t \in Threads : forming[t] # None => now < forming[t].time + Skew
    BY <1>5 DEF Tick, recordVars
  <2>2. \A t \in Threads : forming[t] # None => forming[t].time \in Nat
    BY <1>0 DEF RecordsOK
  <2>3. \A t \in Threads : forming'[t] # None =>
           forming'[t].time <= now' /\ now' <= forming'[t].time + Skew
    BY <1>0, <2>1, <2>2 DEF OrderInv, RecordsOK
  <2>4. \A r \in records' : r.at <= sequence' /\ r.time <= now'
    BY <1>0, <2>1 DEF OrderInv, RecordsOK, Record
  <2>5. Forming' = Forming /\ Disorder' = Disorder
    BY <2>1 DEF Forming, Disorder
  <2> QED
    BY <2>1, <2>3, <2>4, <2>5 DEF OrderInv
<1>6. ASSUME NEW c \in Clients,
             \/ Begin(c) \/ SubmitFails(c) \/ Resume(c) \/ GiveUp(c)
             \/ \E q \in Queries, limit \in Limits : ReadProcess(c, q, limit) \/ Submit(c, q, limit)
      PROVE  OrderInv'
  BY <1>6, OrderKept DEF Begin, SubmitFails, Resume, GiveUp, ReadProcess, Submit, recordVars
<1>7. ASSUME NEW n \in Scans, Scan(n) \/ EndScan(n) \/ Release(n) PROVE OrderInv'
  BY <1>7, OrderKept DEF Scan, EndScan, Release, recordVars
<1>8. CASE Close \/ EndClose \/ UNCHANGED vars
  BY <1>8, OrderKept DEF Close, EndClose, vars, recordVars
<1>9. CASE Restart
  <2>1. CASE UNCHANGED <<boot, recordVars>>
    BY <1>9, <2>1, OrderKept DEF Restart, recordVars
  <2>2. CASE /\ scope = "current_process" /\ forming' = [t \in Threads |-> None]
             /\ records' = {} /\ sequence' = 0
    <3>1. Forming' = {} /\ scope' = scope
      BY <1>9, <2>2 DEF Restart, Forming
    <3>2. sequence' + Cardinality(Forming') <= MaxRecords
      BY <2>2, <3>1, FS_EmptySet
    <3> QED
      BY <2>2, <3>1, <3>2 DEF OrderInv
  <2> QED
    BY <1>9, <2>1, <2>2 DEF Restart
<1> QED
  BY <1>1, <1>2, <1>3, <1>4, <1>5, <1>6, <1>7, <1>8, <1>9 DEF Next, Logging, Reading, Scanning

-----------------------------------------------------------------------------
(* Nothing is missing: pages *)

\* The scan does not end before a fresh record.
LEMMA ScanReaches ==
  ASSUME RecordsOK, OrderInv, NEW S \in SUBSET records, NEW q \in Queries,
         NEW r \in records, Fresh(r, q)
  PROVE  /\ r.time >= now - q.window
         /\ \A s \in S : s.at > r.at => s.time >= now - q.window
         /\ r \in S => r \in UpToFirstOld(S, now - q.window)
<1> USE BoundsAre
<1>1. /\ now \in Nat /\ q.window \in Nat /\ Disorder \in Nat
      /\ \A s \in records : s.time \in Nat /\ s.at \in Nat
  BY DEF RecordsOK, Record
<1>2. r.time >= now - q.window + Disorder
  BY DEF Fresh
<1>3. r.time >= now - q.window
  BY <1>1, <1>2
<1>4. ASSUME NEW s \in S, s.at > r.at PROVE s.time >= now - q.window
  <2>1. r.time <= s.time + Disorder
    BY <1>1, <1>4 DEF OrderInv
  <2> QED
    BY <1>1, <1>2, <2>1
<1>5. r \in S => r \in UpToFirstOld(S, now - q.window)
  BY <1>3, <1>4 DEF UpToFirstOld, NewerIn
<1> QED
  BY <1>3, <1>4, <1>5

\* What a full page leaves out is behind the last record it shows.
LEMMA LeftOut ==
  ASSUME RecordsOK, OrderInv, NEW S \in SUBSET records, NEW n \in Nat \ {0},
         NEW r \in S, r \notin FirstOf(S, n)
  PROVE  /\ FirstOf(S, n) # {} /\ Cardinality(FirstOf(S, n)) = n
         /\ r.at < Lowest(FirstOf(S, n))
<1>1. IsFiniteSet(S) /\ \A s \in S : s.at \in Nat
  BY FS_Subset DEF RecordsOK, Record
<1>2. \A s, u \in S : s.at = u.at => s = u
  BY DEF OrderInv
<1>3. Cardinality(FirstOf(S, n)) = n
  BY <1>1, <1>2, FirstOfFull
<1>4. FirstOf(S, n) # {}
  BY <1>3, FS_EmptySet
<1>5. \A s \in FirstOf(S, n) : s.at \in Nat
  BY <1>1, FirstOfSubset
<1>6. PICK e \in FirstOf(S, n) : Lowest(FirstOf(S, n)) = e.at
  BY <1>4, <1>5, LowestIs
<1>7. r.at < e.at
  BY <1>1, FirstOfBehind
<1> QED
  BY <1>3, <1>4, <1>6, <1>7

LEMMA CursorIs ==
  \A version, q, at : /\ Cursor(version, q, at).query = q /\ Cursor(version, q, at).at = at
                      /\ version # "none" => Cursor(version, q, at) # NoCursor
<1> SUFFICES ASSUME NEW version, NEW q, NEW at
             PROVE  /\ Cursor(version, q, at).query = q /\ Cursor(version, q, at).at = at
                    /\ version # "none" => Cursor(version, q, at) # NoCursor
  OBVIOUS
<1>1. Cursor(version, q, at).version = version /\ NoCursor.version = "none"
  BY DEF Cursor, NoCursor
<1> QED
  BY <1>1 DEF Cursor

LEMMA ProcessPageCovers ==
  ASSUME RecordsOK, OrderInv, NEW q \in Queries, NEW place \in Nat, NEW limit \in Limits
  PROVE  LET page == ProcessPage(records, q, place, limit, now)
         IN  /\ page.available /\ (page.next # NoCursor => page.next.query = q)
             /\ \A r \in records : r.at < place /\ Fresh(r, q) => Covers(page, r)
<1> DEFINE S == Before(records, place)
           scanned == UpToFirstOld(S, now - q.window)
           hits == {r \in scanned : Matches(r, q)}
           items == FirstOf(hits, limit)
           more == hits # items
           next == IF more /\ items # {} THEN Cursor("p2", q, Lowest(items)) ELSE NoCursor
           page == ProcessPage(records, q, place, limit, now)
<1>1. /\ page.available /\ page.items = items /\ page.truncated = more
      /\ page.next = next
  BY DEF ProcessPage, Page
<1>2. limit \in Nat \ {0}
  BY SizesAre
<1>3. S \in SUBSET records /\ hits \in SUBSET records
  BY DEF Before, UpToFirstOld
<1>4. page.next # NoCursor => page.next.query = q
  BY <1>1, CursorIs
<1>5. ASSUME NEW r \in records, r.at < place, Fresh(r, q), r \notin items
      PROVE  page.next # NoCursor /\ r.at < page.next.at
  <2>1. r \in S
    BY <1>5 DEF Before
  <2>2. r \in scanned
    BY <1>3, <1>5, <2>1, ScanReaches
  <2>3. r \in hits
    BY <1>5, <2>2 DEF Fresh
  <2> HIDE DEF hits, page
  <2>4. items # {} /\ r.at < Lowest(items)
    BY <1>2, <1>3, <1>5, <2>3, LeftOut
  <2>5. more
    BY <1>5, <2>3
  <2> HIDE DEF items
  <2> QED
    BY <1>1, <2>4, <2>5, CursorIs
<1>6. \A r \in records : r.at < place /\ Fresh(r, q) => Covers(page, r)
  BY <1>1, <1>5 DEF Covers
<1> QED
  BY <1>1, <1>4, <1>6

LEMMA JournalPageCovers ==
  ASSUME RecordsOK, OrderInv, NEW q \in Queries, NEW place \in Nat, NEW limit \in Limits,
         NEW budget \in Nat
  PROVE  LET page == JournalPage(records, q, place, limit, now, budget)
         IN  /\ page.available /\ (page.next # NoCursor => page.next.query = q)
             /\ \A r \in records : r.at < place /\ Fresh(r, q) => Covers(page, r)
<1> DEFINE S == Before(records, place)
           reached == FirstOf(S, budget)
           fresh == UpToFirstOld(reached, now - q.window)
           hits == {e \in fresh : e.kind # "garbage" /\ Matches(e, q)}
           items == FirstOf(hits, limit)
           full == Cardinality(items) = limit
           cut == fresh = reached /\ Cardinality(reached) = budget
           next == IF full \/ (cut /\ budget > 0)
                   THEN Cursor("j2", q, LastExamined(items, reached, full)) ELSE NoCursor
           page == JournalPage(records, q, place, limit, now, budget)
<1>1. /\ page.available /\ page.items = items /\ page.truncated = (full \/ cut)
      /\ page.next = next
  BY DEF JournalPage, Page
<1>2. limit \in Nat \ {0}
  BY SizesAre
<1>3. /\ S \in SUBSET records /\ reached \in SUBSET S /\ reached \in SUBSET records
      /\ hits \in SUBSET reached /\ hits \in SUBSET records /\ items \in SUBSET hits
  BY FirstOfSubset DEF Before, UpToFirstOld
<1>4. page.next # NoCursor => page.next.query = q
  BY <1>1, CursorIs
<1>5. ASSUME NEW r \in records, r.at < place, Fresh(r, q), r \in reached
      PROVE  Covers(page, r)
  <2>1. r \in fresh
    BY <1>3, <1>5, ScanReaches
  <2>2. r \in hits
    BY <1>5, <2>1 DEF Fresh
  <2> HIDE DEF hits, page, reached
  <2>3. CASE r \in items
    BY <1>1, <2>3 DEF Covers
  <2>4. CASE r \notin items
    <3>1. full /\ r.at < Lowest(items)
      BY <1>2, <1>3, <2>2, <2>4, LeftOut
    <3> HIDE DEF items
    <3>2. next = Cursor("j2", q, Lowest(items))
      BY <3>1 DEF LastExamined
    <3> QED
      BY <1>1, <3>1, <3>2, CursorIs DEF Covers
  <2> QED
    BY <2>3, <2>4
<1>6. ASSUME NEW r \in records, r.at < place, Fresh(r, q), r \notin reached
      PROVE  Covers(page, r)
  <2>1. r \in S
    BY <1>6 DEF Before
  <2>2. IsFiniteSet(S) /\ \A s \in S : s.at \in Nat
    BY <1>3, FS_Subset DEF RecordsOK, Record
  <2>3. \A s, u \in S : s.at = u.at => s = u
    BY <1>3 DEF OrderInv
  <2> HIDE DEF S
  <2>4. Cardinality(reached) = budget
    BY <1>6, <2>1, <2>2, <2>3, FirstOfFull
  <2>5. \A e \in reached : r.at < e.at
    BY <1>6, <2>1, <2>2, FirstOfBehind
  <2> HIDE DEF reached, page
  <2>6. fresh = reached
    <3>1. \A s \in reached : s.time >= now - q.window
      BY <1>3, <1>6, <2>5, ScanReaches, BoundsAre DEF RecordsOK, Record
    <3> QED
      BY <3>1 DEF UpToFirstOld, NewerIn
  <2>7. cut
    BY <2>4, <2>6
  <2> HIDE DEF hits, fresh, items
  <2>8. \A e \in reached : e.at \in Nat
    BY <1>3, <2>2
  <2>9. CASE full
    <3>1. items # {} /\ items \subseteq reached
      BY <1>2, <1>3, <2>9, FS_EmptySet
    <3>2. PICK e \in items : Lowest(items) = e.at
      BY <2>8, <3>1, LowestIs
    <3>3. next = Cursor("j2", q, Lowest(items))
      BY <2>9 DEF LastExamined
    <3> QED
      BY <1>1, <2>5, <3>1, <3>2, <3>3, CursorIs DEF Covers
  <2>10. CASE ~ full /\ budget > 0
    <3>1. reached # {}
      BY <2>4, <2>10, FS_EmptySet
    <3>2. PICK e \in reached : Lowest(reached) = e.at
      BY <2>8, <3>1, LowestIs
    <3>3. next = Cursor("j2", q, Lowest(reached))
      BY <2>7, <2>10 DEF LastExamined
    <3> QED
      BY <1>1, <2>5, <3>2, <3>3, CursorIs DEF Covers
  <2>11. CASE ~ full /\ ~ (budget > 0)
    BY <1>1, <2>7, <2>11 DEF Covers
  <2> QED
    BY <2>9, <2>10, <2>11
<1> QED
  BY <1>1, <1>4, <1>5, <1>6

-----------------------------------------------------------------------------
(* Nothing is missing: walks *)

\* Time passes, records come behind all others and go, and processes follow each other.
Onward ==
    /\ scope' = scope /\ now' \in Nat /\ now <= now' /\ boot' \in Nat /\ boot <= boot'
    /\ boot' = boot => sequence' \in Nat /\ sequence <= sequence'
    /\ scope = "journal_local" => boot' = boot
    /\ \A r \in records' : \/ r \in records
                           \/ /\ r.at \in Nat /\ sequence < r.at /\ boot' = boot
                              /\ scope = "current_process" => r.boot = boot

LEMMA FreshBefore ==
  ASSUME RecordsOK, Onward, NEW r \in records, NEW q \in Queries, Fresh(r, q)'
  PROVE  Fresh(r, q)
<1> USE BoundsAre
<1>1. Disorder' = Disorder
  BY DEF Disorder, Onward
<1>2. r.kind # "garbage" /\ Matches(r, q) /\ r.time >= now' - q.window + Disorder
  BY <1>1 DEF Fresh
<1>3. r.time \in Nat /\ q.window \in Nat /\ now \in Nat /\ now' \in Nat /\ now <= now'
  BY DEF RecordsOK, Record, Onward
<1> QED
  BY <1>2, <1>3 DEF Fresh

LEMMA WalkKept ==
  ASSUME RecordsOK, Onward, NEW c \in Clients, WalkGoesOn(c), walk'[c] = walk[c]
  PROVE  WalkGoesOn(c)'
<1> USE BoundsAre
<1> DEFINE w == walk[c]
<1>1. scope \in {"current_process", "journal_local"} /\ scope' = scope
  BY DEF RecordsOK, Onward
<1>2. /\ w.state = "rest" => w.cursor = NoCursor
      /\ w.state = "walking" => w.cursor.query = w.query
  BY DEF WalkGoesOn
<1>3. ASSUME w.state # "rest"
      PROVE  /\ w.query \in Queries /\ w.from \in Nat /\ w.boot \in Nat /\ w.boot <= boot'
             /\ scope = "journal_local" \/ w.boot = boot' => w.from <= sequence'
  <2>1. /\ w.query \in Queries /\ w.from \in Nat /\ w.boot \in Nat /\ w.boot <= boot
        /\ scope = "journal_local" \/ w.boot = boot => w.from <= sequence
    BY <1>3 DEF WalkGoesOn
  <2>2. boot \in Nat /\ boot' \in Nat /\ boot <= boot' /\ sequence \in Nat
    BY DEF RecordsOK, Onward
  <2>3. ASSUME scope = "journal_local" \/ w.boot = boot' PROVE w.from <= sequence'
    <3>1. boot' = boot
      BY <1>1, <2>1, <2>2, <2>3 DEF Onward
    <3> QED
      BY <2>1, <2>2, <2>3, <3>1 DEF Onward
  <2> QED
    BY <2>1, <2>2, <2>3
<1>4. ASSUME w.state \in {"walking", "ended"}, NEW r \in records', r.at <= w.from,
             OfItsTime(r, c)', Fresh(r, w.query)'
      PROVE  r \in Shown(c) \/ (w.state = "walking" /\ r.at < w.cursor.at)
  <2>0. scope = "journal_local" \/ r.boot = w.boot
    BY <1>1, <1>4 DEF OfItsTime
  <2>1. CASE r \in records
    <3>1. Fresh(r, w.query)
      BY <1>3, <1>4, <2>1, FreshBefore
    <3>2. OfItsTime(r, c)
      BY <2>0 DEF OfItsTime
    <3> QED
      BY <1>4, <2>1, <3>1, <3>2 DEF WalkGoesOn
  <2>2. CASE r \notin records
    <3>1. r.at \in Nat /\ sequence < r.at /\ (scope = "current_process" => r.boot = boot)
      BY <2>2 DEF Onward
    <3>2. scope = "journal_local" \/ w.boot = boot
      BY <1>1, <2>0, <3>1
    <3>3. w.from <= sequence /\ w.from \in Nat /\ sequence \in Nat
      BY <1>4, <3>2 DEF WalkGoesOn, RecordsOK
    <3> QED
      BY <1>4, <3>1, <3>3
  <2> QED
    BY <2>1, <2>2
<1>5. Shown(c)' = Shown(c)
  BY DEF Shown
<1> QED
  BY <1>1, <1>2, <1>3, <1>4, <1>5 DEF WalkGoesOn

\* A client that still waits for the same scan, whose result is still there, or gave up.
LEMMA AskKept ==
  ASSUME RecordsOK, Onward, NEW c \in Clients, WalkGoesOn(c), AskGoesOn(c),
         walk'[c] = walk[c], waiting'[c] \in {0, waiting[c]},
         waiting[c] # 0 =>
            /\ future'[waiting[c]] \in {"queued", "running"} =>
                  /\ future[waiting[c]] \in {"queued", "running"}
                  /\ ask'[waiting[c]] = ask[waiting[c]]
            /\ future'[waiting[c]] = "done" /\ result'[waiting[c]].page.available =>
                  /\ future[waiting[c]] = "done"
                  /\ result'[waiting[c]] = result[waiting[c]]
  PROVE  AskGoesOn(c)'
<1> USE BoundsAre
<1>1. CASE waiting'[c] = 0
  BY <1>1 DEF AskGoesOn
<1>2. CASE waiting'[c] = waiting[c] /\ waiting[c] # 0
  <2> PICK n, w, res : n = waiting[c] /\ w = walk[c] /\ res = result'[n]
    OBVIOUS
  <2>1. /\ scope = "journal_local" /\ scope' = scope /\ w.state \in {"rest", "walking"}
        /\ w.state = "walking" => w.from \in Nat /\ w.from <= sequence
        /\ sequence \in Nat /\ sequence' \in Nat /\ sequence <= sequence'
    BY <1>2 DEF AskGoesOn, WalkGoesOn, Onward, RecordsOK
  <2>2. ASSUME future'[n] \in {"queued", "running"}
        PROVE  /\ ask'[n].query \in Queries
               /\ w.state = "rest" => ask'[n].place = Top
               /\ w.state = "walking" => ask'[n].query = w.query /\ ask'[n].place = w.cursor.at
    BY <1>2, <2>2 DEF AskGoesOn
  <2>3. ASSUME future'[n] = "done", res.page.available
        PROVE  /\ res.query \in Queries
               /\ res.newest \in Nat /\ res.newest <= sequence'
               /\ res.page.next # NoCursor => res.page.next.query = res.query
               /\ w.state = "walking" => res.query = w.query
               /\ \A r \in records' :
                     (/\ r.at <= IF w.state = "walking" THEN w.from ELSE res.newest
                      /\ Fresh(r, res.query)') =>
                         r \in Shown(c) \/ Covers(res.page, r)
    <3>1. future[n] = "done" /\ res = result[n]
      BY <1>2, <2>3
    <3>2. /\ res.query \in Queries
          /\ res.newest \in Nat /\ res.newest <= sequence
          /\ res.page.next # NoCursor => res.page.next.query = res.query
          /\ w.state = "walking" => res.query = w.query
          /\ \A r \in records :
                (/\ r.at <= IF w.state = "walking" THEN w.from ELSE res.newest
                 /\ Fresh(r, res.query)) =>
                    r \in Shown(c) \/ Covers(res.page, r)
      BY <1>2, <2>3, <3>1 DEF AskGoesOn
    <3>3. ASSUME NEW r \in records',
                 r.at <= IF w.state = "walking" THEN w.from ELSE res.newest,
                 Fresh(r, res.query)'
          PROVE  r \in Shown(c) \/ Covers(res.page, r)
      <4>1. CASE r \in records
        <5>1. Fresh(r, res.query)
          BY <3>2, <3>3, <4>1, FreshBefore
        <5> QED
          BY <3>2, <3>3, <4>1, <5>1
      <4>2. CASE r \notin records
        <5>1. r.at \in Nat /\ sequence < r.at
          BY <4>2 DEF Onward
        <5> QED
          BY <2>1, <3>2, <3>3, <5>1
      <4> QED
        BY <4>1, <4>2
    <3>4. res.newest <= sequence'
      BY <2>1, <3>2
    <3> QED
      BY <3>2, <3>3, <3>4
  <2>4. Shown(c)' = Shown(c)
    BY DEF Shown
  <2>5. waiting'[c] = n /\ walk'[c] = w
    BY <1>2
  <2> QED
    BY <2>1, <2>2, <2>3, <2>4, <2>5 DEF AskGoesOn, Covers, Fresh, Disorder
<1> QED
  BY <1>1, <1>2

\* A page that leaves nothing out is added to a walk.
LEMMA ShowCovers ==
  ASSUME RecordsOK, Functions2, NEW c \in Clients, WalkOf(c), WalkGoesOn(c),
         walk[c].state \in {"rest", "walking"},
         NEW q \in Queries, NEW page, NEW newest \in Nat, newest <= sequence,
         page.next # NoCursor => page.next.query = q,
         walk[c].state = "walking" => q = walk[c].query,
         \A r \in records :
            (/\ r.at <= IF walk[c].state = "walking" THEN walk[c].from ELSE newest
             /\ walk[c].state = "walking" => OfItsTime(r, c)
             /\ Fresh(r, q)) => r \in Shown(c) \/ Covers(page, r),
         page.available, Show(c, q, page, newest),
         UNCHANGED <<scope, now, boot, records, sequence>>
  PROVE  WalkGoesOn(c)'
<1> DEFINE w == walk[c]
           v == walk'[c]
           old == walk[c].pages
           new == Append(old, page.items)
<1>1. /\ v.state = IF page.next # NoCursor THEN "walking"
                   ELSE IF page.truncated THEN "cut" ELSE "ended"
      /\ v.query = q /\ v.cursor = page.next /\ v.pages = new
      /\ v.from = IF w.state = "walking" THEN w.from ELSE newest
      /\ v.boot = IF w.state = "walking" THEN w.boot ELSE boot
  BY DEF Functions2, Show
<1>2. Shown(c) \subseteq Shown(c)' /\ page.items \subseteq Shown(c)'
  <2>1. old \in Seq(SUBSET Record)
    BY DEF WalkOf
  <2>2. /\ DOMAIN new = 1..(Len(old) + 1) /\ DOMAIN old = 1..Len(old) /\ Len(old) \in Nat
        /\ \A i \in 1..Len(old) : new[i] = old[i]
        /\ new[Len(old) + 1] = page.items
    <3>1. ASSUME NEW T, NEW f \in Seq(T), NEW x
          PROVE  LET g == Append(f, x)
                 IN  /\ DOMAIN g = 1..(Len(f) + 1) /\ DOMAIN f = 1..Len(f) /\ Len(f) \in Nat
                     /\ \A i \in 1..Len(f) : g[i] = f[i]
                     /\ g[Len(f) + 1] = x
      OBVIOUS
    <3> QED
      BY <2>1, <3>1
  <2>3. Shown(c)' = UNION {new[i] : i \in DOMAIN new}
    BY <1>1 DEF Shown
  <2>4. Shown(c) = UNION {old[i] : i \in DOMAIN old}
    BY DEF Shown
  <2>5. DOMAIN old \subseteq DOMAIN new /\ \A i \in DOMAIN old : new[i] = old[i]
    BY <2>2
  <2>6. Len(old) + 1 \in DOMAIN new
    BY <2>2
  <2> HIDE DEF new, old
  <2> QED
    BY <2>2, <2>3, <2>4, <2>5, <2>6
<1>3. /\ v.query \in Queries /\ v.from \in Nat /\ v.boot \in Nat /\ v.boot <= boot
      /\ scope = "journal_local" \/ v.boot = boot => v.from <= sequence
  BY <1>1 DEF WalkGoesOn, RecordsOK
<1>4. ASSUME v.state \in {"walking", "ended"}, NEW r \in records, r.at <= v.from,
             OfItsTime(r, c)', Fresh(r, q)
      PROVE  r \in Shown(c)' \/ (v.state = "walking" /\ r.at < v.cursor.at)
  <2>1. w.state = "walking" => OfItsTime(r, c)
    BY <1>1, <1>4 DEF OfItsTime
  <2>2. r \in Shown(c) \/ Covers(page, r)
    BY <1>1, <1>4, <2>1
  <2> QED
    BY <1>1, <1>2, <1>4, <2>2 DEF Covers
<1>5. \A r : Fresh(r, q)' = Fresh(r, q)
  BY DEF Fresh, Disorder
<1>6. v.state # "rest" /\ (v.state = "walking" => v.cursor.query = v.query)
  BY <1>1
<1> HIDE DEF v
<1>7. v = walk'[c]
  BY DEF v
<1> QED
  BY <1>1, <1>3, <1>4, <1>5, <1>6, <1>7 DEF WalkGoesOn, Fresh, Disorder

-----------------------------------------------------------------------------
(* Nothing is missing: steps *)

LEMMA OnwardStep ==
  ASSUME RecordsOK, [Next]_vars
  PROVE  Onward
<1> USE BoundsAre DEF Onward
<1>0. /\ now \in Nat /\ boot \in Nat /\ sequence \in Nat
      /\ scope \in {"current_process", "journal_local"}
  BY DEF RecordsOK
<1>k. ASSUME UNCHANGED <<scope, boot, sequence>>, now' \in {now, now + 1},
             records' \subseteq records
      PROVE  Onward
  BY <1>0, <1>k
<1>1. ASSUME NEW t \in Threads, Enter(t) PROVE Onward
  <2> DEFINE new == [at |-> sequence + 1, boot |-> boot, time |-> forming[t].time,
                     kind |-> forming[t].kind, code |-> forming[t].code]
  <2>1. /\ UNCHANGED <<scope, now, boot>>
        /\ \/ sequence' = sequence + 1 /\ records' = FirstOf(records \cup {new}, Capacity)
           \/ sequence' = sequence /\ records' = records
    BY <1>1 DEF Enter
  <2>2. new.at = sequence + 1 /\ new.boot = boot
    OBVIOUS
  <2> HIDE DEF new
  <2>3. records' \subseteq records \cup {new} /\ sequence' \in Nat /\ sequence <= sequence'
    BY <1>0, <2>1, FirstOfSubset
  <2> QED
    BY <1>0, <2>1, <2>2, <2>3
<1>2. ASSUME NEW kind \in LoggedKinds, NEW code \in Codes, WriteEntry(kind, code) PROVE Onward
  <2> DEFINE new == [at |-> sequence + 1, boot |-> 0, time |-> now, kind |-> kind, code |-> code]
  <2>1. /\ scope = "journal_local" /\ UNCHANGED <<scope, now, boot>>
        /\ sequence' = sequence + 1 /\ records' = records \cup {new}
    BY <1>2 DEF WriteEntry
  <2>2. new.at = sequence + 1
    OBVIOUS
  <2> HIDE DEF new
  <2> QED
    BY <1>0, <2>1, <2>2
<1>3. ASSUME NEW t \in Threads, NEW kind, NEW code, Form(t, kind, code) PROVE Onward
  BY <1>3, <1>k DEF Form
<1>4. CASE Vacuum
  BY <1>4, <1>k DEF Vacuum
<1>5. CASE Tick
  BY <1>5, <1>k DEF Tick, recordVars
<1>6. ASSUME NEW c \in Clients,
             \/ Begin(c) \/ SubmitFails(c) \/ Resume(c) \/ GiveUp(c)
             \/ \E q \in Queries, limit \in Limits : ReadProcess(c, q, limit) \/ Submit(c, q, limit)
      PROVE  Onward
  <2>1. UNCHANGED <<scope, now, boot, records, sequence>>
    BY <1>6 DEF Begin, SubmitFails, Resume, GiveUp, ReadProcess, Submit, recordVars
  <2> QED
    BY <1>k, <2>1
<1>7. ASSUME NEW n \in Scans, Scan(n) \/ EndScan(n) \/ Release(n) PROVE Onward
  BY <1>7, <1>k DEF Scan, EndScan, Release, recordVars
<1>8. CASE Close \/ EndClose \/ UNCHANGED vars
  BY <1>8, <1>k DEF Close, EndClose, vars, recordVars
<1>9. CASE Restart
  <2>1. CASE UNCHANGED <<boot, recordVars>>
    BY <1>9, <1>k, <2>1 DEF Restart, recordVars
  <2>2. CASE /\ scope = "current_process" /\ boot' = boot + 1 /\ records' = {}
    BY <1>0, <1>9, <2>2 DEF Restart
  <2> QED
    BY <1>9, <2>1, <2>2 DEF Restart
<1> QED
  BY <1>1, <1>2, <1>3, <1>4, <1>5, <1>6, <1>7, <1>8, <1>9 DEF Next, Logging, Reading, Scanning

\* What a walk that goes on asks for next.
LEMMA PlaceGoesOn ==
  ASSUME TypeOK, OrderInv, NEW c \in Clients, WalkOf(c), WalkGoesOn(c), CanAsk(c),
         NEW q \in Queries, Place(c, Version, q) # Invalid
  PROVE  /\ Place(c, Version, q) \in Nat
         /\ walk[c].state = "rest" => Place(c, Version, q) = Top
         /\ walk[c].state = "walking" =>
               q = walk[c].query /\ Place(c, Version, q) = walk[c].cursor.at
<1>1. CASE walk[c].state = "rest"
  BY <1>1, TopIsAbove DEF WalkGoesOn, Place
<1>2. CASE walk[c].state = "walking"
  <2>1. walk[c].cursor # NoCursor /\ walk[c].cursor.at \in Nat
    BY <1>2 DEF WalkOf
  <2>2. walk[c].cursor.query = q /\ Place(c, Version, q) = walk[c].cursor.at
    BY <2>1 DEF Place, Decode
  <2> QED
    BY <1>2, <2>1, <2>2 DEF WalkGoesOn
<1> QED
  BY <1>1, <1>2 DEF CanAsk

\* What a page behind a walk's place covers goes on where the walk is.
LEMMA PageGoesOn ==
  ASSUME TypeOK, OrderInv, NEW c \in Clients, WalkGoesOn(c), NEW q \in Queries, NEW place,
         walk[c].state \in {"rest", "walking"},
         walk[c].state = "rest" => place = Top,
         walk[c].state = "walking" => q = walk[c].query /\ place = walk[c].cursor.at,
         NEW page, \A r \in records : r.at < place /\ Fresh(r, q) => Covers(page, r),
         NEW r \in records, walk[c].state = "walking" => OfItsTime(r, c) /\ r.at <= walk[c].from,
         Fresh(r, q)
  PROVE  r \in Shown(c) \/ Covers(page, r)
<1>1. CASE walk[c].state = "rest"
  BY <1>1, TopIsAbove
<1>2. CASE walk[c].state = "walking"
  BY <1>2 DEF WalkGoesOn
<1> QED
  BY <1>1, <1>2

\* A client whose walk stays as it is, and whose scan is there or is forgotten.
LEMMA ClientKept ==
  ASSUME RecordsOK, Onward, MissInv, NEW c \in Clients,
         walk'[c] = walk[c], waiting'[c] \in {0, waiting[c]},
         waiting[c] # 0 =>
            /\ future'[waiting[c]] \in {"queued", "running"} =>
                  /\ future[waiting[c]] \in {"queued", "running"}
                  /\ ask'[waiting[c]] = ask[waiting[c]]
            /\ future'[waiting[c]] = "done" /\ result'[waiting[c]].page.available =>
                  /\ future[waiting[c]] = "done"
                  /\ result'[waiting[c]] = result[waiting[c]]
  PROVE  WalkGoesOn(c)' /\ AskGoesOn(c)'
<1>1. WalkGoesOn(c)'
  BY WalkKept DEF MissInv
<1>2. AskGoesOn(c)'
  BY AskKept DEF MissInv
<1> QED
  BY <1>1, <1>2

LEMMA MissStep ==
  ASSUME TypeOK, PagesInv, OrderInv, MissInv, [Next]_vars
  PROVE  MissInv'
<1> USE SizesAre
<1>0. RecordsOK /\ Onward
  BY OnwardStep DEF TypeOK
<1>w. \A c \in Clients : waiting[c] # 0 => waiting[c] \in Scans
  BY DEF TypeOK, ReaderOK, Scans
<1>1. CASE Logging \/ Vacuum \/ Tick \/ Close
  <2>1. UNCHANGED <<walk, ask, result, future, waiting>>
    BY <1>1 DEF Logging, Form, Enter, WriteEntry, Vacuum, Tick, Close, readerVars
  <2> QED
    BY <1>0, <2>1, ClientKept DEF MissInv
<1>2. ASSUME NEW c \in Clients, Begin(c) PROVE MissInv'
  <2>1. /\ walk'[c] = AtRest /\ \A d \in Clients : d # c => walk'[d] = walk[d]
        /\ UNCHANGED <<ask, result, future, waiting>> /\ waiting'[c] = 0
    BY <1>2 DEF Begin, PagesInv, Functions2, readerVars
  <2>2. WalkGoesOn(c)' /\ AskGoesOn(c)'
    BY <2>1 DEF WalkGoesOn, AskGoesOn, AtRest
  <2>3. ASSUME NEW d \in Clients, d # c PROVE WalkGoesOn(d)' /\ AskGoesOn(d)'
    BY <1>0, <2>1, <2>3, ClientKept
  <2> QED
    BY <2>2, <2>3 DEF MissInv
<1>3. ASSUME NEW c \in Clients, NEW q \in Queries, NEW limit \in Limits, ReadProcess(c, q, limit)
      PROVE  MissInv'
  <2> PICK place : place = Place(c, Version, q)
    OBVIOUS
  <2> PICK page : page = ProcessPage(records, q, place, limit, now)
    OBVIOUS
  <2>1. /\ WalkOf(c) /\ WalkGoesOn(c) /\ CanAsk(c) /\ place # Invalid
        /\ Show(c, q, page, sequence) /\ UNCHANGED <<ask, result, future, waiting>>
        /\ UNCHANGED <<scope, now, boot, records, sequence>>
        /\ waiting[c] = 0 /\ walk[c].state \in {"rest", "walking"}
    BY <1>3 DEF ReadProcess, CanAsk, readerVars, recordVars, PagesInv, MissInv
  <2>2. /\ place \in Nat
        /\ walk[c].state = "rest" => place = Top
        /\ walk[c].state = "walking" => q = walk[c].query /\ place = walk[c].cursor.at
    BY <2>1, PlaceGoesOn
  <2>3. /\ page.available /\ (page.next # NoCursor => page.next.query = q)
        /\ \A r \in records : r.at < place /\ Fresh(r, q) => Covers(page, r)
    BY <1>0, <2>2, ProcessPageCovers
  <2>4. ASSUME NEW r \in records,
               r.at <= IF walk[c].state = "walking" THEN walk[c].from ELSE sequence,
               walk[c].state = "walking" => OfItsTime(r, c), Fresh(r, q)
        PROVE  r \in Shown(c) \/ Covers(page, r)
    BY <2>1, <2>2, <2>3, <2>4, PageGoesOn
  <2>5. WalkGoesOn(c)'
    <3>1. sequence \in Nat /\ sequence <= sequence
      BY <1>0 DEF RecordsOK
    <3> QED
      BY <1>0, <2>1, <2>2, <2>3, <2>4, <3>1, ShowCovers DEF PagesInv
  <2>6. AskGoesOn(c)'
    BY <2>1 DEF AskGoesOn
  <2>7. ASSUME NEW d \in Clients, d # c PROVE WalkGoesOn(d)' /\ AskGoesOn(d)'
    <3>1. walk'[d] = walk[d]
      BY <2>1, <2>7 DEF PagesInv, Functions2, Show
    <3> QED
      BY <1>0, <2>1, <3>1, ClientKept
  <2> QED
    BY <2>5, <2>6, <2>7 DEF MissInv
<1>4. ASSUME NEW c \in Clients, NEW q \in Queries, NEW limit \in Limits, Submit(c, q, limit)
      PROVE  MissInv'
  <2> PICK place : place = Place(c, Version, q)
    OBVIOUS
  <2>1. PICK n \in Scans :
          /\ ~ InUse(n)
          /\ future' = [future EXCEPT ![n] = "queued"]
          /\ ask' = [ask EXCEPT ![n] = [place |-> place, query |-> q, limit |-> limit]]
          /\ waiting' = [waiting EXCEPT ![c] = n]
    BY <1>4 DEF Submit
  <2>2. /\ UNCHANGED <<walk, result, scope>> /\ scope = "journal_local"
        /\ WalkOf(c) /\ WalkGoesOn(c) /\ CanAsk(c) /\ place # Invalid
        /\ walk[c].state \in {"rest", "walking"}
    BY <1>4 DEF Submit, CanAsk, PagesInv, MissInv
  <2>3. /\ waiting'[c] = n /\ future'[n] = "queued"
        /\ ask'[n] = [place |-> place, query |-> q, limit |-> limit]
        /\ \A d \in Clients : d # c => waiting'[d] = waiting[d] /\ waiting[d] # n
        /\ \A m \in Scans : m # n => future'[m] = future[m] /\ ask'[m] = ask[m]
    BY <2>1 DEF TypeOK, ReaderOK, PagesInv, Functions2, InUse, Scans
  <2>4. /\ walk[c].state = "rest" => place = Top
        /\ walk[c].state = "walking" => q = walk[c].query /\ place = walk[c].cursor.at
    BY <2>2, PlaceGoesOn
  <2>5. WalkGoesOn(c)'
    BY <1>0, <2>2, WalkKept
  <2>6. AskGoesOn(c)'
    BY <2>2, <2>3, <2>4 DEF AskGoesOn
  <2>7. ASSUME NEW d \in Clients, d # c PROVE WalkGoesOn(d)' /\ AskGoesOn(d)'
    <3>1. waiting[d] # 0 => /\ future'[waiting[d]] = future[waiting[d]]
                            /\ ask'[waiting[d]] = ask[waiting[d]]
      BY <1>w, <2>3, <2>7
    <3> QED
      BY <1>0, <2>2, <2>3, <2>7, <3>1, ClientKept
  <2> QED
    BY <2>5, <2>6, <2>7 DEF MissInv
<1>5. ASSUME NEW c \in Clients, SubmitFails(c) PROVE MissInv'
  BY <1>0, <1>5, ClientKept DEF SubmitFails, MissInv
<1>6. ASSUME NEW n \in Scans, Scan(n) PROVE MissInv'
  <2>1. /\ UNCHANGED <<walk, ask, result, waiting>>
        /\ future[n] = "queued" /\ future'[n] = "running"
        /\ \A m \in Scans : m # n => future'[m] = future[m]
    BY <1>6 DEF Scan, TypeOK, ReaderOK
  <2>2. ASSUME NEW c \in Clients PROVE WalkGoesOn(c)' /\ AskGoesOn(c)'
    <3>1. waiting[c] # 0 => \/ future'[waiting[c]] = future[waiting[c]]
                            \/ future[waiting[c]] = "queued" /\ future'[waiting[c]] = "running"
      BY <1>w, <2>1
    <3> QED
      BY <1>0, <2>1, <3>1, ClientKept
  <2> QED
    BY <2>2 DEF MissInv
<1>7. ASSUME NEW n \in Scans, EndScan(n) PROVE MissInv'
  <2>1. PICK page \in {Unavailable} \cup
            {JournalPage(records, ask[n].query, ask[n].place, ask[n].limit, now, b) :
                b \in 0..ScanLimit} :
          result' = IF \E c \in Clients : waiting[c] = n
                    THEN [result EXCEPT ![n] =
                            [page |-> page, newest |-> sequence, query |-> ask[n].query]]
                    ELSE result
    BY <1>7 DEF EndScan
  <2>2. /\ UNCHANGED <<walk, waiting, scope, now, boot, records, sequence>>
        /\ future[n] = "running" /\ future'[n] = "done"
        /\ ask' = [ask EXCEPT ![n] = NoAsk]
        /\ \A m \in Scans : m # n => /\ future'[m] = future[m] /\ ask'[m] = ask[m]
                                    /\ result'[m] = result[m]
    BY <1>7, <2>1 DEF EndScan, TypeOK, ReaderOK, PagesInv, Functions2, recordVars
  <2>3. ASSUME NEW c \in Clients, waiting[c] # n PROVE WalkGoesOn(c)' /\ AskGoesOn(c)'
    <3>1. waiting[c] # 0 => /\ future'[waiting[c]] = future[waiting[c]]
                            /\ ask'[waiting[c]] = ask[waiting[c]]
                            /\ result'[waiting[c]] = result[waiting[c]]
      BY <1>w, <2>2, <2>3
    <3> QED
      BY <1>0, <2>2, <3>1, ClientKept
  <2>4. ASSUME NEW c \in Clients, waiting[c] = n PROVE WalkGoesOn(c)' /\ AskGoesOn(c)'
    <3> PICK q, place, w : q = ask[n].query /\ place = ask[n].place /\ w = walk[c]
      OBVIOUS
    <3>1. /\ WalkOf(c) /\ WalkGoesOn(c) /\ AskGoesOn(c) /\ AskOf(c) /\ n # 0
      BY <2>4 DEF PagesInv, MissInv
    <3>2. /\ scope = "journal_local" /\ w.state \in {"rest", "walking"}
          /\ q \in Queries /\ ask[n].limit \in Limits
          /\ w.state = "rest" => place = Top
          /\ w.state = "walking" => q = w.query /\ place = w.cursor.at
      BY <2>2, <2>4, <3>1 DEF AskGoesOn, AskOf
    <3>3. place \in Nat
      BY <3>1, <3>2, TopIsAbove DEF WalkOf
    <3>4. result'[n] = [page |-> page, newest |-> sequence, query |-> q]
      BY <2>1, <2>4 DEF PagesInv, Functions2
    <3>5. WalkGoesOn(c)'
      BY <1>0, <2>2, <3>1, WalkKept
    <3>6. ASSUME page.available
          PROVE  /\ page.next # NoCursor => page.next.query = q
                 /\ \A r \in records : r.at < place /\ Fresh(r, q) => Covers(page, r)
      <4>1. page # Unavailable
        BY <3>6 DEF Unavailable
      <4>2. PICK b \in 0..ScanLimit :
              page = JournalPage(records, q, place, ask[n].limit, now, b)
        BY <2>1, <4>1
      <4>3. b \in Nat
        OBVIOUS
      <4> QED
        BY <1>0, <3>2, <3>3, <4>2, <4>3, JournalPageCovers
    <3>7. ASSUME page.available, NEW r \in records,
                 r.at <= IF w.state = "walking" THEN w.from ELSE sequence, Fresh(r, q)
          PROVE  r \in Shown(c) \/ Covers(page, r)
      <4>1. OfItsTime(r, c)
        BY <3>2 DEF OfItsTime
      <4> QED
        BY <3>1, <3>2, <3>6, <3>7, <4>1, PageGoesOn
    <3>8. Shown(c)' = Shown(c) /\ walk'[c] = w /\ waiting'[c] = n /\ future'[n] = "done"
      BY <2>2, <2>4 DEF Shown
    <3>9. sequence \in Nat /\ sequence <= sequence
      BY <1>0 DEF RecordsOK
    <3>10. /\ result'[n].page = page /\ result'[n].newest = sequence /\ result'[n].query = q
      BY <3>4
    <3>11. AskGoesOn(c)'
      BY <2>2, <3>2, <3>6, <3>7, <3>8, <3>9, <3>10
         DEF AskGoesOn, Fresh, Disorder, Covers
    <3> QED
      BY <3>5, <3>11
  <2> QED
    BY <2>3, <2>4 DEF MissInv
<1>8. ASSUME NEW n \in Scans, Release(n) PROVE MissInv'
  BY <1>0, <1>8, ClientKept DEF Release, MissInv
<1>r. ASSUME NEW n \in Scans, result' = [result EXCEPT ![n] = NoResult], NEW d \in Clients,
             waiting[d] # 0
      PROVE  result'[waiting[d]].page.available => result'[waiting[d]] = result[waiting[d]]
  BY <1>r, <1>w DEF PagesInv, Functions2, NoResult, Unavailable
<1>9. ASSUME NEW c \in Clients, GiveUp(c) PROVE MissInv'
  <2>1. /\ UNCHANGED <<walk, ask, future>> /\ waiting'[c] = 0 /\ waiting[c] \in Scans
        /\ result' = [result EXCEPT ![waiting[c]] = NoResult]
        /\ \A d \in Clients : d # c => waiting'[d] = waiting[d]
    BY <1>9, <1>w DEF GiveUp, TypeOK, ReaderOK
  <2>2. ASSUME NEW d \in Clients PROVE WalkGoesOn(d)' /\ AskGoesOn(d)'
    <3>1. waiting'[d] \in {0, waiting[d]}
      BY <2>1
    <3>2. waiting[d] # 0 =>
             (result'[waiting[d]].page.available => result'[waiting[d]] = result[waiting[d]])
      BY <1>r, <2>1
    <3> QED
      BY <1>0, <2>1, <3>1, <3>2, ClientKept
  <2> QED
    BY <2>2 DEF MissInv
<1>10. ASSUME NEW c \in Clients, Resume(c) PROVE MissInv'
  <2> PICK n, res, w : n = waiting[c] /\ res = result[n] /\ w = walk[c]
    OBVIOUS
  <2>1. /\ UNCHANGED <<ask, future, scope, now, boot, records, sequence>>
        /\ waiting'[c] = 0 /\ n \in Scans /\ n # 0 /\ future[n] = "done"
        /\ result' = [result EXCEPT ![n] = NoResult]
        /\ Show(c, res.query, res.page, res.newest)
        /\ \A d \in Clients : d # c => waiting'[d] = waiting[d]
        /\ WalkOf(c) /\ WalkGoesOn(c) /\ AskGoesOn(c)
    BY <1>10, <1>w DEF Resume, TypeOK, ReaderOK, recordVars, PagesInv, MissInv
  <2>2. CASE ~ res.page.available
    <3>1. walk' = walk
      BY <2>1, <2>2 DEF PagesInv, Functions2, Show
    <3>2. ASSUME NEW d \in Clients PROVE WalkGoesOn(d)' /\ AskGoesOn(d)'
      <4>1. waiting'[d] \in {0, waiting[d]}
        BY <2>1
      <4>2. waiting[d] # 0 =>
               (result'[waiting[d]].page.available => result'[waiting[d]] = result[waiting[d]])
        BY <1>r, <2>1
      <4> QED
        BY <1>0, <2>1, <3>1, <4>1, <4>2, ClientKept
    <3> QED
      BY <3>2 DEF MissInv
  <2>3. CASE res.page.available
    <3>1. /\ scope = "journal_local" /\ w.state \in {"rest", "walking"}
          /\ res.query \in Queries /\ res.newest \in Nat /\ res.newest <= sequence
          /\ res.page.next # NoCursor => res.page.next.query = res.query
          /\ w.state = "walking" => res.query = w.query
          /\ \A r \in records :
                (/\ r.at <= IF w.state = "walking" THEN w.from ELSE res.newest
                 /\ Fresh(r, res.query)) => r \in Shown(c) \/ Covers(res.page, r)
      BY <2>1, <2>3 DEF AskGoesOn
    <3>2. WalkGoesOn(c)'
      BY <1>0, <2>1, <2>3, <3>1, ShowCovers DEF PagesInv
    <3>3. AskGoesOn(c)'
      BY <2>1 DEF AskGoesOn
    <3>4. ASSUME NEW d \in Clients, d # c PROVE WalkGoesOn(d)' /\ AskGoesOn(d)'
      <4>1. walk'[d] = walk[d] /\ waiting'[d] \in {0, waiting[d]}
        BY <2>1, <3>4 DEF PagesInv, Functions2, Show
      <4>2. waiting[d] # 0 =>
               (result'[waiting[d]].page.available => result'[waiting[d]] = result[waiting[d]])
        BY <1>r, <2>1
      <4> QED
        BY <1>0, <2>1, <4>1, <4>2, ClientKept
    <3> QED
      BY <3>2, <3>3, <3>4 DEF MissInv
  <2> QED
    BY <2>2, <2>3
<1>11. CASE EndClose
  <2>1. PICK cancelled \in SUBSET Scans :
          future' = [n \in Scans |-> IF n \in cancelled THEN "cancelled" ELSE future[n]]
    BY <1>11 DEF EndClose
  <2>2. UNCHANGED <<walk, ask, result, waiting>>
    BY <1>11 DEF EndClose
  <2>3. ASSUME NEW c \in Clients PROVE WalkGoesOn(c)' /\ AskGoesOn(c)'
    <3>1. waiting[c] # 0 => future'[waiting[c]] \in {"cancelled", future[waiting[c]]}
      BY <1>w, <2>1
    <3> QED
      BY <1>0, <2>2, <3>1, ClientKept
  <2> QED
    BY <2>3 DEF MissInv
<1>12. CASE Restart
  <2>1. walk' = walk /\ \A c \in Clients : waiting'[c] = 0
    BY <1>12 DEF Restart
  <2>2. ASSUME NEW c \in Clients PROVE WalkGoesOn(c)' /\ AskGoesOn(c)'
    <3>1. WalkGoesOn(c)'
      BY <1>0, <2>1, WalkKept DEF MissInv
    <3>2. AskGoesOn(c)'
      BY <2>1 DEF AskGoesOn
    <3> QED
      BY <3>1, <3>2
  <2> QED
    BY <2>2 DEF MissInv
<1>13. CASE UNCHANGED vars
  BY <1>0, <1>13, ClientKept DEF vars, readerVars, MissInv
<1> QED
  BY <1>1, <1>2, <1>3, <1>4, <1>5, <1>6, <1>7, <1>8, <1>9, <1>10, <1>11, <1>12, <1>13
     DEF Next, Reading, Scanning

LEMMA MissInductive == Spec => [](OrderInv /\ MissInv)
<1>1. Init => OrderInv /\ MissInv
  <2> SUFFICES ASSUME Init PROVE OrderInv /\ MissInv
    OBVIOUS
  <2>1. Forming = {} /\ Cardinality(Forming) = 0
    BY FS_EmptySet DEF Init, Forming
  <2>2. OrderInv
    BY <2>1, BoundsAre DEF Init, OrderInv
  <2>3. ASSUME NEW c \in Clients PROVE WalkGoesOn(c) /\ AskGoesOn(c)
    <3>1. walk[c] = AtRest /\ waiting[c] = 0
      BY DEF Init
    <3>2. AtRest.state = "rest" /\ AtRest.cursor = NoCursor
      BY DEF AtRest
    <3> QED
      BY <3>1, <3>2 DEF WalkGoesOn, AskGoesOn
  <2> QED
    BY <2>2, <2>3 DEF MissInv
<1>2. TypeOK /\ PagesInv /\ OrderInv /\ MissInv /\ [Next]_vars => (OrderInv /\ MissInv)'
  BY OrderStep, MissStep
<1> QED
  BY <1>1, <1>2, LogTypes, PagesInductive, PTL DEF Spec

\* A walk that came to its end has shown everything that was there when it began, is still
\* there and matches, for as long as it is further inside the window than a thread may take to
\* enter a record (the scan of read ends at the first record that is too old).
THEOREM NothingIsMissing == Spec => []WalkMissesNothing
<1>1. MissInv => WalkMissesNothing
  BY DEF MissInv, WalkGoesOn, Fresh, WalkMissesNothing
<1> QED
  BY <1>1, MissInductive, PTL

\* Nothing is missing from a walk through the pages and nothing comes twice, for any number of
\* administrators, threads, page sizes and limits, across evictions, timeouts and restarts
\* (read, _read_sync and their cursors).
THEOREM WalksStaySound == Spec => []WalksAreSound
<1>1. WalkMissesNothing /\ PagesGoBack => WalksAreSound
  BY DEF WalksAreSound
<1> QED
  BY <1>1, NothingIsMissing, PagesStayBehind, PTL

=============================================================================
