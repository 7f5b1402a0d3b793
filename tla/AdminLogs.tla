----------------------------- MODULE AdminLogs -----------------------------
(***************************************************************************)
(* Administrators page through logs (GET /admin-api/v1/logs) while threads *)
(* log, old records are evicted and the process restarts.  The lifespan    *)
(* chooses one reader, for good:                                           *)
(*  - "current_process": StructuredLogBuffer, a ring under a lock, read    *)
(*    within one step of the event loop;                                   *)
(*  - "journal_local": SystemdJournalAdminLogReader, whose blocking scan   *)
(*    runs in an executor of one thread, one scan at a time: a busy flag   *)
(*    refuses another one, also while a scan that nobody waits for any     *)
(*    longer still runs.                                                   *)
(* The sections under the readers' asyncio.Lock contain no await.          *)
(***************************************************************************)
EXTENDS LogPages, Sequences

CONSTANTS
    Scopes,         \* readers that the lifespan may choose
    Clients,        \* administrators, each walking through pages
    Threads,        \* threads that log
    Capacity,       \* STRUCTURED_LOG_BUFFER_CAPACITY
    Queries,        \* windows and filters that are asked for
    Codes,          \* codes that records carry
    Limits,         \* page sizes
    ScanLimit,      \* ADMIN_LOG_MAX_JOURNAL_SCAN
    LoggedKinds,    \* bound: kinds of records that are logged
    MaxRecords,     \* bound: records that a process logs
    MaxEntries,     \* bound: entries that the journal ever has
    MaxTime,        \* bound: ticks of the clock
    Skew,           \* ticks a thread may take to enter a record it has formed
    MaxScans,       \* bound: scans of the journal that are not forgotten yet
    MaxBoots        \* bound: processes that begin with an empty buffer

ASSUME SizeAssumption ==
    /\ Scopes \subseteq {"current_process", "journal_local"}
    /\ IsFiniteSet(Threads)
    /\ Capacity \in Nat \ {0} /\ ScanLimit \in Nat \ {0}
    /\ Limits \subseteq Nat \ {0} /\ Codes \subseteq Nat
    /\ Queries \subseteq Query(Nat, Codes)
    /\ LoggedKinds \subseteq Kinds
    /\ {MaxRecords, MaxEntries, MaxTime, Skew, MaxScans, MaxBoots} \subseteq Nat

VARIABLES
    scope,              \* of app.state.admin_log_reader
    now, boot,          \* the wall clock; which life of the process this is
    forming,            \* of each thread: the LogRecord it has formed, if any
    records,            \* _records of the buffer; the entries of the journal
    sequence,           \* _sequence of the buffer; the journal's last position
    busy, active,       \* _busy; _active, the number of a scan (0: none)
    closing,            \* "open", "draining" (_closed is set), "shut"
    worker,             \* the executor has started its thread
    future,             \* of each scan: the state of its future
    ask, result,        \* of each scan: what it was asked, what it found
    releases,           \* scans whose done-callback has not released yet
    waiting,            \* of each client: the scan it awaits (0: none)
    walk                \* of each client: its way through the pages

recordVars == <<forming, records, sequence>>
readerVars == <<busy, active, closing, worker, future, ask, result, releases>>
vars == <<scope, now, boot, recordVars, readerVars, waiting, walk>>

None == [time |-> -1]
Scans == 1..MaxScans
Top == Max({MaxRecords, MaxEntries}) + 1      \* above every place: a scan without a cursor
NoAsk == [place |-> 0]
NoResult == [page |-> Unavailable, newest |-> 0]

(* A walk: the query, the cursor of its next page, the pages it was shown, *)
(* and the newest place when it began.                                     *)
AtRest == [state |-> "rest", query |-> CHOOSE q \in Queries : TRUE, cursor |-> NoCursor,
           pages |-> <<>>, from |-> 0, boot |-> 0]

Init ==
    /\ scope \in Scopes
    /\ now = 0 /\ boot = 1
    /\ forming = [t \in Threads |-> None]
    /\ records = {} /\ sequence = 0
    /\ busy = FALSE /\ active = 0 /\ closing = "open" /\ worker = FALSE
    /\ future = [n \in Scans |-> "none"]
    /\ ask = [n \in Scans |-> NoAsk]
    /\ result = [n \in Scans |-> NoResult]
    /\ releases = {}
    /\ waiting = [c \in Clients |-> 0]
    /\ walk = [c \in Clients |-> AtRest]

-----------------------------------------------------------------------------
(* Records.  A LogRecord takes its time when it is formed, before it       *)
(* reaches the buffer's lock; records may overtake each other in between.  *)
Form(t, kind, code) ==
    /\ scope = "current_process"
    /\ forming[t] = None
    /\ sequence + Cardinality({u \in Threads : forming[u] # None}) < MaxRecords
    /\ forming' = [forming EXCEPT ![t] = [time |-> now, kind |-> kind, code |-> code]]
    /\ UNCHANGED <<scope, now, boot, records, sequence, readerVars, waiting, walk>>

(* StructuredLogBuffer.append: neither an event of the administrator nor    *)
(* one without a name enters; the oldest leaves a full deque.               *)
Kept(kind) == kind \notin {"admin", "garbage"}

Enter(t) ==
    /\ scope = "current_process"
    /\ forming[t] # None
    /\ forming' = [forming EXCEPT ![t] = None]
    /\ IF Kept(forming[t].kind)
       THEN LET new == [at |-> sequence + 1, boot |-> boot, time |-> forming[t].time,
                        kind |-> forming[t].kind, code |-> forming[t].code]
            IN  /\ sequence' = sequence + 1
                /\ records' = FirstOf(records \cup {new}, Capacity)
       ELSE UNCHANGED <<records, sequence>>
    /\ UNCHANGED <<scope, now, boot, readerVars, waiting, walk>>

(* Standard output goes to the journal, which stamps an entry on arrival.   *)
WriteEntry(kind, code) ==
    /\ scope = "journal_local"
    /\ sequence < MaxEntries
    /\ sequence' = sequence + 1
    /\ records' = records \cup
         {[at |-> sequence + 1, boot |-> 0, time |-> now, kind |-> kind, code |-> code]}
    /\ UNCHANGED <<scope, now, boot, forming, readerVars, waiting, walk>>

(* The journal gives up its oldest entry.                                   *)
Vacuum ==
    /\ scope = "journal_local"
    /\ records # {}
    /\ records' = {r \in records : r.at # Lowest(records)}
    /\ UNCHANGED <<scope, now, boot, forming, sequence, readerVars, waiting, walk>>

Tick ==
    /\ now < MaxTime
    /\ \A t \in Threads : forming[t] # None => now < forming[t].time + Skew
    /\ now' = now + 1
    /\ UNCHANGED <<scope, boot, recordVars, readerVars, waiting, walk>>

-----------------------------------------------------------------------------
(* What a client does with an answer: a page that was served joins its      *)
(* walk, which goes on from the page's cursor; a refusal leaves it as it    *)
(* was.  `newest` is the newest place the page could have shown.            *)
Show(c, q, page, newest) ==
    walk' = [walk EXCEPT ![c] =
        IF ~page.available THEN @
        ELSE [state |-> IF page.next # NoCursor THEN "walking"
                        ELSE IF page.truncated THEN "cut" ELSE "ended",
              query |-> q, cursor |-> page.next,
              pages |-> Append(@.pages, page.items),
              from |-> IF @.state = "walking" THEN @.from ELSE newest,
              boot |-> IF @.state = "walking" THEN @.boot ELSE boot]]

Place(c, version, q) ==
    IF walk[c].cursor = NoCursor THEN Top ELSE Decode(walk[c].cursor, version, q)

Version == IF scope = "current_process" THEN "p2" ELSE "j2"

CanAsk(c) == waiting[c] = 0 /\ walk[c].state \in {"rest", "walking"}

(* A client begins anew, as it also does once its cursor was refused        *)
(* because it had changed the query.                                        *)
Begin(c) ==
    /\ waiting[c] = 0
    /\ walk[c].state # "rest"
    /\ walk' = [walk EXCEPT ![c] = AtRest]
    /\ UNCHANGED <<scope, now, boot, recordVars, readerVars, waiting>>

(* ProcessAdminLogReader.read behind the endpoint.                          *)
ReadProcess(c, q, limit) ==
    /\ scope = "current_process"
    /\ CanAsk(c)
    /\ Place(c, Version, q) # Invalid
    /\ Show(c, q, ProcessPage(records, q, Place(c, Version, q), limit, now), sequence)
    /\ UNCHANGED <<scope, now, boot, recordVars, readerVars, waiting>>

-----------------------------------------------------------------------------
InUse(n) ==
    \/ future[n] \in {"queued", "running"}
    \/ n \in releases \cup {active}
    \/ \E c \in Clients : waiting[c] = n

(* SystemdJournalAdminLogReader.read up to its await.  While it is busy or  *)
(* closed the answer is Unavailable, which changes nothing.                 *)
Submit(c, q, limit) ==
    /\ scope = "journal_local"
    /\ CanAsk(c)
    /\ Place(c, Version, q) # Invalid
    /\ ~busy /\ closing = "open"
    /\ \E n \in Scans :
         /\ ~InUse(n) /\ \A i \in 1..(n - 1) : InUse(i)
         /\ busy' = TRUE
         /\ active' = n
         /\ future' = [future EXCEPT ![n] = "queued"]
         /\ ask' = [ask EXCEPT ![n] =
                      [place |-> Place(c, Version, q), query |-> q, limit |-> limit]]
         /\ waiting' = [waiting EXCEPT ![c] = n]
    /\ worker' = TRUE
    /\ UNCHANGED <<scope, now, boot, recordVars, closing, result, releases, walk>>

(* The executor's first submission starts its thread, and may fail to: the  *)
(* error leaves read after the flag was set.                                *)
SubmitFails(c) ==
    /\ scope = "journal_local"
    /\ CanAsk(c)
    /\ ~busy /\ closing = "open"
    /\ ~worker
    /\ busy' = TRUE
    /\ UNCHANGED <<scope, now, boot, recordVars, active, closing, worker, future, ask,
                   result, releases, waiting, walk>>

Scan(n) ==
    /\ future[n] = "queued"
    /\ \A i \in Scans : future[i] # "running"
    /\ future' = [future EXCEPT ![n] = "running"]
    /\ UNCHANGED <<scope, now, boot, recordVars, busy, active, closing, worker, ask,
                   result, releases, waiting, walk>>

(* The scan ends, with a page or with an error that becomes Unavailable.    *)
(* Its result matters to whoever still waits for it.                        *)
EndScan(n) ==
    /\ future[n] = "running"
    /\ future' = [future EXCEPT ![n] = "done"]
    /\ ask' = [ask EXCEPT ![n] = NoAsk]
    /\ \E page \in {Unavailable} \cup
            {JournalPage(records, ask[n].query, ask[n].place, ask[n].limit, now, b) :
                b \in 0..ScanLimit} :
         result' = IF \E c \in Clients : waiting[c] = n
                   THEN [result EXCEPT ![n] =
                           [page |-> page, newest |-> sequence, query |-> ask[n].query]]
                   ELSE result
    /\ releases' = releases \cup {n}
    /\ UNCHANGED <<scope, now, boot, recordVars, busy, active, closing, worker,
                   waiting, walk>>

(* Mutant: whoever releases makes the reader free. *)
ReleaseAny(n) == active' = 0 /\ busy' = FALSE

(* _release                                                                 *)
ReleaseActive(n) ==
    IF active = n THEN active' = 0 /\ busy' = FALSE ELSE UNCHANGED <<active, busy>>

(* Mutant: only the caller that still waits releases. *)
ReleaseNone(n) ==
    /\ n \in releases
    /\ releases' = releases \ {n}
    /\ UNCHANGED <<scope, now, boot, recordVars, busy, active, closing, worker, future,
                   ask, result, waiting, walk>>

(* The task that _schedule_release made.                                    *)
Release(n) ==
    /\ n \in releases
    /\ releases' = releases \ {n}
    /\ ReleaseActive(n)
    /\ UNCHANGED <<scope, now, boot, recordVars, closing, worker, future, ask, result,
                   waiting, walk>>

Resume(c) ==
    LET n == waiting[c]
    IN  /\ n # 0 /\ future[n] = "done"
        /\ waiting' = [waiting EXCEPT ![c] = 0]
        /\ Show(c, result[n].query, result[n].page, result[n].newest)
        /\ result' = [result EXCEPT ![n] = NoResult]
        /\ ReleaseActive(n)
        /\ UNCHANGED <<scope, now, boot, recordVars, closing, worker, future, ask, releases>>

(* The timeout, which answers Unavailable, a cancelled request, or a scan   *)
(* that close cancelled: the reader stays busy.                             *)
GiveUp(c) ==
    /\ waiting[c] # 0
    /\ waiting' = [waiting EXCEPT ![c] = 0]
    /\ result' = [result EXCEPT ![waiting[c]] = NoResult]
    /\ UNCHANGED <<scope, now, boot, recordVars, busy, active, closing, worker, future,
                   ask, releases, walk>>

(* close: waits for the active scan, for a while, and shuts the executor.   *)
Close ==
    /\ scope = "journal_local"
    /\ closing = "open"
    /\ closing' = IF active = 0 THEN "shut" ELSE "draining"
    /\ UNCHANGED <<scope, now, boot, recordVars, busy, active, worker, future, ask, result,
                   releases, waiting, walk>>

EndClose ==
    /\ closing = "draining"
    /\ closing' = "shut"
    /\ LET cancelled == {n \in Scans : future[n] = "queued"}
       IN  /\ future' = [n \in Scans |-> IF n \in cancelled THEN "cancelled" ELSE future[n]]
           /\ releases' = releases \cup cancelled
    /\ UNCHANGED <<scope, now, boot, recordVars, busy, active, worker, ask, result,
                   waiting, walk>>

(* The process ends, and a new one begins: the buffer is empty and counts   *)
(* from one again, the journal is what it was, and clients keep their       *)
(* cursors.                                                                 *)
Restart ==
    /\ IF scope = "current_process"
       THEN /\ boot < MaxBoots /\ boot' = boot + 1
            /\ forming' = [t \in Threads |-> None]
            /\ records' = {} /\ sequence' = 0
       ELSE UNCHANGED <<boot, recordVars>>
    /\ busy' = FALSE /\ active' = 0 /\ closing' = "open" /\ worker' = FALSE
    /\ future' = [n \in Scans |-> "none"]
    /\ ask' = [n \in Scans |-> NoAsk]
    /\ result' = [n \in Scans |-> NoResult]
    /\ releases' = {}
    /\ waiting' = [c \in Clients |-> 0]
    /\ UNCHANGED <<scope, now, walk>>

-----------------------------------------------------------------------------
Logging ==
    \/ \E kind \in LoggedKinds, code \in Codes :
          WriteEntry(kind, code) \/ \E t \in Threads : Form(t, kind, code)
    \/ \E t \in Threads : Enter(t)

Reading == \E c \in Clients :
    \/ Begin(c)
    \/ \E q \in Queries, limit \in Limits : ReadProcess(c, q, limit) \/ Submit(c, q, limit)
    \/ SubmitFails(c)
    \/ Resume(c)
    \/ GiveUp(c)

Scanning == \E n \in Scans : Scan(n) \/ EndScan(n) \/ Release(n)

Next == Logging \/ Vacuum \/ Tick \/ Reading \/ Scanning \/ Close \/ EndClose \/ Restart

Spec == Init /\ [][Next]_vars

(* The event loop and the executor's thread run.  A scan ends: it looks at *)
(* the clock between entries.                                               *)
FairSpec ==
    /\ Spec
    /\ \A n \in Scans : WF_vars(Scan(n)) /\ WF_vars(EndScan(n)) /\ WF_vars(Release(n))

-----------------------------------------------------------------------------
Record == [at : Nat, boot : Nat, time : Nat, kind : LoggedKinds, code : Codes]

RecordsOK ==
    /\ scope \in Scopes /\ now \in Nat /\ boot \in Nat /\ sequence \in Nat
    /\ forming \in [Threads -> {None} \cup [time : Nat, kind : LoggedKinds, code : Codes]]
    /\ records \subseteq Record /\ IsFiniteSet(records)

ReaderOK ==
    /\ busy \in BOOLEAN /\ active \in 0..MaxScans /\ worker \in BOOLEAN
    /\ closing \in {"open", "draining", "shut"}
    /\ future \in [Scans -> {"none", "queued", "running", "done", "cancelled"}]
    /\ releases \subseteq Scans
    /\ waiting \in [Clients -> 0..MaxScans]

TypeOK == RecordsOK /\ ReaderOK

Shown(c) == UNION {walk[c].pages[i] : i \in DOMAIN walk[c].pages}
Disorder == IF scope = "current_process" THEN Skew ELSE 0
OfItsTime(r, c) == scope = "journal_local" \/ r.boot = walk[c].boot

(* A walk that came to its end has shown every record that was there when   *)
(* it began, is still there, and matches.  Threads may enter records out of *)
(* the order of their times, and the scan ends at the first old one, so     *)
(* this holds of records that are further inside the window than such a     *)
(* thread may take.                                                         *)
WalkMissesNothing == \A c \in Clients : walk[c].state = "ended" =>
    \A r \in records :
        (/\ r.at <= walk[c].from
         /\ OfItsTime(r, c)
         /\ r.kind # "garbage" /\ Matches(r, walk[c].query)
         /\ r.time >= now - walk[c].query.window + Disorder)
        => r \in Shown(c)

(* Pages go back: of what one process recorded, no page shows anything      *)
(* again or out of turn, whatever is logged or evicted between the pages.   *)
PagesGoBack == \A c \in Clients : \A i, j \in DOMAIN walk[c].pages : i < j =>
    \A r \in walk[c].pages[i], s \in walk[c].pages[j] : r.boot = s.boot => r.at > s.at

(* A walk through the pages is sound: nothing is missing, nothing comes     *)
(* twice (_encode_cursor, _decode_cursor and what read does with them).     *)
WalksAreSound == WalkMissesNothing /\ PagesGoBack

(* One scan at a time: none is submitted while another runs, although       *)
(* nobody may wait for that one any longer; and whoever is awaited is the   *)
(* scan the reader knows of.                                                *)
OneScanAtATime ==
    \A n \in Scans : future[n] \in {"queued", "running"} => busy /\ active = n

(* A busy reader has a scan to wait for, unless its thread never started.   *)
BusyMeansScanning == busy => active # 0 \/ ~worker

(* The busy flag is right: it is up for every scan that runs, and for       *)
(* nothing else (_schedule_release and _release against a newer read).      *)
BusyIsRight == OneScanAtATime /\ BusyMeansScanning

(* A reader gets free again after every scan, also when its caller left.    *)
GetsFree == \A n \in Scans : active = n ~> active # n

=============================================================================
