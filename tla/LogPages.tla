----------------------------- MODULE LogPages -----------------------------
(***************************************************************************)
(* What one page of administrator logs is: filters, cursors, and the scans *)
(* of the two readers of app/core/admin_logs.py as operators on the set of *)
(* records they scan.  A record's "at" is its place in the source, the     *)
(* sequence number of the buffer or the position in the journal; both      *)
(* readers scan from the highest place to the lowest.                      *)
(*                                                                         *)
(* A record's text is reduced to what the filters tell apart: its kind     *)
(* (a business event, an event of the system's own activity, an event of   *)
(* the administrator, or one that is not a known structured event) and its *)
(* code.  Filters on route and request are like the one on the code.       *)
(***************************************************************************)
EXTENDS Integers, FiniteSets, FiniteSetsExt

Kinds == {"business", "system", "admin", "garbage"}

(* AdminLogFilters and the window; AnyCode where no code is asked for.     *)
AnyCode == -1
Query(windows, codes) ==
    [window : windows, code : codes \cup {AnyCode}, includeSystem : BOOLEAN]

IsSystemActivity(r) == r.kind \in {"system", "admin"}

Matches(r, q) ==
    /\ q.includeSystem \/ ~IsSystemActivity(r)
    /\ q.code \in {AnyCode, r.code}

(***************************************************************************)
(* Cursors.  Base64 and the hash of the query are taken as injective, so a *)
(* cursor is a version, the query it was made for and a place; place 0 is  *)
(* none, and decoding refuses it as it refuses what does not parse.        *)
(***************************************************************************)
NoCursor == [version |-> "none"]
Invalid == -1

Cursor(version, q, at) == [version |-> version, query |-> q, at |-> at]

(* Mutant: the cursor is not bound to the window and the filters. *)
DecodeUnbound(cursor, version, q) ==
    IF cursor.version = version THEN cursor.at ELSE Invalid

Decode(cursor, version, q) ==
    IF /\ cursor.version = version
       /\ cursor.query = q
       /\ cursor.at > 0
    THEN cursor.at
    ELSE Invalid

-----------------------------------------------------------------------------
Before(source, place) == {r \in source : r.at < place}
NewerIn(S, r) == {s \in S : s.at > r.at}
FirstOf(S, n) == {r \in S : Cardinality(NewerIn(S, r)) < n}
Lowest(S) == Min({r.at : r \in S})

(* The scan stops for good at the first record that is older than cutoff.  *)
UpToFirstOld(S, cutoff) ==
    {r \in S : \A s \in NewerIn(S, r) \cup {r} : s.time >= cutoff}

Page(items, truncated, next) ==
    [available |-> TRUE, items |-> items, truncated |-> truncated, next |-> next]

Unavailable == [available |-> FALSE, items |-> {}, truncated |-> FALSE, next |-> NoCursor]

(* ProcessAdminLogReader.read: looks one matching record past the page, and *)
(* the cursor is the last record shown.                                     *)
ProcessPage(records, q, place, limit, now) ==
    LET scanned == UpToFirstOld(Before(records, place), now - q.window)
        hits == {r \in scanned : Matches(r, q)}
        items == FirstOf(hits, limit)
        more == hits # items
    IN  Page(items, more, IF more /\ items # {}
                          THEN Cursor("p2", q, Lowest(items)) ELSE NoCursor)

(* _read_sync: examines at most `budget` entries, either because that many  *)
(* may be scanned or because the wall clock ended the scan there; a full    *)
(* page counts as truncated whether or not something is behind it, and the  *)
(* cursor is the last entry examined.                                       *)
LastExamined(items, reached, full) == IF full THEN Lowest(items) ELSE Lowest(reached)

JournalPage(journal, q, place, limit, now, budget) ==
    LET reached == FirstOf(Before(journal, place), budget)
        fresh == UpToFirstOld(reached, now - q.window)
        hits == {e \in fresh : e.kind # "garbage" /\ Matches(e, q)}
        items == FirstOf(hits, limit)
        full == Cardinality(items) = limit
        cut == fresh = reached /\ Cardinality(reached) = budget
    IN  Page(items, full \/ cut,
             IF full \/ (cut /\ budget > 0)
             THEN Cursor("j2", q, LastExamined(items, reached, full)) ELSE NoCursor)
=============================================================================
