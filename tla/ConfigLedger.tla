----------------------------- MODULE ConfigLedger -----------------------------
(***************************************************************************)
(* What the runtime configuration promises, without its protocol: a live   *)
(* version, the version a manual rollback would return to, and the values  *)
(* of every version that was ever committed.  An operation is opened under *)
(* an idempotency key and closed at most once: by a commit, which replaces *)
(* the live version in one step, or by a failure, which changes nothing.   *)
(* A restart of the process forgets the overrides and keeps the record.    *)
(***************************************************************************)
EXTENDS Naturals

CONSTANTS IdemKeys, BaselineValues, Nil

VARIABLES
    live,      \* the version requests run with
    undo,      \* the version a rollback restores, or Nil
    content,   \* the values of each committed version
    state      \* of the operation of each idempotency key

vars == <<live, undo, content, state>>

Init ==
    /\ live = 0
    /\ undo = Nil
    /\ content = [v \in {0} |-> BaselineValues]
    /\ state = [k \in IdemKeys |-> "free"]

Open(k) ==
    /\ state[k] = "free"
    /\ state' = [state EXCEPT ![k] = "open"]
    /\ UNCHANGED <<live, undo, content>>

Fail(k) ==
    /\ state[k] = "open"
    /\ state' = [state EXCEPT ![k] = "closed"]
    /\ UNCHANGED <<live, undo, content>>

\* A version that was never live before takes the place of the live one.
Advance(k) ==
    /\ state[k] = "open"
    /\ state' = [state EXCEPT ![k] = "closed"]
    /\ live' \notin DOMAIN content
    /\ DOMAIN content' = DOMAIN content \cup {live'}
    /\ \A v \in DOMAIN content : content'[v] = content[v]
    /\ undo' = live

\* An apply changes the live values to consistent ones and leaves alone what
\* only a restart may change.
Apply(k) ==
    /\ Advance(k)
    /\ content'[live'] # content[live]
    /\ content'[live']["timeout"] <= content'[live']["deadline"]
    /\ content'[live']["capacity"] = content[live]["capacity"]

\* A rollback brings the values of the previous version back.
Rollback(k) ==
    /\ undo # Nil
    /\ Advance(k)
    /\ content'[live'] = content[undo]

Restart ==
    /\ live' = 0
    /\ undo' = Nil
    /\ UNCHANGED <<content, state>>

Next ==
    \/ \E k \in IdemKeys : Open(k) \/ Fail(k) \/ Apply(k) \/ Rollback(k)
    \/ Restart

Spec == Init /\ [][Next]_vars

=============================================================================
