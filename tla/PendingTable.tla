---------------------------- MODULE PendingTable ----------------------------
(***************************************************************************)
(* A table of authentications that wait for an answer: one of the maps     *)
(* localAuthData, vipPushCookie and pendingOauth2 of RuntimeState in       *)
(* cmd/keymasterd/app.go.  An entry holds a one-time value and expires; the*)
(* loop performStateCleanup removes expired entries, and nothing else looks*)
(* at the time of expiry.                                                  *)
(*                                                                         *)
(* The tables are in memory: a crash empties them.  The cleanup loop is    *)
(* assumed to wake up within the second in which its sleep ends.           *)
(***************************************************************************)
EXTENDS Naturals

CONSTANTS
    Keys,                \* user names, or values of a cookie
    MaxValue,            \* bound: how many one-time values are drawn
    LastIssue,           \* bound: the last second in which an entry is stored
    maxAge,              \* seconds after which an entry expires
    secsBetweenCleanup   \* seconds the cleanup loop sleeps

ASSUME PendingTableAssumption ==
    /\ MaxValue \in Nat
    /\ LastIssue \in Nat
    /\ maxAge \in Nat \ {0}
    /\ secsBetweenCleanup \in Nat \ {0}

VARIABLES
    now,          \* the clock
    nextCleanup,  \* when the sleep of performStateCleanup ends
    pending,      \* the table: key -> entry
    drawn,        \* how many one-time values have been drawn
    stored,       \* history: values that have been in the table
    claimed       \* history: values that answers have found in the table

tableVars == <<now, nextCleanup, pending, drawn, stored, claimed>>

Values == 1 .. MaxValue

(* The last expired entry is removed at this second at the latest. *)
MaxTime == LastIssue + maxAge + secsBetweenCleanup

Entry == [value : Values, ExpiresAt : 0 .. LastIssue + maxAge]
NoEntry == [entry |-> "none"]

TableTypeOK ==
    /\ now \in 0 .. MaxTime
    /\ nextCleanup \in 0 .. MaxTime + secsBetweenCleanup
    /\ pending \in [Keys -> Entry \cup {NoEntry}]
    /\ drawn \in 0 .. MaxValue
    /\ stored \subseteq Values
    /\ claimed \subseteq Values

TableInit ==
    /\ now = 0
    /\ nextCleanup = 0
    /\ pending = [k \in Keys |-> NoEntry]
    /\ drawn = 0
    /\ stored = {}
    /\ claimed = {}

-----------------------------------------------------------------------------
(* An entry is stored, whatever the table held under its key. *)
Store(k, value) ==
    /\ now <= LastIssue
    /\ pending' = [pending EXCEPT ![k] = [value |-> value, ExpiresAt |-> now + maxAge]]
    /\ stored' = stored \cup {value}

(* An answer finds the entry of its key. *)
Lookup(k) ==
    /\ pending[k] # NoEntry
    /\ claimed' = claimed \cup {pending[k].value}

Expired(entry) == entry # NoEntry /\ entry.ExpiresAt < now
Without(K) == [k \in Keys |-> IF k \in K THEN NoEntry ELSE pending[k]]

(* Mutants: expired entries stay; entries are removed until they expire. *)
ExpiredKeysNone == {}
ExpiredKeysEarly == {k \in Keys : pending[k] # NoEntry /\ pending[k].ExpiresAt >= now}

ExpiredKeys == {k \in Keys : Expired(pending[k])}

performStateCleanup ==
    /\ now >= nextCleanup
    /\ pending' = Without(ExpiredKeys)
    /\ nextCleanup' = now + secsBetweenCleanup
    /\ UNCHANGED <<now, drawn, stored, claimed>>

(* The daemon stops and is started again. *)
TableCrash ==
    /\ pending' = [k \in Keys |-> NoEntry]
    /\ nextCleanup' = now
    /\ UNCHANGED <<now, drawn, stored, claimed>>

Tick ==
    /\ now < MaxTime
    /\ now < nextCleanup
    /\ now' = now + 1
    /\ UNCHANGED <<nextCleanup, pending, drawn, stored, claimed>>

-----------------------------------------------------------------------------
(* What a table makes of PendingLifecycle. *)
StatusOfValues ==
    [v \in Values |->
        CASE v \notin stored -> "new"
          [] \E k \in Keys : pending[k] # NoEntry /\ pending[k].value = v -> "open"
          [] OTHER -> "closed"]

Lifecycle == INSTANCE PendingLifecycle WITH status <- StatusOfValues, claimed <- claimed

(***************************************************************************)
(* The one-time values of a table go through the life of PendingLifecycle: *)
(* an answer is checked only against a value that is open, none is opened  *)
(* twice, and each is closed in the end, if only by performStateCleanup.   *)
(***************************************************************************)
ImplementsLifecycle == Lifecycle!Spec
=============================================================================
