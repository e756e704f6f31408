----------------------------- MODULE AdminCache -----------------------------
(***************************************************************************)
(* The cache of who is an administrator (keymasterd/admincache) and        *)
(* IsAdminUser, which asks it before the directory of groups               *)
(* (cmd/keymasterd/app.go).  The lock is held in Get and in Put, not       *)
(* between them, and not while the directory is asked: calls for one user  *)
(* overlap, and the slower one may put an older answer last.  Entries of   *)
(* different users have nothing to do with each other; this is one user.   *)
(***************************************************************************)
EXTENDS Integers

CONSTANTS
    Calls,
    maxDuration,
    MaxAdminTime,       \* bound: the clock
    MaxChanges          \* bound: changes of the user's groups

VARIABLES
    clock,
    entry,      \* data[user]: IsAdmin and Ts
    call,       \* call -> where it is and what it has read
    answer,     \* the answers of the last step
    member,     \* is the user in an administrators' group?
    changes, changedAt,     \* history: how often and when that changed
    slowest,    \* history: the longest time from the directory's answer to Put
    failedAt    \* history: the last time a Put followed a failed lookup

adminVars == <<clock, entry, call, answer, member, changes, changedAt, slowest, failedAt>>

ASSUME AdminAssumption == maxDuration \in Nat \ {0} /\ MaxAdminTime \in Nat

Never == -1
NotCalled == [at |-> "idle"]
NoEntry == [IsAdmin |-> FALSE, Ts |-> Never]

(* The variables have their types, and no entry is from the future. *)
AdminTypeOK ==
    /\ clock \in 0 .. MaxAdminTime
    /\ entry.IsAdmin \in BOOLEAN /\ entry.Ts \in Never .. clock
    /\ \A c \in Calls : call[c] # NotCalled => call[c].isAdmin \in BOOLEAN
    /\ answer \subseteq BOOLEAN /\ member \in BOOLEAN
    /\ changedAt \in 0 .. clock /\ slowest \in 0 .. clock /\ failedAt \in Never .. clock

AdminInit ==
    /\ clock = 0
    /\ entry = NoEntry
    /\ call = [c \in Calls |-> NotCalled]
    /\ answer = {}
    /\ member \in BOOLEAN
    /\ changes = 0 /\ changedAt = 0 /\ slowest = 0 /\ failedAt = Never

AdminTick ==
    /\ clock < MaxAdminTime
    /\ clock' = clock + 1
    /\ answer' = {}
    /\ UNCHANGED <<entry, call, member, changes, changedAt, slowest, failedAt>>

(* The directory changes. *)
ChangeGroups ==
    /\ changes < MaxChanges
    /\ member' = ~member
    /\ changes' = changes + 1
    /\ changedAt' = clock
    /\ answer' = {}
    /\ UNCHANGED <<clock, entry, call, slowest, failedAt>>

(* Mutant: an entry is still valid when its time is over. *)
isValidStill(Ts) == Ts # Never /\ clock - Ts <= maxDuration

isValid(Ts) == Ts # Never /\ clock - Ts < maxDuration

(* IsAdminUser begins: a valid entry is the answer. *)
get(c) ==
    /\ call[c] = NotCalled
    /\ IF isValid(entry.Ts)
       THEN answer' = {entry.IsAdmin} /\ UNCHANGED call
       ELSE /\ call' = [call EXCEPT ![c] = [at |-> "lookup", isAdmin |-> entry.IsAdmin]]
            /\ answer' = {}
    /\ UNCHANGED <<clock, entry, member, changes, changedAt, slowest, failedAt>>

(* _IsAdminUser: the directory answers, or there is an error and the        *)
(* answer is the expired entry's.                                           *)
lookup(c) ==
    /\ call[c].at = "lookup"
    /\ \E ok \in BOOLEAN :
          call' = [call EXCEPT ![c] =
             [at |-> "put", isAdmin |-> IF ok THEN member ELSE @.isAdmin,
              ok |-> ok, asked |-> clock]]
    /\ answer' = {}
    /\ UNCHANGED <<clock, entry, member, changes, changedAt, slowest, failedAt>>

(* Put, and IsAdminUser returns. *)
put(c) ==
    /\ call[c].at = "put"
    /\ entry' = [IsAdmin |-> call[c].isAdmin, Ts |-> clock]
    /\ answer' = {call[c].isAdmin}
    /\ LET took == clock - call[c].asked
       IN slowest' = IF took > slowest THEN took ELSE slowest
    /\ failedAt' = IF call[c].ok THEN failedAt ELSE clock
    /\ call' = [call EXCEPT ![c] = NotCalled]
    /\ UNCHANGED <<clock, member, changes, changedAt>>

AdminNext ==
    \/ AdminTick \/ ChangeGroups
    \/ \E c \in Calls : get(c) \/ lookup(c) \/ put(c)

AdminSpec == AdminInit /\ [][AdminNext]_adminVars

-----------------------------------------------------------------------------
(***************************************************************************)
(* Who is made an administrator, or is one no longer, is treated so in     *)
(* less than maxDuration plus the time of the slowest lookup, however      *)
(* calls of IsAdminUser overlap.  The exception is a lookup that failed    *)
(* since: IsAdminUser then caches the old answer anew, as often as it      *)
(* fails; but it makes no answer up, and who has never been an             *)
(* administrator is never taken for one.                                   *)
(***************************************************************************)
AnswersFollowGroups ==
    /\ \A a \in answer :
          \/ a = member
          \/ changes > 0 /\ clock < changedAt + maxDuration + slowest
          \/ failedAt >= changedAt
    /\ changes = 0 /\ ~member => TRUE \notin answer
=============================================================================
