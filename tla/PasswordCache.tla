--------------------------- MODULE PasswordCache ---------------------------
(***************************************************************************)
(* Password logins of one user against LDAP, and the salted hash of the    *)
(* last accepted password that lets the user in while LDAP is unreachable  *)
(* (lib/pwauth/ldap/impl.go).  The hash is a signed, expiring row of       *)
(* expiring_signed_user_data (cmd/keymasterd/storage.go): it is written to *)
(* the primary database, copied to the local one by BackgroundDBCopy, and  *)
(* read from the copy when the primary does not answer in time.            *)
(*                                                                         *)
(* A hash is represented by its password: argon2 with a random salt is     *)
(* only ever compared with a password.  keymasterd always gives the        *)
(* authenticator a storage (UpdateStorage in main) unless the cache is     *)
(* disabled, and then there is nothing to model.                           *)
(***************************************************************************)
EXTENDS Naturals

CONSTANTS
    Passwords,              \* passwords that are tried
    NoPassword,             \* not a password: no login is in progress
    Logins,                 \* bound: logins that may be in progress
    MaxTime,                \* bound: the last second of the modelled clock
    expirationDuration      \* defaultCacheDuration, in seconds

ASSUME PasswordCacheAssumption ==
    /\ MaxTime \in Nat \ {0}
    /\ expirationDuration \in Nat \ {0}
    /\ NoPassword \notin Passwords

Times == 1 .. MaxTime
Never == 0

(* A row: the password whose hash it holds and its expiration_epoch. *)
Signed == [hash : Passwords, expires : {t + expirationDuration : t \in Times}]
NoRow == [row |-> "none"]

VARIABLES
    now,        \* the clock
    db, cache,  \* the row in the primary database and in the local copy
    copy,       \* the row read by the copy in progress
    login,      \* login -> its local state
    recorded,   \* history: password -> when a login last recorded it
    deleted     \* history: passwords whose hash was deleted when LDAP refused
                \* them, and which LDAP has not accepted since

vars == <<now, db, cache, copy, login, recorded, deleted>>
dbVars == <<db, cache, copy>>

LoginState ==
    [pc : {"idle", "valid", "storing", "invalid", "deleting", "offline", "comparing"},
     password : Passwords \cup {NoPassword}, row : Signed \cup {NoRow},
     fromCache : BOOLEAN, stale : BOOLEAN]

TypeOK ==
    /\ now \in Times
    /\ db \in Signed \cup {NoRow}
    /\ cache \in Signed \cup {NoRow}
    /\ copy \in Signed \cup {NoRow}
    /\ login \in [Logins -> LoginState]
    /\ recorded \in [Passwords -> Times \cup {Never}]
    /\ deleted \subseteq Passwords

-----------------------------------------------------------------------------
Idle ==
    [pc |-> "idle", password |-> NoPassword, row |-> NoRow,
     fromCache |-> FALSE, stale |-> FALSE]

Init ==
    /\ now = 1
    /\ db = NoRow
    /\ cache = NoRow
    /\ copy = NoRow
    /\ login = [l \in Logins |-> Idle]
    /\ recorded = [p \in Passwords |-> Never]
    /\ deleted = {}

(* The login returns, whatever its verdict. *)
Return(l) == login' = [login EXCEPT ![l] = Idle]

(* The primary row is written: what other logins read of it is outdated.    *)
Outdated(l) ==
    [m \in Logins |-> IF m # l /\ login[m].pc = "deleting"
                      THEN [login[m] EXCEPT !.stale = TRUE] ELSE login[m]]

-----------------------------------------------------------------------------
(* CheckLDAPUserPassword on the first server that answers: bound, invalid   *)
(* credentials, or an error from every server.  The user's password may     *)
(* change, and the account be disabled or enabled, at any time.             *)
Asked(l, verdict, p) ==
    login' = [login EXCEPT ![l] = [Idle EXCEPT !.pc = verdict, !.password = p]]

CheckLDAPUserPassword(l) ==
    /\ login[l].pc = "idle"
    /\ \E p \in Passwords :
          \/ Asked(l, "valid", p) /\ deleted' = deleted \ {p}
          \/ Asked(l, "invalid", p) /\ UNCHANGED deleted
          \/ Asked(l, "offline", p) /\ UNCHANGED deleted
    /\ UNCHANGED <<now, dbVars, recorded>>

(* Valid: the hash is made, its expiration computed (or the hash could not  *)
(* be made: the login is valid all the same).                               *)
MakeHash(l) ==
    LET p == login[l].password IN
    /\ login[l].pc = "valid"
    /\ \/ /\ login' = [login EXCEPT ![l].pc = "storing",
                         ![l].row = [hash |-> p, expires |-> now + expirationDuration]]
          /\ recorded' = [recorded EXCEPT ![p] = now]
       \/ /\ Return(l)
          /\ UNCHANGED recorded
    /\ UNCHANGED <<now, dbVars, deleted>>

UpsertSigned(l) ==
    /\ login[l].pc = "storing"
    /\ \/ /\ db' = login[l].row
          /\ login' = [Outdated(l) EXCEPT ![l] = Idle]
       \/ /\ Return(l)
          /\ UNCHANGED db
    /\ UNCHANGED <<now, cache, copy, recorded, deleted>>

-----------------------------------------------------------------------------
(* Mutant: a row is read whether or not it has expired. *)
GetSignedExpired(row) == row

(* What the select statement of GetSigned returns. *)
GetSignedRow(row) ==
    IF row # NoRow /\ row.expires > now THEN row ELSE NoRow

(* GetSigned, from the primary, or from the copy after a timeout; an error  *)
(* ends the login.  The row is NoRow when there is none that has not        *)
(* expired.                                                                 *)
GetSigned(l, next) ==
    \E fromCache \in BOOLEAN :
        login' = [login EXCEPT ![l].pc = next,
                    ![l].row = GetSignedRow(IF fromCache THEN cache ELSE db),
                    ![l].fromCache = fromCache, ![l].stale = FALSE]

(* Invalid: a hash of the refused password is deleted from the primary.     *)
ReadRefused(l) ==
    /\ login[l].pc = "invalid"
    /\ GetSigned(l, "deleting") \/ Return(l)
    /\ UNCHANGED <<now, dbVars, recorded, deleted>>

Matches(l) == login[l].row # NoRow /\ login[l].row.hash = login[l].password

(* Mutant: the row is deleted whichever password it is for. *)
DeleteSignedAny(l) ==
    /\ login[l].pc = "deleting"
    /\ db' = NoRow
    /\ login' = [Outdated(l) EXCEPT ![l] = Idle]
    /\ UNCHANGED <<now, cache, copy, recorded, deleted>>

DeleteSigned(l) ==
    /\ login[l].pc = "deleting"
    /\ \/ /\ Matches(l)
          /\ db' = NoRow
          /\ deleted' = deleted \cup {login[l].password}
          /\ login' = [Outdated(l) EXCEPT ![l] = Idle]
       \/ /\ Return(l)
          /\ UNCHANGED <<db, deleted>>
    /\ UNCHANGED <<now, cache, copy, recorded>>

(* Unreachable: the hash decides. *)
ReadLocal(l) ==
    /\ login[l].pc = "offline"
    /\ GetSigned(l, "comparing") \/ Return(l)
    /\ UNCHANGED <<now, dbVars, recorded, deleted>>

Compare(l) ==
    /\ login[l].pc = "comparing"
    /\ Return(l)
    /\ UNCHANGED <<now, dbVars, recorded, deleted>>

-----------------------------------------------------------------------------
(* The daemon's background loop.  The rows of this table that the copy      *)
(* already has are replaced, never removed, by the copied ones.             *)
CopyBegin ==
    /\ copy' = GetSignedRow(db)
    /\ UNCHANGED <<db, cache>>

CopyCommit ==
    /\ copy # NoRow
    /\ cache' = copy
    /\ copy' = NoRow
    /\ UNCHANGED db

(* cleanupDBData on both databases, after the copy is over.  Like the       *)
(* copy's DELETE it is sent as a query whose rows are not read.             *)
Kept(row) == IF row # NoRow /\ row.expires < now THEN NoRow ELSE row
cleanupDBData ==
    /\ db' \in {db, Kept(db)}
    /\ cache' \in {cache, Kept(cache)}
    /\ copy' = NoRow

BackgroundDBCopy ==
    /\ CopyBegin \/ CopyCommit \/ cleanupDBData
    /\ UNCHANGED <<now, login, recorded, deleted>>

Crash ==
    /\ login' = [l \in Logins |-> Idle]
    /\ copy' = NoRow
    /\ UNCHANGED <<now, db, cache, recorded, deleted>>

Tick ==
    /\ now < MaxTime
    /\ now' = now + 1
    /\ UNCHANGED <<dbVars, login, recorded, deleted>>

passwordAuthenticate(l) ==
    \/ CheckLDAPUserPassword(l) \/ MakeHash(l) \/ UpsertSigned(l)
    \/ ReadRefused(l) \/ DeleteSigned(l) \/ ReadLocal(l) \/ Compare(l)

Next ==
    \/ \E l \in Logins : passwordAuthenticate(l)
    \/ BackgroundDBCopy
    \/ Crash
    \/ Tick

Spec == Init /\ [][Next]_vars

-----------------------------------------------------------------------------
Recent(p) == recorded[p] # Never /\ now < recorded[p] + expirationDuration

(***************************************************************************)
(* A hash that is consulted while LDAP is unreachable, from whichever      *)
(* database, is of a password that a login recorded, after LDAP had        *)
(* accepted it, less than expirationDuration ago: neither the copying nor  *)
(* an upsert of an older login lets a hash live longer.                    *)
(***************************************************************************)
LocalHashRecent ==
    [][\A l \in Logins :
          login[l].pc = "offline" /\ login'[l].row # NoRow
            => Recent(login'[l].row.hash)]_vars

(***************************************************************************)
(* A refused login removes the hash of the refused password only: a hash   *)
(* of another one goes only if the row was written after the login read    *)
(* it, or the login read the copy.                                         *)
(***************************************************************************)
DeletesOnlyRefusedHash ==
    [][\A l \in Logins :
          login[l].pc = "deleting" /\ login'[l].pc = "idle" /\ db # NoRow /\ db' = NoRow
            => \/ db.hash = login[l].password
               \/ login[l].stale \/ login[l].fromCache]_vars

(***************************************************************************)
(* "A disabled user who attempted to authenticate would immediately have   *)
(* their cached, salted, hashed password invalidated" (DesignDoc.md): once *)
(* the hash of a password that LDAP refused has been deleted, no login is  *)
(* let in by a hash of that password until LDAP accepts it again.          *)
(***************************************************************************)
DeletedHashNotAccepted ==
    [][\A l \in Logins :
          login[l].pc = "comparing" /\ Matches(l) => login[l].password \notin deleted]_vars
=============================================================================
