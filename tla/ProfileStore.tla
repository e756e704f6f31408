---------------------------- MODULE ProfileStore ----------------------------
(***************************************************************************)
(* The user_profile table of cmd/keymasterd/storage.go: the primary        *)
(* database db, which all writes go to, and the local read-only copy cache,*)
(* which BackgroundDBCopy refreshes and LoadUserProfile falls back to when *)
(* the primary does not answer within remoteDBQueryTimeout.                *)
(*                                                                         *)
(* A transaction of the primary either takes effect or does not; one that  *)
(* reports an error may still have taken effect (the answer to the commit  *)
(* was lost).  The DELETE with which a copy begins does not belong to the  *)
(* copy's transaction (it is sent to the database handle, as a query whose *)
(* rows are never read), so it may take effect by itself, or not at all.   *)
(***************************************************************************)
EXTENDS UserProfile

VARIABLES
    db,     \* primary database: user -> profile or NoRow
    cache,  \* local copy: user -> profile or NoRow
    copy    \* rows read by the copy in progress, or NoCopy

storeVars == <<db, cache, copy>>

(* No profile is stored under a user name. *)
NoRow == [row |-> "none"]
Rows == userProfile \cup {NoRow}
NoCopy == << >>

(* The profile LoadUserProfile makes of a row, and the ok flag with it. *)
Loaded(row) == IF row = NoRow THEN defaultProfile ELSE row
existing(row) == row # NoRow

StoreTypeOK ==
    /\ db \in [Users -> Rows]
    /\ cache \in [Users -> Rows]
    /\ copy \in [Users -> Rows] \cup {NoCopy}

StoreInit ==
    /\ db = [u \in Users |-> NoRow]
    /\ cache = [u \in Users |-> NoRow]
    /\ copy = NoCopy

-----------------------------------------------------------------------------
(* The outcomes of LoadUserProfile that give the handler a profile.  The    *)
(* third result tells the handler whether it was read from the cache.       *)
LoadOutcomes(u) ==
    {[profile |-> Loaded(db[u]), existing |-> existing(db[u]),
      fromCache |-> FALSE],
     [profile |-> Loaded(cache[u]), existing |-> existing(cache[u]),
      fromCache |-> TRUE]}

(* SaveUserProfile and DeleteUserProfile once their transaction has taken   *)
(* effect.  The whole profile is replaced, whatever the row held.           *)
SaveUserProfile(u, profile) ==
    /\ db' = [db EXCEPT ![u] = profile]
    /\ UNCHANGED <<cache, copy>>

DeleteUserProfile(u) ==
    /\ db' = [db EXCEPT ![u] = NoRow]
    /\ UNCHANGED <<cache, copy>>

-----------------------------------------------------------------------------
(* copyDBIntoSQLite reads the source rows, then deletes the destination's.  *)
CopyBegin ==
    /\ copy = NoCopy
    /\ copy' = db
    /\ cache' \in {cache, [u \in Users |-> NoRow]}
    /\ UNCHANGED db

(* Its transaction upserts every row that was read, all or none.            *)
CopyCommit ==
    /\ copy # NoCopy
    /\ cache' = [u \in Users |-> IF copy[u] = NoRow THEN cache[u] ELSE copy[u]]
    /\ copy' = NoCopy
    /\ UNCHANGED db

CopyFail ==
    /\ copy # NoCopy
    /\ copy' = NoCopy
    /\ UNCHANGED <<db, cache>>

copyDBIntoSQLite == CopyBegin \/ CopyCommit \/ CopyFail
=============================================================================
