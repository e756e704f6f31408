--------------------------- MODULE PasswordProofs ---------------------------
(***************************************************************************)
(* Proofs about the two things a password opens in keymasterd: a login     *)
(* (PasswordCache), for all passwords, logins and bounds, and the signing  *)
(* keys (Unseal), for any number of operators and restarts.  The two       *)
(* specifications share no state.                                          *)
(***************************************************************************)
EXTENDS PasswordCache, Unseal, TLAPS

-----------------------------------------------------------------------------
(* PasswordCache *)

(***************************************************************************)
(* The inductive invariant.  No row there is, stored, copied or in the     *)
(* hands of a login, expires later than its password's last record allows; *)
(* and a login that read the primary, and whose row nobody has written     *)
(* since, either sees the row as it is or the row has been cleaned up.     *)
(***************************************************************************)
Fresh(row) ==
    row # NoRow => /\ recorded[row.hash] # Never
                   /\ row.expires <= recorded[row.hash] + expirationDuration

InSync(l) ==
    login[l].pc = "deleting" /\ ~login[l].fromCache /\ ~login[l].stale
      => login[l].row = NoRow \/ db = NoRow \/ db.hash = login[l].row.hash

Inv ==
    /\ TypeOK
    /\ \A p \in Passwords : recorded[p] <= now
    /\ Fresh(db) /\ Fresh(cache) /\ Fresh(copy)
    /\ \A l \in Logins : Fresh(login[l].row) /\ InSync(l)
    /\ \A l \in Logins : login[l].pc # "idle" => login[l].password \in Passwords
    /\ \A l \in Logins : login[l].pc = "offline" => login[l].row = NoRow

LEMMA NoRowIsNoSigned == NoRow \notin Signed
<1> SUFFICES ASSUME NoRow \in Signed PROVE FALSE
  OBVIOUS
<1>1. "hash" \in DOMAIN NoRow
  BY DEF Signed
<1>2. "hash" \notin DOMAIN NoRow
  BY DEF NoRow
<1> QED BY <1>1, <1>2

LEMMA IdleType == Idle \in LoginState
BY DEF Idle, LoginState

(* A login that is marked as outdated. *)
LEMMA MarkedLogin ==
    ASSUME NEW q \in LoginState, NEW e \in BOOLEAN
    PROVE  /\ [q EXCEPT !.stale = e] \in LoginState
           /\ [q EXCEPT !.stale = e].pc = q.pc
           /\ [q EXCEPT !.stale = e].row = q.row
           /\ [q EXCEPT !.stale = e].password = q.password
           /\ [q EXCEPT !.stale = e].stale = e
BY DEF LoginState

LEMMA InitInv == Init => Inv
<1> SUFFICES ASSUME Init PROVE Inv
  OBVIOUS
<1>1. TypeOK
  BY PasswordCacheAssumption, IdleType DEF Init, TypeOK, Times
<1> QED
  BY <1>1 DEF Init, Inv, Fresh, InSync, Idle, Never

(* What the select statement returns has its type and is fresh. *)
LEMMA SelectedRow ==
    ASSUME TypeOK, NEW row \in Signed \cup {NoRow}, Fresh(row)
    PROVE  /\ GetSignedRow(row) \in {row, NoRow}
           /\ Fresh(GetSignedRow(row))
           /\ GetSignedRow(row) # NoRow => GetSignedRow(row).expires > now
BY DEF GetSignedRow, Fresh

(* A login that returns leaves nothing behind. *)
LEMMA ReturnInv ==
    ASSUME Inv, NEW l \in Logins, Return(l), UNCHANGED <<now, dbVars, recorded, deleted>>
    PROVE  Inv'
<1>1. TypeOK'
  BY IdleType DEF Inv, TypeOK, Return, dbVars
<1> QED
  BY <1>1 DEF Inv, TypeOK, Return, dbVars, Fresh, InSync, Idle

(* A login that returns after writing the primary outdates the others. *)
LEMMA WrittenInv ==
    ASSUME Inv, NEW l \in Logins, login' = [Outdated(l) EXCEPT ![l] = Idle],
           NEW row \in Signed \cup {NoRow}, db' = row, Fresh(row),
           UNCHANGED <<now, cache, copy, recorded>>, deleted' \subseteq Passwords
    PROVE  Inv'
<1>1. /\ login'[l] = Idle
      /\ \A m \in Logins \ {l} :
            login'[m] = IF login[m].pc = "deleting"
                        THEN [login[m] EXCEPT !.stale = TRUE] ELSE login[m]
  BY Zenon DEF Outdated, Inv, TypeOK
<1>2. \A m \in Logins \ {l} :
        /\ login'[m] \in LoginState
        /\ login'[m].pc = login[m].pc /\ login'[m].row = login[m].row
        /\ login'[m].password = login[m].password
        /\ login[m].pc = "deleting" => login'[m].stale
  <2> SUFFICES ASSUME NEW m \in Logins \ {l}
               PROVE  /\ login'[m] \in LoginState
                      /\ login'[m].pc = login[m].pc /\ login'[m].row = login[m].row
                      /\ login'[m].password = login[m].password
                      /\ login[m].pc = "deleting" => login'[m].stale
    OBVIOUS
  <2>1. login[m] \in LoginState
    BY DEF Inv, TypeOK
  <2>2. PICK e \in BOOLEAN : e = TRUE
    BY Zenon
  <2>3. CASE login[m].pc = "deleting"
    <3>1. login'[m] = [login[m] EXCEPT !.stale = e]
      BY <1>1, <2>2, <2>3
    <3>2. /\ login'[m] \in LoginState
          /\ login'[m].pc = login[m].pc /\ login'[m].row = login[m].row
          /\ login'[m].password = login[m].password
      BY <2>1, <3>1 DEF LoginState
    <3>3. login'[m].stale = e
      BY <2>1, <3>1 DEF LoginState
    <3>4. login'[m].stale
      BY <2>2, <3>3, Zenon
    <3> QED BY <3>2, <3>4
  <2>4. CASE login[m].pc # "deleting"
    BY <1>1, <2>1, <2>4, Zenon
  <2> QED BY <2>3, <2>4
<1>3. login' \in [Logins -> LoginState]
  BY <1>1, <1>2, IdleType DEF Outdated
<1>4. TypeOK'
  BY <1>3 DEF Inv, TypeOK
<1>5. \A m \in Logins : Fresh(login[m].row)' /\ InSync(m)'
  <2> SUFFICES ASSUME NEW m \in Logins PROVE Fresh(login[m].row)' /\ InSync(m)'
    OBVIOUS
  <2>1. CASE m = l
    BY <1>1, <2>1 DEF Fresh, InSync, Idle
  <2>2. CASE m # l /\ login[m].pc = "deleting"
    BY <1>2, <2>2 DEF Inv, Fresh, InSync
  <2>3. CASE m # l /\ login[m].pc # "deleting"
    BY <1>2, <2>3 DEF Inv, Fresh, InSync
  <2> QED BY <2>1, <2>2, <2>3
<1>6. \A m \in Logins : /\ login'[m].pc # "idle" => login'[m].password \in Passwords
                        /\ login'[m].pc = "offline" => login'[m].row = NoRow
  BY SMTT(30), <1>1, <1>2 DEF Inv, Idle
<1> QED
  BY <1>4, <1>5, <1>6 DEF Inv, Fresh

(* A login that reads a row, from the primary or the copy. *)
LEMMA GetSignedInv ==
    ASSUME Inv, NEW l \in Logins, NEW next \in {"deleting", "comparing"},
           login[l].pc # "idle", GetSigned(l, next),
           UNCHANGED <<now, dbVars, recorded, deleted>>
    PROVE  Inv' /\ (login'[l].row # NoRow => Recent(login'[l].row.hash))
<1>1. PICK fromCache \in BOOLEAN :
        login' = [login EXCEPT ![l].pc = next,
                    ![l].row = GetSignedRow(IF fromCache THEN cache ELSE db),
                    ![l].fromCache = fromCache, ![l].stale = FALSE]
  BY Zenon DEF GetSigned
<1> DEFINE source == IF fromCache THEN cache ELSE db
           row == GetSignedRow(source)
<1>2. source \in Signed \cup {NoRow} /\ Fresh(source)
  BY DEF Inv, TypeOK
<1>3. /\ row \in {source, NoRow}
      /\ Fresh(row)
      /\ row # NoRow => row.expires > now
  BY <1>2, SelectedRow DEF Inv
<1> HIDE DEF source
<1>4. row \in Signed \cup {NoRow}
  BY <1>2, <1>3
<1> HIDE DEF row
<1>5. /\ login'[l].pc = next /\ login'[l].row = row
      /\ login'[l].fromCache = fromCache
      /\ login'[l].password = login[l].password
      /\ login'[l] \in LoginState
      /\ login' \in [Logins -> LoginState]
      /\ \A m \in Logins \ {l} : login'[m] = login[m]
  <2>1. login[l] \in LoginState /\ login \in [Logins -> LoginState]
    BY DEF Inv, TypeOK
  <2>2. PICK f \in BOOLEAN : f = FALSE
    BY Zenon
  <2>3. PICK s : s = [login[l] EXCEPT !.pc = next, !.row = row,
                                      !.fromCache = fromCache, !.stale = f]
    OBVIOUS
  <2>4. login' = [login EXCEPT ![l] = s]
    BY <1>1, <2>2, <2>3, Zenon DEF row, source
  <2>5. /\ s \in LoginState
        /\ s.pc = next /\ s.row = row /\ s.password = login[l].password
        /\ s.fromCache = fromCache
    <3>1. PICK q \in LoginState, r \in Signed \cup {NoRow} : q = login[l] /\ r = row
      BY <1>4, <2>1
    <3>2. s = [q EXCEPT !.pc = next, !.row = r, !.fromCache = fromCache, !.stale = f]
      BY <2>3, <3>1
    <3>3. /\ s \in LoginState
          /\ s.pc = next /\ s.row = r /\ s.password = q.password /\ s.fromCache = fromCache
      BY <3>2, Zenon DEF LoginState
    <3> QED BY <3>1, <3>3
  <2> QED BY <2>1, <2>4, <2>5
<1>6. TypeOK'
  BY <1>5 DEF Inv, TypeOK, dbVars
<1>7. InSync(l)'
  BY <1>3, <1>5 DEF InSync, source, dbVars
<1>8. Inv'
  BY <1>3, <1>5, <1>6, <1>7 DEF Inv, Fresh, InSync, dbVars
<1>9. row # NoRow => Recent(row.hash)
  BY <1>3, <1>4, PasswordCacheAssumption DEF Recent, Fresh, Inv, TypeOK, Signed, Times, Never
<1> QED BY Zenon, <1>5, <1>8, <1>9

LEMMA NextInv == Inv /\ [Next]_vars => Inv'
<1> SUFFICES ASSUME Inv, [Next]_vars PROVE Inv'
  OBVIOUS
<1> USE PasswordCacheAssumption, NoRowIsNoSigned
<1>1. CASE UNCHANGED vars
  BY <1>1 DEF Inv, TypeOK, Fresh, InSync, vars
<1>2. ASSUME NEW l \in Logins, CheckLDAPUserPassword(l) PROVE Inv'
  <2>1. PICK p \in Passwords, v \in {"valid", "invalid", "offline"} :
          /\ login' = [login EXCEPT ![l] = [Idle EXCEPT !.pc = v, !.password = p]]
          /\ deleted' \in {deleted, deleted \ {p}}
    BY <1>2, Zenon DEF CheckLDAPUserPassword, Asked
  <2>2. [Idle EXCEPT !.pc = v, !.password = p] \in LoginState
    BY Zenon DEF Idle, LoginState
  <2>3. TypeOK'
    BY <1>2, <2>1, <2>2 DEF Inv, TypeOK, CheckLDAPUserPassword, dbVars
  <2> QED
    BY Zenon, <1>2, <2>1, <2>3
       DEF Inv, TypeOK, Fresh, InSync, CheckLDAPUserPassword, dbVars, Idle
<1>3. ASSUME NEW l \in Logins, MakeHash(l) PROVE Inv'
  <2> DEFINE p == login[l].password
             row == [hash |-> p, expires |-> now + expirationDuration]
  <2>1. CASE Return(l) /\ UNCHANGED recorded
    BY <1>3, <2>1, ReturnInv DEF MakeHash, dbVars
  <2>2. CASE /\ login' = [login EXCEPT ![l].pc = "storing", ![l].row = row]
             /\ recorded' = [recorded EXCEPT ![p] = now]
    <3>1. p \in Passwords /\ now \in Nat
      BY <1>3 DEF MakeHash, Inv, TypeOK, Times
    <3>2. row \in Signed
      BY <3>1 DEF Signed, Inv, TypeOK
    <3>3. /\ recorded'[p] = now
          /\ \A q \in Passwords \ {p} : recorded'[q] = recorded[q]
          /\ recorded' \in [Passwords -> Times \cup {Never}]
      BY <2>2, <3>1 DEF Inv, TypeOK
    <3>4. /\ login'[l].pc = "storing" /\ login'[l].row = row
          /\ login'[l].password = p
          /\ login' \in [Logins -> LoginState]
          /\ \A m \in Logins \ {l} : login'[m] = login[m]
      <4>1. login[l] \in LoginState /\ login \in [Logins -> LoginState]
        BY DEF Inv, TypeOK
      <4>2. PICK r : r = row
        BY Zenon
      <4>3. PICK q : q = [login[l] EXCEPT !.pc = "storing", !.row = r]
        OBVIOUS
      <4>4. /\ q \in LoginState /\ q.pc = "storing" /\ q.row = r
            /\ q.password = login[l].password
        BY <3>2, <4>1, <4>2, <4>3, Zenon DEF LoginState
      <4>5. login' = [login EXCEPT ![l] = q]
        BY <2>2, <4>2, <4>3, Zenon
      <4> QED BY <4>1, <4>2, <4>4, <4>5
    <3>5. TypeOK'
      BY <1>3, <3>3, <3>4 DEF Inv, TypeOK, MakeHash, dbVars
    <3>6. ASSUME NEW r \in Signed \cup {NoRow}, Fresh(r)
          PROVE  Fresh(r)'
      <4>1. CASE r = NoRow
        BY <4>1 DEF Fresh
      <4>2. CASE r \in Signed
        <5>1. r.hash \in Passwords /\ r.expires \in Nat
          BY <4>2 DEF Signed, Times
        <5>2. recorded[r.hash] <= now /\ recorded[r.hash] \in Nat
          BY <5>1 DEF Inv, TypeOK, Times, Never
        <5> QED
          BY <3>1, <3>3, <3>6, <5>1, <5>2 DEF Fresh, Never, Inv, TypeOK, Times
      <4> QED BY <4>1, <4>2
    <3>7. PICK s : s = row
      BY Zenon
    <3>7a. Fresh(s)'
      <4>1. now # Never /\ s.hash = p /\ s.expires = now + expirationDuration
        BY <3>7 DEF Inv, TypeOK, Times, Never
      <4>2. recorded'[p] # Never /\ now + expirationDuration <= recorded'[p] + expirationDuration
        BY <3>1, <3>3, <4>1
      <4>3. recorded'[s.hash] # Never /\ s.expires <= recorded'[s.hash] + expirationDuration
        BY <4>1, <4>2
      <4> QED
        BY <4>3 DEF Fresh
    <3>8. Fresh(db)' /\ Fresh(cache)' /\ Fresh(copy)'
      <4>1. UNCHANGED <<db, cache, copy>>
        BY <1>3 DEF MakeHash, dbVars
      <4>2. PICK d, c, e : d = db /\ c = cache /\ e = copy
        OBVIOUS
      <4>3. Fresh(d)' /\ Fresh(c)' /\ Fresh(e)'
        BY <3>6, <4>2 DEF Inv, TypeOK
      <4> QED BY <4>1, <4>2, <4>3 DEF Fresh
    <3>9. \A m \in Logins : Fresh(login[m].row)' /\ InSync(m)'
      <4> SUFFICES ASSUME NEW m \in Logins PROVE Fresh(login[m].row)' /\ InSync(m)'
        OBVIOUS
      <4>1. CASE m = l
        <5>1. login'[m].row = s /\ login'[m].pc = "storing"
          BY <3>4, <3>7, <4>1
        <5> QED BY <3>7a, <5>1 DEF Fresh, InSync
      <4>2. CASE m # l
        <5>1. PICK r : r = login[m].row
          OBVIOUS
        <5>2. r \in Signed \cup {NoRow} /\ Fresh(r)
          BY <5>1 DEF Inv, TypeOK, LoginState
        <5>3. Fresh(r)'
          BY <3>6, <5>2
        <5> QED
          BY <1>3, <3>4, <4>2, <5>1, <5>3 DEF Fresh, InSync, Inv, MakeHash, dbVars
      <4> QED BY <4>1, <4>2
    <3>10. \A q \in Passwords : recorded'[q] <= now'
      BY <1>3, <3>1, <3>3 DEF MakeHash, Inv
    <3>11. \A m \in Logins :
             /\ login'[m].pc # "idle" => login'[m].password \in Passwords
             /\ login'[m].pc = "offline" => login'[m].row = NoRow
      BY <3>1, <3>4 DEF Inv
    <3> QED
      BY <3>5, <3>8, <3>9, <3>10, <3>11 DEF Inv
  <2> QED BY <1>3, <2>1, <2>2 DEF MakeHash
<1>4. ASSUME NEW l \in Logins, UpsertSigned(l) PROVE Inv'
  <2>1. CASE Return(l) /\ UNCHANGED db
    BY <1>4, <2>1, ReturnInv DEF UpsertSigned, dbVars
  <2>2. CASE db' = login[l].row /\ login' = [Outdated(l) EXCEPT ![l] = Idle]
    <3>1. PICK row : row = login[l].row
      OBVIOUS
    <3>2. row \in Signed \cup {NoRow} /\ Fresh(row) /\ deleted' \subseteq Passwords
      BY <1>4, <3>1 DEF Inv, TypeOK, LoginState, UpsertSigned
    <3> QED
      BY <1>4, <2>2, <3>1, <3>2, WrittenInv, Zenon DEF UpsertSigned
  <2> QED BY <1>4, <2>1, <2>2 DEF UpsertSigned
<1>5. ASSUME NEW l \in Logins, ReadRefused(l) PROVE Inv'
  BY <1>5, ReturnInv, GetSignedInv DEF ReadRefused
<1>6. ASSUME NEW l \in Logins, DeleteSigned(l) PROVE Inv'
  <2>1. CASE Return(l) /\ UNCHANGED <<db, deleted>>
    BY <1>6, <2>1, ReturnInv DEF DeleteSigned, dbVars
  <2>2. CASE /\ db' = NoRow /\ login' = [Outdated(l) EXCEPT ![l] = Idle]
             /\ deleted' = deleted \cup {login[l].password}
    <3>1. deleted' \subseteq Passwords
      BY <1>6, <2>2 DEF DeleteSigned, Inv, TypeOK
    <3>2. Fresh(NoRow)
      BY DEF Fresh
    <3> QED
      BY <1>6, <2>2, <3>1, <3>2, WrittenInv, Zenon DEF DeleteSigned
  <2> QED BY <1>6, <2>1, <2>2 DEF DeleteSigned
<1>7. ASSUME NEW l \in Logins, ReadLocal(l) PROVE Inv'
  BY <1>7, ReturnInv, GetSignedInv DEF ReadLocal
<1>8. ASSUME NEW l \in Logins, Compare(l) PROVE Inv'
  BY <1>8, ReturnInv DEF Compare
<1>9. CASE BackgroundDBCopy
  <2>1. /\ db' \in {db, NoRow} /\ cache' \in {cache, copy, NoRow}
        /\ copy' \in {copy, db, NoRow}
        /\ UNCHANGED <<now, login, recorded, deleted>>
    BY SMTT(30), <1>9 DEF BackgroundDBCopy, CopyBegin, CopyCommit, cleanupDBData, GetSignedRow, Kept
  <2> QED
    BY <2>1 DEF Inv, TypeOK, Fresh, InSync
<1>10. CASE Crash
  <2>1. TypeOK'
    BY <1>10, IdleType DEF Crash, Inv, TypeOK
  <2> QED
    BY <1>10, <2>1 DEF Crash, Inv, Fresh, InSync, Idle
<1>11. CASE Tick
  BY <1>11 DEF Tick, Inv, TypeOK, Fresh, InSync, Times, dbVars, Never
<1> QED
  BY <1>1, <1>2, <1>3, <1>4, <1>5, <1>6, <1>7, <1>8, <1>9, <1>10, <1>11
     DEF Next, passwordAuthenticate

-----------------------------------------------------------------------------
(***************************************************************************)
(* The clock, the databases, the logins in progress and the history have   *)
(* their types, in whatever order logins, copies and crashes happen.       *)
(***************************************************************************)
THEOREM TypeCorrect == Spec => []TypeOK
<1>1. Inv => TypeOK
  BY DEF Inv
<1> QED BY <1>1, InitInv, NextInv, PTL DEF Spec

(***************************************************************************)
(* A hash read while LDAP is unreachable is of a password recorded less    *)
(* than expirationDuration ago (GetSigned, copyDBIntoSQLite).              *)
(***************************************************************************)
THEOREM HashRecent == Spec => LocalHashRecent
<1> DEFINE A == \A l \in Logins :
                   login[l].pc = "offline" /\ login'[l].row # NoRow
                     => Recent(login'[l].row.hash)
<1>1. Inv /\ [Next]_vars => [A]_vars
  <2> SUFFICES ASSUME Inv, Next, NEW l \in Logins, login[l].pc = "offline",
                      login'[l].row # NoRow
               PROVE  Recent(login'[l].row.hash)
    OBVIOUS
  <2>1. login[l].row = NoRow
    BY DEF Inv
  <2>2. login'[l] # login[l]
    BY <2>1
  <2>3. CASE ReadLocal(l)
    <3>1. login'[l].row # NoRow /\ ~Return(l)
      BY DEF Return, Idle, Inv, TypeOK
    <3> QED BY <2>3, <3>1, GetSignedInv DEF ReadLocal
  <2>4. ASSUME NEW m \in Logins, passwordAuthenticate(m), m # l
        PROVE  login'[l].row = NoRow
    <3>1. \/ login'[l] = login[l]
          \/ login'[l] = Outdated(m)[l]
      BY <2>4, Zenon DEF passwordAuthenticate, CheckLDAPUserPassword, Asked, MakeHash,
                  UpsertSigned, ReadRefused, GetSigned, DeleteSigned, ReadLocal,
                  Compare, Return, Inv, TypeOK, Outdated
    <3>2. Outdated(m)[l] = login[l]
      BY DEF Outdated
    <3> QED BY Zenon, <2>1, <3>1, <3>2
  <2>5. CASE passwordAuthenticate(l) /\ ~ReadLocal(l)
    BY <2>5 DEF passwordAuthenticate, CheckLDAPUserPassword, MakeHash, UpsertSigned,
                ReadRefused, DeleteSigned, Compare
  <2>6. CASE BackgroundDBCopy \/ Crash \/ Tick
    BY <2>1, <2>6 DEF BackgroundDBCopy, Crash, Tick, Idle
  <2> QED BY <2>3, <2>4, <2>5, <2>6 DEF Next
<1> QED BY <1>1, InitInv, NextInv, PTL DEF Spec, LocalHashRecent

(***************************************************************************)
(* A refused login deletes the hash of no other password, unless the row   *)
(* was written after the login read it, or it read the copy                *)
(* (updateOrDeletePasswordHash).                                           *)
(***************************************************************************)
THEOREM DeletesRefused == Spec => DeletesOnlyRefusedHash
<1> DEFINE A == \A l \in Logins :
                   login[l].pc = "deleting" /\ login'[l].pc = "idle"
                     /\ db # NoRow /\ db' = NoRow
                       => \/ db.hash = login[l].password
                          \/ login[l].stale \/ login[l].fromCache
<1>1. Inv /\ [Next]_vars => [A]_vars
  <2> SUFFICES ASSUME Inv, Next, NEW l \in Logins, login[l].pc = "deleting",
                      login'[l].pc = "idle", db # NoRow, db' = NoRow,
                      ~login[l].stale, ~login[l].fromCache
               PROVE  db.hash = login[l].password
    OBVIOUS
  <2>1. CASE DeleteSigned(l)
    BY <2>1 DEF DeleteSigned, Matches, Inv, InSync
  <2>2. ASSUME NEW m \in Logins, passwordAuthenticate(m), m # l
        PROVE  login'[l].pc = "deleting"
    <3>1. \/ login'[l] = login[l]
          \/ login'[l] = Outdated(m)[l]
      BY <2>2, Zenon DEF passwordAuthenticate, CheckLDAPUserPassword, Asked, MakeHash,
                  UpsertSigned, ReadRefused, GetSigned, DeleteSigned, ReadLocal,
                  Compare, Return, Inv, TypeOK, Outdated
    <3>2. Outdated(m)[l].pc = login[l].pc
      BY MarkedLogin DEF Outdated, Inv, TypeOK
    <3> QED BY Zenon, <3>1, <3>2
  <2>3. CASE passwordAuthenticate(l) /\ ~DeleteSigned(l)
    BY <2>3 DEF passwordAuthenticate, CheckLDAPUserPassword, MakeHash, UpsertSigned,
                ReadRefused, ReadLocal, Compare
  <2>4. CASE BackgroundDBCopy \/ Tick
    BY <2>4 DEF BackgroundDBCopy, Tick
  <2>5. CASE Crash
    BY <2>5 DEF Crash
  <2> QED BY <2>1, <2>2, <2>3, <2>4, <2>5 DEF Next
<1> QED BY <1>1, InitInv, NextInv, PTL DEF Spec, DeletesOnlyRefusedHash

-----------------------------------------------------------------------------
(* Unseal *)

(* What a handler that serves users reads, apart from the trusted CAs. *)
Complete ==
    /\ Signer
    /\ "signer" \in KeymasterPublicKeys
    /\ files.ed # "none" => Ed25519Signer

(* The places of unsealCA at which its caller holds the mutex. *)
Holding == {"decrypt", "ed25519", "signer", "keys", "send"}

(***************************************************************************)
(* The inductive invariant.  The holder of the mutex is the one caller     *)
(* inside unsealCA, and where it is says which of the assignments have     *)
(* been made: none of the signers before "signer", all of them but the     *)
(* public key at "keys", everything but the message at "send".  Before     *)
(* main has come to the setup nobody is inside and there is no signer.     *)
(***************************************************************************)
Places ==
    /\ \A c \in Callers : pc[c] \in Holding <=> mutex = c
    /\ \A c \in Callers : pc[c] \in Holding \cup {"lock"} =>
          main \in {"setup", "waiting", "starting", "serving"}
    /\ pc[Aws] # "idle" => main \in {"setup", "waiting", "starting", "serving"}
    /\ main \in {"loading", "signers"} => ~Signer /\ ~Ed25519Signer

Assigned ==
    /\ caCertDer = Signer
    /\ \A c \in Callers :
          /\ pc[c] = "ed25519" => ~Signer /\ files.ed # "otherPassword"
          /\ pc[c] = "signer" => ~Signer /\ (files.ed # "none" => Ed25519Signer)
          /\ pc[c] = "keys" => Signer /\ (files.ed # "none" => Ed25519Signer)
          /\ pc[c] = "send" => Complete
          /\ pc[c] \in {"keys", "send"} => SignerIsReady = 0 /\ main \in {"setup", "waiting"}
    /\ Signer => Complete \/ \E c \in Callers : pc[c] = "keys"
    /\ Ed25519Signer =>
          \/ Signer \/ files.caKey = "bad"
          \/ \E c \in Callers : pc[c] = "signer"

Announced ==
    /\ SignerIsReady = 1 => Complete
    /\ main \in {"starting", "serving"} => Complete
    /\ main = "serving" => ClientCAPool
    /\ pc[Aws] = "end" /\ auto = "configured" => Signer

UnsealInv == UnsealTypeOK /\ Places /\ Assigned /\ Announced

(* What Move does. *)
LEMMA Moved ==
    ASSUME UnsealTypeOK, NEW c \in Callers, NEW to, Move(c, to)
    PROVE  DOMAIN pc' = Callers /\ pc'[c] = to /\ \A d \in Callers \ {c} : pc'[d] = pc[d]
BY DEF UnsealTypeOK, Move

(* A step of one caller that assigns nothing and leaves neither of the      *)
(* places between two assignments.                                          *)
LEMMA AssignedKept ==
    ASSUME Assigned, NEW c \in Callers, \A d \in Callers \ {c} : pc'[d] = pc[d],
           pc[c] \notin {"signer", "keys"}, pc'[c] \notin {"signer", "keys", "send"},
           pc'[c] = "ed25519" => ~Signer /\ files.ed # "otherPassword",
           UNCHANGED <<Signer, Ed25519Signer, caCertDer, KeymasterPublicKeys, SignerIsReady,
                       files, main>>
    PROVE  Assigned'
<1>1. Complete' <=> Complete
  BY Zenon DEF Complete
<1>2. caCertDer' = Signer'
  BY Zenon DEF Assigned
<1>3. ASSUME NEW d \in Callers
      PROVE  /\ pc'[d] = "ed25519" => ~Signer' /\ files'.ed # "otherPassword"
             /\ pc'[d] = "signer" => ~Signer' /\ (files'.ed # "none" => Ed25519Signer')
             /\ pc'[d] = "keys" => Signer' /\ (files'.ed # "none" => Ed25519Signer')
             /\ pc'[d] = "send" => Complete'
             /\ pc'[d] \in {"keys", "send"} => SignerIsReady' = 0 /\ main' \in {"setup", "waiting"}
  <2>1. CASE d = c
    BY <2>1, Zenon
  <2>2. CASE d # c
    <3>1. pc'[d] = pc[d]
      BY <2>2, Zenon
    <3> QED
      BY <1>1, <3>1, Zenon DEF Assigned
  <2> QED
    BY <2>1, <2>2, Zenon
<1>4. Signer' => Complete' \/ \E d \in Callers : pc'[d] = "keys"
  BY <1>1, Zenon DEF Assigned
<1>5. Ed25519Signer' =>
        \/ Signer' \/ files'.caKey = "bad" \/ \E d \in Callers : pc'[d] = "signer"
  BY Zenon DEF Assigned
<1> QED
  BY <1>2, <1>3, <1>4, <1>5, Zenon DEF Assigned

(* The names of the callers are different. *)
LEMMA Names ==
    /\ Aws \in Callers /\ Unlocker \in Callers /\ Operators \subseteq Callers
    /\ Aws # Unlocker /\ Nobody \notin Callers
    /\ Aws \notin Operators /\ Unlocker \notin Operators
BY UnsealAssumption DEF Callers, Aws, Unlocker, Nobody

LEMMA InitUnsealInv == UnsealInit => UnsealInv
<1> SUFFICES ASSUME UnsealInit PROVE UnsealInv
  OBVIOUS
<1> USE Names
<1>1. /\ Signer \in BOOLEAN /\ Ed25519Signer \in BOOLEAN
      /\ caCertDer \in BOOLEAN /\ ClientCAPool \in BOOLEAN
      /\ caCertDer = Signer /\ ~Signer /\ ~Ed25519Signer
  BY Zenon DEF UnsealInit
<1>2. /\ pc \in [Callers -> {"idle"}] /\ password \in [Callers -> Secrets]
      /\ restarts \in 0 .. MaxRestarts /\ SignerIsReady = 0 /\ main = "loading"
      /\ mutex = Nobody /\ KeymasterPublicKeys = {}
  BY UnsealAssumption DEF UnsealInit, Secrets
<1>3. /\ files \in Files /\ unlockerPassword \in Secrets
      /\ auto \in {"none", "noMetadata", "configured"}
  BY DEF UnsealInit
<1>4. UnsealTypeOK
  BY <1>1, <1>2, <1>3 DEF UnsealTypeOK, InUnsealCA, Callers
<1>5. Places
  BY DEF UnsealInit, Places, Holding
<1>6. Assigned /\ Announced
  BY <1>1, <1>2 DEF Assigned, Announced
<1> QED BY <1>4, <1>5, <1>6 DEF UnsealInv

(* The invariant holds of a process that has just ended. *)
LEMMA StopInv ==
    ASSUME UnsealInv, NEW to \in {"loading", "exited"}, Stop(to), restarts' \in 0 .. MaxRestarts
    PROVE  UnsealInv'
<1> USE Names
<1>1. /\ Signer' \in BOOLEAN /\ Ed25519Signer' \in BOOLEAN
      /\ caCertDer' \in BOOLEAN /\ ClientCAPool' \in BOOLEAN
      /\ caCertDer' = Signer' /\ ~Signer' /\ ~Ed25519Signer'
  BY Zenon DEF Stop
<1>2. /\ pc' \in [Callers -> {"idle"}] /\ password' \in [Callers -> Secrets]
      /\ SignerIsReady' = 0 /\ main' = to /\ mutex' = Nobody /\ KeymasterPublicKeys' = {}
      /\ UNCHANGED configVars
  BY DEF Stop, Secrets
<1>3. UnsealTypeOK'
  BY <1>1, <1>2 DEF UnsealInv, UnsealTypeOK, configVars, InUnsealCA, Callers
<1>4. Places'
  BY DEF Stop, Places, Holding
<1>5. Assigned' /\ Announced'
  BY <1>1, <1>2 DEF Assigned, Announced
<1> QED BY <1>3, <1>4, <1>5 DEF UnsealInv

(* Steps inside unsealCA. *)
LEMMA LockInv == ASSUME UnsealInv, NEW c \in Callers, Lock(c) PROVE UnsealInv'
<1> USE Names DEF UnsealInv
<1>1. pc[c] = "lock" /\ mutex = Nobody /\ mutex' = c /\ Move(c, "decrypt")
  BY DEF Lock
<1>2. UNCHANGED <<configVars, restarts, main, signerVars, ClientCAPool, password>>
  BY DEF Lock
<1>3. DOMAIN pc' = Callers /\ pc'[c] = "decrypt" /\ \A d \in Callers \ {c} : pc'[d] = pc[d]
  BY <1>1, Moved
<1>4. UnsealTypeOK'
  BY <1>1, <1>2, <1>3 DEF UnsealTypeOK, configVars, signerVars, InUnsealCA, Callers
<1>5. Places'
  BY SMTT(30), <1>1, <1>2, <1>3 DEF Places, Holding, signerVars
<1>6. Assigned'
  BY <1>1, <1>2, <1>3 DEF Assigned, Complete, signerVars, configVars
<1>7. Announced'
  BY <1>1, <1>2, <1>3 DEF Announced, Complete, signerVars, configVars
<1> QED BY <1>4, <1>5, <1>6, <1>7

(* What UnsealReturn does. *)
LEMMA Returned ==
    ASSUME UnsealTypeOK, NEW c \in Callers, NEW ok \in BOOLEAN, UnsealReturn(c, ok)
    PROVE  /\ mutex' = Nobody
           /\ DOMAIN pc' = Callers /\ \A d \in Callers \ {c} : pc'[d] = pc[d]
           /\ c \in Operators => pc'[c] = "idle"
           /\ c = Unlocker => pc'[c] = "sleep"
           /\ c = Aws => pc'[c] = IF ok THEN "end" ELSE "sleep"
BY Names DEF UnsealTypeOK, UnsealReturn, Move

(* An error of unsealCA after which the signers are as they were. *)
LEMMA GiveUpInv ==
    ASSUME UnsealInv, NEW c \in Callers, pc[c] \in {"decrypt", "ed25519", "signer"},
           pc[c] = "signer" => files.caKey = "bad", UnsealReturn(c, FALSE),
           UNCHANGED <<configVars, restarts, main, signerVars, ClientCAPool, password>>
    PROVE  UnsealInv'
<1> USE Names DEF UnsealInv, configVars, signerVars
<1>1. /\ mutex' = Nobody
      /\ DOMAIN pc' = Callers /\ \A d \in Callers \ {c} : pc'[d] = pc[d]
      /\ c \in Operators => pc'[c] = "idle"
      /\ c = Unlocker => pc'[c] = "sleep"
      /\ c = Aws => pc'[c] = "sleep"
  BY Returned, Zenon
<1>2. pc'[c] \in {"idle", "sleep"}
  BY <1>1 DEF Callers
<1>3. mutex = c /\ \A d \in Callers \ {c} : pc[d] \notin Holding
  BY DEF Places, Holding
<1>4. UnsealTypeOK'
  BY <1>1 DEF UnsealTypeOK, InUnsealCA, Callers
<1>5. Places'
  BY <1>1, <1>2, <1>3 DEF Places, Holding
<1>6. Assigned'
  BY <1>1, <1>2 DEF Assigned, Complete
<1>7. Announced'
  BY <1>1, <1>2 DEF Announced, Complete
<1> QED BY <1>4, <1>5, <1>6, <1>7

LEMMA DecryptInv == ASSUME UnsealInv, NEW c \in Callers, Decrypt(c) PROVE UnsealInv'
<1> USE Names DEF UnsealInv
<1>1. UNCHANGED <<configVars, restarts, main, signerVars, ClientCAPool, password>>
  BY DEF Decrypt
<1>2. CASE UnsealReturn(c, FALSE)
  BY <1>1, <1>2, GiveUpInv, Zenon DEF Decrypt
<1>3. CASE ~UnsealReturn(c, FALSE)
  <2>1. /\ pc[c] = "decrypt" /\ Move(c, "ed25519") /\ UNCHANGED mutex
        /\ ~Signer /\ files.ed # "otherPassword"
    BY <1>3, Zenon DEF Decrypt
  <2>2. DOMAIN pc' = Callers /\ pc'[c] = "ed25519" /\ \A d \in Callers \ {c} : pc'[d] = pc[d]
    BY <2>1, Moved
  <2>3. UnsealTypeOK'
    BY <1>1, <2>1, <2>2 DEF UnsealTypeOK, configVars, signerVars, InUnsealCA, Callers
  <2>4. Places'
    BY <1>1, <2>1, <2>2 DEF Places, Holding, signerVars
  <2>5. Assigned'
    <3>1. UNCHANGED <<Signer, Ed25519Signer, caCertDer, KeymasterPublicKeys, SignerIsReady,
                      files, main>>
      BY <1>1, Zenon DEF configVars, signerVars
    <3> QED
      BY <2>1, <2>2, <3>1, AssignedKept, Zenon
  <2>6. Announced'
    BY <1>1, <2>1, <2>2 DEF Announced, Complete, signerVars, configVars
  <2> QED BY <2>3, <2>4, <2>5, <2>6
<1> QED BY <1>2, <1>3, Zenon

LEMMA LoadEd25519Inv == ASSUME UnsealInv, NEW c \in Callers, LoadEd25519(c) PROVE UnsealInv'
<1> USE Names DEF UnsealInv
<1>1. pc[c] = "ed25519" /\ ~Signer /\ files.ed # "otherPassword"
  BY DEF LoadEd25519, Assigned
<1>2. UNCHANGED <<configVars, restarts, main, Signer, caCertDer, KeymasterPublicKeys,
                  SignerIsReady, ClientCAPool, password>>
  BY DEF LoadEd25519
<1>3. Ed25519Signer \in BOOLEAN /\ Ed25519Signer' \in BOOLEAN
  BY Zenon DEF LoadEd25519, UnsealTypeOK
<1>4. CASE files.ed = "notEd25519"
  <2>1. UnsealReturn(c, FALSE)
    BY <1>4, Zenon DEF LoadEd25519
  <2>2. Ed25519Signer' = (Ed25519Signer \/ files.ed = "good")
    BY DEF LoadEd25519
  <2>3. "notEd25519" # "good"
    OBVIOUS
  <2>4. Ed25519Signer' = Ed25519Signer
    BY <1>3, <1>4, <2>2, <2>3
  <2> QED
    BY <1>1, <1>2, <2>1, <2>4, GiveUpInv, Zenon DEF signerVars
<1>5. CASE files.ed # "notEd25519"
  <2>1. Move(c, "signer") /\ UNCHANGED mutex
    BY <1>5 DEF LoadEd25519
  <2>2. DOMAIN pc' = Callers /\ pc'[c] = "signer" /\ \A d \in Callers \ {c} : pc'[d] = pc[d]
    BY <2>1, Moved
  <2>3. Ed25519Signer' <=> (Ed25519Signer \/ files.ed = "good")
    BY Zenon DEF LoadEd25519
  <2>4. UnsealTypeOK'
    BY <1>1, <1>2, <1>3, <2>1, <2>2 DEF UnsealTypeOK, configVars, InUnsealCA, Callers
  <2>5. Places'
    BY SMTT(30), <1>1, <1>2, <2>1, <2>2 DEF Places, Holding
  <2>6. files.ed # "none" => Ed25519Signer'
    BY SMTT(30), <1>1, <1>5, <2>3 DEF UnsealTypeOK, Files
  <2>7. Assigned'
    <3>1. pc[c] = "ed25519" /\ Places /\ Assigned
      BY <1>1, Zenon
    <3>2. ~Signer /\ caCertDer = Signer
      BY <3>1, Zenon DEF Assigned
    <3>3. ~Signer' /\ caCertDer' = Signer'
      BY <1>2, <3>2, Zenon
    <3>4. \A d \in Callers \ {c} : pc'[d] \notin Holding
      <4> SUFFICES ASSUME NEW d \in Callers, d # c PROVE pc[d] \notin Holding
        BY <2>2, Zenon
      <4>1. pc[c] \in Holding
        BY <3>1 DEF Holding
      <4> QED
        BY <3>1, <4>1, Zenon DEF Places
    <3>5. \A d \in Callers \ {c} : pc'[d] \notin {"ed25519", "signer", "keys", "send"}
      BY <3>4 DEF Holding
    <3>6. pc'[c] \notin {"ed25519", "keys", "send"}
      BY <2>2
    <3>7. files' = files
      BY <1>2, Zenon DEF configVars
    <3> QED
      BY <2>2, <2>6, <3>3, <3>5, <3>6, <3>7, ZenonT(30) DEF Assigned
  <2>8. Announced'
    BY <1>1, <1>2, <2>2, <2>3 DEF Announced, Complete, configVars
  <2> QED BY <2>4, <2>5, <2>7, <2>8
<1> QED BY <1>4, <1>5

LEMMA LoadSignerInv == ASSUME UnsealInv, NEW c \in Callers, LoadSigner(c) PROVE UnsealInv'
<1> USE Names DEF UnsealInv
<1>1. pc[c] = "signer" /\ ~Signer /\ (files.ed # "none" => Ed25519Signer)
  BY DEF LoadSigner, Assigned
<1>2. UNCHANGED <<configVars, restarts, main, Ed25519Signer, KeymasterPublicKeys,
                  SignerIsReady, ClientCAPool, password>>
  BY DEF LoadSigner
<1>3. CASE files.caKey = "bad"
  BY <1>1, <1>2, <1>3, GiveUpInv, Zenon DEF LoadSigner, signerVars
<1>4. CASE files.caKey # "bad"
  <2>1. Move(c, "keys") /\ UNCHANGED mutex
    BY <1>4 DEF LoadSigner
  <2>2. DOMAIN pc' = Callers /\ pc'[c] = "keys" /\ \A d \in Callers \ {c} : pc'[d] = pc[d]
    BY <2>1, Moved
  <2>3. Signer' = TRUE /\ caCertDer' = TRUE
    BY <1>4 DEF LoadSigner
  <2>4. Signer' \in BOOLEAN /\ caCertDer' \in BOOLEAN /\ caCertDer' = Signer' /\ Signer'
    BY <2>3, Zenon
  <2>5. UnsealTypeOK'
    BY SMTT(30), <1>2, <2>1, <2>2, <2>4 DEF UnsealTypeOK, configVars, InUnsealCA, Callers
  <2>6. Places'
    BY SMTT(30), <1>1, <1>2, <2>1, <2>2, <2>4 DEF Places, Holding
  <2>7. SignerIsReady = 0 /\ main \in {"setup", "waiting"}
    <3>1. ~Complete /\ Announced /\ Places
      BY <1>1, Zenon DEF Complete
    <3>2. SignerIsReady # 1 /\ main \notin {"starting", "serving"}
      BY <3>1, Zenon DEF Announced
    <3>3. pc[c] \in Holding \cup {"lock"}
      BY <1>1 DEF Holding
    <3>4. main \in {"setup", "waiting", "starting", "serving"}
      BY <3>1, <3>3, Zenon DEF Places
    <3>5. SignerIsReady \in 0 .. 1
      BY Zenon DEF UnsealTypeOK
    <3>6. SignerIsReady = 0
      BY <3>2, <3>5
    <3> QED
      BY <3>2, <3>4, <3>6, Zenon
  <2>8. \A d \in Callers \ {c} : pc'[d] \notin Holding
    BY SMTT(30), <1>1, <2>2 DEF Places, Holding
  <2>9. Assigned'
    BY <1>1, <1>2, <2>2, <2>4, <2>7, <2>8 DEF Assigned, Complete, Holding, configVars
  <2>10. Announced'
    BY <1>2, <2>2, <2>4, <2>7, Zenon DEF Announced, Complete, configVars
  <2> QED BY <2>5, <2>6, <2>9, <2>10
<1> QED BY <1>3, <1>4

LEMMA KeysInv ==
    ASSUME UnsealInv, NEW c \in Callers, signerPublicKeyToKeymasterKeys(c) PROVE UnsealInv'
<1> USE Names DEF UnsealInv
<1>1. /\ pc[c] = "keys" /\ Move(c, "send")
      /\ KeymasterPublicKeys' = KeymasterPublicKeys \cup {"signer"}
  BY DEF signerPublicKeyToKeymasterKeys
<1>2. UNCHANGED <<configVars, restarts, main, mutex, Signer, Ed25519Signer, caCertDer,
                  SignerIsReady, ClientCAPool, password>>
  BY DEF signerPublicKeyToKeymasterKeys
<1>3. DOMAIN pc' = Callers /\ pc'[c] = "send" /\ \A d \in Callers \ {c} : pc'[d] = pc[d]
  BY SMTT(30), <1>1, Moved
<1>4. UnsealTypeOK'
  BY SMTT(30), <1>1, <1>2, <1>3 DEF UnsealTypeOK, configVars, InUnsealCA, Callers
<1>5. Places'
  BY SMTT(30), <1>1, <1>2, <1>3 DEF Places, Holding
<1>6. Assigned'
  BY <1>1, <1>2, <1>3 DEF Assigned, Complete, configVars
<1>7. Announced'
  BY <1>1, <1>2, <1>3 DEF Announced, Complete, configVars
<1> QED BY <1>4, <1>5, <1>6, <1>7

LEMMA SendInv == ASSUME UnsealInv, NEW c \in Callers, SendReady(c) PROVE UnsealInv'
<1> USE Names DEF UnsealInv
<1>1. pc[c] = "send" /\ SignerIsReady' = 1 /\ Complete
  BY DEF SendReady, Assigned
<1>2. UNCHANGED <<configVars, restarts, main, Signer, Ed25519Signer, caCertDer,
                  KeymasterPublicKeys, ClientCAPool, password>>
  BY DEF SendReady
<1>3. /\ mutex' = Nobody
      /\ DOMAIN pc' = Callers /\ \A d \in Callers \ {c} : pc'[d] = pc[d]
      /\ c \in Operators => pc'[c] = "idle"
      /\ c = Unlocker => pc'[c] = "sleep"
      /\ c = Aws => pc'[c] = "end"
  BY Returned, ZenonT(40) DEF SendReady
<1>4. pc'[c] \in {"idle", "sleep", "end"}
  BY <1>3 DEF Callers
<1>5. mutex = c /\ \A d \in Callers \ {c} : pc[d] \notin Holding
  BY <1>1 DEF Places, Holding
<1>6. Complete'
  BY <1>1, <1>2 DEF Complete, configVars
<1>7. UnsealTypeOK'
  BY <1>1, <1>2, <1>3 DEF UnsealTypeOK, configVars, InUnsealCA, Callers
<1>8. Places'
  BY SMTT(30), <1>1, <1>2, <1>3, <1>4, <1>5 DEF Places, Holding
<1>9. Assigned'
  BY SMTT(30), <1>1, <1>2, <1>3, <1>4, <1>5, <1>6 DEF Assigned, Complete, Holding
<1>10. Announced'
  BY <1>1, <1>2, <1>3, <1>4, <1>6 DEF Announced, Complete
<1> QED BY <1>7, <1>8, <1>9, <1>10

(* A caller moves to a place of its own, and the variables keep their types. *)
LEMMA MovedType ==
    ASSUME UnsealTypeOK, NEW c \in Callers, NEW to, Move(c, to),
           \/ to \in {"lock", "idle"}
           \/ c \in {Aws, Unlocker} /\ to = "sleep"
           \/ c = Aws /\ to \in {"check", "end"},
           UNCHANGED <<configVars, restarts, main, mutex, signerVars, ClientCAPool>>,
           password' \in [Callers -> Secrets]
    PROVE  UnsealTypeOK'
<1> USE Names
<1>1. DOMAIN pc' = Callers /\ pc'[c] = to /\ \A d \in Callers \ {c} : pc'[d] = pc[d]
  BY Moved, Zenon
<1>2. UNCHANGED <<files, auto, unlockerPassword, restarts, main, mutex, Signer, Ed25519Signer,
                  caCertDer, KeymasterPublicKeys, SignerIsReady, ClientCAPool>>
  BY Zenon DEF configVars, signerVars
<1>3. \A o \in Operators : pc'[o] \in InUnsealCA \cup {"idle"}
  BY <1>1 DEF UnsealTypeOK, InUnsealCA
<1>4. /\ pc'[Unlocker] \in InUnsealCA \cup {"idle", "sleep"}
      /\ pc'[Aws] \in InUnsealCA \cup {"idle", "check", "sleep", "end"}
  BY <1>1 DEF UnsealTypeOK, InUnsealCA
<1> QED
  BY <1>1, <1>2, <1>3, <1>4, Zenon DEF UnsealTypeOK

(* A caller that does not hold the mutex moves to a place where it needs    *)
(* none.                                                                    *)
LEMMA OutsideInv ==
    ASSUME UnsealInv, NEW c \in Callers, NEW to \in {"idle", "check", "sleep", "end", "lock"},
           pc[c] \notin Holding, Move(c, to), UnsealTypeOK',
           to = "lock" => main \in {"setup", "waiting", "starting", "serving"},
           c = Aws => pc[Aws] # "idle" /\ (to = "end" => Signer),
           UNCHANGED <<configVars, restarts, main, mutex, signerVars, ClientCAPool>>
    PROVE  UnsealInv'
<1> USE Names
<1>1. UnsealTypeOK /\ Places /\ Assigned /\ Announced
  BY Zenon DEF UnsealInv
<1>2. DOMAIN pc' = Callers /\ pc'[c] = to /\ \A d \in Callers \ {c} : pc'[d] = pc[d]
  BY <1>1, Moved, Zenon
<1>3. UNCHANGED <<Signer, Ed25519Signer, caCertDer, KeymasterPublicKeys, SignerIsReady, files,
                  auto, main, mutex, ClientCAPool>>
  BY Zenon DEF configVars, signerVars
<1>4. Places'
  <2>1. ASSUME NEW d \in Callers
        PROVE  /\ pc'[d] \in Holding <=> mutex = d
               /\ pc'[d] \in Holding \cup {"lock"} =>
                     main \in {"setup", "waiting", "starting", "serving"}
    BY <1>1, <1>2 DEF Places, Holding
  <2>2. pc'[Aws] # "idle" => main \in {"setup", "waiting", "starting", "serving"}
    BY <1>1, <1>2 DEF Places
  <2> QED
    BY <1>1, <1>3, <2>1, <2>2, Zenon DEF Places
<1>5. Assigned'
  <2>1. /\ pc[c] \notin {"signer", "keys"} /\ pc'[c] \notin {"signer", "keys", "send"}
        /\ pc'[c] # "ed25519"
    BY <1>2 DEF Holding
  <2> QED
    BY <1>1, <1>2, <1>3, <2>1, AssignedKept, Zenon
<1>6. Announced'
  <2>1. Complete' <=> Complete
    BY <1>3, Zenon DEF Complete
  <2>2. pc'[Aws] = "end" /\ auto = "configured" => Signer
    BY <1>1, <1>2, Zenon DEF Announced
  <2>3. pc'[Aws] = "end" /\ auto' = "configured" => Signer'
    BY <1>3, <2>2, Zenon
  <2>4. SignerIsReady' = 1 \/ main' \in {"starting", "serving"} => Complete'
    BY <1>1, <1>3, <2>1 DEF Announced
  <2>5. main' = "serving" => ClientCAPool'
    <3>1. ClientCAPool' = ClientCAPool /\ main' = main
      BY <1>3, Zenon
    <3> QED
      BY <1>1, <3>1 DEF Announced
  <2> QED
    BY <2>3, <2>4, <2>5, Zenon DEF Announced
<1> QED
  BY <1>4, <1>5, <1>6, Zenon DEF UnsealInv

LEMMA CallersInv ==
    ASSUME UnsealInv,
           \/ \E o \in Operators : secretInjectorHandler(o)
           \/ unseal \/ isUnsealed
           \/ \E c \in {Aws, Unlocker} : Wake(c)
    PROVE  UnsealInv'
<1> USE Names
<1>1. UnsealTypeOK /\ Places /\ password \in [Callers -> Secrets]
  BY Zenon DEF UnsealInv, UnsealTypeOK
<1>2. ASSUME NEW o \in Operators, secretInjectorHandler(o) PROVE UnsealInv'
  <2>1. /\ pc[o] = "idle" /\ Move(o, "lock") /\ main \in {"waiting", "starting", "serving"}
        /\ UNCHANGED <<configVars, restarts, main, mutex, signerVars, ClientCAPool>>
    BY <1>2, Zenon DEF secretInjectorHandler, AdminUp
  <2>2. PICK p \in Secrets : password' = [password EXCEPT ![o] = p]
    BY <1>2, Zenon DEF secretInjectorHandler
  <2>3. password' \in [Callers -> Secrets]
    BY <1>1, <2>2
  <2>4. UnsealTypeOK'
    BY <1>1, <2>1, <2>3, MovedType
  <2> QED
    BY <2>1, <2>4, OutsideInv DEF Holding
<1>3. ASSUME unseal PROVE UnsealInv'
  <2>1. /\ pc[Unlocker] = "idle"
        /\ UNCHANGED <<configVars, restarts, main, mutex, signerVars, ClientCAPool>>
    BY <1>3, Zenon DEF unseal
  <2>2. PICK to \in {"lock", "sleep"} :
           /\ Move(Unlocker, to)
           /\ to = "lock" => main \in {"waiting", "starting", "serving"}
    BY <1>3, Zenon DEF unseal, AdminUp
  <2>3. password' \in [Callers -> Secrets]
    <3>1. unlockerPassword \in Secrets
      BY <1>1, Zenon DEF UnsealTypeOK
    <3>2. password' = password \/ password' = [password EXCEPT ![Unlocker] = unlockerPassword]
      BY <1>3, Zenon DEF unseal
    <3> QED
      BY <1>1, <3>1, <3>2
  <2>4. UnsealTypeOK'
    BY <1>1, <2>1, <2>2, <2>3, MovedType
  <2> QED
    BY <2>1, <2>2, <2>4, OutsideInv DEF Holding
<1>4. ASSUME isUnsealed PROVE UnsealInv'
  <2>1. /\ pc[Aws] = "check"
        /\ UNCHANGED <<configVars, restarts, main, mutex, signerVars, ClientCAPool>>
    BY <1>4, Zenon DEF isUnsealed
  <2>2. PICK to \in {"lock", "sleep", "end"} : Move(Aws, to) /\ (to = "end" => Signer)
    BY <1>4, Zenon DEF isUnsealed
  <2>3. password' \in [Callers -> Secrets]
    <3>1. password' = password \/ \E p \in Secrets : password' = [password EXCEPT ![Aws] = p]
      BY <1>4, Zenon DEF isUnsealed
    <3> QED
      BY <1>1, <3>1
  <2>4. UnsealTypeOK'
    BY <1>1, <2>1, <2>2, <2>3, MovedType
  <2>5. main \in {"setup", "waiting", "starting", "serving"}
    BY <1>1, <2>1 DEF Places
  <2> QED
    BY <2>1, <2>2, <2>4, <2>5, OutsideInv DEF Holding
<1>5. ASSUME NEW c \in {Aws, Unlocker}, Wake(c) PROVE UnsealInv'
  <2>1. /\ pc[c] = "sleep" /\ c \in Callers
        /\ UNCHANGED <<configVars, restarts, main, mutex, signerVars, ClientCAPool, password>>
    BY <1>5, Zenon DEF Wake
  <2>2. PICK to \in {"check", "idle"} : Move(c, to) /\ (to = "check" => c = Aws)
    BY <1>5, Zenon DEF Wake
  <2>3. UnsealTypeOK'
    BY <1>1, <2>1, <2>2, MovedType
  <2> QED
    BY <2>1, <2>2, <2>3, OutsideInv DEF Holding
<1> QED
  BY <1>2, <1>3, <1>4, <1>5, Zenon

(* main tries to load the keys in plain PEM: everything at once. *)
LEMMA LoadPemInv ==
    ASSUME UnsealInv, tryLoadAndVerifySigners PROVE UnsealInv'
<1> USE Names DEF UnsealInv
<1>1. /\ main = "signers" /\ ~Signer /\ ~Ed25519Signer /\ pc[Aws] = "idle"
      /\ \A c \in Callers : pc[c] \notin Holding \cup {"lock"}
  BY DEF tryLoadAndVerifySigners, Places
<1>2. UNCHANGED <<configVars, restarts, mutex, ClientCAPool, password>>
  BY DEF tryLoadAndVerifySigners
<1>3. CASE files.ca = "armored"
  <2>1. main' = "setup" /\ UNCHANGED signerVars
    BY <1>3 DEF tryLoadAndVerifySigners
  <2>2. PICK to \in {"check", "end"} : Move(Aws, to) /\ (to = "end" => auto # "configured")
    BY <1>3 DEF tryLoadAndVerifySigners
  <2>3. DOMAIN pc' = Callers /\ pc'[Aws] = to /\ \A d \in Callers \ {Aws} : pc'[d] = pc[d]
    BY <2>2, Moved
  <2>4. UnsealTypeOK'
    BY SMTT(30), <1>2, <2>1, <2>3 DEF UnsealTypeOK, InUnsealCA, configVars, signerVars
  <2>5. Places'
    <3>1. \A c \in Callers : pc'[c] \notin Holding \cup {"lock"}
      BY <1>1, <2>3 DEF Holding
    <3>2. \A c \in Callers : mutex' # c
      <4>1. mutex' = mutex /\ Places
        BY <1>2, Zenon
      <4> QED
        BY <1>1, <4>1, Zenon DEF Places
    <3>3. main' = "setup" /\ main' \notin {"loading", "signers"}
      BY <2>1
    <3> QED
      BY <3>1, <3>2, <3>3, Zenon DEF Places
  <2>6. Assigned'
    <3>1. \A c \in Callers : pc'[c] \notin {"ed25519", "signer", "keys", "send"}
      BY <1>1, <2>3 DEF Holding
    <3>2. Signer' = Signer /\ Ed25519Signer' = Ed25519Signer /\ caCertDer' = caCertDer
      BY <2>1, Zenon DEF signerVars
    <3>3. caCertDer = Signer
      BY Zenon DEF Assigned
    <3>4. ~Signer' /\ ~Ed25519Signer' /\ caCertDer' = Signer'
      BY <1>1, <3>2, <3>3, Zenon
    <3> QED
      BY <3>1, <3>4, Zenon DEF Assigned
  <2>7. Announced'
    BY <1>1, <1>2, <2>1, <2>2, <2>3 DEF Announced, Complete, configVars, signerVars
  <2> QED BY <2>4, <2>5, <2>6, <2>7
<1>4. CASE files.ca # "armored" /\ (files.ed = "notEd25519" \/ files.caKey = "bad")
  <2>1. /\ main' = "exited"
        /\ UNCHANGED <<Signer, caCertDer, KeymasterPublicKeys, SignerIsReady, pc>>
    BY <1>4 DEF tryLoadAndVerifySigners
  <2>2. Ed25519Signer' = (files.ed # "notEd25519" /\ files.ed # "none")
    BY <1>4 DEF tryLoadAndVerifySigners
  <2>3. Ed25519Signer' \in BOOLEAN
    BY <2>2, Zenon
  <2>4. UnsealTypeOK'
    BY <1>2, <2>1, <2>3 DEF UnsealTypeOK, configVars
  <2>5. Places'
    BY <1>1, <1>2, <2>1 DEF Places, Holding
  <2>6. Ed25519Signer' => files.caKey = "bad"
    BY <1>4, <2>2, Zenon
  <2>7. Assigned'
    BY <1>1, <1>2, <2>1, <2>6 DEF Assigned, Complete, Holding, configVars
  <2>8. Announced'
    BY <1>1, <1>2, <2>1 DEF Announced, Complete, configVars
  <2> QED BY <2>4, <2>5, <2>7, <2>8
<1>5. CASE files.ca # "armored" /\ ~(files.ed = "notEd25519" \/ files.caKey = "bad")
  <2>1. /\ main' = "setup" /\ SignerIsReady' = 1
        /\ KeymasterPublicKeys' = KeymasterPublicKeys \cup {"signer"}
        /\ UNCHANGED pc
    BY <1>5 DEF tryLoadAndVerifySigners
  <2>2. Signer' = TRUE /\ caCertDer' = TRUE /\ Ed25519Signer' = (files.ed # "none")
    BY <1>5 DEF tryLoadAndVerifySigners
  <2>3. /\ Signer' \in BOOLEAN /\ caCertDer' \in BOOLEAN /\ Ed25519Signer' \in BOOLEAN
        /\ caCertDer' = Signer' /\ Signer'
    BY <2>2, Zenon
  <2>4. files.ed # "none" => Ed25519Signer'
    BY <2>2, Zenon
  <2>5. UnsealTypeOK'
    BY <1>2, <2>1, <2>3 DEF UnsealTypeOK, configVars
  <2>6. Complete'
    BY <1>2, <2>1, <2>3, <2>4 DEF Complete, configVars
  <2>7. Places'
    BY <1>1, <1>2, <2>1 DEF Places, Holding
  <2>8. Assigned'
    BY <1>1, <1>2, <2>1, <2>3, <2>6 DEF Assigned, Holding
  <2>9. Announced'
    BY <1>1, <1>2, <2>1, <2>6 DEF Announced
  <2> QED BY <2>5, <2>7, <2>8, <2>9
<1> QED BY <1>3, <1>4, <1>5

LEMMA DaemonInv == ASSUME UnsealInv, Daemon PROVE UnsealInv'
<1> USE Names DEF UnsealInv
<1>1. ASSUME loadVerifyConfigFile PROVE UnsealInv'
  <2> USE <1>1 DEF loadVerifyConfigFile
  <2>1. CASE Stop("exited")
    BY <2>1, StopInv DEF UnsealTypeOK
  <2>2. CASE ~Stop("exited")
    <3>1. /\ main = "loading" /\ main' = "signers" /\ KeymasterPublicKeys' = {"fromFile"}
          /\ UNCHANGED <<configVars, restarts, mutex, Signer, Ed25519Signer, caCertDer,
                         SignerIsReady, ClientCAPool, pc, password>>
      BY <2>2
    <3>2. ~Signer /\ ~Ed25519Signer /\ \A c \in Callers : pc[c] \notin Holding \cup {"lock"}
      BY SMTT(30), <3>1 DEF Places
    <3>3. UnsealTypeOK'
      BY <3>1 DEF UnsealTypeOK, configVars
    <3>4. Places'
      BY SMTT(30), <3>1, <3>2 DEF Places, Holding
    <3>5. Assigned' /\ Announced'
      BY <3>1, <3>2 DEF Assigned, Announced, Complete, Holding, configVars
    <3> QED BY <3>3, <3>4, <3>5
  <2> QED BY SMTT(30), <2>1, <2>2
<1>2. ASSUME FinishSetup PROVE UnsealInv'
  <2> USE <1>2 DEF FinishSetup
  <2>1. CASE Stop("exited")
    BY <2>1, StopInv, Zenon DEF UnsealTypeOK
  <2>2. CASE ~Stop("exited")
    <3>1. /\ main = "setup" /\ main' = "waiting"
          /\ UNCHANGED <<configVars, restarts, mutex, signerVars, ClientCAPool, pc, password>>
      BY SMTT(30), <2>2
    <3>2. UnsealTypeOK'
      BY <3>1 DEF UnsealTypeOK, configVars, signerVars
    <3>3. Places'
      BY SMTT(30), <3>1 DEF Places, Holding, signerVars
    <3>4. Assigned' /\ Announced'
      BY <3>1 DEF Assigned, Announced, Complete, configVars, signerVars
    <3> QED BY <3>2, <3>3, <3>4
  <2> QED BY SMTT(30), <2>1, <2>2
<1>3. ASSUME ReceiveReady PROVE UnsealInv'
  <2> USE <1>3 DEF ReceiveReady
  <2>1. UnsealTypeOK'
    BY DEF UnsealTypeOK, configVars
  <2>2. Places'
    BY DEF Places, Holding
  <2>3. Complete'
    BY SMTT(30) DEF Announced, Complete, configVars
  <2>4. Assigned' /\ Announced'
    BY <2>3 DEF Assigned, Announced, Complete, configVars
  <2> QED BY SMTT(30), <2>1, <2>2, <2>4
<1>4. ASSUME Serve PROVE UnsealInv'
  <2> USE <1>4 DEF Serve
  <2>1. caCertDer /\ Complete
    BY DEF Announced, Assigned, Complete
  <2>2. main' = "serving" /\ ClientCAPool' = caCertDer
    BY <2>1
  <2>3. ClientCAPool' \in BOOLEAN /\ ClientCAPool'
    <3>1. caCertDer \in BOOLEAN
      BY DEF UnsealTypeOK
    <3> HIDE DEF Serve, UnsealInv
    <3> QED BY <2>1, <2>2, <3>1
  <2>4. UnsealTypeOK'
    BY <2>2, <2>3 DEF UnsealTypeOK, configVars, signerVars
  <2>5. Places'
    BY SMTT(30), <2>2 DEF Places, Holding, signerVars
  <2>6. Assigned' /\ Announced'
    BY <2>1, <2>2, <2>3 DEF Assigned, Announced, Complete, configVars, signerVars
  <2> QED BY <2>4, <2>5, <2>6
<1> QED BY <1>1, <1>2, <1>3, <1>4, LoadPemInv DEF Daemon

LEMMA NextUnsealInv == UnsealInv /\ [UnsealNext]_unsealVars => UnsealInv'
<1> SUFFICES ASSUME UnsealInv, [UnsealNext]_unsealVars PROVE UnsealInv'
  OBVIOUS
<1>1. CASE Daemon
  BY <1>1, DaemonInv
<1>2. ASSUME NEW c \in Callers, unsealCA(c) PROVE UnsealInv'
  BY <1>2, LockInv, DecryptInv, LoadEd25519Inv, LoadSignerInv, KeysInv, SendInv, Zenon DEF unsealCA
<1>3. CASE Restart
  <2>1. restarts \in 0 .. MaxRestarts
    BY Zenon DEF UnsealInv, UnsealTypeOK
  <2>2. restarts < MaxRestarts /\ restarts' = restarts + 1 /\ Stop("loading")
    BY <1>3, Zenon DEF Restart
  <2>3. restarts' \in 0 .. MaxRestarts
    BY <2>1, <2>2, UnsealAssumption
  <2> QED
    BY <2>2, <2>3, StopInv, Zenon
<1>4. CASE UNCHANGED unsealVars
  <2> USE <1>4 DEF unsealVars, configVars, signerVars, UnsealInv
  <2>1. UnsealTypeOK'
    BY DEF UnsealTypeOK
  <2>2. Places'
    BY SMTT(30) DEF Places
  <2>3. Assigned' /\ Announced'
    BY DEF Assigned, Announced, Complete
  <2> QED BY <2>1, <2>2, <2>3
<1> QED BY <1>1, <1>2, <1>3, <1>4, CallersInv DEF UnsealNext

-----------------------------------------------------------------------------
(* UnsealInv holds of every state that is reached. *)
THEOREM UnsealInvariance == UnsealSpec => []UnsealInv
BY InitUnsealInv, NextUnsealInv, PTL DEF UnsealSpec

(***************************************************************************)
(* The variables of the daemon and of the callers of unsealCA always have  *)
(* their types; in particular SignerIsReady holds one message at most.     *)
(***************************************************************************)
THEOREM UnsealTypeCorrect == UnsealSpec => []UnsealTypeOK
<1>1. UnsealInv => UnsealTypeOK
  BY DEF UnsealInv
<1> QED BY <1>1, UnsealInvariance, PTL

(***************************************************************************)
(* unsealCA never waits for room in SignerIsReady with the mutex held,     *)
(* however many operators inject passwords and however often the daemon is *)
(* started again.                                                          *)
(***************************************************************************)
THEOREM SendFree == UnsealSpec => []SendNeverBlocks
<1>1. UnsealInv => SendNeverBlocks
  BY DEF UnsealInv, Assigned, SendNeverBlocks
<1> QED BY <1>1, UnsealInvariance, PTL

(***************************************************************************)
(* When nobody is in unsealCA the signers are all there or none is, except *)
(* for the Ed25519 signer beside a CA key that cannot be used              *)
(* (loadSignersFromPemData).                                               *)
(***************************************************************************)
THEOREM SignersTogether == UnsealSpec => []AllSignersOrNone
<1>1. UnsealInv => AllSignersOrNone
  <2> SUFFICES ASSUME UnsealInv, mutex = Nobody PROVE AllSignersOrNone
    BY DEF AllSignersOrNone
  <2>1. \A c \in Callers : pc[c] \notin Holding
    BY Names DEF UnsealInv, Places
  <2> QED BY <2>1 DEF UnsealInv, Assigned, Complete, Holding, AllSignersOrNone
<1> QED BY <1>1, UnsealInvariance, PTL

(***************************************************************************)
(* main serves users only with all that its handlers read (main after      *)
(* SignerIsReady).                                                         *)
(***************************************************************************)
THEOREM CompleteService == UnsealSpec => []ServingIsComplete
<1>1. UnsealInv => ServingIsComplete
  BY DEF UnsealInv, Assigned, Announced, Complete, ServingIsComplete
<1> QED BY <1>1, UnsealInvariance, PTL

(***************************************************************************)
(* The AWS loop ends only when the daemon has its signer                   *)
(* (autoUnsealAwsLoop).                                                    *)
(***************************************************************************)
THEOREM LoopEnds == UnsealSpec => []LoopEndsUnsealed
<1>1. UnsealInv => LoopEndsUnsealed
  BY DEF UnsealInv, Announced, LoopEndsUnsealed
<1> QED BY <1>1, UnsealInvariance, PTL

-----------------------------------------------------------------------------
(***************************************************************************)
(* The message to main, step by step: until main has it, it is in the      *)
(* channel or the caller that has loaded the signer is about to send it.   *)
(***************************************************************************)
Told ==
    Signer /\ main \in {"setup", "waiting"} =>
        SignerIsReady = 1 \/ \E c \in Callers : pc[c] \in {"keys", "send"}

(* A step of a caller that neither loads a signer nor is about to send. *)
LEMMA ToldKept ==
    ASSUME UnsealInv, Told, NEW c \in Callers, NEW to, Move(c, to),
           pc[c] \notin {"keys", "send"}, UNCHANGED <<main, Signer, SignerIsReady>>
    PROVE  Told'
<1>1. \A d \in Callers \ {c} : pc'[d] = pc[d]
  BY Moved DEF UnsealInv
<1>2. ASSUME NEW d \in Callers, pc[d] \in {"keys", "send"} PROVE pc'[d] \in {"keys", "send"}
  <2>1. d # c
    BY <1>2, Zenon
  <2> QED
    BY <1>1, <1>2, <2>1, Zenon
<1> QED
  BY <1>2, Zenon DEF Told

LEMMA ToldStep == UnsealInv /\ Told /\ [UnsealNext]_unsealVars => Told'
<1> SUFFICES ASSUME UnsealInv, Told, [UnsealNext]_unsealVars PROVE Told'
  OBVIOUS
<1>1. CASE Daemon
  <2>1. main \in {"loading", "signers"} => ~Signer
    BY Zenon DEF UnsealInv, Places
  <2>2. CASE loadVerifyConfigFile
    <3>1. main' \in {"signers", "exited"}
      BY <2>2, Zenon DEF loadVerifyConfigFile, Stop
    <3> QED BY <3>1 DEF Told
  <2>3. CASE tryLoadAndVerifySigners
    <3>1. \/ UNCHANGED signerVars /\ main = "signers"
          \/ main' = "exited"
          \/ SignerIsReady' = 1
      BY <2>3, Zenon DEF tryLoadAndVerifySigners
    <3> QED BY <2>1, <3>1, Zenon DEF Told, signerVars
  <2>4. CASE FinishSetup
    <3>1. \/ main = "setup" /\ UNCHANGED <<signerVars, pc>>
          \/ main' = "exited"
      BY <2>4, Zenon DEF FinishSetup, Stop
    <3> QED BY <3>1, Zenon DEF Told, signerVars
  <2>5. CASE ReceiveReady \/ Serve
    <3>1. main' \in {"starting", "serving", "exited"}
      BY <2>5, Zenon DEF ReceiveReady, Serve
    <3> QED BY <3>1 DEF Told
  <2> QED BY <1>1, <2>2, <2>3, <2>4, <2>5 DEF Daemon
<1>2. ASSUME NEW c \in Callers, unsealCA(c) PROVE Told'
  <2>1. CASE Lock(c)
    <3>1. pc[c] = "lock" /\ Move(c, "decrypt") /\ UNCHANGED <<main, Signer, SignerIsReady>>
      BY <2>1, Zenon DEF Lock, signerVars
    <3> QED BY <3>1, ToldKept
  <2>2. CASE Decrypt(c)
    <3>1. pc[c] = "decrypt" /\ UNCHANGED <<main, Signer, SignerIsReady>>
      BY <2>2, Zenon DEF Decrypt, signerVars
    <3>2. \E to : Move(c, to)
      BY <2>2, Zenon DEF Decrypt, UnsealReturn
    <3> QED BY <3>1, <3>2, ToldKept
  <2>3. CASE LoadEd25519(c)
    <3>1. pc[c] = "ed25519" /\ UNCHANGED <<main, Signer, SignerIsReady>>
      BY <2>3, Zenon DEF LoadEd25519
    <3>2. \E to : Move(c, to)
      BY <2>3, Zenon DEF LoadEd25519, UnsealReturn
    <3> QED BY <3>1, <3>2, ToldKept
  <2>4. CASE LoadSigner(c)
    <3>1. CASE Move(c, "keys")
      <4>1. pc'[c] = "keys"
        BY <3>1, Moved DEF UnsealInv
      <4> QED BY <4>1 DEF Told
    <3>2. CASE UnsealReturn(c, FALSE) /\ UNCHANGED <<Signer, caCertDer>>
      <4>1. pc[c] = "signer" /\ UNCHANGED <<main, Signer, SignerIsReady>>
        BY <2>4, <3>2, Zenon DEF LoadSigner
      <4>2. \E to : Move(c, to)
        BY <3>2, Zenon DEF UnsealReturn
      <4> QED BY <4>1, <4>2, ToldKept
    <3> QED BY <2>4, <3>1, <3>2, Zenon DEF LoadSigner
  <2>5. CASE signerPublicKeyToKeymasterKeys(c)
    <3>1. Move(c, "send")
      BY <2>5, Zenon DEF signerPublicKeyToKeymasterKeys
    <3>2. pc'[c] = "send"
      BY <3>1, Moved DEF UnsealInv
    <3> QED BY <3>2 DEF Told
  <2>6. CASE SendReady(c)
    <3>1. SignerIsReady' = 1
      BY <2>6, Zenon DEF SendReady
    <3> QED BY <3>1 DEF Told
  <2> QED BY <1>2, <2>1, <2>2, <2>3, <2>4, <2>5, <2>6 DEF unsealCA
<1>3. ASSUME NEW o \in Operators, secretInjectorHandler(o) PROVE Told'
  <2>1. pc[o] = "idle" /\ Move(o, "lock") /\ UNCHANGED <<main, Signer, SignerIsReady>>
    BY <1>3, Zenon DEF secretInjectorHandler, signerVars
  <2>2. o \in Callers
    BY DEF Callers
  <2> QED BY <2>1, <2>2, ToldKept
<1>4. CASE unseal
  <2>1. pc[Unlocker] = "idle" /\ UNCHANGED <<main, Signer, SignerIsReady>>
    BY <1>4, Zenon DEF unseal, signerVars
  <2>2. \E to : Move(Unlocker, to)
    BY <1>4, Zenon DEF unseal
  <2> QED BY <2>1, <2>2, ToldKept DEF Callers
<1>5. CASE isUnsealed
  <2>1. pc[Aws] = "check" /\ UNCHANGED <<main, Signer, SignerIsReady>>
    BY <1>5, Zenon DEF isUnsealed, signerVars
  <2>2. \E to : Move(Aws, to)
    BY <1>5, Zenon DEF isUnsealed
  <2> QED BY <2>1, <2>2, ToldKept DEF Callers
<1>6. ASSUME NEW c \in {Aws, Unlocker}, Wake(c) PROVE Told'
  <2>1. pc[c] = "sleep" /\ UNCHANGED <<main, Signer, SignerIsReady>>
    BY <1>6, Zenon DEF Wake, signerVars
  <2>2. \E to : Move(c, to)
    BY <1>6, Zenon DEF Wake
  <2> QED BY <2>1, <2>2, ToldKept DEF Callers
<1>7. CASE Restart
  <2>1. main' = "loading"
    BY <1>7, Zenon DEF Restart, Stop
  <2> QED BY <2>1 DEF Told
<1>8. CASE UNCHANGED unsealVars
  BY <1>8, Zenon DEF Told, unsealVars, signerVars
<1> QED BY <1>1, <1>2, <1>3, <1>4, <1>5, <1>6, <1>7, <1>8 DEF UnsealNext

(***************************************************************************)
(* main is never left to wait for a message that was sent too early or to  *)
(* nobody: with a signer, a free mutex and main on its way to the channel, *)
(* the message is there (unsealCA, autoUnsealAwsLoop and main).            *)
(***************************************************************************)
THEOREM NoLostWakeup == UnsealSpec => []SignerIsAnnounced
<1>1. UnsealInit => Told
  BY DEF UnsealInit, Told
<1>2. UnsealInv /\ Told => SignerIsAnnounced
  <2> SUFFICES ASSUME UnsealInv, Told, mutex = Nobody PROVE SignerIsAnnounced
    BY DEF SignerIsAnnounced
  <2>1. \A c \in Callers : pc[c] \notin Holding
    BY Names DEF UnsealInv, Places
  <2> QED BY <2>1 DEF Told, Holding, SignerIsAnnounced
<1> QED BY <1>1, <1>2, ToldStep, UnsealInvariance, PTL DEF UnsealSpec
=============================================================================
