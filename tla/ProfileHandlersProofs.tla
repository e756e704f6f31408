----------------------- MODULE ProfileHandlersProofs -----------------------
(***************************************************************************)
(* Proofs about ProfileHandlers, for all users, requests and bounds.       *)
(***************************************************************************)
EXTENDS ProfileHandlers, TLAPS

-----------------------------------------------------------------------------
(***************************************************************************)
(* The inductive invariant.  Good is what every profile there is has, and  *)
(* RequestInv what a request in progress knows: only a profile that was    *)
(* read from the primary is saved; as long as the row has not changed, a   *)
(* loaded copy equals it and a copy about to be saved keeps what it must;  *)
(* an OTP about to be granted has been cleared from the copy.              *)
(***************************************************************************)
Good(u, profile) == Consistent(profile) /\ Owned(issued, u, profile)

(* v was accepted as an OTP of u, on whose row no stale save ever landed. *)
Spent(u, v) ==
    /\ accepted[v] # "never"
    /\ issued[v].user = u
    /\ u \notin overlapped

Unspent(u, profile) ==
    \A v \in Random : Spent(u, v) => profile.BootstrapOTP.Sha512Hash # Sha512(v)

(* q works on the row as it still is in the primary database. *)
InSync(q) == q.pc # "idle" /\ ~q.fromCache /\ ~q.stale

GrantInv(q) ==
    q.grant # None =>
        /\ q.pc = "saving"
        /\ issued[q.grant] = [user |-> q.user, purpose |-> "otp"]
        /\ q.profile.BootstrapOTP.Sha512Hash = None

RequestInv(q) ==
    /\ Good(q.user, q.profile)
    /\ q.pc = "saving" => ~q.fromCache
    /\ GrantInv(q)
    /\ InSync(q) =>
         /\ q.pc = "loaded" => q.profile = Loaded(db[q.user])
         /\ q.pc = "saving" => KeepsRow(q, Loaded(db[q.user]), q.profile)
         /\ Unspent(q.user, q.profile)
         /\ \A v \in Random : Spent(q.user, v) => q.grant # v

RowsInv ==
    \A u \in Users :
        /\ Good(u, Loaded(db[u]))
        /\ Good(u, Loaded(cache[u]))
        /\ copy # NoCopy => Good(u, Loaded(copy[u]))
        /\ Unspent(u, Loaded(db[u]))

HistoryInv ==
    /\ \A v \in Random : v > drawn => issued[v].purpose = "none"
    /\ \A v \in Random : accepted[v] # "never" => issued[v].purpose = "otp"
    /\ OtpAcceptedOnce

Inv ==
    /\ TypeOK
    /\ RowsInv
    /\ \A r \in Requests : RequestInv(req[r])
    /\ HistoryInv

-----------------------------------------------------------------------------

(* AnyUser is a user, and what an idle request holds has its type. *)
LEMMA DefaultProfileType == defaultProfile \in userProfile
BY DEF defaultProfile, userProfile, Unregistered, AuthDataMap, AuthData,
       NoBootstrapOTP, bootstrapOTPData, None

LEMMA IdleType == ASSUME NEW u \in Users PROVE Idle(u) \in RequestState
BY DefaultProfileType, UserProfileAssumption
   DEF Idle, RequestState, Times, None

LEMMA AnyUserType == AnyUser \in Users
BY UserProfileAssumption DEF AnyUser

(* The profile LoadUserProfile returns has its type. *)
LEMMA LoadedType == ASSUME NEW row \in Rows PROVE Loaded(row) \in userProfile
BY DefaultProfileType DEF Loaded, Rows

(* A profile is never taken for a missing row. *)
LEMMA ProfileIsRow ==
    ASSUME NEW p \in userProfile PROVE p \in Rows /\ p # NoRow /\ Loaded(p) = p
<1>1. DOMAIN p # DOMAIN NoRow
  <2>1. "row" \in DOMAIN NoRow
    BY DEF NoRow
  <2>2. "row" \notin DOMAIN p
    BY DEF userProfile
  <2> QED BY <2>1, <2>2
<1> QED BY <1>1 DEF Rows, Loaded

(* Sha512 maps a random value to a hash, and distinct ones to distinct ones. *)
LEMMA Sha512Type == ASSUME NEW v \in Random PROVE Sha512(v) \in Hashes
BY DEF Hashes

LEMMA Sha512Injective ==
    ASSUME NEW v \in Random, NEW w \in Random, Sha512(v) = Sha512(w)
    PROVE  v = w
BY UserProfileAssumption DEF Sha512, Random

(* What enrolment and the token manager make of a token map is a token map. *)
LEMMA EnrolType ==
    ASSUME NEW tokens \in AuthDataMap, NEW i \in Times, NEW key \in Random
    PROVE  Enrol(tokens, i, key) \in AuthDataMap
BY DEF Enrol, AuthDataMap, AuthData

LEMMA ManagedType ==
    ASSUME NEW tokens \in AuthDataMap, NEW i \in Times,
           NEW name \in ActionNames
    PROVE  ManagedTo(tokens, i, name) \in AuthDataMap
BY Zenon DEF ManagedTo, AuthDataMap, AuthData, ActionNames, Unregistered, None

(* The profile of a user without a row is good. *)
LEMMA DefaultProfileGood ==
    ASSUME NEW u \in Users
    PROVE  Good(u, defaultProfile) /\ Unspent(u, defaultProfile)
<1>1. Registered(defaultProfile.U2fAuthData) = {}
      /\ Registered(defaultProfile.TOTPAuthData) = {}
  BY DEF Registered, defaultProfile, Unregistered
<1>2. Consistent(defaultProfile)
  BY <1>1 DEF Consistent, DistinctKeys, HasTokens
<1>3. Owned(issued, u, defaultProfile)
  BY <1>1 DEF Owned, KeysFrom, defaultProfile, NoBootstrapOTP
<1>4. ASSUME NEW v \in Random PROVE Sha512(v) # None
  BY UserProfileAssumption DEF Random, Sha512, None
<1> QED BY <1>2, <1>3, <1>4 DEF Good, Unspent, defaultProfile, NoBootstrapOTP

-----------------------------------------------------------------------------
(***************************************************************************)
(* Steps that leave the databases and the OTP history alone, and at most   *)
(* draw a random value.                                                    *)
(***************************************************************************)
Quiet(r) ==
    /\ UNCHANGED <<storeVars, accepted, overlapped>>
    /\ \/ UNCHANGED <<drawn, issued>>
       \/ \E purpose \in Purposes \ {"none"} : Draw(r, purpose)

(* A draw only touches a value that had no purpose yet. *)
LEMMA QuietIssued ==
    ASSUME Inv, NEW r \in Requests, Quiet(r),
           NEW v \in Random, issued[v].purpose # "none"
    PROVE  issued'[v] = issued[v]
<1>1. CASE UNCHANGED issued BY <1>1
<1>2. ASSUME NEW purpose \in Purposes, Draw(r, purpose)
      PROVE  issued'[v] = issued[v]
  <2>1. drawn \in Nat /\ drawn' = drawn + 1 /\ v \in Nat
    BY <1>2 DEF Draw, Inv, TypeOK, Random
  <2>2. ~(v > drawn)
    BY DEF Inv, HistoryInv
  <2>3. v # drawn'
    BY <2>1, <2>2
  <2> QED BY <2>3, <1>2 DEF Draw, Inv, TypeOK
<1> QED BY <1>1, <1>2 DEF Quiet

LEMMA QuietGood ==
    ASSUME Inv, NEW r \in Requests, Quiet(r),
           NEW u \in Users, NEW profile \in userProfile, Good(u, profile)
    PROVE  Good(u, profile)'
<1>1. ASSUME NEW purpose \in {"challenge", "secret", "otp"}
      PROVE  DrawnFor(issued, u, purpose) \subseteq DrawnFor(issued', u, purpose)
  <2> SUFFICES ASSUME NEW v \in DrawnFor(issued, u, purpose)
               PROVE  v \in DrawnFor(issued', u, purpose)
    OBVIOUS
  <2>1. v \in Random /\ issued[v] = [user |-> u, purpose |-> purpose]
    BY DEF DrawnFor
  <2>2. issued[v].purpose # "none"
    BY <2>1
  <2> QED BY <2>1, <2>2, QuietIssued DEF DrawnFor
<1>2. Owned(issued', u, profile)
  BY <1>1 DEF Good, Owned, KeysFrom
<1> QED BY <1>2 DEF Good

LEMMA QuietSpent ==
    ASSUME Inv, NEW r \in Requests, Quiet(r), NEW u \in Users, NEW v \in Random
    PROVE  Spent(u, v)' <=> Spent(u, v)
<1>1. accepted[v] # "never" => issued[v].purpose # "none"
  BY DEF Inv, HistoryInv
<1>2. accepted' = accepted /\ overlapped' = overlapped
  BY DEF Quiet
<1> QED BY <1>1, <1>2, QuietIssued DEF Spent

(* What a request knows stays true in a quiet step. *)
LEMMA QuietRequest ==
    ASSUME Inv, NEW r \in Requests, Quiet(r),
           NEW q \in RequestState, RequestInv(q)
    PROVE  RequestInv(q)'
<1>1. q.user \in Users /\ q.profile \in userProfile
      /\ q.grant \in Random \cup {None}
  BY DEF RequestState
<1>2. Good(q.user, q.profile)'
  BY <1>1, QuietGood DEF RequestInv
<1>3. GrantInv(q)'
  BY <1>1, QuietIssued DEF RequestInv, GrantInv
<1>4. db' = db
  BY DEF Quiet, storeVars
<1>5. \A v \in Random : Spent(q.user, v)' <=> Spent(q.user, v)
  BY <1>1, QuietSpent
<1> QED BY <1>2, <1>3, <1>4, <1>5 DEF RequestInv, Unspent

LEMMA QuietRest ==
    ASSUME Inv, NEW r \in Requests, Quiet(r)
    PROVE  RowsInv' /\ HistoryInv' /\ drawn' \in 0 .. MaxRandom
           /\ issued' \in [Random -> [user : Users, purpose : Purposes]]
<1>1. db' = db /\ cache' = cache /\ copy' = copy
      /\ accepted' = accepted /\ overlapped' = overlapped
  BY DEF Quiet, storeVars
<1>2. RowsInv'
  <2>1. ASSUME NEW u \in Users
        PROVE  /\ Loaded(db[u]) \in userProfile
               /\ Loaded(cache[u]) \in userProfile
               /\ copy # NoCopy => Loaded(copy[u]) \in userProfile
    BY LoadedType DEF Inv, TypeOK, StoreTypeOK
  <2> QED BY <1>1, <2>1, QuietGood, QuietSpent DEF Inv, RowsInv, Unspent
<1>3. drawn' \in 0 .. MaxRandom
      /\ issued' \in [Random -> [user : Users, purpose : Purposes]]
  <2>1. CASE UNCHANGED <<drawn, issued>> BY <2>1 DEF Inv, TypeOK
  <2>2. ASSUME NEW purpose \in Purposes, Draw(r, purpose)
        PROVE  <1>3
    <3>1. drawn' \in Random /\ drawn' \in 0 .. MaxRandom
      BY <2>2, UserProfileAssumption DEF Draw, Inv, TypeOK, Random
    <3>2. req[r].user \in Users
      BY DEF Inv, TypeOK, RequestState
    <3>3. [user |-> req[r].user, purpose |-> purpose]
            \in [user : Users, purpose : Purposes]
      BY <3>2
    <3> QED BY <2>2, <3>1, <3>3 DEF Draw, Inv, TypeOK
  <2> QED BY <2>1, <2>2 DEF Quiet
<1>4. HistoryInv'
  <2>1. \A v \in Random : v > drawn' => issued'[v].purpose = "none"
    <3>1. CASE UNCHANGED <<drawn, issued>> BY <3>1 DEF Inv, HistoryInv
    <3>2. ASSUME NEW purpose \in Purposes, Draw(r, purpose)
          PROVE  <2>1
      BY <3>2 DEF Draw, Inv, HistoryInv, TypeOK, Random
    <3> QED BY <3>1, <3>2 DEF Quiet
  <2>2. \A v \in Random : accepted[v] # "never" => issued'[v] = issued[v]
    BY QuietIssued DEF Inv, HistoryInv
  <2> QED BY <1>1, <2>1, <2>2 DEF Inv, HistoryInv, OtpAcceptedOnce
<1> QED BY <1>2, <1>3, <1>4

(* A quiet step that only changes the state of request r. *)
LEMMA QuietStep ==
    ASSUME Inv, NEW r \in Requests, Quiet(r), now' = now,
           NEW q \in RequestState,
           req' = [req EXCEPT ![r] = q],
           RequestInv(q)'
    PROVE  Inv'
<1>1. TypeOK'
  <2>1. StoreTypeOK' /\ accepted' = accepted /\ overlapped' = overlapped
    BY DEF Inv, TypeOK, StoreTypeOK, Quiet, storeVars
  <2> QED BY <2>1, QuietRest DEF Inv, TypeOK
<1>2. ASSUME NEW s \in Requests PROVE RequestInv(req[s])'
  <2>1. CASE s = r
    <3>1. req'[s] = q
      BY SMTT(30), <2>1 DEF Inv, TypeOK
    <3> QED BY <3>1 DEF RequestInv, Good, GrantInv, InSync, Unspent, Spent
  <2>2. CASE s # r
    <3>1. req'[s] = req[s] /\ req[s] \in RequestState
      BY <2>2 DEF Inv, TypeOK
    <3>2. RequestInv(req[s])
      BY DEF Inv
    <3>3. \A p \in RequestState : RequestInv(p) => RequestInv(p)'
      BY QuietRequest
    <3> QED BY <3>1, <3>2, <3>3
        DEF RequestInv, Good, GrantInv, InSync, Unspent, Spent
  <2> QED BY <2>1, <2>2
<1> QED BY <1>1, <1>2, QuietRest DEF Inv

(* The state of an idle request is in order. *)
LEMMA IdleInv == ASSUME NEW u \in Users PROVE RequestInv(Idle(u))
<1>1. Good(u, defaultProfile)
  BY DefaultProfileGood
<1> QED BY <1>1 DEF RequestInv, Idle, GrantInv, InSync

LEMMA EarlyReturnStep ==
    ASSUME Inv, NEW r \in Requests, EarlyReturn(r) PROVE Inv'
<1>1. Quiet(r) /\ now' = now
  BY DEF EarlyReturn, Quiet, requestVars
<1>2. Idle(AnyUser) \in RequestState /\ RequestInv(Idle(AnyUser))
  BY AnyUserType, IdleType, IdleInv
<1>3. RequestInv(Idle(AnyUser))'
  BY <1>1, <1>2, QuietRequest
<1> QED BY <1>1, <1>2, <1>3, QuietStep, Zenon DEF EarlyReturn

-----------------------------------------------------------------------------
(***************************************************************************)
(* What has to be known of the copy a handler is about to save.            *)
(***************************************************************************)
LEMMA ToSaveStep ==
    ASSUME Inv, NEW r \in Requests, Quiet(r), now' = now,
           req[r].pc = "loaded", ~req[r].fromCache,
           NEW op \in Handlers, NEW index \in Times \cup {0},
           NEW grant \in Random \cup {None}, NEW profile \in userProfile,
           ToSave(r, op, index, grant, profile),
           Consistent(profile), Owned(issued', req[r].user, profile),
           KeepsRow([op |-> op, index |-> index], req[r].profile, profile),
           grant # None =>
              /\ issued'[grant] = [user |-> req[r].user, purpose |-> "otp"]
              /\ profile.BootstrapOTP.Sha512Hash = None
              /\ req[r].profile.BootstrapOTP.Sha512Hash = Sha512(grant),
           \/ profile.BootstrapOTP.Sha512Hash
                 \in {None, req[r].profile.BootstrapOTP.Sha512Hash}
           \/ /\ profile.BootstrapOTP.Sha512Hash = Sha512(drawn')
              /\ drawn' # drawn
    PROVE  Inv'
<1>1. req[r] \in RequestState /\ RequestInv(req[r])
  BY DEF Inv, TypeOK
<1>2. PICK q \in RequestState :
         q = [req[r] EXCEPT !.pc = "saving", !.op = op, !.index = index,
                            !.grant = grant, !.profile = profile]
  BY <1>1, Zenon DEF RequestState
<1>3. req' = [req EXCEPT ![r] = q]
  BY <1>2 DEF ToSave
<1>4. q.user = req[r].user /\ q.fromCache = req[r].fromCache
      /\ q.stale = req[r].stale /\ q.pc = "saving" /\ q.op = op
      /\ q.index = index /\ q.grant = grant /\ q.profile = profile
  BY <1>1, <1>2 DEF RequestState
<1>5. Good(q.user, q.profile)'
  BY <1>4 DEF Good
<1>6. GrantInv(q)'
  BY <1>4 DEF GrantInv
<1>7. ASSUME InSync(q)
      PROVE  /\ KeepsRow(q, Loaded(db'[q.user]), q.profile)
             /\ Unspent(q.user, q.profile)'
             /\ \A v \in Random : Spent(q.user, v)' => q.grant # v
  <2>1. InSync(req[r])
    BY SMTT(30), <1>4, <1>7 DEF InSync
  <2>2. req[r].profile = Loaded(db'[q.user])
    BY <1>1, <1>4, <2>1 DEF RequestInv, Quiet, storeVars
  <2>3. KeepsRow(q, Loaded(db'[q.user]), q.profile)
    BY <2>2, <1>4, ZenonT(40) DEF KeepsRow, LosesToken
  <2>4. ASSUME NEW v \in Random, Spent(q.user, v)'
        PROVE  /\ q.profile.BootstrapOTP.Sha512Hash # Sha512(v)
               /\ q.grant # v
    <3>1. Spent(req[r].user, v)
      BY SMTT(30), <1>1, <1>4, <2>4, QuietSpent DEF RequestState
    <3>2. req[r].profile.BootstrapOTP.Sha512Hash # Sha512(v)
      BY <1>1, <2>1, <3>1 DEF RequestInv, Unspent
    <3>3. Sha512(v) # None
      BY UserProfileAssumption DEF Random, Sha512, None
    <3>4. ASSUME drawn' # drawn PROVE v # drawn' /\ drawn' \in Random
      <4>1. issued[v].purpose = "otp"
        BY SMTT(30), <3>1 DEF Spent, Inv, HistoryInv
      <4>2. ~(v > drawn)
        BY <4>1, Zenon DEF Inv, HistoryInv
      <4>3. PICK purpose \in Purposes : Draw(r, purpose)
        BY <3>4 DEF Quiet
      <4> QED BY SMTT(30), <4>2, <4>3, UserProfileAssumption
          DEF Draw, Inv, TypeOK, Random
    <3>5. profile.BootstrapOTP.Sha512Hash # Sha512(v)
      BY <3>2, <3>3, <3>4, Sha512Injective
    <3>6. v # None
      BY SMTT(30) DEF Random, None
    <3> QED BY <1>4, <3>2, <3>5, <3>6
  <2> QED BY <2>3, <2>4 DEF Unspent
<1>8. RequestInv(q)'
  BY <1>4, <1>5, <1>6, <1>7 DEF RequestInv, InSync
<1> QED BY <1>3, <1>8, QuietStep, Zenon

-----------------------------------------------------------------------------
(* What the changes to a token map do to its keys. *)
LEMMA EnrolOthers ==
    ASSUME NEW tokens \in AuthDataMap, NEW i \in Times, NEW key \in Random
    PROVE  /\ Enrol(tokens, i, key)[i].Key = key
           /\ \A j \in Times : j # i => Enrol(tokens, i, key)[j] = tokens[j]
BY DEF Enrol, AuthDataMap

LEMMA EnrolDistinct ==
    ASSUME NEW tokens \in AuthDataMap, NEW i \in Times, NEW key \in Random,
           DistinctKeys(tokens, key)
    PROVE  DistinctKeys(Enrol(tokens, i, key), None)
<1>1. key # None
  BY DEF Random, None
<1> QED BY <1>1, EnrolOthers DEF DistinctKeys, Registered

LEMMA EnrolKeysFrom ==
    ASSUME NEW tokens \in AuthDataMap, NEW i \in Times, NEW key \in Random,
           NEW keys, KeysFrom(keys, tokens, key)
    PROVE  KeysFrom(keys, Enrol(tokens, i, key), None)
<1>1. key # None
  BY DEF Random, None
<1> QED BY <1>1, EnrolOthers DEF KeysFrom, Registered

LEMMA ManagedOthers ==
    ASSUME NEW tokens \in AuthDataMap, NEW i \in Times, NEW name \in ActionNames
    PROVE  /\ ManagedTo(tokens, i, name)[i].Key \in {tokens[i].Key, None}
           /\ \A j \in Times : j # i => ManagedTo(tokens, i, name)[j] = tokens[j]
<1>1. CASE name = "Update"  BY <1>1 DEF ManagedTo
<1>2. CASE name = "Disable" BY <1>2 DEF ManagedTo, AuthDataMap, AuthData
<1>3. CASE name = "Enable"  BY <1>3 DEF ManagedTo, AuthDataMap, AuthData
<1>4. CASE name = "Delete"
  BY <1>4 DEF ManagedTo, AuthDataMap, AuthData, Unregistered
<1> QED BY <1>1, <1>2, <1>3, <1>4 DEF ActionNames

LEMMA ManagedRegistered ==
    ASSUME NEW tokens \in AuthDataMap, NEW i \in Times, NEW name \in ActionNames
    PROVE  \A j \in Registered(ManagedTo(tokens, i, name)) :
              /\ j \in Registered(tokens)
              /\ ManagedTo(tokens, i, name)[j].Key = tokens[j].Key
BY ManagedOthers DEF Registered

LEMMA ManagedDistinct ==
    ASSUME NEW tokens \in AuthDataMap, NEW i \in Times, NEW name \in ActionNames,
           NEW pending, DistinctKeys(tokens, pending)
    PROVE  DistinctKeys(ManagedTo(tokens, i, name), pending)
BY ManagedRegistered DEF DistinctKeys

LEMMA ManagedKeysFrom ==
    ASSUME NEW tokens \in AuthDataMap, NEW i \in Times, NEW name \in ActionNames,
           NEW keys, NEW pending, KeysFrom(keys, tokens, pending)
    PROVE  KeysFrom(keys, ManagedTo(tokens, i, name), pending)
BY ManagedRegistered DEF KeysFrom

-----------------------------------------------------------------------------
(* What is known of the profile a request holds, before and after a step of *)
(* its handler.                                                             *)
LEMMA HeldByRequest ==
    ASSUME Inv, NEW r \in Requests
    PROVE  /\ req[r].user \in Users
           /\ req[r].profile \in userProfile
           /\ Consistent(req[r].profile)
           /\ Owned(issued, req[r].user, req[r].profile)
           /\ Quiet(r) => Owned(issued', req[r].user, req[r].profile)
<1>1. req[r].user \in Users /\ req[r].profile \in userProfile
  BY DEF Inv, TypeOK, RequestState
<1>2. Good(req[r].user, req[r].profile)
  BY DEF Inv, RequestInv
<1>3. \A u \in Users, p \in userProfile :
         Quiet(r) /\ Good(u, p) => Owned(issued', u, p)
  BY QuietGood DEF Good
<1> QED BY <1>1, <1>2, <1>3 DEF Good

(* A value just drawn is the key of no token of the profile. *)
LEMMA FreshDraw ==
    ASSUME Inv, NEW r \in Requests, NEW purpose \in Purposes, Draw(r, purpose)
    PROVE  /\ drawn' \in Random
           /\ drawn' # drawn
           /\ issued'[drawn'] = [user |-> req[r].user, purpose |-> purpose]
           /\ \A i \in Registered(req[r].profile.U2fAuthData) :
                 req[r].profile.U2fAuthData[i].Key # drawn'
           /\ \A i \in Registered(req[r].profile.TOTPAuthData) :
                 req[r].profile.TOTPAuthData[i].Key # drawn'
<1>1. drawn' \in Random /\ drawn' > drawn /\ drawn' # drawn
  BY UserProfileAssumption DEF Draw, Inv, TypeOK, Random
<1>2. issued'[drawn'] = [user |-> req[r].user, purpose |-> purpose]
  BY <1>1 DEF Draw, Inv, TypeOK
<1>3. issued[drawn'].purpose = "none"
  BY <1>1 DEF Inv, HistoryInv
<1>4. \A u \in Users, p \in {"challenge", "secret"} :
         drawn' \notin DrawnFor(issued, u, p)
  BY <1>3 DEF DrawnFor
<1>5. Owned(issued, req[r].user, req[r].profile) /\ req[r].user \in Users
  BY HeldByRequest
<1> QED BY <1>1, <1>2, <1>4, <1>5 DEF Owned, KeysFrom

(* Enrolment. *)
LEMMA U2fRegisterRequestStep ==
    ASSUME Inv, NEW r \in Requests, u2fRegisterRequest(r) PROVE Inv'
<1> DEFINE old == req[r].profile
           new == [old EXCEPT !.RegistrationChallenge = drawn']
<1>1. Quiet(r) /\ now' = now /\ Draw(r, "challenge")
  BY DEF u2fRegisterRequest, Quiet, Purposes
<1>2. old \in userProfile /\ Consistent(old) /\ Owned(issued', req[r].user, old)
  BY <1>1, HeldByRequest
<1>3. ToSave(r, "u2fRegisterRequest", 0, None, new)
  BY SMTT(30) DEF u2fRegisterRequest
<1>4. /\ drawn' \in Random
      /\ issued'[drawn'] = [user |-> req[r].user, purpose |-> "challenge"]
      /\ \A i \in Registered(old.U2fAuthData) : old.U2fAuthData[i].Key # drawn'
  BY <1>1, FreshDraw, ZenonT(40) DEF Purposes
<1>5. new \in userProfile
  BY <1>2, <1>4 DEF userProfile
<1>6. /\ new.RegistrationChallenge = drawn'
      /\ new.U2fAuthData = old.U2fAuthData
      /\ new.TOTPAuthData = old.TOTPAuthData
      /\ new.PendingTOTPSecret = old.PendingTOTPSecret
      /\ new.BootstrapOTP = old.BootstrapOTP
      /\ new.UserHasRegistered2ndFactor = old.UserHasRegistered2ndFactor
  BY <1>2 DEF userProfile
<1> HIDE DEF new, old
<1>7. Consistent(new)
  BY <1>2, <1>4, <1>6 DEF Consistent, DistinctKeys, HasTokens
<1>8. Owned(issued', req[r].user, new)
  BY <1>2, <1>4, <1>6 DEF Owned, KeysFrom, DrawnFor
<1>9. KeepsRow([op |-> "u2fRegisterRequest", index |-> 0], old, new)
  BY <1>6 DEF KeepsRow, LosesToken
<1> QED BY <1>1, <1>3, <1>5, <1>6, <1>7, <1>8, <1>9, ToSaveStep, Zenon
    DEF u2fRegisterRequest, Runs, Handlers, old

LEMMA U2fRegisterResponseStep ==
    ASSUME Inv, NEW r \in Requests, u2fRegisterResponse(r) PROVE Inv'
<1> DEFINE old == req[r].profile
           new == [old EXCEPT
                     !.U2fAuthData = Enrol(old.U2fAuthData, now, old.RegistrationChallenge),
                     !.RegistrationChallenge = None,
                     !.UserHasRegistered2ndFactor = TRUE]
<1>1. Quiet(r) /\ now' = now /\ issued' = issued
  BY DEF u2fRegisterResponse, Quiet, requestVars
<1>2. old \in userProfile /\ Consistent(old) /\ Owned(issued, req[r].user, old)
  BY HeldByRequest
<1>3. old.U2fAuthData \in AuthDataMap /\ old.RegistrationChallenge \in Random /\ now \in Times
  BY <1>2 DEF u2fRegisterResponse, userProfile, Inv, TypeOK
<1>4. ToSave(r, "u2fRegisterResponse", now, None, new)
  BY DEF u2fRegisterResponse
<1>5. new \in userProfile
  BY <1>2, <1>3, EnrolType, ZenonT(40) DEF userProfile
<1>6. /\ new.U2fAuthData = Enrol(old.U2fAuthData, now, old.RegistrationChallenge)
      /\ new.RegistrationChallenge = None
      /\ new.TOTPAuthData = old.TOTPAuthData
      /\ new.PendingTOTPSecret = old.PendingTOTPSecret
      /\ new.BootstrapOTP = old.BootstrapOTP
      /\ new.UserHasRegistered2ndFactor = TRUE
  BY <1>2 DEF userProfile
<1> HIDE DEF new, old
<1>7. Consistent(new)
  BY <1>2, <1>3, <1>6, EnrolDistinct DEF Consistent
<1>8. Owned(issued', req[r].user, new)
  BY <1>1, <1>2, <1>3, <1>6, EnrolKeysFrom DEF Owned
<1>9. KeepsRow([op |-> "u2fRegisterResponse", index |-> now], old, new)
  BY <1>3, <1>6, EnrolOthers DEF KeepsRow, LosesToken, Registered
<1> QED BY <1>1, <1>3, <1>4, <1>5, <1>6, <1>7, <1>8, <1>9, ToSaveStep, Zenon
    DEF u2fRegisterResponse, Runs, Handlers, old

LEMMA GenerateNewTOTPStep ==
    ASSUME Inv, NEW r \in Requests, GenerateNewTOTP(r) PROVE Inv'
<1> DEFINE old == req[r].profile
           new == [old EXCEPT !.PendingTOTPSecret = drawn']
<1>1. Quiet(r) /\ now' = now /\ Draw(r, "secret")
  BY DEF GenerateNewTOTP, Quiet, Purposes
<1>2. old \in userProfile /\ Consistent(old) /\ Owned(issued', req[r].user, old)
  BY <1>1, HeldByRequest
<1>3. ToSave(r, "GenerateNewTOTP", 0, None, new)
  BY SMTT(30) DEF GenerateNewTOTP
<1>4. /\ drawn' \in Random
      /\ issued'[drawn'] = [user |-> req[r].user, purpose |-> "secret"]
      /\ \A i \in Registered(old.TOTPAuthData) : old.TOTPAuthData[i].Key # drawn'
  BY <1>1, FreshDraw, Zenon DEF Purposes
<1>5. new \in userProfile
  BY <1>2, <1>4 DEF userProfile
<1>6. /\ new.PendingTOTPSecret = drawn'
      /\ new.TOTPAuthData = old.TOTPAuthData
      /\ new.U2fAuthData = old.U2fAuthData
      /\ new.RegistrationChallenge = old.RegistrationChallenge
      /\ new.BootstrapOTP = old.BootstrapOTP
      /\ new.UserHasRegistered2ndFactor = old.UserHasRegistered2ndFactor
  BY <1>2 DEF userProfile
<1> HIDE DEF new, old
<1>7. Consistent(new)
  BY <1>2, <1>4, <1>6 DEF Consistent, DistinctKeys, HasTokens
<1>8. Owned(issued', req[r].user, new)
  BY <1>2, <1>4, <1>6 DEF Owned, KeysFrom, DrawnFor
<1>9. KeepsRow([op |-> "GenerateNewTOTP", index |-> 0], old, new)
  BY <1>6 DEF KeepsRow, LosesToken
<1> QED BY <1>1, <1>3, <1>5, <1>6, <1>7, <1>8, <1>9, ToSaveStep, Zenon
    DEF GenerateNewTOTP, Runs, Handlers, old

LEMMA ValidateNewTOTPStep ==
    ASSUME Inv, NEW r \in Requests, validateNewTOTP(r) PROVE Inv'
<1> DEFINE old == req[r].profile
           new == [old EXCEPT
                     !.TOTPAuthData = Enrol(old.TOTPAuthData, now, old.PendingTOTPSecret),
                     !.PendingTOTPSecret = None,
                     !.UserHasRegistered2ndFactor = TRUE]
<1>1. Quiet(r) /\ now' = now /\ issued' = issued
  BY DEF validateNewTOTP, Quiet, requestVars
<1>2. old \in userProfile /\ Consistent(old) /\ Owned(issued, req[r].user, old)
  BY HeldByRequest
<1>3. old.TOTPAuthData \in AuthDataMap /\ old.PendingTOTPSecret \in Random /\ now \in Times
  BY <1>2 DEF validateNewTOTP, userProfile, Inv, TypeOK
<1>4. ToSave(r, "validateNewTOTP", now, None, new)
  BY DEF validateNewTOTP
<1>5. new \in userProfile
  BY <1>2, <1>3, EnrolType, ZenonT(40) DEF userProfile
<1>6. /\ new.TOTPAuthData = Enrol(old.TOTPAuthData, now, old.PendingTOTPSecret)
      /\ new.PendingTOTPSecret = None
      /\ new.U2fAuthData = old.U2fAuthData
      /\ new.RegistrationChallenge = old.RegistrationChallenge
      /\ new.BootstrapOTP = old.BootstrapOTP
      /\ new.UserHasRegistered2ndFactor = TRUE
  BY <1>2 DEF userProfile
<1> HIDE DEF new, old
<1>7. Consistent(new)
  BY <1>2, <1>3, <1>6, EnrolDistinct DEF Consistent
<1>8. Owned(issued', req[r].user, new)
  BY <1>1, <1>2, <1>3, <1>6, EnrolKeysFrom DEF Owned
<1>9. KeepsRow([op |-> "validateNewTOTP", index |-> now], old, new)
  BY <1>3, <1>6, EnrolOthers DEF KeepsRow, LosesToken, Registered
<1> QED BY <1>1, <1>3, <1>4, <1>5, <1>6, <1>7, <1>8, <1>9, ToSaveStep, Zenon
    DEF validateNewTOTP, Runs, Handlers, old

(* Token management. *)
LEMMA U2fTokenManagerStep ==
    ASSUME Inv, NEW r \in Requests, u2fTokenManagerHandler(r) PROVE Inv'
<1> DEFINE old == req[r].profile
<1>1. Quiet(r) /\ now' = now /\ issued' = issued
  BY DEF u2fTokenManagerHandler, Quiet, requestVars
<1>2. old \in userProfile /\ Consistent(old) /\ Owned(issued, req[r].user, old)
  BY HeldByRequest
<1>3. PICK index \in Registered(old.U2fAuthData), name \in ActionNames :
         ToSave(r, "u2fTokenManagerHandler", index, None,
                [old EXCEPT !.U2fAuthData = ManagedTo(old.U2fAuthData, index, name)])
  BY DEF u2fTokenManagerHandler
<1> DEFINE new == [old EXCEPT !.U2fAuthData = ManagedTo(old.U2fAuthData, index, name)]
<1>4. old.U2fAuthData \in AuthDataMap /\ index \in Times
  BY <1>2 DEF userProfile, Registered
<1>5. new \in userProfile
  BY <1>2, <1>4, ManagedType DEF userProfile
<1>6. /\ new.U2fAuthData = ManagedTo(old.U2fAuthData, index, name)
      /\ new.RegistrationChallenge = old.RegistrationChallenge
      /\ new.TOTPAuthData = old.TOTPAuthData
      /\ new.PendingTOTPSecret = old.PendingTOTPSecret
      /\ new.BootstrapOTP = old.BootstrapOTP
      /\ new.UserHasRegistered2ndFactor = old.UserHasRegistered2ndFactor
  BY <1>2 DEF userProfile
<1> HIDE DEF old
<1>7. ToSave(r, "u2fTokenManagerHandler", index, None, new)
  BY <1>3
<1> HIDE DEF new
<1>8. Consistent(new)
  BY <1>2, <1>4, <1>6, ManagedDistinct, ManagedRegistered
  DEF Consistent, HasTokens
<1>9. Owned(issued', req[r].user, new)
  BY <1>1, <1>2, <1>4, <1>6, ManagedKeysFrom DEF Owned
<1>10. KeepsRow([op |-> "u2fTokenManagerHandler", index |-> index], old, new)
  BY <1>4, <1>6, ManagedOthers DEF KeepsRow, LosesToken, Registered
<1> QED BY <1>1, <1>4, <1>5, <1>6, <1>7, <1>8, <1>9, <1>10, ToSaveStep, Zenon
    DEF u2fTokenManagerHandler, Runs, Handlers, old

LEMMA TotpTokenManagerStep ==
    ASSUME Inv, NEW r \in Requests, totpTokenManagerHandler(r) PROVE Inv'
<1> DEFINE old == req[r].profile
<1>1. Quiet(r) /\ now' = now /\ issued' = issued
  BY DEF totpTokenManagerHandler, Quiet, requestVars
<1>2. old \in userProfile /\ Consistent(old) /\ Owned(issued, req[r].user, old)
  BY HeldByRequest
<1>3. PICK index \in Registered(old.TOTPAuthData), name \in ActionNames :
         ToSave(r, "totpTokenManagerHandler", index, None,
                [old EXCEPT !.TOTPAuthData = ManagedTo(old.TOTPAuthData, index, name)])
  BY DEF totpTokenManagerHandler
<1> DEFINE new == [old EXCEPT !.TOTPAuthData = ManagedTo(old.TOTPAuthData, index, name)]
<1>4. old.TOTPAuthData \in AuthDataMap /\ index \in Times
  BY <1>2 DEF userProfile, Registered
<1>5. new \in userProfile
  BY <1>2, <1>4, ManagedType DEF userProfile
<1>6. /\ new.TOTPAuthData = ManagedTo(old.TOTPAuthData, index, name)
      /\ new.PendingTOTPSecret = old.PendingTOTPSecret
      /\ new.U2fAuthData = old.U2fAuthData
      /\ new.RegistrationChallenge = old.RegistrationChallenge
      /\ new.BootstrapOTP = old.BootstrapOTP
      /\ new.UserHasRegistered2ndFactor = old.UserHasRegistered2ndFactor
  BY <1>2 DEF userProfile
<1> HIDE DEF old
<1>7. ToSave(r, "totpTokenManagerHandler", index, None, new)
  BY <1>3
<1> HIDE DEF new
<1>8. Consistent(new)
  BY SMTT(30), <1>2, <1>4, <1>6, ManagedDistinct, ManagedRegistered
  DEF Consistent, HasTokens
<1>9. Owned(issued', req[r].user, new)
  BY SMTT(30), <1>1, <1>2, <1>4, <1>6, ManagedKeysFrom DEF Owned
<1>10. KeepsRow([op |-> "totpTokenManagerHandler", index |-> index], old, new)
  BY <1>4, <1>6, ManagedOthers DEF KeepsRow, LosesToken, Registered
<1> QED BY <1>1, <1>4, <1>5, <1>6, <1>7, <1>8, <1>9, <1>10, ToSaveStep, Zenon
    DEF totpTokenManagerHandler, Runs, Handlers, old

-----------------------------------------------------------------------------
(* A TOTP login. *)
LEMMA ValidateUserTOTPStep ==
    ASSUME Inv, NEW r \in Requests, validateUserTOTP(r) PROVE Inv'
<1> DEFINE old == req[r].profile
           new == [old EXCEPT !.LastSuccessfullTOTPCounter = counter(req[r].t)]
<1>1. Quiet(r) /\ now' = now /\ issued' = issued
  BY DEF validateUserTOTP, Quiet, requestVars
<1>2. CASE req[r].fromCache
  <2>1. EarlyReturn(r)
    BY <1>2 DEF validateUserTOTP, EarlyReturn, Runs
  <2> QED BY <2>1, EarlyReturnStep
<1>3. CASE ~req[r].fromCache
  <2>1. old \in userProfile /\ Consistent(old) /\ Owned(issued, req[r].user, old)
    BY HeldByRequest
  <2>2. ToSave(r, "validateUserTOTP", 0, None, new)
    BY <1>3 DEF validateUserTOTP
  <2>3. counter(req[r].t) \in Nat
    <3>1. req[r].t \in Nat
      BY DEF Inv, TypeOK, RequestState, Times
    <3> QED BY <3>1, UserProfileAssumption DEF counter
  <2>4. new \in userProfile
    BY <2>1, <2>3 DEF userProfile
  <2>5. /\ new.BootstrapOTP = old.BootstrapOTP
        /\ new.U2fAuthData = old.U2fAuthData
        /\ new.RegistrationChallenge = old.RegistrationChallenge
        /\ new.TOTPAuthData = old.TOTPAuthData
        /\ new.PendingTOTPSecret = old.PendingTOTPSecret
        /\ new.UserHasRegistered2ndFactor = old.UserHasRegistered2ndFactor
    BY <2>1 DEF userProfile
  <2> HIDE DEF new, old
  <2>6. Consistent(new) /\ Owned(issued', req[r].user, new)
    BY <1>1, <2>1, <2>5 DEF Consistent, Owned, HasTokens
  <2>7. KeepsRow([op |-> "validateUserTOTP", index |-> 0], old, new)
    BY <2>5 DEF KeepsRow, LosesToken
  <2> QED BY <1>1, <1>3, <2>2, <2>4, <2>5, <2>6, <2>7, ToSaveStep, Zenon
      DEF validateUserTOTP, Runs, Handlers, old
<1> QED BY <1>2, <1>3

(* A new bootstrap OTP, by self service or by an administrator. *)
LEMMA NewOTPStep ==
    ASSUME Inv, NEW r \in Requests, NEW op \in Handlers,
           NEW duration \in OtpDurations,
           req[r].pc = "loaded", ~req[r].fromCache,
           Quiet(r), now' = now, Draw(r, "otp"),
           ToSave(r, op, 0, None,
                  [req[r].profile EXCEPT !.BootstrapOTP = NewBootstrapOTP(duration)])
    PROVE  Inv'
<1> DEFINE old == req[r].profile
           new == [old EXCEPT !.BootstrapOTP = NewBootstrapOTP(duration)]
<1>1. old \in userProfile /\ Consistent(old) /\ Owned(issued', req[r].user, old)
  BY HeldByRequest
<1>2. /\ drawn' \in Random /\ drawn' # drawn
      /\ issued'[drawn'] = [user |-> req[r].user, purpose |-> "otp"]
  BY FreshDraw, Zenon DEF Purposes
<1>3. NewBootstrapOTP(duration) \in bootstrapOTPData
  <2>1. now + duration \in Nat
    BY UserProfileAssumption DEF Inv, TypeOK, Times
  <2> QED BY <1>2, <2>1, Sha512Type DEF NewBootstrapOTP, bootstrapOTPData
<1>4. new \in userProfile
  BY <1>1, <1>3 DEF userProfile
<1>5. /\ new.BootstrapOTP.Sha512Hash = Sha512(drawn')
      /\ new.U2fAuthData = old.U2fAuthData
      /\ new.RegistrationChallenge = old.RegistrationChallenge
      /\ new.TOTPAuthData = old.TOTPAuthData
      /\ new.PendingTOTPSecret = old.PendingTOTPSecret
      /\ new.UserHasRegistered2ndFactor = old.UserHasRegistered2ndFactor
  BY <1>1 DEF userProfile, NewBootstrapOTP
<1>6. ToSave(r, op, 0, None, new)
  OBVIOUS
<1> HIDE DEF new, old
<1>7. Consistent(new)
  BY <1>1, <1>5 DEF Consistent, HasTokens
<1>8. Owned(issued', req[r].user, new)
  BY <1>1, <1>2, <1>5 DEF Owned, DrawnFor
<1>9. KeepsRow([op |-> op, index |-> 0], old, new)
  BY <1>5 DEF KeepsRow, LosesToken
<1> QED BY SMTT(30), <1>2, <1>4, <1>5, <1>6, <1>7, <1>8, <1>9, ToSaveStep DEF old

LEMMA TrySelfServiceStep ==
    ASSUME Inv, NEW r \in Requests, trySelfServiceGenerateBootstrapOTP(r)
    PROVE  Inv'
<1>1. PICK duration \in OtpDurations :
         ToSave(r, "trySelfServiceGenerateBootstrapOTP", 0, None,
                [req[r].profile EXCEPT !.BootstrapOTP = NewBootstrapOTP(duration)])
  BY DEF trySelfServiceGenerateBootstrapOTP
<1>2. Quiet(r) /\ now' = now /\ Draw(r, "otp")
  BY DEF trySelfServiceGenerateBootstrapOTP, Quiet, Purposes
<1>3. req[r].pc = "loaded" /\ ~req[r].fromCache
  BY DEF trySelfServiceGenerateBootstrapOTP, Runs
<1>4. "trySelfServiceGenerateBootstrapOTP" \in Handlers
  BY DEF Handlers
<1> QED BY <1>1, <1>2, <1>3, <1>4, NewOTPStep

LEMMA GenerateBootstrapOTPStep ==
    ASSUME Inv, NEW r \in Requests, generateBootstrapOTP(r)
    PROVE  Inv'
<1>1. PICK duration \in OtpDurations :
         ToSave(r, "generateBootstrapOTP", 0, None,
                [req[r].profile EXCEPT !.BootstrapOTP = NewBootstrapOTP(duration)])
  BY DEF generateBootstrapOTP
<1>2. Quiet(r) /\ now' = now /\ Draw(r, "otp")
  BY DEF generateBootstrapOTP, Quiet, Purposes
<1>3. req[r].pc = "loaded" /\ ~req[r].fromCache
  BY DEF generateBootstrapOTP, Runs
<1>4. "generateBootstrapOTP" \in Handlers
  BY DEF Handlers
<1> QED BY <1>1, <1>2, <1>3, <1>4, NewOTPStep

(* A bootstrap OTP is presented. *)
LEMMA BootstrapOtpAuthStep ==
    ASSUME Inv, NEW r \in Requests, BootstrapOtpAuthHandler(r) PROVE Inv'
<1> DEFINE old == req[r].profile
           new == [old EXCEPT !.BootstrapOTP = NoBootstrapOTP]
<1>1. Quiet(r) /\ now' = now /\ issued' = issued
  BY DEF BootstrapOtpAuthHandler, Quiet, requestVars
<1>2. old \in userProfile /\ Consistent(old) /\ Owned(issued, req[r].user, old)
  BY HeldByRequest
<1>3. PICK otp \in Random :
         /\ Sha512(otp) = userBootstrapOtpHash(old, req[r].fromCache, now)
         /\ ToSave(r, "BootstrapOtpAuthHandler", 0, otp, new)
  BY DEF BootstrapOtpAuthHandler
<1>4. Sha512(otp) # None
  BY UserProfileAssumption DEF Sha512, Random, None
<1>5. old.BootstrapOTP.Sha512Hash = Sha512(otp)
  BY <1>3, <1>4 DEF userBootstrapOtpHash
<1>6. issued[otp] = [user |-> req[r].user, purpose |-> "otp"]
  <2>1. PICK v \in DrawnFor(issued, req[r].user, "otp") : Sha512(otp) = Sha512(v)
    BY <1>2, <1>4, <1>5 DEF Owned
  <2>2. v \in Random /\ issued[v] = [user |-> req[r].user, purpose |-> "otp"]
    BY DEF DrawnFor
  <2> QED BY <2>1, <2>2, Sha512Injective
<1>7. new \in userProfile
  BY <1>2 DEF userProfile, NoBootstrapOTP, bootstrapOTPData
<1>8. /\ new.BootstrapOTP.Sha512Hash = None
      /\ new.U2fAuthData = old.U2fAuthData
      /\ new.RegistrationChallenge = old.RegistrationChallenge
      /\ new.TOTPAuthData = old.TOTPAuthData
      /\ new.PendingTOTPSecret = old.PendingTOTPSecret
      /\ new.UserHasRegistered2ndFactor = old.UserHasRegistered2ndFactor
  BY SMTT(30), <1>2 DEF userProfile, NoBootstrapOTP
<1> HIDE DEF new, old
<1>9. Consistent(new) /\ Owned(issued', req[r].user, new)
  BY <1>1, <1>2, <1>8 DEF Consistent, Owned, HasTokens
<1>10. KeepsRow([op |-> "BootstrapOtpAuthHandler", index |-> 0], old, new)
  BY <1>8 DEF KeepsRow, LosesToken
<1> QED BY <1>1, <1>3, <1>5, <1>6, <1>7, <1>8, <1>9, <1>10, ToSaveStep, Zenon
    DEF BootstrapOtpAuthHandler, Runs, Handlers, old

(* A user is added. *)
LEMMA AddUserStep ==
    ASSUME Inv, NEW r \in Requests, addUserHandler(r) PROVE Inv'
<1>1. Quiet(r) /\ now' = now /\ issued' = issued
  BY DEF addUserHandler, Quiet, requestVars
<1>2. /\ req[r].profile \in userProfile /\ Consistent(req[r].profile)
      /\ Owned(issued, req[r].user, req[r].profile)
  BY HeldByRequest
<1>3. KeepsRow([op |-> "addUserHandler", index |-> 0],
               req[r].profile, req[r].profile)
  BY DEF KeepsRow, LosesToken
<1> QED BY <1>1, <1>2, <1>3, ToSaveStep, Zenon DEF addUserHandler, Runs, Handlers

-----------------------------------------------------------------------------
(* A request loads the profile. *)
LEMMA LoadUserProfileStep ==
    ASSUME Inv, NEW r \in Requests, LoadUserProfile(r) PROVE Inv'
<1>1. Quiet(r) /\ now' = now
  BY DEF LoadUserProfile, Quiet, requestVars
<1>u. PICK u \in Users : \E result \in LoadOutcomes(u), t \in ClockReads :
         req' = [req EXCEPT ![r] =
                   [Idle(u) EXCEPT !.pc = "loaded", !.t = t,
                                   !.profile = result.profile,
                                   !.existing = result.existing,
                                   !.fromCache = result.fromCache]]
  BY Zenon DEF LoadUserProfile
<1>2. PICK result \in LoadOutcomes(u), t \in ClockReads :
         req' = [req EXCEPT ![r] =
                   [Idle(u) EXCEPT !.pc = "loaded", !.t = t,
                                   !.profile = result.profile,
                                   !.existing = result.existing,
                                   !.fromCache = result.fromCache]]
  BY <1>u, Zenon
<1>3. /\ result.existing \in BOOLEAN
      /\ \/ result.fromCache = FALSE /\ result.profile = Loaded(db[u])
         \/ result.fromCache = TRUE /\ result.profile = Loaded(cache[u])
  <2> DEFINE primary == [profile |-> Loaded(db[u]), existing |-> existing(db[u]),
                         fromCache |-> FALSE]
             local == [profile |-> Loaded(cache[u]), existing |-> existing(cache[u]),
                       fromCache |-> TRUE]
  <2>1. result = primary \/ result = local
    BY DEF LoadOutcomes
  <2>2. CASE result = primary BY <2>2 DEF existing
  <2>3. CASE result = local BY <2>3 DEF existing
  <2> QED BY <2>1, <2>2, <2>3, Zenon
<1>4. /\ Loaded(db[u]) \in userProfile /\ Loaded(cache[u]) \in userProfile
  BY LoadedType DEF Inv, TypeOK, StoreTypeOK
<1>5. t \in Times
  BY UserProfileAssumption DEF ClockReads, Inv, TypeOK, Times
<1>6. PICK q \in RequestState :
         q = [Idle(u) EXCEPT !.pc = "loaded", !.t = t,
                             !.profile = result.profile,
                             !.existing = result.existing,
                             !.fromCache = result.fromCache]
  <2>1. result.profile \in userProfile /\ result.fromCache \in BOOLEAN
    BY <1>3, <1>4, Zenon
  <2>2. Idle(u) \in RequestState
    BY IdleType
  <2>3. ASSUME NEW profile \in userProfile, NEW e \in BOOLEAN, NEW c \in BOOLEAN
        PROVE  [Idle(u) EXCEPT !.pc = "loaded", !.t = t, !.profile = profile,
                               !.existing = e, !.fromCache = c] \in RequestState
    BY <1>5, <2>2, Zenon DEF RequestState
  <2> QED BY <1>3, <2>1, <2>3, Zenon
<1>7. /\ q.pc = "loaded" /\ q.user = u /\ q.profile = result.profile
      /\ q.fromCache = result.fromCache /\ q.grant = None
  <2>1. /\ Idle(u) \in RequestState /\ Idle(u).user = u /\ Idle(u).grant = None
    BY IdleType DEF Idle
  <2> QED BY <1>6, <2>1 DEF RequestState
<1>8. Good(u, Loaded(db[u])) /\ Good(u, Loaded(cache[u])) /\ Unspent(u, Loaded(db[u]))
  BY SMTT(30) DEF Inv, RowsInv
<1>9. RequestInv(q)
  <2>1. \A v \in Random : v # None
    BY DEF Random, None
  <2> QED BY <1>3, <1>7, <1>8, <2>1 DEF RequestInv, GrantInv, InSync
<1>10. RequestInv(q)'
  BY <1>1, <1>9, QuietRequest
<1> QED BY <1>1, <1>2, <1>6, <1>10, QuietStep, Zenon

-----------------------------------------------------------------------------
(***************************************************************************)
(* The row of u is written: requests in progress on u are outdated, so     *)
(* nothing has to be known of them any more but what they may not save.    *)
(***************************************************************************)
LEMMA WriteStep ==
    ASSUME Inv, NEW u \in Users, NEW row \in Rows,
           db' = [db EXCEPT ![u] = row], UNCHANGED <<cache, copy>>,
           UNCHANGED <<now, drawn, issued>>,
           accepted' \in [Random -> Acceptances], overlapped' \in SUBSET Users,
           HistoryInv',
           \A s \in Requests : req'[s] \in {Outdated(u)[s], Idle(AnyUser)},
           req' \in [Requests -> RequestState],
           Good(u, Loaded(row)), Unspent(u, Loaded(row))',
           \A w \in Users \ {u}, v \in Random : Spent(w, v)' => Spent(w, v)
    PROVE  Inv'
<1>1. TypeOK'
  BY DEF Inv, TypeOK, StoreTypeOK
<1>2. RowsInv'
  <2>1. ASSUME NEW w \in Users PROVE Good(w, Loaded(db'[w])) /\ Unspent(w, Loaded(db[w]))'
    <3>1. CASE w = u
      <4>1. db'[w] = row
        BY SMTT(30), <3>1 DEF Inv, TypeOK, StoreTypeOK
      <4> QED BY <3>1, <4>1 DEF Unspent
    <3>2. CASE w # u
      <4>1. db'[w] = db[w]
        BY <3>2 DEF Inv, TypeOK, StoreTypeOK
      <4> QED BY <3>2, <4>1 DEF Inv, RowsInv, Unspent
    <3> QED BY <3>1, <3>2
  <2> QED BY <2>1 DEF Inv, RowsInv, Good
<1>3. ASSUME NEW s \in Requests PROVE RequestInv(req[s])'
  <2>1. CASE req'[s] = Idle(AnyUser)
    <3>1. RequestInv(Idle(AnyUser))'
      <4>1. Good(AnyUser, defaultProfile)
        BY SMTT(30), AnyUserType, DefaultProfileGood
      <4> QED BY <4>1, Zenon DEF RequestInv, Idle, GrantInv, InSync, Good
    <3> QED BY <2>1, <3>1
        DEF RequestInv, Good, GrantInv, InSync, Unspent, Spent
  <2>2. CASE req'[s] = Outdated(u)[s]
    <3>1. req[s] \in RequestState /\ RequestInv(req[s])
      BY DEF Inv, TypeOK
    <3>2. CASE req[s].pc # "idle" /\ req[s].user = u
      <4>1. req'[s] = [req[s] EXCEPT !.stale = TRUE]
        BY <2>2, <3>2 DEF Outdated
      <4>2. /\ req'[s].pc = req[s].pc /\ req'[s].user = req[s].user
            /\ req'[s].profile = req[s].profile
            /\ req'[s].fromCache = req[s].fromCache
            /\ req'[s].grant = req[s].grant /\ req'[s].stale = TRUE
        BY <3>1, <4>1 DEF RequestState
      <4> QED BY <3>1, <4>2, Zenon DEF RequestInv, Good, GrantInv, InSync
    <3>3. CASE req[s].pc # "idle" /\ req[s].user # u
      <4>1. req'[s] = req[s] /\ req[s].user \in Users
        BY <2>2, <3>1, <3>3 DEF Outdated, RequestState
      <4>2. db'[req[s].user] = db[req[s].user]
        BY <3>3, <4>1, ZenonT(40) DEF Inv, TypeOK, StoreTypeOK
      <4> QED BY <3>1, <3>3, <4>1, <4>2, Zenon
          DEF RequestInv, Good, GrantInv, InSync, Unspent
    <3>4. CASE req[s].pc = "idle"
      <4>1. req'[s] = req[s]
        BY <2>2, <3>4 DEF Outdated
      <4> QED BY <3>1, <3>4, <4>1, Zenon DEF RequestInv, Good, GrantInv, InSync
    <3> QED BY <3>2, <3>3, <3>4
  <2> QED BY <2>1, <2>2
<1> QED BY <1>1, <1>2, <1>3, Zenon DEF Inv

LEMMA OutdatedType ==
    ASSUME Inv, NEW u \in Users PROVE Outdated(u) \in [Requests -> RequestState]
<1>1. \A q \in RequestState : [q EXCEPT !.stale = TRUE] \in RequestState
  BY Zenon DEF RequestState
<1> QED BY <1>1 DEF Inv, TypeOK, Outdated

LEMMA DeleteUserStep ==
    ASSUME Inv, NEW u \in Users, deleteUserHandler(u) PROVE Inv'
<1>1. /\ db' = [db EXCEPT ![u] = NoRow] /\ UNCHANGED <<cache, copy>>
      /\ UNCHANGED <<now, drawn, issued, accepted, overlapped>>
      /\ req' = Outdated(u)
  BY DEF deleteUserHandler, DeleteUserProfile, requestVars
<1>2. NoRow \in Rows /\ Loaded(NoRow) = defaultProfile
  BY DEF Rows, Loaded
<1>3. Good(u, Loaded(NoRow)) /\ Unspent(u, Loaded(NoRow))'
  BY <1>1, <1>2, DefaultProfileGood DEF Unspent, Spent
<1>4. HistoryInv'
  BY <1>1 DEF Inv, HistoryInv, OtpAcceptedOnce
<1>5. \A w \in Users, v \in Random : Spent(w, v)' => Spent(w, v)
  BY <1>1 DEF Spent
<1>6. accepted' \in [Random -> Acceptances] /\ overlapped' \in SUBSET Users
  BY SMTT(30), <1>1 DEF Inv, TypeOK
<1> QED BY <1>1, <1>2, <1>3, <1>4, <1>5, <1>6, OutdatedType, WriteStep, Zenon

(***************************************************************************)
(* The row is written by request r.  If r is outdated its user joins       *)
(* overlapped and no OTP of that user counts as spent; otherwise the copy  *)
(* it saves holds no spent OTP, not even the one it is about to grant.     *)
(***************************************************************************)
LEMMA WrittenStep ==
    ASSUME Inv, NEW r \in Requests, req[r].pc = "saving", Written(r),
           UNCHANGED <<now, drawn, issued>>,
           accepted' = accepted \/ Accept(req[r].grant)
    PROVE  Inv'
<1>1. req[r] \in RequestState /\ RequestInv(req[r])
  BY SMTT(30) DEF Inv, TypeOK
<1>2. PICK u \in Users, profile \in userProfile, g \in Random \cup {None} :
         u = req[r].user /\ profile = req[r].profile /\ g = req[r].grant
  BY <1>1 DEF RequestState
<1>3. /\ db' = [db EXCEPT ![u] = profile] /\ UNCHANGED <<cache, copy>>
      /\ req' = [Outdated(u) EXCEPT ![r] = Idle(AnyUser)]
      /\ overlapped' = IF req[r].stale THEN overlapped \cup {u} ELSE overlapped
  BY <1>2 DEF Written, SaveUserProfile
<1>4. profile \in Rows /\ Loaded(profile) = profile
  BY ProfileIsRow
<1>5. overlapped' \in SUBSET Users /\ overlapped \subseteq overlapped'
  BY <1>3 DEF Inv, TypeOK
<1>6. accepted' \in [Random -> Acceptances]
  BY <1>2 DEF Accept, Inv, TypeOK, Acceptances
<1>7. /\ req' \in [Requests -> RequestState]
      /\ \A s \in Requests : req'[s] \in {Outdated(u)[s], Idle(AnyUser)}
  <2>1. Outdated(u) \in [Requests -> RequestState] /\ Idle(AnyUser) \in RequestState
    BY SMTT(30), OutdatedType, IdleType, AnyUserType
  <2> QED BY <1>3, <2>1
<1>8. ASSUME NEW v \in Random, accepted'[v] # accepted[v]
      PROVE  /\ v = g
             /\ issued[v] = [user |-> u, purpose |-> "otp"]
             /\ profile.BootstrapOTP.Sha512Hash = None
             /\ accepted'[v] = IF accepted[v] = "never" THEN "once" ELSE "again"
  <2>1. Accept(g)
    BY <1>2, <1>8
  <2>2. v # None
    BY DEF Random, None
  <2>3. v = g /\ accepted'[v] = IF accepted[v] = "never" THEN "once" ELSE "again"
    BY SMTT(30), <1>8, <2>1 DEF Accept, Inv, TypeOK
  <2> QED BY <1>1, <1>2, <2>2, <2>3 DEF RequestInv, GrantInv
<1>9. \A w \in Users, v \in Random :
         Spent(w, v)' => Spent(w, v) \/ (v = g /\ accepted'[v] # accepted[v])
  <2> SUFFICES ASSUME NEW w \in Users, NEW v \in Random, Spent(w, v)',
                      accepted'[v] = accepted[v]
               PROVE  Spent(w, v)
    BY <1>8
  <2> QED BY SMTT(30), <1>5 DEF Spent
<1>10. ASSUME NEW w \in Users \ {u}, NEW v \in Random, Spent(w, v)'
       PROVE  Spent(w, v)
  <2>1. issued[v].user = w
    BY <1>10 DEF Spent
  <2> QED BY <1>8, <1>9, <1>10, <2>1
<1>11. ASSUME NEW v \in Random, Spent(u, v)'
       PROVE  ~req[r].stale
  BY SMTT(30), <1>3, <1>11 DEF Spent
<1>12. ~req[r].stale => InSync(req[r])
  BY <1>1 DEF RequestInv, InSync
<1>13. Unspent(u, profile)'
  <2> SUFFICES ASSUME NEW v \in Random, Spent(u, v)'
               PROVE  profile.BootstrapOTP.Sha512Hash # Sha512(v)
    BY SMTT(30) DEF Unspent
  <2>1. CASE Spent(u, v)
    BY SMTT(30), <1>1, <1>2, <1>11, <1>12, <2>1 DEF RequestInv, Unspent
  <2>2. CASE accepted'[v] # accepted[v]
    <3>1. Sha512(v) # None
      BY SMTT(30), UserProfileAssumption DEF Sha512, Random, None
    <3> QED BY <1>8, <2>2, <3>1
  <2> QED BY <1>9, <2>1, <2>2
<1>14. HistoryInv'
  <2>1. \A v \in Random : accepted'[v] # "never" => issued[v].purpose = "otp"
    BY <1>8 DEF Inv, HistoryInv
  <2>2. ASSUME NEW v \in Random, accepted'[v] = "again"
        PROVE  issued[v].user \in overlapped'
    <3>1. CASE accepted'[v] = accepted[v]
      BY <1>5, <2>2, <3>1 DEF Inv, HistoryInv, OtpAcceptedOnce
    <3>2. CASE accepted'[v] # accepted[v]
      <4>1. v = g /\ issued[v].user = u /\ accepted[v] # "never"
        BY SMTT(30), <1>8, <2>2, <3>2
      <4>2. CASE req[r].stale BY <1>3, <4>1, <4>2
      <4>3. CASE u \in overlapped BY <1>5, <4>1, <4>3
      <4>4. CASE ~req[r].stale /\ u \notin overlapped
        <5>1. Spent(u, v)
          BY <4>1, <4>4 DEF Spent
        <5> QED BY <1>1, <1>2, <1>12, <4>1, <4>4, <5>1, Zenon DEF RequestInv
      <4> QED BY <4>2, <4>3, <4>4
    <3> QED BY <3>1, <3>2
  <2>3. \A v \in Random : v > drawn' => issued'[v].purpose = "none"
    BY DEF Inv, HistoryInv
  <2> QED BY <2>1, <2>2, <2>3 DEF HistoryInv, OtpAcceptedOnce
<1>15. Good(u, Loaded(profile)) /\ Unspent(u, Loaded(profile))'
  BY <1>1, <1>2, <1>4, <1>13 DEF RequestInv
<1> QED BY <1>3, <1>4, <1>5, <1>6, <1>7, <1>10, <1>14, <1>15, WriteStep, Zenon

LEMMA SaveOkStep ==
    ASSUME Inv, NEW r \in Requests, SaveOk(r) PROVE Inv'
BY WrittenStep DEF SaveOk

LEMMA SaveErrorStep ==
    ASSUME Inv, NEW r \in Requests, SaveError(r) PROVE Inv'
<1>1. CASE Written(r)
  BY <1>1, WrittenStep DEF SaveError
<1>2. CASE /\ req' = [req EXCEPT ![r] = Idle(AnyUser)]
           /\ UNCHANGED <<storeVars, overlapped>>
  <2>1. Quiet(r) /\ now' = now
    BY <1>2 DEF SaveError, Quiet
  <2>2. Idle(AnyUser) \in RequestState /\ RequestInv(Idle(AnyUser))
    BY AnyUserType, IdleType, IdleInv
  <2>3. RequestInv(Idle(AnyUser))'
    BY <2>1, <2>2, QuietRequest
  <2> QED BY <1>2, <2>1, <2>2, <2>3, QuietStep, Zenon
<1> QED BY <1>1, <1>2 DEF SaveError

-----------------------------------------------------------------------------
(* Steps that leave every request and the primary database alone. *)
LEMMA RequestsUntouched ==
    ASSUME Inv, UNCHANGED <<db, req, issued, accepted, overlapped>>,
           NEW r \in Requests
    PROVE  RequestInv(req[r])'
<1>1. RequestInv(req[r])
  BY DEF Inv
<1> QED BY <1>1, Zenon DEF RequestInv, Good, GrantInv, InSync, Unspent, Spent

LEMMA BackgroundDBCopyStep == Inv /\ BackgroundDBCopy => Inv'
<1> SUFFICES ASSUME Inv, BackgroundDBCopy PROVE Inv'
  OBVIOUS
<1>1. UNCHANGED <<db, req, now, drawn, issued, accepted, overlapped>>
  BY DEF BackgroundDBCopy, requestVars, copyDBIntoSQLite, CopyBegin, CopyCommit,
         CopyFail
<1>2. /\ cache' \in [Users -> Rows] /\ copy' \in [Users -> Rows] \cup {NoCopy}
      /\ \A u \in Users : cache'[u] \in {cache[u], NoRow}
                          \/ (copy # NoCopy /\ cache'[u] = copy[u])
      /\ copy' # NoCopy => copy' = db
  <2> USE DEF Inv, TypeOK, StoreTypeOK
  <2>1. CASE CopyBegin BY <2>1 DEF CopyBegin, Rows
  <2>2. CASE CopyCommit BY <2>2 DEF CopyCommit
  <2>3. CASE CopyFail BY <2>3 DEF CopyFail
  <2> QED BY <2>1, <2>2, <2>3 DEF BackgroundDBCopy, copyDBIntoSQLite
<1>3. TypeOK'
  BY SMTT(30), <1>1, <1>2 DEF Inv, TypeOK, StoreTypeOK
<1>4. RowsInv'
  <2>1. ASSUME NEW u \in Users
        PROVE  /\ Good(u, Loaded(db[u])) /\ Unspent(u, Loaded(db[u]))
               /\ Good(u, Loaded(cache'[u]))
    <3>1. Loaded(NoRow) = defaultProfile /\ Good(u, defaultProfile)
      BY DefaultProfileGood DEF Loaded
    <3> QED BY <1>2, <3>1 DEF Inv, RowsInv
  <2> QED BY SMTT(30), <1>1, <1>2, <2>1 DEF RowsInv, Good, Unspent, Spent
<1>5. HistoryInv'
  BY <1>1 DEF Inv, HistoryInv, OtpAcceptedOnce
<1> QED BY <1>1, <1>3, <1>4, <1>5, RequestsUntouched DEF Inv

LEMMA TickStep == Inv /\ Tick => Inv'
<1> SUFFICES ASSUME Inv, Tick PROVE Inv'
  OBVIOUS
<1>1. UNCHANGED <<db, cache, copy, req, drawn, issued, accepted, overlapped>>
  BY DEF Tick, storeVars
<1>2. now' \in Times
  BY SMTT(30), UserProfileAssumption DEF Tick, Inv, TypeOK, Times
<1>3. TypeOK' /\ RowsInv' /\ HistoryInv'
  BY <1>1, <1>2 DEF Inv, TypeOK, StoreTypeOK, RowsInv, Good, Unspent, Spent,
                    HistoryInv, OtpAcceptedOnce
<1> QED BY <1>1, <1>3, RequestsUntouched DEF Inv

LEMMA CrashStep == Inv /\ Crash => Inv'
<1> SUFFICES ASSUME Inv, Crash PROVE Inv'
  OBVIOUS
<1>1. /\ UNCHANGED <<db, cache, now, drawn, issued, accepted, overlapped>>
      /\ copy' = NoCopy /\ req' = [r \in Requests |-> Idle(AnyUser)]
  BY DEF Crash, requestVars
<1>2. Idle(AnyUser) \in RequestState /\ RequestInv(Idle(AnyUser))
  BY SMTT(30), AnyUserType, IdleType, IdleInv
<1>3. TypeOK' /\ RowsInv' /\ HistoryInv'
  BY <1>1, <1>2 DEF Inv, TypeOK, StoreTypeOK, RowsInv, Good, Unspent, Spent,
                    HistoryInv, OtpAcceptedOnce
<1>4. ASSUME NEW r \in Requests PROVE RequestInv(req[r])'
  <2>1. req'[r] = Idle(AnyUser)
    BY <1>1
  <2> QED BY <1>1, <1>2, <2>1, Zenon
      DEF RequestInv, Good, GrantInv, InSync, Unspent, Spent
<1> QED BY <1>3, <1>4 DEF Inv

-----------------------------------------------------------------------------
LEMMA InitInv == Init => Inv
<1> SUFFICES ASSUME Init PROVE Inv
  OBVIOUS
<1>1. Idle(AnyUser) \in RequestState /\ AnyUser \in Users
  BY AnyUserType, IdleType
<1>2. TypeOK
  BY <1>1, UserProfileAssumption
     DEF Init, StoreInit, TypeOK, StoreTypeOK, Rows, Times, Purposes, Acceptances
<1>3. RowsInv
  <2>1. ASSUME NEW u \in Users
        PROVE  /\ Loaded(db[u]) = defaultProfile /\ Loaded(cache[u]) = defaultProfile
               /\ Good(u, defaultProfile) /\ Unspent(u, defaultProfile)
    BY DefaultProfileGood DEF Init, StoreInit, Loaded
  <2> QED BY <2>1, Zenon DEF RowsInv, Init, StoreInit
<1>4. HistoryInv
  BY DEF Init, HistoryInv, OtpAcceptedOnce
<1>5. \A r \in Requests : RequestInv(req[r])
  <2>1. RequestInv(Idle(AnyUser)) /\ req = [r \in Requests |-> Idle(AnyUser)]
    BY <1>1, IdleInv DEF Init
  <2> QED BY <2>1
<1> QED BY <1>2, <1>3, <1>4, <1>5 DEF Inv

LEMMA WorkStep == ASSUME Inv, NEW r \in Requests, Work(r) PROVE Inv'
BY EarlyReturnStep, U2fRegisterRequestStep, U2fRegisterResponseStep,
   U2fTokenManagerStep, GenerateNewTOTPStep, ValidateNewTOTPStep,
   TotpTokenManagerStep, ValidateUserTOTPStep, TrySelfServiceStep,
   GenerateBootstrapOTPStep, BootstrapOtpAuthStep, AddUserStep
   DEF Work

LEMMA NextInv == Inv /\ [Next]_vars => Inv'
<1> SUFFICES ASSUME Inv, [Next]_vars PROVE Inv'
  OBVIOUS
<1>1. ASSUME NEW r \in Requests, LoadUserProfile(r) PROVE Inv'
  BY <1>1, LoadUserProfileStep
<1>2. ASSUME NEW r \in Requests, Work(r) PROVE Inv'
  BY <1>2, WorkStep
<1>3. ASSUME NEW r \in Requests, SaveOk(r) \/ SaveError(r) PROVE Inv'
  BY <1>3, SaveOkStep, SaveErrorStep
<1>4. ASSUME NEW u \in Users, deleteUserHandler(u) PROVE Inv'
  BY <1>4, DeleteUserStep
<1>5. CASE BackgroundDBCopy BY <1>5, BackgroundDBCopyStep
<1>6. CASE Tick BY <1>6, TickStep
<1>7. CASE Crash BY <1>7, CrashStep
<1>8. CASE UNCHANGED vars
  <2>1. UNCHANGED <<db, cache, copy, now, drawn, req, issued, accepted, overlapped>>
    BY SMTT(30), <1>8 DEF vars
  <2>2. TypeOK' /\ RowsInv' /\ HistoryInv'
    BY <2>1 DEF Inv, TypeOK, StoreTypeOK, RowsInv, Good, Unspent, Spent,
                HistoryInv, OtpAcceptedOnce
  <2> QED BY <2>1, <2>2, RequestsUntouched DEF Inv
<1> QED BY <1>1, <1>2, <1>3, <1>4, <1>5, <1>6, <1>7, <1>8 DEF Next

LEMMA Invariance == Spec => []Inv
BY InitInv, NextInv, PTL DEF Spec

-----------------------------------------------------------------------------
(* Every profile there is is good. *)
LEMMA HeldGood ==
    ASSUME Inv, NEW u \in Users, NEW p \in Held(u) PROVE Good(u, p)
<1>1. p # NoRow
  BY DEF Held
<1>2. CASE p \in {db[u], cache[u]}
  BY <1>1, <1>2 DEF Inv, RowsInv, Loaded
<1>3. CASE copy # NoCopy /\ p = copy[u]
  BY SMTT(30), <1>1, <1>3 DEF Inv, RowsInv, Loaded
<1>4. ASSUME NEW r \in Requests, req[r].user = u, p = req[r].profile
      PROVE  Good(u, p)
  BY <1>4 DEF Inv, RequestInv
<1> QED BY <1>2, <1>3, <1>4 DEF Held

(***************************************************************************)
(* The databases, the requests and the history always have their types:    *)
(* whatever handlers overlap, what is saved is a well-formed profile.      *)
(***************************************************************************)
THEOREM TypeCorrect == Spec => []TypeOK
<1>1. Inv => TypeOK
  BY DEF Inv
<1> QED BY <1>1, Invariance, PTL

(***************************************************************************)
(* Every copy of every profile is consistent, for any number of users,     *)
(* requests and handlers, whichever saves overlap.                         *)
(***************************************************************************)
THEOREM Consistency == Spec => []ProfilesConsistent
<1>1. Inv => ProfilesConsistent
  BY HeldGood DEF ProfilesConsistent, Good
<1> QED BY <1>1, Invariance, PTL

(***************************************************************************)
(* Every credential in every copy of a profile was drawn for its user and  *)
(* its use.                                                                *)
(***************************************************************************)
THEOREM Ownership == Spec => []CredentialsIssuedToOwner
<1>1. Inv => CredentialsIssuedToOwner
  BY HeldGood DEF CredentialsIssuedToOwner, Good
<1> QED BY <1>1, Invariance, PTL

(***************************************************************************)
(* A bootstrap OTP is accepted once unless a save landed on a row that had *)
(* changed since its handler loaded it.                                    *)
(***************************************************************************)
THEOREM AcceptedOnce == Spec => []OtpAcceptedOnce
<1>1. Inv => OtpAcceptedOnce
  BY DEF Inv, HistoryInv
<1> QED BY <1>1, Invariance, PTL

LEMMA UndisturbedStep ==
    ASSUME Inv, Next, NEW r \in Requests PROVE UndisturbedSave(r)
<1>1. req[r] \in RequestState /\ RequestInv(req[r]) /\ req \in [Requests -> RequestState]
  BY DEF Inv, TypeOK
<1>2. ASSUME db' = db PROVE UndisturbedSave(r)
  BY <1>2 DEF UndisturbedSave
<1>3. ASSUME NEW s \in Requests, Written(s), req[s].pc = "saving"
      PROVE  UndisturbedSave(r)
  <2>1. CASE s = r
    <3> SUFFICES ASSUME ~req[r].stale, db[req[r].user] # NoRow, req[r].pc = "saving"
                 PROVE  /\ db'[req[r].user] # NoRow
                        /\ KeepsRow(req[r], db[req[r].user], db'[req[r].user])
      BY DEF UndisturbedSave
    <3>1. req[r].user \in Users /\ req[r].profile \in userProfile
      BY <1>1 DEF RequestState
    <3>2. db'[req[r].user] = req[r].profile
      BY <1>3, <2>1, <3>1 DEF Written, SaveUserProfile, Inv, TypeOK, StoreTypeOK
    <3>3. req[r].profile # NoRow
      BY SMTT(30), <3>1, ProfileIsRow
    <3>4. KeepsRow(req[r], Loaded(db[req[r].user]), req[r].profile)
      BY <1>1 DEF RequestInv, InSync
    <3> QED BY <3>2, <3>3, <3>4 DEF Loaded
  <2>2. CASE s # r
    <3>1. req'[r] = Outdated(req[s].user)[r]
      BY <1>3, <2>2, Zenon DEF Written, Outdated
    <3>2. req'[r].pc = req[r].pc
      BY <1>1, <3>1 DEF Outdated, RequestState
    <3> QED BY <3>2 DEF UndisturbedSave
  <2> QED BY <2>1, <2>2
<1>4. ASSUME NEW u \in Users, deleteUserHandler(u) PROVE UndisturbedSave(r)
  <2>1. req'[r].pc = req[r].pc
    BY <1>1, <1>4 DEF deleteUserHandler, Outdated, RequestState
  <2> QED BY <2>1 DEF UndisturbedSave
<1>5. ASSUME NEW s \in Requests, LoadUserProfile(s) PROVE db' = db
  BY <1>5 DEF LoadUserProfile, storeVars
<1>6. ASSUME NEW s \in Requests, Work(s) PROVE db' = db
  BY <1>6, Zenon DEF Work, storeVars, EarlyReturn, u2fRegisterRequest,
       u2fRegisterResponse, u2fTokenManagerHandler, GenerateNewTOTP,
       validateNewTOTP, totpTokenManagerHandler, validateUserTOTP,
       trySelfServiceGenerateBootstrapOTP, generateBootstrapOTP,
       BootstrapOtpAuthHandler, addUserHandler
<1>7. ASSUME BackgroundDBCopy \/ Tick \/ Crash PROVE db' = db
  BY <1>7 DEF BackgroundDBCopy, copyDBIntoSQLite, CopyBegin, CopyCommit, CopyFail,
              Tick, Crash, storeVars
<1>8. ASSUME NEW s \in Requests, SaveOk(s) \/ SaveError(s)
      PROVE  UndisturbedSave(r)
  BY <1>2, <1>3, <1>8 DEF SaveOk, SaveError, storeVars
<1> QED BY <1>2, <1>4, <1>5, <1>6, <1>7, <1>8 DEF Next

(***************************************************************************)
(* A save by a request whose copy is not outdated takes nothing from the   *)
(* row that it was not asked to take, for any number of users, requests    *)
(* and handlers.                                                           *)
(***************************************************************************)
THEOREM UndisturbedSaves == Spec => UndisturbedSaveKeepsRow
<1>1. Inv /\ [Next]_vars => [\A r \in Requests : UndisturbedSave(r)]_vars
  BY UndisturbedStep
<1> QED BY <1>1, Invariance, PTL DEF Spec, UndisturbedSaveKeepsRow
=============================================================================
