-------------------------- MODULE ProfileHandlers --------------------------
(***************************************************************************)
(* The handlers of keymasterd that change a user's profile: enrolment and  *)
(* management of U2F and TOTP tokens, TOTP validation, bootstrap OTPs and   *)
(* user administration.                                                    *)
(*                                                                         *)
(* Every one of them loads the profile, works on its own copy and saves    *)
(* the whole copy, and net/http runs each request in a goroutine of its    *)
(* own: nothing is locked between the load and the save.  A request is     *)
(* therefore three steps, load, work and save, between which the clock     *)
(* runs, other requests step, the cache is refreshed and the daemon may    *)
(* crash.  Which handler a request belongs to is chosen at its second step:*)
(* up to there all of them have only called LoadUserProfile.               *)
(*                                                                         *)
(* An early return of a handler, whatever its cause (a profile read from   *)
(* the cache, a bad index, no pending challenge, a wrong code, an email    *)
(* that could not be sent), writes nothing and is EarlyReturn.  Who may    *)
(* call a handler for which user is the subject of checkAuth, not of this  *)
(* module.                                                                 *)
(***************************************************************************)
EXTENDS ProfileStore

CONSTANTS
    Requests,                       \* bound: requests that may be in progress
    Called,                         \* bound: the handlers that are called
    AllowSelfServiceBootstrapOTP    \* configuration of the daemon

Handlers ==
    {"u2fRegisterRequest", "u2fRegisterResponse", "u2fTokenManagerHandler",
     "GenerateNewTOTP", "validateNewTOTP", "totpTokenManagerHandler",
     "validateUserTOTP", "BootstrapOtpAuthHandler",
     "trySelfServiceGenerateBootstrapOTP", "generateBootstrapOTP",
     "addUserHandler", "deleteUserHandler"}

ASSUME HandlersAssumption ==
    /\ Called \subseteq Handlers
    /\ AllowSelfServiceBootstrapOTP \in BOOLEAN

VARIABLES
    now,            \* the clock, in seconds
    drawn,          \* how many random values have been drawn
    req,            \* request -> its local state
    issued,         \* history: random value -> what it was drawn for
    accepted,       \* history: random value -> times it was accepted as an OTP
    overlapped      \* history: users on whose row a stale save landed

vars == <<db, cache, copy, now, drawn, req, issued, accepted, overlapped>>
requestVars == <<now, drawn, issued, accepted, overlapped>>

(***************************************************************************)
(* A request's local state.  profile, existing and fromCache are the       *)
(* results of LoadUserProfile, profile being the handler's own copy from   *)
(* then on; t is a second before the load at which the clock was read (as  *)
(* internalTOTPAuthHandler does for the call of validateUserTOTP);         *)
(* op and index name the handler and the token it works on; grant is the   *)
(* OTP a successful save will have consumed.  stale is history: the row    *)
(* changed after this request had loaded it.                               *)
(***************************************************************************)
RequestState ==
    [pc : {"idle", "loaded", "saving"}, user : Users, profile : userProfile,
     existing : BOOLEAN, fromCache : BOOLEAN, t : Times, op : Handlers \cup {"none"},
     index : Times \cup {0}, grant : Random \cup {None}, stale : BOOLEAN]
Purposes == {"none", "challenge", "secret", "otp"}
Acceptances == {"never", "once", "again"}

TypeOK ==
    /\ StoreTypeOK
    /\ now \in Times
    /\ drawn \in 0 .. MaxRandom
    /\ req \in [Requests -> RequestState]
    /\ issued \in [Random -> [user : Users, purpose : Purposes]]
    /\ accepted \in [Random -> Acceptances]
    /\ overlapped \in SUBSET Users

-----------------------------------------------------------------------------
Idle(u) ==
    [pc |-> "idle", user |-> u, profile |-> defaultProfile,
     existing |-> FALSE, fromCache |-> FALSE, t |-> 1, op |-> "none", index |-> 0,
     grant |-> None, stale |-> FALSE]
AnyUser == CHOOSE u \in Users : TRUE

Init ==
    /\ StoreInit
    /\ now = 1
    /\ drawn = 0
    /\ req = [r \in Requests |-> Idle(AnyUser)]
    /\ issued = [v \in Random |-> [user |-> AnyUser, purpose |-> "none"]]
    /\ accepted = [v \in Random |-> "never"]
    /\ overlapped = {}

(* Every request in progress on u has an outdated copy: its row is written. *)
Outdated(u) ==
    [s \in Requests |-> IF req[s].pc # "idle" /\ req[s].user = u
                        THEN [req[s] EXCEPT !.stale = TRUE]
                        ELSE req[s]]

-----------------------------------------------------------------------------
(* The seconds t may be: of interest only where validateUserTOTP is called. *)
ClockReads == IF "validateUserTOTP" \in Called THEN 1 .. now ELSE {1}

LoadUserProfile(r) ==
    /\ req[r].pc = "idle"
    /\ \E u \in Users : \E result \in LoadOutcomes(u), t \in ClockReads :
          req' = [req EXCEPT ![r] =
                    [Idle(u) EXCEPT !.pc = "loaded", !.t = t,
                                    !.profile = result.profile,
                                    !.existing = result.existing,
                                    !.fromCache = result.fromCache]]
    /\ UNCHANGED <<storeVars, requestVars>>

(* The request turns out to be one for the handler op. *)
Runs(r, op) ==
    /\ op \in Called
    /\ req[r].pc = "loaded"

EarlyReturn(r) ==
    /\ req[r].pc = "loaded"
    /\ req' = [req EXCEPT ![r] = Idle(AnyUser)]
    /\ UNCHANGED <<storeVars, requestVars>>

(* The handler op is about to save profile. *)
ToSave(r, op, index, grant, profile) ==
    req' = [req EXCEPT ![r] =
              [@ EXCEPT !.pc = "saving", !.op = op, !.index = index,
                        !.grant = grant, !.profile = profile]]

(* A random value is drawn for the user of r. *)
Draw(r, purpose) ==
    /\ drawn < MaxRandom
    /\ drawn' = drawn + 1
    /\ issued' = [issued EXCEPT ![drawn'] =
                    [user |-> req[r].user, purpose |-> purpose]]

-----------------------------------------------------------------------------
(***************************************************************************)
(* U2F and TOTP enrolment.  The new token is filed under the current       *)
(* second; the pending challenge or secret is used up.                     *)
(***************************************************************************)
u2fRegisterRequest(r) ==
    LET q == req[r] IN
    /\ Runs(r, "u2fRegisterRequest")
    /\ ~q.fromCache
    /\ Draw(r, "challenge")
    /\ ToSave(r, "u2fRegisterRequest", 0, None,
              [q.profile EXCEPT !.RegistrationChallenge = drawn'])
    /\ UNCHANGED <<storeVars, now, accepted, overlapped>>

(* Mutant: the challenge stays pending. *)
u2fRegisterResponseKeepsChallenge(r) ==
    LET q == req[r] IN
    /\ Runs(r, "u2fRegisterResponse")
    /\ ~q.fromCache
    /\ q.profile.RegistrationChallenge # None
    /\ ToSave(r, "u2fRegisterResponse", now, None,
              [q.profile EXCEPT
                 !.U2fAuthData = Enrol(@, now, q.profile.RegistrationChallenge),
                 !.UserHasRegistered2ndFactor = TRUE])
    /\ UNCHANGED <<storeVars, requestVars>>

u2fRegisterResponse(r) ==
    LET q == req[r] IN
    /\ Runs(r, "u2fRegisterResponse")
    /\ ~q.fromCache
    /\ q.profile.RegistrationChallenge # None
    /\ ToSave(r, "u2fRegisterResponse", now, None,
              [q.profile EXCEPT
                 !.U2fAuthData = Enrol(@, now, q.profile.RegistrationChallenge),
                 !.RegistrationChallenge = None,
                 !.UserHasRegistered2ndFactor = TRUE])
    /\ UNCHANGED <<storeVars, requestVars>>

GenerateNewTOTP(r) ==
    LET q == req[r] IN
    /\ Runs(r, "GenerateNewTOTP")
    /\ ~q.fromCache
    /\ Draw(r, "secret")
    /\ ToSave(r, "GenerateNewTOTP", 0, None,
              [q.profile EXCEPT !.PendingTOTPSecret = drawn'])
    /\ UNCHANGED <<storeVars, now, accepted, overlapped>>

validateNewTOTP(r) ==
    LET q == req[r] IN
    /\ Runs(r, "validateNewTOTP")
    /\ ~q.fromCache
    /\ q.profile.PendingTOTPSecret # None
    /\ ToSave(r, "validateNewTOTP", now, None,
              [q.profile EXCEPT
                 !.TOTPAuthData = Enrol(@, now, q.profile.PendingTOTPSecret),
                 !.PendingTOTPSecret = None,
                 !.UserHasRegistered2ndFactor = TRUE])
    /\ UNCHANGED <<storeVars, requestVars>>

-----------------------------------------------------------------------------
(***************************************************************************)
(* Token management.  The index and the action come from the form.  Names  *)
(* of tokens are not modelled, so "Update" saves the copy as loaded.       *)
(***************************************************************************)
(* Mutant: a profile from the cache is changed and saved. *)
u2fTokenManagerHandlerOnCache(r) ==
    LET q == req[r] IN
    /\ Runs(r, "u2fTokenManagerHandler")
    /\ \E index \in Registered(q.profile.U2fAuthData), name \in ActionNames :
          ToSave(r, "u2fTokenManagerHandler", index, None,
                 [q.profile EXCEPT !.U2fAuthData = ManagedTo(@, index, name)])
    /\ UNCHANGED <<storeVars, requestVars>>

u2fTokenManagerHandler(r) ==
    LET q == req[r] IN
    /\ Runs(r, "u2fTokenManagerHandler")
    /\ ~q.fromCache
    /\ \E index \in Registered(q.profile.U2fAuthData), name \in ActionNames :
          ToSave(r, "u2fTokenManagerHandler", index, None,
                 [q.profile EXCEPT !.U2fAuthData = ManagedTo(@, index, name)])
    /\ UNCHANGED <<storeVars, requestVars>>

(* Mutant: a profile from the cache is changed and saved. *)
totpTokenManagerHandlerOnCache(r) ==
    LET q == req[r] IN
    /\ Runs(r, "totpTokenManagerHandler")
    /\ \E index \in Registered(q.profile.TOTPAuthData), name \in ActionNames :
          ToSave(r, "totpTokenManagerHandler", index, None,
                 [q.profile EXCEPT !.TOTPAuthData = ManagedTo(@, index, name)])
    /\ UNCHANGED <<storeVars, requestVars>>

totpTokenManagerHandler(r) ==
    LET q == req[r] IN
    /\ Runs(r, "totpTokenManagerHandler")
    /\ ~q.fromCache
    /\ \E index \in Registered(q.profile.TOTPAuthData), name \in ActionNames :
          ToSave(r, "totpTokenManagerHandler", index, None,
                 [q.profile EXCEPT !.TOTPAuthData = ManagedTo(@, index, name)])
    /\ UNCHANGED <<storeVars, requestVars>>

(***************************************************************************)
(* A TOTP login that finds a matching enabled device records the period,   *)
(* unless the profile came from the cache: then the login is granted       *)
(* without a save.  The rate limit, which may refuse any attempt, is       *)
(* modelled in TOTPValidation.                                             *)
(***************************************************************************)
validateUserTOTP(r) ==
    LET q == req[r] IN
    /\ Runs(r, "validateUserTOTP")
    /\ q.profile.LastSuccessfullTOTPCounter # counter(q.t)
    /\ \E i \in Times : q.profile.TOTPAuthData[i].Enabled
    /\ IF q.fromCache
       THEN req' = [req EXCEPT ![r] = Idle(AnyUser)]
       ELSE ToSave(r, "validateUserTOTP", 0, None,
                   [q.profile EXCEPT
                      !.LastSuccessfullTOTPCounter = counter(q.t)])
    /\ UNCHANGED <<storeVars, requestVars>>

-----------------------------------------------------------------------------
(***************************************************************************)
(* Bootstrap OTPs.  A generated OTP reaches the user (by email, or on the  *)
(* administrator's page) whether or not the save that follows succeeds.    *)
(***************************************************************************)
NewBootstrapOTP(duration) ==
    [Sha512Hash |-> Sha512(drawn'), ExpiresAt |-> now + duration]

trySelfServiceGenerateBootstrapOTP(r) ==
    LET q == req[r] IN
    /\ Runs(r, "trySelfServiceGenerateBootstrapOTP")
    /\ ~q.fromCache
    /\ AllowSelfServiceBootstrapOTP
    /\ ~HasTokens(q.profile)
    /\ ~q.profile.UserHasRegistered2ndFactor
    /\ userBootstrapOtpHash(q.profile, FALSE, now) = None
    /\ Draw(r, "otp")
    /\ \E duration \in OtpDurations :
          ToSave(r, "trySelfServiceGenerateBootstrapOTP", 0, None,
                 [q.profile EXCEPT !.BootstrapOTP = NewBootstrapOTP(duration)])
    /\ UNCHANGED <<storeVars, now, accepted, overlapped>>

generateBootstrapOTP(r) ==
    LET q == req[r] IN
    /\ Runs(r, "generateBootstrapOTP")
    /\ q.existing
    /\ ~q.fromCache
    /\ ~HasTokens(q.profile)
    /\ Draw(r, "otp")
    /\ \E duration \in OtpDurations :
          ToSave(r, "generateBootstrapOTP", 0, None,
                 [q.profile EXCEPT !.BootstrapOTP = NewBootstrapOTP(duration)])
    /\ UNCHANGED <<storeVars, now, accepted, overlapped>>

(* Mutant: the OTP stays in the profile. *)
BootstrapOtpAuthHandlerKeepsOTP(r) ==
    LET q == req[r] IN
    /\ Runs(r, "BootstrapOtpAuthHandler")
    /\ ~q.fromCache
    /\ \E otp \in Random :
          /\ Sha512(otp) = userBootstrapOtpHash(q.profile, q.fromCache, now)
          /\ ToSave(r, "BootstrapOtpAuthHandler", 0, otp, q.profile)
    /\ UNCHANGED <<storeVars, requestVars>>

(* The user presents otp; the hash is cleared before the login is granted.  *)
BootstrapOtpAuthHandler(r) ==
    LET q == req[r] IN
    /\ Runs(r, "BootstrapOtpAuthHandler")
    /\ ~q.fromCache
    /\ \E otp \in Random :
          /\ Sha512(otp) = userBootstrapOtpHash(q.profile, q.fromCache, now)
          /\ ToSave(r, "BootstrapOtpAuthHandler", 0, otp,
                    [q.profile EXCEPT !.BootstrapOTP = NoBootstrapOTP])
    /\ UNCHANGED <<storeVars, requestVars>>

-----------------------------------------------------------------------------
(* User administration.  deleteUserHandler does not load the profile. *)
addUserHandler(r) ==
    LET q == req[r] IN
    /\ Runs(r, "addUserHandler")
    /\ ~q.existing
    /\ ~q.fromCache
    /\ ToSave(r, "addUserHandler", 0, None, q.profile)
    /\ UNCHANGED <<storeVars, requestVars>>

deleteUserHandler(u) ==
    /\ "deleteUserHandler" \in Called
    /\ DeleteUserProfile(u)
    /\ req' = Outdated(u)
    /\ UNCHANGED requestVars

-----------------------------------------------------------------------------
(* Mutant: the profile is saved under any user's name. *)
WrittenToAnyone(r) ==
    /\ \E u \in Users : SaveUserProfile(u, req[r].profile)
    /\ req' = [Outdated(req[r].user) EXCEPT ![r] = Idle(AnyUser)]
    /\ overlapped' = IF req[r].stale THEN overlapped \cup {req[r].user}
                     ELSE overlapped

(***************************************************************************)
(* The save that ends a handler.  Only when SaveUserProfile returns no     *)
(* error does BootstrapOtpAuthHandler raise the level of the auth cookie.  *)
(***************************************************************************)
Written(r) ==
    LET u == req[r].user IN
    /\ SaveUserProfile(u, req[r].profile)
    /\ req' = [Outdated(u) EXCEPT ![r] = Idle(AnyUser)]
    /\ overlapped' = IF req[r].stale THEN overlapped \cup {u} ELSE overlapped

Accept(otp) ==
    accepted' = IF otp = None THEN accepted
                ELSE [accepted EXCEPT ![otp] =
                        IF @ = "never" THEN "once" ELSE "again"]

SaveOk(r) ==
    /\ req[r].pc = "saving"
    /\ Written(r)
    /\ Accept(req[r].grant)
    /\ UNCHANGED <<now, drawn, issued>>

SaveError(r) ==
    /\ req[r].pc = "saving"
    /\ \/ Written(r)
       \/ /\ req' = [req EXCEPT ![r] = Idle(AnyUser)]
          /\ UNCHANGED <<storeVars, overlapped>>
    /\ UNCHANGED <<now, drawn, issued, accepted>>

-----------------------------------------------------------------------------
(* The daemon's background copy, its clock, and a crash: what was in memory *)
(* is gone, both databases are as they were.                                *)
BackgroundDBCopy ==
    /\ copyDBIntoSQLite
    /\ UNCHANGED <<requestVars, req>>

Tick ==
    /\ now < MaxTime
    /\ now' = now + 1
    /\ UNCHANGED <<storeVars, drawn, req, issued, accepted, overlapped>>

Crash ==
    /\ req' = [r \in Requests |-> Idle(AnyUser)]
    /\ copy' = NoCopy
    /\ UNCHANGED <<db, cache, requestVars>>

Work(r) ==
    \/ EarlyReturn(r)
    \/ u2fRegisterRequest(r)
    \/ u2fRegisterResponse(r)
    \/ u2fTokenManagerHandler(r)
    \/ GenerateNewTOTP(r)
    \/ validateNewTOTP(r)
    \/ totpTokenManagerHandler(r)
    \/ validateUserTOTP(r)
    \/ trySelfServiceGenerateBootstrapOTP(r)
    \/ generateBootstrapOTP(r)
    \/ BootstrapOtpAuthHandler(r)
    \/ addUserHandler(r)

Next ==
    \/ \E r \in Requests : LoadUserProfile(r) \/ Work(r) \/ SaveOk(r) \/ SaveError(r)
    \/ \E u \in Users : deleteUserHandler(u)
    \/ BackgroundDBCopy
    \/ Tick
    \/ Crash

Spec == Init /\ [][Next]_vars

-----------------------------------------------------------------------------
(* Every profile of u there is: stored, being copied, or held by a request. *)
Held(u) ==
    ({db[u], cache[u]}
       \cup {copy[u] : c \in {copy} \ {NoCopy}}
       \cup {req[r].profile : r \in {s \in Requests : /\ req[s].pc # "idle"
                                                      /\ req[s].user = u}})
    \ {NoRow}

DistinctKeys(tokens, pending) ==
    \A i \in Registered(tokens) :
        /\ tokens[i].Key # pending
        /\ \A j \in Registered(tokens) : tokens[i].Key = tokens[j].Key => i = j

Consistent(profile) ==
    /\ DistinctKeys(profile.U2fAuthData, profile.RegistrationChallenge)
    /\ DistinctKeys(profile.TOTPAuthData, profile.PendingTOTPSecret)
    /\ HasTokens(profile) => profile.UserHasRegistered2ndFactor

(***************************************************************************)
(* No challenge and no TOTP secret enrols two tokens, or stays pending     *)
(* once it has enrolled one, and a profile with a token is marked as       *)
(* having registered a second factor (so that self-service bootstrap OTPs  *)
(* are over for it).  This holds of every copy of a profile there is,      *)
(* whichever saves overlapped: u2fRegisterResponse and validateNewTOTP     *)
(* change all of these fields in one save.                                 *)
(***************************************************************************)
ProfilesConsistent == \A u \in Users : \A p \in Held(u) : Consistent(p)

(* Every key of a token map, and the pending one, are in the set keys. *)
KeysFrom(keys, tokens, pending) ==
    /\ \A i \in Registered(tokens) : tokens[i].Key \in keys
    /\ pending \in keys \cup {None}

(* The random values that were drawn for a user and a purpose. *)
DrawnFor(log, u, purpose) ==
    {v \in Random : log[v] = [user |-> u, purpose |-> purpose]}

Owned(log, u, profile) ==
    /\ KeysFrom(DrawnFor(log, u, "challenge"),
                profile.U2fAuthData, profile.RegistrationChallenge)
    /\ KeysFrom(DrawnFor(log, u, "secret"),
                profile.TOTPAuthData, profile.PendingTOTPSecret)
    /\ profile.BootstrapOTP.Sha512Hash \in
          {Sha512(v) : v \in DrawnFor(log, u, "otp")} \cup {None}

(***************************************************************************)
(* Whatever a profile of a user holds was drawn for that user and for that *)
(* use: a U2F token or pending registration comes from a registration      *)
(* challenge, a TOTP token or pending secret from a TOTP secret, the       *)
(* bootstrap OTP hash from an OTP.  No handler, interleaving, refresh of   *)
(* the cache or crash moves a credential to another user.                  *)
(***************************************************************************)
CredentialsIssuedToOwner ==
    \A u \in Users : \A p \in Held(u) : Owned(issued, u, p)

(***************************************************************************)
(* A bootstrap OTP is accepted once: BootstrapOtpAuthHandler clears it     *)
(* before it grants the login, and neither a profile read from the cache,  *)
(* nor an uncertain save, nor a crash brings it back.  The one way to have *)
(* it accepted again is a save that lands on top of a row that was written *)
(* after that save's handler had loaded it.                                *)
(***************************************************************************)
OtpAcceptedOnce ==
    \A v \in Random :
        accepted[v] = "again" => issued[v].user \in overlapped

(* A token of before is gone in after, and it is not the one q works on.    *)
LosesToken(q, handlers, before, after) ==
    \E i \in Registered(before) :
        /\ after[i].Key # before[i].Key
        /\ ~(q.op \in handlers /\ q.index = i)

KeepsRow(q, before, after) ==
    /\ ~LosesToken(q, {"u2fRegisterResponse", "u2fTokenManagerHandler"},
                   before.U2fAuthData, after.U2fAuthData)
    /\ ~LosesToken(q, {"validateNewTOTP", "totpTokenManagerHandler"},
                   before.TOTPAuthData, after.TOTPAuthData)
    /\ before.UserHasRegistered2ndFactor => after.UserHasRegistered2ndFactor

UndisturbedSave(r) ==
    LET u == req[r].user IN
    (req[r].pc = "saving" /\ ~req[r].stale /\ req'[r].pc = "idle")
      => \/ db[u] = NoRow
         \/ db'[u] = db[u]
         \/ db'[u] # NoRow /\ KeepsRow(req[r], db[u], db'[u])

(***************************************************************************)
(* What a save by a request whose copy is not outdated may take from the   *)
(* row: a token only if the request deletes that token, or enrols one in   *)
(* the same second; the mark of a registered second factor never.  In      *)
(* particular nothing read from the cache is written back over newer data. *)
(***************************************************************************)
UndisturbedSaveKeepsRow == [][\A r \in Requests : UndisturbedSave(r)]_vars
=============================================================================
