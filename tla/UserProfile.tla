---------------------------- MODULE UserProfile ----------------------------
(***************************************************************************)
(* The per-user record that keymasterd keeps in its database (userProfile  *)
(* in cmd/keymasterd/app.go) and the questions the handlers ask of it.     *)
(*                                                                         *)
(* Secrets are abstract: a U2F registration challenge, a TOTP secret and a *)
(* bootstrap OTP are all members of Random, drawn fresh by genRandomString,*)
(* u2f.NewChallenge or totp.Generate, and None stands for Go's nil.  Only  *)
(* Sha512 of a bootstrap OTP is ever stored.  Time is counted in the       *)
(* seconds of time.Now().Unix().                                           *)
(***************************************************************************)
EXTENDS Naturals

CONSTANTS
    Users,          \* user names
    MaxTime,        \* bound: the last second of the modelled clock
    MaxRandom,      \* bound: how many random values are drawn
    Period,         \* seconds in one TOTP period (defaultPeriod)
    OtpDurations    \* bound: lifetimes, in seconds, given to a bootstrap OTP

ASSUME UserProfileAssumption ==
    /\ Users # {}
    /\ MaxTime \in Nat \ {0}
    /\ MaxRandom \in Nat \ {0}
    /\ Period \in Nat \ {0}
    /\ OtpDurations \subseteq Nat \ {0}

None == 0
Random == 1 .. MaxRandom
Times == 1 .. MaxTime

(* crypto/sha512: an injection whose results are never OTP values. *)
Sha512(value) == MaxRandom + value
Hashes == {Sha512(v) : v \in Random}

-----------------------------------------------------------------------------
(***************************************************************************)
(* U2fAuthData and TOTPAuthData are maps keyed by the creation second; a   *)
(* key that is absent from the map holds Unregistered.  Key names the      *)
(* challenge or the secret with which the token was enrolled.              *)
(***************************************************************************)
AuthData == [Key : Random \cup {None}, Enabled : BOOLEAN]
Unregistered == [Key |-> None, Enabled |-> FALSE]
AuthDataMap == [Times -> AuthData]

bootstrapOTPData == [Sha512Hash : Hashes \cup {None}, ExpiresAt : Nat]
NoBootstrapOTP == [Sha512Hash |-> None, ExpiresAt |-> 0]

userProfile ==
    [U2fAuthData                : AuthDataMap,
     RegistrationChallenge      : Random \cup {None},
     PendingTOTPSecret          : Random \cup {None},
     LastSuccessfullTOTPCounter : Nat,
     TOTPAuthData               : AuthDataMap,
     BootstrapOTP               : bootstrapOTPData,
     UserHasRegistered2ndFactor : BOOLEAN]

defaultProfile ==
    [U2fAuthData                |-> [i \in Times |-> Unregistered],
     RegistrationChallenge      |-> None,
     PendingTOTPSecret          |-> None,
     LastSuccessfullTOTPCounter |-> 0,
     TOTPAuthData               |-> [i \in Times |-> Unregistered],
     BootstrapOTP               |-> NoBootstrapOTP,
     UserHasRegistered2ndFactor |-> FALSE]

-----------------------------------------------------------------------------
(* The keys present in a token map, and whether a profile has any token. *)
Registered(tokens) == {i \in Times : tokens[i].Key # None}
HasTokens(profile) ==
    \/ Registered(profile.U2fAuthData) # {}
    \/ Registered(profile.TOTPAuthData) # {}

(* What one second-factor token map becomes when a token is enrolled, or    *)
(* when the token manager carries out the requested action on it.           *)
Enrol(tokens, index, key) ==
    [tokens EXCEPT ![index] = [Key |-> key, Enabled |-> TRUE]]
ManagedTo(tokens, index, actionName) ==
    CASE actionName = "Update"  -> tokens
      [] actionName = "Disable" -> [tokens EXCEPT ![index].Enabled = FALSE]
      [] actionName = "Enable"  -> [tokens EXCEPT ![index].Enabled = TRUE]
      [] actionName = "Delete"  -> [tokens EXCEPT ![index] = Unregistered]
ActionNames == {"Update", "Disable", "Enable", "Delete"}

(* The hash a bootstrap OTP must match, or None when no OTP may be used.    *)
userBootstrapOtpHash(profile, fromCache, time) ==
    IF \/ HasTokens(profile)
       \/ fromCache
       \/ time >= profile.BootstrapOTP.ExpiresAt
    THEN None
    ELSE profile.BootstrapOTP.Sha512Hash

(* The TOTP period that contains a second.  Second 0 of the modelled clock   *)
(* is one period after the Unix epoch: a profile starts with counter 0.      *)
counter(time) == 1 + (time \div Period)
=============================================================================
