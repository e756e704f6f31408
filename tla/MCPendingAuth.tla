--------------------------- MODULE MCPendingAuth ----------------------------
(***************************************************************************)
(* The three users of a PendingTable for TLC: an initial state chooses     *)
(* which of the tables localAuthData, vipPushCookie and pendingOauth2 this *)
(* one is, and the handlers of the others do not act.                      *)
(***************************************************************************)
EXTENDS U2FSign, VIPPush, FederatedLogin

VARIABLE kind   \* "u2f", "vip" or "oauth2"

allVars == <<kind, u2fVars, vipVars, loginVars>>

InU2F(A) ==
    /\ kind = "u2f" /\ A
    /\ UNCHANGED <<kind, request, approved, auxVars, callback, loggedIn, finished>>
InVIP(A) ==
    /\ kind = "vip" /\ A
    /\ UNCHANGED <<kind, response, settled, callback, loggedIn, finished>>
InLogin(A) ==
    /\ kind = "oauth2" /\ A
    /\ UNCHANGED <<kind, response, settled, request, approved, auxVars>>

MCInit ==
    /\ kind \in {"u2f", "vip", "oauth2"}
    /\ U2FInit
    /\ VIPInit
    /\ LoginInit

CleanupOfKind == InU2F(U2FCleanup) \/ InVIP(VIPCleanup) \/ InLogin(LoginCleanup)
TimeOfKind == InU2F(U2FTime) \/ InVIP(VIPTime) \/ InLogin(LoginTime)

MCNext == InU2F(U2FNext) \/ InVIP(VIPNext) \/ InLogin(LoginNext)

MCSpec ==
    MCInit /\ [][MCNext]_allVars /\ WF_allVars(CleanupOfKind) /\ WF_allVars(TimeOfKind)

(* The type invariants of the three components. *)
MCTypeOK ==
    /\ kind \in {"u2f", "vip", "oauth2"}
    /\ kind = "u2f" => U2FTypeOK
    /\ kind = "vip" => VIPTypeOK
    /\ kind = "oauth2" => LoginTypeOK

-----------------------------------------------------------------------------
(* The properties of the components, for TLC: each is explained where it is *)
(* defined.                                                                 *)

(***************************************************************************)
(* An entry that was answered and removed is not found again, unless its   *)
(* removal raced: a challenge (U2FSign) is not checked against again, and  *)
(* a pending login (FederatedLogin) not taken to the provider again.       *)
(***************************************************************************)
AnsweredGone ==
    [][/\ kind = "u2f" => FindsOpenChallenges
       /\ kind = "oauth2" => FindsOpenLogins]_allVars

(* U2FSign: a challenge is accepted at most one cleanup after it expired    *)
(* (u2fSignResponse relies on performStateCleanup).                         *)
FoundInTime == [][kind = "u2f" => FindsInTime]_allVars

(***************************************************************************)
(* An entry that has not expired leaves its table only by what it waits    *)
(* for: an accepted answer to a challenge (u2fSignResponse), nothing for a *)
(* push that is polled (startVIPPush), a login that worked                 *)
(* (oauth2RedirectPathHandler; an error of the provider leaves it there).  *)
(***************************************************************************)
PendingKept ==
    [][/\ kind = "u2f" => KeepsChallenges
       /\ kind = "vip" => KeepsTransactions
       /\ kind = "oauth2" => KeepsLogins]_allVars

(* VIPPush: polls ask about the last push, unless start requests overlapped *)
(* (vipPushStartHandler and startVIPPush lock separately).                  *)
PolledIsLastPush == kind = "vip" => PollsLastPush
=============================================================================
