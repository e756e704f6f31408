------------------------------ MODULE U2FSign ------------------------------
(***************************************************************************)
(* Authentication with a registered U2F token (cmd/keymasterd/2fa_u2f.go). *)
(* u2fSignRequest files a fresh challenge under the user's name in         *)
(* localAuthData; u2fSignResponse looks it up, checks the token's signature*)
(* over it, and removes the user's entry.                                  *)
(*                                                                         *)
(* The removal does not hold state.Mutex.  Another write of the map at the *)
(* same time is a data race, whose outcomes are: the runtime notices and   *)
(* ends the process (U2FCrash), the removal is lost, the challenge that    *)
(* was stored meanwhile is lost, or all is well.                           *)
(***************************************************************************)
EXTENDS PendingTable

CONSTANT Responses   \* bound: u2fSignResponse calls that may be in progress

VARIABLES
    response,  \* response -> its local state
    settled    \* history: challenges whose removal, after they were answered,
               \* did not race with another access

u2fVars == <<tableVars, response, settled>>

ResponseState ==
    [pc : {"checking", "deleting"}, user : Keys, value : Values,
     replaced : BOOLEAN, raced : BOOLEAN, beside : SUBSET Keys]

NoResponse == [pc |-> "idle"]

U2FTypeOK ==
    /\ TableTypeOK
    /\ \A r \in Responses : response[r] \in ResponseState \cup {NoResponse}
    /\ settled \subseteq Values

U2FInit ==
    /\ TableInit
    /\ response = [r \in Responses |-> NoResponse]
    /\ settled = {}

Deleting(r) == response[r].pc = "deleting"
Active(r) == response[r].pc # "idle"

(* What the responses in progress become when something else writes the     *)
(* map, storing challenges of the users U: removals under way have raced.   *)
(* If it stores one of user u, the responses of u will remove a challenge   *)
(* they know nothing of.                                                    *)
Raced(U) ==
    [r \in Responses |->
        IF Deleting(r) THEN [response[r] EXCEPT !.raced = TRUE, !.beside = @ \cup U]
                       ELSE response[r]]
Replaced(u) ==
    [r \in Responses |->
        IF Active(r) /\ response[r].user = u
        THEN [Raced({u})[r] EXCEPT !.replaced = TRUE] ELSE Raced({u})[r]]

-----------------------------------------------------------------------------
(* Mutant: the same challenge is used every time. *)
u2fSignRequestConstant(u) ==
    /\ Store(u, MaxValue)
    /\ response' = Replaced(u)
    /\ UNCHANGED <<now, nextCleanup, drawn, claimed, settled>>

u2fSignRequest(u) ==
    /\ drawn < MaxValue
    /\ drawn' = drawn + 1
    /\ Store(u, drawn + 1)
    /\ response' = Replaced(u)
    /\ UNCHANGED <<now, nextCleanup, claimed, settled>>

(* u2fSignResponse, up to the lookup.  Without an entry it returns. *)
LookupChallenge(r, u) ==
    /\ ~Active(r)
    /\ Lookup(u)
    /\ response' = [response EXCEPT ![r] =
                       [pc |-> "checking", user |-> u, value |-> pending[u].value,
                        replaced |-> FALSE, raced |-> FALSE, beside |-> {}]]
    /\ UNCHANGED <<now, nextCleanup, pending, drawn, stored, settled>>

(* Mutant: the entry is left in the table. *)
AuthenticateOnly(r) ==
    /\ response[r].pc = "checking"
    /\ response' = [response EXCEPT ![r] = NoResponse]
    /\ settled' = settled \cup {response[r].value}
    /\ UNCHANGED tableVars

(* The signature is checked, with each registered token in turn. *)
Authenticate(r) ==
    /\ response[r].pc = "checking"
    /\ \/ response' = [response EXCEPT ![r].pc = "deleting"]
       \/ response' = [response EXCEPT ![r] = NoResponse]
    /\ UNCHANGED <<tableVars, settled>>

(* The removal has come to its end, and the session gets the U2F level. *)
DeleteChallenge(r) ==
    LET me == response[r] IN
    /\ Deleting(r)
    /\ \E lost \in SUBSET me.beside :
          \/ pending' = Without({me.user} \cup lost)
          \/ me.raced /\ pending' = Without(lost)
    /\ response' = [Raced({}) EXCEPT ![r] = NoResponse]
    /\ settled' = IF me.raced THEN settled ELSE settled \cup {me.value}
    /\ UNCHANGED <<now, nextCleanup, drawn, stored, claimed>>

-----------------------------------------------------------------------------
U2FCleanup ==
    /\ performStateCleanup
    /\ response' = IF ExpiredKeys = {} THEN response ELSE Raced({})
    /\ UNCHANGED settled

U2FCrash ==
    /\ TableCrash
    /\ response' = [r \in Responses |-> NoResponse]
    /\ UNCHANGED settled

U2FTime == Tick /\ UNCHANGED <<response, settled>>

u2fSignResponse(r) ==
    (\E u \in Keys : LookupChallenge(r, u)) \/ Authenticate(r) \/ DeleteChallenge(r)

U2FNext ==
    \/ \E u \in Keys : u2fSignRequest(u)
    \/ \E r \in Responses : u2fSignResponse(r)
    \/ U2FCleanup
    \/ U2FCrash
    \/ U2FTime

U2FSpec ==
    /\ U2FInit /\ [][U2FNext]_u2fVars
    /\ WF_u2fVars(U2FCleanup) /\ WF_u2fVars(U2FTime)

-----------------------------------------------------------------------------
(* Response r finds a challenge in this step. *)
FindsChallenge(r) == ~Active(r) /\ response'[r].pc = "checking"

(***************************************************************************)
(* A challenge that has been answered and removed is never checked against *)
(* again, unless its removal raced with another write of the map           *)
(* (u2fSignResponse).                                                      *)
(***************************************************************************)
FindsOpenChallenges ==
    \A r \in Responses : FindsChallenge(r) => response'[r].value \notin settled

(***************************************************************************)
(* A challenge is accepted no later than secsBetweenCleanup seconds after  *)
(* it has expired: u2fSignResponse does not compare the time, and relies on*)
(* performStateCleanup.                                                    *)
(***************************************************************************)
FindsInTime ==
    \A r \in Responses :
        FindsChallenge(r) => now <= pending[response'[r].user].ExpiresAt + secsBetweenCleanup

(***************************************************************************)
(* A challenge that has not expired is taken from its user only by an      *)
(* accepted answer: to that challenge; to an older one of the user that was*)
(* looked up before the challenge was stored (u2fSignResponse removes      *)
(* whatever the user's entry is); or by one whose unlocked removal was     *)
(* under way when the challenge was stored.                                *)
(***************************************************************************)
KeepsChallenges ==
    U2FCrash \/ \A u \in Keys :
        pending[u] # NoEntry /\ pending'[u] = NoEntry /\ ~Expired(pending[u])
          => \E r \in Responses :
                /\ Deleting(r)
                /\ \/ /\ response[r].user = u
                      /\ response[r].replaced \/ response[r].value = pending[u].value
                   \/ u \in response[r].beside
=============================================================================
