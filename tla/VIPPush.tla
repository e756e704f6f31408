------------------------------ MODULE VIPPush ------------------------------
(***************************************************************************)
(* Authentication with a push message to the user's telephone              *)
(* (cmd/keymasterd/2fa_vip.go).  vipPushStartHandler asks the VIP service  *)
(* to send a push, unless vipPushCookie holds a transaction for the        *)
(* client's cookie, and files the new transaction under it;                *)
(* VIPPollCheckHandler asks the service about the filed transaction, again *)
(* and again, until the user has approved the push.                        *)
(***************************************************************************)
EXTENDS PendingTable, Sequences

CONSTANT Requests   \* bound: start and poll requests that may be in progress

VARIABLES
    request,   \* request -> its local state
    approved,  \* transactions that the user has approved
    granted,   \* history: cookies whose session has got the VIP level
    pushed,    \* history: the cookies for which pushes were sent, in order
    crowded    \* history: cookies for which two start requests overlapped

auxVars == <<granted, pushed, crowded>>
vipVars == <<tableVars, request, approved, auxVars>>

NoRequest == [pc |-> "idle"]

RequestState ==
    [pc : {"starting", "storing", "polling"}, cookie : Keys, value : Values \cup {0}]

VIPTypeOK ==
    /\ TableTypeOK
    /\ \A r \in Requests : request[r] \in RequestState \cup {NoRequest}
    /\ approved \subseteq 1 .. drawn
    /\ granted \subseteq Keys
    /\ pushed \in Seq(Keys) /\ Len(pushed) = drawn
    /\ crowded \subseteq Keys

VIPInit ==
    /\ TableInit
    /\ request = [r \in Requests |-> NoRequest]
    /\ approved = {}
    /\ granted = {}
    /\ pushed = << >>
    /\ crowded = {}

Starting(r, k) == request[r] # NoRequest /\ request[r].cookie = k /\ request[r].pc # "polling"

-----------------------------------------------------------------------------
Start(r, k) ==
    /\ request' = [request EXCEPT ![r] = [pc |-> "starting", cookie |-> k, value |-> 0]]
    /\ crowded' = IF \E q \in Requests : Starting(q, k) THEN crowded \cup {k} ELSE crowded
    /\ UNCHANGED <<tableVars, approved, granted, pushed>>

(* Mutant: a push is started whether or not there is a transaction. *)
vipPushStartHandlerAlways(r, k) ==
    /\ request[r] = NoRequest
    /\ Start(r, k)

(* vipPushStartHandler, up to startVIPPush.  If there is a transaction it   *)
(* returns.                                                                 *)
vipPushStartHandler(r, k) ==
    /\ request[r] = NoRequest
    /\ pending[k] = NoEntry
    /\ Start(r, k)

StartUserVIPPush(r) ==
    /\ request[r].pc = "starting"
    /\ \/ /\ drawn < MaxValue
          /\ drawn' = drawn + 1
          /\ pushed' = Append(pushed, request[r].cookie)
          /\ request' = [request EXCEPT ![r].pc = "storing", ![r].value = drawn + 1]
       \/ /\ request' = [request EXCEPT ![r] = NoRequest]
          /\ UNCHANGED <<drawn, pushed>>
    /\ UNCHANGED <<now, nextCleanup, pending, stored, claimed, approved, granted, crowded>>

(* The rest of startVIPPush. *)
startVIPPush(r) ==
    /\ request[r].pc = "storing"
    /\ Store(request[r].cookie, request[r].value)
    /\ request' = [request EXCEPT ![r] = NoRequest]
    /\ UNCHANGED <<now, nextCleanup, drawn, claimed, approved, auxVars>>

(* The user's answer, on the telephone, to a push that was sent. *)
Approve(v) ==
    /\ v <= drawn
    /\ approved' = approved \cup {v}
    /\ UNCHANGED <<tableVars, request, auxVars>>

-----------------------------------------------------------------------------
(* VIPPollCheckHandler, up to the question to the service. *)
getPushPollTransaction(r, k) ==
    /\ request[r] = NoRequest
    /\ Lookup(k)
    /\ request' = [request EXCEPT ![r] = [pc |-> "polling", cookie |-> k,
                                          value |-> pending[k].value]]
    /\ UNCHANGED <<now, nextCleanup, pending, drawn, stored, approved, auxVars>>

(* Mutant: an answer that is not an error counts as approval. *)
VIPPollCheckHandlerAny(r) ==
    /\ request[r].pc = "polling"
    /\ granted' = granted \cup {request[r].cookie}
    /\ request' = [request EXCEPT ![r] = NoRequest]
    /\ UNCHANGED <<tableVars, approved, pushed, crowded>>

(* The service's answer, or an error. *)
VIPPollCheckHandler(r) ==
    /\ request[r].pc = "polling"
    /\ \/ /\ request[r].value \in approved
          /\ granted' = granted \cup {request[r].cookie}
       \/ UNCHANGED granted
    /\ request' = [request EXCEPT ![r] = NoRequest]
    /\ UNCHANGED <<tableVars, approved, pushed, crowded>>

-----------------------------------------------------------------------------
VIPCleanup == performStateCleanup /\ UNCHANGED <<request, approved, auxVars>>

VIPCrash ==
    /\ TableCrash
    /\ request' = [r \in Requests |-> NoRequest]
    /\ UNCHANGED <<approved, auxVars>>

VIPTime == Tick /\ UNCHANGED <<request, approved, auxVars>>

VIPNext ==
    \/ \E r \in Requests, k \in Keys :
          vipPushStartHandler(r, k) \/ getPushPollTransaction(r, k)
    \/ \E r \in Requests :
          StartUserVIPPush(r) \/ startVIPPush(r) \/ VIPPollCheckHandler(r)
    \/ \E v \in Values : Approve(v)
    \/ VIPCleanup
    \/ VIPCrash
    \/ VIPTime

VIPSpec ==
    /\ VIPInit /\ [][VIPNext]_vipVars
    /\ WF_vipVars(VIPCleanup) /\ WF_vipVars(VIPTime)

-----------------------------------------------------------------------------
(***************************************************************************)
(* The transaction that polls ask about is the one of the last push that   *)
(* the user was sent for this cookie, unless two start requests for the    *)
(* cookie overlapped (vipPushStartHandler checks, and startVIPPush files,  *)
(* under separate holds of the mutex).                                     *)
(***************************************************************************)
PollsLastPush ==
    \A k \in Keys \ crowded :
        pending[k] # NoEntry => /\ pushed[pending[k].value] = k
                                /\ \A v \in 1 .. drawn : pushed[v] = k => v <= pending[k].value

(***************************************************************************)
(* A filed transaction stays under its cookie until it expires, so that the*)
(* client can poll it, unless start requests for the cookie overlapped.    *)
(***************************************************************************)
KeepsTransactions ==
    VIPCrash \/ \A k \in Keys \ crowded :
        pending[k] # NoEntry /\ pending'[k] # pending[k] => Expired(pending[k])

(***************************************************************************)
(* A session gets the VIP level only if the user approved a push that was  *)
(* sent for its cookie (VIPPollCheckHandler).                              *)
(***************************************************************************)
GrantedWasApproved ==
    \A k \in granted : \E v \in approved : pushed[v] = k
=============================================================================
