--------------------------- MODULE FederatedLogin ---------------------------
(***************************************************************************)
(* Login through an OAuth2 provider (cmd/keymasterd/auth_oauth2.go).       *)
(* oauth2DoRedirectoToProviderHandler files a fresh state string under a   *)
(* fresh cookie in pendingOauth2 and sends the browser to the provider;    *)
(* oauth2RedirectPathHandler, when the browser comes back, looks it up,    *)
(* exchanges the provider's code for a token, sets the auth cookie and     *)
(* removes the entry.                                                      *)
(*                                                                         *)
(* Cookie and state are drawn together and are the same number here, so    *)
(* the numbers among Keys bound how many are drawn.  A callback with       *)
(* another state than its cookie's returns early.  The provider is the     *)
(* environment: it lets an exchange succeed or fail.                       *)
(***************************************************************************)
EXTENDS PendingTable

CONSTANT Callbacks   \* bound: callbacks that may be in progress

VARIABLES
    callback,  \* callback -> its local state
    loggedIn,  \* history: cookies for which an auth cookie has been set
    finished   \* history: cookies removed after a login

loginVars == <<tableVars, callback, loggedIn, finished>>

NoCallback == [pc |-> "idle"]

CallbackState == [pc : {"exchanging", "granting", "deleting"}, cookie : Keys]

LoginTypeOK ==
    /\ TableTypeOK
    /\ \A c \in Callbacks : callback[c] \in CallbackState \cup {NoCallback}
    /\ loggedIn \subseteq Keys
    /\ finished \subseteq loggedIn

LoginInit ==
    /\ TableInit
    /\ callback = [c \in Callbacks |-> NoCallback]
    /\ loggedIn = {}
    /\ finished = {}

-----------------------------------------------------------------------------
oauth2DoRedirectoToProviderHandler ==
    /\ drawn < MaxValue /\ drawn + 1 \in Keys
    /\ drawn' = drawn + 1
    /\ Store(drawn + 1, drawn + 1)
    /\ UNCHANGED <<now, nextCleanup, claimed, callback, loggedIn, finished>>

(* oauth2RedirectPathHandler, up to the comparison of the states. *)
LookupPending(c, k) ==
    /\ callback[c].pc = "idle"
    /\ Lookup(k)
    /\ callback' = [callback EXCEPT ![c] = [pc |-> "exchanging", cookie |-> k]]
    /\ UNCHANGED <<now, nextCleanup, pending, drawn, stored, loggedIn, finished>>

(* The code is exchanged and the user's name fetched, or one of them fails. *)
Exchange(c) ==
    /\ callback[c].pc = "exchanging"
    /\ \/ callback' = [callback EXCEPT ![c].pc = "granting"]
       \/ callback' = [callback EXCEPT ![c] = NoCallback]
    /\ UNCHANGED <<tableVars, loggedIn, finished>>

setNewAuthCookie(c) ==
    /\ callback[c].pc = "granting"
    /\ \/ /\ callback' = [callback EXCEPT ![c].pc = "deleting"]
          /\ loggedIn' = loggedIn \cup {callback[c].cookie}
       \/ /\ callback' = [callback EXCEPT ![c] = NoCallback]
          /\ UNCHANGED loggedIn
    /\ UNCHANGED <<tableVars, finished>>

DeletePending(c) ==
    /\ callback[c].pc = "deleting"
    /\ pending' = Without({callback[c].cookie})
    /\ callback' = [callback EXCEPT ![c] = NoCallback]
    /\ finished' = finished \cup {callback[c].cookie}
    /\ UNCHANGED <<now, nextCleanup, drawn, stored, claimed, loggedIn>>

-----------------------------------------------------------------------------
LoginCleanup == performStateCleanup /\ UNCHANGED <<callback, loggedIn, finished>>

LoginCrash ==
    /\ TableCrash
    /\ callback' = [c \in Callbacks |-> NoCallback]
    /\ UNCHANGED <<loggedIn, finished>>

LoginTime == Tick /\ UNCHANGED <<callback, loggedIn, finished>>

oauth2RedirectPathHandler(c) ==
    \/ \E k \in Keys : LookupPending(c, k)
    \/ Exchange(c) \/ setNewAuthCookie(c) \/ DeletePending(c)

LoginNext ==
    \/ oauth2DoRedirectoToProviderHandler
    \/ \E c \in Callbacks : oauth2RedirectPathHandler(c)
    \/ LoginCleanup
    \/ LoginCrash
    \/ LoginTime

LoginSpec ==
    /\ LoginInit /\ [][LoginNext]_loginVars
    /\ WF_loginVars(LoginCleanup) /\ WF_loginVars(LoginTime)

-----------------------------------------------------------------------------
(* Callback c finds the pending login in this step. *)
FindsLogin(c) == callback[c].pc = "idle" /\ callback'[c].pc = "exchanging"

(***************************************************************************)
(* A callback that arrives after the entry of its cookie was removed by a  *)
(* successful one does not get to the provider again: two logins with one  *)
(* cookie come from callbacks that overlapped (oauth2RedirectPathHandler). *)
(***************************************************************************)
FindsOpenLogins ==
    \A c \in Callbacks : FindsLogin(c) => callback'[c].cookie \notin finished

(***************************************************************************)
(* A pending login that has not expired is removed only after a login with *)
(* it succeeded: an error of the provider leaves it there, so the browser  *)
(* can try again (oauth2RedirectPathHandler).                              *)
(***************************************************************************)
KeepsLogins ==
    LoginCrash \/ \A k \in Keys :
        pending[k] # NoEntry /\ pending'[k] = NoEntry /\ ~Expired(pending[k])
          => k \in loggedIn
=============================================================================
