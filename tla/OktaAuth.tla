------------------------------ MODULE OktaAuth ------------------------------
(***************************************************************************)
(* Okta as password checker and second factor: the authenticator with its  *)
(* cache of recent logins (lib/authenticators/okta/impl.go) and the        *)
(* handlers that use it (cmd/keymasterd/2fa_okta.go).                      *)
(*                                                                         *)
(* recentAuth has one entry for a user, the answer of Okta to the last     *)
(* login that was stored, whichever session it was for; entries of         *)
(* different users have nothing to do with each other, so this is one      *)
(* user with several sessions.  The mutex is held for the map only: Okta   *)
(* is asked before and after.  Times are kept as the time that is left.    *)
(***************************************************************************)
EXTENDS Integers, FiniteSets

CONSTANTS
    Sessions,
    lifetime,       \* of an answer of Okta (ExpiresAtString, or 60 seconds)
    MaxLogins       \* bound: logins, each with a transaction of its own

VARIABLES
    recentAuth,     \* the entry of the user: StateToken and time left
    okta,           \* StateToken -> what became of the push (external)
    login,          \* session -> the answer of Okta that is about to be stored
    level,          \* session -> level of its cookie
    call,           \* session, factor -> the handler that works for it
    own,            \* history: session -> StateToken of its login
    contested,      \* history: did other logins overlap or follow it?
    grant           \* history: session -> what its level was raised by

oktaVars == <<recentAuth, okta, login, level, call, own, contested, grant>>

ASSUME OktaAssumption == lifetime \in Nat /\ MaxLogins \in Nat

NoRecent == [StateToken |-> 0, left |-> -1]
NoCall == [at |-> "idle"]
NoGrant == [StateToken |-> 0]
Handlers == Sessions \X {"push", "otp"}
LoggingIn(s) == login[s] # 0

(* The variables have their types. *)
OktaTypeOK ==
    /\ recentAuth.left \in -1 .. lifetime
    /\ recentAuth.StateToken \in 0 .. MaxLogins
    /\ DOMAIN okta \in {1 .. n : n \in 0 .. MaxLogins}
    /\ \A s \in Sessions : login[s] \in 0 .. MaxLogins
    /\ level \in [Sessions -> {"none", "password", "raised"}]
    /\ \A h \in Handlers : call[h].at \in {"idle", "found"}

OktaInit ==
    /\ recentAuth = NoRecent
    /\ okta = <<>>
    /\ login = [s \in Sessions |-> 0]
    /\ level = [s \in Sessions |-> "none"]
    /\ call = [h \in Handlers |-> NoCall]
    /\ own = [s \in Sessions |-> 0]
    /\ contested = [s \in Sessions |-> FALSE]
    /\ grant = [s \in Sessions |-> NoGrant]

-----------------------------------------------------------------------------
(* passwordAuthenticate: Okta accepts the password ...  A session begins    *)
(* with its login; whoever logs in again begins another one.                *)
OktaAccepts(s) ==
    LET n == Cardinality(DOMAIN okta) + 1 IN
    /\ ~LoggingIn(s) /\ level[s] = "none"
    /\ n <= MaxLogins
    /\ okta' = [t \in 1 .. n |-> IF t = n THEN "new" ELSE okta[t]]
    /\ login' = [login EXCEPT ![s] = n]
    /\ own' = [own EXCEPT ![s] = n]
    /\ contested' = [contested EXCEPT ![s] = \E t \in Sessions \ {s} : LoggingIn(t)]
    /\ UNCHANGED <<recentAuth, level, call, grant>>

(* Mutant: an entry that is still valid is kept. *)
passwordAuthenticateKeep(s) ==
    /\ LoggingIn(s)
    /\ recentAuth' = IF recentAuth.left >= 0 THEN recentAuth
                     ELSE [StateToken |-> login[s], left |-> lifetime]
    /\ level' = [level EXCEPT ![s] = "password"]
    /\ login' = [login EXCEPT ![s] = 0]
    /\ contested' = [t \in Sessions |-> contested[t] \/ t # s]
    /\ UNCHANGED <<okta, call, own, grant>>

(* ... and the answer is stored; loginHandler makes a new cookie. *)
passwordAuthenticate(s) ==
    /\ LoggingIn(s)
    /\ recentAuth' = [StateToken |-> login[s], left |-> lifetime]
    /\ level' = [level EXCEPT ![s] = "password"]
    /\ login' = [login EXCEPT ![s] = 0]
    /\ contested' = [t \in Sessions |-> contested[t] \/ t # s]
    /\ UNCHANGED <<okta, call, own, grant>>

(* The user answers the push on the phone, or does not. *)
AnswerPush(t) ==
    /\ okta[t] = "waiting"
    /\ \E a \in {"approved", "rejected", "timeout"} : okta' = [okta EXCEPT ![t] = a]
    /\ UNCHANGED <<recentAuth, login, level, call, own, contested, grant>>

-----------------------------------------------------------------------------
(* The handlers.  op is "start" (oktaPushStartHandler), "poll"              *)
(* (oktaPollCheckHandler) or "otp" (Okta2FAuthHandler).                     *)

(* checkAuth lets in whoever has a cookie; a session has one request for    *)
(* each factor at a time.                                                   *)
Allowed(h) == call[h] = NoCall /\ level[h[1]] # "none"

Found(h, op) ==
    call' = [call EXCEPT ![h] = [at |-> "found", op |-> op, StateToken |-> recentAuth.StateToken,
                                 valid |-> recentAuth.left >= 0]]

(* getValidUserResponse: an entry whose time is over is deleted, and the    *)
(* handler refuses, as it does without an entry.                            *)
getValidUserResponse(h, op) ==
    /\ Allowed(h)
    /\ IF recentAuth.left < 0
       THEN recentAuth' = NoRecent /\ UNCHANGED call
       ELSE Found(h, op) /\ UNCHANGED recentAuth
    /\ UNCHANGED <<okta, login, level, own, contested, grant>>

Finish(h) == call' = [call EXCEPT ![h] = NoCall]

(* updateAuthCookieAuthlevel *)
RaiseLevel(h, how) ==
    /\ level' = [level EXCEPT ![h[1]] = "raised"]
    /\ grant' = [grant EXCEPT ![h[1]] = [StateToken |-> call[h].StateToken,
                                         valid |-> call[h].valid, how |-> how]]
    /\ Finish(h)

Refuse(h) == Finish(h) /\ UNCHANGED <<level, grant>>

(* Mutant: a push that waits for the user is good enough. *)
validateUserPushEager(h) ==
    LET t == call[h].StateToken IN
    /\ call[h] # NoCall /\ call[h].op \in {"start", "poll"}
    /\ okta' = IF okta[t] = "new" THEN [okta EXCEPT ![t] = "waiting"] ELSE okta
    /\ IF call[h].op = "poll" /\ okta'[t] \in {"waiting", "approved"}
       THEN RaiseLevel(h, "push") ELSE Refuse(h)
    /\ UNCHANGED <<recentAuth, login, own, contested>>

(* validateUserPush: the same request starts a push and asks what became of *)
(* it.  oktaPushStartHandler answers 200 if it waits and 412 otherwise;     *)
(* oktaPollCheckHandler raises the level if it was approved, and answers    *)
(* 412 if it waits or has timed out and 403 if it was rejected.             *)
validateUserPush(h) ==
    LET t == call[h].StateToken IN
    /\ call[h] # NoCall /\ call[h].op \in {"start", "poll"}
    /\ okta' = IF okta[t] = "new" THEN [okta EXCEPT ![t] = "waiting"] ELSE okta
    /\ IF call[h].op = "poll" /\ okta'[t] = "approved"
       THEN RaiseLevel(h, "push") ELSE Refuse(h)
    /\ UNCHANGED <<recentAuth, login, own, contested>>

(* validateUserOTP: right, or wrong and 401. *)
validateUserOTP(h) ==
    /\ call[h] # NoCall /\ call[h].op = "otp"
    /\ RaiseLevel(h, "otp") \/ Refuse(h)
    /\ UNCHANGED <<recentAuth, okta, login, own, contested>>

(* Okta cannot be reached, or answers with an error: 500. *)
OktaFails(h) ==
    /\ call[h] # NoCall
    /\ Refuse(h)
    /\ UNCHANGED <<recentAuth, okta, login, own, contested>>

(* Time passes. *)
OktaTick ==
    /\ recentAuth.left >= 0
    /\ recentAuth' = [recentAuth EXCEPT !.left = @ - 1]
    /\ UNCHANGED <<okta, login, level, call, own, contested, grant>>

OktaNext ==
    \/ OktaTick
    \/ \E s \in Sessions : OktaAccepts(s) \/ passwordAuthenticate(s)
    \/ \E t \in DOMAIN okta : AnswerPush(t)
    \/ \E h \in Handlers :
          \/ h[2] = "push" /\ \E op \in {"start", "poll"} : getValidUserResponse(h, op)
          \/ h[2] = "otp" /\ getValidUserResponse(h, "otp")
          \/ validateUserPush(h) \/ validateUserOTP(h) \/ OktaFails(h)

OktaSpec == OktaInit /\ [][OktaNext]_oktaVars

-----------------------------------------------------------------------------
(***************************************************************************)
(* The level of a cookie is raised only through a login at Okta whose time *)
(* was not over when the handler looked it up (getValidUserResponse), and  *)
(* by a push only if the user approved it, whichever sessions of the user  *)
(* start and poll pushes meanwhile (oktaPollCheckHandler).                 *)
(***************************************************************************)
RaisedRightfully ==
    \A s \in Sessions : grant[s] # NoGrant =>
        /\ grant[s].valid
        /\ grant[s].how = "push" => okta[grant[s].StateToken] = "approved"

(***************************************************************************)
(* A session that no other login of the user overlaps or follows is raised *)
(* by the transaction of its own login.  With other logins it may be any   *)
(* of theirs, as recentAuth has one entry for a user.                      *)
(***************************************************************************)
OwnTransaction ==
    \A s \in Sessions :
        grant[s] # NoGrant /\ ~contested[s] => grant[s].StateToken = own[s]
=============================================================================
