---------------------------- MODULE ClientProofs ----------------------------
(***************************************************************************)
(* Proofs about Okta as a second factor (OktaAuth) and the command-line    *)
(* client (TokenPushClient, ClientCerts).  They hold for any number of     *)
(* sessions and logins of a user, of targets that the client tries and of  *)
(* times it is run, and for all lifetimes and timeouts.                    *)
(***************************************************************************)
EXTENDS MCClient, FiniteSetTheorems, TLAPS

-----------------------------------------------------------------------------
(* Okta as a second factor *)

(* The tokens that Okta has given out. *)
Tokens == DOMAIN okta

CallState ==
    {NoCall} \cup [at : {"found"}, op : {"start", "poll", "otp"}, StateToken : Tokens,
                   valid : BOOLEAN]

Grants == {NoGrant} \cup [StateToken : Tokens, valid : BOOLEAN, how : {"push", "otp"}]

TokensGiven ==
    /\ Tokens = 1 .. Cardinality(Tokens) /\ Cardinality(Tokens) \in 0 .. MaxLogins
    /\ okta \in [Tokens -> {"new", "waiting", "approved", "rejected", "timeout"}]

OktaTypes ==
    /\ recentAuth \in [StateToken : Tokens \cup {0}, left : -1 .. lifetime]
    /\ recentAuth.left >= 0 => recentAuth.StateToken \in Tokens
    /\ login \in [Sessions -> Tokens \cup {0}]
    /\ level \in [Sessions -> {"none", "password", "raised"}]
    /\ call \in [Handlers -> CallState]
    /\ own \in [Sessions -> Tokens \cup {0}]
    /\ contested \in [Sessions -> BOOLEAN]
    /\ grant \in [Sessions -> Grants]

(***************************************************************************)
(* The inductive invariant.  A handler works with an entry that was valid  *)
(* when it looked it up.  A session without a cookie has no handler and no *)
(* grant.  For a session that no other login overlaps or follows, the      *)
(* entry, and what its handlers have found, is that of its own login.      *)
(***************************************************************************)
Handling ==
    \A h \in Handlers : call[h] # NoCall => call[h].valid /\ level[h[1]] # "none"

Ungranted ==
    \A s \in Sessions : level[s] = "none" => grant[s] = NoGrant

Owning ==
    \A s \in Sessions :
        /\ login[s] # 0 => login[s] = own[s]
        /\ ~contested[s] /\ level[s] # "none" /\ recentAuth.left >= 0 =>
              recentAuth.StateToken = own[s]

OwnCalls ==
    \A h \in Handlers :
        call[h] # NoCall /\ ~contested[h[1]] => call[h].StateToken = own[h[1]]

OktaInv ==
    /\ TokensGiven /\ OktaTypes /\ Handling /\ Ungranted /\ Owning /\ OwnCalls
    /\ RaisedRightfully /\ OwnTransaction

LEMMA OktaInitInv == OktaInit => OktaInv
<1> SUFFICES ASSUME OktaInit PROVE OktaInv
  OBVIOUS
<1> USE OktaAssumption DEF OktaInit
<1>1. Tokens = {} /\ Cardinality({}) = 0 /\ 1 .. 0 = {}
  <2>1. DOMAIN <<>> = {}
    OBVIOUS
  <2>2. 1 .. 0 = {}
    OBVIOUS
  <2> QED
    BY <2>1, <2>2, FS_EmptySet DEF Tokens
<1>2. TokensGiven
  <2>1. okta \in [Tokens -> {"new", "waiting", "approved", "rejected", "timeout"}]
    BY <1>1 DEF Tokens
  <2> QED
    BY <1>1, <2>1 DEF TokensGiven
<1>3. OktaTypes
  BY DEF OktaTypes, NoRecent, NoCall, NoGrant, CallState, Grants
<1>4. Handling /\ Ungranted /\ Owning /\ OwnCalls
  BY DEF Handling, Ungranted, Owning, OwnCalls
<1>5. RaisedRightfully /\ OwnTransaction
  BY DEF RaisedRightfully, OwnTransaction
<1> QED
  BY <1>2, <1>3, <1>4, <1>5 DEF OktaInv

(* A handler's session is a session. *)
LEMMA HandlerSession == \A h \in Handlers : h[1] \in Sessions
BY DEF Handlers

(* What Okta may do to transactions: it forgets no approval. *)
TokensKept ==
    /\ TokensGiven' /\ Tokens' = Tokens
    /\ \A t \in Tokens : okta[t] = "approved" => okta'[t] = "approved"

LEMMA KeptSame == ASSUME OktaInv, okta' = okta PROVE TokensKept
BY Zenon DEF OktaInv, TokensGiven, TokensKept, Tokens

LEMMA KeptChanged ==
    ASSUME OktaInv, NEW t \in Tokens, okta[t] # "approved",
           NEW a \in {"waiting", "approved", "rejected", "timeout"},
           okta' = [okta EXCEPT ![t] = a]
    PROVE  TokensKept
<1>1. /\ okta \in [Tokens -> {"new", "waiting", "approved", "rejected", "timeout"}]
      /\ Tokens = 1 .. Cardinality(Tokens) /\ Cardinality(Tokens) \in 0 .. MaxLogins
  BY Zenon DEF OktaInv, TokensGiven
<1>2. Tokens' = Tokens
  BY Zenon DEF Tokens
<1>3. okta' \in [Tokens -> {"new", "waiting", "approved", "rejected", "timeout"}]
  BY <1>1
<1>4. \A u \in Tokens : okta[u] = "approved" => okta'[u] = "approved"
  BY <1>1
<1> QED
  BY <1>1, <1>2, <1>3, <1>4, Zenon DEF TokensKept, TokensGiven

(* Grants stay rightful. *)
LEMMA KeptGrants ==
    ASSUME OktaInv, TokensKept, grant' = grant PROVE RaisedRightfully'
<1> SUFFICES ASSUME NEW s \in Sessions, grant[s] # NoGrant
             PROVE  /\ grant[s].valid
                    /\ grant[s].how = "push" => okta'[grant[s].StateToken] = "approved"
  BY Zenon DEF RaisedRightfully
<1>1. grant[s].valid /\ (grant[s].how = "push" => okta[grant[s].StateToken] = "approved")
  BY Zenon DEF OktaInv, RaisedRightfully
<1>2. grant[s].StateToken \in Tokens
  BY DEF OktaInv, OktaTypes, Grants
<1> QED
  BY <1>1, <1>2, Zenon DEF TokensKept

(* The steps that end a handler. *)
LEMMA RefuseInv ==
    ASSUME OktaInv, TokensKept, NEW h \in Handlers, Refuse(h),
           UNCHANGED <<recentAuth, login, own, contested>>
    PROVE  OktaInv'
<1>1. /\ Tokens' = Tokens /\ TokensGiven' /\ UNCHANGED <<level, grant>>
      /\ call' = [call EXCEPT ![h] = NoCall]
  BY Zenon DEF TokensKept, Refuse, Finish
<1>2. CallState' = CallState /\ Grants' = Grants
  BY <1>1, Zenon DEF CallState, Grants
<1>3. OktaTypes
  BY DEF OktaInv
<1>4. call' \in [Handlers -> CallState]
  BY <1>1, <1>3 DEF OktaTypes, CallState
<1>5. OktaTypes'
  BY <1>1, <1>2, <1>3, <1>4, Zenon DEF OktaTypes
<1>6. \A i \in Handlers : call'[i] = NoCall \/ call'[i] = call[i]
  BY <1>1, <1>3 DEF OktaTypes
<1>7. Handling' /\ OwnCalls'
  BY <1>1, <1>6, Zenon DEF OktaInv, Handling, OwnCalls
<1>8. Ungranted' /\ Owning' /\ OwnTransaction'
  BY <1>1, Zenon DEF OktaInv, Ungranted, Owning, OwnTransaction
<1>9. RaisedRightfully'
  BY <1>1, KeptGrants
<1> QED
  BY <1>1, <1>5, <1>7, <1>8, <1>9 DEF OktaInv

LEMMA RaiseInv ==
    ASSUME OktaInv, TokensKept, NEW h \in Handlers, NEW how \in {"push", "otp"}, RaiseLevel(h, how),
           call[h] # NoCall, how = "push" => okta'[call[h].StateToken] = "approved",
           UNCHANGED <<recentAuth, login, own, contested>>
    PROVE  OktaInv'
<1> DEFINE s == h[1]
           g == [StateToken |-> call[h].StateToken, valid |-> call[h].valid, how |-> how]
<1>1. /\ Tokens' = Tokens /\ TokensGiven'
      /\ level' = [level EXCEPT ![s] = "raised"] /\ grant' = [grant EXCEPT ![s] = g]
      /\ call' = [call EXCEPT ![h] = NoCall]
  BY Zenon DEF TokensKept, RaiseLevel, Finish
<1>2. CallState' = CallState /\ Grants' = Grants
  BY <1>1, Zenon DEF CallState, Grants
<1>3. s \in Sessions /\ OktaTypes
  BY HandlerSession DEF OktaInv
<1>4. /\ call[h].StateToken \in Tokens /\ call[h].valid \in BOOLEAN
  BY <1>3 DEF OktaTypes, CallState
<1>5. call[h].valid /\ level[s] # "none"
  BY Zenon DEF OktaInv, Handling
<1>6. g \in Grants /\ g # NoGrant
  BY <1>4 DEF Grants, NoGrant
<1>7. /\ g.StateToken = call[h].StateToken /\ g.how = how
  OBVIOUS
<1>8. g.valid
  BY <1>5, Zenon
<1> HIDE DEF s, g
<1>9. /\ call' \in [Handlers -> CallState] /\ grant' \in [Sessions -> Grants]
      /\ level' \in [Sessions -> {"none", "password", "raised"}]
  BY <1>1, <1>3, <1>6 DEF OktaTypes, CallState
<1>10. OktaTypes'
  BY <1>1, <1>2, <1>3, <1>9, Zenon DEF OktaTypes
<1>11. /\ \A i \in Handlers : call'[i] = NoCall \/ call'[i] = call[i]
       /\ level'[s] = "raised" /\ \A r \in Sessions \ {s} : level'[r] = level[r]
       /\ grant'[s] = g /\ \A r \in Sessions \ {s} : grant'[r] = grant[r]
  BY <1>1, <1>3 DEF OktaTypes
<1>12. \A r \in Sessions : level[r] # "none" => level'[r] # "none"
  BY <1>3, <1>11
<1>13. \A r \in Sessions : level'[r] # "none" => level[r] # "none"
  BY <1>3, <1>5, <1>11 DEF s
<1>14. Handling' /\ OwnCalls'
  <2>1. Handling /\ OwnCalls
    BY DEF OktaInv
  <2>2. ASSUME NEW i \in Handlers, call'[i] # NoCall
        PROVE  call'[i] = call[i] /\ call[i] # NoCall /\ i[1] \in Sessions
    BY <1>11, <2>2, HandlerSession, Zenon
  <2>3. Handling'
    BY <1>12, <2>1, <2>2, Zenon DEF Handling
  <2>4. OwnCalls'
    BY <2>1, <2>2, Zenon DEF OwnCalls
  <2> QED
    BY <2>3, <2>4
<1>15. Ungranted'
  BY <1>11, Zenon DEF OktaInv, Ungranted
<1>16. Owning'
  BY <1>13, Zenon DEF OktaInv, Owning
<1>17. ASSUME NEW r \in Sessions, grant'[r] # NoGrant
       PROVE  /\ grant'[r].valid
              /\ grant'[r].how = "push" => okta'[grant'[r].StateToken] = "approved"
              /\ ~contested[r] => grant'[r].StateToken = own[r]
  <2>1. CASE r = s
    <3>1. ~contested[s] => call[h].StateToken = own[s]
      BY Zenon DEF OktaInv, OwnCalls, s
    <3> QED
      BY <1>7, <1>8, <1>11, <2>1, <3>1, Zenon
  <2>2. CASE r # s
    <3>1. grant[r] # NoGrant /\ grant'[r] = grant[r]
      BY <1>11, <1>17, <2>2, Zenon
    <3>2. grant[r].StateToken \in Tokens
      BY <1>3, <3>1 DEF OktaTypes, Grants
    <3> QED
      BY <3>1, <3>2, Zenon DEF OktaInv, RaisedRightfully, OwnTransaction, TokensKept
  <2> QED
    BY <2>1, <2>2
<1>18. RaisedRightfully' /\ OwnTransaction'
  BY <1>17, Zenon DEF RaisedRightfully, OwnTransaction
<1> QED
  BY <1>1, <1>10, <1>14, <1>15, <1>16, <1>18 DEF OktaInv

LEMMA HandlerInv ==
    ASSUME OktaInv, NEW h \in Handlers,
           validateUserPush(h) \/ validateUserOTP(h) \/ OktaFails(h)
    PROVE  OktaInv'
<1>1. call[h] # NoCall /\ UNCHANGED <<recentAuth, login, own, contested>>
  BY Zenon DEF validateUserPush, validateUserOTP, OktaFails
<1>2. CASE validateUserPush(h)
  <2> DEFINE t == call[h].StateToken
  <2>1. t \in Tokens
    BY <1>1 DEF OktaInv, OktaTypes, CallState
  <2>2. okta' = IF okta[t] = "new" THEN [okta EXCEPT ![t] = "waiting"] ELSE okta
    BY <1>2, Zenon DEF validateUserPush
  <2>3. TokensKept
    <3>1. CASE okta[t] = "new"
      BY <2>1, <2>2, <3>1, KeptChanged, Zenon
    <3>2. CASE okta[t] # "new"
      BY <2>2, <3>2, KeptSame
    <3> QED
      BY <3>1, <3>2
  <2>4. (RaiseLevel(h, "push") /\ okta'[t] = "approved") \/ Refuse(h)
    BY <1>2, Zenon DEF validateUserPush
  <2> QED
    BY <1>1, <2>3, <2>4, RaiseInv, RefuseInv
<1>3. CASE validateUserOTP(h)
  <2>1. TokensKept
    BY <1>3, KeptSame DEF validateUserOTP
  <2>2. RaiseLevel(h, "otp") \/ Refuse(h)
    BY <1>3, Zenon DEF validateUserOTP
  <2> QED
    BY <1>1, <2>1, <2>2, RaiseInv, RefuseInv
<1>4. CASE OktaFails(h)
  <2>1. TokensKept /\ Refuse(h)
    BY <1>4, KeptSame DEF OktaFails
  <2> QED
    BY <1>1, <2>1, RefuseInv
<1> QED
  BY <1>2, <1>3, <1>4

LEMMA AnswerInv ==
    ASSUME OktaInv, NEW t \in Tokens, AnswerPush(t) PROVE OktaInv'
<1>1. /\ UNCHANGED <<recentAuth, login, level, call, own, contested, grant>>
      /\ okta[t] = "waiting"
  BY Zenon DEF AnswerPush
<1>2. TokensKept
  <2>1. PICK a \in {"approved", "rejected", "timeout"} : okta' = [okta EXCEPT ![t] = a]
    BY Zenon DEF AnswerPush
  <2> QED
    BY <1>1, <2>1, KeptChanged, Zenon
<1>3. Tokens' = Tokens /\ CallState' = CallState /\ Grants' = Grants /\ TokensGiven'
  BY <1>2, Zenon DEF TokensKept, CallState, Grants
<1>4. OktaTypes'
  BY <1>1, <1>3, Zenon DEF OktaInv, OktaTypes
<1>5. Handling' /\ Ungranted' /\ Owning' /\ OwnCalls' /\ OwnTransaction'
  BY <1>1, Zenon DEF OktaInv, Handling, Ungranted, Owning, OwnCalls, OwnTransaction
<1> QED
  BY <1>1, <1>2, <1>3, <1>4, <1>5, KeptGrants DEF OktaInv

(* The steps that change the entry and not the transactions. *)
LEMMA EntryInv ==
    ASSUME OktaInv,
           UNCHANGED <<okta, login, level, call, own, contested, grant>>,
           recentAuth' = NoRecent \/
              (recentAuth.left >= 0 /\ recentAuth' = [recentAuth EXCEPT !.left = @ - 1])
    PROVE  OktaInv'
<1> USE OktaAssumption
<1>1. TokensKept
  BY KeptSame
<1>2. Tokens' = Tokens /\ CallState' = CallState /\ Grants' = Grants /\ TokensGiven'
  BY <1>1, Zenon DEF TokensKept, CallState, Grants
<1>3. /\ recentAuth' \in [StateToken : Tokens \cup {0}, left : -1 .. lifetime]
      /\ recentAuth'.left >= 0 =>
            recentAuth.left >= 0 /\ recentAuth'.StateToken = recentAuth.StateToken
  <2>1. recentAuth \in [StateToken : Tokens \cup {0}, left : -1 .. lifetime]
    BY Zenon DEF OktaInv, OktaTypes
  <2> QED
    BY <2>1 DEF NoRecent
<1>4. OktaTypes'
  <2>1. recentAuth'.left >= 0 => recentAuth'.StateToken \in Tokens
    BY <1>3, Zenon DEF OktaInv, OktaTypes
  <2> QED
    BY <1>2, <1>3, <2>1, Zenon DEF OktaInv, OktaTypes
<1>5. Handling' /\ Ungranted' /\ OwnCalls' /\ OwnTransaction'
  BY Zenon DEF OktaInv, Handling, Ungranted, OwnCalls, OwnTransaction
<1>6. Owning'
  BY <1>3, Zenon DEF OktaInv, Owning
<1> QED
  BY <1>1, <1>2, <1>4, <1>5, <1>6, KeptGrants DEF OktaInv

LEMMA FoundInv ==
    ASSUME OktaInv, NEW h \in Handlers, NEW op \in {"start", "poll", "otp"},
           getValidUserResponse(h, op)
    PROVE  OktaInv'
<1>1. UNCHANGED <<okta, login, level, own, contested, grant>> /\ level[h[1]] # "none"
  BY Zenon DEF getValidUserResponse, Allowed
<1>2. CASE recentAuth' = NoRecent /\ UNCHANGED call
  BY <1>1, <1>2, EntryInv
<1>3. CASE recentAuth.left >= 0 /\ Found(h, op) /\ UNCHANGED recentAuth
  <2> DEFINE c == [at |-> "found", op |-> op, StateToken |-> recentAuth.StateToken,
                   valid |-> recentAuth.left >= 0]
  <2>1. Tokens' = Tokens /\ CallState' = CallState /\ Grants' = Grants /\ TokensGiven' /\ TokensKept
    BY <1>1, KeptSame, Zenon DEF TokensKept, CallState, Grants
  <2>2. call' = [call EXCEPT ![h] = c]
    BY <1>3, Zenon DEF Found
  <2>3. recentAuth.StateToken \in Tokens
    BY <1>3, Zenon DEF OktaInv, OktaTypes
  <2>4. c \in CallState /\ c # NoCall /\ c.StateToken = recentAuth.StateToken
    BY <2>3 DEF CallState, NoCall
  <2>5. c.valid
    BY <1>3, Zenon
  <2> HIDE DEF c
  <2>6. call \in [Handlers -> CallState]
    BY Zenon DEF OktaInv, OktaTypes
  <2>7. /\ call' \in [Handlers -> CallState]
        /\ call'[h] = c /\ \A i \in Handlers \ {h} : call'[i] = call[i]
    BY <2>2, <2>4, <2>6
  <2>8. OktaTypes'
    BY <1>1, <1>3, <2>1, <2>7, Zenon DEF OktaInv, OktaTypes
  <2>9. Handling'
    BY <1>1, <2>5, <2>7, Zenon DEF OktaInv, Handling
  <2>10. OwnCalls'
    <3>1. ~contested[h[1]] => c.StateToken = own[h[1]]
      BY <1>1, <1>3, <2>4, HandlerSession, Zenon DEF OktaInv, Owning
    <3> QED
      BY <1>1, <2>7, <3>1, Zenon DEF OktaInv, OwnCalls
  <2>11. Ungranted' /\ Owning' /\ OwnTransaction'
    BY <1>1, <1>3, Zenon DEF OktaInv, Ungranted, Owning, OwnTransaction
  <2> QED
    BY <1>1, <2>1, <2>8, <2>9, <2>10, <2>11, KeptGrants DEF OktaInv
<1>4. recentAuth.left < 0 \/ recentAuth.left >= 0
  <2>1. recentAuth \in [StateToken : Tokens \cup {0}, left : -1 .. lifetime]
    BY Zenon DEF OktaInv, OktaTypes
  <2> QED
    BY <2>1, OktaAssumption
<1> QED
  BY <1>2, <1>3, <1>4 DEF getValidUserResponse

(* The entry becomes that of session s, and every other session contested. *)
LEMMA StoreInv ==
    ASSUME OktaInv, NEW s \in Sessions, passwordAuthenticate(s) PROVE OktaInv'
<1> USE OktaAssumption
<1>1. /\ UNCHANGED <<okta, call, own, grant>> /\ login[s] # 0
      /\ recentAuth' = [StateToken |-> login[s], left |-> lifetime]
      /\ level' = [level EXCEPT ![s] = "password"]
      /\ login' = [login EXCEPT ![s] = 0]
      /\ contested' = [t \in Sessions |-> contested[t] \/ t # s]
  BY Zenon DEF passwordAuthenticate, LoggingIn
<1>2. Tokens' = Tokens /\ CallState' = CallState /\ Grants' = Grants /\ TokensGiven' /\ TokensKept
  BY <1>1, KeptSame, Zenon DEF TokensKept, CallState, Grants
<1>3. /\ login \in [Sessions -> Tokens \cup {0}] /\ contested \in [Sessions -> BOOLEAN]
      /\ level \in [Sessions -> {"none", "password", "raised"}]
  BY Zenon DEF OktaInv, OktaTypes
<1>4. login[s] \in Tokens /\ login[s] = own[s]
  <2>1. login[s] \in Tokens
    BY <1>1, <1>3
  <2> QED
    BY <1>1, <2>1, Zenon DEF OktaInv, Owning
<1>5. /\ recentAuth' \in [StateToken : Tokens \cup {0}, left : -1 .. lifetime]
      /\ recentAuth'.StateToken = login[s]
  BY <1>1, <1>4
<1>6. /\ login' \in [Sessions -> Tokens \cup {0}]
      /\ level' \in [Sessions -> {"none", "password", "raised"}]
      /\ level'[s] = "password" /\ \A t \in Sessions \ {s} : level'[t] = level[t]
      /\ login'[s] = 0 /\ \A t \in Sessions \ {s} : login'[t] = login[t]
  BY <1>1, <1>3
<1>7. /\ contested' \in [Sessions -> BOOLEAN]
      /\ \A t \in Sessions : contested[t] => contested'[t]
      /\ \A t \in Sessions \ {s} : contested'[t]
  BY <1>1, <1>3, Zenon
<1>8. OktaTypes'
  BY <1>1, <1>2, <1>4, <1>5, <1>6, <1>7, Zenon DEF OktaInv, OktaTypes
<1>9. \A t \in Sessions : level[t] # "none" => level'[t] # "none"
  BY <1>6
<1>10. Handling' /\ OwnCalls'
  BY <1>1, <1>7, <1>9, HandlerSession, Zenon DEF OktaInv, Handling, OwnCalls
<1>11. Ungranted'
  BY <1>1, <1>9, Zenon DEF OktaInv, Ungranted
<1>12. Owning'
  BY <1>1, <1>4, <1>5, <1>6, <1>7, Zenon DEF OktaInv, Owning
<1>13. OwnTransaction'
  BY <1>1, <1>7, Zenon DEF OktaInv, OwnTransaction
<1> QED
  BY <1>1, <1>2, <1>8, <1>10, <1>11, <1>12, <1>13, KeptGrants DEF OktaInv

(* There is a new transaction, and the session has nothing else yet. *)
LEMMA AcceptInv ==
    ASSUME OktaInv, NEW s \in Sessions, OktaAccepts(s) PROVE OktaInv'
<1> USE OktaAssumption
<1> DEFINE n == Cardinality(Tokens) + 1
<1>1. /\ UNCHANGED <<recentAuth, level, call, grant>> /\ level[s] = "none" /\ n <= MaxLogins
      /\ okta' = [t \in 1 .. n |-> IF t = n THEN "new" ELSE okta[t]]
      /\ login' = [login EXCEPT ![s] = n] /\ own' = [own EXCEPT ![s] = n]
      /\ contested' = [contested EXCEPT ![s] = \E t \in Sessions \ {s} : LoggingIn(t)]
  BY Zenon DEF OktaAccepts, Tokens
<1>2. /\ Tokens = 1 .. Cardinality(Tokens) /\ Cardinality(Tokens) \in 0 .. MaxLogins
      /\ okta \in [Tokens -> {"new", "waiting", "approved", "rejected", "timeout"}]
  BY Zenon DEF OktaInv, TokensGiven
<1>3. n \in 1 .. MaxLogins /\ n \notin Tokens /\ 1 .. n = Tokens \cup {n} /\ n # 0
  BY <1>1, <1>2
<1>4. Tokens' = Tokens \cup {n} /\ Tokens' = 1 .. n
  <2>1. Tokens' = 1 .. n
    BY <1>1, Zenon DEF Tokens
  <2> QED
    BY <1>3, <2>1
<1>5. Cardinality(Tokens') = n
  <2>1. 1 \in Int /\ n \in Int /\ 1 <= n
    BY <1>3
  <2>2. Cardinality(1 .. n) = n - 1 + 1
    BY <2>1, FS_Interval
  <2>3. n - 1 + 1 = n
    BY <2>1
  <2> QED
    BY <1>4, <2>2, <2>3, Zenon
<1> HIDE DEF n
<1>6. /\ okta' \in [Tokens' -> {"new", "waiting", "approved", "rejected", "timeout"}]
      /\ \A t \in Tokens : okta'[t] = okta[t]
  BY <1>1, <1>2, <1>3, <1>4
<1>7. TokensGiven'
  <2>1. n \in 0 .. MaxLogins
    BY <1>3
  <2> QED
    BY <1>4, <1>5, <1>6, <2>1, Zenon DEF TokensGiven
<1>8. CallState \subseteq CallState' /\ Grants \subseteq Grants'
  <2>1. CallState \subseteq CallState'
    BY <1>4 DEF CallState
  <2>2. Grants \subseteq Grants'
    BY <1>4 DEF Grants
  <2> QED
    BY <2>1, <2>2
<1>9. OktaTypes
  BY DEF OktaInv
<1>10. /\ recentAuth' \in [StateToken : Tokens' \cup {0}, left : -1 .. lifetime]
       /\ recentAuth'.left >= 0 => recentAuth'.StateToken \in Tokens'
  BY <1>1, <1>4, <1>9 DEF OktaTypes
<1>11. /\ login' \in [Sessions -> Tokens' \cup {0}] /\ own' \in [Sessions -> Tokens' \cup {0}]
       /\ login'[s] = n /\ own'[s] = n
       /\ \A t \in Sessions \ {s} : login'[t] = login[t] /\ own'[t] = own[t]
  BY <1>1, <1>4, <1>9 DEF OktaTypes
<1>12. call' \in [Handlers -> CallState'] /\ grant' \in [Sessions -> Grants']
  BY <1>1, <1>8, <1>9 DEF OktaTypes
<1>13. /\ contested' \in [Sessions -> BOOLEAN]
       /\ \A t \in Sessions \ {s} : contested'[t] = contested[t]
  <2>1. contested \in [Sessions -> BOOLEAN]
    BY <1>9, Zenon DEF OktaTypes
  <2> DEFINE b == \E t \in Sessions \ {s} : LoggingIn(t)
  <2>2. b \in BOOLEAN /\ contested' = [contested EXCEPT ![s] = b]
    BY <1>1, Zenon
  <2> HIDE DEF b
  <2> QED
    BY <2>1, <2>2
<1>14. OktaTypes'
  BY <1>1, <1>9, <1>10, <1>11, <1>12, <1>13, Zenon DEF OktaTypes
<1>15. grant[s] = NoGrant /\ \A h \in Handlers : h[1] = s => call[h] = NoCall
  BY <1>1, Zenon DEF OktaInv, Ungranted, Handling
<1>16. Handling' /\ Ungranted'
  BY <1>1, Zenon DEF OktaInv, Handling, Ungranted
<1>17. Owning'
  BY <1>1, <1>11, <1>13, Zenon DEF OktaInv, Owning
<1>18. OwnCalls'
  BY <1>1, <1>11, <1>13, <1>15, HandlerSession, Zenon DEF OktaInv, OwnCalls
<1>19. OwnTransaction'
  BY <1>1, <1>11, <1>13, <1>15, Zenon DEF OktaInv, OwnTransaction
<1>20. RaisedRightfully'
  <2> SUFFICES ASSUME NEW t \in Sessions, grant[t] # NoGrant
               PROVE  /\ grant[t].valid
                      /\ grant[t].how = "push" => okta'[grant[t].StateToken] = "approved"
    BY <1>1, Zenon DEF RaisedRightfully
  <2>1. grant[t].StateToken \in Tokens
    BY <1>9 DEF OktaTypes, Grants
  <2> QED
    BY <1>6, <2>1, Zenon DEF OktaInv, RaisedRightfully
<1> QED
  BY <1>7, <1>14, <1>16, <1>17, <1>18, <1>19, <1>20 DEF OktaInv

LEMMA OktaNextInv == OktaInv /\ OktaNext => OktaInv'
<1> SUFFICES ASSUME OktaInv, OktaNext PROVE OktaInv'
  OBVIOUS
<1>1. CASE OktaTick
  BY <1>1, EntryInv DEF OktaTick
<1>2. ASSUME NEW s \in Sessions, OktaAccepts(s) \/ passwordAuthenticate(s) PROVE OktaInv'
  BY <1>2, AcceptInv, StoreInv
<1>3. ASSUME NEW t \in DOMAIN okta, AnswerPush(t) PROVE OktaInv'
  BY <1>3, AnswerInv DEF Tokens
<1>4. ASSUME NEW h \in Handlers,
             NEW op \in {"start", "poll", "otp"}, getValidUserResponse(h, op)
      PROVE  OktaInv'
  BY <1>4, FoundInv
<1>5. ASSUME NEW h \in Handlers, validateUserPush(h) \/ validateUserOTP(h) \/ OktaFails(h)
      PROVE  OktaInv'
  BY <1>5, HandlerInv
<1> QED
  BY <1>1, <1>2, <1>3, <1>4, <1>5 DEF OktaNext

LEMMA OktaStutters == OktaInv /\ UNCHANGED oktaVars => OktaInv'
<1> SUFFICES ASSUME OktaInv, UNCHANGED oktaVars PROVE OktaInv'
  OBVIOUS
<1>1. UNCHANGED <<recentAuth, okta, login, level, call, own, contested, grant>>
  BY DEF oktaVars
<1>2. Tokens' = Tokens /\ CallState' = CallState /\ Grants' = Grants /\ TokensGiven'
  BY <1>1, KeptSame, Zenon DEF TokensKept, CallState, Grants
<1>3. OktaTypes' /\ Handling' /\ Ungranted' /\ Owning' /\ OwnCalls'
  BY <1>1, <1>2, Zenon DEF OktaInv, OktaTypes, Handling, Ungranted, Owning, OwnCalls
<1>4. RaisedRightfully' /\ OwnTransaction'
  BY <1>1, Zenon DEF OktaInv, RaisedRightfully, OwnTransaction
<1> QED
  BY <1>2, <1>3, <1>4 DEF OktaInv

(* Every step of the authenticator, of Okta and of the user keeps OktaInv. *)
THEOREM OktaInvariance == OktaSpec => []OktaInv
<1>1. OktaInv /\ [OktaNext]_oktaVars => OktaInv'
  BY OktaNextInv, OktaStutters
<1> QED
  BY <1>1, OktaInitInv, PTL DEF OktaSpec

(***************************************************************************)
(* A cookie's level is raised only through a login that was valid when the *)
(* handler looked it up, and by a push only if it was approved             *)
(* (getValidUserResponse, oktaPollCheckHandler).                           *)
(***************************************************************************)
THEOREM Rightful == OktaSpec => []RaisedRightfully
<1>1. OktaInv => RaisedRightfully
  BY DEF OktaInv
<1> QED
  BY <1>1, OktaInvariance, PTL

(***************************************************************************)
(* A session is raised by the transaction of its own login unless another  *)
(* login of the user overlapped or followed (recentAuth).                  *)
(***************************************************************************)
THEOREM RaisedByOwn == OktaSpec => []OwnTransaction
<1>1. OktaInv => OwnTransaction
  BY DEF OktaInv
<1> QED
  BY <1>1, OktaInvariance, PTL

-----------------------------------------------------------------------------
(* The second factor in the client *)

Results == {"ok", "error"}

ClientTypes ==
    /\ client \in {"login", "choose", "wait", "ok", "failed"}
    /\ attempt \in targetUrls
    /\ raised \in [targetUrls -> BOOLEAN] /\ refused \in [targetUrls -> BOOLEAN]
    /\ ch \in [targetUrls -> {<<>>, <<"ok">>, <<"error">>}]
    /\ otp \in [targetUrls -> Ended \cup {"reading", "posting", "sending"}]
    /\ push \in [targetUrls -> Ended \cup {"starting", "polling", "sleeping", "sending"}]
    /\ left \in [targetUrls -> 0 .. vipCheckTimeoutSecs]
    /\ pushLeft \in [targetUrls -> 0 .. vipCheckTimeoutSecs]
    /\ otpResult \in [targetUrls -> Results] /\ pushResult \in [targetUrls -> Results]

(* The server has raised the level for target t, or refused a factor. *)
Deserved(t) == raised[t] \/ refused[t]

(* A result is a success only for the target that it is about. *)
ResultsDeserved ==
    \A t \in targetUrls :
        ch[t] = <<"ok">> \/ otpResult[t] = "ok" \/ pushResult[t] = "ok" => Deserved(t)

ClientInv == ClientTypes /\ ResultsDeserved /\ SuccessMeansRaised

LEMMA ClientInitInv == ClientInit => ClientInv
<1> SUFFICES ASSUME ClientInit PROVE ClientInv
  OBVIOUS
<1>1. 1 \in targetUrls
  BY ClientAssumption
<1>2. ClientTypes
  BY <1>1, ClientAssumption DEF ClientInit, ClientTypes, Ended, Results
<1>3. ResultsDeserved
  <2>1. \A t \in targetUrls : ch[t] = <<>> /\ otpResult[t] = "error" /\ pushResult[t] = "error"
    BY DEF ClientInit
  <2>2. <<>> # <<"ok">>
    OBVIOUS
  <2> QED
    BY <2>1, <2>2 DEF ResultsDeserved
<1>4. SuccessMeansRaised
  BY DEF ClientInit, SuccessMeansRaised
<1> QED
  BY <1>2, <1>3, <1>4 DEF ClientInv

(* Nothing is taken back. *)
Grows ==
    /\ \A t \in targetUrls : raised[t] => raised'[t]
    /\ \A t \in targetUrls : refused[t] => refused'[t]

LEMMA GrowsSame == raised' = raised /\ refused' = refused => Grows
BY Zenon DEF Grows

LEMMA GrowsDeserved == ASSUME Grows, NEW t \in targetUrls, Deserved(t) PROVE Deserved(t)'
BY Zenon DEF Grows, Deserved

(* One more target, of raised or of refused. *)
LEMMA OneMore ==
    ASSUME NEW f \in [targetUrls -> BOOLEAN], NEW t \in targetUrls, NEW b \in {f[t], TRUE},
           NEW g, g = [f EXCEPT ![t] = b]
    PROVE  /\ g \in [targetUrls -> BOOLEAN]
           /\ \A s \in targetUrls : f[s] => g[s]
           /\ b = TRUE => g[t]
<1>1. f[t] \in BOOLEAN
  BY Zenon
<1>2. b \in BOOLEAN
  BY <1>1, Zenon
<1>3. g[t] = b /\ \A s \in targetUrls : s # t => g[s] = f[s]
  BY Zenon
<1>4. \A s \in targetUrls : f[s] => g[s]
  BY <1>3, Zenon
<1>5. g \in [targetUrls -> BOOLEAN]
  BY <1>2, Zenon
<1> QED
  BY <1>3, <1>4, <1>5, Zenon

(* Steps that leave the results alone. *)
LEMMA SameResults ==
    ASSUME ClientInv, Grows, UNCHANGED <<ch, otpResult, pushResult>>
    PROVE  ResultsDeserved'
BY GrowsDeserved, Zenon DEF ClientInv, ResultsDeserved

(* Steps that leave the client as it is. *)
LEMMA SameClient ==
    ASSUME ClientInv, Grows, UNCHANGED <<client, attempt, backends>>
    PROVE  SuccessMeansRaised'
<1>1. attempt \in targetUrls
  BY Zenon DEF ClientInv, ClientTypes
<1> QED
  BY <1>1, Zenon DEF ClientInv, SuccessMeansRaised, Grows

LEMMA TickClientInv == ClientInv /\ ClientTick => ClientInv'
<1> SUFFICES ASSUME ClientInv, ClientTick PROVE ClientInv'
  OBVIOUS
<1> DEFINE less(f) == [t \in targetUrls |-> IF f[t] > 0 THEN f[t] - 1 ELSE 0]
<1>1. /\ left' = less(left) /\ pushLeft' = less(pushLeft)
      /\ UNCHANGED <<client, attempt, backends, raised, ch, otp, push, otpResult, pushResult,
                     refused>>
  BY Zenon DEF ClientTick
<1>2. ASSUME NEW f \in [targetUrls -> 0 .. vipCheckTimeoutSecs]
      PROVE  less(f) \in [targetUrls -> 0 .. vipCheckTimeoutSecs]
  BY ClientAssumption
<1>3. ClientTypes'
  BY <1>1, <1>2, Zenon DEF ClientInv, ClientTypes
<1>4. Grows
  BY <1>1, GrowsSame
<1> QED
  BY <1>1, <1>3, <1>4, SameResults, SameClient DEF ClientInv

LEMMA NextTargetIs ==
    ASSUME ClientTypes, NextTarget
    PROVE  attempt' \in targetUrls /\ client' \in {"login", "failed"}
BY DEF ClientTypes, NextTarget

LEMMA LoginClientInv == ClientInv /\ Login => ClientInv'
<1> SUFFICES ASSUME ClientInv, Login PROVE ClientInv'
  OBVIOUS
<1>1. UNCHANGED <<backends, raised, ch, otp, push, pushLeft, otpResult, pushResult, left,
                  refused>>
  BY Zenon DEF Login, goroutines
<1>2. attempt' \in targetUrls /\ client' \in {"login", "failed", "choose"}
  <2>1. CASE client' = "choose" /\ UNCHANGED attempt
    BY <2>1 DEF ClientInv, ClientTypes
  <2>2. CASE NextTarget
    BY <2>2, NextTargetIs DEF ClientInv
  <2> QED
    BY <2>1, <2>2, Zenon DEF Login
<1>3. ClientTypes'
  <2>1. client' \in {"login", "choose", "wait", "ok", "failed"}
    BY <1>2
  <2> QED
    BY <1>1, <1>2, <2>1, Zenon DEF ClientInv, ClientTypes
<1>4. Grows
  BY <1>1, GrowsSame
<1>5. SuccessMeansRaised'
  BY <1>2 DEF SuccessMeansRaised
<1> QED
  BY <1>1, <1>3, <1>4, <1>5, SameResults DEF ClientInv

(* A factor that is asked for directly. *)
LEMMA DirectFactorIs ==
    ASSUME ClientInv, DirectFactor, UNCHANGED backends
    PROVE  /\ client' \in {"login", "choose", "wait", "ok", "failed"}
           /\ attempt' \in targetUrls
           /\ raised' \in [targetUrls -> BOOLEAN] /\ refused' \in [targetUrls -> BOOLEAN]
           /\ Grows /\ SuccessMeansRaised'
<1>1. /\ attempt \in targetUrls
      /\ raised \in [targetUrls -> BOOLEAN] /\ refused \in [targetUrls -> BOOLEAN]
  BY Zenon DEF ClientInv, ClientTypes
<1>2. CASE /\ raised' = [raised EXCEPT ![attempt] = TRUE]
           /\ client' = "ok" /\ UNCHANGED <<attempt, refused>>
  <2>1. /\ raised' \in [targetUrls -> BOOLEAN]
        /\ \A s \in targetUrls : raised[s] => raised'[s]
        /\ raised'[attempt]
    BY <1>1, <1>2, OneMore, Zenon
  <2> QED
    BY <1>1, <1>2, <2>1, Zenon DEF Grows, SuccessMeansRaised
<1>3. CASE /\ refused' = [refused EXCEPT ![attempt] = TRUE]
           /\ client' = "ok" /\ UNCHANGED <<attempt, raised>>
  <2>1. /\ refused' \in [targetUrls -> BOOLEAN]
        /\ \A s \in targetUrls : refused[s] => refused'[s]
        /\ refused'[attempt]
    BY <1>1, <1>3, OneMore, Zenon
  <2> QED
    BY <1>1, <1>3, <2>1, Zenon DEF Grows, SuccessMeansRaised
<1>4. CASE NextTarget /\ UNCHANGED <<refused, raised>>
  <2>1. attempt' \in targetUrls /\ client' \in {"login", "failed"}
    BY <1>4, NextTargetIs DEF ClientInv
  <2>2. client' # "ok" /\ client' \in {"login", "choose", "wait", "ok", "failed"}
    BY <2>1
  <2> QED
    BY <1>1, <1>4, <2>1, <2>2, GrowsSame, Zenon DEF SuccessMeansRaised
<1> QED
  BY <1>2, <1>3, <1>4, Zenon DEF DirectFactor

LEMMA AuthenticateInv == ClientInv /\ authenticateUser => ClientInv'
<1> SUFFICES ASSUME ClientInv, authenticateUser PROVE ClientInv'
  OBVIOUS
<1>0. /\ UNCHANGED <<backends, ch, pushLeft, otpResult, pushResult>>
      /\ attempt \in targetUrls
  BY Zenon DEF authenticateUser, ClientInv, ClientTypes
<1>1. ASSUME client' \in {"login", "choose", "wait", "ok", "failed"}, attempt' \in targetUrls,
             raised' \in [targetUrls -> BOOLEAN], refused' \in [targetUrls -> BOOLEAN],
             Grows, SuccessMeansRaised', UNCHANGED <<otp, push, left>>
      PROVE  ClientInv'
  <2>1. ClientTypes'
    BY <1>0, <1>1, Zenon DEF ClientInv, ClientTypes
  <2> QED
    BY <1>0, <1>1, <2>1, SameResults DEF ClientInv
<1>2. raised \in [targetUrls -> BOOLEAN] /\ refused \in [targetUrls -> BOOLEAN]
  BY Zenon DEF ClientInv, ClientTypes
<1>3. CASE /\ "Password" \in backends /\ client' = "ok"
           /\ UNCHANGED <<attempt, otp, push, left, refused, raised>>
  <2>1. SuccessMeansRaised' /\ Grows
    BY <1>0, <1>3, GrowsSame, Zenon DEF SuccessMeansRaised
  <2> QED
    BY <1>0, <1>1, <1>2, <1>3, <2>1
<1>4. CASE (doU2FAuthenticate \/ doTOTPAuthenticate) /\ UNCHANGED <<otp, push, left>>
  <2>1. CASE DirectFactor
    BY <1>0, <1>1, <1>4, <2>1, DirectFactorIs, Zenon
  <2>2. CASE client' = "failed" /\ UNCHANGED <<attempt, refused, raised>>
    BY <1>0, <1>1, <1>2, <1>4, <2>2, GrowsSame DEF SuccessMeansRaised
  <2> QED
    BY <1>4, <2>1, <2>2, Zenon DEF doU2FAuthenticate, doTOTPAuthenticate
<1>5. CASE /\ client' = "wait"
           /\ otp' = [otp EXCEPT ![attempt] = "reading"]
           /\ push' = [push EXCEPT ![attempt] = "starting"]
           /\ left' = [left EXCEPT ![attempt] = vipCheckTimeoutSecs]
           /\ UNCHANGED <<attempt, refused, raised>>
  <2>1. /\ otp' \in [targetUrls -> Ended \cup {"reading", "posting", "sending"}]
        /\ push' \in [targetUrls -> Ended \cup {"starting", "polling", "sleeping", "sending"}]
    BY <1>5 DEF ClientInv, ClientTypes
  <2>2. left' \in [targetUrls -> 0 .. vipCheckTimeoutSecs]
    BY <1>5, ClientAssumption DEF ClientInv, ClientTypes
  <2>3. client' \in {"login", "choose", "wait", "ok", "failed"} /\ client' # "ok"
    BY <1>5
  <2>4. ClientTypes'
    BY <1>0, <1>5, <2>1, <2>2, <2>3, Zenon DEF ClientInv, ClientTypes
  <2>5. Grows /\ SuccessMeansRaised'
    BY <1>5, <2>3, GrowsSame, Zenon DEF SuccessMeansRaised
  <2> QED
    BY <1>0, <2>4, <2>5, SameResults DEF ClientInv
<1>6. CASE NextTarget /\ UNCHANGED <<otp, push, left, refused, raised>>
  <2>1. attempt' \in targetUrls /\ client' \in {"login", "failed"}
    BY <1>6, NextTargetIs DEF ClientInv
  <2>2. client' # "ok" /\ client' \in {"login", "choose", "wait", "ok", "failed"}
    BY <2>1
  <2>3. Grows /\ SuccessMeansRaised'
    BY <1>6, <2>2, GrowsSame, Zenon DEF SuccessMeansRaised
  <2> QED
    BY <1>1, <1>2, <1>6, <2>1, <2>2, <2>3
<1> QED
  BY <1>3, <1>4, <1>5, <1>6, Zenon DEF authenticateUser

LEMMA WaitInv == ClientInv /\ doGenericTokenPushAuthenticate => ClientInv'
<1> SUFFICES ASSUME ClientInv, doGenericTokenPushAuthenticate PROVE ClientInv'
  OBVIOUS
<1>1. CASE GiveUp
  <2>1. UNCHANGED <<backends, raised, ch, otp, push, pushLeft, otpResult, pushResult, left,
                    refused>>
    BY <1>1, Zenon DEF GiveUp, goroutines
  <2>2. attempt' \in targetUrls /\ client' \in {"login", "failed"}
    BY <1>1, NextTargetIs, Zenon DEF ClientInv, GiveUp
  <2>3. client' # "ok" /\ client' \in {"login", "choose", "wait", "ok", "failed"}
    BY <2>2
  <2>4. ClientTypes'
    BY <2>1, <2>2, <2>3, Zenon DEF ClientInv, ClientTypes
  <2>5. Grows /\ SuccessMeansRaised'
    BY <2>1, <2>3, GrowsSame, Zenon DEF SuccessMeansRaised
  <2> QED
    BY <2>1, <2>4, <2>5, SameResults DEF ClientInv
<1>2. CASE ~GiveUp
  <2>1. /\ ch[attempt] # <<>>
        /\ ch' = [ch EXCEPT ![attempt] = <<>>]
        /\ IF Head(ch[attempt]) = "ok" THEN client' = "ok" /\ UNCHANGED attempt ELSE NextTarget
        /\ UNCHANGED <<backends, raised, otp, push, left, pushLeft, otpResult, pushResult,
                       refused>>
    BY <1>2, Zenon DEF doGenericTokenPushAuthenticate
  <2>2. attempt \in targetUrls /\ ch \in [targetUrls -> {<<>>, <<"ok">>, <<"error">>}]
    BY Zenon DEF ClientInv, ClientTypes
  <2>3. Grows
    BY <2>1, GrowsSame
  <2>4. ch' \in [targetUrls -> {<<>>, <<"ok">>, <<"error">>}]
    BY <2>1, <2>2
  <2>5. ResultsDeserved'
    <3>1. \A t \in targetUrls : ch'[t] = <<"ok">> => ch[t] = <<"ok">>
      BY <2>1, <2>2
    <3> QED
      BY <2>1, <2>3, <3>1, GrowsDeserved, Zenon DEF ClientInv, ResultsDeserved
  <2>6. /\ attempt' \in targetUrls
        /\ client' \in {"login", "choose", "wait", "ok", "failed"}
        /\ SuccessMeansRaised'
    <3>1. CASE Head(ch[attempt]) = "ok"
      <4>1. ch[attempt] = <<"ok">>
        BY <2>1, <2>2, <3>1
      <4>2. raised[attempt] \/ refused[attempt]
        BY <2>2, <4>1, Zenon DEF ClientInv, ResultsDeserved, Deserved
      <4> QED
        BY <2>1, <2>2, <3>1, <4>2, Zenon DEF SuccessMeansRaised
    <3>2. CASE Head(ch[attempt]) # "ok"
      <4>1. attempt' \in targetUrls /\ client' \in {"login", "failed"}
        BY <2>1, <3>2, NextTargetIs, Zenon DEF ClientInv
      <4> QED
        BY <4>1 DEF SuccessMeansRaised
    <3> QED
      BY <3>1, <3>2
  <2>7. ClientTypes'
    BY <2>1, <2>4, <2>6, Zenon DEF ClientInv, ClientTypes
  <2> QED
    BY <2>5, <2>6, <2>7 DEF ClientInv
<1> QED
  BY <1>1, <1>2

(* Steps of goroutines: what has to be shown of each. *)
LEMMA GoroutineInv ==
    ASSUME ClientInv, UNCHANGED <<client, attempt, backends, left>>, Grows,
           raised' \in [targetUrls -> BOOLEAN], refused' \in [targetUrls -> BOOLEAN],
           ch' \in [targetUrls -> {<<>>, <<"ok">>, <<"error">>}],
           otp' \in [targetUrls -> Ended \cup {"reading", "posting", "sending"}],
           push' \in [targetUrls -> Ended \cup {"starting", "polling", "sleeping", "sending"}],
           pushLeft' \in [targetUrls -> 0 .. vipCheckTimeoutSecs],
           otpResult' \in [targetUrls -> Results], pushResult' \in [targetUrls -> Results],
           ResultsDeserved'
    PROVE  ClientInv'
<1>1. ClientTypes'
  BY Zenon DEF ClientInv, ClientTypes
<1> QED
  BY <1>1, SameClient DEF ClientInv

LEMMA EnterLineInv == ASSUME NEW t \in targetUrls, ClientInv, EnterLine(t) PROVE ClientInv'
<1>1. /\ UNCHANGED <<client, attempt, backends, left, raised, ch, push, pushLeft, otpResult,
                     pushResult, refused>>
      /\ \/ otp' = [otp EXCEPT ![t] = "posting"]
         \/ otp' = [otp EXCEPT ![t] = "sending"]
  BY Zenon DEF EnterLine, clientRest
<1>2. otp' \in [targetUrls -> Ended \cup {"reading", "posting", "sending"}]
  BY <1>1, Zenon DEF ClientInv, ClientTypes
<1>3. Grows
  BY <1>1, GrowsSame
<1>4. ResultsDeserved'
  BY <1>1, <1>3, SameResults
<1> QED
  BY <1>1, <1>2, <1>3, <1>4, GoroutineInv, Zenon DEF ClientInv, ClientTypes

(* What an answer with this status does to raised. *)
LEMMA AnsweredIs ==
    ASSUME ClientInv, NEW t \in targetUrls, NEW status, Answered(t, status)
    PROVE  /\ raised' \in [targetUrls -> BOOLEAN]
           /\ \A s \in targetUrls : raised[s] => raised'[s]
           /\ status = 200 => raised'[t]
<1>1. raised \in [targetUrls -> BOOLEAN]
  BY Zenon DEF ClientInv, ClientTypes
<1>2. CASE status = 200 /\ raised' = [raised EXCEPT ![t] = TRUE]
  BY <1>1, <1>2, OneMore, Zenon
<1>3. CASE status \notin {0, 200} /\ UNCHANGED raised
  BY <1>1, <1>3, Zenon
<1>4. ASSUME status = 0, NEW r \in {raised[t], TRUE}, raised' = [raised EXCEPT ![t] = r]
      PROVE  /\ raised' \in [targetUrls -> BOOLEAN]
             /\ \A s \in targetUrls : raised[s] => raised'[s]
  BY <1>1, <1>4, OneMore, Zenon
<1>5. status = 0 => status # 200
  OBVIOUS
<1> QED
  BY <1>2, <1>3, <1>4, <1>5, Zenon DEF Answered

LEMMA TokenClientInv ==
    ASSUME NEW t \in targetUrls, ClientInv, genericAuthenticateWithToken(t) PROVE ClientInv'
<1>1. PICK status \in {200, 401, 0} :
          /\ Answered(t, status)
          /\ otpResult' = [otpResult EXCEPT ![t] = IF status = 0 THEN "error" ELSE "ok"]
          /\ refused' = [refused EXCEPT ![t] = refused[t] \/ status = 401]
  BY Zenon DEF genericAuthenticateWithToken
<1>2. /\ otp' = [otp EXCEPT ![t] = "sending"]
      /\ UNCHANGED <<client, attempt, backends, left, ch, push, pushLeft, pushResult>>
  BY Zenon DEF genericAuthenticateWithToken, clientRest
<1>3. /\ raised' \in [targetUrls -> BOOLEAN] /\ (status = 200 => raised'[t])
      /\ \A s \in targetUrls : raised[s] => raised'[s]
  BY <1>1, AnsweredIs
<1>4. refused \in [targetUrls -> BOOLEAN]
  BY Zenon DEF ClientInv, ClientTypes
<1>5. (refused[t] \/ status = 401) \in {refused[t], TRUE}
  <2>1. refused[t] \in BOOLEAN
    BY <1>4, Zenon
  <2> QED
    BY <2>1, Zenon
<1>6. /\ refused' \in [targetUrls -> BOOLEAN]
      /\ \A s \in targetUrls : refused[s] => refused'[s]
  <2> DEFINE b == refused[t] \/ status = 401
  <2>1. refused' = [refused EXCEPT ![t] = b]
    BY <1>1, Zenon
  <2>2. b \in {refused[t], TRUE}
    BY <1>5, Zenon
  <2> HIDE DEF b
  <2> QED
    BY <1>4, <2>1, <2>2, OneMore, Zenon
<1>7. status = 401 => refused'[t]
  BY <1>1, <1>4, Zenon
<1>8. Grows
  BY <1>3, <1>6, Zenon DEF Grows
<1>9. /\ otpResult' \in [targetUrls -> Results]
      /\ otpResult'[t] = "ok" => status \in {200, 401}
      /\ \A s \in targetUrls : s # t => otpResult'[s] = otpResult[s]
  BY <1>1 DEF ClientInv, ClientTypes, Results
<1>10. ResultsDeserved'
  <2> SUFFICES ASSUME NEW s \in targetUrls,
                      ch[s] = <<"ok">> \/ otpResult'[s] = "ok" \/ pushResult[s] = "ok"
               PROVE  Deserved(s)'
    BY <1>2, Zenon DEF ResultsDeserved
  <2>1. CASE ch[s] = <<"ok">> \/ otpResult[s] = "ok" \/ pushResult[s] = "ok"
    BY <1>8, <2>1, GrowsDeserved, Zenon DEF ClientInv, ResultsDeserved
  <2>2. CASE s = t /\ otpResult'[t] = "ok"
    BY <1>3, <1>7, <1>9, <2>2, Zenon DEF Deserved
  <2> QED
    BY <1>9, <2>1, <2>2, Zenon
<1>11. otp' \in [targetUrls -> Ended \cup {"reading", "posting", "sending"}]
  BY <1>2 DEF ClientInv, ClientTypes
<1> QED
  BY <1>2, <1>3, <1>6, <1>8, <1>9, <1>10, <1>11, GoroutineInv, Zenon DEF ClientInv, ClientTypes

(* What becomes of the goroutine that polls: it sends, or waits. *)
LEMMA PushIs ==
    ASSUME ClientInv, NEW t \in targetUrls, NEW how \in {"polling", "sleeping"},
           NEW r \in Results, PushSends(t, r) \/ PushWaits(t, how)
    PROVE  /\ push' \in [targetUrls -> Ended \cup {"starting", "polling", "sleeping", "sending"}]
           /\ pushLeft' \in [targetUrls -> 0 .. vipCheckTimeoutSecs]
           /\ pushResult' \in [targetUrls -> Results]
           /\ \A s \in targetUrls : pushResult'[s] = "ok" => pushResult[s] = "ok" \/ (s = t /\ r = "ok")
<1>1. /\ push \in [targetUrls -> Ended \cup {"starting", "polling", "sleeping", "sending"}]
      /\ pushLeft \in [targetUrls -> 0 .. vipCheckTimeoutSecs]
      /\ pushResult \in [targetUrls -> Results]
  BY Zenon DEF ClientInv, ClientTypes
<1>2. CASE PushSends(t, r)
  <2>1. /\ push' = [push EXCEPT ![t] = "sending"] /\ UNCHANGED pushLeft
        /\ pushResult' = [pushResult EXCEPT ![t] = r]
    BY <1>2, Zenon DEF PushSends
  <2> QED
    BY <1>1, <2>1
<1>3. CASE PushWaits(t, how)
  <2>1. /\ push' = [push EXCEPT ![t] = how] /\ UNCHANGED pushResult
        /\ pushLeft' = [pushLeft EXCEPT ![t] = vipCheckTimeoutSecs]
    BY <1>3, Zenon DEF PushWaits
  <2>2. vipCheckTimeoutSecs \in 0 .. vipCheckTimeoutSecs
    BY ClientAssumption
  <2> QED
    BY <1>1, <2>1, <2>2
<1> QED
  BY <1>2, <1>3

LEMMA StartPushInv == ASSUME NEW t \in targetUrls, ClientInv, startGenericPush(t) PROVE ClientInv'
<1>1. /\ UNCHANGED <<client, attempt, backends, left, raised, ch, otp, otpResult, refused>>
      /\ PushWaits(t, "polling") \/ PushWaits(t, "sleeping")
  BY Zenon DEF startGenericPush, clientRest
<1>2. /\ push' \in [targetUrls -> Ended \cup {"starting", "polling", "sleeping", "sending"}]
      /\ pushLeft' \in [targetUrls -> 0 .. vipCheckTimeoutSecs]
      /\ pushResult' \in [targetUrls -> Results]
  BY <1>1, PushIs DEF Results
<1>3. Grows /\ UNCHANGED pushResult
  BY <1>1, GrowsSame DEF PushWaits
<1>4. ResultsDeserved'
  BY <1>1, <1>3, SameResults
<1> QED
  BY <1>1, <1>2, <1>3, <1>4, GoroutineInv, Zenon DEF ClientInv, ClientTypes

LEMMA PushCheckInv == ASSUME NEW t \in targetUrls, ClientInv, doGenericPushCheck(t) PROVE ClientInv'
<1>1. UNCHANGED <<client, attempt, backends, left, ch, otp, otpResult, refused>>
  BY Zenon DEF doGenericPushCheck, clientRest
<1>2. ASSUME raised' \in [targetUrls -> BOOLEAN],
             \A s \in targetUrls : raised[s] => raised'[s],
             push' \in [targetUrls -> Ended \cup {"starting", "polling", "sleeping", "sending"}],
             pushLeft' \in [targetUrls -> 0 .. vipCheckTimeoutSecs],
             pushResult' \in [targetUrls -> Results],
             \A s \in targetUrls : pushResult'[s] = "ok" => pushResult[s] = "ok" \/ raised'[s]
      PROVE  ClientInv'
  <2>1. Grows
    BY <1>1, <1>2, Zenon DEF Grows
  <2>2. ResultsDeserved'
    BY <1>1, <1>2, <2>1, GrowsDeserved, Zenon DEF ClientInv, ResultsDeserved, Deserved
  <2> QED
    BY <1>1, <1>2, <2>1, <2>2, GoroutineInv, Zenon DEF ClientInv, ClientTypes
<1>3. ASSUME NEW status \in {200, 412, 0}, Answered(t, status),
             \/ PollOk(status) /\ PushSends(t, "ok")
             \/ status = 0 /\ PushWaits(t, "sleeping")
             \/ UNCHANGED <<push, pushLeft, pushResult>>
      PROVE  ClientInv'
  <2>1. /\ raised' \in [targetUrls -> BOOLEAN] /\ (status = 200 => raised'[t])
        /\ \A s \in targetUrls : raised[s] => raised'[s]
    BY <1>3, AnsweredIs
  <2>2. CASE PollOk(status) /\ PushSends(t, "ok")
    <3>1. raised'[t]
      BY <2>1, <2>2, Zenon DEF PollOk
    <3>2. /\ push' \in [targetUrls -> Ended \cup {"starting", "polling", "sleeping", "sending"}]
          /\ pushLeft' \in [targetUrls -> 0 .. vipCheckTimeoutSecs]
          /\ pushResult' \in [targetUrls -> Results]
          /\ \A s \in targetUrls : pushResult'[s] = "ok" => pushResult[s] = "ok" \/ s = t
      BY <2>2, PushIs DEF Results
    <3> QED
      BY <1>2, <2>1, <3>1, <3>2, Zenon
  <2>3. CASE PushWaits(t, "sleeping")
    <3>1. /\ push' \in [targetUrls -> Ended \cup {"starting", "polling", "sleeping", "sending"}]
          /\ pushLeft' \in [targetUrls -> 0 .. vipCheckTimeoutSecs]
          /\ pushResult' \in [targetUrls -> Results]
      BY <2>3, PushIs DEF Results
    <3>2. UNCHANGED pushResult
      BY <2>3 DEF PushWaits
    <3> QED
      BY <1>2, <2>1, <3>1, <3>2, Zenon
  <2>4. CASE UNCHANGED <<push, pushLeft, pushResult>>
    BY <1>2, <2>1, <2>4, Zenon DEF ClientInv, ClientTypes
  <2> QED
    BY <1>3, <2>2, <2>3, <2>4, Zenon
<1>4. ASSUME PushSends(t, "error"), UNCHANGED raised PROVE ClientInv'
  <2>1. /\ push' \in [targetUrls -> Ended \cup {"starting", "polling", "sleeping", "sending"}]
        /\ pushLeft' \in [targetUrls -> 0 .. vipCheckTimeoutSecs]
        /\ pushResult' \in [targetUrls -> Results]
        /\ \A s \in targetUrls : pushResult'[s] = "ok" => pushResult[s] = "ok"
    BY <1>4, PushIs DEF Results
  <2>2. raised' \in [targetUrls -> BOOLEAN] /\ \A s \in targetUrls : raised[s] => raised'[s]
    BY <1>4, Zenon DEF ClientInv, ClientTypes
  <2> QED
    BY <1>2, <2>1, <2>2, Zenon
<1> QED
  BY <1>3, <1>4, Zenon DEF doGenericPushCheck

LEMMA SendResultInv == ASSUME NEW t \in targetUrls, ClientInv, SendResult(t) PROVE ClientInv'
<1>1. UNCHANGED <<client, attempt, backends, left, raised, pushLeft, otpResult, pushResult,
                  refused>>
  BY Zenon DEF SendResult, clientRest
<1>2. Grows
  BY <1>1, GrowsSame
<1>3. PICK result \in {otpResult[t], pushResult[t]} :
          /\ ch' = [ch EXCEPT ![t] = <<result>>]
          /\ \/ otp' = [otp EXCEPT ![t] = "ended"] /\ UNCHANGED push
             \/ push' = [push EXCEPT ![t] = "ended"] /\ UNCHANGED otp
  BY DEF SendResult
<1>4. /\ otp' \in [targetUrls -> Ended \cup {"reading", "posting", "sending"}]
      /\ push' \in [targetUrls -> Ended \cup {"starting", "polling", "sleeping", "sending"}]
  BY <1>3, Zenon DEF ClientInv, ClientTypes, Ended
<1>5. ch \in [targetUrls -> {<<>>, <<"ok">>, <<"error">>}] /\ result \in Results
  BY DEF ClientInv, ClientTypes
<1>6. /\ ch' \in [targetUrls -> {<<>>, <<"ok">>, <<"error">>}]
      /\ ch'[t] = <<result>> /\ \A s \in targetUrls : s # t => ch'[s] = ch[s]
  BY <1>3, <1>5 DEF Results
<1>7. ch'[t] = <<"ok">> => result = "ok"
  BY <1>6
<1>8. ResultsDeserved'
  <2>1. ASSUME NEW s \in targetUrls, ch'[s] = <<"ok">>
        PROVE  ch[s] = <<"ok">> \/ otpResult[s] = "ok" \/ pushResult[s] = "ok"
    BY <1>3, <1>6, <1>7, <2>1, Zenon
  <2> QED
    BY <1>1, <1>2, <2>1, GrowsDeserved, Zenon DEF ClientInv, ResultsDeserved
<1> QED
  BY <1>1, <1>2, <1>4, <1>6, <1>8, GoroutineInv, Zenon DEF ClientInv, ClientTypes

LEMMA ClientNextInv == ClientInv /\ ClientNext => ClientInv'
BY TickClientInv, LoginClientInv, AuthenticateInv, WaitInv, EnterLineInv, TokenClientInv,
   StartPushInv, PushCheckInv, SendResultInv, Zenon DEF ClientNext

LEMMA ClientStutters == ClientInv /\ UNCHANGED clientVars => ClientInv'
<1> SUFFICES ASSUME ClientInv, UNCHANGED clientVars PROVE ClientInv'
  OBVIOUS
<1>1. UNCHANGED <<client, attempt, backends, raised, ch, otp, push, left, pushLeft,
                  otpResult, pushResult, refused>>
  BY Zenon DEF clientVars
<1>2. Grows /\ ClientTypes'
  BY <1>1, GrowsSame, Zenon DEF ClientInv, ClientTypes
<1> QED
  BY <1>1, <1>2, SameResults, SameClient DEF ClientInv

(* Every step of the client and its goroutines keeps ClientInv. *)
THEOREM ClientInvariance == ClientSpec => []ClientInv
<1>1. ClientInv /\ [ClientNext]_clientVars => ClientInv'
  BY ClientNextInv, ClientStutters
<1> QED
  BY <1>1, ClientInitInv, PTL DEF ClientSpec

(***************************************************************************)
(* The client takes an attempt for a success only if the level of its      *)
(* cookie was raised, passwords are enough, or the server has refused a    *)
(* code or a signature for this very target, whatever goroutines of former *)
(* attempts still do (doGenericTokenPushAuthenticate in pushtoken.go).     *)
(***************************************************************************)
THEOREM SuccessIsRaised == ClientSpec => []SuccessMeansRaised
<1>1. ClientInv => SuccessMeansRaised
  BY DEF ClientInv
<1> QED
  BY <1>1, ClientInvariance, PTL

(***************************************************************************)
(* The channel of each target, by who has sent: once the client has taken  *)
(* a result one of the two goroutines has ended, and a channel that is     *)
(* full when the client is gone holds the result of the other.  Nothing is *)
(* started for a target before its turn.                                   *)
(***************************************************************************)
Waiting(t) == client = "wait" /\ attempt = t

Unstarted(t) == otp[t] = "none" /\ push[t] = "none" /\ ch[t] = <<>>

Counted(t) ==
    \/ timedOut[t] \/ Unstarted(t)
    \/ /\ Waiting(t) \/ otp[t] = "ended" \/ push[t] = "ended"
       /\ ch[t] # <<>> /\ Waiting(t) => otp[t] = "ended" \/ push[t] = "ended"
       /\ ch[t] # <<>> /\ ~Waiting(t) => otp[t] = "ended" /\ push[t] = "ended"

ToCome(t) == t > attempt \/ (t = attempt /\ client \in {"login", "choose"})

RoomInv ==
    /\ timedOut \in [targetUrls -> BOOLEAN]
    /\ \A t \in targetUrls : Counted(t) /\ (ToCome(t) => Unstarted(t))

(* A step in which nobody ends or starts, and the client stays. *)
LEMMA RoomSame ==
    ASSUME RoomInv, UNCHANGED <<client, attempt, timedOut, ch>>,
           \A t \in targetUrls :
              /\ (otp'[t] = "none" <=> otp[t] = "none") /\ (push'[t] = "none" <=> push[t] = "none")
              /\ (otp'[t] = "ended" <=> otp[t] = "ended") /\ (push'[t] = "ended" <=> push[t] = "ended")
    PROVE  RoomInv'
<1>1. ASSUME NEW t \in targetUrls
      PROVE  (Waiting(t)' <=> Waiting(t)) /\ (ToCome(t)' <=> ToCome(t)) /\ (Unstarted(t)' <=> Unstarted(t))
  BY Zenon DEF Waiting, ToCome, Unstarted
<1>2. ASSUME NEW t \in targetUrls PROVE Counted(t)'
  <2>1. Counted(t)
    BY Zenon DEF RoomInv
  <2> QED
    BY <1>1, <2>1, Zenon DEF Counted
<1> QED
  BY <1>1, <1>2, Zenon DEF RoomInv

(* A goroutine of target t goes on. *)
LEMMA RoomGoesOn ==
    ASSUME ClientInv, RoomInv, NEW t \in targetUrls, UNCHANGED <<client, attempt, timedOut, ch>>,
           NEW to \in {"reading", "posting", "starting", "polling", "sleeping", "sending"},
           \/ otp' = [otp EXCEPT ![t] = to] /\ push' = push /\ otp[t] \notin Ended
           \/ push' = [push EXCEPT ![t] = to] /\ otp' = otp /\ push[t] \notin Ended
    PROVE  RoomInv'
<1>1. DOMAIN otp = targetUrls /\ DOMAIN push = targetUrls
  BY DEF ClientInv, ClientTypes
<1>2. \A s \in targetUrls :
         /\ (otp'[s] = "none" <=> otp[s] = "none") /\ (push'[s] = "none" <=> push[s] = "none")
         /\ (otp'[s] = "ended" <=> otp[s] = "ended") /\ (push'[s] = "ended" <=> push[s] = "ended")
  BY <1>1 DEF Ended
<1> QED
  BY <1>2, RoomSame

(* The client, which is not waiting, goes on to something else. *)
LEMMA RoomClient ==
    ASSUME ClientInv, RoomInv, client # "wait", UNCHANGED <<timedOut, ch, otp, push>>,
           \/ NextTarget
           \/ attempt' = attempt /\ client' \in {"ok", "failed"}
           \/ attempt' = attempt /\ client = "login" /\ client' = "choose"
    PROVE  RoomInv'
<1>1. attempt \in targetUrls /\ \A t \in targetUrls : t \in Nat
  BY ClientAssumption DEF ClientInv, ClientTypes
<1>2. ASSUME NEW t \in targetUrls
      PROVE  ~Waiting(t) /\ ~Waiting(t)' /\ (ToCome(t)' => ToCome(t)) /\ (Unstarted(t)' <=> Unstarted(t))
  <2>1. client' # "wait"
    BY DEF NextTarget
  <2>2. ToCome(t)' => ToCome(t)
    BY <1>1 DEF ToCome, NextTarget
  <2> QED
    BY <2>1, <2>2, Zenon DEF Waiting, Unstarted
<1>3. ASSUME NEW t \in targetUrls PROVE Counted(t)'
  <2>1. Counted(t)
    BY Zenon DEF RoomInv
  <2> QED
    BY <1>2, <2>1, Zenon DEF Counted
<1> QED
  BY <1>2, <1>3, Zenon DEF RoomInv

(* The client, which was waiting, gives up or has a result. *)
LEMMA RoomWait == ClientInv /\ RoomInv /\ doGenericTokenPushAuthenticate => RoomInv'
<1> SUFFICES ASSUME ClientInv, RoomInv, doGenericTokenPushAuthenticate PROVE RoomInv'
  OBVIOUS
<1>1. /\ attempt \in targetUrls /\ \A t \in targetUrls : t \in Nat
      /\ ch \in [targetUrls -> {<<>>, <<"ok">>, <<"error">>}] /\ timedOut \in [targetUrls -> BOOLEAN]
  BY ClientAssumption DEF ClientInv, ClientTypes, RoomInv
<1>2. /\ client = "wait" /\ UNCHANGED <<otp, push>>
      /\ (client' = "ok" /\ UNCHANGED attempt) \/ NextTarget
      /\ \/ ch' = ch /\ timedOut' = [timedOut EXCEPT ![attempt] = TRUE]
         \/ /\ timedOut' = timedOut /\ ch[attempt] # <<>>
            /\ ch' = [ch EXCEPT ![attempt] = <<>>]
  BY Zenon DEF doGenericTokenPushAuthenticate, GiveUp, goroutines
<1>3. ASSUME NEW t \in targetUrls PROVE ~Waiting(t)' /\ (ToCome(t)' => ToCome(t))
  <2>1. client' # "wait"
    BY <1>2 DEF NextTarget
  <2>2. ToCome(t)' => ToCome(t)
    BY <1>1, <1>2 DEF ToCome, NextTarget
  <2> QED
    BY <2>1, <2>2, Zenon DEF Waiting
<1>4. ASSUME NEW t \in targetUrls PROVE Unstarted(t) => Unstarted(t)'
  <2>1. ch[t] = <<>> => ch'[t] = <<>>
    BY <1>1, <1>2
  <2> QED
    BY <1>2, <2>1, Zenon DEF Unstarted
<1>5. ASSUME NEW t \in targetUrls PROVE Counted(t)'
  <2>1. Counted(t)
    BY Zenon DEF RoomInv
  <2>2. CASE t = attempt
    <3>1. timedOut'[t] \/ (ch'[t] = <<>> /\ ch[t] # <<>>)
      BY <1>1, <1>2, <2>2
    <3>2. CASE timedOut'[t]
      BY <3>2, Zenon DEF Counted
    <3>3. CASE ch'[t] = <<>> /\ ch[t] # <<>>
      <4>1. timedOut[t] \/ otp[t] = "ended" \/ push[t] = "ended"
        BY <1>2, <2>1, <2>2, <3>3, Zenon DEF Counted, Unstarted, Waiting
      <4>2. timedOut[t] => timedOut'[t]
        BY <1>1, <1>2
      <4> QED
        BY <1>2, <3>3, <4>1, <4>2, Zenon DEF Counted
    <3> QED
      BY <3>1, <3>2, <3>3
  <2>3. CASE t # attempt
    <3>1. ch'[t] = ch[t] /\ timedOut'[t] = timedOut[t]
      BY <1>1, <1>2, <2>3
    <3>2. ~Waiting(t)
      BY <2>3, Zenon DEF Waiting
    <3> QED
      BY <1>2, <1>3, <1>4, <2>1, <3>1, <3>2, Zenon DEF Counted
  <2> QED
    BY <2>2, <2>3
<1>6. timedOut' \in [targetUrls -> BOOLEAN]
  BY <1>1, <1>2, Zenon
<1> QED
  BY <1>3, <1>4, <1>5, <1>6, Zenon DEF RoomInv

LEMMA RoomChoose == ClientInv /\ RoomInv /\ authenticateUser => RoomInv'
<1> SUFFICES ASSUME ClientInv, RoomInv, authenticateUser PROVE RoomInv'
  OBVIOUS
<1>1. client = "choose" /\ UNCHANGED <<ch, timedOut>>
  BY Zenon DEF authenticateUser
<1>2. CASE /\ UNCHANGED <<otp, push>>
           /\ NextTarget \/ (attempt' = attempt /\ client' \in {"ok", "failed"})
  BY <1>1, <1>2, RoomClient
<1>3. CASE /\ client' = "wait" /\ attempt' = attempt
           /\ otp' = [otp EXCEPT ![attempt] = "reading"]
           /\ push' = [push EXCEPT ![attempt] = "starting"]
  <2>1. /\ attempt \in targetUrls /\ \A t \in targetUrls : t \in Nat
        /\ DOMAIN otp = targetUrls /\ DOMAIN push = targetUrls
    BY ClientAssumption DEF ClientInv, ClientTypes
  <2>2. ASSUME NEW t \in targetUrls, t # attempt
        PROVE  Counted(t)' /\ (ToCome(t)' => Unstarted(t)')
    <3>1. otp'[t] = otp[t] /\ push'[t] = push[t] /\ ch'[t] = ch[t] /\ timedOut'[t] = timedOut[t]
      BY <1>1, <1>3, <2>1, <2>2
    <3>2. Counted(t) /\ (ToCome(t) => Unstarted(t))
      BY Zenon DEF RoomInv
    <3>3. ~Waiting(t) /\ ~Waiting(t)' /\ (ToCome(t)' <=> ToCome(t)) /\ (Unstarted(t)' <=> Unstarted(t))
      BY <1>3, <2>2, <3>1, Zenon DEF Waiting, ToCome, Unstarted
    <3> QED
      BY <3>1, <3>2, <3>3, Zenon DEF Counted
  <2>3. Counted(attempt)' /\ ~ToCome(attempt)'
    <3>1. ToCome(attempt)
      BY <1>1 DEF ToCome
    <3>2. Unstarted(attempt)
      BY <2>1, <3>1, Zenon DEF RoomInv
    <3>3. ch'[attempt] = <<>>
      BY <1>1, <3>2, Zenon DEF Unstarted
    <3>4. Waiting(attempt)'
      BY <1>3, Zenon DEF Waiting
    <3>5. ~ToCome(attempt)'
      BY <1>3, <2>1 DEF ToCome
    <3> QED
      BY <1>3, <3>3, <3>4, <3>5, Zenon DEF Counted
  <2>4. \A t \in targetUrls : Counted(t)' /\ (ToCome(t)' => Unstarted(t)')
    BY <1>3, <2>2, <2>3, Zenon
  <2> QED
    BY <1>1, <2>4, Zenon DEF RoomInv
<1> QED
  BY <1>2, <1>3, Zenon DEF authenticateUser, doU2FAuthenticate, doTOTPAuthenticate, DirectFactor

LEMMA RoomSend ==
    ASSUME NEW t \in targetUrls, ClientInv, RoomInv, SendResult(t) PROVE RoomInv'
<1>1. /\ UNCHANGED <<client, attempt, timedOut>> /\ ch[t] = <<>>
      /\ \/ otp[t] = "sending" /\ otp' = [otp EXCEPT ![t] = "ended"] /\ push' = push
         \/ push[t] = "sending" /\ push' = [push EXCEPT ![t] = "ended"] /\ otp' = otp
  BY Zenon DEF SendResult, CanSend, clientRest
<1>2. \E x : ch' = [ch EXCEPT ![t] = x]
  BY Zenon DEF SendResult
<1>3. DOMAIN otp = targetUrls /\ DOMAIN push = targetUrls /\ DOMAIN ch = targetUrls
  BY DEF ClientInv, ClientTypes
<1>4. ASSUME NEW s \in targetUrls, s # t PROVE Counted(s)' /\ (ToCome(s)' => Unstarted(s)')
  <2>1. otp'[s] = otp[s] /\ push'[s] = push[s] /\ ch'[s] = ch[s] /\ timedOut'[s] = timedOut[s]
    BY <1>1, <1>2, <1>3, <1>4
  <2>2. Counted(s) /\ (ToCome(s) => Unstarted(s))
    BY Zenon DEF RoomInv
  <2>3. (Waiting(s)' <=> Waiting(s)) /\ (ToCome(s)' <=> ToCome(s)) /\ (Unstarted(s)' <=> Unstarted(s))
    BY <1>1, <2>1, Zenon DEF Waiting, ToCome, Unstarted
  <2> QED
    BY <2>1, <2>2, <2>3, Zenon DEF Counted
<1>5. ~Unstarted(t)
  BY <1>1 DEF Unstarted
<1>6. Counted(t) /\ ~ToCome(t)
  BY <1>5, Zenon DEF RoomInv
<1>7. /\ timedOut'[t] = timedOut[t] /\ (Waiting(t)' <=> Waiting(t)) /\ ~ToCome(t)'
  BY <1>1, <1>6, Zenon DEF Waiting, ToCome
<1>8. \/ otp[t] # "ended" /\ otp'[t] = "ended" /\ push'[t] = push[t]
      \/ push[t] # "ended" /\ push'[t] = "ended" /\ otp'[t] = otp[t]
  BY <1>1, <1>3
<1>9. Counted(t)'
  BY <1>5, <1>6, <1>7, <1>8, Zenon DEF Counted
<1>10. \A s \in targetUrls : Counted(s)' /\ (ToCome(s)' => Unstarted(s)')
  BY <1>4, <1>7, <1>9, Zenon
<1> QED
  BY <1>1, <1>10, Zenon DEF RoomInv

LEMMA RoomStep == ClientInv /\ RoomInv /\ [ClientNext]_clientVars => RoomInv'
<1> SUFFICES ASSUME ClientInv, RoomInv, [ClientNext]_clientVars PROVE RoomInv'
  OBVIOUS
<1>1. CASE ClientTick \/ UNCHANGED clientVars
  <2>1. UNCHANGED <<client, attempt, timedOut, ch, otp, push>>
    BY <1>1, Zenon DEF ClientTick, clientVars
  <2> QED
    BY <2>1, RoomSame, Zenon
<1>2. CASE Login
  <2>1. /\ client = "login" /\ UNCHANGED <<timedOut, ch, otp, push>>
        /\ (client' = "choose" /\ attempt' = attempt) \/ NextTarget
    BY <1>2, Zenon DEF Login, goroutines
  <2> QED
    BY <2>1, RoomClient
<1>3. ASSUME NEW t \in targetUrls, EnterLine(t) \/ genericAuthenticateWithToken(t) PROVE RoomInv'
  <2>1. /\ otp[t] \in {"reading", "posting"} /\ UNCHANGED <<client, attempt, timedOut, ch, push>>
        /\ otp' = [otp EXCEPT ![t] = "posting"] \/ otp' = [otp EXCEPT ![t] = "sending"]
    BY <1>3, Zenon DEF EnterLine, genericAuthenticateWithToken, clientRest
  <2>2. otp[t] \notin Ended
    BY <2>1 DEF Ended
  <2> QED
    BY <2>1, <2>2, RoomGoesOn
<1>4. ASSUME NEW t \in targetUrls, startGenericPush(t) \/ doGenericPushCheck(t) PROVE RoomInv'
  <2>1. push[t] \in {"starting", "polling", "sleeping"} /\ UNCHANGED <<client, attempt, timedOut, ch, otp>>
    BY <1>4, Zenon DEF startGenericPush, doGenericPushCheck, clientRest
  <2>2. \/ push' = [push EXCEPT ![t] = "polling"] \/ push' = [push EXCEPT ![t] = "sleeping"]
        \/ push' = [push EXCEPT ![t] = "sending"] \/ push' = push
    BY <1>4, Zenon DEF startGenericPush, doGenericPushCheck, PushSends, PushWaits
  <2>3. push[t] \notin Ended
    BY <2>1 DEF Ended
  <2>4. CASE push' = push
    BY <2>1, <2>4, RoomSame, Zenon
  <2> QED
    BY <2>1, <2>2, <2>3, <2>4, RoomGoesOn
<1> QED
  BY <1>1, <1>2, <1>3, <1>4, RoomWait, RoomChoose, RoomSend DEF ClientNext

(***************************************************************************)
(* Two goroutines share a channel with room for one result, and neither is *)
(* left with its own for ever, as long as the client does not give up: it  *)
(* finds room, or the client is there to make some                         *)
(* (doGenericTokenPushAuthenticate in pushtoken.go).                       *)
(***************************************************************************)
THEOREM ResultHasRoom == ClientSpec => []RoomForResult
<1>1. ClientInit => RoomInv
  <2> SUFFICES ASSUME ClientInit PROVE RoomInv
    OBVIOUS
  <2>1. \A t \in targetUrls : Unstarted(t)
    BY DEF ClientInit, Unstarted
  <2>2. timedOut \in [targetUrls -> BOOLEAN]
    BY DEF ClientInit
  <2> QED
    BY <2>1, <2>2, Zenon DEF RoomInv, Counted
<1>2. RoomInv => RoomForResult
  <2> SUFFICES ASSUME RoomInv, NEW t \in targetUrls, otp[t] = "sending" \/ push[t] = "sending",
                      ch[t] # <<>>, ~timedOut[t]
               PROVE  Waiting(t)
    BY Zenon DEF RoomForResult, Waiting
  <2>1. Counted(t)
    BY Zenon DEF RoomInv
  <2>2. ~(otp[t] = "ended" /\ push[t] = "ended")
    OBVIOUS
  <2> QED
    BY <2>1, <2>2, Zenon DEF Counted, Unstarted
<1> QED
  BY <1>1, <1>2, RoomStep, ClientInvariance, PTL DEF ClientSpec

-----------------------------------------------------------------------------
(* The files of the client *)

Steps == {"rsa", "rsaKey", "rsaCert", "ed25519", "ed25519Key", "ed25519Cert",
          "tlsKey", "tlsCert", "kubernetes", "success", "failed"}
AfterRsa == Steps \ {"rsa", "rsaKey", "rsaCert", "failed"}
AfterEd == AfterRsa \ {"ed25519", "ed25519Key", "ed25519Cert"}

(***************************************************************************)
(* What has been done when the run is at a step: files and the agent have  *)
(* what the steps before it have put there, and the pair for ed25519 is    *)
(* apart only between its two steps or after a run that ended there.       *)
(***************************************************************************)
Written ==
    /\ pc = "rsaCert" => files["rsa"] = run
    /\ pc \in AfterRsa => Usable("rsa")
    /\ pc \in {"ed25519", "ed25519Key", "ed25519Cert"} => "ed25519" \in granted
    /\ pc = "ed25519Cert" => files["ed25519"] = run
    /\ pc \in AfterEd /\ "ed25519" \in granted => Usable("ed25519")
    /\ pc \in {"tlsCert", "kubernetes", "success"} => files["key"] = run
    /\ pc \in {"kubernetes", "success"} => files["cert"] = run
    /\ pc = "success" /\ "kubernetes" \in granted => files["kubernetes.cert"] = run

Paired == files["ed25519"] = files["ed25519.pub"] \/ cutShort \/ pc = "ed25519Cert"

FilesInv ==
    /\ FilesTypeOK /\ pc \in Steps /\ cutShort \in BOOLEAN
    /\ pc \in Steps \ {"failed"} => run \in 1 .. MaxRuns
    /\ Written /\ Paired

LEMMA FilesInitInv == FilesInit => FilesInv
<1> SUFFICES ASSUME FilesInit PROVE FilesInv
  OBVIOUS
<1>1. FilesTypeOK
  BY FilesAssumption DEF FilesInit, FilesTypeOK
<1>2. pc = "failed" /\ files["ed25519"] = files["ed25519.pub"] /\ cutShort = FALSE
  BY DEF FilesInit, Files
<1>3. pc \in Steps /\ pc \notin AfterRsa
  BY <1>2 DEF Steps, AfterRsa
<1>4. Written
  BY <1>2, <1>3 DEF Written, AfterEd
<1> QED
  BY <1>1, <1>2, <1>3, <1>4, Zenon DEF FilesInv, Paired

LEMMA FileNames ==
    /\ DOMAIN FileOf = {"rsaKey", "rsaCert", "ed25519Key", "ed25519Cert", "tlsKey", "tlsCert",
                        "kubernetes"}
    /\ FileOf["rsaKey"] = "rsa" /\ FileOf["rsaCert"] = "rsa.pub"
    /\ FileOf["ed25519Key"] = "ed25519" /\ FileOf["ed25519Cert"] = "ed25519.pub"
    /\ FileOf["tlsKey"] = "key" /\ FileOf["tlsCert"] = "cert"
    /\ FileOf["kubernetes"] = "kubernetes.cert"
BY DEF FileOf

LEMMA UsableIs ==
    /\ Usable("rsa") <=> agent["rsa"] = {run} \/ (files["rsa"] = run /\ files["rsa.pub"] = run)
    /\ Usable("ed25519") <=>
          agent["ed25519"] = {run} \/ (files["ed25519"] = run /\ files["ed25519.pub"] = run)
BY FileNames DEF Usable, CertStep

(* What comes after each step. *)
LEMMA AfterIs ==
    /\ After("rsaKey") = "rsaCert"
    /\ After("rsa") = IF "ed25519" \in granted THEN "ed25519" ELSE "tlsKey"
    /\ After("rsaCert") = After("rsa")
    /\ After("ed25519Key") = "ed25519Cert"
    /\ After("ed25519") = "tlsKey" /\ After("ed25519Cert") = "tlsKey"
    /\ After("tlsKey") = "tlsCert"
    /\ After("tlsCert") = IF "kubernetes" \in granted THEN "kubernetes" ELSE "success"
    /\ After("kubernetes") = "success"
BY DEF After

(* A run that has ended with an error. *)
LEMMA FailedInv ==
    ASSUME FilesTypeOK', pc' = "failed", cutShort' \in BOOLEAN, Paired' PROVE FilesInv'
<1>1. pc' \in Steps /\ pc' \notin AfterRsa /\ pc' \notin AfterEd
  BY DEF Steps, AfterRsa, AfterEd
<1>2. Written'
  BY <1>1 DEF Written
<1> QED
  BY <1>1, <1>2 DEF FilesInv

LEMMA RequestInv == FilesInv /\ RequestCerts => FilesInv'
<1> SUFFICES ASSUME FilesInv, RequestCerts PROVE FilesInv'
  OBVIOUS
<1>1. /\ pc \in Over /\ run < MaxRuns /\ run' = run + 1 /\ granted' \subseteq Optional
      /\ pc' \in {"rsa", "failed"} /\ UNCHANGED <<files, agent, cutShort>>
  BY DEF RequestCerts
<1>2. FilesTypeOK' /\ run' \in 1 .. MaxRuns
  BY <1>1, FilesAssumption DEF FilesInv, FilesTypeOK
<1>3. Paired' /\ cutShort' \in BOOLEAN
  BY <1>1 DEF FilesInv, Paired, Over
<1>4. Written' /\ pc' \in Steps
  BY <1>1 DEF Written, Steps, AfterRsa, AfterEd
<1> QED
  BY <1>2, <1>3, <1>4 DEF FilesInv

LEMMA StopInv == FilesInv /\ Stop => FilesInv'
<1> SUFFICES ASSUME FilesInv, Stop PROVE FilesInv'
  OBVIOUS
<1>1. /\ pc' = "failed" /\ cutShort' = (cutShort \/ pc \in EdFiles)
      /\ UNCHANGED <<run, granted, files, agent>>
  BY Zenon DEF Stop
<1>2. FilesTypeOK'
  BY <1>1, Zenon DEF FilesInv, FilesTypeOK
<1>3. Paired' /\ cutShort' \in BOOLEAN
  BY <1>1, Zenon DEF FilesInv, Paired, EdFiles
<1> QED
  BY <1>1, <1>2, <1>3, FailedInv

(* The agent has the certificate, or the files are written instead. *)
LEMMA InsertInv == ASSUME NEW k \in SSHKinds, FilesInv, InsertSSHCert(k) PROVE FilesInv'
<1>1. PICK r \in UpsertCertIntoAgent(k) :
          /\ agent' = [agent EXCEPT ![k] = r.has]
          /\ pc' = IF r.ok THEN After(k) ELSE KeyStep(k)
  BY Zenon DEF InsertSSHCert
<1>2. pc = k /\ UNCHANGED <<run, granted, files, cutShort>>
  BY Zenon DEF InsertSSHCert
<1>3. /\ run \in 1 .. MaxRuns /\ agent \in [SSHKinds -> SUBSET (1 .. MaxRuns)]
      /\ cutShort \in BOOLEAN
  BY <1>2 DEF FilesInv, FilesTypeOK, SSHKinds, Steps
<1>4. /\ r.has \subseteq 1 .. MaxRuns
      /\ (pc' = After(k) /\ r.has = {run}) \/ pc' = KeyStep(k)
  <2>1. CASE r = [ok |-> TRUE, has |-> {run}]
    <3>1. r.ok = TRUE /\ r.has = {run}
      BY <2>1
    <3> QED
      BY <1>1, <1>3, <3>1
  <2>2. ASSUME NEW h \in SUBSET (agent[k] \cup {run}), r = [ok |-> FALSE, has |-> h]
        PROVE  r.has \subseteq 1 .. MaxRuns /\ pc' = KeyStep(k)
    <3>1. r.ok = FALSE /\ r.has = h
      BY <2>2
    <3>2. agent[k] \subseteq 1 .. MaxRuns
      BY <1>3
    <3>3. h \subseteq 1 .. MaxRuns
      BY <1>3, <3>2
    <3> QED
      BY <1>1, <3>1, <3>3
  <2> QED
    BY <2>1, <2>2, Zenon DEF UpsertCertIntoAgent
<1>5. /\ agent' \in [SSHKinds -> SUBSET (1 .. MaxRuns)]
      /\ agent'[k] = r.has /\ \A l \in SSHKinds : l # k => agent'[l] = agent[l]
  BY <1>1, <1>3, <1>4
<1>6. FilesTypeOK'
  BY <1>2, <1>5 DEF FilesInv, FilesTypeOK
<1>7. Written /\ Paired /\ k \in {"rsa", "ed25519"}
  BY DEF FilesInv, SSHKinds
<1>8. CASE k = "rsa"
  <2>1. pc' = "rsaKey" \/ (agent'["rsa"] = {run} /\ pc' = After("rsa"))
    BY <1>4, <1>5, <1>8 DEF KeyStep
  <2>2. pc' = "rsaKey" \/ (Usable("rsa")' /\ pc' = After("rsa"))
    BY <1>2, <2>1, Zenon DEF Usable
  <2>3. pc' \in Steps /\ pc' # "ed25519Cert" /\ pc' \in {"rsaKey", "ed25519", "tlsKey"}
    BY <2>1, AfterIs DEF Steps
  <2>4. Written'
    BY <1>2, <2>2, <2>3, AfterIs DEF Written, Steps, AfterRsa, AfterEd
  <2>5. Paired'
    BY <1>2, <1>7, <1>8 DEF Paired
  <2> QED
    BY <1>2, <1>3, <1>6, <2>3, <2>4, <2>5 DEF FilesInv
<1>9. CASE k = "ed25519"
  <2>1. pc' = "ed25519Key" \/ (agent'["ed25519"] = {run} /\ pc' = "tlsKey")
    BY <1>4, <1>5, <1>9, AfterIs DEF KeyStep
  <2>2. pc' = "ed25519Key" \/ (Usable("ed25519")' /\ pc' = "tlsKey")
    BY <1>2, <2>1, Zenon DEF Usable
  <2>3. pc' \in Steps
    BY <2>1 DEF Steps
  <2>4. Usable("rsa")' /\ "ed25519" \in granted
    <3>1. Usable("rsa") /\ "ed25519" \in granted
      BY <1>2, <1>7, <1>9 DEF Written, AfterRsa, Steps
    <3>2. agent'["rsa"] = agent["rsa"]
      BY <1>5, <1>9 DEF SSHKinds
    <3> QED
      BY <1>2, <3>1, <3>2, Zenon DEF Usable
  <2>5. Written'
    BY <1>2, <2>2, <2>4 DEF Written, AfterEd
  <2>6. Paired'
    BY <1>2, <1>7, <1>9 DEF Paired
  <2> QED
    BY <1>2, <1>3, <1>6, <2>3, <2>5, <2>6 DEF FilesInv
<1> QED
  BY <1>7, <1>8, <1>9

(* A file is written, and no other. *)
LEMMA WrittenFile ==
    ASSUME FilesInv, NEW f \in Files, NEW n \in {run, -1}, files' = [files EXCEPT ![f] = n]
    PROVE  /\ files' \in [Files -> -1 .. MaxRuns] /\ files'[f] = n
           /\ \A g \in Files : g # f => files'[g] = files[g]
<1>1. files \in [Files -> -1 .. MaxRuns] /\ run \in 0 .. MaxRuns
  BY DEF FilesInv, FilesTypeOK
<1>2. n \in -1 .. MaxRuns
  BY <1>1, FilesAssumption
<1> QED
  BY <1>1, <1>2

LEMMA WriteErrorInv ==
    ASSUME NEW p \in DOMAIN FileOf, FilesInv, pc = p,
           files' \in {files, [files EXCEPT ![FileOf[p]] = -1]}, pc' = "failed",
           cutShort' = (cutShort \/ p \in EdFiles), UNCHANGED <<run, granted, agent>>
    PROVE  FilesInv'
<1>1. FileOf[p] \in Files
  BY FileNames DEF Files
<1>2. /\ files' \in [Files -> -1 .. MaxRuns]
      /\ \A g \in Files : g # FileOf[p] => files'[g] = files[g]
  <2>1. CASE files' = files
    BY <2>1 DEF FilesInv, FilesTypeOK
  <2>2. CASE files' = [files EXCEPT ![FileOf[p]] = -1]
    BY <1>1, <2>2, WrittenFile, Zenon
  <2> QED
    BY <2>1, <2>2
<1>3. FilesTypeOK'
  BY <1>2 DEF FilesInv, FilesTypeOK
<1>4. Paired' /\ cutShort' \in BOOLEAN
  <2>1. CASE p \in EdFiles
    BY <2>1, Zenon DEF Paired
  <2>2. CASE p \notin EdFiles
    <3>1. files'["ed25519"] = files["ed25519"] /\ files'["ed25519.pub"] = files["ed25519.pub"]
      BY <1>2, <2>2, FileNames DEF EdFiles, Files
    <3> QED
      BY <2>2, <3>1 DEF FilesInv, Paired, EdFiles
  <2> QED
    BY <2>1, <2>2
<1> QED
  BY <1>3, <1>4, FailedInv

LEMMA WriteInv ==
    ASSUME NEW p \in DOMAIN FileOf, FilesInv, pc = p,
           files' = [files EXCEPT ![FileOf[p]] = run], pc' = After(p),
           UNCHANGED <<run, granted, agent, cutShort>>
    PROVE  FilesInv'
<1>1. FileOf[p] \in Files
  BY FileNames DEF Files
<1>2. /\ files' \in [Files -> -1 .. MaxRuns] /\ files'[FileOf[p]] = run
      /\ \A g \in Files : g # FileOf[p] => files'[g] = files[g]
  BY <1>1, WrittenFile, ZenonT(40)
<1>3. FilesTypeOK' /\ cutShort' \in BOOLEAN
  BY <1>2 DEF FilesInv, FilesTypeOK
<1>4. p \in Steps \ {"failed"} /\ run \in 1 .. MaxRuns
  BY FileNames DEF FilesInv, Steps
<1>5. Written /\ Paired
  BY DEF FilesInv
<1>6. CASE p \in {"rsaKey", "rsaCert"}
  <2>1. /\ p = "rsaKey" => files'["rsa"] = run /\ pc' = "rsaCert"
        /\ p = "rsaCert" =>
              /\ files["rsa"] = run /\ files'["rsa"] = files["rsa"] /\ files'["rsa.pub"] = run
              /\ pc' = IF "ed25519" \in granted THEN "ed25519" ELSE "tlsKey"
        /\ files'["ed25519"] = files["ed25519"] /\ files'["ed25519.pub"] = files["ed25519.pub"]
    BY <1>2, <1>5, <1>6, FileNames, AfterIs DEF Written, Files
  <2>2. p = "rsaCert" => Usable("rsa")'
    BY <2>1, FileNames DEF Usable, CertStep
  <2>3. Written' /\ pc' \in Steps
    BY <1>6, <2>1, <2>2 DEF Written, Steps, AfterRsa, AfterEd
  <2>4. Paired'
    BY <1>5, <1>6, <2>1 DEF Paired
  <2> QED
    BY <1>3, <1>4, <2>3, <2>4 DEF FilesInv
<1>7. CASE p \in {"ed25519Key", "ed25519Cert"}
  <2>1. /\ p = "ed25519Key" => files'["ed25519"] = run /\ pc' = "ed25519Cert"
        /\ p = "ed25519Cert" =>
              /\ files["ed25519"] = run /\ files'["ed25519"] = files["ed25519"]
              /\ files'["ed25519.pub"] = run /\ pc' = "tlsKey"
        /\ files'["rsa"] = files["rsa"] /\ files'["rsa.pub"] = files["rsa.pub"]
    BY <1>2, <1>5, <1>7, FileNames, AfterIs DEF Written, Files
  <2>2. Usable("rsa") /\ "ed25519" \in granted
    BY <1>5, <1>7 DEF Written, Steps, AfterRsa
  <2>3. /\ Usable("rsa")'
        /\ p = "ed25519Cert" => Usable("ed25519")'
    BY <2>1, <2>2, FileNames DEF Usable, CertStep
  <2>4. Written' /\ pc' \in Steps
    BY <1>7, <2>1, <2>2, <2>3 DEF Written, Steps, AfterRsa, AfterEd
  <2>5. Paired'
    BY <1>7, <2>1 DEF Paired
  <2> QED
    BY SMTT(30), <1>3, <1>4, <2>4, <2>5 DEF FilesInv
<1>8. CASE p \in {"tlsKey", "tlsCert", "kubernetes"}
  <2>1. /\ p = "tlsKey" => files'["key"] = run /\ pc' = "tlsCert"
        /\ p = "tlsCert" =>
              /\ files["key"] = run /\ files'["key"] = files["key"] /\ files'["cert"] = run
              /\ pc' = IF "kubernetes" \in granted THEN "kubernetes" ELSE "success"
        /\ p = "kubernetes" =>
              /\ files["key"] = run /\ files'["key"] = files["key"]
              /\ files["cert"] = run /\ files'["cert"] = files["cert"]
              /\ files'["kubernetes.cert"] = run /\ pc' = "success"
    BY SMTT(30), <1>2, <1>5, <1>8, FileNames, AfterIs DEF Written, Files
  <2>2. /\ files'["rsa"] = files["rsa"] /\ files'["rsa.pub"] = files["rsa.pub"]
        /\ files'["ed25519"] = files["ed25519"] /\ files'["ed25519.pub"] = files["ed25519.pub"]
    BY <1>2, <1>8, FileNames DEF Files
  <2>3. Usable("rsa") /\ ("ed25519" \in granted => Usable("ed25519"))
    BY SMTT(30), <1>5, <1>8 DEF Written, Steps, AfterRsa, AfterEd
  <2>4. Usable("rsa")' /\ ("ed25519" \in granted => Usable("ed25519")')
    BY SMTT(30), <2>2, <2>3, FileNames DEF Usable, CertStep
  <2>5. Written' /\ pc' \in Steps
    BY <1>8, <2>1, <2>4 DEF Written, Steps
  <2>6. Paired'
    BY <1>5, <1>8, <2>2 DEF Paired
  <2> QED
    BY SMTT(30), <1>3, <1>4, <2>5, <2>6 DEF FilesInv
<1> QED
  BY <1>6, <1>7, <1>8, FileNames

LEMMA FilesNextInv == FilesInv /\ FilesNext => FilesInv'
<1> SUFFICES ASSUME FilesInv, FilesNext PROVE FilesInv'
  OBVIOUS
<1>1. ASSUME NEW p \in DOMAIN FileOf, WriteFile(p) PROVE FilesInv'
  <2>1. /\ pc = p /\ UNCHANGED <<run, granted, agent>>
        /\ \/ /\ files' = [files EXCEPT ![FileOf[p]] = run]
              /\ pc' = After(p)
              /\ UNCHANGED cutShort
           \/ /\ files' \in {files, [files EXCEPT ![FileOf[p]] = -1]}
              /\ pc' = "failed"
              /\ cutShort' = (cutShort \/ p \in EdFiles)
    BY <1>1, Zenon DEF WriteFile
  <2> QED
    BY <2>1, WriteInv, WriteErrorInv, Zenon
<1> QED
  BY <1>1, RequestInv, StopInv, InsertInv, Zenon DEF FilesNext

LEMMA FilesStutters == FilesInv /\ UNCHANGED fileVars => FilesInv'
<1> SUFFICES ASSUME FilesInv, UNCHANGED fileVars PROVE FilesInv'
  OBVIOUS
<1>1. UNCHANGED <<run, pc, granted, files, agent, cutShort>>
  BY Zenon DEF fileVars
<1>2. FilesTypeOK' /\ Paired'
  BY <1>1, Zenon DEF FilesInv, FilesTypeOK, Paired
<1>3. Written'
  BY <1>1 DEF FilesInv, Written, Usable
<1> QED
  BY <1>1, <1>2, <1>3 DEF FilesInv

(* Every step of the client with its keys and certificates keeps FilesInv. *)
THEOREM FilesInvariance == FilesSpec => []FilesInv
<1>1. FilesInv /\ [FilesNext]_fileVars => FilesInv'
  BY FilesNextInv, FilesStutters
<1> QED
  BY <1>1, FilesInitInv, PTL DEF FilesSpec

(***************************************************************************)
(* When the client reports success its keys and certificates belong        *)
(* together, in files or in the agent, whatever earlier runs have left and *)
(* wherever they were stopped (setupCerts in cmd/keymaster/main.go).       *)
(***************************************************************************)
THEOREM SuccessPairs == FilesSpec => []SuccessLeavesPairs
<1>1. FilesInv => SuccessLeavesPairs
  BY DEF FilesInv, Written, Paired, SuccessLeavesPairs, Steps, AfterRsa, AfterEd
<1> QED
  BY <1>1, FilesInvariance, PTL

-----------------------------------------------------------------------------
(* The three beside each other, as MCClient puts them *)

LEMMA InvTypes == OktaInv /\ ClientInv /\ FilesInv => TypeOK
<1> SUFFICES ASSUME OktaInv, ClientInv, FilesInv PROVE TypeOK
  OBVIOUS
<1>1. OktaTypeOK
  <2>1. /\ DOMAIN okta = 1 .. Cardinality(Tokens) /\ Cardinality(Tokens) \in 0 .. MaxLogins
    BY Zenon DEF OktaInv, TokensGiven, Tokens
  <2>2. Tokens \cup {0} \subseteq 0 .. MaxLogins
    BY <2>1, OktaAssumption DEF Tokens
  <2>3. DOMAIN okta \in {1 .. n : n \in 0 .. MaxLogins}
    BY <2>1, Zenon
  <2>4. OktaTypes
    BY DEF OktaInv
  <2>5. \A h \in Handlers : call[h].at \in {"idle", "found"}
    BY <2>4 DEF OktaTypes, CallState, NoCall
  <2>6. /\ recentAuth.left \in -1 .. lifetime /\ recentAuth.StateToken \in 0 .. MaxLogins
        /\ \A s \in Sessions : login[s] \in 0 .. MaxLogins
    BY <2>2, <2>4 DEF OktaTypes
  <2> QED
    BY <2>3, <2>4, <2>5, <2>6 DEF OktaTypes, OktaTypeOK
<1>2. ClientTypeOK
  <2>1. \A t \in targetUrls : Len(ch[t]) <= 1
    <3>1. \A t \in targetUrls : ch[t] \in {<<>>, <<"ok">>, <<"error">>}
      BY DEF ClientInv, ClientTypes
    <3>2. Len(<<>>) <= 1 /\ Len(<<"ok">>) <= 1 /\ Len(<<"error">>) <= 1
      OBVIOUS
    <3> QED
      BY <3>1, <3>2, Zenon
  <2> QED
    BY <2>1 DEF ClientInv, ClientTypes, ClientTypeOK
<1>3. FilesTypeOK
  BY DEF FilesInv
<1> QED
  BY <1>1, <1>2, <1>3 DEF TypeOK

(***************************************************************************)
(* The variables of the three have their types: no channel of the client   *)
(* holds more than it can (pushtoken.go), no timeout is exceeded, and      *)
(* handlers know only tokens that Okta has given out (2fa_okta.go).        *)
(***************************************************************************)
THEOREM TypeCorrect == MCSpec => []TypeOK
<1> DEFINE Inv == OktaInv /\ ClientInv /\ FilesInv
<1>1. MCInit => Inv
  BY OktaInitInv, ClientInitInv, FilesInitInv DEF MCInit
<1>2. ASSUME Inv, [MCNext]_mcVars PROVE Inv'
  <2>1. CASE OktaStep
    <3>1. OktaNext /\ UNCHANGED clientVars /\ UNCHANGED fileVars
      BY <2>1, Zenon DEF OktaStep, clientVars, fileVars
    <3> QED
      BY <1>2, <3>1, OktaNextInv, ClientStutters, FilesStutters, Zenon
  <2>2. CASE ClientStep
    <3>1. ClientNext /\ UNCHANGED oktaVars /\ UNCHANGED fileVars
      BY <2>2, Zenon DEF ClientStep, oktaVars, fileVars
    <3> QED
      BY <1>2, <3>1, OktaStutters, ClientNextInv, FilesStutters, Zenon
  <2>3. CASE FilesStep
    <3>1. FilesNext /\ UNCHANGED oktaVars /\ UNCHANGED clientVars
      BY <2>3, Zenon DEF FilesStep, oktaVars, clientVars
    <3> QED
      BY <1>2, <3>1, OktaStutters, ClientStutters, FilesNextInv, Zenon
  <2>4. CASE UNCHANGED mcVars
    <3>1. UNCHANGED oktaVars /\ UNCHANGED clientVars /\ UNCHANGED fileVars
      BY <2>4, Zenon DEF mcVars, oktaVars, clientVars, fileVars
    <3> QED
      BY <1>2, <3>1, OktaStutters, ClientStutters, FilesStutters, Zenon
  <2> QED
    BY <1>2, <2>1, <2>2, <2>3, <2>4, Zenon DEF MCNext
<1> QED
  BY <1>1, <1>2, InvTypes, PTL DEF MCSpec
=============================================================================
