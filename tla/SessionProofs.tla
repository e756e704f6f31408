--------------------------- MODULE SessionProofs ---------------------------
(***************************************************************************)
(* Proofs about the statements that the server signs and keeps no record   *)
(* of: cookies and certificates (AuthSession), codes and access tokens     *)
(* (OIDCProvider), and about the administrators' cache (AdminCache).  They *)
(* hold for any number of users, of requests of a browser that overlap, of *)
(* programs and of calls, and for all lifetimes.                           *)
(***************************************************************************)
EXTENDS MCSession, TLAPS

-----------------------------------------------------------------------------
(* Cookies and certificates *)

Cookies ==
    [user : Users, level : SUBSET Levels, iat : 0 .. MaxTime, exp : Int,
     earned : {"own", "cert"}]

(* What checkAuth finds out. *)
AuthInfos ==
    [Username : Users, AuthType : SUBSET Levels, IssuedAt : 0 .. MaxTime,
     login : 0 .. MaxTime]

SentRequests ==
    [at : {"sent"}, op : {"factor", "certgen"}, cert : Certs \cup {NoCert},
     user : Users \cup {"none"}, arg : Factors \cup Int, cookie : Cookies \cup {NoCookie}]
CheckedFactors ==
    [at : {"checked"}, op : {"factor"}, arg : Factors, auth : AuthInfos,
     cookie : Cookies \cup {NoCookie}, cert : Certs \cup {NoCert}]
CheckedCertgens ==
    [at : {"checked"}, op : {"certgen"}, auth : AuthInfos, cookie : {NoCookie},
     since : 0 .. MaxTime, duration : Int]
AnsweredRequests == [at : {"answered"}, cookie : Cookies \cup {NoCookie}]

RequestStates ==
    {Idle} \cup SentRequests \cup CheckedFactors \cup CheckedCertgens \cup AnsweredRequests

(* A cookie lasts maxAgeSecondsAuthCookie from its login at most. *)
InTime(c) == c # NoCookie => c.iat <= c.exp /\ c.exp <= c.iat + maxAgeSecondsAuthCookie

(***************************************************************************)
(* What a request knows: a factor is checked for the user and the login of *)
(* the cookie that will be raised, if no certificate came with the         *)
(* request; a lifetime was computed since the request was checked, from    *)
(* the login itself where certificates are not enough for certificates.    *)
(***************************************************************************)
KnowsSent(q) ==
    q.at = "sent" =>
        /\ q.op = "factor" => q.arg \in Factors /\ q.user = "none"
        /\ q.op = "certgen" => q.arg \in Int

KnowsUser(q) ==
    q.at = "checked" /\ q.op = "factor" =>
        (q.cert = NoCert /\ q.cookie # NoCookie =>
            q.auth.Username = q.cookie.user /\ q.auth.IssuedAt = q.cookie.iat)

KnowsTime(q) ==
    q.at = "checked" /\ q.op = "certgen" =>
        /\ q.since <= now
        /\ q.duration <= q.auth.IssuedAt + maxCertificateLifetime - q.since
        /\ "Password" \notin AllowedAuthBackendsForCerts => q.auth.login = q.auth.IssuedAt

Knows(q) ==
    q # Idle => InTime(q.cookie) /\ KnowsSent(q) /\ KnowsUser(q) /\ KnowsTime(q)

SessionInv ==
    /\ now \in 0 .. MaxTime
    /\ "KeymasterX509" \notin AllowedAuthBackendsForCerts
    /\ jar \in Cookies \cup {NoCookie} /\ InTime(jar)
    /\ certs \subseteq Certs
    /\ request \in [Requests -> RequestStates]
    /\ \A r \in Requests : Knows(request[r])

LEMMA SessionInitInv == SessionInit => SessionInv
<1> SUFFICES ASSUME SessionInit PROVE SessionInv
  OBVIOUS
<1>1. now \in 0 .. MaxTime
  BY SessionAssumption DEF SessionInit
<1>2. "KeymasterX509" \notin AllowedAuthBackendsForCerts
  BY DEF SessionInit
<1>3. jar = NoCookie /\ certs = {} /\ request = [r \in Requests |-> Idle]
  BY DEF SessionInit
<1>4. request \in [Requests -> RequestStates] /\ \A r \in Requests : Knows(request[r])
  BY <1>3 DEF RequestStates, Knows
<1> QED
  BY <1>1, <1>2, <1>3, <1>4 DEF SessionInv, InTime

(* Steps of one request, which change nothing else. *)
LEMMA OneRequest ==
    ASSUME SessionInv, NEW r \in Requests, NEW q \in RequestStates, Knows(q),
           request' = [request EXCEPT ![r] = q],
           UNCHANGED <<now, jar, certs, config>>
    PROVE  SessionInv'
<1>1. /\ request' \in [Requests -> RequestStates]
      /\ \A s \in Requests : request'[s] = IF s = r THEN q ELSE request[s]
  BY DEF SessionInv
<1>2. UNCHANGED <<now, jar, certs, AllowedAuthBackendsForCerts>>
  BY DEF config
<1>3. \A s \in Requests : Knows(request[s])
  BY DEF SessionInv
<1>4. ASSUME NEW s \in Requests PROVE Knows(request[s])'
  <2>1. Knows(request'[s])
    BY <1>1, <1>3
  <2> QED
    BY <1>2, <2>1, Zenon DEF Knows, KnowsSent, KnowsUser, KnowsTime, InTime
<1> QED
  BY <1>1, <1>2, <1>4, Zenon DEF SessionInv, InTime

LEMMA IdleKnows == Idle \in RequestStates /\ Knows(Idle)
BY DEF RequestStates, Knows

(* What a request is, by where it is. *)
LEMMA RequestShapes ==
    ASSUME SessionInv, NEW r \in Requests
    PROVE  /\ request[r] \in RequestStates /\ Knows(request[r])
           /\ Active(r) /\ request[r].at = "sent" => request[r] \in SentRequests
           /\ Active(r) /\ request[r].at = "checked" /\ request[r].op = "factor"
                 => request[r] \in CheckedFactors
           /\ Active(r) /\ request[r].at = "checked" /\ request[r].op = "certgen"
                 => request[r] \in CheckedCertgens
           /\ Active(r) /\ request[r].at = "answered" => request[r] \in AnsweredRequests
           /\ Active(r) => request[r].at \in {"sent", "checked", "answered"}
           /\ Active(r) => request[r].cookie \in Cookies \cup {NoCookie}
                           /\ InTime(request[r].cookie)
<1>1. request[r] \in RequestStates /\ Knows(request[r])
  BY DEF SessionInv
<1>2. Active(r) => InTime(request[r].cookie)
  BY <1>1 DEF Knows, Active
<1> QED
  BY <1>1, <1>2 DEF RequestStates, SentRequests, CheckedFactors, CheckedCertgens,
                    AnsweredRequests, Active

LEMMA SessionTickInv == SessionInv /\ Tick => SessionInv'
<1> SUFFICES ASSUME SessionInv, Tick PROVE SessionInv'
  OBVIOUS
<1>1. UNCHANGED <<jar, certs, request, AllowedAuthBackendsForCerts>>
  BY Zenon DEF Tick, config
<1>2. now \in 0 .. MaxTime /\ now' = now + 1 /\ now' \in 0 .. MaxTime
  BY SessionAssumption DEF Tick, SessionInv
<1>3. ASSUME NEW r \in Requests PROVE Knows(request[r])'
  <2>1. request[r] \in RequestStates /\ Knows(request[r])
    BY DEF SessionInv
  <2>2. CASE request[r] \in CheckedCertgens
    <3>1. request[r].since \in Int
      BY <2>2 DEF CheckedCertgens
    <3>2. request[r].since <= now => request[r].since <= now'
      BY <1>2, <3>1
    <3> QED
      BY <1>1, <2>1, <3>2, Zenon DEF Knows, KnowsSent, KnowsUser, KnowsTime, InTime
  <2>3. CASE request[r] \notin CheckedCertgens
    <3>1. request[r] # Idle => ~(request[r].at = "checked" /\ request[r].op = "certgen")
      BY <2>1, <2>3, RequestShapes DEF Active
    <3> QED
      BY <1>1, <2>1, <3>1, Zenon DEF Knows, KnowsSent, KnowsUser, KnowsTime, InTime
  <2> QED
    BY <2>2, <2>3
<1> QED
  BY <1>1, <1>2, <1>3, Zenon DEF SessionInv, InTime

LEMMA DeliverInv == ASSUME NEW r \in Requests, SessionInv, Deliver(r) PROVE SessionInv'
<1>1. /\ jar' = request[r].cookie /\ Active(r)
      /\ request' = [request EXCEPT ![r] = Idle]
      /\ UNCHANGED <<now, certs, AllowedAuthBackendsForCerts>>
  BY Zenon DEF Deliver, config
<1>2. jar' \in Cookies \cup {NoCookie} /\ InTime(jar')
  BY <1>1, RequestShapes, Zenon
<1>3. /\ request' \in [Requests -> RequestStates]
      /\ \A s \in Requests : request'[s] = IF s = r THEN Idle ELSE request[s]
  BY <1>1, IdleKnows DEF SessionInv
<1>4. \A s \in Requests : Knows(request'[s])
  BY <1>3, IdleKnows DEF SessionInv
<1>5. \A s \in Requests : Knows(request[s])'
  BY <1>1, <1>4, Zenon DEF Knows, KnowsSent, KnowsUser, KnowsTime, InTime
<1> QED
  BY <1>1, <1>2, <1>3, <1>5, Zenon DEF SessionInv, InTime

LEMMA ForgetInv == SessionInv /\ ForgetExpired => SessionInv'
<1> SUFFICES ASSUME SessionInv, ForgetExpired PROVE SessionInv'
  OBVIOUS
<1>1. /\ UNCHANGED <<now, request, AllowedAuthBackendsForCerts>>
      /\ jar' \in {jar, NoCookie} /\ certs' \subseteq certs
  BY Zenon DEF ForgetExpired, config
<1>2. jar' \in Cookies \cup {NoCookie} /\ InTime(jar')
  BY <1>1 DEF SessionInv, InTime
<1>3. \A s \in Requests : Knows(request[s])'
  BY <1>1, Zenon DEF SessionInv, Knows, KnowsSent, KnowsUser, KnowsTime, InTime
<1>4. certs' \subseteq Certs
  BY <1>1 DEF SessionInv
<1> QED
  BY <1>1, <1>2, <1>3, <1>4, Zenon DEF SessionInv, InTime

(* The answers of loginHandler and logoutHandler. *)
LEMMA AnswerInv ==
    ASSUME SessionInv, NEW r \in Requests, NEW c \in Cookies \cup {NoCookie}, InTime(c),
           Answer(r, c), UNCHANGED <<now, jar, certs, config>>
    PROVE  SessionInv'
<1> DEFINE q == [at |-> "answered", cookie |-> c]
<1>1. q \in RequestStates
  BY DEF RequestStates, AnsweredRequests
<1>2. Knows(q)
  BY DEF Knows, KnowsSent, KnowsUser, KnowsTime
<1>3. request' = [request EXCEPT ![r] = q]
  BY DEF Answer
<1> QED
  BY <1>1, <1>2, <1>3, OneRequest, Zenon

LEMMA LoginInv ==
    ASSUME NEW r \in Requests, NEW u \in Users, SessionInv, loginHandler(r, u)
    PROVE  SessionInv'
<1>1. NewCookie(u) \in Cookies /\ InTime(NewCookie(u))
  BY SessionAssumption DEF NewCookie, Cookies, Levels, InTime, SessionInv
<1> QED
  BY <1>1, AnswerInv, Zenon DEF loginHandler

LEMMA LogoutInv == ASSUME NEW r \in Requests, SessionInv, logoutHandler(r) PROVE SessionInv'
<1>1. InTime(NoCookie)
  BY DEF InTime
<1> QED
  BY <1>1, AnswerInv, Zenon DEF logoutHandler

LEMMA SendInv ==
    ASSUME NEW r \in Requests, SessionInv, NEW op \in {"factor", "certgen"},
           NEW u \in Users \cup {"none"}, NEW arg \in Factors \cup Int, Send(r, op, u, arg),
           op = "factor" => arg \in Factors /\ u = "none", op = "certgen" => arg \in Int
    PROVE  SessionInv'
<1>1. PICK c \in {d \in certs : d.type = "x509" /\ d.NotAfter >= now} \cup {NoCert} :
         request' = [request EXCEPT ![r] =
            [at |-> "sent", op |-> op, cert |-> c, user |-> u, arg |-> arg,
             cookie |-> IF op = "certgen" /\ c # NoCert THEN NoCookie ELSE jar]]
  BY Zenon DEF Send
<1> DEFINE k == IF op = "certgen" /\ c # NoCert THEN NoCookie ELSE jar
           q == [at |-> "sent", op |-> op, cert |-> c, user |-> u, arg |-> arg, cookie |-> k]
<1>2. k \in Cookies \cup {NoCookie} /\ InTime(k)
  BY DEF SessionInv, InTime
<1>3. c \in Certs \cup {NoCert}
  BY DEF SessionInv
<1> HIDE DEF k
<1>4. q \in RequestStates
  BY <1>2, <1>3 DEF RequestStates, SentRequests
<1>5. Knows(q)
  BY <1>2 DEF Knows, KnowsSent, KnowsUser, KnowsTime
<1>6. request' = [request EXCEPT ![r] = q]
  BY <1>1, Zenon DEF k
<1>7. UNCHANGED <<now, jar, certs, config>>
  BY Zenon DEF Send
<1> QED
  BY <1>4, <1>5, <1>6, <1>7, OneRequest, Zenon

(***************************************************************************)
(* Whom checkAuth finds: the user of the certificate, of the cookie or of  *)
(* the password.  Only a certificate may be older than the login it goes   *)
(* back to, and without one the login was maxAgeSecondsAuthCookie ago at   *)
(* most.                                                                   *)
(***************************************************************************)
LEMMA AuthInfoIs ==
    ASSUME SessionInv, NEW q, q.cert \in Certs \cup {NoCert},
           q.cookie \in Cookies \cup {NoCookie}, InTime(q.cookie),
           q.user \in Users \cup {"none"}, NEW required, NEW a \in AuthInfo(q, required)
    PROVE  /\ a \in AuthInfos
           /\ q.cert = NoCert /\ q.cookie # NoCookie =>
                 a.Username = q.cookie.user /\ a.IssuedAt = q.cookie.iat
           /\ a.login = a.IssuedAt \/ a.AuthType = {"KeymasterX509"}
           /\ q.cert = NoCert => now <= a.login + maxAgeSecondsAuthCookie
<1>0. now \in 0 .. MaxTime
  BY DEF SessionInv
<1>1. CASE q.cert # NoCert /\ "KeymasterX509" \in required
  <2>1. a = [Username |-> q.cert.user, AuthType |-> {"KeymasterX509"},
             IssuedAt |-> q.cert.NotBefore, login |-> q.cert.login]
    BY <1>1 DEF AuthInfo
  <2>2. q.cert \in Certs
    BY <1>1
  <2>3. a \in AuthInfos
    BY <2>1, <2>2 DEF Certs, AuthInfos, Levels
  <2> QED
    BY <1>1, <2>1, <2>3
<1>2. CASE ~(q.cert # NoCert /\ "KeymasterX509" \in required) /\ q.cookie = NoCookie
  <2>1. /\ a = [Username |-> q.user, AuthType |-> {"Password"}, IssuedAt |-> now,
                login |-> now]
        /\ q.user # "none"
    BY <1>2 DEF AuthInfo
  <2>2. a \in AuthInfos
    BY <1>0, <2>1 DEF AuthInfos, Levels
  <2> QED
    BY <1>0, <1>2, <2>1, <2>2, SessionAssumption
<1>3. CASE ~(q.cert # NoCert /\ "KeymasterX509" \in required) /\ q.cookie # NoCookie
  <2>1. /\ a = [Username |-> q.cookie.user, AuthType |-> q.cookie.level,
                IssuedAt |-> q.cookie.iat, login |-> q.cookie.iat]
        /\ q.cookie.exp >= now
    BY <1>3 DEF AuthInfo
  <2>2. q.cookie \in Cookies
    BY <1>3
  <2>3. a \in AuthInfos
    BY <2>1, <2>2 DEF Cookies, AuthInfos
  <2>4. now <= q.cookie.iat + maxAgeSecondsAuthCookie
    BY <1>0, <1>3, <2>1, <2>2, SessionAssumption DEF Cookies, InTime
  <2> QED
    BY <2>1, <2>3, <2>4
<1> QED
  BY <1>1, <1>2, <1>3

(* The lifetime ends maxCertificateLifetime after IssuedAt at the latest. *)
LEMMA CertDurationIs ==
    ASSUME SessionInv, NEW asked \in Int, NEW IssuedAt \in Int
    PROVE  /\ CertDuration(asked, IssuedAt) \in Int
           /\ CertDuration(asked, IssuedAt) <= IssuedAt + maxCertificateLifetime - now
BY SessionAssumption DEF SessionInv, CertDuration

LEMMA CheckAuthInv == ASSUME NEW r \in Requests, SessionInv, checkAuth(r) PROVE SessionInv'
<1> DEFINE q == request[r]
<1>1. /\ Active(r) /\ q.at = "sent" /\ q.op \in {"factor", "certgen"}
      /\ UNCHANGED <<now, jar, certs, config>>
  BY Zenon DEF checkAuth
<1>2. q \in SentRequests /\ InTime(q.cookie) /\ KnowsSent(q)
  BY <1>1, RequestShapes DEF Knows, Active
<1>3. /\ q.cert \in Certs \cup {NoCert} /\ q.cookie \in Cookies \cup {NoCookie}
      /\ q.user \in Users \cup {"none"}
  BY <1>2 DEF SentRequests
<1>4. CASE request' = [request EXCEPT ![r] = Idle]
  BY <1>1, <1>4, IdleKnows, OneRequest, Zenon
<1>5. ASSUME NEW a \in AuthInfo(q, AuthTypeAny), q.op = "factor",
             request' = [request EXCEPT ![r] =
                [at |-> "checked", op |-> q.op, arg |-> q.arg, auth |-> a,
                 cookie |-> q.cookie, cert |-> q.cert]]
      PROVE  SessionInv'
  <2> DEFINE p == [at |-> "checked", op |-> q.op, arg |-> q.arg, auth |-> a,
                   cookie |-> q.cookie, cert |-> q.cert]
  <2>1. /\ a \in AuthInfos
        /\ q.cert = NoCert /\ q.cookie # NoCookie =>
              a.Username = q.cookie.user /\ a.IssuedAt = q.cookie.iat
    BY <1>2, <1>3, AuthInfoIs, Zenon
  <2>2. q.arg \in Factors
    BY <1>1, <1>2, <1>5 DEF KnowsSent
  <2> HIDE DEF q
  <2>3. p \in RequestStates
    BY <1>3, <1>5, <2>1, <2>2 DEF RequestStates, CheckedFactors
  <2>4. Knows(p)
    BY <1>2, <1>5, <2>1 DEF Knows, KnowsSent, KnowsUser, KnowsTime
  <2> QED
    BY <1>1, <1>5, <2>3, <2>4, OneRequest, Zenon
<1>6. ASSUME NEW a \in AuthInfo(q, AuthTypeAny), q.op = "certgen",
             SufficientAuthLevel(a.AuthType),
             request' = [request EXCEPT ![r] =
                [at |-> "checked", op |-> q.op, auth |-> a, cookie |-> NoCookie,
                 since |-> now, duration |-> CertDuration(q.arg, a.IssuedAt)]]
      PROVE  SessionInv'
  <2> DEFINE d == CertDuration(q.arg, a.IssuedAt)
             p == [at |-> "checked", op |-> q.op, auth |-> a, cookie |-> NoCookie,
                   since |-> now, duration |-> d]
  <2>1. a \in AuthInfos /\ (a.login = a.IssuedAt \/ a.AuthType = {"KeymasterX509"})
    BY <1>2, <1>3, AuthInfoIs, Zenon
  <2>2. q.arg \in Int /\ a.IssuedAt \in Int /\ now \in 0 .. MaxTime
    BY <1>1, <1>2, <1>6, <2>1 DEF KnowsSent, AuthInfos, SessionInv
  <2>3. d \in Int /\ d <= a.IssuedAt + maxCertificateLifetime - now
    BY <2>2, CertDurationIs, Zenon
  <2>4. "Password" \notin AllowedAuthBackendsForCerts => a.login = a.IssuedAt
    BY <1>6, <2>1 DEF SufficientAuthLevel, SessionInv
  <2> HIDE DEF q, d
  <2>5. p \in RequestStates
    BY <1>6, <2>1, <2>2, <2>3 DEF RequestStates, CheckedCertgens
  <2>6. Knows(p)
    BY <1>6, <2>2, <2>3, <2>4 DEF Knows, KnowsSent, KnowsUser, KnowsTime, InTime
  <2> QED
    BY <1>1, <1>6, <2>5, <2>6, OneRequest, Zenon DEF d
<1>7. \/ request' = [request EXCEPT ![r] = Idle]
      \/ \E a \in AuthInfo(q, AuthTypeAny) :
            /\ q.op = "certgen" => SufficientAuthLevel(a.AuthType)
            /\ request' = [request EXCEPT ![r] =
                IF q.op = "factor"
                THEN [at |-> "checked", op |-> q.op, arg |-> q.arg, auth |-> a,
                      cookie |-> q.cookie, cert |-> q.cert]
                ELSE [at |-> "checked", op |-> q.op, auth |-> a, cookie |-> NoCookie,
                      since |-> now, duration |-> CertDuration(q.arg, a.IssuedAt)]]
  BY Zenon DEF checkAuth
<1> HIDE DEF q
<1> QED
  BY <1>1, <1>4, <1>5, <1>6, <1>7, Zenon

(* The cookie that is raised is the user's own. *)
LEMMA RaiseIs ==
    ASSUME NEW q \in CheckedFactors, Knows(q), q.cookie # NoCookie
    PROVE  Raise(q.cookie, q) \in Cookies /\ InTime(Raise(q.cookie, q))
<1> DEFINE c == q.cookie
           d == Raise(c, q)
<1>1. c \in Cookies /\ q.auth \in AuthInfos /\ q.arg \in Factors
  BY DEF CheckedFactors
<1>2. EarnedBy(c, q) \in {"own", "cert"}
  <2>1. q.cert = NoCert => q.auth.Username = c.user /\ q.auth.IssuedAt = c.iat
    BY DEF Knows, KnowsUser, CheckedFactors, Idle
  <2>2. c.earned \in {"own", "cert"}
    BY <1>1 DEF Cookies
  <2> QED
    BY <2>1, <2>2 DEF EarnedBy
<1>3. q.auth.AuthType \cup {q.arg} \subseteq Levels
  BY <1>1 DEF AuthInfos, Levels
<1>4. InTime(c)
  BY DEF Knows, CheckedFactors, Idle
<1>5. d = [c EXCEPT !.level = q.auth.AuthType \cup {q.arg}, !.earned = EarnedBy(c, q)]
  BY DEF Raise
<1> HIDE DEF c, d
<1>6. d \in Cookies /\ d.iat = c.iat /\ d.exp = c.exp
  BY <1>1, <1>2, <1>3, <1>5, Zenon DEF Cookies
<1>7. c # NoCookie
  BY DEF c
<1> QED
  BY <1>4, <1>6, <1>7 DEF InTime, c, d

LEMMA SecondFactorInv == ASSUME NEW r \in Requests, SessionInv, SecondFactor(r) PROVE SessionInv'
<1> DEFINE q == request[r]
<1>1. /\ Active(r) /\ q.at = "checked" /\ q.op = "factor"
      /\ UNCHANGED <<now, jar, certs, config>>
      /\ \/ q.cookie # NoCookie /\ Answer(r, Raise(q.cookie, q))
         \/ request' = [request EXCEPT ![r] = Idle]
  BY Zenon DEF SecondFactor
<1>2. CASE request' = [request EXCEPT ![r] = Idle]
  BY <1>1, <1>2, IdleKnows, OneRequest, Zenon
<1>3. CASE q.cookie # NoCookie /\ Answer(r, Raise(q.cookie, q))
  <2>1. q \in CheckedFactors /\ Knows(q)
    BY <1>1, RequestShapes, Zenon
  <2>2. Raise(q.cookie, q) \in Cookies \cup {NoCookie} /\ InTime(Raise(q.cookie, q))
    BY <1>3, <2>1, RaiseIs
  <2> QED
    BY <1>1, <1>3, <2>2, AnswerInv, Zenon
<1> QED
  BY <1>1, <1>2, <1>3, Zenon

(* The certificate that is added, whichever of the two handlers adds it. *)
LEMMA IssueInv ==
    ASSUME NEW r \in Requests, SessionInv, NEW type \in {"ssh", "x509"},
           Issue(r, [type |-> type, user |-> request[r].auth.Username, NotBefore |-> now,
                     NotAfter |-> now + request[r].duration,
                     login |-> request[r].auth.login])
    PROVE  SessionInv'
<1> DEFINE q == request[r]
           c == [type |-> type, user |-> q.auth.Username, NotBefore |-> now,
                 NotAfter |-> now + q.duration, login |-> q.auth.login]
<1>1. /\ Active(r) /\ q.at = "checked" /\ q.op = "certgen"
      /\ certs' = certs \cup {c}
      /\ request' = [request EXCEPT ![r] = Idle]
      /\ UNCHANGED <<now, jar, AllowedAuthBackendsForCerts>>
  BY Zenon DEF Issue, config
<1>2. q \in CheckedCertgens
  BY <1>1, RequestShapes, Zenon
<1>3. c \in Certs
  <2>1. /\ q.auth.Username \in Users /\ q.auth.login \in 0 .. MaxTime /\ q.duration \in Int
        /\ now \in 0 .. MaxTime
    BY <1>2 DEF CheckedCertgens, AuthInfos, SessionInv
  <2> HIDE DEF q
  <2> QED
    BY <2>1, SessionAssumption DEF Certs
<1>4. /\ request' \in [Requests -> RequestStates]
      /\ \A s \in Requests : request'[s] = IF s = r THEN Idle ELSE request[s]
  BY <1>1, IdleKnows DEF SessionInv
<1>5. \A s \in Requests : Knows(request'[s])
  BY <1>4, IdleKnows DEF SessionInv
<1>6. \A s \in Requests : Knows(request[s])'
  BY <1>1, <1>5, Zenon DEF Knows, KnowsSent, KnowsUser, KnowsTime, InTime
<1> HIDE DEF c
<1>7. certs' \subseteq Certs
  BY <1>1, <1>3 DEF SessionInv
<1> QED
  BY <1>1, <1>4, <1>6, <1>7, Zenon DEF SessionInv, InTime

LEMMA CertRefusedInv == ASSUME NEW r \in Requests, SessionInv, CertRefused(r) PROVE SessionInv'
BY IdleKnows, OneRequest, Zenon DEF CertRefused

LEMMA SessionNextInv == SessionInv /\ SessionNext => SessionInv'
<1> SUFFICES ASSUME SessionInv, SessionNext PROVE SessionInv'
  OBVIOUS
<1>1. ASSUME NEW r \in Requests, NEW f \in Factors, Send(r, "factor", "none", f)
      PROVE  SessionInv'
  BY <1>1, SendInv
<1>2. ASSUME NEW r \in Requests, NEW d \in {1, maxCertificateLifetime},
             NEW u \in Users \cup {"none"}, Send(r, "certgen", u, d)
      PROVE  SessionInv'
  BY <1>2, SendInv, SessionAssumption
<1>3. ASSUME NEW r \in Requests, postAuthX509CertHandler(r) \/ postAuthSSHCertHandler(r)
      PROVE  SessionInv'
  BY <1>3, IssueInv DEF postAuthX509CertHandler, postAuthSSHCertHandler, GenUserX509Cert,
                        GenSSHCertFileString
<1> QED
  BY <1>1, <1>2, <1>3, SessionTickInv, LoginInv, CheckAuthInv, SecondFactorInv,
     CertRefusedInv, LogoutInv, DeliverInv, ForgetInv, Zenon DEF SessionNext

LEMMA SessionStutters == SessionInv /\ UNCHANGED sessionVars => SessionInv'
BY ZenonT(60) DEF sessionVars, SessionInv, InTime, Knows, KnowsSent, KnowsUser, KnowsTime

(* Every step of the browser, of the handlers and of time keeps SessionInv. *)
THEOREM SessionInvariance == SessionSpec => []SessionInv
<1>1. SessionInv /\ [SessionNext]_sessionVars => SessionInv'
  BY SessionNextInv, SessionStutters
<1> QED
  BY <1>1, SessionInitInv, PTL DEF SessionSpec

(***************************************************************************)
(* Every level of a cookie was checked for the cookie's user and since its *)
(* login, however requests of several users of one browser overlap, but    *)
(* for cookies raised by a request with a certificate                      *)
(* (updateAuthCookieAuthlevel in app.go).                                  *)
(***************************************************************************)
THEOREM LevelsAreEarned == SessionSpec => []LevelsEarned
<1>1. SessionInv => LevelsEarned
  <2> SUFFICES ASSUME SessionInv,
                      NEW c \in {jar} \cup
                                {request[r].cookie : r \in {s \in Requests : Active(s)}},
                      c # NoCookie
               PROVE  c.earned # "other"
    BY Zenon DEF LevelsEarned
  <2>1. c \in Cookies
    <3>1. CASE c = jar
      BY <3>1 DEF SessionInv
    <3>2. CASE \E r \in Requests : Active(r) /\ c = request[r].cookie
      BY <3>2, RequestShapes
    <3> QED
      BY <3>1, <3>2
  <2> QED
    BY <2>1 DEF Cookies
<1> QED
  BY <1>1, SessionInvariance, PTL

(***************************************************************************)
(* A certificate ends within maxCertificateLifetime of the login it was    *)
(* got with, but for the time between the check and the signature; where   *)
(* passwords are enough for certificates, of what it was got with          *)
(* (certGenHandler in certgen.go).                                         *)
(***************************************************************************)
THEOREM CertsEnd == SessionSpec => CertsEndAfterLogin
<1> DEFINE EndsAfterLogin ==
      \A c \in certs' \ certs : \E r \in Requests :
          LET q == request[r] IN
          /\ Active(r) /\ ~Active(r)' /\ q.at = "checked"
          /\ c.NotAfter <= q.auth.IssuedAt + maxCertificateLifetime + (now - q.since)
          /\ "Password" \notin AllowedAuthBackendsForCerts =>
                c.NotAfter <= c.login + maxCertificateLifetime + (now - q.since)
<1>1. ASSUME SessionInv, NEW r \in Requests, NEW type \in {"ssh", "x509"},
             Issue(r, [type |-> type, user |-> request[r].auth.Username, NotBefore |-> now,
                       NotAfter |-> now + request[r].duration,
                       login |-> request[r].auth.login])
      PROVE  EndsAfterLogin
  <2> DEFINE q == request[r]
             c == [type |-> type, user |-> q.auth.Username, NotBefore |-> now,
                   NotAfter |-> now + q.duration, login |-> q.auth.login]
  <2>1. /\ Active(r) /\ q.at = "checked" /\ q.op = "certgen"
        /\ certs' = certs \cup {c}
        /\ request' = [request EXCEPT ![r] = Idle]
    BY <1>1, Zenon DEF Issue
  <2>2. q \in CheckedCertgens /\ Knows(q)
    BY <1>1, <2>1, RequestShapes, Zenon
  <2>3. ~Active(r)'
    BY <1>1, <2>1 DEF SessionInv, Active
  <2>4. /\ q.duration \in Int /\ q.since \in Int /\ q.auth.IssuedAt \in Int /\ now \in Int
    BY <1>1, <2>2 DEF CheckedCertgens, AuthInfos, SessionInv
  <2>5. /\ q.duration <= q.auth.IssuedAt + maxCertificateLifetime - q.since
        /\ "Password" \notin AllowedAuthBackendsForCerts => q.auth.login = q.auth.IssuedAt
    BY <2>1, <2>2 DEF Knows, KnowsTime, Active
  <2>6. now + q.duration <= q.auth.IssuedAt + maxCertificateLifetime + (now - q.since)
    BY <2>4, <2>5, SessionAssumption
  <2>7. c.NotAfter = now + q.duration /\ c.login = q.auth.login
    OBVIOUS
  <2> HIDE DEF c
  <2> QED
    BY <2>1, <2>3, <2>5, <2>6, <2>7, Zenon
<1>2. ASSUME SessionInv, SessionNext PROVE EndsAfterLogin
  <2>1. CASE certs' \subseteq certs
    BY <2>1
  <2>2. ASSUME NEW r \in Requests, postAuthX509CertHandler(r) \/ postAuthSSHCertHandler(r)
        PROVE  EndsAfterLogin
    <3> HIDE DEF EndsAfterLogin
    <3> QED
      BY <1>1, <1>2, <2>2 DEF postAuthX509CertHandler, postAuthSSHCertHandler,
                              GenUserX509Cert, GenSSHCertFileString
  <2>3. \/ certs' \subseteq certs
        \/ \E r \in Requests : postAuthX509CertHandler(r) \/ postAuthSSHCertHandler(r)
    BY <1>2, Zenon DEF SessionNext, Tick, loginHandler, Send, checkAuth, SecondFactor,
                       CertRefused, logoutHandler, Deliver, ForgetExpired
  <2> QED
    BY <2>1, <2>2, <2>3, Zenon
<1>3. ASSUME UNCHANGED sessionVars PROVE EndsAfterLogin
  BY <1>3 DEF sessionVars
<1>4. SessionInv /\ [SessionNext]_sessionVars => EndsAfterLogin
  <2> HIDE DEF EndsAfterLogin
  <2> QED
    BY <1>2, <1>3
<1> QED
  BY <1>4, SessionInvariance, PTL DEF SessionSpec, CertsEndAfterLogin

-----------------------------------------------------------------------------
(* Codes and access tokens *)

Codes ==
    [Type : {"token_endpoint"}, Subject : Clients, Username : Users, Expiration : Int,
     AuthExpiration : Int, RedirectURI : Redirects, challenge : Clients \cup {NoChallenge},
     by : Clients, login : 0 .. MaxTime]
AccessTokens ==
    [Type : {"bearer"}, Username : Users, Expiration : Int, by : Clients,
     login : 0 .. MaxTime, iat : 0 .. MaxTime, of : Clients]

(***************************************************************************)
(* A code carries its own program's challenge or none, and ends before the *)
(* token that it is good for; that token ends two cookie lifetimes after   *)
(* the login at the latest.                                                *)
(***************************************************************************)
CodeIsGood(t) ==
    /\ t.challenge \in {t.Subject, NoChallenge}
    /\ t.Expiration <= t.AuthExpiration
    /\ t.AuthExpiration <= t.login + 2 * maxAgeSecondsAuthCookie

AccessIsGood(t) ==
    /\ t.of = t.by
    /\ t.iat <= t.Expiration /\ t.Expiration <= t.login + 2 * maxAgeSecondsAuthCookie

InfoIsGood ==
    info # NoInfo =>
        /\ info.token \in tokens /\ info.token \in AccessTokens
        /\ info.user = info.token.Username
        /\ info.at \in 0 .. MaxTime /\ info.at <= info.token.Expiration

OIDCInv ==
    /\ tokens \subseteq Codes \cup AccessTokens
    /\ \A t \in tokens : (t \in Codes => CodeIsGood(t)) /\ (t \in AccessTokens => AccessIsGood(t))
    /\ InfoIsGood

LEMMA OIDCInitInv == OIDCInit => OIDCInv
BY DEF OIDCInit, OIDCInv, InfoIsGood

(* Another token is signed. *)
LEMMA TokenInv ==
    ASSUME OIDCInv, NEW t \in Codes \cup AccessTokens, t \in Codes => CodeIsGood(t),
           t \in AccessTokens => AccessIsGood(t), tokens' = tokens \cup {t}, UNCHANGED info
    PROVE  OIDCInv'
<1>1. tokens' \subseteq Codes \cup AccessTokens
  BY DEF OIDCInv
<1>2. \A s \in tokens' : (s \in Codes => CodeIsGood(s)) /\ (s \in AccessTokens => AccessIsGood(s))
  BY DEF OIDCInv
<1>3. InfoIsGood'
  BY DEF OIDCInv, InfoIsGood
<1> QED
  BY <1>1, <1>2, <1>3, Zenon DEF OIDCInv, CodeIsGood, AccessIsGood

LEMMA AuthorizationInv ==
    ASSUME SessionInv, OIDCInv, NEW c \in Clients, NEW url \in Redirects,
           NEW u \in Users \cup {"none"}, NEW challenge \in {c, NoChallenge},
           idpOpenIDCAuthorizationHandler(c, url, challenge, u)
    PROVE  OIDCInv'
<1> DEFINE q == [cert |-> NoCert, cookie |-> jar, user |-> u]
<1>1. PICK a \in AuthInfo(q, WebUIBackends) :
         tokens' = tokens \cup
             {[Type |-> "token_endpoint", Subject |-> c, Username |-> a.Username,
               Expiration |-> now + idpOpenIDCMaxAuthProcessMaxDurationSeconds,
               AuthExpiration |-> now + maxAgeSecondsAuthCookie,
               RedirectURI |-> url, challenge |-> challenge,
               by |-> c, login |-> a.login]}
  BY Zenon DEF idpOpenIDCAuthorizationHandler
<1> DEFINE t == [Type |-> "token_endpoint", Subject |-> c, Username |-> a.Username,
                 Expiration |-> now + idpOpenIDCMaxAuthProcessMaxDurationSeconds,
                 AuthExpiration |-> now + maxAgeSecondsAuthCookie,
                 RedirectURI |-> url, challenge |-> challenge,
                 by |-> c, login |-> a.login]
<1>2. /\ q.cert = NoCert /\ q.cookie \in Cookies \cup {NoCookie} /\ InTime(q.cookie)
      /\ q.user \in Users \cup {"none"}
  BY DEF SessionInv
<1> HIDE DEF q
<1>3. a \in AuthInfos /\ now <= a.login + maxAgeSecondsAuthCookie
  BY <1>2, AuthInfoIs
<1>4. now \in 0 .. MaxTime /\ a.login \in 0 .. MaxTime /\ a.Username \in Users
  BY <1>3 DEF SessionInv, AuthInfos
<1>5. t \in Codes
  BY <1>4, SessionAssumption, OIDCAssumption DEF Codes
<1>6. CodeIsGood(t)
  BY <1>3, <1>4, SessionAssumption, OIDCAssumption DEF CodeIsGood
<1>7. t \notin AccessTokens
  BY DEF AccessTokens
<1>8. UNCHANGED info
  BY Zenon DEF idpOpenIDCAuthorizationHandler
<1> QED
  BY <1>1, <1>5, <1>6, <1>7, <1>8, TokenInv

(* Whoever redeems a code is the program it was made for. *)
LEMMA RedeemedByOwn ==
    ASSUME NEW t \in Codes, CodeIsGood(t), NEW p \in Clients, NEW v \in BOOLEAN,
           ClientKnown(p, t.Subject, v, t)
    PROVE  t.Subject = p
BY DEF ClientKnown, ValidCodeVerifier, CodeIsGood, Codes

LEMMA TokenHandlerInv ==
    ASSUME SessionInv, OIDCInv, NEW p \in Clients, NEW c \in Clients, NEW v \in BOOLEAN,
           NEW url \in Redirects, NEW t \in tokens, idpOpenIDCTokenHandler(p, c, v, url, t)
    PROVE  OIDCInv'
<1>1. /\ t.Type = "token_endpoint" /\ ClientKnown(p, c, v, t) /\ c = t.Subject
      /\ t.Expiration >= now
      /\ tokens' = tokens \cup {AccessToken(t, p)}
      /\ UNCHANGED info
  BY Zenon DEF idpOpenIDCTokenHandler
<1>2. t \in Codes
  BY <1>1 DEF OIDCInv, AccessTokens
<1>3. CodeIsGood(t)
  BY <1>2 DEF OIDCInv
<1>4. t.Subject = p
  BY <1>1, <1>2, <1>3, RedeemedByOwn
<1>5. /\ t.Username \in Users /\ t.AuthExpiration \in Int /\ t.Expiration \in Int
      /\ t.login \in 0 .. MaxTime /\ now \in 0 .. MaxTime
  BY <1>2 DEF Codes, SessionInv
<1>6. AccessToken(t, p) \in AccessTokens
  BY <1>4, <1>5 DEF AccessToken, AccessTokens
<1>7. AccessIsGood(AccessToken(t, p))
  BY SMTT(30), <1>1, <1>3, <1>4, <1>5 DEF AccessToken, AccessIsGood, CodeIsGood
<1>8. AccessToken(t, p) \notin Codes
  BY DEF AccessToken, Codes
<1> QED
  BY <1>1, <1>6, <1>7, <1>8, TokenInv

LEMMA UserinfoInv ==
    ASSUME SessionInv, OIDCInv, NEW t \in tokens, idpOpenIDCUserinfoHandler(t)
    PROVE  OIDCInv'
<1>1. /\ t.Type = "bearer" /\ t.Expiration >= now /\ UNCHANGED tokens
      /\ info' = [user |-> t.Username, at |-> now, token |-> t]
  BY Zenon DEF idpOpenIDCUserinfoHandler
<1>2. t \in AccessTokens
  BY <1>1 DEF OIDCInv, Codes
<1>3. /\ info'.user = t.Username /\ info'.at = now /\ info'.token = t
      /\ now \in 0 .. MaxTime /\ t.Expiration \in Int
  BY <1>1, <1>2 DEF AccessTokens, SessionInv
<1>4. InfoIsGood'
  BY <1>1, <1>2, <1>3 DEF InfoIsGood
<1> QED
  BY <1>1, <1>4, Zenon DEF OIDCInv, CodeIsGood, AccessIsGood

LEMMA OIDCNextInv == SessionInv /\ OIDCInv /\ OIDCNext => SessionInv' /\ OIDCInv'
<1> SUFFICES ASSUME SessionInv, OIDCInv, OIDCNext PROVE SessionInv' /\ OIDCInv'
  OBVIOUS
<1>1. UNCHANGED sessionVars
  BY Zenon DEF OIDCNext, idpOpenIDCAuthorizationHandler, idpOpenIDCTokenHandler,
               idpOpenIDCUserinfoHandler
<1>2. OIDCInv'
  BY AuthorizationInv, TokenHandlerInv, UserinfoInv, Zenon DEF OIDCNext
<1> QED
  BY <1>1, <1>2, SessionStutters

LEMMA OIDCStutters == OIDCInv /\ UNCHANGED oidcVars => OIDCInv'
BY Zenon DEF oidcVars, OIDCInv, InfoIsGood, CodeIsGood, AccessIsGood

(* The provider keeps OIDCInv, whatever happens to cookies. *)
THEOREM OIDCInvariance == OIDCSpec => [](SessionInv /\ OIDCInv)
<1>1. SessionInv /\ OIDCInv
        /\ [OIDCNext \/ (SessionNext /\ UNCHANGED oidcVars)]_<<sessionVars, oidcVars>>
        => SessionInv' /\ OIDCInv'
  BY OIDCNextInv, SessionNextInv, SessionStutters, OIDCStutters, Zenon
<1> QED
  BY <1>1, SessionInitInv, OIDCInitInv, PTL DEF OIDCSpec

LEMMA InvFollowsLogin == SessionInv /\ OIDCInv => AccessFollowsLogin
<1> SUFFICES ASSUME SessionInv, OIDCInv PROVE AccessFollowsLogin
  OBVIOUS
<1>1. ASSUME NEW t \in AccessTokens, AccessIsGood(t)
      PROVE  /\ t.of = t.by
             /\ t.Expiration \in t.iat .. t.login + 2 * maxAgeSecondsAuthCookie
  BY <1>1, SessionAssumption DEF AccessIsGood, AccessTokens
<1>2. \A t \in tokens : t.Type = "bearer" => t \in AccessTokens /\ AccessIsGood(t)
  BY DEF OIDCInv, Codes
<1>3. ASSUME info # NoInfo
      PROVE  /\ info.token \in tokens
             /\ info.token.Type = "bearer" /\ info.token.Username = info.user
             /\ info.at <= info.token.login + 2 * maxAgeSecondsAuthCookie
  <2> DEFINE t == info.token
  <2>1. /\ t \in tokens /\ t \in AccessTokens /\ info.user = t.Username
        /\ info.at \in 0 .. MaxTime /\ info.at <= t.Expiration
    BY <1>3 DEF OIDCInv, InfoIsGood
  <2>2. AccessIsGood(t)
    BY <2>1 DEF OIDCInv
  <2>3. /\ t.Type = "bearer" /\ t.Expiration \in Int /\ t.login \in Int
        /\ t.Expiration <= t.login + 2 * maxAgeSecondsAuthCookie
    BY <2>1, <2>2 DEF AccessTokens, AccessIsGood
  <2> HIDE DEF t
  <2>4. info.at <= t.login + 2 * maxAgeSecondsAuthCookie
    BY <2>1, <2>3, SessionAssumption
  <2> QED
    BY <2>1, <2>3, <2>4 DEF t
<1> QED
  BY <1>1, <1>2, <1>3, Zenon DEF AccessFollowsLogin

(***************************************************************************)
(* A program gets an access token only for a code of its own, the token is *)
(* good for at most two cookie lifetimes after the login it goes back to,  *)
(* and the user's information is given only for such a token, in its time  *)
(* (idpOpenIDCTokenHandler, idpOpenIDCUserinfoHandler in idp_oidc.go).     *)
(***************************************************************************)
THEOREM FollowsLogin == OIDCSpec => []AccessFollowsLogin
BY OIDCInvariance, InvFollowsLogin, PTL

-----------------------------------------------------------------------------
(* The administrators' cache *)

(* The local state of a call. *)
CallState ==
    {NotCalled}
        \cup [at : {"lookup"}, isAdmin : BOOLEAN]
        \cup [at : {"put"}, isAdmin : BOOLEAN, ok : BOOLEAN, asked : Int]

AdminTypes ==
    /\ clock \in 0 .. MaxAdminTime
    /\ entry \in [IsAdmin : BOOLEAN, Ts : Never .. clock]
    /\ call \in [Calls -> CallState]
    /\ answer \subseteq BOOLEAN /\ member \in BOOLEAN
    /\ changes \in Nat
    /\ changedAt \in 0 .. clock /\ slowest \in 0 .. clock /\ failedAt \in Never .. clock

(***************************************************************************)
(* What the directory said is right unless the groups have changed since;  *)
(* an entry was put at most slowest after the directory said so, unless a  *)
(* lookup has failed since the change.                                     *)
(***************************************************************************)
Asked ==
    \A c \in Calls : call[c].at = "put" =>
        /\ call[c].asked \in 0 .. clock
        /\ call[c].ok =>
              \/ call[c].isAdmin = member
              \/ changes > 0 /\ call[c].asked <= changedAt

Cached ==
    entry.Ts # Never =>
        \/ entry.IsAdmin = member
        \/ changes > 0 /\ entry.Ts <= changedAt + slowest
        \/ failedAt >= changedAt

(* Nobody has ever heard that the user is an administrator. *)
NeverMember ==
    changes = 0 /\ ~member =>
        /\ ~entry.IsAdmin
        /\ \A c \in Calls : call[c] # NotCalled => ~call[c].isAdmin
        /\ TRUE \notin answer

(* The answers of the last step. *)
Answered ==
    \A a \in answer :
        \/ a = member
        \/ changes > 0 /\ clock < changedAt + maxDuration + slowest
        \/ failedAt >= changedAt

AdminInv == AdminTypes /\ Asked /\ Cached /\ NeverMember /\ Answered

LEMMA AdminInitInv == AdminInit => AdminInv
<1> SUFFICES ASSUME AdminInit PROVE AdminInv
  OBVIOUS
<1> USE AdminAssumption DEF AdminInit, NotCalled, NoEntry, Never
<1>1. AdminTypes
  BY DEF AdminTypes, CallState
<1>2. Asked /\ Cached /\ Answered
  BY DEF Asked, Cached, Answered
<1>3. NeverMember
  BY DEF NeverMember
<1> QED
  BY <1>1, <1>2, <1>3 DEF AdminInv

(* The shapes of a call's state. *)
LEMMA CallShapes ==
    ASSUME AdminTypes, NEW c \in Calls
    PROVE  /\ call[c] = NotCalled <=> call[c].at = "idle"
           /\ call[c].at \in {"idle", "lookup", "put"}
           /\ call[c] # NotCalled => call[c].isAdmin \in BOOLEAN
           /\ call[c].at = "put" => call[c].ok \in BOOLEAN /\ call[c].asked \in Int
BY DEF AdminTypes, CallState, NotCalled

LEMMA AdminTickInv == AdminInv /\ AdminTick => AdminInv'
<1> SUFFICES ASSUME AdminInv, AdminTick PROVE AdminInv'
  OBVIOUS
<1> USE AdminAssumption DEF AdminInv, AdminTick, Never
<1>1. AdminTypes'
  BY DEF AdminTypes
<1>2. Asked' /\ Cached' /\ Answered'
  BY DEF AdminTypes, Asked, Cached, Answered
<1>3. NeverMember'
  BY DEF NeverMember
<1> QED
  BY <1>1, <1>2, <1>3

LEMMA ChangeInv == AdminInv /\ ChangeGroups => AdminInv'
<1> SUFFICES ASSUME AdminInv, ChangeGroups PROVE AdminInv'
  OBVIOUS
<1> USE AdminAssumption DEF AdminInv, ChangeGroups, Never
<1>1. AdminTypes'
  BY DEF AdminTypes
<1>2. changes' > 0 /\ changedAt' = clock
  BY DEF AdminTypes
<1>3. Asked'
  BY <1>2 DEF AdminTypes, Asked
<1>4. Cached'
  BY <1>2 DEF AdminTypes, Cached
<1>5. Answered' /\ NeverMember'
  BY <1>2 DEF Answered, NeverMember
<1> QED
  BY <1>1, <1>3, <1>4, <1>5

(* A valid entry answers; an invalid one is remembered for the case that    *)
(* the lookup fails.                                                        *)
LEMMA GetInv == ASSUME NEW c \in Calls, AdminInv, get(c) PROVE AdminInv'
<1> USE AdminAssumption DEF AdminInv, Never
<1>1. UNCHANGED <<clock, entry, member, changes, changedAt, slowest, failedAt>>
  BY DEF get
<1>2. CASE isValid(entry.Ts)
  <2>1. answer' = {entry.IsAdmin} /\ UNCHANGED call
    BY <1>2 DEF get
  <2>2. entry.IsAdmin \in BOOLEAN
    BY DEF AdminTypes
  <2>3. AdminTypes'
    BY <1>1, <2>1, <2>2 DEF AdminTypes
  <2>4. Asked' /\ Cached'
    BY <1>1, <2>1 DEF Asked, Cached
  <2>5. Answered'
    <3>1. /\ entry.Ts \in Int /\ entry.Ts # Never /\ clock - entry.Ts < maxDuration
          /\ clock \in Int /\ changedAt \in Int /\ slowest \in Int
      BY <1>2 DEF AdminTypes, isValid
    <3>2. \/ entry.IsAdmin = member
          \/ changes > 0 /\ entry.Ts <= changedAt + slowest
          \/ failedAt >= changedAt
      BY <3>1 DEF Cached
    <3>3. \/ entry.IsAdmin = member
          \/ changes > 0 /\ clock < changedAt + maxDuration + slowest
          \/ failedAt >= changedAt
      BY <3>1, <3>2
    <3> QED
      BY <1>1, <2>1, <3>3 DEF Answered
  <2>6. NeverMember'
    BY <1>1, <2>1, Zenon DEF NeverMember
  <2> QED
    BY <2>3, <2>4, <2>5, <2>6
<1>3. CASE ~isValid(entry.Ts)
  <2>1. /\ call' = [call EXCEPT ![c] = [at |-> "lookup", isAdmin |-> entry.IsAdmin]]
        /\ answer' = {}
    BY <1>3 DEF get
  <2>2. entry.IsAdmin \in BOOLEAN
    BY DEF AdminTypes
  <2>3. AdminTypes'
    BY <1>1, <2>1, <2>2 DEF AdminTypes, CallState
  <2>4. /\ call'[c] = [at |-> "lookup", isAdmin |-> entry.IsAdmin]
        /\ \A d \in Calls \ {c} : call'[d] = call[d]
    BY <2>1 DEF AdminTypes
  <2>5. Asked' /\ Cached' /\ Answered'
    BY <1>1, <2>1, <2>4 DEF Asked, Cached, Answered
  <2>6. NeverMember'
    BY <1>1, <2>1, <2>4 DEF NeverMember
  <2> QED
    BY <2>3, <2>5, <2>6
<1> QED
  BY <1>2, <1>3

LEMMA LookupInv == ASSUME NEW c \in Calls, AdminInv, lookup(c) PROVE AdminInv'
<1> USE AdminAssumption DEF AdminInv, Never
<1>1. /\ UNCHANGED <<clock, entry, member, changes, changedAt, slowest, failedAt>>
      /\ answer' = {} /\ call[c].at = "lookup"
  BY DEF lookup
<1>2. PICK ok \in BOOLEAN :
         call' = [call EXCEPT ![c] =
             [at |-> "put", isAdmin |-> IF ok THEN member ELSE call[c].isAdmin,
              ok |-> ok, asked |-> clock]]
  BY Zenon DEF lookup
<1> DEFINE new == [at |-> "put", isAdmin |-> IF ok THEN member ELSE call[c].isAdmin,
                   ok |-> ok, asked |-> clock]
<1>3. call[c] # NotCalled /\ call[c].isAdmin \in BOOLEAN
  BY <1>1, CallShapes
<1>4. new \in CallState
  BY <1>3 DEF AdminTypes, CallState
<1>5. call'[c] = new /\ \A d \in Calls \ {c} : call'[d] = call[d]
  BY <1>2 DEF AdminTypes
<1>6. /\ new.at = "put" /\ new.asked = clock /\ (new.ok => new.isAdmin = member)
      /\ ~member /\ ~call[c].isAdmin => ~new.isAdmin
  BY <1>3 DEF AdminTypes
<1> HIDE DEF new
<1>7. AdminTypes'
  <2>1. call' = [call EXCEPT ![c] = new]
    BY <1>2 DEF new
  <2> QED
    BY <1>1, <1>4, <2>1 DEF AdminTypes
<1>8. Asked'
  <2>1. clock \in 0 .. clock
    BY DEF AdminTypes
  <2> QED
    BY <1>1, <1>5, <1>6, <2>1 DEF Asked
<1>9. Cached' /\ Answered'
  BY SMTT(30), <1>1 DEF Cached, Answered
<1>10. NeverMember'
  BY <1>1, <1>3, <1>5, <1>6 DEF NeverMember
<1> QED
  BY <1>7, <1>8, <1>9, <1>10

LEMMA Later ==
    ASSUME NEW asked \in Int, NEW took \in Int, NEW time \in Int, NEW changed \in Int,
           time <= asked + took
    PROVE  /\ asked <= changed => time <= changed + took
           /\ \A d \in Nat \ {0} : time <= changed + took => time < changed + d + took
OBVIOUS

(* The entry is no older than the slowest lookup makes it. *)
LEMMA PutInv == ASSUME NEW c \in Calls, AdminInv, put(c) PROVE AdminInv'
<1> USE AdminAssumption DEF AdminInv, Never
<1> DEFINE b == call[c].isAdmin
<1>1. /\ UNCHANGED <<clock, member, changes, changedAt>>
      /\ call[c].at = "put"
      /\ entry' = [IsAdmin |-> b, Ts |-> clock]
      /\ answer' = {b}
      /\ call' = [call EXCEPT ![c] = NotCalled]
  BY DEF put
<1>2. /\ clock \in Nat /\ changedAt \in 0 .. clock /\ slowest \in 0 .. clock
      /\ failedAt \in -1 .. clock
  BY SMTT(30) DEF AdminTypes
<1>3. /\ b \in BOOLEAN /\ call[c] # NotCalled /\ call[c].ok \in BOOLEAN
      /\ call[c].asked \in 0 .. clock
  <2>1. call[c].asked \in 0 .. clock
    BY <1>1 DEF Asked
  <2> QED
    BY <1>1, <2>1, CallShapes DEF NotCalled
<1>4. /\ slowest' \in 0 .. clock /\ slowest' >= slowest
      /\ clock <= call[c].asked + slowest'
  BY <1>2, <1>3 DEF put
<1>5. /\ call[c].asked \in Int /\ clock \in Int /\ changedAt \in Int
      /\ slowest' \in Int
  <2>1. slowest' \in 0 .. clock
    BY <1>4, Zenon
  <2> QED
    BY <1>2, <1>3, <2>1
<1>6. /\ failedAt' \in -1 .. clock /\ failedAt' >= failedAt
      /\ ~call[c].ok => failedAt' = clock
  BY <1>2, <1>3 DEF put
<1>7. \/ b = member
      \/ changes > 0 /\ clock <= changedAt + slowest'
      \/ failedAt' >= changedAt
  <2>1. CASE call[c].ok
    <3>1. b = member \/ (changes > 0 /\ call[c].asked <= changedAt)
      BY <1>1, <2>1 DEF Asked
    <3>2. call[c].asked <= changedAt => clock <= changedAt + slowest'
      BY <1>4, <1>5, Later, Zenon
    <3> QED
      BY <3>1, <3>2, Zenon
  <2>2. CASE ~call[c].ok
    BY <1>2, <1>6, <2>2
  <2> QED
    BY <2>1, <2>2
<1>8. /\ call'[c] = NotCalled /\ \A d \in Calls \ {c} : call'[d] = call[d]
      /\ call' \in [Calls -> CallState]
  BY <1>1 DEF AdminTypes, CallState
<1>9. changes = 0 /\ ~member => ~b
  BY <1>3 DEF NeverMember
<1> HIDE DEF b
<1>10. AdminTypes'
  BY <1>1, <1>2, <1>3, <1>4, <1>6, <1>8 DEF AdminTypes
<1>11. Asked'
  BY <1>1, <1>8 DEF Asked, NotCalled
<1>12. Cached'
  BY <1>1, <1>7 DEF Cached
<1>13. Answered'
  <2>1. clock <= changedAt + slowest' => clock < changedAt + maxDuration + slowest'
    BY <1>4, <1>5, Later, AdminAssumption, Zenon
  <2>2. ASSUME NEW a \in answer'
        PROVE  \/ a = member
               \/ changes > 0 /\ clock < changedAt + maxDuration + slowest'
               \/ failedAt' >= changedAt
    BY <1>1, <1>7, <2>1, Zenon
  <2> QED
    BY <1>1, <2>2, Zenon DEF Answered
<1>14. NeverMember'
  BY <1>1, <1>3, <1>8, <1>9, Zenon DEF NeverMember
<1> QED
  BY <1>10, <1>11, <1>12, <1>13, <1>14

LEMMA AdminNextInv == AdminInv /\ AdminNext => AdminInv'
BY AdminTickInv, ChangeInv, GetInv, LookupInv, PutInv DEF AdminNext

LEMMA AdminStutters == AdminInv /\ UNCHANGED adminVars => AdminInv'
<1> SUFFICES ASSUME AdminInv, UNCHANGED adminVars PROVE AdminInv'
  OBVIOUS
<1>1. UNCHANGED <<clock, entry, call, answer, member, changes, changedAt, slowest, failedAt>>
  BY Zenon DEF adminVars
<1>2. AdminTypes'
  BY <1>1, Zenon DEF AdminInv, AdminTypes
<1>3. Asked' /\ Cached' /\ NeverMember' /\ Answered'
  BY <1>1, Zenon DEF AdminInv, Asked, Cached, NeverMember, Answered
<1> QED
  BY <1>2, <1>3 DEF AdminInv

(* Every step of IsAdminUser, of the clock and of the groups keeps AdminInv. *)
THEOREM AdminInvariance == AdminSpec => []AdminInv
<1>1. AdminInv /\ [AdminNext]_adminVars => AdminInv'
  BY AdminNextInv, AdminStutters
<1> QED
  BY <1>1, AdminInitInv, PTL DEF AdminSpec

(***************************************************************************)
(* IsAdminUser follows the groups in less than maxDuration plus the time   *)
(* of the slowest lookup unless a lookup has failed since they changed,    *)
(* and never takes for an administrator who has never been one             *)
(* (admincache/cache.go, IsAdminUser in app.go).                           *)
(***************************************************************************)
THEOREM FollowsGroups == AdminSpec => []AnswersFollowGroups
<1>1. AdminInv => AnswersFollowGroups
  BY Zenon DEF AdminInv, Answered, NeverMember, AnswersFollowGroups
<1> QED
  BY <1>1, AdminInvariance, PTL

-----------------------------------------------------------------------------
(* The three beside each other, as MCSession puts them *)

LEMMA InvTypes == SessionInv /\ OIDCInv /\ AdminInv => TypeOK
<1> SUFFICES ASSUME SessionInv, OIDCInv, AdminInv PROVE TypeOK
  OBVIOUS
<1>1. SessionTypeOK
  <2>1. ASSUME NEW c \in Cookies \cup {NoCookie}, InTime(c) PROVE IsCookie(c)
    BY <2>1, SessionAssumption DEF IsCookie, Cookies, InTime
  <2>2. ASSUME NEW r \in Requests, Active(r)
        PROVE  /\ request[r].at \in {"sent", "checked", "answered"}
               /\ IsCookie(request[r].cookie)
    BY <2>1, <2>2, RequestShapes, Zenon
  <2>3. IsCookie(jar) /\ now \in 0 .. MaxTime /\ certs \subseteq Certs
    BY <2>1, Zenon DEF SessionInv
  <2> QED
    BY <2>2, <2>3, Zenon DEF SessionTypeOK
<1>2. OIDCTypeOK
  <2>1. \A t \in tokens :
          /\ t.Type \in {"token_endpoint", "bearer"}
          /\ t.Username \in Users /\ t.by \in Clients
          /\ t.Type = "token_endpoint" =>
                t.Subject \in Clients /\ t.RedirectURI \in Redirects
    BY DEF OIDCInv, Codes, AccessTokens
  <2>2. info # NoInfo => info.user \in Users
    BY DEF OIDCInv, InfoIsGood, AccessTokens
  <2> QED
    BY <2>1, <2>2 DEF OIDCTypeOK
<1>3. AdminTypeOK
  BY CallShapes DEF AdminInv, AdminTypes, AdminTypeOK
<1> QED
  BY <1>1, <1>2, <1>3 DEF TypeOK

(***************************************************************************)
(* The variables of the three have their types; no cookie lives longer     *)
(* than maxAgeSecondsAuthCookie from its login, however often its level is *)
(* raised (updateAuthJWTWithNewAuthLevel in jwt.go), and no entry of the   *)
(* administrators' cache is from the future.                               *)
(***************************************************************************)
THEOREM TypeCorrect == MCSpec => []TypeOK
<1> DEFINE Inv == SessionInv /\ OIDCInv /\ AdminInv
<1>1. MCInit => Inv
  BY SessionInitInv, OIDCInitInv, AdminInitInv DEF MCInit
<1>2. ASSUME Inv, SessionNext \/ UNCHANGED sessionVars, UNCHANGED oidcVars, UNCHANGED adminVars
      PROVE  Inv'
  BY <1>2, SessionNextInv, SessionStutters, OIDCStutters, AdminStutters, Zenon
<1>3. ASSUME Inv, OIDCNext, UNCHANGED adminVars PROVE Inv'
  BY <1>3, OIDCNextInv, AdminStutters, Zenon
<1>4. ASSUME Inv, AdminNext, UNCHANGED sessionVars, UNCHANGED oidcVars PROVE Inv'
  BY <1>4, SessionStutters, OIDCStutters, AdminNextInv, Zenon
<1>5. Inv /\ [MCNext]_mcVars => Inv'
  <2> SUFFICES ASSUME Inv, [MCNext]_mcVars PROVE Inv'
    OBVIOUS
  <2> HIDE DEF Inv
  <2>1. CASE SessionStep
    BY <1>2, <2>1, Zenon DEF SessionStep, oidcVars, adminVars
  <2>2. CASE OIDCStep
    <3>1. /\ UNCHANGED adminVars
          /\ \/ OIDCNext
             \/ SessionNext /\ UNCHANGED oidcVars
      BY <2>2, Zenon DEF OIDCStep, SessionNext, oidcVars, adminVars
    <3> QED
      BY <1>2, <1>3, <3>1, Zenon
  <2>3. CASE AdminStep
    BY <1>4, <2>3, Zenon DEF AdminStep, sessionVars, oidcVars
  <2>4. CASE UNCHANGED mcVars
    BY <1>2, <2>4, Zenon DEF mcVars, sessionVars, oidcVars, adminVars
  <2> QED
    BY <2>1, <2>2, <2>3, <2>4, Zenon DEF MCNext
<1> QED
  BY <1>1, <1>5, InvTypes, PTL DEF MCSpec
=============================================================================
