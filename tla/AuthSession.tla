----------------------------- MODULE AuthSession -----------------------------
(***************************************************************************)
(* Authentication cookies and what they are good for: loginHandler, the    *)
(* handlers that check a second factor and raise the level of a cookie,    *)
(* logoutHandler (cmd/keymasterd/app.go, jwt.go) and certGenHandler        *)
(* (certgen.go).                                                           *)
(*                                                                         *)
(* The server keeps no sessions.  A cookie is a signed statement, a        *)
(* request carries the cookie that the browser had when it was sent, and   *)
(* the browser takes whatever cookie the answer brings when it arrives.    *)
(* So a request is several steps: it is sent, checkAuth looks at it, its   *)
(* handler finishes (perhaps after another service has answered), and the  *)
(* answer is delivered.  Requests of one browser overlap, and a browser    *)
(* may be used by several users.                                           *)
(***************************************************************************)
EXTENDS Integers, FiniteSets

CONSTANTS
    Users, Requests,
    Factors,                   \* the second factors that are in use
    maxAgeSecondsAuthCookie, maxCertificateLifetime,
    MaxTime,                   \* bound: the clock
    MaxCerts                   \* bound: certificates the browser has

ASSUME SessionAssumption ==
    maxAgeSecondsAuthCookie \in Nat /\ maxCertificateLifetime \in Nat /\ MaxTime \in Nat

VARIABLES
    now,
    jar,        \* the authentication cookie of the browser
    certs,      \* the certificates it was given
    request,    \* request -> what it is and where it is
    AllowedAuthBackendsForCerts       \* configuration, never changed

sessionVars == <<now, jar, certs, request, AllowedAuthBackendsForCerts>>
config == AllowedAuthBackendsForCerts

NoCookie == [user |-> "none"]
NoCert == [user |-> "none"]
Idle == [at |-> "idle"]

(* One bit of AuthType for each of these. *)
Levels == {"Password", "KeymasterX509"} \cup Factors
AuthTypeAny == Levels

(* login is history: the login that the certificate goes back to. *)
Certs == [type : {"ssh", "x509"}, user : Users, NotBefore : 0 .. MaxTime,
          NotAfter : Int, login : 0 .. MaxTime]

Active(r) == request[r] # Idle

(* earned is history: were the levels checked for the user and the login of *)
(* the cookie ("own"), for another one, or has a request with a certificate *)
(* raised them?                                                             *)
IsCookie(c) ==
    c # NoCookie =>
        /\ DOMAIN c = {"user", "level", "iat", "exp", "earned"}
        /\ c.earned \in {"own", "other", "cert"}
        /\ c.user \in Users /\ c.level \subseteq Levels
        /\ c.iat \in 0 .. MaxTime /\ c.exp \in c.iat .. c.iat + maxAgeSecondsAuthCookie

(* The variables have their types; a cookie never lives longer than         *)
(* maxAgeSecondsAuthCookie from its login.                                  *)
SessionTypeOK ==
    /\ now \in 0 .. MaxTime
    /\ IsCookie(jar)
    /\ certs \subseteq Certs
    /\ \A r \in Requests : Active(r) =>
          /\ request[r].at \in {"sent", "checked", "answered"}
          /\ IsCookie(request[r].cookie)

SessionInit ==
    /\ AllowedAuthBackendsForCerts \in {{l} : l \in Levels \ {"KeymasterX509"}}
    /\ now = 0
    /\ jar = NoCookie
    /\ certs = {}
    /\ request = [r \in Requests |-> Idle]

Tick ==
    /\ now < MaxTime
    /\ now' = now + 1
    /\ UNCHANGED <<jar, certs, request, config>>

-----------------------------------------------------------------------------
(* The browser *)

(* A certificate is verified when the connection is made, so it is valid    *)
(* when the request is sent.  user is who types the password, where one is  *)
(* asked for; arg is the factor that is checked or the lifetime asked for.  *)
(* What the handler does not look at is left out of the request: the cookie *)
(* beside a certificate in certGenHandler, a password beside either.        *)
Send(r, op, u, arg) ==
    /\ ~Active(r)
    /\ \E c \in {d \in certs : d.type = "x509" /\ d.NotAfter >= now} \cup {NoCert} :
          LET cookie == IF op = "certgen" /\ c # NoCert THEN NoCookie ELSE jar
          IN /\ u # "none" => c = NoCert /\ cookie = NoCookie
             /\ request' = [request EXCEPT ![r] =
                   [at |-> "sent", op |-> op, cert |-> c, user |-> u, arg |-> arg,
                    cookie |-> cookie]]
    /\ UNCHANGED <<now, jar, certs, config>>

(* The answer arrives with a cookie; an empty one removes what there is.    *)
(* The arrival of an answer without a cookie changes nothing.               *)
Deliver(r) ==
    /\ Active(r) /\ request[r].at = "answered"
    /\ jar' = request[r].cookie
    /\ request' = [request EXCEPT ![r] = Idle]
    /\ UNCHANGED <<now, certs, config>>

(* The browser drops a cookie whose time is over, and a certificate. *)
ForgetExpired ==
    /\ \/ /\ jar # NoCookie /\ jar.exp < now
          /\ jar' = NoCookie
          /\ UNCHANGED certs
       \/ \E c \in certs :
             /\ c.NotAfter < now
             /\ certs' = certs \ {c}
             /\ UNCHANGED jar
    /\ UNCHANGED <<now, request, config>>

-----------------------------------------------------------------------------
(* checkAuth *)

(* What checkAuth returns for request q: a certificate comes before the     *)
(* cookie, and without both the password of basic authentication counts.    *)
(* The set is empty where checkAuth refuses.                                *)
AuthInfo(q, requiredAuthType) ==
    IF q.cert # NoCert /\ "KeymasterX509" \in requiredAuthType
    THEN {[Username |-> q.cert.user, AuthType |-> {"KeymasterX509"},
           IssuedAt |-> q.cert.NotBefore, login |-> q.cert.login]}
    ELSE IF q.cookie = NoCookie
    THEN {[Username |-> u, AuthType |-> {"Password"}, IssuedAt |-> now, login |-> now] :
             u \in {v \in {q.user} : v # "none" /\ "Password" \in requiredAuthType}}
    ELSE {[Username |-> c.user, AuthType |-> c.level, IssuedAt |-> c.iat, login |-> c.iat] :
             c \in {d \in {q.cookie} : d.exp >= now /\ d.level \cap requiredAuthType # {}}}

(* The level that is enough for a certificate. *)
SufficientAuthLevel(level) ==
    \/ "Password" \in AllowedAuthBackendsForCerts
    \/ AllowedAuthBackendsForCerts \cap level # {}
    \/ "U2F" \in level

(* Mutant: the whole lifetime, whenever the user logged in. *)
CertDurationUncapped(asked, IssuedAt) == asked

(* certGenHandler caps the lifetime by what is left since IssuedAt. *)
CertDuration(asked, IssuedAt) ==
    LET left == IssuedAt + maxCertificateLifetime - now
    IN IF asked > left THEN left ELSE asked

(* The handlers of second factors and certGenHandler begin with checkAuth;  *)
(* certGenHandler goes on to check the level and to compute the lifetime.   *)
checkAuth(r) ==
    LET q == request[r]
        granted == {a \in AuthInfo(q, AuthTypeAny) :
                       q.op = "certgen" => SufficientAuthLevel(a.AuthType)}
    IN
    /\ Active(r) /\ q.at = "sent" /\ q.op \in {"factor", "certgen"}
    /\ \/ \E a \in granted :
             request' = [request EXCEPT ![r] =
                IF q.op = "factor"
                THEN [at |-> "checked", op |-> q.op, arg |-> q.arg, auth |-> a,
                      cookie |-> q.cookie, cert |-> q.cert]
                ELSE [at |-> "checked", op |-> q.op, auth |-> a, cookie |-> NoCookie,
                      since |-> now, duration |-> CertDuration(q.arg, a.IssuedAt)]]
       \/ /\ granted = {}
          /\ request' = [request EXCEPT ![r] = Idle]
    /\ UNCHANGED <<now, jar, certs, config>>

-----------------------------------------------------------------------------
(* The handlers *)

(* genNewSerializedAuthJWT *)
NewCookie(u) ==
    [user |-> u, level |-> {"Password"}, iat |-> now, exp |-> now + maxAgeSecondsAuthCookie,
     earned |-> "own"]

Answer(r, cookie) ==
    request' = [request EXCEPT ![r] = [at |-> "answered", cookie |-> cookie]]

(* loginHandler with a right password; a wrong one changes nothing.  It     *)
(* looks at nothing the browser has, so nothing can come between sending    *)
(* the request and handling it.                                             *)
loginHandler(r, u) ==
    /\ ~Active(r)
    /\ Answer(r, NewCookie(u))
    /\ UNCHANGED <<now, jar, certs, config>>

(* History: what a request that raises the level makes of earned. *)
EarnedBy(cookie, q) ==
    IF q.cert # NoCert THEN "cert"
    ELSE IF q.auth.Username = cookie.user /\ q.auth.IssuedAt = cookie.iat THEN cookie.earned
    ELSE "other"

(* updateAuthJWTWithNewAuthLevel: the cookie of the request with another    *)
(* level, whoever checkAuth found.                                          *)
Raise(cookie, q) ==
    [cookie EXCEPT !.level = q.auth.AuthType \cup {q.arg}, !.earned = EarnedBy(cookie, q)]

(* Mutant: the cookie that the browser has by now is raised. *)
SecondFactorLate(r) ==
    LET q == request[r] IN
    /\ Active(r) /\ q.at = "checked" /\ q.op = "factor"
    /\ \/ jar # NoCookie /\ Answer(r, Raise(jar, q))
       \/ request' = [request EXCEPT ![r] = Idle]
    /\ UNCHANGED <<now, jar, certs, config>>

(* The handlers of second factors, once the factor was checked for the user *)
(* that checkAuth found: it is right and there is a cookie to update, or    *)
(* the answer brings no cookie.                                             *)
SecondFactor(r) ==
    LET q == request[r] IN
    /\ Active(r) /\ q.at = "checked" /\ q.op = "factor"
    /\ \/ q.cookie # NoCookie /\ Answer(r, Raise(q.cookie, q))
       \/ request' = [request EXCEPT ![r] = Idle]
    /\ UNCHANGED <<now, jar, certs, config>>

(* GenUserX509Cert and GenSSHCertFileString: a certificate begins when it   *)
(* is signed.                                                               *)
GenUserX509Cert(u, duration, login) ==
    [type |-> "x509", user |-> u, NotBefore |-> now, NotAfter |-> now + duration,
     login |-> login]

GenSSHCertFileString(u, duration, login) ==
    [type |-> "ssh", user |-> u, NotBefore |-> now, NotAfter |-> now + duration,
     login |-> login]

Issue(r, cert) ==
    /\ Active(r) /\ request[r].at = "checked" /\ request[r].op = "certgen"
    /\ Cardinality(certs) < MaxCerts
    /\ certs' = certs \cup {cert}
    /\ request' = [request EXCEPT ![r] = Idle]
    /\ UNCHANGED <<now, jar, config>>

(* postAuthX509CertHandler: the groups of the user may have to be looked up *)
(* before, which takes its time.                                            *)
postAuthX509CertHandler(r) ==
    Issue(r, GenUserX509Cert(request[r].auth.Username, request[r].duration,
                             request[r].auth.login))

postAuthSSHCertHandler(r) ==
    Issue(r, GenSSHCertFileString(request[r].auth.Username, request[r].duration,
                                  request[r].auth.login))

(* One of the other ways out of certGenHandler: another user's name in the  *)
(* path, a bad form or key, no signer for the key, no groups.               *)
CertRefused(r) ==
    /\ Active(r) /\ request[r].at = "checked" /\ request[r].op = "certgen"
    /\ request' = [request EXCEPT ![r] = Idle]
    /\ UNCHANGED <<now, jar, certs, config>>

(* logoutHandler: only the browser forgets.  It only asks whether there is  *)
(* a cookie.                                                                *)
logoutHandler(r) ==
    /\ ~Active(r)
    /\ jar # NoCookie
    /\ Answer(r, NoCookie)
    /\ UNCHANGED <<now, jar, certs, config>>

SessionNext ==
    \/ Tick
    \/ \E r \in Requests :
          \/ \E u \in Users : loginHandler(r, u)
          \/ \E f \in Factors : Send(r, "factor", "none", f)
          \/ \E d \in {1, maxCertificateLifetime}, u \in Users \cup {"none"} :
                Send(r, "certgen", u, d)
          \/ checkAuth(r) \/ SecondFactor(r)
          \/ postAuthX509CertHandler(r) \/ postAuthSSHCertHandler(r) \/ CertRefused(r)
          \/ logoutHandler(r) \/ Deliver(r)
    \/ ForgetExpired

SessionSpec == SessionInit /\ [][SessionNext]_sessionVars

-----------------------------------------------------------------------------
(***************************************************************************)
(* Every level of a cookie was checked for the user of the cookie and      *)
(* since the login the cookie goes back to, even if requests of several    *)
(* users of one browser overlap.  Cookies that a request with a client     *)
(* certificate has raised are excepted: there checkAuth looks at the       *)
(* certificate and updateAuthCookieAuthlevel at the cookie.                *)
(***************************************************************************)
LevelsEarned ==
    \A c \in {jar} \cup {request[r].cookie : r \in {s \in Requests : Active(s)}} :
        c # NoCookie => c.earned # "other"

(***************************************************************************)
(* A certificate ends within maxCertificateLifetime of the login it was    *)
(* got with, but for the time the handler took to sign it.  Where          *)
(* passwords are enough for certificates a certificate is enough for the   *)
(* next one (certGenHandler), and the time runs from the certificate.      *)
(***************************************************************************)
CertsEndAfterLogin ==
    [][\A c \in certs' \ certs : \E r \in Requests :
          LET q == request[r] IN
          /\ Active(r) /\ ~Active(r)' /\ q.at = "checked"
          /\ c.NotAfter <= q.auth.IssuedAt + maxCertificateLifetime + (now - q.since)
          /\ "Password" \notin AllowedAuthBackendsForCerts =>
                c.NotAfter <= c.login + maxCertificateLifetime + (now - q.since)]_sessionVars
=============================================================================
