---------------------------- MODULE OIDCProvider ----------------------------
(***************************************************************************)
(* The OpenID Connect provider (cmd/keymasterd/idp_oidc.go).  A user with  *)
(* an authentication cookie is sent to a client program with a code, the   *)
(* program redeems the code for an access token, and the access token is   *)
(* good for the user's information.  Nothing is stored: codes and access   *)
(* tokens are statements signed with the same key, told apart by Type.     *)
(***************************************************************************)
EXTENDS AuthSession

CONSTANTS
    Clients,                    \* the programs; client_id of each is itself
    Public,                     \* those without a ClientSecret
    HasDomains, HasREs,         \* those with AllowedRedirectDomains, AllowedRedirectURLRE
    Redirects,                  \* URLs, by what the code asks of them
    WebUIBackends,              \* AllowedAuthBackendsForWebUI
    idpOpenIDCMaxAuthProcessMaxDurationSeconds,
    MaxTokens                   \* bound: tokens that are signed

(* A code does not outlive the access token that it is redeemed for. *)
ASSUME OIDCAssumption ==
    idpOpenIDCMaxAuthProcessMaxDurationSeconds \in 0 .. maxAgeSecondsAuthCookie

VARIABLES
    tokens,     \* every code and access token that was signed
    info        \* history: the last answer of idpOpenIDCUserinfoHandler

oidcVars == <<tokens, info>>

NoInfo == [user |-> "none"]
NoChallenge == "none"

(* login, by and iat are history: the login the token goes back to, the     *)
(* program that got it and when it was signed.                              *)
OIDCTypeOK ==
    /\ \A t \in tokens :
          /\ t.Type \in {"token_endpoint", "bearer"}
          /\ t.Username \in Users /\ t.by \in Clients
          /\ t.Type = "token_endpoint" =>
                t.Subject \in Clients /\ t.RedirectURI \in Redirects
    /\ info # NoInfo => info.user \in Users

OIDCInit == tokens = {} /\ info = NoInfo

(* idpOpenIDCClientCanRedirect: a list that is empty asks nothing, but one  *)
(* of the two must be there.                                                *)
canRedirect(client, url) ==
    /\ client \in HasDomains \cup HasREs
    /\ url.https /\ ~url.query /\ ~url.dotdot
    /\ client \in HasDomains => url.inDomain
    /\ client \in HasREs => url.matchesRE

-----------------------------------------------------------------------------
(* idpOpenIDCAuthorizationHandler: checkAuth with the level of the web      *)
(* pages (getRequiredWebUIAuthLevel, never a certificate), a redirect that  *)
(* is allowed, and a code for the program.                                  *)
idpOpenIDCAuthorizationHandler(client, url, challenge, u) ==
    LET q == [cert |-> NoCert, cookie |-> jar, user |-> u] IN
    /\ Cardinality(tokens) < MaxTokens
    /\ u # "none" => jar = NoCookie
    /\ canRedirect(client, url)
    /\ \E a \in AuthInfo(q, WebUIBackends) :
          tokens' = tokens \cup
             {[Type |-> "token_endpoint", Subject |-> client, Username |-> a.Username,
               Expiration |-> now + idpOpenIDCMaxAuthProcessMaxDurationSeconds,
               AuthExpiration |-> now + maxAgeSecondsAuthCookie,
               RedirectURI |-> url, challenge |-> challenge,
               by |-> client, login |-> a.login]}
    /\ UNCHANGED <<info, sessionVars>>

(* idpOpenIDCValidCodeVerifier: without a challenge no verifier is right. *)
ValidCodeVerifier(verifier, t) == t.challenge # NoChallenge /\ verifier = t.challenge

(* The client is known by the verifier, which only programs without a       *)
(* secret may use, or by its secret.  A program has its own secret and its  *)
(* own verifier.                                                            *)
ClientKnown(program, clientID, useVerifier, t) ==
    IF useVerifier
    THEN clientID \in Public /\ ValidCodeVerifier(program, t)
    ELSE clientID \notin Public /\ clientID = program

(* What idpOpenIDCTokenHandler signs for code t at this moment. *)
AccessToken(t, program) ==
    [Type |-> "bearer", Username |-> t.Username, Expiration |-> t.AuthExpiration,
     by |-> program, login |-> t.login, iat |-> now, of |-> t.Subject]

(* Mutant: any client that is known may redeem any code. *)
idpOpenIDCTokenHandlerAny(program, clientID, useVerifier, url, t) ==
    /\ Cardinality(tokens) < MaxTokens
    /\ ClientKnown(program, clientID, useVerifier, t)
    /\ t.Type = "token_endpoint"
    /\ t.Expiration >= now
    /\ t.RedirectURI = url
    /\ tokens' = tokens \cup {AccessToken(t, program)}
    /\ UNCHANGED <<info, sessionVars>>

(* idpOpenIDCTokenHandler.  A code may be redeemed again while it lasts.    *)
(* Tokens without a Subject, an access token for one, are refused by the    *)
(* comparison with the client.                                              *)
idpOpenIDCTokenHandler(program, clientID, useVerifier, url, t) ==
    /\ Cardinality(tokens) < MaxTokens
    /\ t.Type = "token_endpoint"
    /\ ClientKnown(program, clientID, useVerifier, t)
    /\ clientID = t.Subject
    /\ t.Expiration >= now
    /\ t.RedirectURI = url
    /\ tokens' = tokens \cup {AccessToken(t, program)}
    /\ UNCHANGED <<info, sessionVars>>

(* idpOpenIDCUserinfoHandler: whoever shows an access token is answered. *)
idpOpenIDCUserinfoHandler(t) ==
    /\ t.Expiration >= now
    /\ t.Type = "bearer"
    /\ info' = [user |-> t.Username, at |-> now, token |-> t]
    /\ UNCHANGED <<tokens, sessionVars>>

OIDCNext ==
    \/ \E c \in Clients, url \in Redirects, u \in Users \cup {"none"} :
          \E challenge \in {c, NoChallenge} :
             idpOpenIDCAuthorizationHandler(c, url, challenge, u)
    \/ \E p, c \in Clients, v \in BOOLEAN, url \in Redirects, t \in tokens :
          idpOpenIDCTokenHandler(p, c, v, url, t)
    \/ \E t \in tokens : idpOpenIDCUserinfoHandler(t)

(* The provider beside everything else that happens to cookies. *)
OIDCSpec ==
    SessionInit /\ OIDCInit
        /\ [][OIDCNext \/ (SessionNext /\ UNCHANGED oidcVars)]_<<sessionVars, oidcVars>>

-----------------------------------------------------------------------------
(***************************************************************************)
(* However codes and tokens of several programs are mixed up, a program    *)
(* gets an access token only for a code that was made for it               *)
(* (idpOpenIDCTokenHandler, "Ensure authoriation client was issued to the  *)
(* authenticated client"); the token is still good then, and good for at   *)
(* most two cookie lifetimes after the login it goes back to, however late *)
(* the cookie was used and the code redeemed; and the user's information   *)
(* is given only for such a token, in its time                             *)
(* (idpOpenIDCUserinfoHandler).                                            *)
(***************************************************************************)
AccessFollowsLogin ==
    /\ \A t \in tokens : t.Type = "bearer" =>
          /\ t.of = t.by
          /\ t.Expiration \in t.iat .. t.login + 2 * maxAgeSecondsAuthCookie
    /\ info # NoInfo =>
          /\ info.token \in tokens
          /\ info.token.Type = "bearer" /\ info.token.Username = info.user
          /\ info.at <= info.token.login + 2 * maxAgeSecondsAuthCookie
=============================================================================
