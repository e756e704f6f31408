------------------------------ MODULE MCSession ------------------------------
(***************************************************************************)
(* One instance of the statements that the server signs and keeps no       *)
(* record of.  part says which component a behaviour is about: cookies and *)
(* certificates, the OpenID Connect provider on top of cookies, or the     *)
(* administrators' cache.                                                  *)
(***************************************************************************)
EXTENDS OIDCProvider, AdminCache, TLC

CONSTANTS MaxSessionTime        \* bound: the clock of part "session"

VARIABLE part

mcVars == <<part, sessionVars, oidcVars, adminVars>>

Url(https, query, dotdot, inDomain, matchesRE) ==
    [https |-> https, query |-> query, dotdot |-> dotdot,
     inDomain |-> inDomain, matchesRE |-> matchesRE]

MCRedirects ==
    {Url(TRUE, FALSE, FALSE, TRUE, TRUE), Url(TRUE, FALSE, FALSE, FALSE, TRUE),
     Url(FALSE, FALSE, FALSE, TRUE, TRUE), Url(TRUE, TRUE, FALSE, TRUE, TRUE),
     Url(TRUE, FALSE, TRUE, TRUE, TRUE)}

MCSymmetry == Permutations(Users) \cup Permutations(Requests) \cup Permutations(Calls)

MCInit ==
    /\ part \in {"session", "oidc", "admin"}
    /\ SessionInit /\ OIDCInit /\ AdminInit
    /\ part # "admin" => ~member
    /\ part # "session" => AllowedAuthBackendsForCerts = {"Password"}

SessionStep ==
    /\ part = "session"
    /\ SessionNext
    /\ now' <= MaxSessionTime
    /\ UNCHANGED <<part, oidcVars, adminVars>>

(* The cookies that the provider looks at come from logins. *)
OIDCStep ==
    /\ part = "oidc"
    /\ \/ OIDCNext
       \/ /\ \/ Tick \/ ForgetExpired
             \/ \E r \in Requests :
                   /\ \A s \in Requests \ {r} : ~Active(s)
                   /\ (\E u \in Users : loginHandler(r, u)) \/ logoutHandler(r) \/ Deliver(r)
          /\ UNCHANGED oidcVars
    /\ UNCHANGED <<part, adminVars>>

AdminStep ==
    /\ part = "admin"
    /\ AdminNext
    /\ UNCHANGED <<part, sessionVars, oidcVars>>

MCNext == SessionStep \/ OIDCStep \/ AdminStep

MCSpec == MCInit /\ [][MCNext]_mcVars

(* Every component's variables have their types. *)
TypeOK == SessionTypeOK /\ OIDCTypeOK /\ AdminTypeOK
=============================================================================
