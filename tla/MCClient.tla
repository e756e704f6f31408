------------------------------ MODULE MCClient ------------------------------
(***************************************************************************)
(* One instance of Okta as a second factor and of the command-line client. *)
(* part says what a behaviour is about: sessions in browsers, the client   *)
(* with its goroutines, or the files of the client.                        *)
(***************************************************************************)
EXTENDS OktaAuth, TokenPushClient, ClientCerts

VARIABLE part

mcVars == <<part, oktaVars, clientVars, fileVars>>

MCInit ==
    /\ part \in {"okta", "client", "files"}
    /\ OktaInit /\ ClientInit /\ FilesInit
    /\ part # "client" => backends = {}

OktaStep == part = "okta" /\ OktaNext /\ UNCHANGED <<part, clientVars, fileVars>>

ClientStep == part = "client" /\ ClientNext /\ UNCHANGED <<part, oktaVars, fileVars>>

FilesStep == part = "files" /\ FilesNext /\ UNCHANGED <<part, oktaVars, clientVars>>

MCNext == OktaStep \/ ClientStep \/ FilesStep

InClient(A) == part = "client" /\ A /\ UNCHANGED <<part, oktaVars, fileVars>>

(* ClientFairness, for the behaviours that are about the client. *)
MCFairness ==
    /\ WF_mcVars(InClient(ClientTick))
    /\ WF_mcVars(InClient(ClientSteps))
    /\ \A t \in targetUrls : WF_mcVars(InClient(SendResult(t)))

MCSpec == MCInit /\ [][MCNext]_mcVars /\ MCFairness

(* Every component's variables have their types. *)
TypeOK == OktaTypeOK /\ ClientTypeOK /\ FilesTypeOK

(***************************************************************************)
(* The client comes to an end, although nobody types a code and the server *)
(* never answers about the push (the timeout of                            *)
(* doGenericTokenPushAuthenticate), and leaves no goroutine behind that    *)
(* waits with its result, unless it gave up on both: ClientReturns and     *)
(* ResultNeverStuck of TokenPushClient.                                    *)
(***************************************************************************)
ClientEnds == part = "client" => ClientReturns /\ ResultNeverStuck
=============================================================================
