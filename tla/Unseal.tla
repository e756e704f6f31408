------------------------------- MODULE Unseal -------------------------------
(***************************************************************************)
(* How keymasterd gets its signing keys (cmd/keymasterd/unseal.go,         *)
(* config.go and main in app.go).  With key files in plain PEM it loads    *)
(* them while it starts.  With encrypted files it starts sealed, and       *)
(* unsealCA is called with a password by whoever has one: the loop that    *)
(* asks AWS Secrets Manager, an operator, or keymaster-unlocker, which     *)
(* tries again and again (cmd/keymaster-unlocker/main.go).  main waits for *)
(* the message on SignerIsReady before it serves users.                    *)
(*                                                                         *)
(* unsealCA holds state.Mutex from its first to its last line, yet each of *)
(* its assignments is a step, because readyzHandler does not take the      *)
(* mutex.  The daemon may be stopped at any time and is started again.     *)
(***************************************************************************)
EXTENDS Naturals

CONSTANTS
    Operators,     \* bound: injections by hand that may be in progress
    MaxRestarts    \* bound: how often the daemon stops

VARIABLES
    files,             \* the key files: what they hold never changes
    auto,              \* is an AWS secret configured, and does AWS answer?
    unlockerPassword,  \* what keymaster-unlocker was given
    restarts,          \* how often the daemon has stopped
    main,              \* where the main goroutine is
    mutex,             \* who holds state.Mutex
    Signer, Ed25519Signer, caCertDer,
    KeymasterPublicKeys,
    SignerIsReady,     \* messages in the channel, which has room for one
    ClientCAPool,      \* does the pool hold the daemon's own CA?
    pc,                \* caller of unsealCA -> where it is
    password           \* caller of unsealCA -> the password it has

configVars == <<files, auto, unlockerPassword>>
signerVars == <<Signer, Ed25519Signer, caCertDer, KeymasterPublicKeys, SignerIsReady>>
unsealVars == <<configVars, restarts, main, mutex, signerVars, ClientCAPool, pc, password>>

Nobody == "nobody"
Aws == "aws"
Unlocker == "unlocker"
Callers == Operators \cup {Aws, Unlocker}

ASSUME UnsealAssumption ==
    /\ MaxRestarts \in Nat
    /\ Operators \cap {Nobody, Aws, Unlocker} = {}

(* The Ed25519 file may be missing, hold another kind of key, or need       *)
(* another password.  The CA's key may be one that cannot be used.          *)
Files == [ca : {"pem", "armored"},
          ed : {"none", "good", "notEd25519", "otherPassword"},
          caKey : {"good", "bad"}]

Secrets == {"right", "wrong"}

InUnsealCA == {"lock", "decrypt", "ed25519", "signer", "keys", "send"}

UnsealTypeOK ==
    /\ files \in Files
    /\ auto \in {"none", "noMetadata", "configured"}
    /\ unlockerPassword \in Secrets
    /\ restarts \in 0 .. MaxRestarts
    /\ main \in {"loading", "signers", "setup", "waiting", "starting", "serving", "exited"}
    /\ mutex \in Callers \cup {Nobody}
    /\ Signer \in BOOLEAN /\ Ed25519Signer \in BOOLEAN
    /\ caCertDer \in BOOLEAN /\ ClientCAPool \in BOOLEAN
    /\ KeymasterPublicKeys \subseteq {"fromFile", "signer"}
    /\ SignerIsReady \in 0 .. 1
    /\ DOMAIN pc = Callers
    /\ \A o \in Operators : pc[o] \in InUnsealCA \cup {"idle"}
    /\ pc[Unlocker] \in InUnsealCA \cup {"idle", "sleep"}
    /\ pc[Aws] \in InUnsealCA \cup {"idle", "check", "sleep", "end"}
    /\ password \in [Callers -> Secrets]

UnsealInit ==
    /\ files \in Files
    /\ auto \in {"none", "noMetadata", "configured"}
    /\ unlockerPassword \in Secrets
    /\ restarts = 0
    /\ main = "loading"
    /\ mutex = Nobody
    /\ Signer = FALSE /\ Ed25519Signer = FALSE /\ caCertDer = FALSE
    /\ KeymasterPublicKeys = {}
    /\ SignerIsReady = 0
    /\ ClientCAPool = FALSE
    /\ pc = [c \in Callers |-> "idle"]
    /\ password = [c \in Callers |-> "wrong"]

(* The process ends: what is in its memory is gone, and so are the requests *)
(* to it.                                                                   *)
Stop(to) ==
    /\ main' = to
    /\ mutex' = Nobody
    /\ Signer' = FALSE /\ Ed25519Signer' = FALSE /\ caCertDer' = FALSE
    /\ KeymasterPublicKeys' = {}
    /\ SignerIsReady' = 0
    /\ ClientCAPool' = FALSE
    /\ pc' = [c \in Callers |-> "idle"]
    /\ password' = [c \in Callers |-> "wrong"]
    /\ UNCHANGED configVars

(* The daemon stops, for whatever reason, and is started again. *)
Restart ==
    /\ restarts < MaxRestarts
    /\ restarts' = restarts + 1
    /\ Stop("loading")

-----------------------------------------------------------------------------
(* unsealCA *)

Move(c, to) == pc' = [pc EXCEPT ![c] = to]

(* Every return of unsealCA gives up the mutex.  Only the AWS loop does     *)
(* something else after an error than after a success: it tries again.      *)
UnsealReturn(c, ok) ==
    /\ mutex' = Nobody
    /\ Move(c, IF c = Unlocker THEN "sleep" ELSE IF c # Aws THEN "idle"
               ELSE IF ok THEN "end" ELSE "sleep")

Lock(c) ==
    /\ pc[c] = "lock"
    /\ mutex = Nobody
    /\ mutex' = c
    /\ Move(c, "decrypt")
    /\ UNCHANGED <<configVars, restarts, main, signerVars, ClientCAPool, password>>

(* Mutant: a signer that has been loaded is loaded again. *)
DecryptAgain(c) ==
    /\ pc[c] = "decrypt"
    /\ IF password[c] = "wrong" \/ files.ed = "otherPassword"
       THEN UnsealReturn(c, FALSE)
       ELSE Move(c, "ed25519") /\ UNCHANGED mutex
    /\ UNCHANGED <<configVars, restarts, main, signerVars, ClientCAPool, password>>

(* The check for an earlier success, and both calls of pgpDecryptFileData. *)
Decrypt(c) ==
    /\ pc[c] = "decrypt"
    /\ IF Signer \/ password[c] = "wrong" \/ files.ed = "otherPassword"
       THEN UnsealReturn(c, FALSE)
       ELSE Move(c, "ed25519") /\ UNCHANGED mutex
    /\ UNCHANGED <<configVars, restarts, main, signerVars, ClientCAPool, password>>

(* Mutant: the key is kept before its type is looked at. *)
LoadEd25519Unchecked(c) ==
    /\ pc[c] = "ed25519"
    /\ Ed25519Signer' = (Ed25519Signer \/ files.ed # "none")
    /\ IF files.ed = "notEd25519"
       THEN UnsealReturn(c, FALSE)
       ELSE Move(c, "signer") /\ UNCHANGED mutex
    /\ UNCHANGED <<configVars, restarts, main, Signer, caCertDer, KeymasterPublicKeys,
                   SignerIsReady, ClientCAPool, password>>

(* loadSignersFromPemData, its first half *)
LoadEd25519(c) ==
    /\ pc[c] = "ed25519"
    /\ Ed25519Signer' = (Ed25519Signer \/ files.ed = "good")
    /\ IF files.ed = "notEd25519"
       THEN UnsealReturn(c, FALSE)
       ELSE Move(c, "signer") /\ UNCHANGED mutex
    /\ UNCHANGED <<configVars, restarts, main, Signer, caCertDer, KeymasterPublicKeys,
                   SignerIsReady, ClientCAPool, password>>

(* loadSignersFromPemData, its second half *)
LoadSigner(c) ==
    /\ pc[c] = "signer"
    /\ IF files.caKey = "bad"
       THEN UnsealReturn(c, FALSE) /\ UNCHANGED <<Signer, caCertDer>>
       ELSE Signer' = TRUE /\ caCertDer' = TRUE /\ Move(c, "keys") /\ UNCHANGED mutex
    /\ UNCHANGED <<configVars, restarts, main, Ed25519Signer, KeymasterPublicKeys,
                   SignerIsReady, ClientCAPool, password>>

signerPublicKeyToKeymasterKeys(c) ==
    /\ pc[c] = "keys"
    /\ KeymasterPublicKeys' = KeymasterPublicKeys \cup {"signer"}
    /\ Move(c, "send")
    /\ UNCHANGED <<configVars, restarts, main, mutex, Signer, Ed25519Signer, caCertDer,
                   SignerIsReady, ClientCAPool, password>>

(* Mutant: main is told only while it waits. *)
SendReadyToWaiting(c) ==
    /\ pc[c] = "send"
    /\ SignerIsReady = 0
    /\ SignerIsReady' = IF main = "waiting" THEN 1 ELSE 0
    /\ UnsealReturn(c, TRUE)
    /\ UNCHANGED <<configVars, restarts, main, Signer, Ed25519Signer, caCertDer,
                   KeymasterPublicKeys, ClientCAPool, password>>

(* The send blocks, with the mutex held, while the channel is full. *)
SendReady(c) ==
    /\ pc[c] = "send"
    /\ SignerIsReady = 0
    /\ SignerIsReady' = 1
    /\ UnsealReturn(c, TRUE)
    /\ UNCHANGED <<configVars, restarts, main, Signer, Ed25519Signer, caCertDer,
                   KeymasterPublicKeys, ClientCAPool, password>>

unsealCA(c) ==
    \/ Lock(c) \/ Decrypt(c) \/ LoadEd25519(c) \/ LoadSigner(c)
    \/ signerPublicKeyToKeymasterKeys(c) \/ SendReady(c)

-----------------------------------------------------------------------------
(* The callers of unsealCA *)

AdminUp == main \in {"waiting", "starting", "serving"}

(* secretInjectorHandler, called with the password of an operator *)
secretInjectorHandler(o) ==
    /\ AdminUp
    /\ pc[o] = "idle"
    /\ \E p \in Secrets : password' = [password EXCEPT ![o] = p]
    /\ Move(o, "lock")
    /\ UNCHANGED <<configVars, restarts, main, mutex, signerVars, ClientCAPool>>

(* keymaster-unlocker asks readyzHandler, and injects its password if the   *)
(* daemon is not ready.  If the daemon cannot be reached it sleeps.         *)
unseal ==
    /\ pc[Unlocker] = "idle"
    /\ IF AdminUp /\ ~Signer
       THEN /\ Move(Unlocker, "lock")
            /\ password' = [password EXCEPT ![Unlocker] = unlockerPassword]
       ELSE Move(Unlocker, "sleep") /\ UNCHANGED password
    /\ UNCHANGED <<configVars, restarts, main, mutex, signerVars, ClientCAPool>>

(* The loop looks, with the mutex, whether somebody has been faster. *)
isUnsealed ==
    /\ pc[Aws] = "check"
    /\ mutex = Nobody
    /\ IF Signer
       THEN Move(Aws, "end") /\ UNCHANGED password
       ELSE \/ Move(Aws, "sleep") /\ UNCHANGED password
            \/ \E p \in Secrets :
                  password' = [password EXCEPT ![Aws] = p] /\ Move(Aws, "lock")
    /\ UNCHANGED <<configVars, restarts, main, mutex, signerVars, ClientCAPool>>

(* isUnsealed in a round in which AWS gives the right password. *)
tryAwsUnseal ==
    isUnsealed /\ (Signer \/ (pc'[Aws] = "lock" /\ password'[Aws] = "right"))

(* Both loops start their next round. *)
Wake(c) ==
    /\ pc[c] = "sleep"
    /\ Move(c, IF c = Aws THEN "check" ELSE "idle")
    /\ UNCHANGED <<configVars, restarts, main, mutex, signerVars, ClientCAPool, password>>

-----------------------------------------------------------------------------
(* The main goroutine *)

(* loadVerifyConfigFile, up to tryLoadAndVerifySigners: the key files, the  *)
(* client CA and the public keys of other daemons are read, or the daemon   *)
(* exits.                                                                   *)
loadVerifyConfigFile ==
    /\ main = "loading"
    /\ \/ /\ main' = "signers"
          /\ KeymasterPublicKeys' = {"fromFile"}
          /\ UNCHANGED <<configVars, mutex, Signer, Ed25519Signer, caCertDer,
                         SignerIsReady, ClientCAPool, pc, password>>
       \/ Stop("exited")
    /\ UNCHANGED restarts

(* tryLoadAndVerifySigners.  Files of which only one is armored stop the    *)
(* daemon from starting, and are no case of Files.                          *)
tryLoadAndVerifySigners ==
    /\ main = "signers"
    /\ IF files.ca = "armored"
       THEN /\ Move(Aws, IF auto = "configured" THEN "check" ELSE "end")
            /\ main' = "setup"
            /\ UNCHANGED signerVars
       ELSE IF files.ed = "notEd25519" \/ files.caKey = "bad"
       THEN /\ main' = "exited"
            /\ Ed25519Signer' = (files.ed # "notEd25519" /\ files.ed # "none")
            /\ UNCHANGED <<Signer, caCertDer, KeymasterPublicKeys, SignerIsReady, pc>>
       ELSE /\ Signer' = TRUE /\ caCertDer' = TRUE
            /\ Ed25519Signer' = (files.ed # "none")
            /\ KeymasterPublicKeys' = KeymasterPublicKeys \cup {"signer"}
            /\ SignerIsReady' = 1
            /\ main' = "setup"
            /\ UNCHANGED pc
    /\ UNCHANGED <<configVars, restarts, mutex, ClientCAPool, password>>

(* The rest of loadVerifyConfigFile: while it connects to the services that *)
(* are configured, the AWS loop may already be unsealing.  Any of them can  *)
(* fail, and the daemon exits.  Then the administration port is opened.     *)
FinishSetup ==
    /\ main = "setup"
    /\ \/ /\ main' = "waiting"
          /\ UNCHANGED <<configVars, mutex, signerVars, ClientCAPool, pc, password>>
       \/ Stop("exited")
    /\ UNCHANGED restarts

(* Mutant: main goes by Signer, as readyzHandler does. *)
ReceiveSigner ==
    /\ main = "waiting"
    /\ Signer
    /\ main' = "starting"
    /\ UNCHANGED <<configVars, restarts, mutex, signerVars, ClientCAPool, pc, password>>

ReceiveReady ==
    /\ main = "waiting"
    /\ SignerIsReady = 1
    /\ SignerIsReady' = 0
    /\ main' = "starting"
    /\ UNCHANGED <<configVars, restarts, mutex, Signer, Ed25519Signer, caCertDer,
                   KeymasterPublicKeys, ClientCAPool, pc, password>>

(* main panics if there is no CA certificate to trust. *)
Serve ==
    /\ main = "starting"
    /\ ClientCAPool' = caCertDer
    /\ main' = IF caCertDer THEN "serving" ELSE "exited"
    /\ UNCHANGED <<configVars, restarts, mutex, signerVars, pc, password>>

Daemon == loadVerifyConfigFile \/ tryLoadAndVerifySigners \/ FinishSetup \/ ReceiveReady \/ Serve

UnsealNext ==
    \/ Daemon
    \/ \E c \in Callers : unsealCA(c)
    \/ \E o \in Operators : secretInjectorHandler(o)
    \/ unseal
    \/ isUnsealed
    \/ \E c \in {Aws, Unlocker} : Wake(c)
    \/ Restart

(* The goroutines run, keymaster-unlocker tries again for ever, and AWS is  *)
(* not out of order for ever.  Operators need not do anything.              *)
Fairness ==
    /\ WF_unsealVars(Daemon)
    /\ \A c \in Callers : SF_unsealVars(Lock(c)) /\ WF_unsealVars(unsealCA(c))
    /\ WF_unsealVars(unseal) /\ WF_unsealVars(Wake(Unlocker)) /\ WF_unsealVars(Wake(Aws))
    /\ SF_unsealVars(tryAwsUnseal)

UnsealSpec == UnsealInit /\ [][UnsealNext]_unsealVars /\ Fairness

-----------------------------------------------------------------------------
(***************************************************************************)
(* The daemon serves users only with everything its handlers read without  *)
(* asking: a signer, the CA certificate and the public key that belong to  *)
(* it, the CA in the pool of trusted ones, and the Ed25519 signer if there *)
(* is a file for one (main after SignerIsReady; unsealCA sends last).      *)
(***************************************************************************)
ServingIsComplete ==
    main = "serving" =>
        /\ Signer /\ caCertDer /\ ClientCAPool
        /\ "signer" \in KeymasterPublicKeys
        /\ files.ed # "none" => Ed25519Signer

(***************************************************************************)
(* The message on SignerIsReady always finds room, so that unsealCA never  *)
(* waits with state.Mutex held, however many passwords arrive at once      *)
(* (unseal.go:150 and :176).                                               *)
(***************************************************************************)
SendNeverBlocks == \A c \in Callers : pc[c] = "send" => SignerIsReady = 0

(***************************************************************************)
(* Whenever nobody holds the mutex, the signers are all there or none is,  *)
(* except that a CA key that cannot be used leaves the Ed25519 signer set  *)
(* (config.go:287 assigns it before the CA key is looked at).              *)
(***************************************************************************)
AllSignersOrNone ==
    mutex = Nobody =>
        IF Signer
        THEN /\ caCertDer /\ "signer" \in KeymasterPublicKeys
             /\ files.ed # "none" => Ed25519Signer
        ELSE Ed25519Signer => files.caKey = "bad"

(***************************************************************************)
(* The AWS loop gives up only when the daemon is unsealed: an error, or an *)
(* operator who is faster, does not end it early (autoUnsealAwsLoop).      *)
(***************************************************************************)
LoopEndsUnsealed ==
    pc[Aws] = "end" /\ auto = "configured" => Signer

(***************************************************************************)
(* No wake-up is lost: as long as main has not received the message, a     *)
(* daemon that has its signer, and whose mutex is free, has the message in *)
(* SignerIsReady, although the AWS loop may have sent it long before main  *)
(* waits for it, and although nobody who comes later sends another         *)
(* (unseal.go:150 refuses them).                                           *)
(***************************************************************************)
SignerIsAnnounced ==
    Signer /\ mutex = Nobody /\ main \in {"setup", "waiting"} => SignerIsReady = 1

(***************************************************************************)
(* With usable key files, and a right password in keymaster-unlocker or in *)
(* AWS, the daemon ends up serving users after its last restart, whatever  *)
(* wrong passwords are injected meanwhile, unless its setup fails          *)
(* (loadVerifyConfigFile) and nobody starts it again.                      *)
(***************************************************************************)
EventuallyServing ==
    /\ files.caKey = "good" /\ files.ed \in {"none", "good"}
    /\ files.ca = "pem" \/ auto = "configured" \/ unlockerPassword = "right"
    => <>[](main = "serving") \/ <>[](main = "exited")
=============================================================================
