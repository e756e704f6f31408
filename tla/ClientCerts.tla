----------------------------- MODULE ClientCerts -----------------------------
(***************************************************************************)
(* What the command-line client does with its keys and certificates        *)
(* (setupCerts in cmd/keymaster/main.go, lib/client/sshagent).  Every time *)
(* it is run it makes new keys, asks for certificates of them, puts those  *)
(* for SSH into the agent or, failing that, into files, and writes those   *)
(* for TLS into files, one file after the other.  A write may fail, and    *)
(* the client may be stopped between any two steps; the next run finds the *)
(* files as they were left.  Keys and certificates are told apart by the   *)
(* run they are from; 0 is no file, -1 one that was cut short.             *)
(***************************************************************************)
EXTENDS Integers

CONSTANT MaxRuns        \* bound: how often the client is run

ASSUME FilesAssumption == MaxRuns \in Nat

VARIABLES
    run, pc,    \* the run, and the next step of it
    granted,    \* the optional certificates that the server gave this run
    files,      \* file -> run
    agent,      \* kind of key -> runs whose certificates the agent has
    cutShort    \* history: was a run stopped while it wrote the files for ed25519?

fileVars == <<run, pc, granted, files, agent, cutShort>>

SSHKinds == {"rsa", "ed25519"}
Files == {"rsa", "rsa.pub", "ed25519", "ed25519.pub", "key", "cert", "kubernetes.cert"}
Optional == {"ed25519", "kubernetes"}
Over == {"success", "failed"}
EdFiles == {"ed25519Key", "ed25519Cert"}

(* The variables have their types. *)
FilesTypeOK ==
    /\ run \in 0 .. MaxRuns
    /\ granted \subseteq Optional
    /\ files \in [Files -> -1 .. MaxRuns]
    /\ agent \in [SSHKinds -> SUBSET (1 .. MaxRuns)]

FilesInit ==
    /\ run = 0 /\ pc = "failed"
    /\ granted = {} /\ cutShort = FALSE
    /\ files = [f \in Files |-> 0]
    /\ agent = [k \in SSHKinds |-> {}]

(* makeSigners, and the requests for certificates (doCertRequest): those    *)
(* for x509 and ssh-rsa are needed, the others are not.                     *)
RequestCerts ==
    /\ pc \in Over /\ run < MaxRuns
    /\ run' = run + 1
    /\ \E g \in SUBSET Optional : granted' = g
    /\ pc' \in {"rsa", "failed"}
    /\ UNCHANGED <<files, agent, cutShort>>

FileOf == [rsaKey |-> "rsa", rsaCert |-> "rsa.pub", ed25519Key |-> "ed25519",
           ed25519Cert |-> "ed25519.pub", tlsKey |-> "key", tlsCert |-> "cert",
           kubernetes |-> "kubernetes.cert"]

(* The steps after one has been done; what was not granted is left out. *)
After(p) ==
    CASE p = "rsaKey" -> "rsaCert"
      [] p \in {"rsa", "rsaCert"} -> IF "ed25519" \in granted THEN "ed25519" ELSE "tlsKey"
      [] p = "ed25519Key" -> "ed25519Cert"
      [] p \in {"ed25519", "ed25519Cert"} -> "tlsKey"
      [] p = "tlsKey" -> "tlsCert"
      [] p = "tlsCert" -> IF "kubernetes" \in granted THEN "kubernetes" ELSE "success"
      [] p = "kubernetes" -> "success"

(* deleteDuplicateEntries, then Add: either may fail, and what was deleted  *)
(* is not put back; the answer of the agent may get lost.                   *)
UpsertCertIntoAgent(k) ==
    {[ok |-> TRUE, has |-> {run}]}
        \cup {[ok |-> FALSE, has |-> h] : h \in SUBSET (agent[k] \cup {run})}

KeyStep(k) == IF k = "rsa" THEN "rsaKey" ELSE "ed25519Key"
CertStep(k) == IF k = "rsa" THEN "rsaCert" ELSE "ed25519Cert"

(* Mutant: where the agent cannot be used only the certificate is written. *)
InsertSSHCertOnly(k) ==
    /\ pc = k
    /\ \E r \in UpsertCertIntoAgent(k) :
          /\ agent' = [agent EXCEPT ![k] = r.has]
          /\ pc' = IF r.ok THEN After(k) ELSE CertStep(k)
    /\ UNCHANGED <<run, granted, files, cutShort>>

(* insertSSHCertIntoAgentORWriteToFilesystem: both tries with the agent     *)
(* fail, or one of them does it.                                            *)
InsertSSHCert(k) ==
    /\ pc = k
    /\ \E r \in UpsertCertIntoAgent(k) :
          /\ agent' = [agent EXCEPT ![k] = r.has]
          /\ pc' = IF r.ok THEN After(k) ELSE KeyStep(k)
    /\ UNCHANGED <<run, granted, files, cutShort>>

(* WriteFile.  An error ends the run. *)
WriteFile(p) ==
    /\ pc = p
    /\ \/ /\ files' = [files EXCEPT ![FileOf[p]] = run]
          /\ pc' = After(p)
          /\ UNCHANGED cutShort
       \/ /\ files' \in {files, [files EXCEPT ![FileOf[p]] = -1]}
          /\ pc' = "failed"
          /\ cutShort' = (cutShort \/ p \in EdFiles)
    /\ UNCHANGED <<run, granted, agent>>

(* The client is stopped. *)
Stop ==
    /\ pc \notin Over
    /\ pc' = "failed"
    /\ cutShort' = (cutShort \/ pc \in EdFiles)
    /\ UNCHANGED <<run, granted, files, agent>>

FilesNext ==
    \/ RequestCerts \/ Stop
    \/ \E k \in SSHKinds : InsertSSHCert(k)
    \/ \E p \in DOMAIN FileOf : WriteFile(p)

FilesSpec == FilesInit /\ [][FilesNext]_fileVars

-----------------------------------------------------------------------------
(* The key and the certificate of this run are in the agent or in files. *)
Usable(k) ==
    agent[k] = {run} \/ (files[k] = run /\ files[FileOf[CertStep(k)]] = run)

(***************************************************************************)
(* When the client reports success (setupCerts) the key and the            *)
(* certificate for TLS belong together, and so do those for SSH that were  *)
(* granted, in the agent or in files, whatever earlier runs have left.     *)
(* Files for ed25519 that do not belong together are from a run that was   *)
(* stopped between them.  A certificate for kubernetes belongs to the key  *)
(* too, unless the server refused one this time: the old one then stays    *)
(* beside the new key.                                                     *)
(***************************************************************************)
SuccessLeavesPairs ==
    pc = "success" =>
        /\ files["key"] = run /\ files["cert"] = run
        /\ Usable("rsa")
        /\ "ed25519" \in granted => Usable("ed25519")
        /\ files["ed25519"] = files["ed25519.pub"] \/ cutShort
        /\ files["kubernetes.cert"] = run \/ "kubernetes" \notin granted
=============================================================================
