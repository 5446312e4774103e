------------------------------- MODULE Startup -------------------------------
(***************************************************************************)
(* The start of a TAA instance (internal/app/taa): key pair, sealing key,  *)
(* sealed state, attestation report and registration, over a directory     *)
(* that survives, a host that changes between two starts, and a process    *)
(* that may die between any two writes.                                    *)
(*                                                                         *)
(* A failed write or syscall ends the process with the disk as it is, which*)
(* is what Stop does at that point. The supervisor waits ten seconds before*)
(* a restart, so the unix second in an archive's name differs between two  *)
(* starts: now advances at each one.                                       *)
(***************************************************************************)
EXTENDS StartupConfig, Integers, FiniteSets, TLC

CONSTANTS Deployments,      \* [file, env, rules, allowEmpty]: template, environment, rules file, platform policy
          HostsOf(_),       \* the hosts a deployment may be started on: [device, hw, contract]
          MaxBoots(_),      \* how often a deployment is started
          MaxFaults(_),     \* how many faults its directory meets
          MaxKeys, MaxSeals

\* Generation never runs out: the first directory may hold two keys, and a start makes
\* at most one.
ASSUME StartupAssumption ==
    /\ MaxKeys \in Nat
    /\ \A d \in Deployments : MaxBoots(d) \in Nat /\ MaxBoots(d) + 2 <= MaxKeys

VARIABLES pc,           \* where the process is; "down" when there is none
          p,            \* its memory
          deployment, host, secretEnv,
          disk,         \* [priv, pub]: the two key files
          bak,          \* archived private keys, by stamp
          sealed,       \* state.sealed
          orphans,      \* archived states, by stamp
          report,       \* the attestation report file
          platform,     \* what the platform holds of this instance
          reported,     \* every taaSecretKey the platform was ever given
          now, nextKey, seals, faults,
          held,         \* private keys written to the directory and not lost to a fault
          kept          \* states sealed and neither superseded nor lost to a fault
world == <<deployment, host, secretEnv>>
vars == <<pc, p, deployment, host, secretEnv, disk, bak, sealed, orphans, report, platform, reported,
          now, nextKey, seals, faults, held, kept>>

None == 0
Bad == -1                       \* a file that does not parse
Keys == 1..MaxKeys              \* what parses as a key
Garbage == [hw |-> "none", contract |-> "none", key |-> Bad]
NoSecret == [hw |-> "none", contract |-> "none", key |-> None]
NoState == [header |-> "absent", key |-> "none", content |-> 0]
NoRecord == [pub |-> None, secret |-> NoSecret, verified |-> FALSE, userData |-> None]
Clean == 0                      \* the content of NewCleanPersistentState

Idle == [cfg |-> Rejected, key |-> None, loaded |-> FALSE, recovered |-> FALSE, source |-> "none",
         seal |-> "none", secret |-> NoSecret, verified |-> FALSE, retrying |-> FALSE,
         registered |-> FALSE, engine |-> "none"]

FreshDir ==
    /\ disk = [priv |-> None, pub |-> None] /\ sealed = NoState /\ nextKey = 1
    /\ held = {} /\ kept = {} /\ seals = 0 /\ reported = {}

\* A directory written by a release without the header.
LegacyDir ==
    /\ disk = [priv |-> 1, pub |-> 1] /\ nextKey = 2 /\ held = {1} /\ kept = {1} /\ seals = 1
    /\ sealed = [header |-> "none", key |-> ToString(1), content |-> 1] /\ reported = {}

\* An instance whose directory was lost after it had reported its key, and which
\* runs under a new one since.
ReplacedDir ==
    /\ disk = [priv |-> 2, pub |-> 2] /\ nextKey = 3 /\ held = {2} /\ kept = {} /\ seals = 0
    /\ sealed = NoState /\ reported = {[hw |-> host.hw, contract |-> host.contract, key |-> 1]}

Init == /\ pc = "down" /\ p = Idle
        /\ deployment \in Deployments /\ host \in HostsOf(deployment)
        /\ FreshDir \/ LegacyDir \/ ReplacedDir
        /\ secretEnv \in reported \union {NoSecret}
        /\ bak = {} /\ orphans = {} /\ report = None /\ platform = NoRecord
        /\ now = 0 /\ faults = 0

Exit == pc' = "down" /\ p' = Idle

(***************************************************************************)
(* Configuration and the hardware key.                                     *)
(***************************************************************************)
Env == [v \in DOMAIN deployment.env \union {"CONTRACT_ID"} |->
            IF v = "CONTRACT_ID" THEN host.contract ELSE deployment.env[v]]

\* Run: the supervisor starts the process, which loads its configuration.
Boot == /\ pc = "down" /\ now < MaxBoots(deployment)
        /\ now' = now + 1
        /\ LET cfg == LoadStartupConfig(deployment.file, Env) IN
           IF cfg = Rejected THEN UNCHANGED <<pc, p>>
           ELSE pc' = "probe" /\ p' = [Idle EXCEPT !.cfg = cfg]
        /\ UNCHANGED <<world, disk, bak, sealed, orphans, report, platform, reported, nextKey, seals,
                       faults, held, kept>>

\* The inference probe is advisory: whatever it finds, the start goes on.
Probe == /\ pc = "probe" /\ pc' = "keys"
         /\ UNCHANGED <<p, world, disk, bak, sealed, orphans, report, platform, reported, now, nextKey,
                        seals, faults, held, kept>>

\* detectStateSealingKeySource: only a missing device node means "not a CSV guest".
DetectSource == IF host.device = "none" THEN "sm2" ELSE "csv-hw"

\* fetchStartupHardwareKey: fetched once, no fallback.
FetchFails == DetectSource = "csv-hw" /\ host.device # "ok"

OpenTAASecretKey(hw, contract, secret) ==
    IF secret.hw = hw /\ secret.contract = contract /\ secret.key \in Keys THEN secret.key ELSE Bad

SealTAASecretKey(hw, contract, key) == [hw |-> hw, contract |-> contract, key |-> key]

\* matchingKeyPairOnDisk
Matches(key) == disk.priv = key /\ disk.pub = key

\* resolveStartupKeyMaterial with TAASECRETKEY set: every failure is fatal, and a
\* pair that is already there is reused.
Recover ==
    /\ pc = "keys" /\ secretEnv # NoSecret
    /\ LET key == OpenTAASecretKey(host.hw, p.cfg.contract, secretEnv) IN
       IF FetchFails \/ DetectSource = "sm2" \/ key = Bad THEN Exit
       ELSE /\ p' = [p EXCEPT !.key = key, !.recovered = TRUE]
            /\ pc' = IF Matches(key) THEN "material" ELSE "archivePriv"
    /\ UNCHANGED <<world, disk, bak, sealed, orphans, report, platform, reported, now, nextKey, seals,
                   faults, held, kept>>

\* A rename onto the name the stamp gives: an archive of that name is replaced.
Stamped(archive, stamp, what) ==
    {a \in archive : a.stamp # stamp} \union {[stamp |-> stamp, what |-> what]}

KeyStamp == now

\* persistRecoveredTAAKeyPair: whatever is there is archived, the private key
\* first, and the recovered pair is written, the private key first again.
ArchivePriv ==
    /\ pc = "archivePriv" /\ pc' = "archivePub"
    /\ bak' = IF disk.priv = None THEN bak ELSE Stamped(bak, KeyStamp, disk.priv)
    /\ disk' = [disk EXCEPT !.priv = None]
    /\ UNCHANGED <<p, world, sealed, orphans, report, platform, reported, now, nextKey, seals, faults,
                   held, kept>>

ArchivePub ==
    /\ pc = "archivePub" /\ pc' = "writePriv"
    /\ disk' = [disk EXCEPT !.pub = None]
    /\ UNCHANGED <<p, world, bak, sealed, orphans, report, platform, reported, now, nextKey, seals,
                   faults, held, kept>>

(***************************************************************************)
(* loadOrGenerateTAAKeyPair.                                               *)
(***************************************************************************)
LoadPair ==
    /\ pc = "keys" /\ secretEnv = NoSecret /\ ~FetchFails
    /\ disk.pub # None
    /\ IF disk.priv \in Keys /\ disk.pub = disk.priv
       THEN pc' = "material" /\ p' = [p EXCEPT !.key = disk.priv, !.loaded = TRUE]
       ELSE Exit
    /\ UNCHANGED <<world, disk, bak, sealed, orphans, report, platform, reported, now, nextKey, seals,
                   faults, held, kept>>

SelfHeal ==
    /\ pc = "keys" /\ secretEnv = NoSecret /\ ~FetchFails
    /\ disk.pub = None /\ disk.priv # None
    /\ IF disk.priv \in Keys
       THEN /\ disk' = [disk EXCEPT !.pub = disk.priv]
            /\ pc' = "material" /\ p' = [p EXCEPT !.key = disk.priv, !.loaded = TRUE]
       ELSE Exit /\ UNCHANGED disk
    /\ UNCHANGED <<world, bak, sealed, orphans, report, platform, reported, now, nextKey, seals, faults,
                   held, kept>>

Generate ==
    /\ pc = "keys" /\ secretEnv = NoSecret /\ ~FetchFails
    /\ disk = [priv |-> None, pub |-> None] 
    /\ pc' = "writePriv" /\ p' = [p EXCEPT !.key = nextKey]
    /\ nextKey' = nextKey + 1
    /\ UNCHANGED <<world, disk, bak, sealed, orphans, report, platform, reported, now, seals, faults,
                   held, kept>>

FetchFailed ==
    /\ pc = "keys" /\ secretEnv = NoSecret /\ FetchFails
    /\ Exit
    /\ UNCHANGED <<world, disk, bak, sealed, orphans, report, platform, reported, now, nextKey, seals,
                   faults, held, kept>>

WritePriv ==
    /\ pc = "writePriv" /\ pc' = "writePub"
    /\ disk' = [disk EXCEPT !.priv = p.key]
    /\ held' = held \union {p.key}
    /\ UNCHANGED <<p, world, bak, sealed, orphans, report, platform, reported, now, nextKey, seals,
                   faults, kept>>

WritePub ==
    /\ pc = "writePub" /\ pc' = "material"
    /\ disk' = [disk EXCEPT !.pub = p.key]
    /\ UNCHANGED <<p, world, bak, sealed, orphans, report, platform, reported, now, nextKey, seals,
                   faults, held, kept>>

(***************************************************************************)
(* Sealing key, envelope key and the sealed state.                         *)
(***************************************************************************)
\* resolveStateSealingKey: the key that seals, by its source.
SealingKey(key) == IF DetectSource = "sm2" THEN ToString(key) ELSE host.hw

\* The taaSecretKey is reported by a CSV guest that did not recover its key from one.
ReportsSecret == DetectSource = "csv-hw" /\ ~p.recovered

\* The end of resolveStartupKeyMaterial, then resolveEnvelopeKeys.
Material ==
    /\ pc = "material"
    /\ IF p.cfg.publicKey = "good"
       THEN /\ pc' = "drift"
            /\ p' = [p EXCEPT !.source = DetectSource, !.seal = SealingKey(p.key),
                              !.secret = IF ReportsSecret
                                         THEN SealTAASecretKey(host.hw, p.cfg.contract, p.key)
                                         ELSE NoSecret]
       ELSE Exit
    /\ UNCHANGED <<world, disk, bak, sealed, orphans, report, platform, reported, now, nextKey, seals,
                   faults, held, kept>>

\* splitSealedStateFile: a file without a header was sealed with the SM2 key.
StoredSource == IF sealed.header = "none" THEN "sm2" ELSE sealed.header

Unseals == StoredSource = p.source /\ sealed.key = p.seal

SealAs(content) == [header |-> p.source, key |-> p.seal, content |-> content]

KeyIsNew == ~p.loaded /\ p.source = "sm2"

\* Mutant: a state that cannot be read is replaced where it is.
MutDetectKeyDrift ==
    /\ pc = "drift" /\ pc' = "attest"
    /\ sealed' = IF sealed # NoState /\ Unseals THEN sealed ELSE SealAs(Clean)
    /\ UNCHANGED <<p, orphans, world, disk, bak, report, platform, reported, now, nextKey, seals, faults,
                   held, kept>>

\* DetectAndHandleKeyDrift, up to the archive.
DetectKeyDrift ==
    /\ pc = "drift"
    /\ \/ sealed = NoState /\ pc' = "attest" /\ sealed' = SealAs(Clean) /\ UNCHANGED <<p, orphans>>
       \/ sealed # NoState /\ Unseals /\ pc' = "attest" /\ UNCHANGED <<p, sealed, orphans>>
       \/ /\ sealed # NoState /\ ~Unseals /\ (StoredSource # p.source \/ KeyIsNew)
          /\ pc' = "sealClean" /\ sealed' = NoState
          /\ orphans' = Stamped(orphans, now, sealed.content)
          /\ UNCHANGED p
       \/ /\ sealed # NoState /\ ~Unseals /\ StoredSource = p.source /\ ~KeyIsNew
          /\ Exit /\ UNCHANGED <<sealed, orphans>>
    /\ UNCHANGED <<world, disk, bak, report, platform, reported, now, nextKey, seals, faults, held, kept>>

SealClean ==
    /\ pc = "sealClean" /\ pc' = "attest"
    /\ sealed' = SealAs(Clean)
    /\ UNCHANGED <<p, world, disk, bak, orphans, report, platform, reported, now, nextKey, seals, faults,
                   held, kept>>

(***************************************************************************)
(* Attestation and registration.                                           *)
(***************************************************************************)
\* Mutant: a report that is already there is reused.
MutGenerateReport == host.device = "ok" /\ report' = IF report # None THEN report ELSE p.key

\* attestation.Generate replaces the file by a report bound to the key in use. The
\* file is known by that key, and None is the empty report.
GenerateReport == host.device = "ok" /\ report' = p.key

\* prepareAttestationReport, and the empty report of an fhe instance. Whether a report
\* passes the check depends on the certificates, which the model leaves open.
Attest ==
    /\ pc = "attest" /\ pc' = "register"
    /\ \/ report' = None /\ p' = [p EXCEPT !.verified = FALSE]
       \/ /\ p.cfg.role # "fhe" /\ GenerateReport
          /\ \E valid \in BOOLEAN : p' = [p EXCEPT !.verified = valid]
    /\ UNCHANGED <<world, disk, bak, sealed, orphans, platform, reported, now, nextKey, seals, faults,
                   held, kept>>

\* NoticeRegister refuses to send without an address and an identity; the platform
\* refuses an empty report unless it is told otherwise.
Sendable == p.cfg.platformIP # Absent /\ p.cfg.dockerID # Absent
Acceptable == Sendable /\ (report # None \/ deployment.allowEmpty)

\* The request: the report is read from the file at every attempt, the rest is the
\* start's. Values that cannot be extracted withdraw the verdict.
Payload == [pub |-> p.key, secret |-> p.secret, verified |-> p.verified /\ report # None, userData |-> report]

\* The platform's record is the last accepted request.
Accepted ==
    /\ Acceptable
    /\ platform' = Payload
    /\ reported' = IF p.secret = NoSecret THEN reported ELSE reported \union {p.secret}

Register ==
    /\ pc = "register" /\ pc' = "security"
    /\ \/ Accepted /\ p' = [p EXCEPT !.registered = TRUE]
       \/ /\ Accepted \/ UNCHANGED <<platform, reported>>       \* the answer, or the request, is lost
          /\ p' = [p EXCEPT !.retrying = TRUE]
    /\ UNCHANGED <<world, disk, bak, sealed, orphans, report, now, nextKey, seals, faults, held, kept>>

\* Mutant: the retry ends with the start.
MutRetryRegister ==
    /\ p.retrying /\ pc # "serving" /\ Accepted
    /\ p' = [p EXCEPT !.registered = TRUE, !.retrying = FALSE]
    /\ UNCHANGED <<pc, world, disk, bak, sealed, orphans, report, now, nextKey, seals, faults, held, kept>>

\* retryRegister runs beside everything that follows, without a deadline. An attempt
\* that does not reach the platform changes nothing.
RetryRegister ==
    /\ p.retrying /\ Accepted
    /\ p' = [p EXCEPT !.registered = TRUE, !.retrying = FALSE]
    /\ UNCHANGED <<pc, world, disk, bak, sealed, orphans, report, now, nextKey, seals, faults, held, kept>>

RetryAnswerLost ==
    /\ p.retrying /\ Accepted
    /\ UNCHANGED <<pc, p, world, disk, bak, sealed, orphans, report, now, nextKey, seals, faults, held, kept>>

(***************************************************************************)
(* The rest of the start, and the service.                                 *)
(***************************************************************************)
\* codeaudit.NewEngine through buildSecurityConfig: semgrep without its rules
\* degrades to the built-in engine.
ScanEngine(cfg) ==
    IF cfg.engine = "semgrep" /\ ~deployment.rules THEN "regex" ELSE cfg.engine

BuildSecurityConfig ==
    /\ pc = "security" /\ pc' = "runner"
    /\ p' = [p EXCEPT !.engine = ScanEngine(p.cfg)]
    /\ UNCHANGED <<world, disk, bak, sealed, orphans, report, platform, reported, now, nextKey, seals,
                   faults, held, kept>>

\* buildFHERunner derives the callback address from the listen address. What is
\* restored from the state is the subject of ResultIndex and ModelAudit.
BuildRunner ==
    /\ pc = "runner"
    /\ IF p.cfg.role = "fhe" /\ p.cfg.addr = "noport" THEN Exit ELSE pc' = "serving" /\ UNCHANGED p
    /\ UNCHANGED <<world, disk, bak, sealed, orphans, report, platform, reported, now, nextKey, seals,
                   faults, held, kept>>

\* SealState: what the service knows replaces what it had sealed.
SealState ==
    /\ pc = "serving" /\ seals < MaxSeals
    /\ seals' = seals + 1 /\ sealed' = SealAs(seals + 1)
    /\ kept' = (kept \ {sealed.content}) \union {seals + 1}
    /\ UNCHANGED <<pc, p, world, disk, bak, orphans, report, platform, reported, now, nextKey, faults, held>>

\* getAttestation regenerates the file the registration reads.
GetAttestation ==
    /\ pc = "serving"
    /\ GenerateReport
    /\ UNCHANGED <<pc, p, world, disk, bak, sealed, orphans, platform, reported, now, nextKey, seals,
                   faults, held, kept>>

\* A crash, a failed write or a shutdown.
Stop == /\ pc # "down" /\ Exit
        /\ UNCHANGED <<world, disk, bak, sealed, orphans, report, platform, reported, now, nextKey, seals,
                       faults, held, kept>>

(***************************************************************************)
(* What happens to the directory and the host while nothing runs.          *)
(***************************************************************************)
Move == /\ pc = "down" /\ now > 0 /\ now < MaxBoots(deployment)
        /\ host' \in HostsOf(deployment)
        /\ secretEnv' \in reported \union {NoSecret, Garbage}
        /\ UNCHANGED <<pc, p, deployment, disk, bak, sealed, orphans, report, platform, reported, now,
                       nextKey, seals, faults, held, kept>>

Fault ==
    /\ pc = "down" /\ faults < MaxFaults(deployment) /\ faults' = faults + 1
    /\ \/ disk' = [disk EXCEPT !.pub = None] /\ UNCHANGED <<sealed, bak, orphans, held, kept>>
       \/ /\ disk.priv # None /\ disk' = [disk EXCEPT !.priv = Bad]
          /\ held' = held \ {disk.priv} /\ UNCHANGED <<sealed, bak, orphans, kept>>
       \/ /\ disk' = [priv |-> None, pub |-> None]
          /\ held' = held \ {disk.priv} /\ UNCHANGED <<sealed, bak, orphans, kept>>
       \/ /\ disk' = [priv |-> None, pub |-> None] /\ sealed' = NoState
          /\ bak' = {} /\ orphans' = {} /\ held' = {} /\ kept' = {}
    /\ UNCHANGED <<pc, p, world, report, platform, reported, now, nextKey, seals>>

Step == \/ Probe \/ Recover \/ ArchivePriv \/ ArchivePub \/ LoadPair \/ SelfHeal \/ Generate \/ FetchFailed
        \/ WritePriv \/ WritePub \/ Material \/ DetectKeyDrift \/ SealClean \/ Attest \/ Register
        \/ BuildSecurityConfig \/ BuildRunner

Next == Step \/ Boot \/ RetryRegister \/ RetryAnswerLost \/ SealState \/ GetAttestation \/ Stop \/ Move \/ Fault

\* The process runs on unless it dies, and the unbounded retry meets a reachable
\* platform in the end.
Spec == Init /\ [][Next]_vars /\ WF_vars(Step) /\ WF_vars(RetryRegister)

(***************************************************************************)
(* Properties.                                                             *)
(***************************************************************************)
\* No start destroys a private key: each one written to the directory is its
\* current key file or an archive, whatever was recovered over it and wherever
\* the process died (persistRecoveredTAAKeyPair, loadOrGenerateTAAKeyPair).
KeyKept == \A k \in held : disk.priv = k \/ \E a \in bak : a.what = k

\* No start destroys a sealed state: what the service sealed last under each key
\* is still state.sealed or an orphan (DetectAndHandleKeyDrift).
StateKept == \A c \in kept : (sealed # NoState /\ sealed.content = c) \/ \E a \in orphans : a.what = c

\* No start destroys what an earlier one left: keys and sealed states survive it.
DirectoryKept == KeyKept /\ StateKept

\* What the platform holds is one instance's identity: the verified report and the
\* wrapped private key belong to the public key registered with them, and a start
\* that was given a TAASECRETKEY registers that key and no other.
OneIdentity ==
    /\ platform.verified => platform.userData = platform.pub
    /\ platform.secret # NoSecret => platform.secret.key = platform.pub
    /\ p.registered => platform.pub = p.key
    /\ p.registered /\ secretEnv # NoSecret => platform.pub = secretEnv.key

\* An instance that registered from a CSV guest can be rebuilt on that guest from
\* what the platform holds, unless it was itself started from a TAASECRETKEY.
Recoverable ==
    p.registered /\ p.source = "csv-hw" /\ ~p.recovered
        => OpenTAASecretKey(host.hw, p.cfg.contract, platform.secret) = p.key

\* The platform's record is one identity, and enough to rebuild the instance.
PlatformSound == OneIdentity /\ Recoverable

\* The first of several sources that says anything.
FirstSet(sources) ==
    LET set == {n \in DOMAIN sources : sources[n] # Absent}
    IN IF set = {} THEN Absent ELSE sources[CHOOSE n \in set : \A m \in set : n <= m]

\* The service runs what it was deployed as, each setting by the source that comes
\* first: the role by CONTRACT_TYPE, the file, tee; the code audit by the newest of its
\* keys that is set, but off in a role without one; semgrep exactly in an auditing role
\* that did not ask for regex and has a rules file; and the platform's address by the
\* environment before the file on an fhe instance and after it on any other.
ServedAsDeployed ==
    pc = "serving" =>
        LET file == deployment.file  env == deployment.env
            contract == At(env, "CONTRACT_TYPE")  ip == At(env, "PLATFORM_IP")
            new == At(file, "platform.ip")  mid == At(file, "platform.endpoint")  old == At(file, "platformIP")
            audits == p.cfg.role = "tee"
        IN
        /\ contract # Absent => contract \in DOMAIN ContractTypeServerTypes
        /\ p.cfg.role = IF contract # Absent THEN ContractTypeServerTypes[contract]
                        ELSE FirstSet(<<At(file, "server.type"), "tee">>)
        /\ p.cfg.codeAudit = IF audits
                             THEN FirstSet(<<At(file, "codeAudit.enabled"), At(file, "codeAudit.scan"),
                                             At(file, "securityScan"), "on">>)
                             ELSE "off"
        /\ p.engine = "semgrep" <=>
               audits /\ deployment.rules /\ At(file, "codeAudit.codeScan.engine") # "regex"
        /\ ~audits => p.cfg.llm = "off" /\ p.cfg.resultCheck = "off" /\ p.cfg.binaryAudit = "off"
        /\ p.cfg.role = "fhe" => p.cfg.fhe.present /\ p.cfg.addr # "noport"
        /\ p.cfg.platformIP = IF p.cfg.role = "fhe" THEN FirstSet(<<ip, new, mid, old>>)
                              ELSE FirstSet(<<new, mid, old, ip>>)

\* A start ends, in the service or not at all, and a service that the platform would
\* accept is registered in the end (retryRegister).
StartsAndRegisters ==
    (pc = "probe") ~> (pc = "down" \/ (pc = "serving" /\ (Acceptable => p.registered)))

=============================================================================
