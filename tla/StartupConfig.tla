---------------------------- MODULE StartupConfig ----------------------------
(***************************************************************************)
(* How the start-up configuration is resolved (internal/config/config.go): *)
(* the file's keys and the environment's variables against the defaults,   *)
(* the role that decides which blocks are read, the overrides that go the  *)
(* other way, and the checks that refuse a configuration.                  *)
(*                                                                         *)
(* A file and an environment are functions from the keys that are present  *)
(* to string values. A switch is "on" or "off", a number is one of "neg",  *)
(* "zero", "pos" and "big", an address is "port" or "noport".              *)
(***************************************************************************)
EXTENDS Naturals, Sequences

Absent == ""

\* The value of a key that may be missing: strings.TrimSpace of nothing.
At(m, k) == IF k \in DOMAIN m THEN m[k] ELSE Absent

Roles == {"tee", "fhe", "data-anaylsis"}

\* contractTypeServerTypes
ContractTypeServerTypes == [t \in {"1", "2", "3", "4"} |->
    CASE t = "3" -> "data-anaylsis" [] t = "4" -> "fhe" [] OTHER -> "tee"]

\* roleCapabilitySets: an unknown role has no capability.
Audits(role) == role = "tee"

(***************************************************************************)
(* The keys that give a setting its value, the later ones winning.         *)
(***************************************************************************)
PlainPaths == [
    addr             |-> <<"addr", "server.addr">>,
    platformIP       |-> <<"platformIP", "platform.endpoint", "platform.ip">>,
    dockerID         |-> <<"dockerID", "platform.dockerID">>,
    contract         |-> <<"contract", "platform.contract">>,
    modelDir         |-> <<"modelDir", "model.dir", "storage.modelDir", "storage.model">>,
    dataDir          |-> <<"dataDir", "storage.dataDir", "storage.data">>,
    resultDir        |-> <<"resultDir", "storage.resultDir", "storage.result">>,
    keysDir          |-> <<"keysDir", "storage.keysDir", "storage.keys">>,
    modelInputDir    |-> <<"modelInputDir", "model.input">>,
    modelOutputDir   |-> <<"modelOutputDir", "model.output.result">>,
    modelLogDir      |-> <<"modelLogDir", "model.output.log">>,
    modelProgressDir |-> <<"modelProgressDir", "model.output.progress">>]

AuditPaths == [
    codeAudit        |-> <<"securityScan", "codeAudit.scan", "codeAudit.enabled">>,
    engine           |-> <<"codeAudit.codeScan.engine">>,
    rulesPath        |-> <<"codeAudit.codeScan.rulesPath">>,
    scanTimeout      |-> <<"codeAudit.codeScan.timeoutSeconds">>,
    binaryAudit      |-> <<"codeAudit.binaryAudit.enabled">>,
    archiveMembers   |-> <<"codeAudit.binaryAudit.maxArchiveMembers">>,
    entropy          |-> <<"codeAudit.binaryAudit.highEntropyThreshold">>,
    findings         |-> <<"codeAudit.binaryAudit.maxFindings">>,
    fullScanBytes    |-> <<"codeAudit.binaryAudit.maxFullScanBytes">>,
    streamBytes      |-> <<"codeAudit.binaryAudit.maxStreamBytes">>,
    resultCheck      |-> <<"resultCheck", "codeAudit.resultCheck.enabled">>]

LLMPaths == [
    llm              |-> <<"codeAudit.llm.enabled">>,
    attested         |-> <<"codeAudit.llm.attestation.enabled">>,
    llmEndpoint      |-> <<"codeAudit.llm.endpoint">>,
    llmTimeout       |-> <<"codeAudit.llm.requestTimeoutMs">>,
    breaker          |-> <<"codeAudit.llm.circuitBreakerThreshold">>,
    cooldown         |-> <<"codeAudit.llm.cooldownSec">>,
    temperature      |-> <<"codeAudit.llm.temperature">>,
    failClosed       |-> <<"codeAudit.llm.failClosed">>]

\* The values of a key that count as not set: a zero scan timeout, and anything
\* that is not positive for the numbers of the llm block.
UnsetValues(path) ==
    IF path = "codeAudit.codeScan.timeoutSeconds" THEN {Absent, "zero"}
    ELSE IF path \in {"codeAudit.llm.requestTimeoutMs", "codeAudit.llm.circuitBreakerThreshold",
                      "codeAudit.llm.cooldownSec"}
         THEN {Absent, "zero", "neg"}
         ELSE {Absent}

\* The value the file gives a setting, or the fallback when none of its keys is set.
LastSet(file, paths, fallback) ==
    LET set == {i \in DOMAIN paths : At(file, paths[i]) \notin UnsetValues(paths[i])}
    IN IF set = {} THEN fallback
       ELSE file[paths[CHOOSE i \in set : \A j \in set : j <= i]]

(***************************************************************************)
(* The defaults (defaultStartupConfig). Identity comes from the            *)
(* environment and the file fills over it; the platform's public key is    *)
(* the other way round.                                                    *)
(***************************************************************************)
DefaultStartupConfig(env) == [
    addr |-> "port", platformIP |-> At(env, "PLATFORM_IP"), dockerID |-> At(env, "DOCKER_ID"),
    contract |-> At(env, "CONTRACT_ID"), modelDir |-> "default", dataDir |-> "default",
    resultDir |-> "default", keysDir |-> "default", modelInputDir |-> "default",
    modelOutputDir |-> "default", modelLogDir |-> "default", modelProgressDir |-> "default",
    codeAudit |-> "on", engine |-> "semgrep", rulesPath |-> Absent, scanTimeout |-> "zero",
    binaryAudit |-> "on", archiveMembers |-> "zero", entropy |-> "zero", findings |-> "zero",
    fullScanBytes |-> "zero", streamBytes |-> "zero", resultCheck |-> "on",
    llm |-> "on", attested |-> "on", llmEndpoint |-> "loopback", llmTimeout |-> "zero",
    breaker |-> "pos", cooldown |-> "pos", temperature |-> Absent, failClosed |-> "on"]

\* Mutant: the file's role wins.
MutServerType(file, env) ==
    IF At(file, "server.type") # Absent THEN file["server.type"]
    ELSE IF At(env, "CONTRACT_TYPE") \in DOMAIN ContractTypeServerTypes
         THEN ContractTypeServerTypes[env["CONTRACT_TYPE"]]
         ELSE "tee"

\* applyServerType: CONTRACT_TYPE > server.type > tee.
ServerType(file, env) ==
    LET asked == At(env, "CONTRACT_TYPE") IN
    IF asked # Absent
    THEN (IF asked \in DOMAIN ContractTypeServerTypes THEN ContractTypeServerTypes[asked] ELSE "refused")
    ELSE IF At(file, "server.type") # Absent THEN file["server.type"] ELSE "tee"

\* What the role's capabilities force, whatever the shared template says.
NonAuditing == [codeAudit |-> "off", binaryAudit |-> "off", resultCheck |-> "off",
                engine |-> "regex", llm |-> "off"]

LLMBlock(file) == At(file, "codeAudit.llm") # Absent

\* applyStartupConfigFile, one setting at a time.
Setting(s, role, file, env) ==
    LET fallback == DefaultStartupConfig(env)[s] IN
    IF ~Audits(role) /\ s \in DOMAIN NonAuditing THEN NonAuditing[s]
    ELSE IF s \in DOMAIN PlainPaths THEN LastSet(file, PlainPaths[s], fallback)
    ELSE IF ~Audits(role) THEN fallback
    ELSE IF s \in DOMAIN AuditPaths THEN LastSet(file, AuditPaths[s], fallback)
    ELSE IF LLMBlock(file) THEN LastSet(file, LLMPaths[s], fallback)
    ELSE IF s = "llm" THEN "off" ELSE fallback

PlatformPublicKey(file, env) ==
    IF At(env, "PLATFORM_PUBLIC_KEY") # Absent THEN env["PLATFORM_PUBLIC_KEY"]
    ELSE At(file, "platform.publicKey")

\* applyFHEDefaults: a zero interval is filled in, a required field is not.
FheFilled(file, path) == IF At(file, path) \in {Absent, "zero"} THEN "pos" ELSE file[path]

FheSection(role, file) ==
    IF role # "fhe" \/ At(file, "fhe") = Absent THEN [present |-> FALSE]
    ELSE [present |-> TRUE, endpoint |-> At(file, "fhe.endpoint"), dataDir |-> At(file, "fhe.dataDir"),
          keyCacheDir |-> At(file, "fhe.keyCacheDir"),
          pollIntervalMs |-> FheFilled(file, "fhe.pollIntervalMs"),
          requestTimeoutMs |-> FheFilled(file, "fhe.requestTimeoutMs")]

\* applyLLMEndpointOverride: the environment wins, LLM_IP before the older name.
LLMEndpointOverride(env, endpoint) ==
    IF At(env, "LLM_IP") # Absent THEN env["LLM_IP"]
    ELSE IF At(env, "TAA_LLM_ENDPOINT") # Absent THEN env["TAA_LLM_ENDPOINT"]
    ELSE endpoint

\* applyFHEIdentityOverride: on an fhe instance the environment wins.
FheIdentityOverride(role, env, variable, value) ==
    IF role = "fhe" /\ At(env, variable) # Absent THEN env[variable] ELSE value

Resolved(role, file, env) ==
    LET c == [s \in DOMAIN DefaultStartupConfig(env) |-> Setting(s, role, file, env)] IN
    [s \in DOMAIN c \union {"role", "publicKey", "fhe"} |->
        CASE s = "role"        -> role
          [] s = "publicKey"   -> PlatformPublicKey(file, env)
          [] s = "fhe"         -> FheSection(role, file)
          [] s = "llmEndpoint" -> LLMEndpointOverride(env, c.llmEndpoint)
          [] s = "platformIP"  -> FheIdentityOverride(role, env, "PLATFORM_IP", c.platformIP)
          [] s = "dockerID"    -> FheIdentityOverride(role, env, "DOCKER_ID", c.dockerID)
          [] OTHER             -> c[s]]

(***************************************************************************)
(* What is refused.                                                        *)
(***************************************************************************)
\* rejectRemovedKeys: an explicit null carries nothing and passes.
RemovedKeys == {"security", "llm", "maxFileBytes", "maxResultBytes", "codeAudit.maxFileBytes",
    "codeAudit.resultCheck.maxFileBytes", "codeAudit.codeScanEngine", "codeAudit.semgrepRulesPath",
    "codeAudit.semgrepTimeoutSeconds", "fhe.callbackBaseUrl", "fhe.callbackToken",
    "fhe.maxEvalKeyBytes", "codeAudit.llm.transport", "codeAudit.llm.policy",
    "codeAudit.llm.attestationEnabled", "codeAudit.llm.attestationMode",
    "codeAudit.llm.expectedMeasurements"}

HasRemovedKey(file) == \E k \in RemovedKeys : At(file, k) \notin {Absent, "null"}

\* The codeScan key is a block now: a boolean there does not parse.
Parses(file) == At(file, "codeAudit.codeScan") # "bool"

ValidFHEConfig(c) ==
    c.role = "fhe" =>
        /\ c.fhe.present
        /\ c.fhe.endpoint = "url"
        /\ c.fhe.dataDir # Absent /\ c.fhe.keyCacheDir # Absent
        /\ c.fhe.pollIntervalMs = "pos" /\ c.fhe.requestTimeoutMs = "pos"

ValidStartupConfig(c) ==
    /\ c.role \in Roles
    /\ ValidFHEConfig(c)
    /\ c.engine \in {"regex", "semgrep"}
    /\ c.scanTimeout # "neg"
    /\ c.temperature \notin {"neg", "big"}
    /\ \A s \in {"archiveMembers", "findings", "fullScanBytes", "streamBytes"} : c[s] # "neg"
    /\ c.entropy \notin {"neg", "big"}

Rejected == [role |-> "rejected"]

LoadStartupConfig(file, env) ==
    LET role == ServerType(file, env)
        c == Resolved(role, file, env)
    IN IF Parses(file) /\ ~HasRemovedKey(file) /\ role # "refused" /\ ValidStartupConfig(c)
       THEN c ELSE Rejected

=============================================================================
