----------------------------- MODULE MCStartup -----------------------------
(***************************************************************************)
(* The start-up model over one deployment that is moved between hosts,     *)
(* restarted and damaged, and over many that are started once: every role  *)
(* by either source, the audit switches, each refused value, each missing  *)
(* key.                                                                    *)
(***************************************************************************)
EXTENDS Startup

Env0 == [v \in {"PLATFORM_IP", "DOCKER_ID", "CONTRACT_TYPE", "PLATFORM_PUBLIC_KEY"} |->
            CASE v = "PLATFORM_IP" -> "envIP" [] v = "DOCKER_ID" -> "d" [] v = "CONTRACT_TYPE" -> Absent
              [] v = "PLATFORM_PUBLIC_KEY" -> "good"]

Fhe0 == [k \in {"fhe", "fhe.endpoint", "fhe.dataDir", "fhe.keyCacheDir"} |->
            IF k = "fhe.endpoint" THEN "url" ELSE "set"]

With(m, k, v) == [x \in DOMAIN m \union {k} |-> IF x = k THEN v ELSE m[x]]
\* A key with no value is left out of the file.
Maybe(m, k, v) == IF v = Absent THEN m ELSE With(m, k, v)

Plain == With(Fhe0, "codeAudit.codeScan.rulesPath", "rules")

Deploy(file, env, rules, allowEmpty) ==
    [file |-> file, env |-> env, rules |-> rules, allowEmpty |-> allowEmpty]

Main == {Deploy(Plain, Env0, TRUE, FALSE)}

\* The same one behind another platform, moved in and out of a guest, unharmed.
Shuttle == {Deploy(Plain, Env0, FALSE, TRUE)}

\* The role by CONTRACT_TYPE and by server.type, the addresses that go with it.
ByRole ==
    {Deploy(Maybe(Maybe(With(Plain, "server.addr", addr), "server.type", type), "platform.ip", ip),
            With(Env0, "CONTRACT_TYPE", ct), TRUE, TRUE) :
        ct \in {Absent, "1", "3", "4", "9"}, type \in {Absent, "tee", "fhe", "gpu"},
        addr \in {"port", "noport"}, ip \in {Absent, "fileIP"}}

\* The audit switches, the engine and its rules, the llm block.
ByAudit ==
    {Deploy(Maybe(Maybe(Maybe(Maybe(Plain, "codeAudit.enabled", enabled), "securityScan", scan),
                        "codeAudit.codeScan.engine", engine), "codeAudit.llm", llm),
            Env0, rules, TRUE) :
        enabled \in {Absent, "on", "off"}, scan \in {Absent, "off"}, llm \in {Absent, "block"},
        engine \in {Absent, "regex", "bogus"}, rules \in BOOLEAN}

\* One thing wrong, or odd, at a time.
Odd == {<<"codeAudit.codeScan", "bool">>, <<"security", "null">>, <<"llm", "block">>,
        <<"codeAudit.codeScan.timeoutSeconds", "neg">>, <<"codeAudit.codeScan.timeoutSeconds", "zero">>,
        <<"codeAudit.binaryAudit.maxFindings", "neg">>, <<"codeAudit.binaryAudit.highEntropyThreshold", "big">>,
        <<"fhe.endpoint", "bare">>, <<"fhe.dataDir", Absent>>, <<"fhe.pollIntervalMs", "neg">>,
        <<"fhe.pollIntervalMs", "zero">>, <<"codeAudit.scan", "off">>, <<"platform.endpoint", "fileIP">>}
ByFlaw ==
    {Deploy(With(Plain, o[1], o[2]), With(Env0, "CONTRACT_TYPE", ct), TRUE, TRUE) : o \in Odd, ct \in {"1", "4"}}
    \union {Deploy(Maybe(Plain, "platform.publicKey", f), With(Env0, "PLATFORM_PUBLIC_KEY", e), TRUE, ok) :
               f \in {Absent, "good"}, e \in {Absent, "good", "bad"}, ok \in BOOLEAN}
    \union {Deploy(Plain, With(Env0, v, Absent), TRUE, TRUE) : v \in {"PLATFORM_IP", "DOCKER_ID"}}

\* The platform's address under each of its keys.
ByAddress ==
    {Deploy(Maybe(Maybe(Maybe(Plain, "platform.ip", new), "platform.endpoint", mid), "platformIP", old),
            With(With(Env0, "CONTRACT_TYPE", ct), "PLATFORM_IP", e), TRUE, TRUE) :
        new \in {Absent, "newIP"}, mid \in {Absent, "midIP"}, old \in {Absent, "oldIP"},
        e \in {Absent, "envIP"}, ct \in {"1", "4"}}

MCDeployments == Main \union Shuttle \union ByRole \union ByAudit \union ByAddress \union ByFlaw

Host(device, hw, contract) == [device |-> device, hw |-> hw, contract |-> contract]
MCHostsOf(d) == IF d \in Main THEN {Host("none", "h1", "c1"), Host("ok", "h1", "c1"),
                                    Host("ok", "h2", "c1"), Host("ok", "h1", "c2")}
                ELSE IF d \in Shuttle THEN {Host("none", "h1", "c1"), Host("ok", "h1", "c1")}
                ELSE IF d \in ByAudit THEN {Host("none", "h1", "c1"), Host("broken", "h1", "c1")}
                ELSE {Host("ok", "h1", "c1")}
MCMaxBoots(d) == IF d \in Main THEN 2 ELSE IF d \in Shuttle THEN 3 ELSE 1
MCMaxFaults(d) == IF d \in Main THEN 1 ELSE 0

=============================================================================
