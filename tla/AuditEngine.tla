---------------------------- MODULE AuditEngine ----------------------------
(***************************************************************************)
(* One call of GenerateAuditReport (internal/codeaudit): the source scan,  *)
(* the binary channel, their merge, the verification of every finding by   *)
(* the inference service (internal/llmclient: retries and circuit breaker) *)
(* and the report's two verdicts, Report.Passed and conclusion.passed.     *)
(*                                                                         *)
(* A package is the set of findings an unbounded scan of it would list,    *)
(* taken from Pool.  What a rule matches is not modelled; which findings   *)
(* reach the report, with which severity and verdict, is.  A list of       *)
(* findings is a function on candidates: sortFindings orders it by path,   *)
(* line and rule, which is the order of Pool.                              *)
(***************************************************************************)
EXTENDS Naturals, Sequences, FiniteSets

CONSTANTS
    Pool,         \* sequence of candidate findings in path order, each a record:
                  \*   file, arm ("source", "cpg" or "binary"), sev, rule,
                  \*   tainted (on a cross-file path), test (isTestFile),
                  \*   sources (the evidence its binary family reads)
    Executable,   \* binary files of a kind that can execute
    Replies,      \* answers of the service: records of a verdict and a risk
    MaxSource, MaxBinary, MaxVerified,   \* the three finding caps
    MaxRetries, Threshold                \* of the inference client

ASSUME EngineAssumption ==
    /\ MaxSource \in Nat /\ MaxBinary \in Nat /\ MaxVerified \in Nat
    /\ MaxRetries \in Nat /\ Threshold \in Nat \ {0}
    /\ Len(Pool) \in Nat /\ DOMAIN Pool = 1..Len(Pool)
    /\ \A i \in DOMAIN Pool :
         /\ Pool[i].arm \in {"source", "cpg", "binary"}
         /\ Pool[i].sev \in {"HIGH", "MEDIUM", "LOW"} /\ Pool[i].tainted \in BOOLEAN
    /\ Replies \subseteq [verdict : STRING, risk : STRING]

Ids == DOMAIN Pool
FileOf(i) == Pool[i].file
Arm(a) == {i \in Ids : Pool[i].arm = a}
Files == {FileOf(i) : i \in Ids}

VARIABLES
    conf,        \* engine, binary, llm ("off", "none" = no client, "on"), failClosed
    pkg,         \* what is in the package: findings, unreadable files, the files
                 \* whose bytes are binary, and the findings a resource bound hides
    pc,
    cancelled,   \* the caller's context is done
    report,      \* the scan report
    fresh,       \* what the binary channel returned, before the merge
    todo,        \* VerifyReport: the findings the loop still goes through, in order
    attempt,     \* ExecuteWithRetryContext: attempts made in this call
    unanswered,  \* hasInferenceFailure
    cb,          \* the circuit breaker
    answers,     \* history: what the service answered, per finding
    conclusion   \* the assembled report's conclusion

vars == <<conf, pkg, pc, cancelled, report, fresh, todo, attempt, unanswered, cb, answers,
          conclusion>>

Verdicts == {"MALICIOUS", "SUSPICIOUS", "BENIGN", "UNCERTAIN"}
None == [verdict |-> "", risk |-> ""]

(* A finding in a report: its severity, its mark and what the LLM said. *)
Finding(sev, tainted) ==
    [sev |-> sev, tainted |-> tainted, verdict |-> "", risk |-> ""]

NoFindings == [i \in {} |-> None]

NoSummary == [ran |-> FALSE, errored |-> FALSE, incomplete |-> 0, boundedExec |-> 0]
ErroredSummary == [ran |-> TRUE, errored |-> TRUE, incomplete |-> 0, boundedExec |-> 0]

EmptyReport == [findings |-> NoFindings, complete |-> FALSE, truncated |-> FALSE,
                degraded |-> FALSE, passed |-> FALSE, binary |-> NoSummary]

Init ==
    /\ conf \in [engine : {"regex", "semgrep"}, binary : BOOLEAN,
                 llm : {"off", "none", "on"}, failClosed : BOOLEAN]
    /\ \E present \in SUBSET Ids, unreadable \in SUBSET Files :
         \E hidden \in SUBSET (present \cap Arm("binary")) :
           pkg = [present |-> present, unreadable |-> unreadable, hidden |-> hidden,
                  binaries |-> {FileOf(i) : i \in present \cap Arm("binary")}]
    /\ pc = "scan" /\ cancelled = FALSE
    /\ report = EmptyReport /\ fresh = NoFindings
    /\ todo = {} /\ attempt = 0 /\ unanswered = FALSE
    /\ cb = [state |-> "closed", fails |-> 0, probe |-> FALSE, cooled |-> FALSE]
    /\ answers = [i \in Ids |-> None]
    /\ conclusion = [verdict |-> "none", files |-> [f \in Files |-> "LOW"]]
-----------------------------------------------------------------------------
(***************************************************************************)
(* Report.Passed.                                                          *)
(***************************************************************************)
ProvesCleanScan(r) ==
    /\ r.complete /\ ~r.truncated
    /\ r.binary.ran =>
         r.binary.boundedExec = 0 /\ r.binary.incomplete = 0 /\ ~r.binary.errored

(* recomputeReportPassed *)
RecomputePassed(r, honorExoneration) ==
    [r EXCEPT !.passed =
        /\ \A i \in DOMAIN r.findings :
             r.findings[i].sev = "HIGH" =>
                 honorExoneration /\ r.findings[i].verdict = "BENIGN"
        /\ ProvesCleanScan(r)]

(***************************************************************************)
(* conclusion.passed.                                                      *)
(***************************************************************************)
PresenceOnlyRules == {"CMD_001", "DYN_001"}
BlockingRisk(risk) == risk \in {"HIGH", "CRITICAL"}

(* Metadata logging and test fixtures: downgraded when nothing is known. *)
Lenient(i) == Pool[i].rule = "EMB_003" \/ Pool[i].test

(* A suspicion that no cross-file path supports, on a rule that only says that a
   dangerous call exists. *)
Demoted(i, f) ==
    /\ f.verdict = "SUSPICIOUS" /\ Pool[i].rule \in PresenceOnlyRules
    /\ ~f.tainted /\ ~BlockingRisk(f.risk)

MutClassify(i, f) ==
    CASE Demoted(i, f) \/ f.risk \in {"LOW", "NONE"} -> "LOW"
      [] BlockingRisk(f.risk) -> "HIGH"
      [] f.risk = "MEDIUM" /\ ~Demoted(i, f) -> "MEDIUM"
      [] f.risk = "" /\ ~Demoted(i, f) ->
           IF f.verdict \in {"UNCERTAIN", "BENIGN"} \/ (Lenient(i) /\ f.verdict = "")
           THEN "LOW" ELSE IF f.verdict = "" THEN f.sev ELSE "MEDIUM"

ClassifyFindingRisk(i, f) ==
    CASE Demoted(i, f) -> "LOW"
      [] ~Demoted(i, f) /\ BlockingRisk(f.risk) -> "HIGH"
      [] ~Demoted(i, f) /\ f.risk = "MEDIUM" -> "MEDIUM"
      [] ~Demoted(i, f) /\ f.risk \in {"LOW", "NONE"} -> "LOW"
      [] OTHER ->
           CASE f.verdict = "MALICIOUS" -> "HIGH"
             [] f.verdict = "SUSPICIOUS" -> "MEDIUM"
             [] f.verdict = "BENIGN" -> "LOW"
             [] f.verdict \in {"UNCERTAIN", ""} /\ f.sev = "HIGH" -> "HIGH"
             [] f.verdict = "UNCERTAIN" /\ f.sev # "HIGH" ->
                  IF Lenient(i) THEN "LOW" ELSE "MEDIUM"
             [] f.verdict = "" /\ f.sev = "MEDIUM" ->
                  IF Lenient(i) THEN "LOW" ELSE "MEDIUM"
             [] OTHER -> "LOW"

Statistics(r) ==
    [risk \in {"HIGH", "MEDIUM", "LOW"} |->
        Cardinality({i \in DOMAIN r.findings :
                       ClassifyFindingRisk(i, r.findings[i]) = risk})]

(* The risk a file's report states: synthesizeFileSummary when the LLM is at work,
   InferRiskLevel on the static severities otherwise. *)
FileReported(r, file) == {i \in DOMAIN r.findings : FileOf(i) = file}

SynthesizedRisk(r, file) ==
    LET risks == {ClassifyFindingRisk(i, r.findings[i]) :
                    i \in {j \in FileReported(r, file) : r.findings[j].verdict # "BENIGN"}}
    IN  IF "HIGH" \in risks THEN "HIGH" ELSE IF "MEDIUM" \in risks THEN "MEDIUM" ELSE "LOW"

InferRiskLevel(r, file) ==
    LET sevs == {r.findings[i].sev : i \in FileReported(r, file)}
    IN  IF "HIGH" \in sevs THEN "HIGH" ELSE IF "MEDIUM" \in sevs THEN "MEDIUM" ELSE "LOW"

(* ComputeConclusionContext: completeness and fail-closed take no part in it. *)
Conclude(r) ==
    IF Statistics(r)["HIGH"] = 0 /\ Statistics(r)["MEDIUM"] = 0
    THEN "passed" ELSE "refused"
-----------------------------------------------------------------------------
(***************************************************************************)
(* The two scans.  Only semgrep runs the taint analysis that marks         *)
(* findings and adds cross-service ones.  The walk of an unreadable file:  *)
(* regex skips it, semgrep's line count fails the scan.                    *)
(***************************************************************************)
Before(S, i) == {j \in S : j < i}
Cap(S, n) == {i \in S : Cardinality(Before(S, i)) < n}

ScannedSource == {i \in pkg.present \cap Arm("source") : FileOf(i) \notin pkg.unreadable}

(* enrichFindingsWithCPG: nothing to do for a report without findings. *)
CrossService ==
    IF conf.engine = "regex" \/ ScannedSource = {} THEN {} ELSE pkg.present \cap Arm("cpg")

SourceFinding(i) == Finding(Pool[i].sev, conf.engine = "semgrep" /\ Pool[i].tainted)

(* buildReport and the engine's stamp.  Regex stops at the cap, semgrep past it. *)
SourceReport ==
    LET all == ScannedSource \cup CrossService
    IN  [EmptyReport EXCEPT
           !.findings = [i \in Cap(all, MaxSource) |-> SourceFinding(i)],
           !.complete = TRUE,
           !.truncated = \/ Cardinality(all) > MaxSource
                         \/ conf.engine = "regex" /\ Cardinality(all) = MaxSource,
           !.passed = \A i \in Cap(all, MaxSource) : Pool[i].sev # "HIGH"]

Fail == pc' = "failed" /\ UNCHANGED <<report, fresh>>
clientVars == <<todo, attempt, unanswered, cb, answers>>

SourceFiles == {FileOf(i) : i \in Arm("source")}

(* ctx done; or semgrep could not read a target, died, exited nonzero or reported
   errors. *)
SourceScanFails ==
    /\ pc = "scan"
    /\ cancelled \/ conf.engine = "semgrep"
    /\ Fail
    /\ UNCHANGED <<conf, pkg, cancelled, clientVars, conclusion>>

SourceScan ==
    /\ pc = "scan" /\ ~cancelled
    /\ conf.engine = "semgrep" => pkg.unreadable \cap SourceFiles = {}
    /\ report' = SourceReport
    /\ pc' = "binary"
    /\ UNCHANGED <<conf, pkg, cancelled, fresh, clientVars, conclusion>>

(***************************************************************************)
(* The binary channel reads every regular file.  A file it cannot open is  *)
(* Incomplete; a binary one is claimed and its evidence matched, except    *)
(* what a resource bound cut off.                                          *)
(***************************************************************************)
Claimed == pkg.binaries \ pkg.unreadable

Listed == {i \in pkg.present \cap Arm("binary") :
             FileOf(i) \in Claimed /\ i \notin pkg.hidden}

(* binaryFamily.presenceOnly, corroborating; BinaryMatcher.downgrades *)
PresenceOnly(i) == Pool[i].sources \subseteq {"dynsym", "needed"}
Corroborating(i) == Pool[i].sources \subseteq {"entropy", "pickle"}
Downgrades(i) == PresenceOnly(i) /\ Pool[i].sev = "HIGH"

Corroborated(f) == \E i \in Listed : FileOf(i) = f /\ Corroborating(i)

(* A symbol name alone is LOW when nothing in its file corroborates it. *)
BinarySeverity(i) ==
    IF Downgrades(i) /\ ~Corroborated(FileOf(i)) THEN "LOW" ELSE Pool[i].sev

(* The cap drops LOW findings only. *)
MutUnderCap(S) == Cap(S, MaxBinary)

UnderCap(S) == {i \in S : BinarySeverity(i) # "LOW"} \cup Cap(S, MaxBinary)

BinaryFindings == [i \in UnderCap(Listed) |-> Finding(BinarySeverity(i), FALSE)]

Bounded == {FileOf(i) : i \in pkg.hidden} \cap Claimed

BinarySummary ==
    [ran |-> TRUE, errored |-> FALSE, incomplete |-> Cardinality(pkg.unreadable),
     boundedExec |-> Cardinality(Bounded \cap Executable)]

(* runBinaryChannel never returns an error; a failed pass is an Errored summary. *)
BinaryPass ==
    /\ pc = "binary" /\ ~cancelled
    /\ CASE ~conf.binary -> UNCHANGED <<report, fresh>>
         [] conf.binary ->
              \/ /\ report' = [report EXCEPT !.binary = BinarySummary]
                 /\ fresh' = BinaryFindings
              \/ report' = [report EXCEPT !.binary = ErroredSummary] /\ UNCHANGED fresh
    /\ pc' = IF conf.binary THEN "merge" ELSE "decide"
    /\ UNCHANGED <<conf, pkg, cancelled, clientVars, conclusion>>

BinaryCancelled ==
    /\ pc \in {"binary", "merge"} /\ cancelled
    /\ Fail
    /\ UNCHANGED <<conf, pkg, cancelled, clientVars, conclusion>>

(* MergeBinaryFindings: the source reading of a claimed file is dropped. *)
MergedFindings ==
    LET claimed == IF report.binary.errored THEN {} ELSE Claimed
        kept == {i \in DOMAIN report.findings : FileOf(i) \notin claimed}
    IN  [i \in kept \cup DOMAIN fresh |->
            IF i \in DOMAIN fresh THEN fresh[i] ELSE report.findings[i]]

Merge ==
    /\ pc = "merge" /\ ~cancelled
    /\ report' = RecomputePassed([report EXCEPT !.findings = MergedFindings], FALSE)
    /\ fresh' = NoFindings
    /\ pc' = "decide"
    /\ UNCHANGED <<conf, pkg, cancelled, clientVars, conclusion>>
-----------------------------------------------------------------------------
(***************************************************************************)
(* GenerateAuditReport: whether the LLM has something to do and can.       *)
(***************************************************************************)
LlmWanted == conf.llm # "off" /\ DOMAIN report.findings # {}

(* limit in VerifyReport *)
Limited ==
    IF MaxVerified = 0 THEN DOMAIN report.findings ELSE Cap(DOMAIN report.findings, MaxVerified)

Decide ==
    /\ pc = "decide"
    /\ CASE ~LlmWanted -> pc' = "assemble" /\ UNCHANGED <<report, todo>>
         [] LlmWanted /\ conf.llm = "on" ->
              pc' = "verify" /\ todo' = Limited /\ UNCHANGED report
         [] LlmWanted /\ conf.llm = "none" /\ conf.failClosed ->
              pc' = "failed" /\ UNCHANGED <<report, todo>>
         [] OTHER -> /\ report' = [report EXCEPT !.degraded = TRUE]
                     /\ pc' = "assemble" /\ UNCHANGED todo
    /\ UNCHANGED <<conf, pkg, cancelled, fresh, attempt, unanswered, cb, answers, conclusion>>

(***************************************************************************)
(* VerifyReport.                                                           *)
(***************************************************************************)
Current(i) == i \in todo /\ Before(todo, i) = {}

Uncertain(f) == [f EXCEPT !.verdict = "UNCERTAIN"]

(* ctx done: every finding without a verdict is UNCERTAIN, past the limit too. *)
VerifyCancelled(i) ==
    /\ pc = "verify" /\ Current(i) /\ cancelled
    /\ report' = [report EXCEPT !.findings =
         [j \in DOMAIN report.findings |->
            IF j >= i /\ report.findings[j].verdict = ""
            THEN Uncertain(report.findings[j]) ELSE report.findings[j]]]
    /\ unanswered' = TRUE
    /\ pc' = "close"
    /\ UNCHANGED <<conf, pkg, cancelled, fresh, todo, attempt, cb, answers, conclusion>>

(* CircuitBreaker.AllowRequest: admitted, and the breaker afterwards. *)
Admits ==
    \/ cb.state = "closed"
    \/ cb.state = "open" /\ cb.cooled
    \/ cb.state = "halfOpen" /\ ~cb.probe

Admitted ==
    [cb EXCEPT !.state = IF cb.state = "open" THEN "halfOpen" ELSE @,
               !.probe = cb.state # "closed"]

Call ==
    /\ pc = "verify" /\ todo # {} /\ ~cancelled /\ Admits
    /\ cb' = Admitted
    /\ attempt' = 0
    /\ pc' = "call"
    /\ UNCHANGED <<conf, pkg, cancelled, report, fresh, todo, unanswered, answers, conclusion>>

(* A call that failed leaves the finding UNCERTAIN. *)
GivesUp(i) ==
    /\ Current(i)
    /\ report' = [report EXCEPT !.findings[i] = Uncertain(@)]
    /\ unanswered' = TRUE
    /\ todo' = todo \ {i}
    /\ pc' = "verify"
    /\ UNCHANGED <<conf, pkg, cancelled, fresh, attempt, answers, conclusion>>

(* ErrCircuitOpen *)
CircuitOpen(i) ==
    /\ pc = "verify" /\ ~cancelled /\ ~Admits
    /\ GivesUp(i) /\ UNCHANGED cb

(* RecordSuccess, RecordFailure, ResetProbe *)
RecordSuccess == [cb EXCEPT !.state = "closed", !.fails = 0, !.probe = FALSE]

RecordFailure ==
    [cb EXCEPT !.fails = @ + 1, !.probe = FALSE, !.cooled = FALSE,
               !.state = IF cb.state = "halfOpen" \/ cb.fails + 1 >= Threshold
                         THEN "open" ELSE @]

MutResetProbe == cb
ResetProbe == [cb EXCEPT !.probe = FALSE]

(* parseDecision: what it cannot read is UNCERTAIN, and that is an answer. *)
ParseDecision(reply) ==
    IF reply.verdict \in Verdicts THEN reply ELSE [reply EXCEPT !.verdict = "UNCERTAIN"]

Answered(i, reply) ==
    /\ pc = "call" /\ Current(i)
    /\ cb' = RecordSuccess
    /\ LET d == ParseDecision(reply)
       IN  /\ report' = [report EXCEPT !.findings[i].verdict = d.verdict,
                                       !.findings[i].risk = d.risk]
           /\ answers' = [answers EXCEPT ![i] = d]
    /\ todo' = todo \ {i} /\ pc' = "verify"
    /\ UNCHANGED <<conf, pkg, cancelled, fresh, attempt, unanswered, conclusion>>

(* A 200 whose envelope does not say success counts as one for the breaker. *)
NotSuccess(i) == pc = "call" /\ cb' = RecordSuccess /\ GivesUp(i)

Transient ==
    /\ pc = "call" /\ ~cancelled /\ attempt < MaxRetries
    /\ attempt' = attempt + 1
    /\ UNCHANGED <<conf, pkg, pc, cancelled, report, fresh, todo, unanswered, cb, answers,
                   conclusion>>

(* The last retry failed, or an error that is not retried: a timeout, a status, a
   payload too large, an envelope that does not decode.  A cancellation is not
   counted. *)
CallFails(i) ==
    /\ pc = "call"
    /\ cb' = IF cancelled THEN ResetProbe ELSE RecordFailure
    /\ GivesUp(i)

(* The report's own verdict, once every finding has been through. *)
FailedClosed(r) ==
    \E i \in DOMAIN r.findings :
        r.findings[i].sev \in {"HIGH", "MEDIUM"} /\ r.findings[i].verdict # "BENIGN"

Adjudicated ==
    IF ~unanswered THEN RecomputePassed(report, TRUE)
    ELSE LET r == [report EXCEPT !.degraded = TRUE]
         IN  IF ~conf.failClosed THEN RecomputePassed(r, FALSE)
             ELSE [RecomputePassed(r, TRUE) EXCEPT !.passed = @ /\ ~FailedClosed(r)]

CloseVerification ==
    /\ pc = "close" \/ (pc = "verify" /\ todo = {})
    /\ report' = Adjudicated
    /\ pc' = "assemble"
    /\ UNCHANGED <<conf, pkg, cancelled, fresh, clientVars, conclusion>>

(* AssembleAuditReport; the file summaries do not enter the verdict. *)
Assemble ==
    /\ pc = "assemble"
    /\ conclusion' =
         [verdict |-> Conclude(report),
          files |-> [file \in Files |->
                       IF LlmWanted /\ conf.llm = "on"
                       THEN SynthesizedRisk(report, file)
                       ELSE InferRiskLevel(report, file)]]
    /\ pc' = "done"
    /\ UNCHANGED <<conf, pkg, cancelled, report, fresh, clientVars>>
-----------------------------------------------------------------------------
(* The environment: a superseding import cancels the audit; time passes. *)
Cancel ==
    /\ ~cancelled /\ pc \notin {"done", "failed"}
    /\ cancelled' = TRUE
    /\ UNCHANGED <<conf, pkg, pc, report, fresh, clientVars, conclusion>>

Cooldown ==
    /\ cb.state = "open" /\ ~cb.cooled /\ pc \notin {"done", "failed"}
    /\ cb' = [cb EXCEPT !.cooled = TRUE]
    /\ UNCHANGED <<conf, pkg, pc, cancelled, report, fresh, todo, attempt, unanswered, answers,
                   conclusion>>

Step ==
    \/ SourceScanFails \/ SourceScan \/ BinaryPass \/ BinaryCancelled \/ Merge
    \/ Decide \/ Call \/ Transient
    \/ \E i \in todo :
         \/ VerifyCancelled(i) \/ CircuitOpen(i) \/ NotSuccess(i) \/ CallFails(i)
         \/ \E reply \in Replies : Answered(i, reply)
    \/ CloseVerification \/ Assemble

Next == Step \/ Cancel \/ Cooldown

Spec == Init /\ [][Next]_vars /\ WF_vars(Step)
-----------------------------------------------------------------------------
(***************************************************************************)
(* Properties.                                                             *)
(***************************************************************************)
(* The answers that may clear a static HIGH or MEDIUM finding: a LOW risk, BENIGN
   without a blocking risk, or a suspicion nothing supports on a presence rule. *)
Clears(i, f, a) ==
    \/ a.risk \in {"LOW", "NONE"}
    \/ a.verdict = "BENIGN" /\ a.risk \notin {"HIGH", "CRITICAL", "MEDIUM"}
    \/ /\ a.verdict = "SUSPICIOUS" /\ ~BlockingRisk(a.risk) /\ ~f.tainted
       /\ Pool[i].rule \in PresenceOnlyRules

(* A conclusion that passes (GenerateAuditReport) leaves no static HIGH finding that
   the service did not really answer with something that clears it: a lost answer,
   an open circuit, a cancellation or the verification limit never clears one; the
   same for MEDIUM, but for metadata logging and test files.  Nor does any file of a
   passing, verified report state a blocking risk. *)
ConclusionSound ==
    conclusion.verdict = "passed" =>
        /\ \A i \in DOMAIN report.findings :
            LET f == report.findings[i]
            IN  /\ f.sev = "HIGH" => Clears(i, f, answers[i])
                /\ f.sev = "MEDIUM" => Clears(i, f, answers[i]) \/ Lenient(i)
        /\ conf.llm = "on" => \A file \in Files : conclusion.files[file] = "LOW"

(* The candidates whose own arm is expected to report them: binary evidence in an
   executable file, unless the presence downgrade made it LOW (the cap may drop it
   then, and says so in the summary only), source findings in a file no one claims. *)
Owed ==
    {i \in pkg.present :
        /\ Pool[i].sev \in {"HIGH", "MEDIUM"}
        /\ \/ /\ Pool[i].arm = "binary" /\ FileOf(i) \in Executable /\ conf.binary
              /\ BinarySeverity(i) = Pool[i].sev
           \/ Pool[i].arm = "source" /\ (conf.binary => FileOf(i) \notin pkg.binaries)}

(* A report that proves a clean scan lists every blocking finding of the package
   with its severity: caps, unreadable files, resource bounds and failed passes all
   withdraw the claim.  (Without the binary channel the regex engine skips an
   unreadable file in silence.) *)
CleanScanSound ==
    (pc = "done" /\ ProvesCleanScan(report) /\ (conf.binary \/ pkg.unreadable = {})) =>
        \A i \in Owed :
            i \in DOMAIN report.findings /\ report.findings[i].sev = Pool[i].sev

(* A report that passes lists no HIGH finding but those the service itself answered
   with BENIGN, whichever arm found it and whichever recalculation came last; where one
   was made, it proves a clean scan too, and under fail-closed an audit with an
   unanswered finding passes only if its MEDIUM findings were answered BENIGN as well. *)
GateSound ==
    (pc = "done" /\ report.passed) =>
        /\ \A i \in DOMAIN report.findings :
             report.findings[i].sev = "HIGH" => answers[i].verdict = "BENIGN"
        /\ (conf.binary \/ (conf.llm = "on" /\ LlmWanted)) =>
             /\ ProvesCleanScan(report)
             /\ (unanswered /\ conf.failClosed) =>
                  \A i \in DOMAIN report.findings :
                      report.findings[i].sev = "MEDIUM" => answers[i].verdict = "BENIGN"

(* Neither verdict, the report's or the conclusion's, lets a package through on
   findings nobody cleared: a HIGH one for the report's, a HIGH or MEDIUM one for the
   conclusion's. *)
NoSilentAllow == ConclusionSound /\ GateSound

(* The circuit breaker is never wedged: between calls no probe is held, a request in
   flight was admitted by a closed circuit or is the half-open probe, and the circuit
   opens only at the threshold or after a failed probe. *)
BreakerSound ==
    /\ pc # "call" => ~cb.probe
    /\ pc = "call" => cb.state # "open" /\ (cb.state = "halfOpen" <=> cb.probe)
    /\ cb.state = "closed" => cb.fails < Threshold

(* "MALICIOUS raises anything" (audit.go): a finding the service calls malicious
   blocks the import. *)
MaliciousBlocks ==
    conclusion.verdict = "passed" =>
        \A i \in DOMAIN report.findings : answers[i].verdict # "MALICIOUS"
=============================================================================
