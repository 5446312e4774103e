------------------------- MODULE AuditEngine_proofs -------------------------
(***************************************************************************)
(* Proofs about AuditEngine, for every candidate pool, set of replies, cap *)
(* and threshold: the breaker, the two verdicts and the clean-scan claim.  *)
(***************************************************************************)
EXTENDS AuditEngine, FiniteSetTheorems, TLAPS

Severities == {"HIGH", "MEDIUM", "LOW"}
FindingRecord == [sev : Severities, tainted : BOOLEAN, verdict : Verdicts \cup {""},
                  risk : STRING \cup {""}]
Summary == [ran : BOOLEAN, errored : BOOLEAN, incomplete : Nat, boundedExec : Nat]
Breaker == [state : {"closed", "open", "halfOpen"}, fails : Nat, probe : BOOLEAN,
            cooled : BOOLEAN]
Decision == [verdict : Verdicts, risk : STRING \cup {""}]

Early == {"scan", "binary", "merge", "decide"}
Late == {"decide", "verify", "call", "close", "assemble", "done"}

(* A list of findings: a function on some of the candidates. *)
IsList(L) ==
    /\ DOMAIN L \subseteq Ids
    /\ L = [i \in DOMAIN L |-> L[i]]
    /\ \A i \in DOMAIN L : L[i] \in FindingRecord

Unverified(L) == \A i \in DOMAIN L : L[i].verdict = "" /\ L[i].risk = ""

ConfType ==
    /\ conf \in [engine : {"regex", "semgrep"}, binary : BOOLEAN,
                 llm : {"off", "none", "on"}, failClosed : BOOLEAN]
    /\ pkg \in [present : SUBSET Ids, unreadable : SUBSET Files, hidden : SUBSET Ids,
                binaries : SUBSET Files]
    /\ pkg.binaries = {FileOf(i) : i \in pkg.present \cap Arm("binary")}

ReportType ==
    /\ report = [findings |-> report.findings, complete |-> report.complete,
                 truncated |-> report.truncated, degraded |-> report.degraded,
                 passed |-> report.passed, binary |-> report.binary]
    /\ report.complete \in BOOLEAN /\ report.truncated \in BOOLEAN
    /\ report.degraded \in BOOLEAN /\ report.passed \in BOOLEAN
    /\ report.binary \in Summary
    /\ IsList(report.findings) /\ IsList(fresh)

ControlType ==
    /\ pc \in Early \cup Late \cup {"failed"}
    /\ cancelled \in BOOLEAN /\ unanswered \in BOOLEAN /\ attempt \in 0..MaxRetries
    /\ todo \subseteq DOMAIN report.findings

AnswerType == answers \in [Ids -> Decision \cup {None}]

BreakerInv == cb \in Breaker /\ BreakerSound

(* What a finding carries is what the service answered, or nothing but UNCERTAIN. *)
Agrees(i) ==
    \/ /\ report.findings[i].verdict = answers[i].verdict
       /\ report.findings[i].risk = answers[i].risk
    \/ /\ answers[i] = None
       /\ report.findings[i].verdict \in {"", "UNCERTAIN"}
       /\ report.findings[i].risk = ""

AnswerInv ==
    /\ \A i \in DOMAIN report.findings : Agrees(i)
    /\ \A i \in todo : answers[i] = None
    /\ pc \in Early =>
         /\ answers = [i \in Ids |-> None]
         /\ Unverified(report.findings) /\ Unverified(fresh)
         /\ ~unanswered /\ todo = {}

(* Report.Passed, on the way to the assembled report. *)
GateInv ==
    /\ (pc \in Late /\ conf.binary /\ report.passed) => ProvesCleanScan(report)
    /\ (pc \in {"assemble", "done"} /\ conf.llm = "on" /\ LlmWanted /\ report.passed) =>
         ProvesCleanScan(report)
    /\ (pc \in {"assemble", "done"} /\ unanswered /\ conf.failClosed /\ report.passed) =>
         ~FailedClosed(report)

(* The HIGH findings the service has cleared, and how long a report may pass with one. *)
Cleared(L) == \A i \in DOMAIN L : L[i].sev = "HIGH" => L[i].verdict = "BENIGN"
HighInv ==
    report.passed =>
        /\ Cleared(report.findings)
        /\ pc \notin {"assemble", "done"} =>
             \A i \in DOMAIN report.findings : report.findings[i].sev # "HIGH"

ConclusionInv == (conclusion.verdict = "passed" => pc = "done") /\ ConclusionSound

(* Which candidates each stage has listed, as long as nothing withdrew the claim. *)
Lists(S) == \A i \in S : i \in DOMAIN report.findings /\ report.findings[i].sev = Pool[i].sev

CleanInv ==
    /\ (pc \in {"binary", "merge"} /\ ~report.truncated) => Lists(ScannedSource)
    /\ pc = "merge" =>
         /\ conf.binary /\ report.binary.ran
         /\ report.binary.errored \/ (fresh = BinaryFindings /\ report.binary = BinarySummary)
    /\ (pc \in Late /\ ProvesCleanScan(report) /\ (conf.binary \/ pkg.unreadable = {})) =>
         Lists(Owed)

VerdictInv ==
    /\ ConfType /\ ReportType /\ ControlType /\ AnswerType
    /\ AnswerInv /\ GateInv /\ ConclusionInv /\ CleanInv

EngineInv == BreakerInv /\ VerdictInv
-----------------------------------------------------------------------------
(* A finding nobody looked at carries an empty verdict and an empty risk. *)
LEMMA NoneFields == None.verdict = "" /\ None.risk = ""
  BY DEF None

(* The candidates and the files of a package are finitely many. *)
LEMMA FiniteIds == IsFiniteSet(Ids) /\ \A S \in SUBSET Ids : IsFiniteSet(S)
  <1>1. IsFiniteSet(Ids)
    BY EngineAssumption, FS_Interval DEF Ids
  <1> QED BY <1>1, FS_Subset

(* So are its files. *)
LEMMA FiniteFiles == IsFiniteSet(Files) /\ \A S \in SUBSET Files : IsFiniteSet(S)
  <1> DEFINE file == [i \in Ids |-> FileOf(i)]
  <1>1. file \in Surjection(Ids, Files)
    BY DEF Files, Surjection
  <1>2. IsFiniteSet(Files)
    BY <1>1, FiniteIds, FS_Surjection
  <1> QED BY <1>2, FS_Subset

(* A cap that the set does not exceed drops nothing (ScanDirectory, scan). *)
LEMMA CapKeepsAll ==
  ASSUME NEW S \in SUBSET Ids, NEW n \in Nat, Cardinality(S) <= n
  PROVE  Cap(S, n) = S
  <1>1. ASSUME NEW i \in S PROVE Cardinality(Before(S, i)) < n
    <2>1. Before(S, i) \in SUBSET S /\ i \notin Before(S, i)
      BY EngineAssumption DEF Before, Ids
    <2>2. IsFiniteSet(S) /\ IsFiniteSet(Before(S, i))
      BY FiniteIds, <2>1
    <2>3. Cardinality(S) \in Nat /\ Cardinality(Before(S, i)) \in Nat
      BY <2>2, FS_CardinalityType
    <2>4. Cardinality(Before(S, i)) <= Cardinality(S)
      BY <2>1, <2>2, FS_Subset
    <2>5. Cardinality(Before(S, i)) # Cardinality(S)
      BY <2>1, <2>2, FS_Subset
    <2> QED BY <2>3, <2>4, <2>5
  <1> QED BY <1>1 DEF Cap

(* No finding is counted HIGH or MEDIUM when ComputeConclusionContext passes. *)
LEMMA PassedCounts ==
  ASSUME NEW r, DOMAIN r.findings \in SUBSET Ids, Conclude(r) = "passed",
         NEW i \in DOMAIN r.findings
  PROVE  ClassifyFindingRisk(i, r.findings[i]) \notin {"HIGH", "MEDIUM"}
  <1> DEFINE S(risk) == {j \in DOMAIN r.findings : ClassifyFindingRisk(j, r.findings[j]) = risk}
  <1>1. Cardinality(S("HIGH")) = 0 /\ Cardinality(S("MEDIUM")) = 0
    BY DEF Conclude, Statistics
  <1>2. S("HIGH") \in SUBSET Ids /\ S("MEDIUM") \in SUBSET Ids
    OBVIOUS
  <1>3. S("HIGH") = {} /\ S("MEDIUM") = {}
    BY <1>1, <1>2, FiniteIds, FS_EmptySet
  <1> QED BY <1>3
-----------------------------------------------------------------------------
(* An audit starts with nothing listed, nothing answered and a closed breaker. *)
LEMMA InitInv == Init => EngineInv
  <1> SUFFICES ASSUME Init PROVE EngineInv
    OBVIOUS
  <1> USE DEF Init
  <1>1. ConfType
    <2>1. PICK present \in SUBSET Ids, unreadable \in SUBSET Files :
            \E hidden \in SUBSET (present \cap Arm("binary")) :
              pkg = [present |-> present, unreadable |-> unreadable, hidden |-> hidden,
                     binaries |-> {FileOf(i) : i \in present \cap Arm("binary")}]
      OBVIOUS
    <2>2. PICK hidden \in SUBSET (present \cap Arm("binary")) :
              pkg = [present |-> present, unreadable |-> unreadable, hidden |-> hidden,
                     binaries |-> {FileOf(i) : i \in present \cap Arm("binary")}]
      BY <2>1
    <2>3. {FileOf(i) : i \in present \cap Arm("binary")} \in SUBSET Files
      BY DEF Files
    <2> QED BY <2>2, <2>3 DEF ConfType
  <1>2. ReportType
    BY DEF ReportType, EmptyReport, NoFindings, NoSummary, Summary, IsList
  <1>3. ControlType
    <2>1. 0 \in 0..MaxRetries
      BY EngineAssumption
    <2> QED BY <2>1 DEF ControlType, EmptyReport, NoFindings, Early, Late
  <1>4. AnswerType
    BY DEF AnswerType
  <1>5. BreakerInv
    BY EngineAssumption DEF BreakerInv, BreakerSound, Breaker
  <1>6. AnswerInv
    BY DEF AnswerInv, EmptyReport, NoFindings, Unverified
  <1>7. GateInv /\ ConclusionInv /\ CleanInv
    BY DEF GateInv, ConclusionInv, ConclusionSound, CleanInv, Late
  <1> QED BY <1>1, <1>2, <1>3, <1>4, <1>5, <1>6, <1>7 DEF EngineInv, VerdictInv

(* What RecordSuccess and RecordFailure make of the breaker. *)
LEMMA Succeeded ==
  ASSUME BreakerInv, cb' = RecordSuccess, pc' = "verify"
  PROVE  BreakerInv'
  <1>1. cb' = [state |-> "closed", fails |-> 0, probe |-> FALSE, cooled |-> cb.cooled]
    BY DEF RecordSuccess, BreakerInv, Breaker
  <1>2. 0 < Threshold
    BY EngineAssumption
  <1> QED BY <1>1, <1>2 DEF BreakerInv, BreakerSound, Breaker

(* A failure counts, and opens the breaker at the threshold (RecordFailure). *)
LEMMA Failed ==
  ASSUME BreakerInv, pc = "call", cb' = RecordFailure, pc' = "verify"
  PROVE  BreakerInv'
  <1> DEFINE opens == cb.state = "halfOpen" \/ cb.fails + 1 >= Threshold
  <1>1. cb' = [state |-> IF opens THEN "open" ELSE cb.state, fails |-> cb.fails + 1,
               probe |-> FALSE, cooled |-> FALSE]
    BY DEF RecordFailure, BreakerInv, Breaker
  <1>2. Threshold \in Nat /\ cb.fails \in Nat
    BY EngineAssumption DEF BreakerInv, Breaker
  <1>3. cb.fails + 1 \in Nat /\ (~opens => cb.fails + 1 < Threshold)
    BY <1>2
  <1>4. cb' \in Breaker
    BY <1>1, <1>3 DEF BreakerInv, Breaker
  <1> QED BY <1>1, <1>3, <1>4 DEF BreakerInv, BreakerSound

(* The breaker's own invariant, action by action (circuit_breaker.go). *)
LEMMA BreakerStep ==
  ASSUME BreakerInv, ControlType, [Next]_vars
  PROVE  BreakerInv'
  <1> USE DEF BreakerInv, BreakerSound, Breaker
  <1>1. CASE UNCHANGED vars
    BY <1>1 DEF vars
  <1>2. CASE SourceScanFails \/ SourceScan \/ BinaryPass \/ BinaryCancelled \/ Merge
    BY <1>2 DEF SourceScanFails, SourceScan, BinaryPass, BinaryCancelled, Merge, Fail, clientVars
  <1>3. CASE Decide
    BY <1>3 DEF Decide
  <1>4. CASE Call
    BY <1>4 DEF Call, Admits, Admitted
  <1>5. CASE Transient
    BY <1>5 DEF Transient
  <1>6. ASSUME NEW i \in todo, VerifyCancelled(i) PROVE BreakerInv'
    BY <1>6 DEF VerifyCancelled
  <1>7. ASSUME NEW i \in todo, CircuitOpen(i) PROVE BreakerInv'
    BY <1>7 DEF CircuitOpen, GivesUp
  <1>8. ASSUME NEW i \in todo, NotSuccess(i) PROVE BreakerInv'
    <2>1. pc' = "verify" /\ cb' = RecordSuccess
      BY <1>8 DEF NotSuccess, GivesUp
    <2> QED BY <2>1, Succeeded
  <1>9. ASSUME NEW i \in todo, CallFails(i) PROVE BreakerInv'
    <2>1. pc = "call" /\ pc' = "verify" /\ cb' = IF cancelled THEN ResetProbe ELSE RecordFailure
      BY <1>9 DEF CallFails, GivesUp
    <2>2. CASE cancelled
      BY <2>1, <2>2 DEF ResetProbe
    <2>3. CASE ~cancelled
      BY <2>1, <2>3, Failed
    <2> QED BY <2>2, <2>3
  <1>10. ASSUME NEW i \in todo, NEW reply \in Replies, Answered(i, reply) PROVE BreakerInv'
    <2>1. pc' = "verify" /\ cb' = RecordSuccess
      BY <1>10 DEF Answered
    <2> QED BY <2>1, Succeeded
  <1>11. CASE CloseVerification
    BY <1>11 DEF CloseVerification, clientVars
  <1>12. CASE Assemble
    BY <1>12 DEF Assemble, clientVars
  <1>13. CASE Cancel
    BY <1>13 DEF Cancel, clientVars
  <1>14. CASE Cooldown
    BY <1>14 DEF Cooldown
  <1> QED
    BY <1>1, <1>2, <1>3, <1>4, <1>5, <1>6, <1>7, <1>8, <1>9, <1>10, <1>11, <1>12, <1>13, <1>14
    DEF Next, Step
-----------------------------------------------------------------------------
(* What the steps of the verification leave as the scans made it. *)
SameScan ==
    /\ conf' = conf /\ pkg' = pkg
    /\ report'.complete = report.complete /\ report'.truncated = report.truncated
    /\ report'.binary = report.binary
    /\ DOMAIN report'.findings = DOMAIN report.findings
    /\ \A i \in DOMAIN report.findings : report'.findings[i].sev = report.findings[i].sev

(* A step that touches verdicts only keeps what is listed and what is claimed. *)
LEMMA CleanFrame ==
  ASSUME CleanInv, SameScan, pc \in Late, pc' \notin {"binary", "merge"}
  PROVE  CleanInv'
  <1>1. ProvesCleanScan(report)' <=> ProvesCleanScan(report)
    BY DEF SameScan, ProvesCleanScan
  <1>2. Owed' = Owed
    BY DEF SameScan, Owed, BinarySeverity, Corroborated, Listed, Claimed
  <1>3. Lists(Owed) => Lists(Owed)'
    BY <1>2 DEF SameScan, Lists
  <1> QED BY <1>1, <1>3 DEF CleanInv, SameScan

(* One finding gets its verdict: the shape of the report after it. *)
LEMMA OneFinding ==
  ASSUME ReportType, NEW i \in DOMAIN report.findings,
         NEW g \in FindingRecord, g.sev = report.findings[i].sev,
         report' = [report EXCEPT !.findings = [report.findings EXCEPT ![i] = g]],
         conf' = conf, pkg' = pkg, fresh' = fresh
  PROVE  /\ ReportType' /\ SameScan /\ report'.passed = report.passed
         /\ report'.findings[i] = g
         /\ \A j \in DOMAIN report.findings \ {i} : report'.findings[j] = report.findings[j]
  <1>1. report'.findings = [report.findings EXCEPT ![i] = g]
    BY DEF ReportType
  <1>2. /\ DOMAIN report'.findings = DOMAIN report.findings
        /\ report'.findings[i] = g
        /\ \A j \in DOMAIN report.findings \ {i} : report'.findings[j] = report.findings[j]
    BY <1>1
  <1>3. IsList(report'.findings)
    BY <1>1, <1>2 DEF IsList, ReportType
  <1>4. /\ report' = [findings |-> report'.findings, complete |-> report.complete,
                 truncated |-> report.truncated, degraded |-> report.degraded,
                 passed |-> report.passed, binary |-> report.binary]
    BY <1>1 DEF ReportType
  <1>5. ReportType'
    BY <1>3, <1>4 DEF ReportType
  <1>6. SameScan
    BY <1>2, <1>4 DEF SameScan
  <1> QED BY <1>2, <1>4, <1>5, <1>6

(* A finding that is given up is UNCERTAIN and nothing else (VerifyReport). *)
LEMMA GivesUpStep ==
  ASSUME VerdictInv, NEW i \in todo, GivesUp(i), pc \in {"verify", "call"}
  PROVE  VerdictInv'
  <1> DEFINE g == Uncertain(report.findings[i])
  <1>0. i \in DOMAIN report.findings /\ report.findings[i] \in FindingRecord /\ answers[i] = None
    BY DEF VerdictInv, ControlType, AnswerInv, ReportType, IsList
  <1>1. /\ g \in FindingRecord /\ g.sev = report.findings[i].sev
        /\ g.verdict = "UNCERTAIN" /\ g.risk = report.findings[i].risk
    BY <1>0 DEF Uncertain, FindingRecord, Verdicts
  <1>2. /\ report' = [report EXCEPT !.findings = [report.findings EXCEPT ![i] = g]]
        /\ conf' = conf /\ pkg' = pkg /\ fresh' = fresh /\ answers' = answers
        /\ todo' = todo \ {i} /\ unanswered' = TRUE /\ pc' = "verify"
        /\ cancelled' = cancelled /\ attempt' = attempt /\ conclusion' = conclusion
    BY DEF GivesUp
  <1> HIDE DEF g
  <1>3. /\ ReportType' /\ SameScan /\ report'.passed = report.passed
        /\ report'.findings[i] = g
        /\ \A j \in DOMAIN report.findings \ {i} : report'.findings[j] = report.findings[j]
    BY <1>0, <1>1, <1>2, OneFinding DEF VerdictInv
  <1>4. ConfType' /\ ControlType' /\ AnswerType'
    BY <1>2, <1>3 DEF VerdictInv, ConfType, ControlType, AnswerType, SameScan, Late
  <1>5. AnswerInv'
    <2>1. ASSUME NEW j \in DOMAIN report.findings PROVE Agrees(j)'
      <3>1. Agrees(j)
        BY DEF VerdictInv, AnswerInv
      <3>2. CASE j = i
        <4>1. report.findings[i].risk = ""
          BY <3>1, <3>2, <1>0, NoneFields DEF Agrees
        <4> QED BY <4>1, <3>2, <1>0, <1>1, <1>2, <1>3 DEF Agrees
      <3>3. CASE j # i
        BY <3>1, <3>3, <1>2, <1>3 DEF Agrees
      <3> QED BY <3>2, <3>3
    <2> QED BY <2>1, <1>2, <1>3 DEF VerdictInv, AnswerInv, SameScan, Early
  <1>6. GateInv'
    BY <1>2, <1>3 DEF VerdictInv, GateInv, SameScan, ProvesCleanScan, Late
  <1>7. ConclusionInv'
    BY <1>2 DEF VerdictInv, ConclusionInv, ConclusionSound
  <1>8. CleanInv'
    BY <1>2, <1>3, CleanFrame DEF VerdictInv, Late
  <1> QED BY <1>3, <1>4, <1>5, <1>6, <1>7, <1>8 DEF VerdictInv

(* An answer is recorded on its finding and in the history alike. *)
LEMMA AnsweredStep ==
  ASSUME VerdictInv, NEW i \in todo, NEW reply \in Replies, Answered(i, reply)
  PROVE  VerdictInv'
  <1> DEFINE d == ParseDecision(reply)
             g == [report.findings[i] EXCEPT !.verdict = d.verdict, !.risk = d.risk]
  <1>0. /\ i \in DOMAIN report.findings /\ i \in Ids
        /\ report.findings[i] \in FindingRecord
    BY DEF VerdictInv, ControlType, ReportType, IsList
  <1>1. reply \in [verdict : STRING, risk : STRING]
    BY EngineAssumption
  <1>2. d \in Decision
    BY <1>1 DEF ParseDecision, Decision, Verdicts
  <1>3. /\ report' = [report EXCEPT !.findings = [report.findings EXCEPT ![i] = g]]
        /\ conf' = conf /\ pkg' = pkg /\ fresh' = fresh
        /\ answers' = [answers EXCEPT ![i] = d]
        /\ todo' = todo \ {i} /\ unanswered' = unanswered /\ pc = "call" /\ pc' = "verify"
        /\ cancelled' = cancelled /\ attempt' = attempt /\ conclusion' = conclusion
    BY <1>0 DEF Answered, VerdictInv, ReportType
  <1> HIDE DEF d
  <1>4. /\ g \in FindingRecord /\ g.sev = report.findings[i].sev
        /\ g.verdict = d.verdict /\ g.risk = d.risk
    BY <1>0, <1>2 DEF FindingRecord, Decision
  <1> HIDE DEF g
  <1>5. /\ ReportType' /\ SameScan /\ report'.passed = report.passed
        /\ report'.findings[i] = g
        /\ \A j \in DOMAIN report.findings \ {i} : report'.findings[j] = report.findings[j]
    BY <1>0, <1>3, <1>4, OneFinding DEF VerdictInv
  <1>6. /\ answers' \in [Ids -> Decision \cup {None}] /\ answers'[i] = d
        /\ \A j \in Ids \ {i} : answers'[j] = answers[j]
    BY <1>0, <1>2, <1>3 DEF VerdictInv, AnswerType
  <1>7. ConfType' /\ ControlType' /\ AnswerType'
    BY <1>3, <1>5, <1>6 DEF VerdictInv, ConfType, ControlType, AnswerType, SameScan, Late
  <1>8. AnswerInv'
    <2>1. ASSUME NEW j \in DOMAIN report.findings PROVE Agrees(j)'
      <3>1. Agrees(j) /\ j \in Ids
        BY DEF VerdictInv, AnswerInv, ReportType, IsList
      <3>2. CASE j = i
        BY <3>2, <1>4, <1>5, <1>6 DEF Agrees
      <3>3. CASE j # i
        BY <3>1, <3>3, <1>5, <1>6 DEF Agrees
      <3> QED BY <3>2, <3>3
    <2>2. \A j \in todo' : answers'[j] = None
      BY <1>3, <1>6 DEF VerdictInv, AnswerInv, ControlType, ReportType, IsList
    <2> QED BY <2>1, <2>2, <1>3, <1>5 DEF AnswerInv, SameScan, Early
  <1>9. GateInv'
    BY <1>3, <1>5 DEF VerdictInv, GateInv, SameScan, ProvesCleanScan, Late
  <1>10. ConclusionInv'
    BY <1>3 DEF VerdictInv, ConclusionInv, ConclusionSound
  <1>11. CleanInv'
    BY <1>3, <1>5, CleanFrame DEF VerdictInv, Late
  <1> QED BY <1>5, <1>7, <1>8, <1>9, <1>10, <1>11 DEF VerdictInv

(* A cancellation marks what has no verdict, and only that. *)
LEMMA VerifyCancelledStep ==
  ASSUME VerdictInv, NEW i \in todo, VerifyCancelled(i)
  PROVE  VerdictInv'
  <1> DEFINE marked(j) == IF j >= i /\ report.findings[j].verdict = ""
                          THEN Uncertain(report.findings[j]) ELSE report.findings[j]
  <1>1. /\ report' = [report EXCEPT !.findings = [j \in DOMAIN report.findings |-> marked(j)]]
        /\ conf' = conf /\ pkg' = pkg /\ fresh' = fresh /\ answers' = answers
        /\ todo' = todo /\ unanswered' = TRUE /\ pc = "verify" /\ pc' = "close"
        /\ cancelled' = cancelled /\ attempt' = attempt /\ conclusion' = conclusion
    BY DEF VerifyCancelled
  <1>2. ASSUME NEW j \in DOMAIN report.findings
        PROVE  /\ marked(j) \in FindingRecord /\ marked(j).sev = report.findings[j].sev
               /\ marked(j).risk = report.findings[j].risk
               /\ \/ marked(j).verdict = report.findings[j].verdict
                  \/ report.findings[j].verdict = "" /\ marked(j).verdict = "UNCERTAIN"
    <2>1. report.findings[j] \in FindingRecord
      BY DEF VerdictInv, ReportType, IsList
    <2> QED BY <2>1 DEF Uncertain, FindingRecord, Verdicts
  <1> HIDE DEF marked
  <1>3. /\ report' = [findings |-> report'.findings, complete |-> report.complete,
                 truncated |-> report.truncated, degraded |-> report.degraded,
                 passed |-> report.passed, binary |-> report.binary]
        /\ report'.findings = [j \in DOMAIN report.findings |-> marked(j)]
    BY <1>1 DEF VerdictInv, ReportType
  <1>4. IsList(report'.findings)
    BY <1>2, <1>3 DEF IsList, VerdictInv, ReportType
  <1>5. ReportType'
    BY <1>1, <1>3, <1>4 DEF VerdictInv, ReportType
  <1>6. SameScan
    BY <1>1, <1>2, <1>3 DEF SameScan
  <1>7. ConfType' /\ ControlType' /\ AnswerType'
    BY <1>1, <1>6 DEF VerdictInv, ConfType, ControlType, AnswerType, SameScan, Late
  <1>8. AnswerInv'
    <2>1. ASSUME NEW j \in DOMAIN report.findings PROVE Agrees(j)'
      <3>1. Agrees(j) /\ answers[j] \in Decision \cup {None}
        BY DEF VerdictInv, AnswerInv, ReportType, IsList, AnswerType
      <3>2. /\ answers'[j] = answers[j] /\ report'.findings[j] = marked(j)
        BY <1>1, <1>3
      <3>3. CASE marked(j).verdict = report.findings[j].verdict
        BY <3>1, <3>2, <3>3, <1>2 DEF Agrees
      <3>4. CASE report.findings[j].verdict = "" /\ marked(j).verdict = "UNCERTAIN"
        <4>1. answers[j] = None
          BY <3>1, <3>4 DEF Agrees, Decision, Verdicts
        <4>2. report.findings[j].risk = ""
          BY <3>1, <4>1, NoneFields DEF Agrees
        <4> QED BY <4>1, <4>2, <3>2, <3>4, <1>2 DEF Agrees
      <3> QED BY <3>3, <3>4, <1>2
    <2> QED BY <2>1, <1>1, <1>6 DEF VerdictInv, AnswerInv, SameScan, Early
  <1>9. GateInv'
    BY <1>1, <1>3 DEF VerdictInv, GateInv, ProvesCleanScan, Late
  <1>10. ConclusionInv'
    BY <1>1 DEF VerdictInv, ConclusionInv, ConclusionSound
  <1>11. CleanInv'
    BY <1>1, <1>6, CleanFrame DEF VerdictInv, Late
  <1> QED BY <1>5, <1>7, <1>8, <1>9, <1>10, <1>11 DEF VerdictInv

(* Steps that move the control only: a failed scan, the breaker, the environment. *)
LEMMA QuietStep ==
  ASSUME VerdictInv,
         UNCHANGED <<conf, pkg, report, fresh, todo, unanswered, answers, conclusion>>,
         cancelled' \in BOOLEAN, attempt' \in 0..MaxRetries,
         \/ pc' = pc
         \/ pc = "verify" /\ pc' = "call"
         \/ pc \in Early /\ pc' = "failed"
  PROVE  VerdictInv'
  <1>1. ConfType' /\ ReportType' /\ AnswerType'
    BY DEF VerdictInv, ConfType, ReportType, AnswerType
  <1>2. ControlType'
    BY DEF VerdictInv, ControlType, Late
  <1>3. AnswerInv'
    BY DEF VerdictInv, AnswerInv, Agrees, Early
  <1>4. GateInv'
    BY DEF VerdictInv, GateInv, LlmWanted, Late
  <1>5. ConclusionInv'
    BY DEF VerdictInv, ConclusionInv, ConclusionSound, Early
  <1>6. CleanInv'
    <2>1. /\ ScannedSource' = ScannedSource /\ Owed' = Owed
          /\ BinaryFindings' = BinaryFindings /\ BinarySummary' = BinarySummary
      BY DEF ScannedSource, Owed, BinaryFindings, BinarySummary, BinarySeverity, Corroborated,
             Listed, Claimed, UnderCap, Bounded
    <2> QED BY <2>1 DEF VerdictInv, CleanInv, Lists, Late
  <1> QED BY <1>1, <1>2, <1>3, <1>4, <1>5, <1>6 DEF VerdictInv
-----------------------------------------------------------------------------
(* The source scan lists what it read, up to its cap, and says when it cut. *)
LEMMA SourceScanStep ==
  ASSUME VerdictInv, SourceScan
  PROVE  VerdictInv'
  <1> DEFINE all == ScannedSource \cup CrossService
             kept == Cap(all, MaxSource)
             cut == \/ Cardinality(all) > MaxSource
                    \/ conf.engine = "regex" /\ Cardinality(all) = MaxSource
  <1>1. /\ pc = "scan" /\ pc' = "binary" /\ report' = SourceReport
        /\ conf' = conf /\ pkg' = pkg /\ fresh' = fresh /\ answers' = answers
        /\ todo' = todo /\ unanswered' = unanswered
        /\ cancelled' = cancelled /\ attempt' = attempt /\ conclusion' = conclusion
    BY DEF SourceScan, clientVars
  <1>2. report' = [findings |-> [i \in kept |-> SourceFinding(i)], complete |-> TRUE,
                   truncated |-> cut, degraded |-> FALSE,
                   passed |-> \A i \in kept : Pool[i].sev # "HIGH", binary |-> NoSummary]
    BY <1>1 DEF SourceReport, EmptyReport
  <1>3. all \in SUBSET Ids /\ kept \in SUBSET all
    BY DEF VerdictInv, ConfType, ScannedSource, CrossService, Cap, Arm
  <1>4. Cardinality(all) \in Nat /\ MaxSource \in Nat
    BY <1>3, FiniteIds, FS_CardinalityType, EngineAssumption
  <1>5. ~cut => kept = all
    BY <1>3, <1>4, CapKeepsAll
  <1>6. cut \in BOOLEAN
    OBVIOUS
  <1> HIDE DEF all, kept, cut
  <1>7. \A i \in kept : /\ SourceFinding(i) \in FindingRecord /\ SourceFinding(i).sev = Pool[i].sev
                        /\ SourceFinding(i).verdict = "" /\ SourceFinding(i).risk = ""
    BY <1>3, EngineAssumption DEF SourceFinding, Finding, FindingRecord, Severities, Ids
  <1>8. IsList(report'.findings) /\ Unverified(report'.findings)
    BY <1>2, <1>3, <1>7 DEF IsList, Unverified
  <1>9. ReportType'
    BY <1>1, <1>2, <1>6, <1>8 DEF VerdictInv, ReportType, NoSummary, Summary
  <1>10. todo = {} /\ answers = [i \in Ids |-> None] /\ ~unanswered /\ Unverified(fresh)
    BY <1>1 DEF VerdictInv, AnswerInv, Early
  <1>11. ConfType' /\ ControlType' /\ AnswerType'
    BY <1>1, <1>10 DEF VerdictInv, ConfType, ControlType, AnswerType, Early
  <1>12. AnswerInv'
    <2>1. ASSUME NEW j \in DOMAIN report'.findings PROVE Agrees(j)'
      BY <1>1, <1>8, <1>10, NoneFields DEF Agrees, Unverified, IsList
    <2> QED BY <2>1, <1>1, <1>8, <1>10 DEF AnswerInv, Early
  <1>13. GateInv' /\ ConclusionInv'
    BY <1>1 DEF VerdictInv, GateInv, ConclusionInv, ConclusionSound, Late
  <1>14. CleanInv'
    <2>1. ScannedSource' = ScannedSource /\ ScannedSource \subseteq all
      BY <1>1 DEF ScannedSource, all
    <2>2. ~cut => Lists(ScannedSource)'
      BY <2>1, <1>2, <1>5, <1>7 DEF Lists
    <2> QED BY <1>1, <1>2, <2>2 DEF CleanInv, Late
  <1> QED BY <1>9, <1>11, <1>12, <1>13, <1>14 DEF VerdictInv

(* What the binary channel lists is a list of findings without a verdict. *)
LEMMA BinaryFindingsType ==
  ASSUME ConfType
  PROVE  IsList(BinaryFindings) /\ Unverified(BinaryFindings) /\ BinarySummary \in Summary
  <1>1. UnderCap(Listed) \in SUBSET Ids
    BY DEF ConfType, UnderCap, Listed, Cap, Arm
  <1>2. ASSUME NEW i \in Ids PROVE BinarySeverity(i) \in Severities
    BY EngineAssumption DEF BinarySeverity, Severities, Ids
  <1>3. \A i \in Ids : /\ Finding(BinarySeverity(i), FALSE) \in FindingRecord
                       /\ Finding(BinarySeverity(i), FALSE).verdict = ""
                       /\ Finding(BinarySeverity(i), FALSE).risk = ""
    BY <1>2 DEF Finding, FindingRecord
  <1>4. IsList(BinaryFindings) /\ Unverified(BinaryFindings)
    BY <1>1, <1>3 DEF BinaryFindings, IsList, Unverified
  <1>5. pkg.unreadable \in SUBSET Files /\ Bounded \cap Executable \in SUBSET Files
    BY DEF ConfType, Bounded, Claimed
  <1>6. BinarySummary \in Summary
    BY <1>5, FiniteFiles, FS_CardinalityType DEF BinarySummary, Summary
  <1> QED BY <1>4, <1>6

(* The binary pass: off, done, or failed as a whole (runBinaryChannel). *)
LEMMA BinaryPassStep ==
  ASSUME VerdictInv, BinaryPass
  PROVE  VerdictInv'
  <1>1. /\ pc = "binary" /\ pc' = IF conf.binary THEN "merge" ELSE "decide"
        /\ conf' = conf /\ pkg' = pkg /\ answers' = answers
        /\ todo' = todo /\ unanswered' = unanswered
        /\ cancelled' = cancelled /\ attempt' = attempt /\ conclusion' = conclusion
    BY DEF BinaryPass, clientVars
  <1>2. todo = {} /\ answers = [i \in Ids |-> None] /\ ~unanswered
        /\ Unverified(report.findings) /\ Unverified(fresh)
    BY <1>1 DEF VerdictInv, AnswerInv, Early
  <1>3. conf.binary \in BOOLEAN
    BY DEF VerdictInv, ConfType
  <1>4. \/ ~conf.binary /\ report' = report /\ fresh' = fresh
        \/ /\ conf.binary /\ report' = [report EXCEPT !.binary = BinarySummary]
           /\ fresh' = BinaryFindings
        \/ /\ conf.binary /\ fresh' = fresh
           /\ report' = [report EXCEPT !.binary = ErroredSummary]
    BY <1>3 DEF BinaryPass
  <1>5. ErroredSummary \in Summary /\ ErroredSummary.ran /\ ErroredSummary.errored
    BY DEF ErroredSummary, Summary
  <1>6. /\ report' = [report EXCEPT !.binary = report'.binary]
        /\ report'.findings = report.findings /\ report'.truncated = report.truncated
        /\ report'.complete = report.complete /\ report'.degraded = report.degraded
        /\ report'.passed = report.passed /\ report'.binary \in Summary
        /\ IsList(fresh') /\ Unverified(fresh')
        /\ ~conf.binary => report' = report
        /\ conf.binary =>
             /\ report'.binary.ran
             /\ report'.binary.errored \/ (fresh' = BinaryFindings /\ report'.binary = BinarySummary)
    <2>1. CASE ~conf.binary /\ report' = report /\ fresh' = fresh
      BY <2>1, <1>2 DEF VerdictInv, ReportType
    <2>2. CASE /\ conf.binary /\ report' = [report EXCEPT !.binary = BinarySummary]
               /\ fresh' = BinaryFindings
      <3>1. IsList(BinaryFindings) /\ Unverified(BinaryFindings) /\ BinarySummary \in Summary
        BY BinaryFindingsType DEF VerdictInv
      <3>2. BinarySummary.ran
        BY DEF BinarySummary
      <3> QED BY <2>2, <3>1, <3>2 DEF VerdictInv, ReportType
    <2>3. CASE /\ conf.binary /\ fresh' = fresh
               /\ report' = [report EXCEPT !.binary = ErroredSummary]
      BY <2>3, <1>2, <1>5 DEF VerdictInv, ReportType
    <2> QED BY <1>4, <2>1, <2>2, <2>3
  <1>7. ReportType'
    BY <1>6 DEF VerdictInv, ReportType
  <1>8. ConfType' /\ ControlType' /\ AnswerType'
    BY <1>1, <1>2, <1>6 DEF VerdictInv, ConfType, ControlType, AnswerType, Early
  <1>9. AnswerInv'
    <2>1. ASSUME NEW j \in DOMAIN report.findings PROVE Agrees(j)'
      <3>1. report'.findings[j].verdict = "" /\ report'.findings[j].risk = ""
        BY <1>2, <1>6 DEF Unverified
      <3>2. answers'[j] = None
        BY <1>1, <1>2 DEF VerdictInv, ReportType, IsList
      <3> QED BY <3>1, <3>2, NoneFields DEF Agrees
    <2> QED BY <2>1, <1>1, <1>2, <1>6 DEF AnswerInv, Early
  <1>10. GateInv' /\ ConclusionInv'
    BY <1>1 DEF VerdictInv, GateInv, ConclusionInv, ConclusionSound, Late
  <1>11. CleanInv'
    <2>1. ScannedSource' = ScannedSource /\ Owed' = Owed /\ BinaryFindings' = BinaryFindings
          /\ BinarySummary' = BinarySummary
      BY <1>1 DEF ScannedSource, Owed, BinaryFindings, BinarySummary, BinarySeverity, Corroborated,
             Listed, Claimed, UnderCap, Bounded
    <2>2. ~report.truncated => Lists(ScannedSource)
      BY <1>1 DEF VerdictInv, CleanInv
    <2>3. CASE conf.binary
      BY <2>1, <2>2, <2>3, <1>1, <1>6 DEF CleanInv, Lists, Late
    <2>4. CASE ~conf.binary
      <3>1. pkg.unreadable = {} => Owed \subseteq ScannedSource
        BY <2>4, EngineAssumption DEF Owed, ScannedSource, Arm, VerdictInv, ConfType
      <3>2. ProvesCleanScan(report) => ~report.truncated
        BY DEF ProvesCleanScan
      <3> QED BY <2>1, <2>2, <2>4, <3>1, <3>2, <1>1, <1>6 DEF CleanInv, Lists
    <2> QED BY <2>3, <2>4
  <1> QED BY <1>7, <1>8, <1>9, <1>10, <1>11 DEF VerdictInv

(* What recomputeReportPassed changes, and what it takes for it to pass. *)
LEMMA Recomputed ==
  ASSUME NEW r, NEW honor \in BOOLEAN,
         r = [findings |-> r.findings, complete |-> r.complete, truncated |-> r.truncated,
              degraded |-> r.degraded, passed |-> r.passed, binary |-> r.binary]
  PROVE  LET q == RecomputePassed(r, honor)
         IN  /\ q = [findings |-> r.findings, complete |-> r.complete,
                     truncated |-> r.truncated, degraded |-> r.degraded,
                     passed |-> q.passed, binary |-> r.binary]
             /\ q.passed \in BOOLEAN
             /\ q.passed => ProvesCleanScan(q)
             /\ q.passed => ProvesCleanScan(r)
             /\ q.passed => Cleared(r.findings)
             /\ (q.passed /\ ~honor) => \A i \in DOMAIN r.findings : r.findings[i].sev # "HIGH"
  <1> DEFINE b == /\ \A i \in DOMAIN r.findings :
                       r.findings[i].sev = "HIGH" => honor /\ r.findings[i].verdict = "BENIGN"
                  /\ ProvesCleanScan(r)
             q == RecomputePassed(r, honor)
  <1>1. q = [r EXCEPT !.passed = b]
    BY DEF RecomputePassed
  <1>2. /\ b \in BOOLEAN /\ (b => ProvesCleanScan(r)) /\ (b => Cleared(r.findings))
        /\ (b /\ ~honor) => \A i \in DOMAIN r.findings : r.findings[i].sev # "HIGH"
    BY DEF Cleared
  <1> HIDE DEF b, q
  <1>3. q = [findings |-> r.findings, complete |-> r.complete, truncated |-> r.truncated,
             degraded |-> r.degraded, passed |-> b, binary |-> r.binary]
    BY <1>1
  <1>4. ProvesCleanScan(q) <=> ProvesCleanScan(r)
    BY <1>3 DEF ProvesCleanScan
  <1>5. q.passed = b
    BY <1>3
  <1>6. q = [findings |-> r.findings, complete |-> r.complete, truncated |-> r.truncated,
             degraded |-> r.degraded, passed |-> q.passed, binary |-> r.binary]
    BY <1>3, <1>5
  <1> QED BY <1>2, <1>4, <1>5, <1>6 DEF q

(* A merge that proves a clean scan lists every candidate its arm owes: nothing was
   unreadable, cut off by a bound or over the cap, and no source reading of an
   unclaimed file was dropped. *)
LEMMA MergedLists ==
  ASSUME VerdictInv, pc = "merge", ProvesCleanScan(report), NEW i \in Owed
  PROVE  i \in DOMAIN MergedFindings /\ MergedFindings[i].sev = Pool[i].sev
  <1>1. /\ conf.binary /\ report.binary.ran /\ ~report.binary.errored /\ ~report.truncated
        /\ fresh = BinaryFindings /\ report.binary = BinarySummary
        /\ report.binary.incomplete = 0 /\ report.binary.boundedExec = 0
        /\ Lists(ScannedSource)
    BY DEF VerdictInv, CleanInv, ProvesCleanScan
  <1>2. pkg.unreadable = {} /\ Bounded \cap Executable = {}
    <2>1. pkg.unreadable \in SUBSET Files /\ Bounded \cap Executable \in SUBSET Files
      BY DEF VerdictInv, ConfType, Bounded, Claimed
    <2>2. Cardinality(pkg.unreadable) = 0 /\ Cardinality(Bounded \cap Executable) = 0
      BY <1>1 DEF BinarySummary
    <2> QED BY <2>1, <2>2, FiniteFiles, FS_EmptySet
  <1> DEFINE kept == {j \in DOMAIN report.findings : FileOf(j) \notin Claimed}
  <1>3. MergedFindings = [j \in kept \cup DOMAIN fresh |->
                            IF j \in DOMAIN fresh THEN fresh[j] ELSE report.findings[j]]
    BY <1>1 DEF MergedFindings
  <1>4. Claimed = pkg.binaries
    BY <1>2 DEF Claimed
  <1>5. /\ i \in pkg.present /\ i \in Ids /\ Pool[i].sev \in {"HIGH", "MEDIUM"}
        /\ \/ Pool[i].arm = "binary" /\ FileOf(i) \in Executable /\ BinarySeverity(i) = Pool[i].sev
           \/ Pool[i].arm = "source" /\ FileOf(i) \notin pkg.binaries
    BY <1>1 DEF Owed, VerdictInv, ConfType
  <1>6. DOMAIN fresh = UnderCap(Listed)
    BY <1>1 DEF BinaryFindings
  <1>7. CASE Pool[i].arm = "binary" /\ FileOf(i) \in Executable /\ BinarySeverity(i) = Pool[i].sev
    <2>1. i \in Arm("binary") /\ FileOf(i) \in pkg.binaries
      BY <1>5, <1>7 DEF Arm, VerdictInv, ConfType
    <2>2. i \notin pkg.hidden
      BY <1>2, <1>4, <1>7, <2>1 DEF Bounded
    <2>3. i \in Listed
      BY <1>4, <1>5, <2>1, <2>2 DEF Listed
    <2>4. i \in UnderCap(Listed)
      BY <2>3, <1>5, <1>7 DEF UnderCap
    <2>5. fresh[i].sev = Pool[i].sev
      BY <2>4, <1>1, <1>7 DEF BinaryFindings, Finding
    <2> QED BY <1>3, <1>6, <2>4, <2>5
  <1>8. CASE Pool[i].arm = "source" /\ FileOf(i) \notin pkg.binaries
    <2>1. i \in ScannedSource
      BY <1>2, <1>5, <1>8 DEF ScannedSource, Arm
    <2>2. i \in kept /\ report.findings[i].sev = Pool[i].sev
      BY <2>1, <1>1, <1>4, <1>8 DEF Lists
    <2>3. i \notin DOMAIN fresh
      BY <1>6, <1>8 DEF UnderCap, Cap, Listed, Arm
    <2> QED BY <1>3, <2>2, <2>3
  <1> QED BY <1>5, <1>7, <1>8

(* The binary findings replace the source readings of the files they claim (mergeBinaryFindings). *)
LEMMA MergeStep ==
  ASSUME VerdictInv, Merge
  PROVE  VerdictInv'
  <1> DEFINE r == [report EXCEPT !.findings = MergedFindings]
  <1>1. /\ pc = "merge" /\ pc' = "decide" /\ report' = RecomputePassed(r, FALSE)
        /\ fresh' = NoFindings /\ conf' = conf /\ pkg' = pkg /\ answers' = answers
        /\ todo' = todo /\ unanswered' = unanswered
        /\ cancelled' = cancelled /\ attempt' = attempt /\ conclusion' = conclusion
    BY DEF Merge, clientVars
  <1>2. todo = {} /\ answers = [i \in Ids |-> None] /\ ~unanswered
        /\ Unverified(report.findings) /\ Unverified(fresh)
    BY <1>1 DEF VerdictInv, AnswerInv, Early
  <1>3. r = [findings |-> MergedFindings, complete |-> report.complete,
             truncated |-> report.truncated, degraded |-> report.degraded,
             passed |-> report.passed, binary |-> report.binary]
    BY DEF VerdictInv, ReportType
  <1>4. IsList(MergedFindings) /\ Unverified(MergedFindings)
    <2> DEFINE claimed == IF report.binary.errored THEN {} ELSE Claimed
               kept == {i \in DOMAIN report.findings : FileOf(i) \notin claimed}
    <2>1. MergedFindings = [i \in kept \cup DOMAIN fresh |->
                              IF i \in DOMAIN fresh THEN fresh[i] ELSE report.findings[i]]
      BY DEF MergedFindings
    <2>2. kept \subseteq DOMAIN report.findings
      OBVIOUS
    <2> HIDE DEF kept
    <2> QED BY <2>1, <2>2, <1>2 DEF IsList, Unverified, VerdictInv, ReportType
  <1> HIDE DEF r
  <1>5. /\ report' = [findings |-> MergedFindings, complete |-> report.complete,
                      truncated |-> report.truncated, degraded |-> report.degraded,
                      passed |-> report'.passed, binary |-> report.binary]
        /\ report'.passed \in BOOLEAN
        /\ report'.passed => ProvesCleanScan(report')
        /\ report'.findings = MergedFindings
    <2>1. /\ r = [findings |-> r.findings, complete |-> r.complete, truncated |-> r.truncated,
                  degraded |-> r.degraded, passed |-> r.passed, binary |-> r.binary]
          /\ r.findings = MergedFindings /\ r.complete = report.complete
          /\ r.truncated = report.truncated /\ r.degraded = report.degraded
          /\ r.binary = report.binary
      BY <1>3
    <2> DEFINE q == RecomputePassed(r, FALSE)
    <2>2. /\ q = [findings |-> r.findings, complete |-> r.complete,
                  truncated |-> r.truncated, degraded |-> r.degraded,
                  passed |-> q.passed, binary |-> r.binary]
          /\ q.passed \in BOOLEAN /\ (q.passed => ProvesCleanScan(q))
      BY <2>1, Recomputed
    <2>3. report' = q
      BY <1>1
    <2> HIDE DEF q
    <2>4. report'.findings = MergedFindings
      BY <2>1, <2>2, <2>3
    <2>5. report'.passed \in BOOLEAN /\ (report'.passed => ProvesCleanScan(report'))
      BY <2>2, <2>3
    <2> QED BY <2>1, <2>2, <2>3, <2>4, <2>5
  <1>6. IsList(fresh') /\ Unverified(fresh')
    BY <1>1 DEF NoFindings, IsList, Unverified
  <1>7. ReportType'
    BY <1>4, <1>5, <1>6 DEF VerdictInv, ReportType
  <1>8. ConfType' /\ ControlType' /\ AnswerType'
    BY <1>1, <1>2 DEF VerdictInv, ConfType, ControlType, AnswerType, Early
  <1>9. AnswerInv'
    <2>1. ASSUME NEW j \in DOMAIN report'.findings PROVE Agrees(j)'
      <3>1. report'.findings[j].verdict = "" /\ report'.findings[j].risk = "" /\ j \in Ids
        <4>1. j \in DOMAIN MergedFindings /\ report'.findings[j] = MergedFindings[j]
          BY <1>5
        <4> QED BY <4>1, <1>4 DEF Unverified, IsList
      <3>2. answers'[j] = None
        BY <1>1, <1>2, <3>1
      <3> QED BY <3>1, <3>2, NoneFields DEF Agrees
    <2> QED BY <2>1, <1>1, <1>2, <1>4, <1>5, <1>6 DEF AnswerInv, Early
  <1>10. GateInv'
    BY <1>1, <1>5 DEF GateInv
  <1>11. ConclusionInv'
    BY <1>1 DEF VerdictInv, ConclusionInv, ConclusionSound
  <1>12. CleanInv'
    <2>1. Owed' = Owed
      BY <1>1 DEF Owed, BinarySeverity, Corroborated, Listed, Claimed
    <2>2. ProvesCleanScan(report)' => ProvesCleanScan(report)
      BY <1>5 DEF ProvesCleanScan
    <2>3. ProvesCleanScan(report)' => Lists(Owed)'
      <3>1. ProvesCleanScan(report)' =>
              \A i \in Owed : i \in DOMAIN MergedFindings /\ MergedFindings[i].sev = Pool[i].sev
        BY <2>2, <1>1, MergedLists
      <3>2. report'.findings = MergedFindings
        BY <1>5
      <3> QED BY <2>1, <3>1, <3>2 DEF Lists
    <2> QED BY <2>3, <1>1 DEF CleanInv
  <1> QED BY <1>7, <1>8, <1>9, <1>10, <1>11, <1>12 DEF VerdictInv

(* GenerateAuditReport between the scans and the LLM. *)
LEMMA DecideStep ==
  ASSUME VerdictInv, Decide
  PROVE  VerdictInv'
  <1>1. /\ pc = "decide" /\ conf' = conf /\ pkg' = pkg /\ answers' = answers
        /\ fresh' = fresh /\ unanswered' = unanswered
        /\ cancelled' = cancelled /\ attempt' = attempt /\ conclusion' = conclusion
    BY DEF Decide
  <1>2. todo = {} /\ answers = [i \in Ids |-> None] /\ ~unanswered
    BY <1>1 DEF VerdictInv, AnswerInv, Early
  <1>3. \/ pc' = "failed" /\ report' = report /\ todo' = todo
        \/ /\ pc' = "assemble" /\ todo' = todo /\ ~(conf.llm = "on" /\ LlmWanted)
           /\ report' = report \/ report' = [report EXCEPT !.degraded = TRUE]
        \/ pc' = "verify" /\ report' = report /\ todo' = Limited
    BY DEF Decide
  <1>4. Limited \subseteq DOMAIN report.findings
    BY DEF Limited, Cap
  <1>5. /\ report' = [findings |-> report.findings, complete |-> report.complete,
                     truncated |-> report.truncated, degraded |-> report'.degraded,
                     passed |-> report.passed, binary |-> report.binary]
        /\ report'.degraded \in BOOLEAN
    BY <1>3 DEF VerdictInv, ReportType
  <1>6. /\ report'.findings = report.findings /\ report'.passed = report.passed
        /\ report'.complete = report.complete /\ report'.truncated = report.truncated
        /\ report'.binary = report.binary
    BY <1>5
  <1>7. ReportType' /\ SameScan
    BY <1>1, <1>5, <1>6 DEF VerdictInv, ReportType, SameScan
  <1>8. ConfType' /\ ControlType' /\ AnswerType'
    BY <1>1, <1>3, <1>4, <1>6 DEF VerdictInv, ConfType, ControlType, AnswerType, Late
  <1>9. AnswerInv'
    <2>1. \A j \in todo' : answers'[j] = None
      BY <1>1, <1>2, <1>3, <1>4 DEF VerdictInv, ReportType, IsList
    <2> QED BY <2>1, <1>1, <1>3, <1>6 DEF VerdictInv, AnswerInv, Agrees, Early
  <1>10. GateInv'
    BY <1>1, <1>2, <1>3, <1>6 DEF VerdictInv, GateInv, ProvesCleanScan, LlmWanted, Late
  <1>11. ConclusionInv'
    BY <1>1 DEF VerdictInv, ConclusionInv, ConclusionSound
  <1>12. CleanInv'
    BY <1>1, <1>3, <1>7, CleanFrame DEF VerdictInv, Late
  <1> QED BY <1>7, <1>8, <1>9, <1>10, <1>11, <1>12 DEF VerdictInv

(* The gate at the end of VerifyReport keeps both of its rules. *)
LEMMA AdjudicatedGate ==
  ASSUME ReportType
  PROVE  LET q == Adjudicated
         IN  /\ q = [findings |-> report.findings, complete |-> report.complete,
                     truncated |-> report.truncated, degraded |-> q.degraded,
                     passed |-> q.passed, binary |-> report.binary]
             /\ q.passed \in BOOLEAN /\ q.degraded \in BOOLEAN
             /\ q.passed => ProvesCleanScan(report) /\ Cleared(report.findings)
             /\ (q.passed /\ unanswered /\ conf.failClosed) => ~FailedClosed(report)
  <1> DEFINE on == TRUE
             off == FALSE
             r == [report EXCEPT !.degraded = on]
             T(h) == RecomputePassed(r, h)
  <1>0. on \in BOOLEAN /\ off \in BOOLEAN
    OBVIOUS
  <1> HIDE DEF on, off
  <1>1. r = [findings |-> report.findings, complete |-> report.complete,
             truncated |-> report.truncated, degraded |-> on,
             passed |-> report.passed, binary |-> report.binary]
    BY DEF ReportType
  <1>2. /\ r.findings = report.findings
        /\ ProvesCleanScan(r) <=> ProvesCleanScan(report)
        /\ FailedClosed(r) <=> FailedClosed(report)
    BY <1>1 DEF ProvesCleanScan, FailedClosed
  <1> HIDE DEF r
  <1>3. ASSUME NEW h \in BOOLEAN
        PROVE  /\ T(h) = [findings |-> report.findings, complete |-> report.complete,
                           truncated |-> report.truncated, degraded |-> on,
                           passed |-> T(h).passed, binary |-> report.binary]
               /\ T(h).passed \in BOOLEAN
               /\ T(h).passed => ProvesCleanScan(report) /\ Cleared(report.findings)
    <2>1. /\ r = [findings |-> r.findings, complete |-> r.complete, truncated |-> r.truncated,
                  degraded |-> r.degraded, passed |-> r.passed, binary |-> r.binary]
          /\ r.complete = report.complete
          /\ r.truncated = report.truncated /\ r.degraded = on
          /\ r.binary = report.binary
      BY <1>1
    <2>2. /\ T(h) = [findings |-> r.findings, complete |-> r.complete,
                     truncated |-> r.truncated, degraded |-> r.degraded,
                     passed |-> T(h).passed, binary |-> r.binary]
          /\ T(h).passed \in BOOLEAN /\ (T(h).passed => ProvesCleanScan(r) /\ Cleared(r.findings))
      BY <2>1, Recomputed
    <2> HIDE DEF T
    <2> QED BY <2>1, <2>2, <1>2
  <1> DEFINE q == Adjudicated
  <1>4. CASE ~unanswered
    <2> DEFINE p == RecomputePassed(report, TRUE)
    <2>1. /\ p = [findings |-> report.findings, complete |-> report.complete,
                  truncated |-> report.truncated, degraded |-> report.degraded,
                  passed |-> p.passed, binary |-> report.binary]
          /\ p.passed \in BOOLEAN
          /\ p.passed => ProvesCleanScan(report) /\ Cleared(report.findings)
      BY Recomputed DEF ReportType
    <2>2. q = p
      BY <1>4 DEF Adjudicated
    <2> HIDE DEF p, q
    <2>3. q.degraded \in BOOLEAN
      BY <2>1, <2>2 DEF ReportType
    <2>4. q = [findings |-> report.findings, complete |-> report.complete,
               truncated |-> report.truncated, degraded |-> q.degraded,
               passed |-> q.passed, binary |-> report.binary]
      BY <2>1, <2>2
    <2> QED BY <1>4, <2>1, <2>2, <2>3, <2>4 DEF q
  <1>5. CASE unanswered /\ ~conf.failClosed
    <2>1. q = T(off)
      BY <1>5 DEF Adjudicated, r, on, off
    <2> HIDE DEF T, q
    <2>2. q.degraded = on
      BY <2>1, <1>0, <1>3
    <2>3. q = [findings |-> report.findings, complete |-> report.complete,
               truncated |-> report.truncated, degraded |-> q.degraded,
               passed |-> q.passed, binary |-> report.binary]
      BY <2>1, <2>2, <1>0, <1>3
    <2> QED BY <1>0, <1>3, <1>5, <2>1, <2>2, <2>3 DEF q
  <1>6. CASE unanswered /\ conf.failClosed
    <2> DEFINE b == T(on).passed /\ ~FailedClosed(r)
    <2>1. q = [T(on) EXCEPT !.passed = b]
      BY <1>6 DEF Adjudicated, r, on, off
    <2>2. b \in BOOLEAN /\ (b => T(on).passed) /\ (b => ~FailedClosed(report))
      BY <1>2
    <2> HIDE DEF T, q, b
    <2>3. q = [findings |-> report.findings, complete |-> report.complete,
               truncated |-> report.truncated, degraded |-> on,
               passed |-> b, binary |-> report.binary]
      BY <2>1, <1>0, <1>3
    <2>4. q.passed = b /\ q.degraded = on
      BY <2>3
    <2>5. q = [findings |-> report.findings, complete |-> report.complete,
               truncated |-> report.truncated, degraded |-> q.degraded,
               passed |-> q.passed, binary |-> report.binary]
      BY <2>3, <2>4
    <2> QED BY <1>0, <1>3, <2>2, <2>4, <2>5 DEF q
  <1> QED BY <1>4, <1>5, <1>6

(* The end of VerifyReport: fail closed, then the gate. *)
LEMMA CloseStep ==
  ASSUME VerdictInv, CloseVerification
  PROVE  VerdictInv'
  <1>1. /\ pc \in {"close", "verify"} /\ pc' = "assemble" /\ report' = Adjudicated
        /\ conf' = conf /\ pkg' = pkg /\ answers' = answers
        /\ fresh' = fresh /\ unanswered' = unanswered /\ todo' = todo
        /\ cancelled' = cancelled /\ attempt' = attempt /\ conclusion' = conclusion
    BY DEF CloseVerification, clientVars
  <1>2. /\ report' = [findings |-> report.findings, complete |-> report.complete,
                     truncated |-> report.truncated, degraded |-> report'.degraded,
                     passed |-> report'.passed, binary |-> report.binary]
        /\ report'.passed \in BOOLEAN /\ report'.degraded \in BOOLEAN
        /\ report'.passed => ProvesCleanScan(report)
        /\ (report'.passed /\ unanswered /\ conf.failClosed) => ~FailedClosed(report)
    BY <1>1, AdjudicatedGate DEF VerdictInv
  <1>3. /\ report'.findings = report.findings
        /\ report'.complete = report.complete /\ report'.truncated = report.truncated
        /\ report'.binary = report.binary
    BY <1>2
  <1>4. ReportType' /\ SameScan
    BY <1>1, <1>2, <1>3 DEF VerdictInv, ReportType, SameScan
  <1>5. ConfType' /\ ControlType' /\ AnswerType'
    BY <1>1, <1>3 DEF VerdictInv, ConfType, ControlType, AnswerType, Late
  <1>6. AnswerInv'
    BY <1>1, <1>3 DEF VerdictInv, AnswerInv, Agrees, Early
  <1>7. GateInv'
    BY <1>1, <1>2, <1>3 DEF GateInv, ProvesCleanScan, FailedClosed
  <1>8. ConclusionInv'
    BY <1>1 DEF VerdictInv, ConclusionInv, ConclusionSound
  <1>9. CleanInv'
    BY <1>1, <1>4, CleanFrame DEF VerdictInv, Late
  <1> QED BY <1>4, <1>5, <1>6, <1>7, <1>8, <1>9 DEF VerdictInv

(* ClassifyFindingRisk lets a static HIGH or MEDIUM down to LOW only on an answer that
   clears it, or for a lenient MEDIUM. *)
LEMMA LowMeansCleared ==
  ASSUME NEW i \in Ids, NEW f \in FindingRecord, NEW a,
         \/ f.verdict = a.verdict /\ f.risk = a.risk
         \/ f.verdict \in {"", "UNCERTAIN"} /\ f.risk = "",
         ClassifyFindingRisk(i, f) \notin {"HIGH", "MEDIUM"}
  PROVE  /\ f.sev = "HIGH" => Clears(i, f, a)
         /\ f.sev = "MEDIUM" => Clears(i, f, a) \/ Lenient(i)
  <1>1. f.verdict \in Verdicts \cup {""} /\ f.sev \in Severities
    BY DEF FindingRecord
  <1>2. CASE Demoted(i, f)
    <2>1. f.verdict = a.verdict /\ f.risk = a.risk
      BY <1>2 DEF Demoted
    <2> QED BY <2>1, <1>2 DEF Demoted, Clears
  <1>3. CASE ~Demoted(i, f) /\ f.risk \in {"LOW", "NONE"}
    BY <1>3 DEF Clears
  <1>4. CASE ~Demoted(i, f) /\ (BlockingRisk(f.risk) \/ f.risk = "MEDIUM")
    BY <1>4 DEF ClassifyFindingRisk, BlockingRisk
  <1>5. CASE /\ ~Demoted(i, f) /\ ~BlockingRisk(f.risk)
             /\ f.risk \notin {"MEDIUM", "LOW", "NONE"}
    <2>1. CASE f.verdict = "BENIGN"
      <3>1. f.verdict = a.verdict /\ f.risk = a.risk
        BY <2>1
      <3> QED BY <3>1, <2>1, <1>5 DEF Clears, BlockingRisk
    <2>2. CASE f.verdict \in {"MALICIOUS", "SUSPICIOUS"}
      BY <2>2, <1>5 DEF ClassifyFindingRisk
    <2>3. CASE f.verdict \in {"UNCERTAIN", ""} /\ f.sev = "HIGH"
      BY <2>3, <1>5 DEF ClassifyFindingRisk
    <2>4. CASE f.verdict \in {"UNCERTAIN", ""} /\ f.sev = "MEDIUM"
      BY <2>4, <1>5 DEF ClassifyFindingRisk
    <2> QED BY <2>1, <2>2, <2>3, <2>4, <1>1 DEF Verdicts
  <1> QED BY <1>2, <1>3, <1>4, <1>5

(* AssembleAuditReport: the conclusion is that of the report as it stands. *)
LEMMA AssembleStep ==
  ASSUME VerdictInv, Assemble
  PROVE  VerdictInv'
  <1>1. /\ pc = "assemble" /\ pc' = "done"
        /\ UNCHANGED <<conf, pkg, report, fresh, todo, unanswered, answers, cancelled, attempt>>
    BY DEF Assemble, clientVars
  <1>2. /\ conclusion'.verdict = Conclude(report)
        /\ conclusion'.files = [file \in Files |->
              IF LlmWanted /\ conf.llm = "on" THEN SynthesizedRisk(report, file)
              ELSE InferRiskLevel(report, file)]
    BY DEF Assemble
  <1>3. ConfType' /\ ReportType' /\ AnswerType'
    BY <1>1 DEF VerdictInv, ConfType, ReportType, AnswerType
  <1>4. ControlType'
    BY <1>1 DEF VerdictInv, ControlType, Late
  <1>5. AnswerInv'
    BY <1>1 DEF VerdictInv, AnswerInv, Agrees, Early
  <1>6. GateInv'
    BY <1>1 DEF VerdictInv, GateInv, LlmWanted, Late
  <1>7. ConclusionInv'
    <2> SUFFICES ASSUME Conclude(report) = "passed" PROVE ConclusionSound'
      BY <1>1, <1>2 DEF ConclusionInv, ConclusionSound
    <2>1. DOMAIN report.findings \in SUBSET Ids
      BY DEF VerdictInv, ReportType, IsList
    <2>2. \A i \in DOMAIN report.findings :
             ClassifyFindingRisk(i, report.findings[i]) \notin {"HIGH", "MEDIUM"}
      BY <2>1, PassedCounts
    <2>3. ASSUME NEW i \in DOMAIN report.findings
          PROVE  LET f == report.findings[i]
                 IN  /\ f.sev = "HIGH" => Clears(i, f, answers[i])
                     /\ f.sev = "MEDIUM" => Clears(i, f, answers[i]) \/ Lenient(i)
      <3>1. report.findings[i] \in FindingRecord /\ Agrees(i)
        BY DEF VerdictInv, ReportType, IsList, AnswerInv
      <3> QED BY <3>1, <2>1, <2>2, LowMeansCleared DEF Agrees
    <2>4. ASSUME conf.llm = "on", NEW file \in Files PROVE conclusion'.files[file] = "LOW"
      <3>1. CASE LlmWanted
        BY <3>1, <2>2, <2>4, <1>2 DEF SynthesizedRisk, FileReported
      <3>2. CASE ~LlmWanted
        <4>1. FileReported(report, file) = {}
          BY <3>2, <2>4 DEF LlmWanted, FileReported
        <4> QED BY <4>1, <3>2, <1>2 DEF InferRiskLevel
      <3> QED BY <3>1, <3>2
    <2>5. /\ \A i \in DOMAIN report'.findings :
               LET f == report'.findings[i]
               IN  /\ f.sev = "HIGH" => Clears(i, f, answers'[i])
                   /\ f.sev = "MEDIUM" => Clears(i, f, answers'[i]) \/ Lenient(i)
          /\ conf'.llm = "on" => \A file \in Files : conclusion'.files[file] = "LOW"
      BY <2>3, <2>4, <1>1
    <2> QED BY <2>5 DEF ConclusionSound
  <1>8. CleanInv'
    <2>1. SameScan
      BY <1>1 DEF SameScan
    <2> QED BY <2>1, <1>1, CleanFrame DEF VerdictInv, Late
  <1> QED BY <1>3, <1>4, <1>5, <1>6, <1>7, <1>8 DEF VerdictInv

(* Every step of an audit keeps the invariant. *)
LEMMA EngineStep ==
  ASSUME EngineInv, [Next]_vars
  PROVE  EngineInv'
  <1>1. BreakerInv'
    BY BreakerStep DEF EngineInv, VerdictInv
  <1> SUFFICES VerdictInv'
    BY <1>1 DEF EngineInv
  <1> USE DEF EngineInv
  <1>2. cancelled \in BOOLEAN /\ attempt \in 0..MaxRetries /\ MaxRetries \in Nat
    BY EngineAssumption DEF VerdictInv, ControlType
  <1>3. CASE UNCHANGED vars
    BY <1>2, <1>3, QuietStep DEF vars
  <1>4. CASE SourceScanFails
    BY <1>2, <1>4, QuietStep DEF SourceScanFails, Fail, clientVars, Early
  <1>5. CASE SourceScan
    BY <1>5, SourceScanStep
  <1>6. CASE BinaryPass
    BY <1>6, BinaryPassStep
  <1>7. CASE BinaryCancelled
    BY <1>2, <1>7, QuietStep DEF BinaryCancelled, Fail, clientVars, Early
  <1>8. CASE Merge
    BY <1>8, MergeStep
  <1>9. CASE Decide
    BY <1>9, DecideStep
  <1>10. CASE Call
    BY <1>2, <1>10, QuietStep DEF Call
  <1>11. CASE Transient
    BY <1>2, <1>11, QuietStep DEF Transient
  <1>12. ASSUME NEW i \in todo, VerifyCancelled(i) PROVE VerdictInv'
    BY <1>12, VerifyCancelledStep
  <1>13. ASSUME NEW i \in todo, CircuitOpen(i) \/ NotSuccess(i) \/ CallFails(i) PROVE VerdictInv'
    BY <1>13, GivesUpStep DEF CircuitOpen, NotSuccess, CallFails
  <1>14. ASSUME NEW i \in todo, NEW reply \in Replies, Answered(i, reply) PROVE VerdictInv'
    BY <1>14, AnsweredStep
  <1>15. CASE CloseVerification
    BY <1>15, CloseStep
  <1>16. CASE Assemble
    BY <1>16, AssembleStep
  <1>17. CASE Cancel
    BY <1>2, <1>17, QuietStep DEF Cancel, clientVars
  <1>18. CASE Cooldown
    BY <1>2, <1>18, QuietStep DEF Cooldown
  <1> QED
    BY <1>3, <1>4, <1>5, <1>6, <1>7, <1>8, <1>9, <1>10, <1>11, <1>12, <1>13, <1>14, <1>15,
       <1>16, <1>17, <1>18
    DEF Next, Step

(* A report that passes keeps no HIGH finding that was not cleared: one that passed a
   scan lists none, and what verification adds to it is no finding. *)
LEMMA HighStep ==
  ASSUME EngineInv, HighInv, [Next]_vars
  PROVE  HighInv'
  <1> USE DEF EngineInv, VerdictInv
  <1>1. ASSUME DOMAIN report'.findings = DOMAIN report.findings, report'.passed = report.passed,
               \A j \in DOMAIN report.findings : report'.findings[j].sev = report.findings[j].sev,
               pc \in {"verify", "call"}, pc' \notin {"assemble", "done"}
        PROVE  HighInv'
    BY <1>1 DEF HighInv, Cleared
  <1>2. ASSUME report' = report, pc' = pc \/ pc \notin {"assemble", "done"} \/ pc' = "done"
        PROVE  HighInv'
    BY <1>2 DEF HighInv, Cleared
  <1>3. CASE UNCHANGED vars
    BY <1>2, <1>3 DEF vars
  <1>4. CASE SourceScanFails \/ BinaryCancelled
    BY <1>2, <1>4 DEF SourceScanFails, BinaryCancelled, Fail
  <1>5. CASE SourceScan
    <2> DEFINE all == ScannedSource \cup CrossService
               L == [i \in Cap(all, MaxSource) |-> SourceFinding(i)]
               ok == \A i \in Cap(all, MaxSource) : Pool[i].sev # "HIGH"
    <2>1. report'.findings = L /\ report'.passed = ok
      BY <1>5 DEF SourceScan, SourceReport, EmptyReport
    <2>2. DOMAIN L = Cap(all, MaxSource) /\ \A i \in DOMAIN L : L[i].sev = Pool[i].sev
      BY DEF SourceFinding, Finding
    <2> HIDE DEF all, L
    <2> QED BY <2>1, <2>2 DEF HighInv, Cleared
  <1>6. CASE BinaryPass
    <2>1. report'.findings = report.findings /\ report'.passed = report.passed
      BY <1>6 DEF BinaryPass, ReportType
    <2>2. pc = "binary"
      BY <1>6 DEF BinaryPass
    <2> QED BY <2>1, <2>2 DEF HighInv, Cleared
  <1>7. CASE Merge
    <2> DEFINE r == [report EXCEPT !.findings = MergedFindings]
               honor == FALSE
    <2>1. /\ r = [findings |-> r.findings, complete |-> r.complete, truncated |-> r.truncated,
                  degraded |-> r.degraded, passed |-> r.passed, binary |-> r.binary]
      BY DEF ReportType
    <2>2. report' = RecomputePassed(r, honor) /\ honor \in BOOLEAN /\ ~honor
      BY <1>7 DEF Merge
    <2> HIDE DEF r, honor
    <2>3. /\ report'.findings = r.findings
          /\ report'.passed => \A i \in DOMAIN r.findings : r.findings[i].sev # "HIGH"
      BY <2>1, <2>2, Recomputed
    <2> QED BY <2>3 DEF HighInv, Cleared
  <1>8. CASE Decide
    <2>1. report'.findings = report.findings /\ report'.passed = report.passed /\ pc = "decide"
      BY <1>8 DEF Decide, ReportType
    <2> QED BY <2>1 DEF HighInv, Cleared
  <1>9. CASE Call \/ Transient \/ Cancel \/ Cooldown
    BY <1>2, <1>9 DEF Call, Transient, Cancel, Cooldown
  <1>10. ASSUME NEW i \in todo, VerifyCancelled(i) PROVE HighInv'
    <2>1. /\ DOMAIN report'.findings = DOMAIN report.findings /\ report'.passed = report.passed
          /\ \A j \in DOMAIN report.findings : report'.findings[j].sev = report.findings[j].sev
      BY <1>10 DEF VerifyCancelled, ReportType, IsList, FindingRecord, Uncertain
    <2> QED BY <1>1, <1>10, <2>1 DEF VerifyCancelled
  <1>11. ASSUME NEW i \in todo, CircuitOpen(i) \/ NotSuccess(i) \/ CallFails(i) PROVE HighInv'
    <2>1. GivesUp(i) /\ pc \in {"verify", "call"}
      BY <1>11 DEF CircuitOpen, NotSuccess, CallFails
    <2>2. pc' = "verify" /\ report' = [report EXCEPT !.findings[i] = Uncertain(report.findings[i])]
      BY <2>1 DEF GivesUp
    <2>3. ReportType
      OBVIOUS
    <2>4. /\ report'.findings = [report.findings EXCEPT ![i] = Uncertain(report.findings[i])]
          /\ report'.passed = report.passed
      BY <2>2, <2>3 DEF ReportType
    <2>5. Uncertain(report.findings[i]).sev = report.findings[i].sev
      BY <2>3 DEF ReportType, ControlType, IsList, FindingRecord, Uncertain
    <2>6. /\ DOMAIN report'.findings = DOMAIN report.findings
          /\ \A j \in DOMAIN report.findings : report'.findings[j].sev = report.findings[j].sev
      BY <2>3, <2>4, <2>5 DEF ReportType, IsList
    <2> QED BY <1>1, <2>1, <2>2, <2>4, <2>6
  <1>12. ASSUME NEW i \in todo, NEW reply \in Replies, Answered(i, reply) PROVE HighInv'
    <2>1. pc = "call" /\ pc' = "verify"
      BY <1>12 DEF Answered
    <2> DEFINE d == ParseDecision(reply)
               g == [report.findings[i] EXCEPT !.verdict = d.verdict, !.risk = d.risk]
    <2>2. ReportType /\ ControlType
      OBVIOUS
    <2>3. i \in DOMAIN report.findings /\ i \in Ids /\ report.findings[i] \in FindingRecord
      BY <2>2 DEF ControlType, ReportType, IsList
    <2>4. report' = [report EXCEPT !.findings = [report.findings EXCEPT ![i] = g]]
      BY <1>12, <2>2, <2>3 DEF Answered, ReportType
    <2>5. g.sev = report.findings[i].sev
      BY <2>3 DEF FindingRecord
    <2> HIDE DEF d, g
    <2>6. /\ report'.findings = [report.findings EXCEPT ![i] = g]
          /\ report'.passed = report.passed
      BY <2>2, <2>4 DEF ReportType
    <2>7. /\ DOMAIN report'.findings = DOMAIN report.findings
          /\ \A j \in DOMAIN report.findings : report'.findings[j].sev = report.findings[j].sev
      BY <2>2, <2>5, <2>6 DEF ReportType, IsList
    <2> QED BY <1>1, <2>1, <2>6, <2>7
  <1>13. CASE CloseVerification
    <2>1. report' = Adjudicated /\ pc' = "assemble"
      BY <1>13 DEF CloseVerification
    <2>2. report'.findings = report.findings /\ (report'.passed => Cleared(report.findings))
      BY <2>1, AdjudicatedGate
    <2> QED BY <2>1, <2>2 DEF HighInv
  <1>14. CASE Assemble
    BY <1>2, <1>14 DEF Assemble
  <1> QED
    BY <1>3, <1>4, <1>5, <1>6, <1>7, <1>8, <1>9, <1>10, <1>11, <1>12, <1>13, <1>14 DEF Next, Step

(* The invariant holds throughout. *)
LEMMA EngineInvariant == Spec => []EngineInv
  BY InitInv, EngineStep, PTL DEF Spec
-----------------------------------------------------------------------------
(* The breaker of the inference client is never wedged (circuit_breaker.go): between
   calls no probe is held, a call in flight was admitted, and the circuit is closed
   only below the threshold, for every threshold and number of retries. *)
THEOREM BreakerCorrect == Spec => []BreakerSound
  <1>1. EngineInv => BreakerSound
    BY DEF EngineInv, BreakerInv
  <1> QED BY <1>1, EngineInvariant, PTL

(* Neither verdict of GenerateAuditReport lets a package through on findings nobody
   cleared, for every pool of candidates, set of replies, cap and verification limit: a
   HIGH one for Report.Passed, a HIGH or MEDIUM one for the conclusion. *)
THEOREM AllowCorrect == Spec => []NoSilentAllow
  <1>1. EngineInv /\ HighInv => NoSilentAllow
    <2> SUFFICES ASSUME EngineInv, HighInv PROVE ConclusionSound /\ GateSound
      BY DEF NoSilentAllow
    <2>1. ConclusionSound
      BY DEF EngineInv, VerdictInv, ConclusionInv
    <2>2. GateSound
      <3> SUFFICES ASSUME pc = "done", report.passed PROVE GateSound
        BY DEF GateSound
      <3>1. (conf.binary \/ (conf.llm = "on" /\ LlmWanted)) => ProvesCleanScan(report)
        BY DEF EngineInv, VerdictInv, GateInv, Late
      <3>2. ASSUME NEW i \in DOMAIN report.findings, report.findings[i].verdict = "BENIGN"
            PROVE  answers[i].verdict = "BENIGN"
        BY <3>2 DEF EngineInv, VerdictInv, AnswerInv, Agrees
      <3>3. ASSUME unanswered, conf.failClosed, NEW i \in DOMAIN report.findings,
                   report.findings[i].sev = "MEDIUM"
            PROVE  answers[i].verdict = "BENIGN"
        BY <3>2, <3>3 DEF EngineInv, VerdictInv, GateInv, FailedClosed
      <3>4. ASSUME NEW i \in DOMAIN report.findings, report.findings[i].sev = "HIGH"
            PROVE  answers[i].verdict = "BENIGN"
        BY <3>2, <3>4 DEF HighInv, Cleared
      <3> QED BY <3>1, <3>3, <3>4 DEF GateSound
    <2> QED BY <2>1, <2>2
  <1>2. Init => HighInv
    BY DEF Init, HighInv, EmptyReport
  <1> QED BY <1>1, <1>2, EngineInvariant, HighStep, PTL DEF Spec

(* A report that proves a clean scan (Report.ProvesCleanScan) lists every blocking
   finding an arm owes, with its severity, whatever the caps, the unreadable files and
   the resource bounds of the binary channel. *)
THEOREM CleanScanCorrect == Spec => []CleanScanSound
  <1>1. EngineInv => CleanScanSound
    BY DEF EngineInv, VerdictInv, CleanInv, CleanScanSound, Lists, Late
  <1> QED BY <1>1, EngineInvariant, PTL
=============================================================================
