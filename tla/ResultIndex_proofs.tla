------------------------- MODULE ResultIndex_proofs -------------------------
(***************************************************************************)
(* Proofs about ResultIndex, for any jobs, ids and exports and any number  *)
(* of crashes and faults.                                                  *)
(*                                                                         *)
(* The argument follows a job's traces.  What is in a result directory has *)
(* a record in memory and in the file, because Commit saves before Collect *)
(* copies and Purge renames before it saves; records of one snapshot share *)
(* no id, so a directory holds the artefacts of one record; and a recovery *)
(* works for the sealed task, which it answers before it lets it go.       *)
(***************************************************************************)
EXTENDS ResultIndex, FiniteSetTheorems, TLAPS

(* The sealed task is the job in flight, or the one a crash cut off. *)
TaskSound ==
    /\ \A j \in Jobs : jpc[j] \in InFlight => boot = "serve" /\ task = j
    /\ boot = "serve" => task = sealedTask /\ (task # None => jpc[task] \in InFlight)
    /\ boot = "down" /\ sealedTask # None => jpc[sealedTask] = "lost"
    /\ boot \notin {"down", "serve"} =>
         task # None /\ task = sealedTask /\ jpc[task] = "lost"
    /\ \A j \in Jobs : jpc[j] = "import" => Kind[j] = "model"

(* No two records of one snapshot share an id, nor does a job that is about to
   commit with any of them. *)
Distinct(R) == \A j, k \in R : j # k => ~Overlap(j, k)
UniqueSound ==
    /\ Distinct(records) /\ Distinct(file.records) /\ Distinct(bak.records)
    /\ \A j \in Jobs : jpc[j] \in {"download", "commit"} => \A k \in records : ~Overlap(j, k)

(* A job works on its artefacts only with its record saved, and has no verdict
   before its check. *)
RecordSound ==
    \A j \in Jobs :
        /\ jpc[j] \in {"train", "check", "report", "send"} => j \in records /\ j \in file.records
        /\ jpc[j] \in {"new", "reserve", "download", "commit", "train", "check"} =>
             verdict[j] = "none" /\ file.verdict[j] = "none" /\ bak.verdict[j] = "none"
        /\ jpc[j] \in {"check", "report", "send"} => j \in dirs[Path(j)].files

(* Artefacts lie in their own job's directory, and their record exists. *)
FilesSound ==
    corruptions = 0 =>
        /\ damaged = FALSE
        /\ \A j \in Jobs, p \in Paths : j \in dirs[p].files =>
              Path(j) = p /\ j \in file.records /\ (boot # "down" => j \in records)

(* An export works on a record that stays, and a passing verdict stays. *)
ExportSound ==
    \A x \in Exports :
        /\ xpc[x] \in {"found", "pack"} =>
             /\ boot = "serve" /\ xrec[x] \in records
             /\ xver[x] = "passed" => verdict[xrec[x]] = "passed"
        /\ xpc[x] = "pack" => MayExport(xver[x])

(* What a recovery has put out of the way, stage by stage. *)
ClearedSound ==
    /\ boot \in {"count", "isolate", "purge"} => unsaved = FALSE
    /\ boot \in {"save", "archive", "queue", "reset"} /\ task \notin deadLetter =>
         task \notin records
    /\ boot \in {"archive", "queue", "reset"} /\ task \notin deadLetter =>
         (task \in file.records => saveFailures > 0 \/ corruptions > 0)
    /\ boot \in {"queue", "reset"} /\ task \notin deadLetter => task \notin dirs[Path(task)].files
    /\ \A j \in recovered :
         /\ jpc[j] = "lost" /\ j \notin dirs[Path(j)].files
         /\ j \in records \/ j \in file.records => saveFailures > 0 \/ corruptions > 0

(* A lost job is answered, given up, still sealed for the next start-up, or was
   inside its panic handler. *)
Reported(j) == \E code \in {0, 1, 2} : <<j, code>> \in reports
AnswerSound ==
    /\ \A j \in Jobs : jpc[j] = "lost" =>
         j \in deadLetter \cup unanswered \/ Reported(j) \/ sealedTask = j
    /\ boot = "reset" => task \in deadLetter \/ Reported(task)

(* A job that reported its result has its artefacts, unless the recovery of a
   job that shares an id with it took them. *)
Succeeded(j) == \E code \in {0, 2} : <<j, code>> \in reports
Displaced(j) == \E k \in Jobs \ {j} : Overlap(j, k) /\ recoveries[k] > 0
KeptSound ==
    \A j \in Jobs : Succeeded(j) =>
        /\ jpc[j] \in {"release", "done", "lost"}
        /\ jpc[j] \in {"release", "done"} /\ Kind[j] = "data" /\ corruptions = 0 =>
             j \in dirs[Path(j)].files \/ Displaced(j)

(* Every attempt the counter has seen was begun, and a recovery removes nothing
   before it is counted. *)
TriesSound ==
    /\ boot \in {"isolate", "purge", "save", "archive"} => recoveries[task] > 0
    /\ sealedTask # None => sealedTries <= recoveries[sealedTask]
    /\ task # None => tries <= recoveries[task]
    /\ BreakerNotEarly
-----------------------------------------------------------------------------
(***************************************************************************)
(* Types, part by part.  The set of panicked jobs grows by one job at a    *)
(* time, so it stays finite and its size is a number the budget of faults  *)
(* can count.                                                              *)
(***************************************************************************)
BoolOK == damaged \in BOOLEAN /\ unsaved \in BOOLEAN

PairOK == reports \subseteq Jobs \X {0, 1, 2} /\ sent \subseteq Jobs \X Verdicts

CountOK ==
    /\ IsFiniteSet(panicked)
    /\ saveFailures \in 0..MaxFaults /\ staleBaks \in 0..MaxFaults
    /\ corruptions \in 0..MaxFaults /\ crashes \in 0..MaxCrashes
    /\ recoveries \in [Jobs -> Nat]

IndexOK ==
    /\ outcome \in [Jobs -> Verdicts]
    /\ records \subseteq Jobs /\ verdict \in [Jobs -> Verdicts]
    /\ pending \subseteq UNION {IdsOf(j) : j \in Jobs}
    /\ file \in Snapshots /\ bak \in Snapshots

TaskOK ==
    /\ jpc \in [Jobs -> JobStages] /\ boot \in BootStages
    /\ task \in Jobs \cup {None} /\ sealedTask \in Jobs \cup {None}
    /\ tries \in 0..MaxAttempts /\ sealedTries \in 0..MaxAttempts
    /\ boot \notin {"down", "serve"} => task # None

ExportOK ==
    /\ xpc \in [Exports -> {"new", "found", "pack", "sent", "refused"}]
    /\ xrec \in [Exports -> Jobs \cup {None}] /\ xver \in [Exports -> Verdicts]
    /\ \A x \in Exports : xpc[x] \in {"found", "pack"} => xrec[x] \in Jobs

DirOK ==
    /\ dirs \in [Paths -> [files : SUBSET Jobs, report : BOOLEAN]]
    /\ archives \subseteq {ArchiveId(j) : j \in Jobs}
    /\ recovered \subseteq Jobs /\ deadLetter \subseteq Jobs /\ panicked \subseteq Jobs
    /\ unanswered \subseteq Jobs

PartsOK == BoolOK /\ PairOK /\ CountOK /\ IndexOK /\ TaskOK /\ ExportOK /\ DirOK

LEMMA PartsType == PartsOK => TypeOK
BY DEF PartsOK, BoolOK, PairOK, CountOK, IndexOK, TaskOK, ExportOK, DirOK, TypeOK

(* The budget of faults bounds each of its counters. *)
LEMMA FaultBudget ==
    ASSUME CountOK, MoreFaults
    PROVE  saveFailures < MaxFaults /\ staleBaks < MaxFaults /\ corruptions < MaxFaults
<1>1. Cardinality(panicked) \in Nat
  BY FS_CardinalityType DEF CountOK
<1> QED
  BY <1>1, IndexAssumption DEF IndexAssumption, CountOK, MoreFaults

LEMMA SaveType ==
    ASSUME records' \subseteq Jobs, verdict' \in [Jobs -> Verdicts],
           file \in Snapshots, bak \in Snapshots, Save \/ SaveFails
    PROVE  file' \in Snapshots /\ bak' \in Snapshots
<1>1. Snapshot \in Snapshots
  BY DEF Snapshot, Snapshots
<1>2. file' \in {file, Snapshot} /\ bak' \in {bak, Snapshot}
  BY DEF Save, SaveFails
<1> QED
  BY <1>1, <1>2

LEMMA TypeStep == ASSUME PartsOK, [Next]_vars PROVE PartsOK'
<1>0. BoolOK /\ PairOK /\ CountOK /\ IndexOK /\ TaskOK /\ ExportOK /\ DirOK
  BY DEF PartsOK
<1> SUFFICES BoolOK' /\ PairOK' /\ CountOK' /\ IndexOK' /\ TaskOK' /\ ExportOK' /\ DirOK'
  BY DEF PartsOK
<1>c. MoreFaults => saveFailures < MaxFaults /\ staleBaks < MaxFaults /\ corruptions < MaxFaults
  BY <1>0, FaultBudget
<1> DEFINE Goal == BoolOK' /\ PairOK' /\ CountOK' /\ IndexOK' /\ TaskOK' /\ ExportOK' /\ DirOK'
<1> USE IndexAssumption DEF IndexAssumption, Verdicts, InFlight, Panicking, JobStages, BootStages, NoVerdicts, NoRecords,
        indexVars, diskVars, taskVars, dirVars, exportVars, recoveryVars, faultVars,
        jobRest, exportRest, bootRest
<1>1. ASSUME NEW j \in Jobs, Acquire(j) PROVE Goal
  <2>1. BoolOK'
    BY <1>0, <1>1, Zenon DEF BoolOK, Acquire, SealTask, Step
  <2>2. PairOK'
    BY <1>0, <1>1 DEF PairOK, IndexOK, ExportOK, TaskOK, Acquire, SealTask, Step
  <2>3. CountOK'
    BY <1>0, <1>c, <1>1 DEF CountOK, TaskOK, Acquire, SealTask, Step
  <2>4. IndexOK'
    BY <1>0, <1>1 DEF IndexOK, TaskOK, Acquire, SealTask, Step
  <2>5. TaskOK'
    BY <1>0, <1>1 DEF TaskOK, Acquire, SealTask, Step
  <2>6. ExportOK'
    BY <1>0, <1>1 DEF ExportOK, IndexOK, Acquire, SealTask, Step
  <2>7. DirOK'
    BY <1>0, <1>1 DEF DirOK, TaskOK, Acquire, SealTask, Step
  <2> QED
    BY <2>1, <2>2, <2>3, <2>4, <2>5, <2>6, <2>7
<1>2. ASSUME NEW j \in Jobs, Reserve(j) PROVE Goal
  <2>1. BoolOK'
    BY <1>0, <1>2, Zenon DEF BoolOK, Reserve, Step
  <2>2. PairOK'
    BY <1>0, <1>2 DEF PairOK, IndexOK, ExportOK, TaskOK, Reserve, Step
  <2>3. CountOK'
    BY <1>0, <1>c, <1>2 DEF CountOK, TaskOK, Reserve, Step
  <2>4. IndexOK'
    BY <1>0, <1>2 DEF IndexOK, TaskOK, Reserve, Step
  <2>5. TaskOK'
    BY <1>0, <1>2 DEF TaskOK, Reserve, Step
  <2>6. ExportOK'
    BY <1>0, <1>2 DEF ExportOK, IndexOK, Reserve, Step
  <2>7. DirOK'
    BY <1>0, <1>2 DEF DirOK, TaskOK, Reserve, Step
  <2> QED
    BY <2>1, <2>2, <2>3, <2>4, <2>5, <2>6, <2>7
<1>3. ASSUME NEW j \in Jobs, Download(j) PROVE Goal
  <2>1. BoolOK'
    BY <1>0, <1>3, Zenon DEF BoolOK, Download, Step
  <2>2. PairOK'
    BY <1>0, <1>3 DEF PairOK, IndexOK, ExportOK, TaskOK, Download, Step
  <2>3. CountOK'
    BY <1>0, <1>c, <1>3 DEF CountOK, TaskOK, Download, Step
  <2>4. IndexOK'
    BY <1>0, <1>3 DEF IndexOK, TaskOK, Download, Step
  <2>5. TaskOK'
    BY <1>0, <1>3 DEF TaskOK, Download, Step
  <2>6. ExportOK'
    BY <1>0, <1>3 DEF ExportOK, IndexOK, Download, Step
  <2>7. DirOK'
    BY <1>0, <1>3 DEF DirOK, TaskOK, Download, Step
  <2> QED
    BY <2>1, <2>2, <2>3, <2>4, <2>5, <2>6, <2>7
<1>4. ASSUME NEW j \in Jobs, DownloadFails(j) PROVE Goal
  <2>1. BoolOK'
    BY <1>0, <1>4, Zenon DEF BoolOK, DownloadFails, Freed, Step
  <2>2. PairOK'
    BY <1>0, <1>4 DEF PairOK, IndexOK, ExportOK, TaskOK, DownloadFails, Freed, Step
  <2>3. CountOK'
    BY <1>0, <1>c, <1>4 DEF CountOK, TaskOK, DownloadFails, Freed, Step
  <2>4. IndexOK'
    BY <1>0, <1>4 DEF IndexOK, TaskOK, DownloadFails, Freed, Step
  <2>5. TaskOK'
    BY <1>0, <1>4 DEF TaskOK, DownloadFails, Freed, Step
  <2>6. ExportOK'
    BY <1>0, <1>4 DEF ExportOK, IndexOK, DownloadFails, Freed, Step
  <2>7. DirOK'
    BY <1>0, <1>4 DEF DirOK, TaskOK, DownloadFails, Freed, Step
  <2> QED
    BY <2>1, <2>2, <2>3, <2>4, <2>5, <2>6, <2>7
<1>5. ASSUME NEW j \in Jobs, ImportFails(j) PROVE Goal
  <2>1. BoolOK'
    BY <1>0, <1>5, Zenon DEF BoolOK, ImportFails, Freed, Report, Step
  <2>2. PairOK'
    BY <1>0, <1>5 DEF PairOK, IndexOK, ExportOK, TaskOK, ImportFails, Freed, Report, Step
  <2>3. CountOK'
    BY <1>0, <1>c, <1>5 DEF CountOK, TaskOK, ImportFails, Freed, Report, Step
  <2>4. IndexOK'
    BY <1>0, <1>5 DEF IndexOK, TaskOK, ImportFails, Freed, Report, Step
  <2>5. TaskOK'
    BY <1>0, <1>5 DEF TaskOK, ImportFails, Freed, Report, Step
  <2>6. ExportOK'
    BY <1>0, <1>5 DEF ExportOK, IndexOK, ImportFails, Freed, Report, Step
  <2>7. DirOK'
    BY <1>0, <1>5 DEF DirOK, TaskOK, ImportFails, Freed, Report, Step
  <2> QED
    BY <2>1, <2>2, <2>3, <2>4, <2>5, <2>6, <2>7
<1>6. ASSUME NEW j \in Jobs, Commit(j) PROVE Goal
  <2>1. BoolOK'
    BY <1>0, <1>6, Zenon DEF BoolOK, Commit, CommitSaved, CommitUndone, Save, SaveFails,
       Snapshot, Report, Step
  <2>2. PairOK'
    BY <1>0, <1>6 DEF PairOK, IndexOK, ExportOK, TaskOK, Commit, CommitSaved,
       CommitUndone, Save, SaveFails, Snapshot, Report, Step
  <2>3. CountOK'
    BY <1>0, <1>c, <1>6 DEF CountOK, TaskOK, Commit, CommitSaved, CommitUndone, Save,
       SaveFails, Snapshot, Report, Step
  <2>4. IndexOK'
    <3>1. /\ records' \subseteq Jobs /\ verdict' \in [Jobs -> Verdicts]
          /\ outcome' \in [Jobs -> Verdicts]
          /\ pending' \subseteq UNION {IdsOf(k) : k \in Jobs}
      BY <1>0, <1>6 DEF IndexOK, Commit, CommitSaved, CommitUndone
    <3>2. Save \/ SaveFails
      BY <1>6 DEF Commit, CommitSaved, CommitUndone
    <3>3. file' \in Snapshots /\ bak' \in Snapshots
      BY <1>0, <3>1, <3>2, SaveType DEF IndexOK
    <3> QED
      BY <3>1, <3>3 DEF IndexOK
  <2>5. TaskOK'
    BY <1>0, <1>6 DEF TaskOK, Commit, CommitSaved, CommitUndone, Save, SaveFails,
       Snapshot, Report, Step
  <2>6. ExportOK'
    BY <1>0, <1>6 DEF ExportOK, IndexOK, Commit, CommitSaved, CommitUndone, Save,
       SaveFails, Snapshot, Report, Step
  <2>7. DirOK'
    BY <1>0, <1>6 DEF DirOK, TaskOK, Commit, CommitSaved, CommitUndone, Save, SaveFails,
       Snapshot, Report, Step
  <2> QED
    BY <2>1, <2>2, <2>3, <2>4, <2>5, <2>6, <2>7
<1>7. ASSUME NEW j \in Jobs, NotTrained(j) PROVE Goal
  <2>1. BoolOK'
    BY <1>0, <1>7, Zenon DEF BoolOK, NotTrained, Step
  <2>2. PairOK'
    BY <1>0, <1>7 DEF PairOK, IndexOK, ExportOK, TaskOK, NotTrained, Step
  <2>3. CountOK'
    BY <1>0, <1>c, <1>7 DEF CountOK, TaskOK, NotTrained, Step
  <2>4. IndexOK'
    BY <1>0, <1>7 DEF IndexOK, TaskOK, NotTrained, Step
  <2>5. TaskOK'
    BY <1>0, <1>7 DEF TaskOK, NotTrained, Step
  <2>6. ExportOK'
    BY <1>0, <1>7 DEF ExportOK, IndexOK, NotTrained, Step
  <2>7. DirOK'
    BY <1>0, <1>7 DEF DirOK, TaskOK, NotTrained, Step
  <2> QED
    BY <2>1, <2>2, <2>3, <2>4, <2>5, <2>6, <2>7
<1>8. ASSUME NEW j \in Jobs, Collect(j) PROVE Goal
  <2>1. BoolOK'
    BY <1>0, <1>8, Zenon DEF BoolOK, Collect, Step
  <2>2. PairOK'
    BY <1>0, <1>8 DEF PairOK, IndexOK, ExportOK, TaskOK, Collect, Step
  <2>3. CountOK'
    BY <1>0, <1>c, <1>8 DEF CountOK, TaskOK, Collect, Step
  <2>4. IndexOK'
    BY <1>0, <1>8 DEF IndexOK, TaskOK, Collect, Step
  <2>5. TaskOK'
    BY <1>0, <1>8 DEF TaskOK, Collect, Step
  <2>6. ExportOK'
    BY <1>0, <1>8 DEF ExportOK, IndexOK, Collect, Step
  <2>7. DirOK'
    BY <1>0, <1>8 DEF DirOK, TaskOK, Collect, Step
  <2> QED
    BY <2>1, <2>2, <2>3, <2>4, <2>5, <2>6, <2>7
<1>9. ASSUME NEW j \in Jobs, ResultCheck(j) PROVE Goal
  <2>1. BoolOK'
    BY <1>0, <1>9, Zenon DEF BoolOK, ResultCheck, VerdictSaved, VerdictUndone, Save,
       SaveFails, Snapshot, Step
  <2>2. PairOK'
    BY <1>0, <1>9 DEF PairOK, IndexOK, ExportOK, TaskOK, ResultCheck, VerdictSaved,
       VerdictUndone, Save, SaveFails, Snapshot, Step
  <2>3. CountOK'
    BY <1>0, <1>c, <1>9 DEF CountOK, TaskOK, ResultCheck, VerdictSaved, VerdictUndone,
       Save, SaveFails, Snapshot, Step
  <2>4. IndexOK'
    <3>1. /\ records' \subseteq Jobs /\ verdict' \in [Jobs -> Verdicts]
          /\ outcome' \in [Jobs -> Verdicts]
          /\ pending' \subseteq UNION {IdsOf(k) : k \in Jobs}
      BY <1>0, <1>9 DEF IndexOK, ResultCheck, VerdictSaved, VerdictUndone
    <3>2. Save \/ SaveFails \/ UNCHANGED <<file, bak>>
      BY <1>9 DEF ResultCheck, VerdictSaved, VerdictUndone
    <3>3. file' \in Snapshots /\ bak' \in Snapshots
      BY <1>0, <3>1, <3>2, SaveType DEF IndexOK
    <3> QED
      BY <3>1, <3>3 DEF IndexOK
  <2>5. TaskOK'
    BY <1>0, <1>9 DEF TaskOK, ResultCheck, VerdictSaved, VerdictUndone, Save, SaveFails,
       Snapshot, Step
  <2>6. ExportOK'
    BY <1>0, <1>9 DEF ExportOK, IndexOK, ResultCheck, VerdictSaved, VerdictUndone, Save,
       SaveFails, Snapshot, Step
  <2>7. DirOK'
    BY <1>0, <1>9 DEF DirOK, TaskOK, ResultCheck, VerdictSaved, VerdictUndone, Save,
       SaveFails, Snapshot, Step
  <2> QED
    BY <2>1, <2>2, <2>3, <2>4, <2>5, <2>6, <2>7
<1>10. ASSUME NEW j \in Jobs, WriteReport(j) PROVE Goal
  <2>1. BoolOK'
    BY <1>0, <1>10, Zenon DEF BoolOK, WriteReport, Step
  <2>2. PairOK'
    BY <1>0, <1>10 DEF PairOK, IndexOK, ExportOK, TaskOK, WriteReport, Step
  <2>3. CountOK'
    BY <1>0, <1>c, <1>10 DEF CountOK, TaskOK, WriteReport, Step
  <2>4. IndexOK'
    BY <1>0, <1>10 DEF IndexOK, TaskOK, WriteReport, Step
  <2>5. TaskOK'
    BY <1>0, <1>10 DEF TaskOK, WriteReport, Step
  <2>6. ExportOK'
    BY <1>0, <1>10 DEF ExportOK, IndexOK, WriteReport, Step
  <2>7. DirOK'
    BY <1>0, <1>10 DEF DirOK, TaskOK, WriteReport, Step
  <2> QED
    BY <2>1, <2>2, <2>3, <2>4, <2>5, <2>6, <2>7
<1>11. ASSUME NEW j \in Jobs, SendReport(j) PROVE Goal
  <2>1. BoolOK'
    BY <1>0, <1>11, Zenon DEF BoolOK, SendReport, Report, Step
  <2>2. PairOK'
    BY <1>0, <1>11 DEF PairOK, IndexOK, ExportOK, TaskOK, SendReport, Report, Step
  <2>3. CountOK'
    BY <1>0, <1>c, <1>11 DEF CountOK, TaskOK, SendReport, Report, Step
  <2>4. IndexOK'
    BY <1>0, <1>11 DEF IndexOK, TaskOK, SendReport, Report, Step
  <2>5. TaskOK'
    BY <1>0, <1>11 DEF TaskOK, SendReport, Report, Step
  <2>6. ExportOK'
    BY <1>0, <1>11 DEF ExportOK, IndexOK, SendReport, Report, Step
  <2>7. DirOK'
    BY <1>0, <1>11 DEF DirOK, TaskOK, SendReport, Report, Step
  <2> QED
    BY <2>1, <2>2, <2>3, <2>4, <2>5, <2>6, <2>7
<1>12. ASSUME NEW j \in Jobs, ImportModel(j) PROVE Goal
  <2>1. BoolOK'
    BY <1>0, <1>12, Zenon DEF BoolOK, ImportModel, Report, Step
  <2>2. PairOK'
    BY <1>0, <1>12 DEF PairOK, IndexOK, ExportOK, TaskOK, ImportModel, Report, Step
  <2>3. CountOK'
    BY <1>0, <1>c, <1>12 DEF CountOK, TaskOK, ImportModel, Report, Step
  <2>4. IndexOK'
    BY <1>0, <1>12 DEF IndexOK, TaskOK, ImportModel, Report, Step
  <2>5. TaskOK'
    BY <1>0, <1>12 DEF TaskOK, ImportModel, Report, Step
  <2>6. ExportOK'
    BY <1>0, <1>12 DEF ExportOK, IndexOK, ImportModel, Report, Step
  <2>7. DirOK'
    BY <1>0, <1>12 DEF DirOK, TaskOK, ImportModel, Report, Step
  <2> QED
    BY <2>1, <2>2, <2>3, <2>4, <2>5, <2>6, <2>7
<1>13. ASSUME NEW j \in Jobs, Panic(j) PROVE Goal
  <2>1. BoolOK'
    BY <1>0, <1>13, Zenon DEF BoolOK, Panic, SealTask, Step
  <2>2. PairOK'
    BY <1>0, <1>13 DEF PairOK, IndexOK, ExportOK, TaskOK, Panic, SealTask, Step
  <2>3. CountOK'
    BY <1>0, <1>c, <1>13, FS_AddElement DEF CountOK, TaskOK, Panic, SealTask, Step
  <2>4. IndexOK'
    BY <1>0, <1>13 DEF IndexOK, TaskOK, Panic, SealTask, Step
  <2>5. TaskOK'
    BY <1>0, <1>13 DEF TaskOK, Serving, Panic, SealTask, Step
  <2>6. ExportOK'
    BY <1>0, <1>13 DEF ExportOK, IndexOK, Panic, SealTask, Step
  <2>7. DirOK'
    BY <1>0, <1>13 DEF DirOK, TaskOK, Panic, SealTask, Step
  <2> QED
    BY <2>1, <2>2, <2>3, <2>4, <2>5, <2>6, <2>7
<1>p. ASSUME NEW j \in Jobs, WritePanicReport(j) PROVE Goal
  <2>1. BoolOK'
    BY <1>0, <1>p, Zenon DEF BoolOK, WritePanicReport, Step
  <2>2. PairOK'
    BY <1>0, <1>p DEF PairOK, IndexOK, ExportOK, TaskOK, WritePanicReport, Step
  <2>3. CountOK'
    BY <1>0, <1>p DEF CountOK, TaskOK, WritePanicReport, Step
  <2>4. IndexOK'
    BY <1>0, <1>p DEF IndexOK, TaskOK, WritePanicReport, Step
  <2>5. TaskOK'
    BY <1>0, <1>p DEF TaskOK, Serving, WritePanicReport, Step
  <2>6. ExportOK'
    BY <1>0, <1>p DEF ExportOK, IndexOK, WritePanicReport, Step
  <2>7. DirOK'
    BY <1>0, <1>p DEF DirOK, TaskOK, WritePanicReport, Step
  <2> QED
    BY <2>1, <2>2, <2>3, <2>4, <2>5, <2>6, <2>7
<1>q. ASSUME NEW j \in Jobs, QueuePanicReport(j) PROVE Goal
  <2>1. BoolOK'
    BY <1>0, <1>q, Zenon DEF BoolOK, QueuePanicReport, Report, Step
  <2>2. PairOK'
    BY <1>0, <1>q DEF PairOK, IndexOK, ExportOK, TaskOK, QueuePanicReport, Report, Step
  <2>3. CountOK'
    BY <1>0, <1>q DEF CountOK, TaskOK, QueuePanicReport, Report, Step
  <2>4. IndexOK'
    BY <1>0, <1>q DEF IndexOK, TaskOK, QueuePanicReport, Report, Step
  <2>5. TaskOK'
    BY <1>0, <1>q DEF TaskOK, Serving, QueuePanicReport, Report, Step
  <2>6. ExportOK'
    BY <1>0, <1>q DEF ExportOK, IndexOK, QueuePanicReport, Report, Step
  <2>7. DirOK'
    BY <1>0, <1>q DEF DirOK, TaskOK, QueuePanicReport, Report, Step
  <2> QED
    BY <2>1, <2>2, <2>3, <2>4, <2>5, <2>6, <2>7
<1>14. ASSUME NEW j \in Jobs, Release(j) PROVE Goal
  <2>1. BoolOK'
    BY <1>0, <1>14, Zenon DEF BoolOK, Release, SealTask, Step
  <2>2. PairOK'
    BY <1>0, <1>14 DEF PairOK, IndexOK, ExportOK, TaskOK, Release, SealTask, Step
  <2>3. CountOK'
    BY <1>0, <1>c, <1>14 DEF CountOK, TaskOK, Release, SealTask, Step
  <2>4. IndexOK'
    BY <1>0, <1>14 DEF IndexOK, TaskOK, Release, SealTask, Step
  <2>5. TaskOK'
    BY <1>0, <1>14 DEF TaskOK, Serving, Release, SealTask, Step
  <2>6. ExportOK'
    BY <1>0, <1>14 DEF ExportOK, IndexOK, Release, SealTask, Step
  <2>7. DirOK'
    BY <1>0, <1>14 DEF DirOK, TaskOK, Release, SealTask, Step
  <2> QED
    BY <2>1, <2>2, <2>3, <2>4, <2>5, <2>6, <2>7
<1>15. ASSUME NEW x \in Exports, Lookup(x) PROVE Goal
  <2>1. BoolOK'
    BY <1>0, <1>15, Zenon DEF BoolOK, Lookup, Found
  <2>2. PairOK'
    BY <1>0, <1>15 DEF PairOK, IndexOK, ExportOK, TaskOK, Lookup, Found
  <2>3. CountOK'
    BY <1>0, <1>c, <1>15 DEF CountOK, TaskOK, Lookup, Found
  <2>4. IndexOK'
    BY <1>0, <1>15 DEF IndexOK, TaskOK, Lookup, Found
  <2>5. TaskOK'
    BY <1>0, <1>15 DEF TaskOK, Lookup, Found
  <2>6. ExportOK'
    BY <1>0, <1>15 DEF ExportOK, IndexOK, Lookup, Found
  <2>7. DirOK'
    BY <1>0, <1>15 DEF DirOK, TaskOK, Lookup, Found
  <2> QED
    BY <2>1, <2>2, <2>3, <2>4, <2>5, <2>6, <2>7
<1>16. ASSUME NEW x \in Exports, Gate(x) PROVE Goal
  <2>1. BoolOK'
    BY <1>0, <1>16, Zenon DEF BoolOK, Gate, Answer
  <2>2. PairOK'
    BY <1>0, <1>16 DEF PairOK, IndexOK, ExportOK, TaskOK, Gate, Answer
  <2>3. CountOK'
    BY <1>0, <1>c, <1>16 DEF CountOK, TaskOK, Gate, Answer
  <2>4. IndexOK'
    BY <1>0, <1>16 DEF IndexOK, TaskOK, Gate, Answer
  <2>5. TaskOK'
    BY <1>0, <1>16 DEF TaskOK, Gate, Answer
  <2>6. ExportOK'
    BY <1>0, <1>16 DEF ExportOK, IndexOK, Gate, Answer
  <2>7. DirOK'
    BY <1>0, <1>16 DEF DirOK, TaskOK, Gate, Answer
  <2> QED
    BY <2>1, <2>2, <2>3, <2>4, <2>5, <2>6, <2>7
<1>17. ASSUME NEW x \in Exports, Pack(x) PROVE Goal
  <2>1. BoolOK'
    BY <1>0, <1>17, Zenon DEF BoolOK, Pack, Answer
  <2>2. PairOK'
    <3>1. ASSUME NEW k \in dirs[Path(xrec[x])].files, k \in Jobs
          PROVE  <<k, verdict[k]>> \in Jobs \X Verdicts
      BY <1>0, <3>1 DEF IndexOK
    <3>2. sent' = sent \cup {<<k, verdict[k]>> : k \in dirs[Path(xrec[x])].files}
      BY <1>17 DEF Pack
    <3>3. dirs[Path(xrec[x])].files \subseteq Jobs
      BY <1>0, <1>17 DEF DirOK, Paths, Pack, ExportOK, TaskOK
    <3>4. sent' \subseteq Jobs \X Verdicts
      BY <1>0, <3>1, <3>2, <3>3 DEF PairOK
    <3> QED
      BY <1>0, <3>4, <1>17 DEF PairOK, Pack
  <2>3. CountOK'
    BY <1>0, <1>c, <1>17 DEF CountOK, TaskOK, Pack, Answer
  <2>4. IndexOK'
    BY <1>0, <1>17 DEF IndexOK, TaskOK, Pack, Answer
  <2>5. TaskOK'
    BY <1>0, <1>17 DEF TaskOK, Pack, Answer
  <2>6. ExportOK'
    BY <1>0, <1>17 DEF ExportOK, IndexOK, Pack, Answer
  <2>7. DirOK'
    BY <1>0, <1>17 DEF DirOK, TaskOK, Pack, Answer
  <2> QED
    BY <2>1, <2>2, <2>3, <2>4, <2>5, <2>6, <2>7
<1>18. CASE Crash
  <2>1. BoolOK'
    BY <1>0, <1>18, Zenon DEF BoolOK, Crash
  <2>2. PairOK'
    BY <1>0, <1>18 DEF PairOK, IndexOK, ExportOK, TaskOK, Crash
  <2>3. CountOK'
    BY <1>0, <1>c, <1>18 DEF CountOK, TaskOK, Crash
  <2>4. IndexOK'
    BY <1>0, <1>18 DEF IndexOK, TaskOK, Crash
  <2>5. TaskOK'
    BY <1>0, <1>18 DEF TaskOK, Crash
  <2>6. ExportOK'
    BY <1>0, <1>18 DEF ExportOK, IndexOK, Crash
  <2>7. DirOK'
    BY <1>0, <1>18 DEF DirOK, TaskOK, Crash
  <2> QED
    BY <2>1, <2>2, <2>3, <2>4, <2>5, <2>6, <2>7
<1>19. CASE Corrupt
  <2>1. BoolOK'
    BY <1>0, <1>19, Zenon DEF BoolOK, Corrupt
  <2>2. PairOK'
    BY <1>0, <1>19 DEF PairOK, IndexOK, ExportOK, TaskOK, Corrupt
  <2>3. CountOK'
    BY <1>0, <1>c, <1>19 DEF CountOK, TaskOK, Corrupt
  <2>4. IndexOK'
    BY <1>0, <1>19 DEF IndexOK, TaskOK, Corrupt
  <2>5. TaskOK'
    BY <1>0, <1>19 DEF TaskOK, Corrupt
  <2>6. ExportOK'
    BY <1>0, <1>19 DEF ExportOK, IndexOK, Corrupt
  <2>7. DirOK'
    BY <1>0, <1>19 DEF DirOK, TaskOK, Corrupt
  <2> QED
    BY <2>1, <2>2, <2>3, <2>4, <2>5, <2>6, <2>7
<1>20. CASE Restart
  <2>1. BoolOK'
    BY <1>0, <1>20, Zenon DEF BoolOK, Restart, Loaded
  <2>2. PairOK'
    BY <1>0, <1>20 DEF PairOK, IndexOK, ExportOK, TaskOK, Restart, Loaded
  <2>3. CountOK'
    BY <1>0, <1>c, <1>20 DEF CountOK, TaskOK, Restart, Loaded
  <2>4. IndexOK'
    <3>1. Loaded \in Snapshots
      BY <1>0 DEF IndexOK, Loaded
    <3>2. Loaded.records \subseteq Jobs /\ Loaded.verdict \in [Jobs -> Verdicts]
      BY <3>1 DEF Snapshots
    <3> QED
      BY <1>0, <3>1, <3>2, <1>20 DEF IndexOK, Restart
  <2>5. TaskOK'
    BY <1>0, <1>20 DEF TaskOK, Restart, Loaded
  <2>6. ExportOK'
    BY <1>0, <1>20 DEF ExportOK, IndexOK, Restart, Loaded
  <2>7. DirOK'
    BY <1>0, <1>20 DEF DirOK, TaskOK, Restart, Loaded
  <2> QED
    BY <2>1, <2>2, <2>3, <2>4, <2>5, <2>6, <2>7
<1>21. CASE CountAttempt
  <2>1. BoolOK'
    BY <1>0, <1>21, Zenon DEF BoolOK, CountAttempt, Tripped
  <2>2. PairOK'
    BY <1>0, <1>21 DEF PairOK, IndexOK, ExportOK, TaskOK, CountAttempt, Tripped
  <2>3. CountOK'
    BY <1>0, <1>c, <1>21 DEF CountOK, TaskOK, CountAttempt, Tripped
  <2>4. IndexOK'
    BY <1>0, <1>21 DEF IndexOK, TaskOK, CountAttempt, Tripped
  <2>5. TaskOK'
    BY <1>0, <1>21 DEF TaskOK, CountAttempt, Tripped
  <2>6. ExportOK'
    BY <1>0, <1>21 DEF ExportOK, IndexOK, CountAttempt, Tripped
  <2>7. DirOK'
    BY <1>0, <1>21 DEF DirOK, TaskOK, CountAttempt, Tripped
  <2> QED
    BY <2>1, <2>2, <2>3, <2>4, <2>5, <2>6, <2>7
<1>22. CASE Isolate
  <2>1. BoolOK'
    BY <1>0, <1>22, Zenon DEF BoolOK, Isolate, SealTask
  <2>2. PairOK'
    BY <1>0, <1>22 DEF PairOK, IndexOK, ExportOK, TaskOK, Isolate, SealTask
  <2>3. CountOK'
    BY <1>0, <1>c, <1>22 DEF CountOK, TaskOK, Isolate, SealTask
  <2>4. IndexOK'
    BY <1>0, <1>22 DEF IndexOK, TaskOK, Isolate, SealTask
  <2>5. TaskOK'
    BY <1>0, <1>22 DEF TaskOK, Isolate, SealTask
  <2>6. ExportOK'
    BY <1>0, <1>22 DEF ExportOK, IndexOK, Isolate, SealTask
  <2>7. DirOK'
    BY <1>0, <1>22 DEF DirOK, TaskOK, Isolate, SealTask
  <2> QED
    BY <2>1, <2>2, <2>3, <2>4, <2>5, <2>6, <2>7
<1>23. CASE Purge
  <2>1. BoolOK'
    BY <1>0, <1>23, Zenon DEF BoolOK, Purge, Purged
  <2>2. PairOK'
    BY <1>0, <1>23 DEF PairOK, IndexOK, ExportOK, TaskOK, Purge, Purged
  <2>3. CountOK'
    BY <1>0, <1>c, <1>23 DEF CountOK, TaskOK, Purge, Purged
  <2>4. IndexOK'
    BY <1>0, <1>23 DEF IndexOK, TaskOK, Purge, Purged
  <2>5. TaskOK'
    BY <1>0, <1>23 DEF TaskOK, Purge, Purged
  <2>6. ExportOK'
    BY <1>0, <1>23 DEF ExportOK, IndexOK, Purge, Purged
  <2>7. DirOK'
    <3>1. dirs' \in [Paths -> [files : SUBSET Jobs, report : BOOLEAN]]
      BY <1>0, <1>23 DEF DirOK, Purge, Empty
    <3>2. archives' \subseteq {ArchiveId(k) : k \in Jobs}
      BY <1>0, <1>23 DEF DirOK, IndexOK, Purge, Purged
    <3> QED
      BY <1>0, <3>1, <3>2, <1>23 DEF DirOK, Purge
  <2> QED
    BY <2>1, <2>2, <2>3, <2>4, <2>5, <2>6, <2>7
<1>24. CASE SavePurge
  <2>1. BoolOK'
    BY <1>0, <1>24, Zenon DEF BoolOK, SavePurge, Save, SaveFails, Snapshot
  <2>2. PairOK'
    BY <1>0, <1>24 DEF PairOK, IndexOK, ExportOK, TaskOK, SavePurge, Save, SaveFails,
       Snapshot
  <2>3. CountOK'
    BY <1>0, <1>c, <1>24 DEF CountOK, TaskOK, SavePurge, Save, SaveFails, Snapshot
  <2>4. IndexOK'
    <3>1. /\ records' \subseteq Jobs /\ verdict' \in [Jobs -> Verdicts]
          /\ outcome' \in [Jobs -> Verdicts]
          /\ pending' \subseteq UNION {IdsOf(k) : k \in Jobs}
      BY <1>0, <1>24 DEF IndexOK, SavePurge
    <3>2. Save \/ SaveFails
      BY <1>24 DEF SavePurge
    <3>3. file' \in Snapshots /\ bak' \in Snapshots
      BY <1>0, <3>1, <3>2, SaveType DEF IndexOK
    <3> QED
      BY <3>1, <3>3 DEF IndexOK
  <2>5. TaskOK'
    BY <1>0, <1>24 DEF TaskOK, SavePurge, Save, SaveFails, Snapshot
  <2>6. ExportOK'
    BY <1>0, <1>24 DEF ExportOK, IndexOK, SavePurge, Save, SaveFails, Snapshot
  <2>7. DirOK'
    BY <1>0, <1>24 DEF DirOK, TaskOK, SavePurge, Save, SaveFails, Snapshot
  <2> QED
    BY <2>1, <2>2, <2>3, <2>4, <2>5, <2>6, <2>7
<1>25. CASE Archive
  <2>1. BoolOK'
    BY <1>0, <1>25, Zenon DEF BoolOK, Archive
  <2>2. PairOK'
    BY <1>0, <1>25 DEF PairOK, IndexOK, ExportOK, TaskOK, Archive
  <2>3. CountOK'
    BY <1>0, <1>c, <1>25 DEF CountOK, TaskOK, Archive
  <2>4. IndexOK'
    BY <1>0, <1>25 DEF IndexOK, TaskOK, Archive
  <2>5. TaskOK'
    BY <1>0, <1>25 DEF TaskOK, Archive
  <2>6. ExportOK'
    BY <1>0, <1>25 DEF ExportOK, IndexOK, Archive
  <2>7. DirOK'
    <3>1. dirs' \in [Paths -> [files : SUBSET Jobs, report : BOOLEAN]]
      <4>1. CASE Exists(Path(task))
        <5>1. Empty \in [files : SUBSET Jobs, report : BOOLEAN]
          BY DEF Empty
        <5>2. dirs' = [dirs EXCEPT ![Path(task)] = Empty]
          BY <4>1, <1>25 DEF Archive
        <5> QED
          BY <1>0, <5>1, <5>2 DEF DirOK
      <4>2. CASE ~Exists(Path(task))
        <5>1. (ArchiveId(task) \notin archives) \in BOOLEAN
          OBVIOUS
        <5>2. PICK r \in BOOLEAN : dirs' = [dirs EXCEPT ![Path(task)].report = r]
          BY <4>2, <5>1, <1>25, Zenon DEF Archive
        <5> QED
          BY <1>0, <5>2 DEF DirOK
      <4> QED
        BY <4>1, <4>2
    <3>2. archives' \subseteq {ArchiveId(k) : k \in Jobs}
      BY <1>0, <1>25 DEF DirOK, TaskOK, Archive
    <3> QED
      BY <1>0, <3>1, <3>2, <1>25 DEF DirOK, Archive
  <2> QED
    BY <2>1, <2>2, <2>3, <2>4, <2>5, <2>6, <2>7
<1>26. CASE QueueFailure
  <2>1. BoolOK'
    BY <1>0, <1>26, Zenon DEF BoolOK, QueueFailure, Report, SealTask
  <2>2. PairOK'
    BY <1>0, <1>26 DEF PairOK, IndexOK, ExportOK, TaskOK, QueueFailure, Report, SealTask
  <2>3. CountOK'
    BY <1>0, <1>c, <1>26 DEF CountOK, TaskOK, QueueFailure, Report, SealTask
  <2>4. IndexOK'
    BY <1>0, <1>26 DEF IndexOK, TaskOK, QueueFailure, Report, SealTask
  <2>5. TaskOK'
    BY <1>0, <1>26 DEF TaskOK, QueueFailure, Report, SealTask
  <2>6. ExportOK'
    BY <1>0, <1>26 DEF ExportOK, IndexOK, QueueFailure, Report, SealTask
  <2>7. DirOK'
    BY <1>0, <1>26 DEF DirOK, TaskOK, QueueFailure, Report, SealTask
  <2> QED
    BY <2>1, <2>2, <2>3, <2>4, <2>5, <2>6, <2>7
<1>27. CASE ResetTask
  <2>1. BoolOK'
    BY <1>0, <1>27, Zenon DEF BoolOK, ResetTask, SealTask
  <2>2. PairOK'
    BY <1>0, <1>27 DEF PairOK, IndexOK, ExportOK, TaskOK, ResetTask, SealTask
  <2>3. CountOK'
    BY <1>0, <1>c, <1>27 DEF CountOK, TaskOK, ResetTask, SealTask
  <2>4. IndexOK'
    BY <1>0, <1>27 DEF IndexOK, TaskOK, ResetTask, SealTask
  <2>5. TaskOK'
    BY <1>0, <1>27 DEF TaskOK, ResetTask, SealTask
  <2>6. ExportOK'
    BY <1>0, <1>27 DEF ExportOK, IndexOK, ResetTask, SealTask
  <2>7. DirOK'
    BY <1>0, <1>27 DEF DirOK, TaskOK, ResetTask, SealTask
  <2> QED
    BY <2>1, <2>2, <2>3, <2>4, <2>5, <2>6, <2>7
<1>28. CASE UNCHANGED vars
  BY <1>0, <1>28 DEF vars, BoolOK, PairOK, CountOK, IndexOK, TaskOK, ExportOK, DirOK
<1> QED
  BY <1>p, <1>q, <1>1, <1>2, <1>3, <1>4, <1>5, <1>6, <1>7, <1>8, <1>9, <1>10, <1>11, <1>12, <1>13,
     <1>14, <1>15, <1>16, <1>17, <1>18, <1>19, <1>20, <1>21, <1>22, <1>23, <1>24, <1>25,
     <1>26, <1>27, <1>28 DEF Next, JobStep, StartUp

LEMMA TypeInit == Init => PartsOK
<1> SUFFICES ASSUME Init PROVE PartsOK
  OBVIOUS
<1> USE IndexAssumption DEF IndexAssumption, Init
<1>1. BoolOK
  BY Zenon DEF BoolOK
<1>2. PairOK /\ ExportOK /\ TaskOK
  BY DEF PairOK, ExportOK, TaskOK, JobStages, InFlight, BootStages, Verdicts
<1>3. CountOK
  BY FS_EmptySet DEF CountOK
<1>4. IndexOK
  BY DEF IndexOK, NoRecords, NoVerdicts, Snapshots, Verdicts
<1>5. DirOK
  <2>1. Empty \in [files : SUBSET Jobs, report : BOOLEAN]
    BY DEF Empty
  <2> QED
    BY <2>1 DEF DirOK
<1> QED
  BY <1>1, <1>2, <1>3, <1>4, <1>5 DEF PartsOK

(* Type correctness, the budget of faults included. *)
THEOREM TypeCorrect == Spec => []TypeOK
<1>1. PartsOK /\ [Next]_vars => PartsOK'
  BY TypeStep
<1>2. PartsOK => TypeOK
  BY PartsType
<1> QED
  BY <1>1, <1>2, TypeInit, PTL DEF Spec
-----------------------------------------------------------------------------
(***************************************************************************)
(* Ids and directories: a job has an id, so jobs of one directory overlap. *)
(***************************************************************************)
LEMMA Ids ==
    ASSUME NEW j \in Jobs, NEW k \in Jobs
    PROVE  /\ Path(j) \in Paths /\ Overlap(j, j)
           /\ Overlap(j, k) => Overlap(k, j)
           /\ Path(j) = Path(k) => Overlap(j, k)
<1>1. Path(j) \in Paths
  BY DEF Paths
<1>2. IdsOf(j) # {}
  <2>1. CASE Req[j] # None
    <3>1. <<"req", Req[j]>> # <<"req", None>> /\ <<"req", Req[j]>> # <<"task", None>>
      BY <2>1
    <3>2. <<"req", Req[j]>> \in IdsOf(j)
      BY <3>1 DEF IdsOf
    <3> QED
      BY <3>2
  <2>2. CASE Task[j] # None
    <3>1. <<"task", Task[j]>> # <<"req", None>> /\ <<"task", Task[j]>> # <<"task", None>>
      BY <2>2
    <3>2. <<"task", Task[j]>> \in IdsOf(j)
      BY <3>1 DEF IdsOf
    <3> QED
      BY <3>2
  <2> QED
    BY <2>1, <2>2, IndexAssumption DEF IndexAssumption
<1>3. Overlap(j, j) /\ (Overlap(j, k) => Overlap(k, j))
  BY <1>2 DEF Overlap
<1>4. ASSUME Path(j) = Path(k) PROVE Overlap(j, k)
  <2>1. Req[j] = Req[k] /\ Task[j] = Task[k]
    BY <1>4 DEF Path
  <2>2. IdsOf(j) = IdsOf(k)
    BY <2>1 DEF IdsOf
  <2> QED
    BY <1>2, <2>2 DEF Overlap
<1> QED
  BY <1>1, <1>3, <1>4

LEMMA TaskStep == ASSUME PartsOK, TaskSound, [Next]_vars PROVE TaskSound'
<1>0. PartsOK'
  BY TypeStep
<1> USE IndexAssumption DEF IndexAssumption, Verdicts, InFlight, Panicking, JobStages, BootStages, NoVerdicts, NoRecords,
        Serving, indexVars, diskVars, taskVars, dirVars, exportVars, recoveryVars,
        faultVars, jobRest, exportRest, bootRest, TaskSound, PartsOK, TaskOK
<1>1. ASSUME NEW j \in Jobs, Acquire(j) PROVE TaskSound'
  BY <1>1 DEF Acquire, SealTask, Step
<1>2. ASSUME NEW j \in Jobs, Reserve(j) PROVE TaskSound'
  BY <1>2 DEF Reserve, Step
<1>3. ASSUME NEW j \in Jobs, Download(j) PROVE TaskSound'
  BY <1>3 DEF Download, Step
<1>4. ASSUME NEW j \in Jobs, DownloadFails(j) PROVE TaskSound'
  BY <1>4 DEF DownloadFails, Freed, Step
<1>5. ASSUME NEW j \in Jobs, ImportFails(j) PROVE TaskSound'
  BY <1>5 DEF ImportFails, Freed, Report, Step
<1>6. ASSUME NEW j \in Jobs, Commit(j) PROVE TaskSound'
  BY <1>6 DEF Commit, CommitSaved, CommitUndone, Save, SaveFails, Snapshot, Report, Step
<1>7. ASSUME NEW j \in Jobs, NotTrained(j) PROVE TaskSound'
  BY <1>7 DEF NotTrained, Step
<1>8. ASSUME NEW j \in Jobs, Collect(j) PROVE TaskSound'
  BY <1>8 DEF Collect, Step
<1>9. ASSUME NEW j \in Jobs, ResultCheck(j) PROVE TaskSound'
  BY <1>9 DEF ResultCheck, VerdictSaved, VerdictUndone, Save, SaveFails, Snapshot, Step
<1>10. ASSUME NEW j \in Jobs, WriteReport(j) PROVE TaskSound'
  BY <1>10 DEF WriteReport, Step
<1>11. ASSUME NEW j \in Jobs, SendReport(j) PROVE TaskSound'
  BY <1>11 DEF SendReport, Report, Step
<1>12. ASSUME NEW j \in Jobs, ImportModel(j) PROVE TaskSound'
  BY <1>12 DEF ImportModel, Report, Step
<1>13. ASSUME NEW j \in Jobs, Panic(j) PROVE TaskSound'
  BY <1>13 DEF Panic, SealTask, Step
<1>p. ASSUME NEW j \in Jobs, WritePanicReport(j) PROVE TaskSound'
  BY <1>p DEF WritePanicReport, Step
<1>q. ASSUME NEW j \in Jobs, QueuePanicReport(j) PROVE TaskSound'
  BY <1>q DEF QueuePanicReport, Report, Step
<1>14. ASSUME NEW j \in Jobs, Release(j) PROVE TaskSound'
  BY <1>14 DEF Release, SealTask, Step
<1>15. ASSUME NEW x \in Exports, Lookup(x) PROVE TaskSound'
  BY <1>15 DEF Lookup, Found
<1>16. ASSUME NEW x \in Exports, Gate(x) PROVE TaskSound'
  BY <1>16 DEF Gate, Answer
<1>17. ASSUME NEW x \in Exports, Pack(x) PROVE TaskSound'
  BY <1>17 DEF Pack, Answer
<1>18. CASE Crash
  BY <1>18 DEF Crash
<1>19. CASE Corrupt
  BY <1>19 DEF Corrupt
<1>20. CASE Restart
  BY <1>20 DEF Restart, Loaded
<1>21. CASE CountAttempt
  BY <1>21 DEF CountAttempt, Tripped
<1>22. CASE Isolate
  BY <1>22 DEF Isolate, SealTask
<1>23. CASE Purge
  BY <1>23 DEF Purge, Purged
<1>24. CASE SavePurge
  BY <1>24 DEF SavePurge, Save, SaveFails, Snapshot
<1>25. CASE Archive
  BY <1>25 DEF Archive
<1>26. CASE QueueFailure
  BY <1>26 DEF QueueFailure, Report, SealTask
<1>27. CASE ResetTask
  BY <1>27 DEF ResetTask, SealTask
<1>28. CASE UNCHANGED vars
  BY <1>28 DEF vars
<1> QED
  BY <1>p, <1>q, <1>1, <1>2, <1>3, <1>4, <1>5, <1>6, <1>7, <1>8, <1>9, <1>10, <1>11, <1>12, <1>13,
     <1>14, <1>15, <1>16, <1>17, <1>18, <1>19, <1>20, <1>21, <1>22, <1>23, <1>24, <1>25,
     <1>26, <1>27, <1>28 DEF Next, JobStep, StartUp

LEMMA TriesStep == ASSUME PartsOK, TaskSound, TriesSound, [Next]_vars PROVE TriesSound'
<1>0. PartsOK'
  BY TypeStep
<1> USE IndexAssumption DEF IndexAssumption, Verdicts, InFlight, Panicking, JobStages, BootStages, NoVerdicts, NoRecords,
        Serving, indexVars, diskVars, taskVars, dirVars, exportVars, recoveryVars,
        faultVars, jobRest, exportRest, bootRest, TaskSound, TriesSound, BreakerNotEarly,
        PartsOK, TaskOK, CountOK, DirOK
<1>1. ASSUME NEW j \in Jobs, Acquire(j) PROVE TriesSound'
  BY <1>1 DEF Acquire, SealTask, Step
<1>2. ASSUME NEW j \in Jobs, Reserve(j) PROVE TriesSound'
  BY <1>2 DEF Reserve, Step
<1>3. ASSUME NEW j \in Jobs, Download(j) PROVE TriesSound'
  BY <1>3 DEF Download, Step
<1>4. ASSUME NEW j \in Jobs, DownloadFails(j) PROVE TriesSound'
  BY <1>4 DEF DownloadFails, Freed, Step
<1>5. ASSUME NEW j \in Jobs, ImportFails(j) PROVE TriesSound'
  BY <1>5 DEF ImportFails, Freed, Report, Step
<1>6. ASSUME NEW j \in Jobs, Commit(j) PROVE TriesSound'
  BY <1>6 DEF Commit, CommitSaved, CommitUndone, Save, SaveFails, Snapshot, Report, Step
<1>7. ASSUME NEW j \in Jobs, NotTrained(j) PROVE TriesSound'
  BY <1>7 DEF NotTrained, Step
<1>8. ASSUME NEW j \in Jobs, Collect(j) PROVE TriesSound'
  BY <1>8 DEF Collect, Step
<1>9. ASSUME NEW j \in Jobs, ResultCheck(j) PROVE TriesSound'
  BY <1>9 DEF ResultCheck, VerdictSaved, VerdictUndone, Save, SaveFails, Snapshot, Step
<1>10. ASSUME NEW j \in Jobs, WriteReport(j) PROVE TriesSound'
  BY <1>10 DEF WriteReport, Step
<1>11. ASSUME NEW j \in Jobs, SendReport(j) PROVE TriesSound'
  BY <1>11 DEF SendReport, Report, Step
<1>12. ASSUME NEW j \in Jobs, ImportModel(j) PROVE TriesSound'
  BY <1>12 DEF ImportModel, Report, Step
<1>13. ASSUME NEW j \in Jobs, Panic(j) PROVE TriesSound'
  BY <1>13 DEF Panic, SealTask, Step
<1>p. ASSUME NEW j \in Jobs, WritePanicReport(j) PROVE TriesSound'
  BY <1>p DEF WritePanicReport, Step
<1>q. ASSUME NEW j \in Jobs, QueuePanicReport(j) PROVE TriesSound'
  BY <1>q DEF QueuePanicReport, Report, Step
<1>14. ASSUME NEW j \in Jobs, Release(j) PROVE TriesSound'
  BY <1>14 DEF Release, SealTask, Step
<1>15. ASSUME NEW x \in Exports, Lookup(x) PROVE TriesSound'
  BY <1>15 DEF Lookup, Found
<1>16. ASSUME NEW x \in Exports, Gate(x) PROVE TriesSound'
  BY <1>16 DEF Gate, Answer
<1>17. ASSUME NEW x \in Exports, Pack(x) PROVE TriesSound'
  BY <1>17 DEF Pack, Answer
<1>18. CASE Crash
  BY <1>18 DEF Crash
<1>19. CASE Corrupt
  BY <1>19 DEF Corrupt
<1>20. CASE Restart
  BY <1>20 DEF Restart, Loaded
<1>21. CASE CountAttempt
  BY <1>21 DEF CountAttempt, Tripped
<1>22. CASE Isolate
  BY <1>22 DEF Isolate, SealTask
<1>23. CASE Purge
  BY <1>23 DEF Purge, Purged
<1>24. CASE SavePurge
  BY <1>24 DEF SavePurge, Save, SaveFails, Snapshot
<1>25. CASE Archive
  BY <1>25 DEF Archive
<1>26. CASE QueueFailure
  BY <1>26 DEF QueueFailure, Report, SealTask
<1>27. CASE ResetTask
  BY <1>27 DEF ResetTask, SealTask
<1>28. CASE UNCHANGED vars
  BY <1>28 DEF vars
<1> QED
  BY <1>p, <1>q, <1>1, <1>2, <1>3, <1>4, <1>5, <1>6, <1>7, <1>8, <1>9, <1>10, <1>11, <1>12, <1>13,
     <1>14, <1>15, <1>16, <1>17, <1>18, <1>19, <1>20, <1>21, <1>22, <1>23, <1>24, <1>25,
     <1>26, <1>27, <1>28 DEF Next, JobStep, StartUp

LEMMA MatchStep == ASSUME PartsOK, MemoryMatchesFile, [Next]_vars PROVE MemoryMatchesFile'
<1>0. PartsOK'
  BY TypeStep
<1> USE IndexAssumption DEF IndexAssumption, Verdicts, InFlight, Panicking, JobStages, BootStages, NoVerdicts, NoRecords,
        Serving, indexVars, diskVars, taskVars, dirVars, exportVars, recoveryVars,
        faultVars, jobRest, exportRest, bootRest, MemoryMatchesFile, PartsOK, IndexOK,
        BoolOK, Snapshots
<1>1. ASSUME NEW j \in Jobs, Acquire(j) PROVE MemoryMatchesFile'
  BY <1>1 DEF Acquire, SealTask, Step
<1>2. ASSUME NEW j \in Jobs, Reserve(j) PROVE MemoryMatchesFile'
  BY <1>2 DEF Reserve, Step
<1>3. ASSUME NEW j \in Jobs, Download(j) PROVE MemoryMatchesFile'
  BY <1>3 DEF Download, Step
<1>4. ASSUME NEW j \in Jobs, DownloadFails(j) PROVE MemoryMatchesFile'
  BY <1>4 DEF DownloadFails, Freed, Step
<1>5. ASSUME NEW j \in Jobs, ImportFails(j) PROVE MemoryMatchesFile'
  BY <1>5 DEF ImportFails, Freed, Report, Step
<1>6. ASSUME NEW j \in Jobs, Commit(j) PROVE MemoryMatchesFile'
  BY <1>6 DEF Commit, CommitSaved, CommitUndone, Save, SaveFails, Snapshot, Report, Step
<1>7. ASSUME NEW j \in Jobs, NotTrained(j) PROVE MemoryMatchesFile'
  BY <1>7 DEF NotTrained, Step
<1>8. ASSUME NEW j \in Jobs, Collect(j) PROVE MemoryMatchesFile'
  BY <1>8 DEF Collect, Step
<1>9. ASSUME NEW j \in Jobs, ResultCheck(j) PROVE MemoryMatchesFile'
  BY <1>9 DEF ResultCheck, VerdictSaved, VerdictUndone, Save, SaveFails, Snapshot, Step
<1>10. ASSUME NEW j \in Jobs, WriteReport(j) PROVE MemoryMatchesFile'
  BY <1>10 DEF WriteReport, Step
<1>11. ASSUME NEW j \in Jobs, SendReport(j) PROVE MemoryMatchesFile'
  BY <1>11 DEF SendReport, Report, Step
<1>12. ASSUME NEW j \in Jobs, ImportModel(j) PROVE MemoryMatchesFile'
  BY <1>12 DEF ImportModel, Report, Step
<1>13. ASSUME NEW j \in Jobs, Panic(j) PROVE MemoryMatchesFile'
  BY <1>13 DEF Panic, SealTask, Step
<1>p. ASSUME NEW j \in Jobs, WritePanicReport(j) PROVE MemoryMatchesFile'
  BY <1>p DEF WritePanicReport, Step
<1>q. ASSUME NEW j \in Jobs, QueuePanicReport(j) PROVE MemoryMatchesFile'
  BY <1>q DEF QueuePanicReport, Report, Step
<1>14. ASSUME NEW j \in Jobs, Release(j) PROVE MemoryMatchesFile'
  BY <1>14 DEF Release, SealTask, Step
<1>15. ASSUME NEW x \in Exports, Lookup(x) PROVE MemoryMatchesFile'
  BY <1>15 DEF Lookup, Found
<1>16. ASSUME NEW x \in Exports, Gate(x) PROVE MemoryMatchesFile'
  BY <1>16 DEF Gate, Answer
<1>17. ASSUME NEW x \in Exports, Pack(x) PROVE MemoryMatchesFile'
  BY <1>17 DEF Pack, Answer
<1>18. CASE Crash
  BY <1>18 DEF Crash
<1>19. CASE Corrupt
  BY <1>19 DEF Corrupt
<1>20. CASE Restart
  BY <1>20 DEF Restart, Loaded
<1>21. CASE CountAttempt
  BY <1>21 DEF CountAttempt, Tripped
<1>22. CASE Isolate
  BY <1>22 DEF Isolate, SealTask
<1>23. CASE Purge
  BY <1>23 DEF Purge, Purged
<1>24. CASE SavePurge
  BY <1>24 DEF SavePurge, Save, SaveFails, Snapshot
<1>25. CASE Archive
  BY <1>25 DEF Archive
<1>26. CASE QueueFailure
  BY <1>26 DEF QueueFailure, Report, SealTask
<1>27. CASE ResetTask
  BY <1>27 DEF ResetTask, SealTask
<1>28. CASE UNCHANGED vars
  BY <1>28 DEF vars
<1> QED
  BY <1>p, <1>q, <1>1, <1>2, <1>3, <1>4, <1>5, <1>6, <1>7, <1>8, <1>9, <1>10, <1>11, <1>12, <1>13,
     <1>14, <1>15, <1>16, <1>17, <1>18, <1>19, <1>20, <1>21, <1>22, <1>23, <1>24, <1>25,
     <1>26, <1>27, <1>28 DEF Next, JobStep, StartUp

LEMMA ReservedStep == ASSUME PartsOK, ReservationsOwned, [Next]_vars PROVE ReservationsOwned'
<1>0. PartsOK'
  BY TypeStep
<1> USE IndexAssumption DEF IndexAssumption, Verdicts, InFlight, Panicking, JobStages, BootStages, NoVerdicts, NoRecords,
        Serving, indexVars, diskVars, taskVars, dirVars, exportVars, recoveryVars,
        faultVars, jobRest, exportRest, bootRest, ReservationsOwned, PartsOK, IndexOK,
        TaskOK, DirOK
<1>1. ASSUME NEW j \in Jobs, Acquire(j) PROVE ReservationsOwned'
  BY <1>1 DEF Acquire, SealTask, Step
<1>2. ASSUME NEW j \in Jobs, Reserve(j) PROVE ReservationsOwned'
  BY <1>2 DEF Reserve, Step
<1>3. ASSUME NEW j \in Jobs, Download(j) PROVE ReservationsOwned'
  BY <1>3 DEF Download, Step
<1>4. ASSUME NEW j \in Jobs, DownloadFails(j) PROVE ReservationsOwned'
  BY <1>4 DEF DownloadFails, Freed, Step
<1>5. ASSUME NEW j \in Jobs, ImportFails(j) PROVE ReservationsOwned'
  BY <1>5 DEF ImportFails, Freed, Report, Step
<1>6. ASSUME NEW j \in Jobs, Commit(j) PROVE ReservationsOwned'
  BY <1>6 DEF Commit, CommitSaved, CommitUndone, Save, SaveFails, Snapshot, Report, Step
<1>7. ASSUME NEW j \in Jobs, NotTrained(j) PROVE ReservationsOwned'
  BY <1>7 DEF NotTrained, Step
<1>8. ASSUME NEW j \in Jobs, Collect(j) PROVE ReservationsOwned'
  BY <1>8 DEF Collect, Step
<1>9. ASSUME NEW j \in Jobs, ResultCheck(j) PROVE ReservationsOwned'
  BY <1>9 DEF ResultCheck, VerdictSaved, VerdictUndone, Save, SaveFails, Snapshot, Step
<1>10. ASSUME NEW j \in Jobs, WriteReport(j) PROVE ReservationsOwned'
  BY <1>10 DEF WriteReport, Step
<1>11. ASSUME NEW j \in Jobs, SendReport(j) PROVE ReservationsOwned'
  BY <1>11 DEF SendReport, Report, Step
<1>12. ASSUME NEW j \in Jobs, ImportModel(j) PROVE ReservationsOwned'
  BY <1>12 DEF ImportModel, Report, Step
<1>13. ASSUME NEW j \in Jobs, Panic(j) PROVE ReservationsOwned'
  BY <1>13 DEF Panic, SealTask, Step
<1>p. ASSUME NEW j \in Jobs, WritePanicReport(j) PROVE ReservationsOwned'
  BY <1>p DEF WritePanicReport, Step
<1>q. ASSUME NEW j \in Jobs, QueuePanicReport(j) PROVE ReservationsOwned'
  BY <1>q DEF QueuePanicReport, Report, Step
<1>14. ASSUME NEW j \in Jobs, Release(j) PROVE ReservationsOwned'
  BY <1>14 DEF Release, SealTask, Step
<1>15. ASSUME NEW x \in Exports, Lookup(x) PROVE ReservationsOwned'
  BY <1>15 DEF Lookup, Found
<1>16. ASSUME NEW x \in Exports, Gate(x) PROVE ReservationsOwned'
  BY <1>16 DEF Gate, Answer
<1>17. ASSUME NEW x \in Exports, Pack(x) PROVE ReservationsOwned'
  BY <1>17 DEF Pack, Answer
<1>18. CASE Crash
  BY <1>18 DEF Crash
<1>19. CASE Corrupt
  BY <1>19 DEF Corrupt
<1>20. CASE Restart
  BY <1>20 DEF Restart, Loaded
<1>21. CASE CountAttempt
  BY <1>21 DEF CountAttempt, Tripped
<1>22. CASE Isolate
  BY <1>22 DEF Isolate, SealTask
<1>23. CASE Purge
  BY <1>23 DEF Purge, Purged
<1>24. CASE SavePurge
  BY <1>24 DEF SavePurge, Save, SaveFails, Snapshot
<1>25. CASE Archive
  BY <1>25 DEF Archive
<1>26. CASE QueueFailure
  BY <1>26 DEF QueueFailure, Report, SealTask
<1>27. CASE ResetTask
  BY <1>27 DEF ResetTask, SealTask
<1>28. CASE UNCHANGED vars
  BY <1>28 DEF vars
<1> QED
  BY <1>p, <1>q, <1>1, <1>2, <1>3, <1>4, <1>5, <1>6, <1>7, <1>8, <1>9, <1>10, <1>11, <1>12, <1>13,
     <1>14, <1>15, <1>16, <1>17, <1>18, <1>19, <1>20, <1>21, <1>22, <1>23, <1>24, <1>25,
     <1>26, <1>27, <1>28 DEF Next, JobStep, StartUp

(* The archive step takes artefacts away and the task's own for certain. *)
LEMMA ArchiveFrame ==
    ASSUME TaskOK, DirOK, Archive
    PROVE  /\ \A p \in Paths : dirs'[p].files \subseteq dirs[p].files
           /\ \A p \in Paths \ {Path(task)} : dirs'[p] = dirs[p]
           /\ dirs'[Path(task)].files = {}
<1>1. task \in Jobs /\ Path(task) \in Paths
  BY Ids, IndexAssumption DEF IndexAssumption, Archive, TaskOK
<1>2. CASE Exists(Path(task))
  <2>1. dirs' = [dirs EXCEPT ![Path(task)] = Empty]
    BY <1>2 DEF Archive
  <2> QED
    BY <1>1, <2>1 DEF DirOK, Empty
<1>3. CASE ~Exists(Path(task))
  <2>1. dirs[Path(task)].files = {}
    BY <1>3 DEF Exists, Empty
  <2>2. PICK r : dirs' = [dirs EXCEPT ![Path(task)].report = r]
    BY <1>3, Zenon DEF Archive
  <2> QED
    BY <1>1, <2>1, <2>2 DEF DirOK
<1> QED
  BY <1>2, <1>3

LEMMA UniqueStep == ASSUME PartsOK, TaskSound, UniqueSound, [Next]_vars PROVE UniqueSound'
<1>0. PartsOK'
  BY TypeStep
<1> USE Ids, IndexAssumption DEF IndexAssumption, Verdicts, InFlight, Panicking, JobStages, BootStages, NoVerdicts, NoRecords,
        Serving, indexVars, diskVars, taskVars, dirVars, exportVars, recoveryVars,
        faultVars, jobRest, exportRest, bootRest, TaskSound, UniqueSound, Distinct,
        PartsOK, TaskOK, IndexOK, Snapshots
<1>1. ASSUME NEW j \in Jobs, Acquire(j) PROVE UniqueSound'
  BY <1>1 DEF Acquire, SealTask, Step
<1>2. ASSUME NEW j \in Jobs, Reserve(j) PROVE UniqueSound'
  <2>1. jpc'[j] = "download" => \A k \in records : ~Overlap(j, k)
    BY <1>2 DEF Reserve, Step, Known, Overlap
  <2> QED
    BY <1>2, <2>1 DEF Reserve, Step
<1>3. ASSUME NEW j \in Jobs, Download(j) PROVE UniqueSound'
  BY <1>3 DEF Download, Step
<1>4. ASSUME NEW j \in Jobs, DownloadFails(j) PROVE UniqueSound'
  BY <1>4 DEF DownloadFails, Freed, Step
<1>5. ASSUME NEW j \in Jobs, ImportFails(j) PROVE UniqueSound'
  BY <1>5 DEF ImportFails, Freed, Report, Step
<1>6. ASSUME NEW j \in Jobs, Commit(j) PROVE UniqueSound'
  BY <1>6 DEF Commit, CommitSaved, CommitUndone, Save, SaveFails, Snapshot, Report, Step
<1>7. ASSUME NEW j \in Jobs, NotTrained(j) PROVE UniqueSound'
  BY <1>7 DEF NotTrained, Step
<1>8. ASSUME NEW j \in Jobs, Collect(j) PROVE UniqueSound'
  BY <1>8 DEF Collect, Step
<1>9. ASSUME NEW j \in Jobs, ResultCheck(j) PROVE UniqueSound'
  BY <1>9 DEF ResultCheck, VerdictSaved, VerdictUndone, Save, SaveFails, Snapshot, Step
<1>10. ASSUME NEW j \in Jobs, WriteReport(j) PROVE UniqueSound'
  BY <1>10 DEF WriteReport, Step
<1>11. ASSUME NEW j \in Jobs, SendReport(j) PROVE UniqueSound'
  BY <1>11 DEF SendReport, Report, Step
<1>12. ASSUME NEW j \in Jobs, ImportModel(j) PROVE UniqueSound'
  BY <1>12 DEF ImportModel, Report, Step
<1>13. ASSUME NEW j \in Jobs, Panic(j) PROVE UniqueSound'
  BY <1>13 DEF Panic, SealTask, Step
<1>p. ASSUME NEW j \in Jobs, WritePanicReport(j) PROVE UniqueSound'
  BY <1>p DEF WritePanicReport, Step
<1>q. ASSUME NEW j \in Jobs, QueuePanicReport(j) PROVE UniqueSound'
  BY <1>q DEF QueuePanicReport, Report, Step
<1>14. ASSUME NEW j \in Jobs, Release(j) PROVE UniqueSound'
  BY <1>14 DEF Release, SealTask, Step
<1>15. ASSUME NEW x \in Exports, Lookup(x) PROVE UniqueSound'
  BY <1>15 DEF Lookup, Found
<1>16. ASSUME NEW x \in Exports, Gate(x) PROVE UniqueSound'
  BY <1>16 DEF Gate, Answer
<1>17. ASSUME NEW x \in Exports, Pack(x) PROVE UniqueSound'
  BY <1>17 DEF Pack, Answer
<1>18. CASE Crash
  BY <1>18 DEF Crash
<1>19. CASE Corrupt
  BY <1>19 DEF Corrupt
<1>20. CASE Restart
  BY <1>20 DEF Restart, Loaded
<1>21. CASE CountAttempt
  BY <1>21 DEF CountAttempt, Tripped
<1>22. CASE Isolate
  BY <1>22 DEF Isolate, SealTask
<1>23. CASE Purge
  BY <1>23 DEF Purge, Purged
<1>24. CASE SavePurge
  BY <1>24 DEF SavePurge, Save, SaveFails, Snapshot
<1>25. CASE Archive
  BY <1>25 DEF Archive
<1>26. CASE QueueFailure
  BY <1>26 DEF QueueFailure, Report, SealTask
<1>27. CASE ResetTask
  BY <1>27 DEF ResetTask, SealTask
<1>28. CASE UNCHANGED vars
  BY <1>28 DEF vars
<1> QED
  BY <1>p, <1>q, <1>1, <1>2, <1>3, <1>4, <1>5, <1>6, <1>7, <1>8, <1>9, <1>10, <1>11, <1>12, <1>13,
     <1>14, <1>15, <1>16, <1>17, <1>18, <1>19, <1>20, <1>21, <1>22, <1>23, <1>24, <1>25,
     <1>26, <1>27, <1>28 DEF Next, JobStep, StartUp

LEMMA RecordStep == ASSUME PartsOK, TaskSound, RecordSound, [Next]_vars PROVE RecordSound'
<1>0. PartsOK'
  BY TypeStep
<1> USE Ids, IndexAssumption DEF IndexAssumption, Verdicts, InFlight, Panicking, JobStages, BootStages, NoVerdicts, NoRecords,
        Serving, indexVars, diskVars, taskVars, dirVars, exportVars, recoveryVars,
        faultVars, jobRest, exportRest, bootRest, TaskSound, RecordSound, PartsOK, TaskOK,
        IndexOK, DirOK, Snapshots
<1>1. ASSUME NEW j \in Jobs, Acquire(j) PROVE RecordSound'
  BY <1>1 DEF Acquire, SealTask, Step
<1>2. ASSUME NEW j \in Jobs, Reserve(j) PROVE RecordSound'
  BY <1>2 DEF Reserve, Step
<1>3. ASSUME NEW j \in Jobs, Download(j) PROVE RecordSound'
  BY <1>3 DEF Download, Step
<1>4. ASSUME NEW j \in Jobs, DownloadFails(j) PROVE RecordSound'
  BY <1>4 DEF DownloadFails, Freed, Step
<1>5. ASSUME NEW j \in Jobs, ImportFails(j) PROVE RecordSound'
  BY <1>5 DEF ImportFails, Freed, Report, Step
<1>6. ASSUME NEW j \in Jobs, Commit(j) PROVE RecordSound'
  BY <1>6 DEF Commit, CommitSaved, CommitUndone, Save, SaveFails, Snapshot, Report, Step
<1>7. ASSUME NEW j \in Jobs, NotTrained(j) PROVE RecordSound'
  BY <1>7 DEF NotTrained, Step
<1>8. ASSUME NEW j \in Jobs, Collect(j) PROVE RecordSound'
  BY <1>8 DEF Collect, Step
<1>9. ASSUME NEW j \in Jobs, ResultCheck(j) PROVE RecordSound'
  BY <1>9 DEF ResultCheck, VerdictSaved, VerdictUndone, Save, SaveFails, Snapshot, Step
<1>10. ASSUME NEW j \in Jobs, WriteReport(j) PROVE RecordSound'
  BY <1>10 DEF WriteReport, Step
<1>11. ASSUME NEW j \in Jobs, SendReport(j) PROVE RecordSound'
  BY <1>11 DEF SendReport, Report, Step
<1>12. ASSUME NEW j \in Jobs, ImportModel(j) PROVE RecordSound'
  BY <1>12 DEF ImportModel, Report, Step
<1>13. ASSUME NEW j \in Jobs, Panic(j) PROVE RecordSound'
  BY <1>13 DEF Panic, SealTask, Step
<1>p. ASSUME NEW j \in Jobs, WritePanicReport(j) PROVE RecordSound'
  BY <1>p DEF WritePanicReport, Step
<1>q. ASSUME NEW j \in Jobs, QueuePanicReport(j) PROVE RecordSound'
  BY <1>q DEF QueuePanicReport, Report, Step
<1>14. ASSUME NEW j \in Jobs, Release(j) PROVE RecordSound'
  BY <1>14 DEF Release, SealTask, Step
<1>15. ASSUME NEW x \in Exports, Lookup(x) PROVE RecordSound'
  BY <1>15 DEF Lookup, Found
<1>16. ASSUME NEW x \in Exports, Gate(x) PROVE RecordSound'
  BY <1>16 DEF Gate, Answer
<1>17. ASSUME NEW x \in Exports, Pack(x) PROVE RecordSound'
  BY <1>17 DEF Pack, Answer
<1>18. CASE Crash
  BY <1>18 DEF Crash
<1>19. CASE Corrupt
  BY <1>19 DEF Corrupt
<1>20. CASE Restart
  BY <1>20 DEF Restart, Loaded
<1>21. CASE CountAttempt
  BY <1>21 DEF CountAttempt, Tripped
<1>22. CASE Isolate
  BY <1>22 DEF Isolate, SealTask
<1>23. CASE Purge
  BY <1>23 DEF Purge, Purged
<1>24. CASE SavePurge
  BY <1>24 DEF SavePurge, Save, SaveFails, Snapshot
<1>25. CASE Archive
  BY <1>25 DEF Archive
<1>26. CASE QueueFailure
  BY <1>26 DEF QueueFailure, Report, SealTask
<1>27. CASE ResetTask
  BY <1>27 DEF ResetTask, SealTask
<1>28. CASE UNCHANGED vars
  BY <1>28 DEF vars
<1> QED
  BY <1>p, <1>q, <1>1, <1>2, <1>3, <1>4, <1>5, <1>6, <1>7, <1>8, <1>9, <1>10, <1>11, <1>12, <1>13,
     <1>14, <1>15, <1>16, <1>17, <1>18, <1>19, <1>20, <1>21, <1>22, <1>23, <1>24, <1>25,
     <1>26, <1>27, <1>28 DEF Next, JobStep, StartUp

LEMMA FilesStep == ASSUME PartsOK, TaskSound, RecordSound, FilesSound, [Next]_vars PROVE FilesSound'
<1>0. PartsOK'
  BY TypeStep
<1> USE Ids, IndexAssumption DEF IndexAssumption, Verdicts, InFlight, Panicking, JobStages, BootStages, NoVerdicts, NoRecords,
        Serving, indexVars, diskVars, taskVars, dirVars, exportVars, recoveryVars,
        faultVars, jobRest, exportRest, bootRest, TaskSound, RecordSound, FilesSound,
        PartsOK, TaskOK, IndexOK, DirOK, CountOK, Snapshots, Empty
<1>1. ASSUME NEW j \in Jobs, Acquire(j) PROVE FilesSound'
  BY <1>1 DEF Acquire, SealTask, Step
<1>2. ASSUME NEW j \in Jobs, Reserve(j) PROVE FilesSound'
  BY <1>2 DEF Reserve, Step
<1>3. ASSUME NEW j \in Jobs, Download(j) PROVE FilesSound'
  BY <1>3 DEF Download, Step
<1>4. ASSUME NEW j \in Jobs, DownloadFails(j) PROVE FilesSound'
  BY <1>4 DEF DownloadFails, Freed, Step
<1>5. ASSUME NEW j \in Jobs, ImportFails(j) PROVE FilesSound'
  BY <1>5 DEF ImportFails, Freed, Report, Step
<1>6. ASSUME NEW j \in Jobs, Commit(j) PROVE FilesSound'
  BY <1>6 DEF Commit, CommitSaved, CommitUndone, Save, SaveFails, Snapshot, Report, Step
<1>7. ASSUME NEW j \in Jobs, NotTrained(j) PROVE FilesSound'
  BY <1>7 DEF NotTrained, Step
<1>8. ASSUME NEW j \in Jobs, Collect(j) PROVE FilesSound'
  BY <1>8 DEF Collect, Step
<1>9. ASSUME NEW j \in Jobs, ResultCheck(j) PROVE FilesSound'
  BY <1>9 DEF ResultCheck, VerdictSaved, VerdictUndone, Save, SaveFails, Snapshot, Step
<1>10. ASSUME NEW j \in Jobs, WriteReport(j) PROVE FilesSound'
  BY <1>10 DEF WriteReport, Step
<1>11. ASSUME NEW j \in Jobs, SendReport(j) PROVE FilesSound'
  BY <1>11 DEF SendReport, Report, Step
<1>12. ASSUME NEW j \in Jobs, ImportModel(j) PROVE FilesSound'
  BY <1>12 DEF ImportModel, Report, Step
<1>13. ASSUME NEW j \in Jobs, Panic(j) PROVE FilesSound'
  BY <1>13 DEF Panic, SealTask, Step
<1>p. ASSUME NEW j \in Jobs, WritePanicReport(j) PROVE FilesSound'
  BY <1>p DEF WritePanicReport, Step
<1>q. ASSUME NEW j \in Jobs, QueuePanicReport(j) PROVE FilesSound'
  BY <1>q DEF QueuePanicReport, Report, Step
<1>14. ASSUME NEW j \in Jobs, Release(j) PROVE FilesSound'
  BY <1>14 DEF Release, SealTask, Step
<1>15. ASSUME NEW x \in Exports, Lookup(x) PROVE FilesSound'
  BY <1>15 DEF Lookup, Found
<1>16. ASSUME NEW x \in Exports, Gate(x) PROVE FilesSound'
  BY <1>16 DEF Gate, Answer
<1>17. ASSUME NEW x \in Exports, Pack(x) PROVE FilesSound'
  BY <1>17 DEF Pack, Answer
<1>18. CASE Crash
  BY <1>18 DEF Crash
<1>19. CASE Corrupt
  BY <1>19 DEF Corrupt
<1>20. CASE Restart
  BY <1>20 DEF Restart, Loaded
<1>21. CASE CountAttempt
  BY <1>21 DEF CountAttempt, Tripped
<1>22. CASE Isolate
  BY <1>22 DEF Isolate, SealTask
<1>23. CASE Purge
  BY <1>23 DEF Purge, Purged
<1>24. CASE SavePurge
  BY <1>24 DEF SavePurge, Save, SaveFails, Snapshot
<1>25. CASE Archive
  <2>1. /\ \A p \in Paths : dirs'[p].files \subseteq dirs[p].files
        /\ dirs'[Path(task)].files = {}
    BY <1>25, ArchiveFrame
  <2>2. task' = task /\ boot' = "queue" /\ boot = "archive"
        /\ UNCHANGED <<file, records, deadLetter, recovered, saveFailures, corruptions, jpc, damaged, unsaved>>
    BY <1>25 DEF Archive
  <2> QED
    BY <2>1, <2>2
<1>26. CASE QueueFailure
  BY <1>26 DEF QueueFailure, Report, SealTask
<1>27. CASE ResetTask
  BY <1>27 DEF ResetTask, SealTask
<1>28. CASE UNCHANGED vars
  BY <1>28 DEF vars
<1> QED
  BY <1>p, <1>q, <1>1, <1>2, <1>3, <1>4, <1>5, <1>6, <1>7, <1>8, <1>9, <1>10, <1>11, <1>12, <1>13,
     <1>14, <1>15, <1>16, <1>17, <1>18, <1>19, <1>20, <1>21, <1>22, <1>23, <1>24, <1>25,
     <1>26, <1>27, <1>28 DEF Next, JobStep, StartUp

LEMMA ExportStep == ASSUME PartsOK, TaskSound, RecordSound, ExportSound, [Next]_vars PROVE ExportSound'
<1>0. PartsOK'
  BY TypeStep
<1> USE IndexAssumption DEF IndexAssumption, Verdicts, InFlight, Panicking, JobStages, BootStages, NoVerdicts, NoRecords,
        Serving, indexVars, diskVars, taskVars, dirVars, exportVars, recoveryVars,
        faultVars, jobRest, exportRest, bootRest, TaskSound, RecordSound, ExportSound,
        PartsOK, TaskOK, IndexOK, ExportOK
<1>1. ASSUME NEW j \in Jobs, Acquire(j) PROVE ExportSound'
  BY <1>1 DEF Acquire, SealTask, Step
<1>2. ASSUME NEW j \in Jobs, Reserve(j) PROVE ExportSound'
  BY <1>2 DEF Reserve, Step
<1>3. ASSUME NEW j \in Jobs, Download(j) PROVE ExportSound'
  BY <1>3 DEF Download, Step
<1>4. ASSUME NEW j \in Jobs, DownloadFails(j) PROVE ExportSound'
  BY <1>4 DEF DownloadFails, Freed, Step
<1>5. ASSUME NEW j \in Jobs, ImportFails(j) PROVE ExportSound'
  BY <1>5 DEF ImportFails, Freed, Report, Step
<1>6. ASSUME NEW j \in Jobs, Commit(j) PROVE ExportSound'
  BY <1>6 DEF Commit, CommitSaved, CommitUndone, Save, SaveFails, Snapshot, Report, Step
<1>7. ASSUME NEW j \in Jobs, NotTrained(j) PROVE ExportSound'
  BY <1>7 DEF NotTrained, Step
<1>8. ASSUME NEW j \in Jobs, Collect(j) PROVE ExportSound'
  BY <1>8 DEF Collect, Step
<1>9. ASSUME NEW j \in Jobs, ResultCheck(j) PROVE ExportSound'
  BY <1>9 DEF ResultCheck, VerdictSaved, VerdictUndone, Save, SaveFails, Snapshot, Step
<1>10. ASSUME NEW j \in Jobs, WriteReport(j) PROVE ExportSound'
  BY <1>10 DEF WriteReport, Step
<1>11. ASSUME NEW j \in Jobs, SendReport(j) PROVE ExportSound'
  BY <1>11 DEF SendReport, Report, Step
<1>12. ASSUME NEW j \in Jobs, ImportModel(j) PROVE ExportSound'
  BY <1>12 DEF ImportModel, Report, Step
<1>13. ASSUME NEW j \in Jobs, Panic(j) PROVE ExportSound'
  BY <1>13 DEF Panic, SealTask, Step
<1>p. ASSUME NEW j \in Jobs, WritePanicReport(j) PROVE ExportSound'
  BY <1>p DEF WritePanicReport, Step
<1>q. ASSUME NEW j \in Jobs, QueuePanicReport(j) PROVE ExportSound'
  BY <1>q DEF QueuePanicReport, Report, Step
<1>14. ASSUME NEW j \in Jobs, Release(j) PROVE ExportSound'
  BY <1>14 DEF Release, SealTask, Step
<1>15. ASSUME NEW x \in Exports, Lookup(x) PROVE ExportSound'
  BY <1>15 DEF Lookup, Found
<1>16. ASSUME NEW x \in Exports, Gate(x) PROVE ExportSound'
  BY <1>16 DEF Gate, Answer
<1>17. ASSUME NEW x \in Exports, Pack(x) PROVE ExportSound'
  BY <1>17 DEF Pack, Answer
<1>18. CASE Crash
  BY <1>18 DEF Crash
<1>19. CASE Corrupt
  BY <1>19 DEF Corrupt
<1>20. CASE Restart
  BY <1>20 DEF Restart, Loaded
<1>21. CASE CountAttempt
  BY <1>21 DEF CountAttempt, Tripped
<1>22. CASE Isolate
  BY <1>22 DEF Isolate, SealTask
<1>23. CASE Purge
  BY <1>23 DEF Purge, Purged
<1>24. CASE SavePurge
  BY <1>24 DEF SavePurge, Save, SaveFails, Snapshot
<1>25. CASE Archive
  BY <1>25 DEF Archive
<1>26. CASE QueueFailure
  BY <1>26 DEF QueueFailure, Report, SealTask
<1>27. CASE ResetTask
  BY <1>27 DEF ResetTask, SealTask
<1>28. CASE UNCHANGED vars
  BY <1>28 DEF vars
<1> QED
  BY <1>p, <1>q, <1>1, <1>2, <1>3, <1>4, <1>5, <1>6, <1>7, <1>8, <1>9, <1>10, <1>11, <1>12, <1>13,
     <1>14, <1>15, <1>16, <1>17, <1>18, <1>19, <1>20, <1>21, <1>22, <1>23, <1>24, <1>25,
     <1>26, <1>27, <1>28 DEF Next, JobStep, StartUp

LEMMA ClearedStep == ASSUME PartsOK, TaskSound, FilesSound, MemoryMatchesFile, ClearedSound, [Next]_vars PROVE ClearedSound'
<1>0. PartsOK'
  BY TypeStep
<1> USE Ids, IndexAssumption DEF IndexAssumption, Verdicts, InFlight, Panicking, JobStages, BootStages, NoVerdicts, NoRecords,
        Serving, indexVars, diskVars, taskVars, dirVars, exportVars, recoveryVars,
        faultVars, jobRest, exportRest, bootRest, TaskSound, FilesSound, MemoryMatchesFile,
        ClearedSound, PartsOK, TaskOK, IndexOK, DirOK, CountOK, Snapshots, Empty
<1>1. ASSUME NEW j \in Jobs, Acquire(j) PROVE ClearedSound'
  BY <1>1 DEF Acquire, SealTask, Step
<1>2. ASSUME NEW j \in Jobs, Reserve(j) PROVE ClearedSound'
  BY <1>2 DEF Reserve, Step
<1>3. ASSUME NEW j \in Jobs, Download(j) PROVE ClearedSound'
  BY <1>3 DEF Download, Step
<1>4. ASSUME NEW j \in Jobs, DownloadFails(j) PROVE ClearedSound'
  BY <1>4 DEF DownloadFails, Freed, Step
<1>5. ASSUME NEW j \in Jobs, ImportFails(j) PROVE ClearedSound'
  BY <1>5 DEF ImportFails, Freed, Report, Step
<1>6. ASSUME NEW j \in Jobs, Commit(j) PROVE ClearedSound'
  BY <1>6 DEF Commit, CommitSaved, CommitUndone, Save, SaveFails, Snapshot, Report, Step
<1>7. ASSUME NEW j \in Jobs, NotTrained(j) PROVE ClearedSound'
  BY <1>7 DEF NotTrained, Step
<1>8. ASSUME NEW j \in Jobs, Collect(j) PROVE ClearedSound'
  BY <1>8 DEF Collect, Step
<1>9. ASSUME NEW j \in Jobs, ResultCheck(j) PROVE ClearedSound'
  BY <1>9 DEF ResultCheck, VerdictSaved, VerdictUndone, Save, SaveFails, Snapshot, Step
<1>10. ASSUME NEW j \in Jobs, WriteReport(j) PROVE ClearedSound'
  BY <1>10 DEF WriteReport, Step
<1>11. ASSUME NEW j \in Jobs, SendReport(j) PROVE ClearedSound'
  BY <1>11 DEF SendReport, Report, Step
<1>12. ASSUME NEW j \in Jobs, ImportModel(j) PROVE ClearedSound'
  BY <1>12 DEF ImportModel, Report, Step
<1>13. ASSUME NEW j \in Jobs, Panic(j) PROVE ClearedSound'
  BY <1>13 DEF Panic, SealTask, Step
<1>p. ASSUME NEW j \in Jobs, WritePanicReport(j) PROVE ClearedSound'
  BY <1>p DEF WritePanicReport, Step
<1>q. ASSUME NEW j \in Jobs, QueuePanicReport(j) PROVE ClearedSound'
  BY <1>q DEF QueuePanicReport, Report, Step
<1>14. ASSUME NEW j \in Jobs, Release(j) PROVE ClearedSound'
  BY <1>14 DEF Release, SealTask, Step
<1>15. ASSUME NEW x \in Exports, Lookup(x) PROVE ClearedSound'
  BY <1>15 DEF Lookup, Found
<1>16. ASSUME NEW x \in Exports, Gate(x) PROVE ClearedSound'
  BY <1>16 DEF Gate, Answer
<1>17. ASSUME NEW x \in Exports, Pack(x) PROVE ClearedSound'
  BY <1>17 DEF Pack, Answer
<1>18. CASE Crash
  BY <1>18 DEF Crash
<1>19. CASE Corrupt
  BY <1>19 DEF Corrupt
<1>20. CASE Restart
  BY <1>20 DEF Restart, Loaded
<1>21. CASE CountAttempt
  BY <1>21 DEF CountAttempt, Tripped
<1>22. CASE Isolate
  BY <1>22 DEF Isolate, SealTask
<1>23. CASE Purge
  BY <1>23 DEF Purge, Purged
<1>24. CASE SavePurge
  BY <1>24 DEF SavePurge, Save, SaveFails, Snapshot
<1>25. CASE Archive
  <2>1. /\ \A p \in Paths : dirs'[p].files \subseteq dirs[p].files
        /\ dirs'[Path(task)].files = {}
    BY <1>25, ArchiveFrame
  <2>2. task' = task /\ boot' = "queue" /\ boot = "archive"
        /\ UNCHANGED <<file, records, deadLetter, recovered, saveFailures, corruptions, jpc, damaged, unsaved>>
    BY <1>25 DEF Archive
  <2> QED
    BY <2>1, <2>2
<1>26. CASE QueueFailure
  BY <1>26 DEF QueueFailure, Report, SealTask
<1>27. CASE ResetTask
  BY <1>27 DEF ResetTask, SealTask
<1>28. CASE UNCHANGED vars
  BY <1>28 DEF vars
<1> QED
  BY <1>p, <1>q, <1>1, <1>2, <1>3, <1>4, <1>5, <1>6, <1>7, <1>8, <1>9, <1>10, <1>11, <1>12, <1>13,
     <1>14, <1>15, <1>16, <1>17, <1>18, <1>19, <1>20, <1>21, <1>22, <1>23, <1>24, <1>25,
     <1>26, <1>27, <1>28 DEF Next, JobStep, StartUp

(* No report is ever taken back. *)
LEMMA ReportedKept ==
    ASSUME [Next]_vars, NEW k \in Jobs
    PROVE  Reported(k) => Reported(k)'
<1> DEFINE Goal == Reported(k) => Reported(k)'
<1> USE DEF Reported, indexVars, diskVars, taskVars, dirVars, exportVars, recoveryVars, faultVars, jobRest, exportRest, bootRest
<1>1. ASSUME NEW j \in Jobs, Acquire(j) PROVE Goal
  BY <1>1 DEF Acquire, SealTask, Step
<1>2. ASSUME NEW j \in Jobs, Reserve(j) PROVE Goal
  BY <1>2 DEF Reserve, Step
<1>3. ASSUME NEW j \in Jobs, Download(j) PROVE Goal
  BY <1>3 DEF Download, Step
<1>4. ASSUME NEW j \in Jobs, DownloadFails(j) PROVE Goal
  BY <1>4 DEF DownloadFails, Freed, Step
<1>5. ASSUME NEW j \in Jobs, ImportFails(j) PROVE Goal
  BY <1>5 DEF ImportFails, Freed, Report, Step
<1>6. ASSUME NEW j \in Jobs, Commit(j) PROVE Goal
  BY <1>6 DEF Commit, CommitSaved, CommitUndone, Save, SaveFails, Snapshot, Report, Step
<1>7. ASSUME NEW j \in Jobs, NotTrained(j) PROVE Goal
  BY <1>7 DEF NotTrained, Step
<1>8. ASSUME NEW j \in Jobs, Collect(j) PROVE Goal
  BY <1>8 DEF Collect, Step
<1>9. ASSUME NEW j \in Jobs, ResultCheck(j) PROVE Goal
  BY <1>9 DEF ResultCheck, VerdictSaved, VerdictUndone, Save, SaveFails, Snapshot, Step
<1>10. ASSUME NEW j \in Jobs, WriteReport(j) PROVE Goal
  BY <1>10 DEF WriteReport, Step
<1>11. ASSUME NEW j \in Jobs, SendReport(j) PROVE Goal
  BY <1>11 DEF SendReport, Report, Step
<1>12. ASSUME NEW j \in Jobs, ImportModel(j) PROVE Goal
  BY <1>12 DEF ImportModel, Report, Step
<1>13. ASSUME NEW j \in Jobs, Panic(j) PROVE Goal
  BY <1>13 DEF Panic, SealTask, Step
<1>p. ASSUME NEW j \in Jobs, WritePanicReport(j) PROVE Goal
  BY <1>p DEF WritePanicReport, Step
<1>q. ASSUME NEW j \in Jobs, QueuePanicReport(j) PROVE Goal
  BY <1>q DEF QueuePanicReport, Report, Step
<1>14. ASSUME NEW j \in Jobs, Release(j) PROVE Goal
  BY <1>14 DEF Release, SealTask, Step
<1>15. ASSUME NEW x \in Exports, Lookup(x) PROVE Goal
  BY <1>15 DEF Lookup, Found
<1>16. ASSUME NEW x \in Exports, Gate(x) PROVE Goal
  BY <1>16 DEF Gate, Answer
<1>17. ASSUME NEW x \in Exports, Pack(x) PROVE Goal
  BY <1>17 DEF Pack, Answer
<1>18. CASE Crash
  BY <1>18 DEF Crash
<1>19. CASE Corrupt
  BY <1>19 DEF Corrupt
<1>20. CASE Restart
  BY <1>20 DEF Restart, Loaded
<1>21. CASE CountAttempt
  BY <1>21 DEF CountAttempt, Tripped
<1>22. CASE Isolate
  BY <1>22 DEF Isolate, SealTask
<1>23. CASE Purge
  BY <1>23 DEF Purge, Purged
<1>24. CASE SavePurge
  BY <1>24 DEF SavePurge, Save, SaveFails, Snapshot
<1>25. CASE Archive
  BY <1>25 DEF Archive
<1>26. CASE QueueFailure
  BY <1>26 DEF QueueFailure, Report, SealTask
<1>27. CASE ResetTask
  BY <1>27 DEF ResetTask, SealTask
<1>28. CASE UNCHANGED vars
  BY <1>28 DEF vars
<1> QED
  BY <1>p, <1>q, <1>1, <1>2, <1>3, <1>4, <1>5, <1>6, <1>7, <1>8, <1>9, <1>10, <1>11, <1>12, <1>13,
     <1>14, <1>15, <1>16, <1>17, <1>18, <1>19, <1>20, <1>21, <1>22, <1>23, <1>24, <1>25,
     <1>26, <1>27, <1>28 DEF Next, JobStep, StartUp

LEMMA AnswerStep == ASSUME PartsOK, TaskSound, AnswerSound, [Next]_vars PROVE AnswerSound'
<1>0. PartsOK'
  BY TypeStep
<1>a. \A k \in Jobs : Reported(k) => Reported(k)'
  BY ReportedKept
<1> USE <1>a
<1> USE IndexAssumption DEF IndexAssumption, Verdicts, InFlight, Panicking, JobStages, BootStages, NoVerdicts, NoRecords,
        Serving, indexVars, diskVars, taskVars, dirVars, exportVars, recoveryVars,
        faultVars, jobRest, exportRest, bootRest, TaskSound, AnswerSound, PartsOK, TaskOK,
        DirOK
<1>1. ASSUME NEW j \in Jobs, Acquire(j) PROVE AnswerSound'
  BY <1>1 DEF Acquire, SealTask, Step
<1>2. ASSUME NEW j \in Jobs, Reserve(j) PROVE AnswerSound'
  BY <1>2 DEF Reserve, Step
<1>3. ASSUME NEW j \in Jobs, Download(j) PROVE AnswerSound'
  BY <1>3 DEF Download, Step
<1>4. ASSUME NEW j \in Jobs, DownloadFails(j) PROVE AnswerSound'
  BY <1>4 DEF DownloadFails, Freed, Step
<1>5. ASSUME NEW j \in Jobs, ImportFails(j) PROVE AnswerSound'
  BY <1>5 DEF ImportFails, Freed, Report, Step
<1>6. ASSUME NEW j \in Jobs, Commit(j) PROVE AnswerSound'
  BY <1>6 DEF Commit, CommitSaved, CommitUndone, Save, SaveFails, Snapshot, Report, Step
<1>7. ASSUME NEW j \in Jobs, NotTrained(j) PROVE AnswerSound'
  BY <1>7 DEF NotTrained, Step
<1>8. ASSUME NEW j \in Jobs, Collect(j) PROVE AnswerSound'
  BY <1>8 DEF Collect, Step
<1>9. ASSUME NEW j \in Jobs, ResultCheck(j) PROVE AnswerSound'
  BY <1>9 DEF ResultCheck, VerdictSaved, VerdictUndone, Save, SaveFails, Snapshot, Step
<1>10. ASSUME NEW j \in Jobs, WriteReport(j) PROVE AnswerSound'
  BY <1>10 DEF WriteReport, Step
<1>11. ASSUME NEW j \in Jobs, SendReport(j) PROVE AnswerSound'
  BY <1>11 DEF SendReport, Report, Step
<1>12. ASSUME NEW j \in Jobs, ImportModel(j) PROVE AnswerSound'
  BY <1>12 DEF ImportModel, Report, Step
<1>13. ASSUME NEW j \in Jobs, Panic(j) PROVE AnswerSound'
  BY <1>13 DEF Panic, SealTask, Step
<1>p. ASSUME NEW j \in Jobs, WritePanicReport(j) PROVE AnswerSound'
  BY <1>p DEF WritePanicReport, Step
<1>q. ASSUME NEW j \in Jobs, QueuePanicReport(j) PROVE AnswerSound'
  BY <1>q DEF QueuePanicReport, Report, Step
<1>14. ASSUME NEW j \in Jobs, Release(j) PROVE AnswerSound'
  BY <1>14 DEF Release, SealTask, Step
<1>15. ASSUME NEW x \in Exports, Lookup(x) PROVE AnswerSound'
  BY <1>15 DEF Lookup, Found
<1>16. ASSUME NEW x \in Exports, Gate(x) PROVE AnswerSound'
  BY <1>16 DEF Gate, Answer
<1>17. ASSUME NEW x \in Exports, Pack(x) PROVE AnswerSound'
  BY <1>17 DEF Pack, Answer
<1>18. CASE Crash
  BY <1>18 DEF Crash
<1>19. CASE Corrupt
  BY <1>19 DEF Corrupt
<1>20. CASE Restart
  BY <1>20 DEF Restart, Loaded
<1>21. CASE CountAttempt
  BY <1>21 DEF CountAttempt, Tripped
<1>22. CASE Isolate
  BY <1>22 DEF Isolate, SealTask
<1>23. CASE Purge
  BY <1>23 DEF Purge, Purged
<1>24. CASE SavePurge
  BY <1>24 DEF SavePurge, Save, SaveFails, Snapshot
<1>25. CASE Archive
  BY <1>25 DEF Archive
<1>26. CASE QueueFailure
  <2>1. Reported(task)'
    BY <1>26 DEF QueueFailure, Report, Reported
  <2> QED
    BY <1>26, <2>1 DEF QueueFailure, SealTask
<1>27. CASE ResetTask
  BY <1>27 DEF ResetTask, SealTask
<1>28. CASE UNCHANGED vars
  BY <1>28 DEF vars
<1> QED
  BY <1>p, <1>q, <1>1, <1>2, <1>3, <1>4, <1>5, <1>6, <1>7, <1>8, <1>9, <1>10, <1>11, <1>12, <1>13,
     <1>14, <1>15, <1>16, <1>17, <1>18, <1>19, <1>20, <1>21, <1>22, <1>23, <1>24, <1>25,
     <1>26, <1>27, <1>28 DEF Next, JobStep, StartUp

(* Only a job that has its result, or a model import, reports a success. *)
LEMMA SuccessSaid ==
    ASSUME TaskOK, [Next]_vars, NEW k \in Jobs, Succeeded(k)'
    PROVE  Succeeded(k) \/ (jpc[k] \in {"send", "import"} /\ jpc'[k] = "release")
<1> DEFINE Goal == Succeeded(k) \/ (jpc[k] \in {"send", "import"} /\ jpc'[k] = "release")
<1> SUFFICES Goal
  OBVIOUS
<1> USE DEF Succeeded, TaskOK, indexVars, diskVars, taskVars, dirVars, exportVars,
        recoveryVars, faultVars, jobRest, exportRest, bootRest
<1>1. ASSUME NEW j \in Jobs, Acquire(j) PROVE Goal
  BY <1>1 DEF Acquire, SealTask, Step
<1>2. ASSUME NEW j \in Jobs, Reserve(j) PROVE Goal
  BY <1>2 DEF Reserve, Step
<1>3. ASSUME NEW j \in Jobs, Download(j) PROVE Goal
  BY <1>3 DEF Download, Step
<1>4. ASSUME NEW j \in Jobs, DownloadFails(j) PROVE Goal
  BY <1>4 DEF DownloadFails, Freed, Step
<1>5. ASSUME NEW j \in Jobs, ImportFails(j) PROVE Goal
  BY <1>5 DEF ImportFails, Freed, Report, Step
<1>6. ASSUME NEW j \in Jobs, Commit(j) PROVE Goal
  BY <1>6 DEF Commit, CommitSaved, CommitUndone, Save, SaveFails, Snapshot, Report, Step
<1>7. ASSUME NEW j \in Jobs, NotTrained(j) PROVE Goal
  BY <1>7 DEF NotTrained, Step
<1>8. ASSUME NEW j \in Jobs, Collect(j) PROVE Goal
  BY <1>8 DEF Collect, Step
<1>9. ASSUME NEW j \in Jobs, ResultCheck(j) PROVE Goal
  BY <1>9 DEF ResultCheck, VerdictSaved, VerdictUndone, Save, SaveFails, Snapshot, Step
<1>10. ASSUME NEW j \in Jobs, WriteReport(j) PROVE Goal
  BY <1>10 DEF WriteReport, Step
<1>11. ASSUME NEW j \in Jobs, SendReport(j) PROVE Goal
  BY <1>11 DEF SendReport, Report, Step
<1>12. ASSUME NEW j \in Jobs, ImportModel(j) PROVE Goal
  BY <1>12 DEF ImportModel, Report, Step
<1>13. ASSUME NEW j \in Jobs, Panic(j) PROVE Goal
  BY <1>13 DEF Panic, SealTask, Step
<1>p. ASSUME NEW j \in Jobs, WritePanicReport(j) PROVE Goal
  BY <1>p DEF WritePanicReport, Step
<1>q. ASSUME NEW j \in Jobs, QueuePanicReport(j) PROVE Goal
  BY <1>q DEF QueuePanicReport, Report, Step
<1>14. ASSUME NEW j \in Jobs, Release(j) PROVE Goal
  BY <1>14 DEF Release, SealTask, Step
<1>15. ASSUME NEW x \in Exports, Lookup(x) PROVE Goal
  BY <1>15 DEF Lookup, Found
<1>16. ASSUME NEW x \in Exports, Gate(x) PROVE Goal
  BY <1>16 DEF Gate, Answer
<1>17. ASSUME NEW x \in Exports, Pack(x) PROVE Goal
  BY <1>17 DEF Pack, Answer
<1>18. CASE Crash
  BY <1>18 DEF Crash
<1>19. CASE Corrupt
  BY <1>19 DEF Corrupt
<1>20. CASE Restart
  BY <1>20 DEF Restart, Loaded
<1>21. CASE CountAttempt
  BY <1>21 DEF CountAttempt, Tripped
<1>22. CASE Isolate
  BY <1>22 DEF Isolate, SealTask
<1>23. CASE Purge
  BY <1>23 DEF Purge, Purged
<1>24. CASE SavePurge
  BY <1>24 DEF SavePurge, Save, SaveFails, Snapshot
<1>25. CASE Archive
  BY <1>25 DEF Archive
<1>26. CASE QueueFailure
  BY <1>26 DEF QueueFailure, Report, SealTask
<1>27. CASE ResetTask
  BY <1>27 DEF ResetTask, SealTask
<1>28. CASE UNCHANGED vars
  BY <1>28 DEF vars
<1> QED
  BY <1>p, <1>q, <1>1, <1>2, <1>3, <1>4, <1>5, <1>6, <1>7, <1>8, <1>9, <1>10, <1>11, <1>12, <1>13,
     <1>14, <1>15, <1>16, <1>17, <1>18, <1>19, <1>20, <1>21, <1>22, <1>23, <1>24, <1>25,
     <1>26, <1>27, <1>28 DEF Next, JobStep, StartUp

(* A displaced job stays displaced: recoveries are only added up. *)
LEMMA DisplacedStays ==
    ASSUME TaskOK, CountOK, [Next]_vars, NEW k \in Jobs, Displaced(k) PROVE Displaced(k)'
<1>1. PICK l \in Jobs \ {k} : Overlap(k, l) /\ recoveries[l] > 0
  BY DEF Displaced
<1>2. recoveries'[l] > 0
  <2> DEFINE Goal == recoveries'[l] > 0
  <2> HIDE DEF Goal
  <2> SUFFICES Goal
    BY DEF Goal
  <2> USE <1>1 DEF Goal, TaskOK, CountOK, InFlight, Panicking, indexVars, diskVars, taskVars, dirVars, exportVars,
        recoveryVars, faultVars, jobRest, exportRest, bootRest
  <2>1. ASSUME NEW j \in Jobs, Acquire(j) PROVE Goal
    BY <2>1 DEF Acquire, SealTask, Step
  <2>2. ASSUME NEW j \in Jobs, Reserve(j) PROVE Goal
    BY <2>2 DEF Reserve, Step
  <2>3. ASSUME NEW j \in Jobs, Download(j) PROVE Goal
    BY <2>3 DEF Download, Step
  <2>4. ASSUME NEW j \in Jobs, DownloadFails(j) PROVE Goal
    BY <2>4 DEF DownloadFails, Freed, Step
  <2>5. ASSUME NEW j \in Jobs, ImportFails(j) PROVE Goal
    BY <2>5 DEF ImportFails, Freed, Report, Step
  <2>6. ASSUME NEW j \in Jobs, Commit(j) PROVE Goal
    BY <2>6 DEF Commit, CommitSaved, CommitUndone, Save, SaveFails, Snapshot, Report,
       Step
  <2>7. ASSUME NEW j \in Jobs, NotTrained(j) PROVE Goal
    BY <2>7 DEF NotTrained, Step
  <2>8. ASSUME NEW j \in Jobs, Collect(j) PROVE Goal
    BY <2>8 DEF Collect, Step
  <2>9. ASSUME NEW j \in Jobs, ResultCheck(j) PROVE Goal
    BY <2>9 DEF ResultCheck, VerdictSaved, VerdictUndone, Save, SaveFails, Snapshot,
       Step
  <2>10. ASSUME NEW j \in Jobs, WriteReport(j) PROVE Goal
    BY <2>10 DEF WriteReport, Step
  <2>11. ASSUME NEW j \in Jobs, SendReport(j) PROVE Goal
    BY <2>11 DEF SendReport, Report, Step
  <2>12. ASSUME NEW j \in Jobs, ImportModel(j) PROVE Goal
    BY <2>12 DEF ImportModel, Report, Step
  <2>13. ASSUME NEW j \in Jobs, Panic(j) PROVE Goal
    BY <2>13 DEF Panic, SealTask, Step
  <2>p. ASSUME NEW j \in Jobs, WritePanicReport(j) PROVE Goal
    BY <2>p DEF WritePanicReport, Step
  <2>q. ASSUME NEW j \in Jobs, QueuePanicReport(j) PROVE Goal
    BY <2>q DEF QueuePanicReport, Report, Step
  <2>14. ASSUME NEW j \in Jobs, Release(j) PROVE Goal
    BY <2>14 DEF Release, SealTask, Step
  <2>15. ASSUME NEW x \in Exports, Lookup(x) PROVE Goal
    BY <2>15 DEF Lookup, Found
  <2>16. ASSUME NEW x \in Exports, Gate(x) PROVE Goal
    BY <2>16 DEF Gate, Answer
  <2>17. ASSUME NEW x \in Exports, Pack(x) PROVE Goal
    BY <2>17 DEF Pack, Answer
  <2>18. CASE Crash
    BY <2>18 DEF Crash
  <2>19. CASE Corrupt
    BY <2>19 DEF Corrupt
  <2>20. CASE Restart
    BY <2>20 DEF Restart, Loaded
  <2>21. CASE CountAttempt
    BY <2>21 DEF CountAttempt, Tripped
  <2>22. CASE Isolate
    BY <2>22 DEF Isolate, SealTask
  <2>23. CASE Purge
    BY <2>23 DEF Purge, Purged
  <2>24. CASE SavePurge
    BY <2>24 DEF SavePurge, Save, SaveFails, Snapshot
  <2>25. CASE Archive
    BY <2>25 DEF Archive
  <2>26. CASE QueueFailure
    BY <2>26 DEF QueueFailure, Report, SealTask
  <2>27. CASE ResetTask
    BY <2>27 DEF ResetTask, SealTask
  <2>28. CASE UNCHANGED vars
    BY <2>28 DEF vars
  <2> QED
    BY <2>p, <2>q, <2>1, <2>2, <2>3, <2>4, <2>5, <2>6, <2>7, <2>8, <2>9, <2>10, <2>11, <2>12, <2>13,
       <2>14, <2>15, <2>16, <2>17, <2>18, <2>19, <2>20, <2>21, <2>22, <2>23, <2>24, <2>25,
       <2>26, <2>27, <2>28 DEF Next, JobStep, StartUp
<1> QED
  BY <1>1, <1>2 DEF Displaced

(* A successful job, one at a time. *)
KeptOf(j) ==
    Succeeded(j) =>
        /\ jpc[j] \in {"release", "done", "lost"}
        /\ jpc[j] \in {"release", "done"} /\ Kind[j] = "data" /\ corruptions = 0 =>
             j \in dirs[Path(j)].files \/ Displaced(j)

LEMMA KeptStep ==
    ASSUME PartsOK, TaskSound, UniqueSound, RecordSound, FilesSound, TriesSound, KeptSound,
           [Next]_vars, NEW k \in Jobs
    PROVE  KeptOf(k)'
<1>1. KeptOf(k)
  BY DEF KeptSound, KeptOf
<1>2. /\ Displaced(k) => Displaced(k)'
      /\ Succeeded(k)' =>
           Succeeded(k) \/ (jpc[k] \in {"send", "import"} /\ jpc'[k] = "release")
  BY DisplacedStays, SuccessSaid DEF PartsOK
<1>3. Path(k) \in Paths
  BY Ids
<1> USE <1>1, <1>2, <1>3, IndexAssumption DEF IndexAssumption, Verdicts, InFlight, Panicking, JobStages, BootStages, NoVerdicts, NoRecords,
        Serving, indexVars, diskVars, taskVars, dirVars, exportVars, recoveryVars,
        faultVars, jobRest, exportRest, bootRest, TaskSound, RecordSound, KeptOf, PartsOK,
        TaskOK, IndexOK, DirOK, CountOK
<1>4. ASSUME NEW j \in Jobs, Acquire(j) PROVE KeptOf(k)'
  BY <1>4 DEF Acquire, SealTask, Step
<1>5. ASSUME NEW j \in Jobs, Reserve(j) PROVE KeptOf(k)'
  BY <1>5 DEF Reserve, Step
<1>6. ASSUME NEW j \in Jobs, Download(j) PROVE KeptOf(k)'
  BY <1>6 DEF Download, Step
<1>7. ASSUME NEW j \in Jobs, DownloadFails(j) PROVE KeptOf(k)'
  BY <1>7 DEF DownloadFails, Freed, Step
<1>8. ASSUME NEW j \in Jobs, ImportFails(j) PROVE KeptOf(k)'
  BY <1>8 DEF ImportFails, Freed, Report, Step
<1>9. ASSUME NEW j \in Jobs, Commit(j) PROVE KeptOf(k)'
  BY <1>9 DEF Commit, CommitSaved, CommitUndone, Save, SaveFails, Snapshot, Report, Step
<1>10. ASSUME NEW j \in Jobs, NotTrained(j) PROVE KeptOf(k)'
  BY <1>10 DEF NotTrained, Step
<1>11. ASSUME NEW j \in Jobs, Collect(j) PROVE KeptOf(k)'
  BY <1>11 DEF Collect, Step
<1>12. ASSUME NEW j \in Jobs, ResultCheck(j) PROVE KeptOf(k)'
  BY <1>12 DEF ResultCheck, VerdictSaved, VerdictUndone, Save, SaveFails, Snapshot, Step
<1>13. ASSUME NEW j \in Jobs, WriteReport(j) PROVE KeptOf(k)'
  BY <1>13 DEF WriteReport, Step
<1>14. ASSUME NEW j \in Jobs, SendReport(j) PROVE KeptOf(k)'
  BY <1>14 DEF SendReport, Report, Step
<1>15. ASSUME NEW j \in Jobs, ImportModel(j) PROVE KeptOf(k)'
  BY <1>15 DEF ImportModel, Report, Step
<1>16. ASSUME NEW j \in Jobs, Panic(j) PROVE KeptOf(k)'
  BY <1>16 DEF Panic, SealTask, Step
<1>p. ASSUME NEW j \in Jobs, WritePanicReport(j) PROVE KeptOf(k)'
  BY <1>p DEF WritePanicReport, Step
<1>q. ASSUME NEW j \in Jobs, QueuePanicReport(j) PROVE KeptOf(k)'
  BY <1>q DEF QueuePanicReport, Report, Step
<1>17. ASSUME NEW j \in Jobs, Release(j) PROVE KeptOf(k)'
  BY <1>17 DEF Release, SealTask, Step
<1>18. ASSUME NEW x \in Exports, Lookup(x) PROVE KeptOf(k)'
  BY <1>18 DEF Lookup, Found
<1>19. ASSUME NEW x \in Exports, Gate(x) PROVE KeptOf(k)'
  BY <1>19 DEF Gate, Answer
<1>20. ASSUME NEW x \in Exports, Pack(x) PROVE KeptOf(k)'
  BY <1>20 DEF Pack, Answer
<1>21. CASE Crash
  BY <1>21 DEF Crash
<1>22. CASE Corrupt
  BY <1>22 DEF Corrupt
<1>23. CASE Restart
  BY <1>23 DEF Restart, Loaded
<1>24. CASE CountAttempt
  BY <1>24 DEF CountAttempt, Tripped
<1>25. CASE Isolate
  BY <1>25 DEF Isolate, SealTask
<1>26. CASE Purge
  <2>1. ASSUME k \in dirs[Path(k)].files, k \notin dirs'[Path(k)].files, corruptions = 0,
               jpc[k] # "lost"
        PROVE  Displaced(k)
    <3>1. PICK l \in Purged(task) : Path(l) = Path(k)
      BY <1>26, <2>1 DEF Purge
    <3>2. /\ k \in records /\ l \in records /\ task \in Jobs /\ jpc[task] = "lost"
         /\ recoveries[task] > 0
      BY <1>26, <2>1, <3>1 DEF Purge, Purged, FilesSound, TriesSound
    <3>3. l = k
      BY <3>1, <3>2, Ids DEF UniqueSound, Distinct
    <3>4. Overlap(k, task) /\ task # k
      BY <2>1, <3>1, <3>2, <3>3, Ids DEF Purged
    <3> QED
      BY <3>2, <3>4 DEF Displaced
  <2> QED
    BY <1>26, <2>1 DEF Purge
<1>27. CASE SavePurge
  BY <1>27 DEF SavePurge, Save, SaveFails, Snapshot
<1>28. CASE Archive
  <2>1. ASSUME Path(k) = Path(task), jpc[k] # "lost" PROVE Displaced(k)
    <3>1. task \in Jobs /\ jpc[task] = "lost" /\ recoveries[task] > 0
      BY <1>28 DEF Archive, TriesSound
    <3>2. Overlap(k, task) /\ task # k
      BY <2>1, <3>1, Ids
    <3> QED
      BY <3>1, <3>2 DEF Displaced
  <2>2. Path(k) # Path(task) => dirs'[Path(k)] = dirs[Path(k)]
    BY <1>28, ArchiveFrame
  <2>3. UNCHANGED <<jpc, corruptions, reports>>
    BY <1>28 DEF Archive
  <2> QED
    BY <2>1, <2>2, <2>3
<1>29. CASE QueueFailure
  BY <1>29 DEF QueueFailure, Report, SealTask
<1>30. CASE ResetTask
  BY <1>30 DEF ResetTask, SealTask
<1>31. CASE UNCHANGED vars
  BY <1>31 DEF vars
<1> QED
  BY <1>p, <1>q, <1>4, <1>5, <1>6, <1>7, <1>8, <1>9, <1>10, <1>11, <1>12, <1>13, <1>14, <1>15,
     <1>16, <1>17, <1>18, <1>19, <1>20, <1>21, <1>22, <1>23, <1>24, <1>25, <1>26, <1>27,
     <1>28, <1>29, <1>30, <1>31 DEF Next, JobStep, StartUp

(* A directory that is packed holds the artefacts of the record that was looked
   up, and of no other. *)
LEMMA PackedPassed ==
    ASSUME CheckResults, FailClosed, PartsOK, UniqueSound, FilesSound, ExportSound,
           corruptions = 0,
           NEW x \in Exports, Pack(x), NEW k \in dirs[Path(xrec[x])].files
    PROVE  verdict[k] = "passed"
<1>1. xrec[x] \in records /\ verdict[xrec[x]] = "passed"
  BY DEF Pack, ExportSound, MayExport
<1>2. xrec[x] \in Jobs /\ Path(xrec[x]) \in Paths
  BY <1>1, Ids DEF PartsOK, IndexOK
<1>3. k \in Jobs
  BY <1>2 DEF PartsOK, DirOK
<1>4. Path(k) = Path(xrec[x]) /\ k \in records
  BY <1>2, <1>3 DEF FilesSound, Pack, Serving
<1>5. k = xrec[x]
  BY <1>1, <1>2, <1>3, <1>4, Ids DEF UniqueSound, Distinct
<1> QED
  BY <1>1, <1>5

LEMMA PassedStep ==
    ASSUME PartsOK, UniqueSound, FilesSound, ExportSound, OnlyPassedExported, [Next]_vars
    PROVE  OnlyPassedExported'
<1>0. PartsOK'
  BY TypeStep
<1> USE IndexAssumption DEF IndexAssumption, Verdicts, InFlight, Panicking, JobStages, BootStages, NoVerdicts, NoRecords,
        Serving, indexVars, diskVars, taskVars, dirVars, exportVars, recoveryVars,
        faultVars, jobRest, exportRest, bootRest, OnlyPassedExported, PartsOK, CountOK
<1>1. ASSUME NEW j \in Jobs, Acquire(j) PROVE OnlyPassedExported'
  BY <1>1 DEF Acquire, SealTask, Step
<1>2. ASSUME NEW j \in Jobs, Reserve(j) PROVE OnlyPassedExported'
  BY <1>2 DEF Reserve, Step
<1>3. ASSUME NEW j \in Jobs, Download(j) PROVE OnlyPassedExported'
  BY <1>3 DEF Download, Step
<1>4. ASSUME NEW j \in Jobs, DownloadFails(j) PROVE OnlyPassedExported'
  BY <1>4 DEF DownloadFails, Freed, Step
<1>5. ASSUME NEW j \in Jobs, ImportFails(j) PROVE OnlyPassedExported'
  BY <1>5 DEF ImportFails, Freed, Report, Step
<1>6. ASSUME NEW j \in Jobs, Commit(j) PROVE OnlyPassedExported'
  BY <1>6 DEF Commit, CommitSaved, CommitUndone, Save, SaveFails, Snapshot, Report, Step
<1>7. ASSUME NEW j \in Jobs, NotTrained(j) PROVE OnlyPassedExported'
  BY <1>7 DEF NotTrained, Step
<1>8. ASSUME NEW j \in Jobs, Collect(j) PROVE OnlyPassedExported'
  BY <1>8 DEF Collect, Step
<1>9. ASSUME NEW j \in Jobs, ResultCheck(j) PROVE OnlyPassedExported'
  BY <1>9 DEF ResultCheck, VerdictSaved, VerdictUndone, Save, SaveFails, Snapshot, Step
<1>10. ASSUME NEW j \in Jobs, WriteReport(j) PROVE OnlyPassedExported'
  BY <1>10 DEF WriteReport, Step
<1>11. ASSUME NEW j \in Jobs, SendReport(j) PROVE OnlyPassedExported'
  BY <1>11 DEF SendReport, Report, Step
<1>12. ASSUME NEW j \in Jobs, ImportModel(j) PROVE OnlyPassedExported'
  BY <1>12 DEF ImportModel, Report, Step
<1>13. ASSUME NEW j \in Jobs, Panic(j) PROVE OnlyPassedExported'
  BY <1>13 DEF Panic, SealTask, Step
<1>p. ASSUME NEW j \in Jobs, WritePanicReport(j) PROVE OnlyPassedExported'
  BY <1>p DEF WritePanicReport, Step
<1>q. ASSUME NEW j \in Jobs, QueuePanicReport(j) PROVE OnlyPassedExported'
  BY <1>q DEF QueuePanicReport, Report, Step
<1>14. ASSUME NEW j \in Jobs, Release(j) PROVE OnlyPassedExported'
  BY <1>14 DEF Release, SealTask, Step
<1>15. ASSUME NEW x \in Exports, Lookup(x) PROVE OnlyPassedExported'
  BY <1>15 DEF Lookup, Found
<1>16. ASSUME NEW x \in Exports, Gate(x) PROVE OnlyPassedExported'
  BY <1>16 DEF Gate, Answer
<1>17. ASSUME NEW x \in Exports, Pack(x) PROVE OnlyPassedExported'
  <2> SUFFICES ASSUME CheckResults, FailClosed, corruptions = 0, NEW s \in sent', s \notin sent PROVE s[2] = "passed"
    BY <1>17 DEF Pack
  <2>1. s \in {<<k, verdict[k]>> : k \in dirs[Path(xrec[x])].files}
    BY <1>17 DEF Pack
  <2>2. PICK k \in dirs[Path(xrec[x])].files : s = <<k, verdict[k]>>
    BY <2>1
  <2>3. verdict[k] = "passed"
    BY <1>17, PackedPassed
  <2> QED
    BY <2>2, <2>3
<1>18. CASE Crash
  BY <1>18 DEF Crash
<1>19. CASE Corrupt
  BY <1>19 DEF Corrupt
<1>20. CASE Restart
  BY <1>20 DEF Restart, Loaded
<1>21. CASE CountAttempt
  BY <1>21 DEF CountAttempt, Tripped
<1>22. CASE Isolate
  BY <1>22 DEF Isolate, SealTask
<1>23. CASE Purge
  BY <1>23 DEF Purge, Purged
<1>24. CASE SavePurge
  BY <1>24 DEF SavePurge, Save, SaveFails, Snapshot
<1>25. CASE Archive
  BY <1>25 DEF Archive
<1>26. CASE QueueFailure
  BY <1>26 DEF QueueFailure, Report, SealTask
<1>27. CASE ResetTask
  BY <1>27 DEF ResetTask, SealTask
<1>28. CASE UNCHANGED vars
  BY <1>28 DEF vars
<1> QED
  BY <1>p, <1>q, <1>1, <1>2, <1>3, <1>4, <1>5, <1>6, <1>7, <1>8, <1>9, <1>10, <1>11, <1>12, <1>13,
     <1>14, <1>15, <1>16, <1>17, <1>18, <1>19, <1>20, <1>21, <1>22, <1>23, <1>24, <1>25,
     <1>26, <1>27, <1>28 DEF Next, JobStep, StartUp
-----------------------------------------------------------------------------
(* The whole invariant. *)
IndexInv ==
    /\ PartsOK /\ TaskSound /\ UniqueSound /\ RecordSound /\ FilesSound /\ ExportSound
    /\ MemoryMatchesFile /\ ReservationsOwned
    /\ ClearedSound /\ AnswerSound /\ KeptSound /\ TriesSound

LEMMA IndexInit == Init => IndexInv
<1> SUFFICES ASSUME Init PROVE IndexInv
  OBVIOUS
<1>1. PartsOK
  BY TypeInit
<1> USE IndexAssumption DEF IndexAssumption, Init, NoRecords, NoVerdicts
<1>2. TaskSound /\ TriesSound /\ AnswerSound /\ ReservationsOwned
  BY DEF TaskSound, TriesSound, AnswerSound, ReservationsOwned, BreakerNotEarly, InFlight
<1>3. UniqueSound /\ RecordSound /\ MemoryMatchesFile /\ ExportSound
  BY DEF UniqueSound, Distinct, RecordSound, MemoryMatchesFile, ExportSound
<1>4. FilesSound
  BY DEF FilesSound, Empty
<1>5. ClearedSound /\ KeptSound
  BY DEF ClearedSound, KeptSound, Succeeded
<1> QED
  BY <1>1, <1>2, <1>3, <1>4, <1>5 DEF IndexInv

(* The invariant is kept by every step of the jobs, the exports, a crash and
   the start-up. *)
THEOREM IndexCorrect == Spec => []IndexInv
<1>1. ASSUME IndexInv, [Next]_vars PROVE IndexInv'
  <2>1. PartsOK' /\ TaskSound' /\ TriesSound' /\ MemoryMatchesFile' /\ ReservationsOwned'
    BY <1>1, TypeStep, TaskStep, TriesStep, MatchStep, ReservedStep DEF IndexInv
  <2>2. UniqueSound' /\ RecordSound' /\ FilesSound' /\ ExportSound'
    BY <1>1, UniqueStep, RecordStep, FilesStep, ExportStep DEF IndexInv
  <2>3. ClearedSound' /\ AnswerSound'
    BY <1>1, ClearedStep, AnswerStep DEF IndexInv
  <2>4. KeptSound'
    <3> SUFFICES ASSUME NEW k \in Jobs PROVE KeptOf(k)'
      BY DEF KeptSound, KeptOf
    <3> QED
      BY <1>1, KeptStep DEF IndexInv
  <2> QED
    BY <2>1, <2>2, <2>3, <2>4 DEF IndexInv
<1> QED
  BY <1>1, IndexInit, PTL DEF Spec

(* The import index is consistent with itself, with its file and with the jobs
   that use it, whichever of its writes failed. *)
THEOREM IndexSoundCorrect == Spec => []IndexSound
<1>1. IndexInv => IndexSound
  <2> SUFFICES ASSUME IndexInv PROVE IndexSound
    OBVIOUS
  <2>1. IdsUnique
    BY DEF IndexInv, UniqueSound, Distinct, IdsUnique
  <2> QED
    BY <2>1 DEF IndexInv, IndexSound
<1> QED
  BY <1>1, IndexCorrect, PTL

(* Wherever further crashes cut it short, a recovery answers the interrupted task
   (but one that was inside its panic handler), clears what that task left, touches
   no finished job but one whose ids the interrupted delivery reused, and gives up
   only after MaxAttempts recoveries. *)
THEOREM RecoveryCorrect == Spec => []RecoveryExact
<1>1. IndexInv => RecoveryExact
  <2> SUFFICES ASSUME IndexInv PROVE RecoveryExact
    OBVIOUS
  <2> USE IndexAssumption DEF IndexAssumption, IndexInv
  <2>1. InterruptedAnswered
    <3> SUFFICES ASSUME Serving, NEW j \in Jobs, jpc[j] = "lost"
                 PROVE  j \in deadLetter \cup unanswered \/ Reported(j)
      BY DEF InterruptedAnswered, Reported
    <3> QED
      BY DEF AnswerSound, TaskSound, Serving, InFlight, PartsOK, TaskOK
  <2>2. RecoveredCleared
    BY DEF RecoveredCleared, ClearedSound
  <2>3. CompletedKept
    <3> SUFFICES ASSUME Serving, corruptions = 0, NEW j \in Jobs, jpc[j] = "done", Succeeded(j),
                        Kind[j] = "data"
                 PROVE  (j \in records /\ j \in dirs[Path(j)].files) \/ Displaced(j)
      BY DEF CompletedKept, Succeeded, Displaced
    <3>1. j \in dirs[Path(j)].files \/ Displaced(j)
      BY DEF KeptSound
    <3>2. j \in dirs[Path(j)].files => j \in records
      BY Ids DEF FilesSound, Serving
    <3> QED
      BY <3>1, <3>2
  <2>4. BreakerNotEarly
    BY DEF TriesSound
  <2> QED
    BY <2>1, <2>2, <2>3, <2>4 DEF RecoveryExact
<1> QED
  BY <1>1, IndexCorrect, PTL

(* With the check switched on and failClosed, nothing leaves the instance but
   artefacts whose leakage check passed, whatever an export interleaves with. *)
THEOREM ExportCorrect == Spec => []OnlyPassedExported
<1>1. Init => OnlyPassedExported
  BY DEF Init, OnlyPassedExported
<1>2. ASSUME IndexInv, OnlyPassedExported, [Next]_vars PROVE OnlyPassedExported'
  BY <1>2, PassedStep DEF IndexInv
<1> QED
  BY <1>1, <1>2, IndexCorrect, PTL DEF Spec
=============================================================================
