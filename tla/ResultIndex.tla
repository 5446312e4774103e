---------------------------- MODULE ResultIndex ----------------------------
(***************************************************************************)
(* What a task leaves on disk, and what a crash and an export make of it:  *)
(* the import index (internal/resource/index_store.go), the result         *)
(* directories with the verdict of the leakage check, the sealed activeTask*)
(* with its recovery counter (internal/app/taa/recovery.go), and the       *)
(* export gate (internal/controller/handler_export.go).                    *)
(*                                                                         *)
(* One job at a time is between tryAcquireTask and its release             *)
(* (TaskLifecycle).  A record is identified by the job that committed it;  *)
(* its position, its hash and the pointer to the latest record are left    *)
(* out.  Seals of the sealed state succeed here (ReportOutbox covers their *)
(* failures), and a queued report is durable.                              *)
(***************************************************************************)
EXTENDS Naturals, FiniteSets

CONSTANTS Jobs,            \* imports delivered by the platform
          Kind,            \* "data" or "model"
          Req, Task,       \* their requestId and taskId; None when empty
          Exports,         \* export requests
          CheckResults,    \* Security.ResultCheck
          FailClosed,      \* codeAudit.llm.failClosed
          MaxAttempts,     \* maxCrashRecoveryAttempts
          None,
          MaxCrashes,      \* bound: process crashes
          MaxFaults        \* bound: failed writes of the index, writes whose .bak
                           \* stays behind, damaged files and panics, together

ASSUME IndexAssumption ==
    /\ Kind \in [Jobs -> {"data", "model"}]
    /\ None \notin Jobs
    /\ \A j \in Jobs : Req[j] # None \/ Task[j] # None
    /\ CheckResults \in BOOLEAN /\ FailClosed \in BOOLEAN
    /\ MaxAttempts \in Nat \ {0}
    /\ MaxCrashes \in Nat /\ MaxFaults \in Nat

VARIABLES
    jpc,          \* where each job stands
    outcome,      \* what the running job's leakage check found
    records,      \* ImportIndexStore.records, byRequestID, byTaskID
    verdict,      \* ResultCheck of each record
    pending,      \* pendingReqIDs and pendingTaskIDs: the ids reserved
    file, bak,    \* import-index.json and its .bak
    damaged,      \* import-index.json cannot be parsed
    dirs,         \* result directories: artefacts by job, and whether a report is there
    archives,     \* ids that have a .failed-<id>-* directory
    task, tries,  \* TAAState.activeTask and its RecoveryAttempts
    sealedTask, sealedTries,  \* the same in the sealed state file
    boot,         \* the process and where its start-up stands
    reports,      \* terminal reports queued in the sealed outbox
    xpc, xrec, xver,  \* export requests: stage, record found, its verdict then
    sent,         \* history: artefacts sent, with the verdict of their record
    recoveries,   \* history: recoveries begun for each job
    recovered, deadLetter, panicked,  \* history
    unanswered,   \* history: jobs whose panic handler a crash cut short
    unsaved,      \* history: a purge is in memory but not in the file
    crashes, saveFailures, staleBaks, corruptions

indexVars == <<records, verdict, pending>>
diskVars  == <<file, bak, saveFailures, staleBaks>>
taskVars  == <<task, tries, sealedTask, sealedTries>>
dirVars   == <<dirs, archives>>
exportVars == <<xpc, xrec, xver, sent>>
recoveryVars == <<recoveries, recovered, deadLetter, unanswered>>
faultVars == <<panicked, crashes, corruptions, damaged>>
vars == <<jpc, outcome, indexVars, diskVars, unsaved, dirVars, taskVars, boot, reports,
          exportVars, recoveryVars, faultVars>>

Verdicts == {"none", "passed", "leak", "error"}
Path(j) == <<Req[j], Task[j]>>
Paths == {Path(j) : j \in Jobs}
IdsOf(j) == {<<"req", Req[j]>>, <<"task", Task[j]>>} \ {<<"req", None>>, <<"task", None>>}
Overlap(j, k) == IdsOf(j) \cap IdsOf(k) # {}
Empty == [files |-> {}, report |-> FALSE]
Exists(p) == dirs[p] # Empty
ArchiveId(j) == IF Task[j] = None THEN Req[j] ELSE Task[j]

InFlight == {"reserve", "download", "commit", "train", "check", "report", "send",
             "import", "release"}
Panicking == {"panicDir", "panicQueue"}
JobStages == InFlight \cup Panicking \cup {"new", "done", "refused", "lost"}
BootStages == {"down", "count", "isolate", "purge", "save", "archive", "queue", "reset", "serve"}
Snapshots == [records : SUBSET Jobs, verdict : [Jobs -> Verdicts]]

TypeOK ==
    /\ jpc \in [Jobs -> JobStages] /\ outcome \in [Jobs -> Verdicts]
    /\ records \subseteq Jobs /\ verdict \in [Jobs -> Verdicts]
    /\ pending \subseteq UNION {IdsOf(j) : j \in Jobs}
    /\ file \in Snapshots /\ bak \in Snapshots /\ damaged \in BOOLEAN
    /\ dirs \in [Paths -> [files : SUBSET Jobs, report : BOOLEAN]]
    /\ archives \subseteq {ArchiveId(j) : j \in Jobs}
    /\ task \in Jobs \cup {None} /\ sealedTask \in Jobs \cup {None}
    /\ tries \in 0..MaxAttempts /\ sealedTries \in 0..MaxAttempts
    /\ boot \in BootStages
    /\ reports \subseteq Jobs \X {0, 1, 2}
    /\ xpc \in [Exports -> {"new", "found", "pack", "sent", "refused"}]
    /\ xrec \in [Exports -> Jobs \cup {None}] /\ xver \in [Exports -> Verdicts]
    /\ sent \subseteq Jobs \X Verdicts
    /\ recoveries \in [Jobs -> Nat]
    /\ recovered \cup deadLetter \cup panicked \cup unanswered \subseteq Jobs
    /\ unsaved \in BOOLEAN
    /\ crashes \in 0..MaxCrashes
    /\ {saveFailures, staleBaks, corruptions} \subseteq 0..MaxFaults

NoVerdicts == [j \in Jobs |-> "none"]
NoRecords == [records |-> {}, verdict |-> NoVerdicts]

Init ==
    /\ jpc = [j \in Jobs |-> "new"] /\ outcome = NoVerdicts
    /\ records = {} /\ verdict = NoVerdicts /\ pending = {}
    /\ file = NoRecords /\ bak = NoRecords /\ unsaved = FALSE /\ damaged = FALSE
    /\ dirs = [p \in Paths |-> Empty] /\ archives = {}
    /\ task = None /\ tries = 0 /\ sealedTask = None /\ sealedTries = 0
    /\ boot = "serve" /\ reports = {}
    /\ xpc = [x \in Exports |-> "new"] /\ xrec = [x \in Exports |-> None]
    /\ xver = [x \in Exports |-> "none"] /\ sent = {}
    /\ recoveries = [j \in Jobs |-> 0]
    /\ recovered = {} /\ deadLetter = {} /\ panicked = {} /\ unanswered = {}
    /\ crashes = 0 /\ saveFailures = 0 /\ staleBaks = 0 /\ corruptions = 0
-----------------------------------------------------------------------------
(***************************************************************************)
(* The index store.                                                        *)
(***************************************************************************)
Serving == boot = "serve"
MoreFaults == saveFailures + staleBaks + corruptions + Cardinality(panicked) < MaxFaults
Step(j, stage) == jpc' = [jpc EXCEPT ![j] = stage]
Snapshot == [records |-> records', verdict |-> verdict']

(* saveLocked: the file is replaced atomically, then the .bak, whose failure
   is ignored and which a crash may leave behind. *)
Save ==
    /\ file' = Snapshot /\ unsaved' = FALSE
    /\ \/ bak' = Snapshot /\ UNCHANGED staleBaks
       \/ /\ MoreFaults /\ staleBaks' = staleBaks + 1
          /\ UNCHANGED bak
    /\ UNCHANGED saveFailures

SaveFails ==
    /\ MoreFaults /\ saveFailures' = saveFailures + 1
    /\ UNCHANGED <<file, bak, staleBaks>>

Known == UNION {IdsOf(k) : k \in records}

(* Commit's write, or its roll-back to the old maps when the save fails. *)
CommitSaved(j) ==
    /\ records' = records \cup {j} /\ pending' = pending \ IdsOf(j)
    /\ UNCHANGED verdict
    /\ Save

MutCommitKept(j) ==
    /\ records' = records \cup {j} /\ pending' = pending \ IdsOf(j)
    /\ UNCHANGED <<verdict, unsaved>>
    /\ SaveFails

CommitUndone(j) ==
    /\ pending' = pending \ IdsOf(j)
    /\ UNCHANGED <<records, verdict, unsaved>>
    /\ SaveFails

(* lookupLocked: the ids must not name two different records. *)
Found(r, t) == {j \in records : (r # None /\ Req[j] = r) \/ (t # None /\ Task[j] = t)}

(* SetResultCheck; a failed save restores the record without a verdict. *)
VerdictSaved(j) ==
    /\ verdict' = [verdict EXCEPT ![j] = outcome'[j]]
    /\ UNCHANGED <<records, pending>>
    /\ Save

VerdictUndone == UNCHANGED <<records, verdict, pending, unsaved>> /\ SaveFails

(* Purge takes every record that shares an id. *)
MutPurgedUnchecked(j) == {k \in records : Overlap(j, k) /\ verdict[k] = "none"}
Purged(j) == {k \in records : Overlap(j, k)}
-----------------------------------------------------------------------------
(***************************************************************************)
(* A job from the gate to its release.                                     *)
(***************************************************************************)
SealTask == sealedTask' = task' /\ sealedTries' = tries'
Report(j, code) == reports' = reports \cup {<<j, code>>}

(* tryAcquireTask: the task is sealed as RUNNING with a fresh counter. *)
Acquire(j) ==
    /\ Serving /\ jpc[j] = "new" /\ task = None
    /\ task' = j /\ tries' = 0 /\ SealTask
    /\ Step(j, IF Kind[j] = "data" THEN "reserve" ELSE "import")
    /\ UNCHANGED <<outcome, indexVars, diskVars, unsaved, dirVars, boot, reports, exportVars,
                   recoveryVars, faultVars>>

jobRest == <<outcome, taskVars, boot, exportVars, recoveryVars, faultVars>>

(* Reserve: an id that is known or in flight is refused. *)
Reserve(j) ==
    /\ Serving /\ jpc[j] = "reserve"
    /\ IF IdsOf(j) \cap (Known \cup pending) = {}
       THEN pending' = pending \cup IdsOf(j) /\ Step(j, "download")
       ELSE UNCHANGED pending /\ Step(j, "release")
    /\ UNCHANGED <<jobRest, records, verdict, diskVars, unsaved, dirVars, reports>>

Download(j) ==
    /\ Serving /\ jpc[j] = "download"
    /\ Step(j, "commit")
    /\ UNCHANGED <<jobRest, indexVars, diskVars, unsaved, dirVars, reports>>

(* Rollback *)
Freed(j) == pending \ IdsOf(j)

DownloadFails(j) ==
    /\ Serving /\ jpc[j] = "download"
    /\ pending' = Freed(j)
    /\ Step(j, "release")
    /\ UNCHANGED <<jobRest, records, verdict, diskVars, unsaved, dirVars, reports>>

(* reportImportFailure, before the record is committed or after. *)
ImportFails(j) ==
    /\ Serving /\ jpc[j] \in {"commit", "train"}
    /\ pending' = Freed(j)
    /\ Report(j, 1)
    /\ Step(j, "release")
    /\ UNCHANGED <<jobRest, records, verdict, diskVars, unsaved, dirVars>>

Commit(j) ==
    /\ Serving /\ jpc[j] = "commit"
    /\ \/ CommitSaved(j) /\ Step(j, "train") /\ UNCHANGED reports
       \/ CommitUndone(j) /\ Report(j, 1) /\ Step(j, "release")
    /\ UNCHANGED <<jobRest, dirVars>>

(* No model, a training in progress, or a stopped training. *)
NotTrained(j) ==
    /\ Serving /\ jpc[j] \in {"train", "check", "report"}
    /\ Step(j, "release")
    /\ UNCHANGED <<jobRest, indexVars, diskVars, unsaved, dirVars, reports>>

(* The artefacts are copied into the result directory. *)
Collect(j) ==
    /\ Serving /\ jpc[j] = "train"
    /\ dirs' = [dirs EXCEPT ![Path(j)].files = @ \cup {j}]
    /\ Step(j, "check")
    /\ UNCHANGED <<jobRest, indexVars, diskVars, unsaved, archives, reports>>

(* runResultCheck, then SetResultCheck, whose failure is only logged; nothing at
   all when the check is switched off. *)
ResultCheck(j) ==
    /\ Serving /\ jpc[j] = "check"
    /\ IF CheckResults
       THEN /\ \E v \in {"passed", "leak", "error"} : outcome' = [outcome EXCEPT ![j] = v]
            /\ VerdictSaved(j) \/ VerdictUndone
       ELSE UNCHANGED <<outcome, indexVars, diskVars, unsaved>>
    /\ Step(j, "report")
    /\ UNCHANGED <<taskVars, boot, exportVars, recoveryVars, faultVars, dirVars, reports>>

WriteReport(j) ==
    /\ Serving /\ jpc[j] = "report"
    /\ dirs' = [dirs EXCEPT ![Path(j)].report = TRUE]
    /\ Step(j, "send")
    /\ UNCHANGED <<jobRest, indexVars, diskVars, unsaved, archives, reports>>

SendReport(j) ==
    /\ Serving /\ jpc[j] = "send"
    /\ Report(j, IF outcome[j] = "leak" THEN 2 ELSE 0)
    /\ Step(j, "release")
    /\ UNCHANGED <<jobRest, indexVars, diskVars, unsaved, dirVars>>

(* A model import reports its own outcome and leaves the index alone. *)
ImportModel(j) ==
    /\ Serving /\ jpc[j] = "import"
    /\ \E code \in {0, 1} : Report(j, code)
    /\ Step(j, "release")
    /\ UNCHANGED <<jobRest, indexVars, diskVars, unsaved, dirVars>>

(* handleAsyncPanic: it clears and seals the task, which opens the gate, then
   leaves a report in the result directory, then queues the failure; the
   reservation stays. *)
Panic(j) ==
    /\ Serving /\ jpc[j] \in {"commit", "train", "import"}
    /\ MoreFaults /\ panicked' = panicked \cup {j}
    /\ task' = None /\ tries' = 0 /\ SealTask
    /\ Step(j, "panicDir")
    /\ UNCHANGED <<outcome, indexVars, diskVars, unsaved, dirVars, boot, reports, exportVars,
                   recoveryVars, crashes, corruptions, damaged>>

WritePanicReport(j) ==
    /\ Serving /\ jpc[j] = "panicDir"
    /\ dirs' = [dirs EXCEPT ![Path(j)].report = TRUE]
    /\ Step(j, "panicQueue")
    /\ UNCHANGED <<jobRest, indexVars, diskVars, unsaved, archives, reports>>

QueuePanicReport(j) ==
    /\ Serving /\ jpc[j] = "panicQueue"
    /\ Report(j, 1)
    /\ Step(j, "done")
    /\ UNCHANGED <<jobRest, indexVars, diskVars, unsaved, dirVars>>

(* finishTrainingControl or release *)
Release(j) ==
    /\ Serving /\ jpc[j] = "release"
    /\ task' = None /\ tries' = 0 /\ SealTask
    /\ outcome' = NoVerdicts
    /\ Step(j, "done")
    /\ UNCHANGED <<indexVars, diskVars, unsaved, dirVars, boot, reports, exportVars,
                   recoveryVars, faultVars>>
-----------------------------------------------------------------------------
(***************************************************************************)
(* exportHandler: look the record up, find the report, read the verdict of *)
(* the copy, pack the directory.                                           *)
(***************************************************************************)
exportRest == <<jpc, outcome, indexVars, diskVars, unsaved, dirVars, taskVars, boot, reports,
                recoveryVars, faultVars>>

Lookup(x) ==
    /\ Serving /\ xpc[x] = "new"
    /\ \E k, l \in Jobs : \E r \in {Req[k], None}, t \in {Task[l], None} :
         \E j \in Found(r, t) :
            /\ Cardinality(Found(r, t)) = 1
            /\ xrec' = [xrec EXCEPT ![x] = j]
            /\ xver' = [xver EXCEPT ![x] = verdict[j]]
    /\ xpc' = [xpc EXCEPT ![x] = "found"]
    /\ UNCHANGED <<exportRest, sent>>

MutMayExport(v) == v # "leak"
MayExport(v) == CheckResults => v = "passed" \/ (v \in {"none", "error"} /\ ~FailClosed)

(* The request ends; its copy of the record goes with it. *)
Answer(x, stage) ==
    /\ xpc' = [xpc EXCEPT ![x] = stage]
    /\ xrec' = [xrec EXCEPT ![x] = None] /\ xver' = [xver EXCEPT ![x] = "none"]

Gate(x) ==
    /\ Serving /\ xpc[x] = "found"
    /\ IF dirs[Path(xrec[x])].report /\ MayExport(xver[x])
       THEN xpc' = [xpc EXCEPT ![x] = "pack"] /\ UNCHANGED <<xrec, xver>>
       ELSE Answer(x, "refused")
    /\ UNCHANGED <<exportRest, sent>>

Pack(x) ==
    /\ Serving /\ xpc[x] = "pack"
    /\ sent' = sent \cup {<<j, verdict[j]>> : j \in dirs[Path(xrec[x])].files}
    /\ Answer(x, "sent")
    /\ UNCHANGED exportRest
-----------------------------------------------------------------------------
(***************************************************************************)
(* A crash, and the start-up: restore, reconcileCrashRecovery.             *)
(***************************************************************************)
Crash ==
    /\ boot # "down" /\ crashes < MaxCrashes /\ crashes' = crashes + 1
    /\ boot' = "down"
    /\ jpc' = [j \in Jobs |-> IF jpc[j] \in InFlight \cup Panicking THEN "lost"
                            ELSE jpc[j]]
    /\ xpc' = [x \in Exports |-> IF xpc[x] \in {"found", "pack"} THEN "refused" ELSE xpc[x]]
    /\ xrec' = [x \in Exports |-> None] /\ xver' = [x \in Exports |-> "none"]
    /\ outcome' = NoVerdicts
    /\ records' = {} /\ verdict' = NoVerdicts /\ pending' = {}
    /\ task' = None /\ tries' = 0
    /\ unanswered' = unanswered \cup {j \in Jobs : jpc[j] \in Panicking}
    /\ UNCHANGED <<diskVars, unsaved, dirVars, sealedTask, sealedTries, reports, sent,
                   recoveries, recovered, deadLetter, panicked, corruptions, damaged>>

(* The index file is damaged by something other than its writer. *)
Corrupt ==
    /\ boot = "down" /\ MoreFaults /\ corruptions' = corruptions + 1
    /\ damaged' = TRUE
    /\ UNCHANGED <<jpc, outcome, indexVars, diskVars, unsaved, dirVars, taskVars, boot,
                   reports, exportVars, recoveryVars, panicked, crashes>>

(* LoadImportIndexStore: a damaged file is replaced by its .bak. *)
Loaded == IF damaged THEN bak ELSE file

Restart ==
    /\ boot = "down"
    /\ file' = Loaded /\ damaged' = FALSE /\ unsaved' = FALSE
    /\ records' = Loaded.records /\ verdict' = Loaded.verdict
    /\ task' = sealedTask /\ tries' = sealedTries
    /\ boot' = IF sealedTask = None THEN "serve" ELSE "count"
    /\ UNCHANGED <<jpc, outcome, pending, bak, saveFailures, staleBaks, dirVars,
                   sealedTask, sealedTries, reports, exportVars, recoveryVars, panicked, crashes,
                   corruptions>>

bootRest == <<jpc, outcome, exportVars, faultVars>>

Tripped == sealedTries >= MaxAttempts

(* The breaker, or one more attempt sealed through the store, whose copy of
   the task is not the one TAAState restored. *)
CountAttempt ==
    /\ boot = "count"
    /\ IF Tripped
       THEN /\ boot' = "reset" /\ deadLetter' = deadLetter \cup {task}
            /\ UNCHANGED <<sealedTries, recoveries>>
       ELSE /\ boot' = "isolate" /\ sealedTries' = sealedTries + 1
            /\ recoveries' = [recoveries EXCEPT ![task] = @ + 1]
            /\ UNCHANGED deadLetter
    /\ UNCHANGED <<bootRest, indexVars, diskVars, unsaved, dirVars, task, tries, sealedTask,
                   reports, recovered, unanswered>>

(* UpdateImportState seals TAAState, and with it the old counter. *)
Isolate ==
    /\ boot = "isolate"
    /\ UNCHANGED <<task, tries>>
    /\ IF Kind[task] = "model" THEN SealTask ELSE UNCHANGED <<sealedTask, sealedTries>>
    /\ boot' = "purge"
    /\ UNCHANGED <<bootRest, indexVars, diskVars, unsaved, dirVars, reports, recoveryVars>>

(* Purge renames the result directories before it saves. *)
Purge ==
    /\ boot = "purge"
    /\ records' = records \ Purged(task)
    /\ verdict' = [j \in Jobs |-> IF j \in Purged(task) THEN "none" ELSE verdict[j]]
    /\ pending' = pending \ IdsOf(task)
    /\ dirs' = [p \in Paths |-> IF \E k \in Purged(task) : Path(k) = p THEN Empty ELSE dirs[p]]
    /\ archives' = archives \cup {ArchiveId(k) : k \in {l \in Purged(task) : Exists(Path(l))}}
    /\ unsaved' = (unsaved \/ Purged(task) # {})
    /\ boot' = IF Purged(task) = {} THEN "archive" ELSE "save"
    /\ UNCHANGED <<bootRest, diskVars, taskVars, reports, recoveryVars>>

SavePurge ==
    /\ boot = "save"
    /\ UNCHANGED indexVars
    /\ Save \/ (SaveFails /\ UNCHANGED unsaved)
    /\ boot' = "archive"
    /\ UNCHANGED <<bootRest, dirVars, taskVars, reports, recoveryVars>>

(* The task's own directory is archived; without one, and without an earlier
   archive, the placeholder report creates it. *)
Archive ==
    /\ boot = "archive"
    /\ IF Exists(Path(task))
       THEN /\ dirs' = [dirs EXCEPT ![Path(task)] = Empty]
            /\ archives' = archives \cup {ArchiveId(task)}
       ELSE /\ dirs' = [dirs EXCEPT ![Path(task)].report = ArchiveId(task) \notin archives]
            /\ UNCHANGED archives
    /\ boot' = "queue"
    /\ UNCHANGED <<bootRest, indexVars, diskVars, unsaved, taskVars, reports, recoveryVars>>

(* QueueReport seals TAAState with the report. *)
QueueFailure ==
    /\ boot = "queue"
    /\ Report(task, 1)
    /\ UNCHANGED <<task, tries>> /\ SealTask
    /\ boot' = "reset"
    /\ UNCHANGED <<bootRest, indexVars, diskVars, unsaved, dirVars, recoveryVars>>

(* ResetActiveTask *)
ResetTask ==
    /\ boot = "reset"
    /\ task' = None /\ tries' = 0 /\ SealTask
    /\ recovered' = IF task \in deadLetter THEN recovered ELSE recovered \cup {task}
    /\ boot' = "serve"
    /\ UNCHANGED <<bootRest, indexVars, diskVars, unsaved, dirVars, reports, recoveries,
                   deadLetter, unanswered>>
-----------------------------------------------------------------------------
JobStep(j) == \/ Acquire(j) \/ Reserve(j) \/ Download(j) \/ DownloadFails(j) \/ ImportFails(j)
              \/ Commit(j) \/ NotTrained(j) \/ Collect(j) \/ ResultCheck(j) \/ WriteReport(j)
              \/ SendReport(j) \/ ImportModel(j) \/ Release(j)
              \/ Panic(j) \/ WritePanicReport(j) \/ QueuePanicReport(j)
StartUp == \/ Restart \/ CountAttempt \/ Isolate \/ Purge \/ SavePurge \/ Archive
           \/ QueueFailure \/ ResetTask

Next ==
    \/ \E j \in Jobs : JobStep(j)
    \/ \E x \in Exports : Lookup(x) \/ Gate(x) \/ Pack(x)
    \/ Crash \/ Corrupt \/ StartUp

Spec == Init /\ [][Next]_vars
-----------------------------------------------------------------------------
(* With the check switched on and failClosed, nothing leaves the instance but
   artefacts whose leakage check passed, whatever an export interleaves with.  (A
   record lost with a damaged index leaves its directory to the next job of the
   same ids.) *)
OnlyPassedExported ==
    CheckResults /\ FailClosed /\ corruptions = 0 => \A s \in sent : s[2] = "passed"

(* "A verdict that says the result leaks always blocks." *)
LeakVerdictBlocks == \A s \in sent : s[2] # "leak"

(* No two records of the saved index share an id; LoadImportIndexStore
   refuses such a file and with it every later import and export. *)
IdsUnique ==
    \A S \in {file, bak} :
        \A j, k \in S.records : j # k => ~Overlap(j, k)

(* A failed save leaves memory as the file is: only a purge may be ahead of
   it. *)
MemoryMatchesFile ==
    boot # "down" /\ ~unsaved => file = [records |-> records, verdict |-> verdict]

(* An id is reserved only for a job that is still working on it; a panic is
   the exception, its reservation lasts until the restart. *)
ReservationsOwned ==
    \A id \in pending : \E j \in Jobs :
        id \in IdsOf(j) /\ (jpc[j] \in {"download", "commit"} \/ j \in panicked)

(* A task the crash interrupted is answered by the time the instance serves
   again, wherever in the recovery further crashes hit it.  Two are not: one the
   breaker gives up, and one that had panicked and whose handler had cleared the
   sealed task but not yet queued its report. *)
InterruptedAnswered ==
    Serving => \A j \in Jobs : jpc[j] = "lost" =>
        j \in deadLetter \cup unanswered \/ \E code \in {0, 1, 2} : <<j, code>> \in reports

(* What a recovered task left behind is out of the way: neither its record
   nor its artefacts are found by a redelivery or an export.  A lost write
   of the index, or its .bak, may bring back the record alone. *)
RecoveredCleared ==
    Serving => \A j \in recovered :
        /\ j \notin dirs[Path(j)].files
        /\ j \in records => saveFailures > 0 \/ corruptions > 0

(* A finished job keeps its record and its results, unless a recovery ran for
   another delivery that shares an id with it: refused or not, that delivery had
   been sealed as the running task, and the recovery takes every record that shares
   an id with the task for its remains. *)
CompletedKept ==
    Serving /\ corruptions = 0 => \A j \in Jobs :
        jpc[j] = "done" /\ (\E code \in {0, 2} : <<j, code>> \in reports) /\ Kind[j] = "data" =>
            \/ j \in records /\ j \in dirs[Path(j)].files
            \/ \E k \in Jobs \ {j} : Overlap(j, k) /\ recoveries[k] > 0

(* The breaker gives a task up only after MaxAttempts recoveries of it were
   cut short. *)
BreakerNotEarly == \A j \in deadLetter : recoveries[j] >= MaxAttempts

(* "After 3 recoveries in a row that failed the breaker trips": no task is
   recovered more often. *)
RecoveriesBounded == \A j \in Jobs : recoveries[j] <= MaxAttempts

(* The index is consistent with itself, with its file and with the jobs that
   use it, whichever saves failed. *)
IndexSound == IdsUnique /\ MemoryMatchesFile /\ ReservationsOwned

(* Wherever further crashes cut it short, a recovery answers the interrupted task,
   clears what that task left, touches no finished job but one whose ids the
   interrupted delivery reused, and does not give up early; the one task nobody
   answers is the one a crash meets inside its own panic handler. *)
RecoveryExact ==
    InterruptedAnswered /\ RecoveredCleared /\ CompletedKept /\ BreakerNotEarly
=============================================================================
