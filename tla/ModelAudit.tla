---------------------------- MODULE ModelAudit ----------------------------
(***************************************************************************)
(* The background audit of an imported model: generations, abort, the      *)
(* durable AuditPending marker and its reconciliation after a crash        *)
(* (internal/controller/route.go, import_processing.go,                    *)
(* internal/app/taa/recovery.go).                                          *)
(*                                                                         *)
(* The audit goroutine outlives the import that launches it, so a new      *)
(* model import may abort it at any point; its later writes are fenced by  *)
(* the generation it was launched with.  Model imports come one at a time  *)
(* (TaskLifecycle).  What a scan finds is abstracted to verdict or error.  *)
(***************************************************************************)
EXTENDS Naturals, FiniteSets

CONSTANTS Imports,      \* model imports, each with the audit it launches
          ScanEnabled,  \* Security.ScanEnabled
          None,
          MaxFaults     \* bound: timed-out waits for an aborted audit, panics of
                        \* audit goroutines, crashes and failed seals, together

ASSUME AuditAssumption ==
    /\ ScanEnabled \in BOOLEAN
    /\ None \notin Imports
    /\ MaxFaults \in Nat

VARIABLES
    ipc,        \* where each import stands
    waitFor,    \* the done channel waitAuditStopped read
    modelDir,   \* whose package is in ModelDir, None while it is replaced
    gen,        \* auditGen
    busy,       \* AuditRunning, CurrentAuditOp = "auditing"
    owner,      \* ActiveAuditTaskID
    current,    \* auditCancel and auditDone: the audit they belong to
    pending,    \* pendingAudit
    imported,   \* ModelImported
    lastAudit,  \* LastAudit: the audit whose report it is
    apc,        \* where each audit goroutine stands
    agen,       \* the generation each audit was launched with
    ctx,        \* audits whose context is cancelled
    seen,       \* history: whose packages each scan has read
    result,     \* what each audit is about to report
    reports,    \* pendingReports: audit reports queued (delivered ones stay in)
    task,       \* activeTask: the import it names
    identified, \* PlatformIP and DockerID are set
    kept,       \* history: marker the start-up kept, its report not being sealed
    aborted,    \* history: audits a new import or a recovery gave up
    panicked,   \* history: audits whose goroutine panicked
    cut,        \* history: audits a crash met while the state file knew nothing of them
    overlap,    \* history: audits a crash met with report and marker both sealed
    timeouts,
    up, recovery,                            \* the process, its start-up
    sealedPending, sealedImported, sealedTask, sealedReports,  \* the state file
    marked,     \* history: audits whose marker reached the state file
    sealOk,     \* history: the last seal of this process succeeded
    sealFails,
    crashes

importVars == <<ipc, waitFor, modelDir>>
ownerVars  == <<gen, busy, owner, current>>
auditVars  == <<apc, agen, ctx, seen, result>>
fileVars   == <<sealedPending, sealedImported, sealedTask, sealedReports, marked>>
sealVars   == <<fileVars, sealOk, sealFails>>
histVars   == <<aborted, panicked, timeouts>>
procVars   == <<up, recovery, crashes, identified, kept, cut, overlap>>
vars == <<importVars, ownerVars, pending, imported, lastAudit, auditVars, reports, task,
          histVars, procVars, sealVars>>

ImportStages == {"new", "download", "hash", "wait", "replace", "extract", "mark",
                 "launch", "release", "done", "lost"}
AuditStages == {"none", "start", "scan", "scanned", "keep", "filter", "send",
                "return", "conclude", "handler", "panicReport", "unwind", "exit"}

Outcomes == {"verdict", "error", "panic", "interrupted"}

TypeOK ==
    /\ ipc \in [Imports -> ImportStages]
    /\ waitFor \in Imports \cup {None} /\ modelDir \in Imports \cup {None}
    /\ gen \in Nat /\ busy \in BOOLEAN
    /\ owner \in Imports \cup {None} /\ current \in Imports \cup {None}
    /\ pending \in Imports \cup {None} /\ imported \in BOOLEAN
    /\ lastAudit \in Imports \cup {None}
    /\ apc \in [Imports -> AuditStages] /\ agen \in [Imports -> 0..gen]
    /\ ctx \subseteq Imports /\ seen \in [Imports -> SUBSET (Imports \cup {None})]
    /\ result \in [Imports -> {"verdict", "error"}]
    /\ reports \subseteq Imports \X Outcomes
    /\ task \in Imports \cup {None} /\ kept \in Imports \cup {None}
    /\ aborted \subseteq Imports /\ panicked \subseteq Imports
    /\ cut \subseteq Imports /\ overlap \subseteq Imports /\ marked \subseteq Imports
    /\ timeouts \in Nat /\ crashes \in Nat /\ sealFails \in Nat /\ identified \in BOOLEAN /\ sealOk \in BOOLEAN
    /\ up \in BOOLEAN /\ recovery \in {"none", "task", "reset", "audit", "conclude"}
    /\ sealedPending \in Imports \cup {None} /\ sealedTask \in Imports \cup {None}
    /\ sealedImported \in BOOLEAN /\ sealedReports \subseteq Imports \X Outcomes

Init ==
    /\ ipc = [i \in Imports |-> "new"] /\ waitFor = None /\ modelDir = None
    /\ gen = 0 /\ busy = FALSE /\ owner = None /\ current = None
    /\ pending = None /\ imported = FALSE /\ lastAudit = None
    /\ apc = [i \in Imports |-> "none"] /\ agen = [i \in Imports |-> 0]
    /\ ctx = {} /\ seen = [i \in Imports |-> {}]
    /\ result = [i \in Imports |-> "error"]
    /\ reports = {} /\ aborted = {} /\ panicked = {} /\ timeouts = 0
    /\ task = None /\ kept = None /\ cut = {} /\ overlap = {}
    /\ up = TRUE /\ recovery = "none" /\ crashes = 0
    /\ identified \in BOOLEAN
    /\ sealedPending = None /\ sealedImported = FALSE /\ sealedTask = None
    /\ sealedReports = {} /\ marked = {} /\ sealOk = TRUE /\ sealFails = 0
-----------------------------------------------------------------------------
Step(i, stage) == ipc' = [ipc EXCEPT ![i] = stage]
Goto(i, stage) == apc' = [apc EXCEPT ![i] = stage]
Serving == up /\ recovery = "none"

(* The bound on what goes wrong in one behaviour. *)
MayFail == timeouts + Cardinality(panicked) + crashes + sealFails < MaxFaults

(* sealStateLocked after this step's changes: the whole state reaches the file,
   or the seal fails, which every caller but the start-up's only logs. *)
Sealed ==
    /\ sealedPending' = pending' /\ sealedImported' = imported' /\ sealedTask' = task'
    /\ sealedReports' = reports'
    /\ marked' = marked \cup ({pending'} \ {None})
    /\ sealOk' = TRUE /\ UNCHANGED sealFails

SealFails ==
    /\ MayFail /\ sealFails' = sealFails + 1
    /\ sealOk' = FALSE /\ UNCHANGED fileVars

Seal == Sealed \/ SealFails

(* An audit still owns the audit fields. *)
Owns(i) == agen[i] = gen

(* resetAuditStateLocked *)
ResetBusy == busy' = FALSE /\ owner' = None

(* concludeAuditPendingLocked: seals only when there is a marker. *)
DropMarker ==
    /\ pending' = None
    /\ IF pending = None THEN UNCHANGED sealVars ELSE Seal

(* EnqueuePlatformReport, by way of QueueReport: without an identity the report
   is refused. *)
Enqueue(i, outcome) ==
    IF identified
    THEN reports' = reports \cup {<<i, outcome>>} /\ Seal
    ELSE UNCHANGED <<reports, sealVars>>
-----------------------------------------------------------------------------
(***************************************************************************)
(* The import of a model package.                                          *)
(***************************************************************************)
(* abortModelAudit, then ModelImported is set and sealed.  (supersede: the
   generation is bumped before the cancel.) *)
Superseded == gen + 1

MutNoAbort == UNCHANGED <<gen, busy, owner, pending, ctx, aborted>>

Abort ==
    IF busy
    THEN /\ gen' = Superseded /\ ResetBusy
         /\ pending' = None
         /\ ctx' = ctx \cup ({current} \ {None})
         /\ aborted' = aborted \cup ({owner} \ {None})
    ELSE UNCHANGED <<gen, busy, owner, pending, ctx, aborted>>

Begin(i) ==
    /\ Serving /\ ipc[i] = "new"
    /\ \A k \in Imports : ipc[k] \in {"new", "done", "lost"}
    /\ Abort
    /\ imported' = TRUE /\ task' = i
    /\ UNCHANGED <<waitFor, modelDir, current, lastAudit, apc, agen, seen, result,
                   reports, panicked, timeouts, procVars>>
    /\ Seal
    /\ Step(i, "download")

(* clearImportedState on any failure before the model is recorded. *)
ImportFails(i) ==
    /\ up /\ ipc[i] \in {"download", "hash", "extract"}
    /\ imported' = FALSE /\ pending' = None
    /\ UNCHANGED <<waitFor, modelDir, ownerVars, lastAudit, auditVars, reports, task,
                   histVars, procVars>>
    /\ Seal
    /\ Step(i, "release")

Download(i) ==
    /\ up /\ ipc[i] = "download"
    /\ Step(i, "hash")
    /\ UNCHANGED <<waitFor, modelDir, ownerVars, pending, imported, lastAudit, auditVars,
                   reports, histVars, procVars, sealVars, task>>

(* waitAuditStopped *)
ReadDone == current

StartWait(i) ==
    /\ up /\ ipc[i] = "hash"
    /\ waitFor' = ReadDone
    /\ Step(i, "wait")
    /\ UNCHANGED <<modelDir, ownerVars, pending, imported, lastAudit, auditVars, reports,
                   histVars, procVars, sealVars, task>>

Stopped == waitFor \in {k \in Imports : apc[k] = "exit"} \cup {None}

EndWait(i) ==
    /\ up /\ ipc[i] = "wait"
    /\ \/ Stopped /\ UNCHANGED timeouts
       \/ /\ ~Stopped
          /\ MayFail /\ timeouts' = timeouts + 1
    /\ Step(i, "replace")
    /\ UNCHANGED <<waitFor, modelDir, ownerVars, pending, imported, lastAudit, auditVars,
                   reports, aborted, panicked, procVars, sealVars, task>>

(* extractArchiveToDir: the old tree is removed, the new one written.  A scan
   that runs meanwhile sees whatever is there. *)
Reading(i) == apc[i] = "scan"
SeenBy(d) == [i \in Imports |-> IF Reading(i) THEN seen[i] \cup {d} ELSE seen[i]]

Replace(i) ==
    /\ up /\ ipc[i] = "replace"
    /\ modelDir' = None
    /\ seen' = SeenBy(None)
    /\ Step(i, "extract")
    /\ UNCHANGED <<waitFor, ownerVars, pending, imported, lastAudit, apc, agen, ctx, result,
                   reports, histVars, procVars, sealVars, task>>

Extracted(i) ==
    /\ up /\ ipc[i] = "extract"
    /\ modelDir' = i
    /\ seen' = SeenBy(i)
    /\ Step(i, "mark")
    /\ UNCHANGED <<waitFor, ownerVars, pending, imported, lastAudit, apc, agen, ctx, result,
                   reports, histVars, procVars, sealVars, task>>

(* beginModelImportAndAudit *)
MutMark(i) ==
    /\ up /\ ipc[i] = "mark"
    /\ busy' = TRUE /\ owner' = i
    /\ pending' = (IF ScanEnabled THEN i ELSE None)
    /\ imported' = TRUE
    /\ UNCHANGED <<waitFor, modelDir, gen, current, lastAudit, auditVars, reports, task,
                   histVars, procVars>>
    /\ Seal
    /\ Step(i, "launch")

Mark(i) ==
    /\ up /\ ipc[i] = "mark"
    /\ gen' = gen + 1
    /\ busy' = TRUE /\ owner' = i
    /\ pending' = (IF ScanEnabled THEN i ELSE None)
    /\ imported' = TRUE
    /\ UNCHANGED <<waitFor, modelDir, current, lastAudit, auditVars, reports, task,
                   histVars, procVars>>
    /\ Seal
    /\ Step(i, "launch")

(* launchModelAudit *)
Launch(i) ==
    /\ up /\ ipc[i] = "launch"
    /\ gen' = gen + 1
    /\ agen' = [agen EXCEPT ![i] = gen']
    /\ current' = i
    /\ Goto(i, "start")
    /\ Step(i, "release")
    /\ UNCHANGED <<waitFor, modelDir, busy, owner, pending, imported, lastAudit, ctx, seen,
                   result, reports, histVars, procVars, sealVars, task>>

(* The gate is released; every seal carries the whole state. *)
ReleaseImport(i) ==
    /\ up /\ ipc[i] = "release"
    /\ task' = None
    /\ UNCHANGED <<waitFor, modelDir, ownerVars, pending, imported, lastAudit, auditVars,
                   reports, histVars, procVars>>
    /\ Seal
    /\ Step(i, "done")
-----------------------------------------------------------------------------
(***************************************************************************)
(* The audit goroutine: auditAndReportModelImport.                         *)
(***************************************************************************)
auditRest == <<importVars, imported, task, agen, histVars, procVars>>

MutSetsBusy(i) == ScanEnabled
SetsBusy(i) == ScanEnabled /\ Owns(i)

StartAudit(i) ==
    /\ up /\ apc[i] = "start"
    /\ lastAudit' = IF Owns(i) THEN None ELSE lastAudit
    /\ busy' = (busy \/ SetsBusy(i))
    /\ seen' = [seen EXCEPT ![i] = IF ScanEnabled THEN {modelDir} ELSE {}]
    /\ Goto(i, IF ScanEnabled THEN "scan" ELSE "conclude")
    /\ UNCHANGED <<auditRest, gen, owner, current, pending, ctx, result, reports, sealVars>>

(* The scan ends with a verdict, or with an error (also when the LLM service
   is unavailable and the policy is fail-closed, or the context is cancelled). *)
EndScan(i) ==
    /\ up /\ apc[i] = "scan"
    /\ \E r \in {"verdict", "error"} : result' = [result EXCEPT ![i] = r]
    /\ Goto(i, "scanned")
    /\ UNCHANGED <<auditRest, ownerVars, pending, lastAudit, ctx, seen, reports, sealVars>>

(* abortAuditIfSuperseded *)
Stale(i) == i \in ctx \/ ~Owns(i)

CheckSuperseded(i) ==
    /\ up /\ apc[i] = "scanned"
    /\ Goto(i, IF Stale(i) THEN "return" ELSE IF result[i] = "verdict" THEN "keep" ELSE "filter")
    /\ UNCHANGED <<auditRest, ownerVars, pending, lastAudit, ctx, seen, result, reports, sealVars>>

(* setLastAudit *)
KeepAudit(i) ==
    /\ up /\ apc[i] = "keep"
    /\ lastAudit' = IF Owns(i) THEN i ELSE lastAudit
    /\ Goto(i, "filter")
    /\ UNCHANGED <<auditRest, ownerVars, pending, ctx, seen, result, reports, sealVars>>

(* reportAuditIfCurrent: the check, then the enqueue. *)
FilterReport(i) ==
    /\ up /\ apc[i] = "filter"
    /\ Goto(i, IF Owns(i) THEN "send" ELSE "return")
    /\ UNCHANGED <<auditRest, ownerVars, pending, lastAudit, ctx, seen, result, reports, sealVars>>

SendAudit(i) ==
    /\ up /\ apc[i] = "send"
    /\ UNCHANGED <<auditRest, ownerVars, pending, lastAudit, ctx, seen, result>>
    /\ Enqueue(i, result[i])
    /\ Goto(i, "return")

(* The deferred calls, innermost first: setCurrentAuditOp(gen, "idle"),
   concludeAuditPending(gen), then the panic handler, then finishAudit. *)
ReturnAudit(i) ==
    /\ up /\ apc[i] = "return"
    /\ busy' = (busy /\ ~Owns(i))
    /\ Goto(i, "conclude")
    /\ UNCHANGED <<auditRest, gen, owner, current, pending, lastAudit, ctx, seen, result,
                   reports, sealVars>>

ConcludeAudit(i) ==
    /\ up /\ apc[i] = "conclude"
    /\ UNCHANGED <<auditRest, ownerVars, lastAudit, ctx, seen, result, reports>>
    /\ IF Owns(i) THEN DropMarker ELSE UNCHANGED <<pending, sealVars>>
    /\ Goto(i, IF i \in panicked THEN "handler" ELSE "unwind")

PanicAudit(i) ==
    /\ up /\ apc[i] \in {"scan", "scanned", "keep"}
    /\ i \notin panicked /\ MayFail
    /\ panicked' = panicked \cup {i}
    /\ Goto(i, "return")
    /\ UNCHANGED <<importVars, imported, task, agen, aborted, timeouts, procVars, ownerVars,
                   pending, lastAudit, ctx, seen, result, reports, sealVars>>

(* handleAuditPanic: the panic of a superseded audit is not reported. *)
HandleAuditPanic(i) ==
    /\ up /\ apc[i] = "handler"
    /\ UNCHANGED <<importVars, imported, task, agen, panicked, timeouts, procVars, current,
                   lastAudit, ctx, seen, result, reports>>
    /\ IF Owns(i)
       THEN /\ gen' = gen + 1 /\ ResetBusy /\ DropMarker
            /\ UNCHANGED aborted /\ Goto(i, "panicReport")
       ELSE /\ UNCHANGED <<gen, busy, owner, pending, sealVars>>
            /\ aborted' = aborted \cup {i} /\ Goto(i, "unwind")

ReportPanic(i) ==
    /\ up /\ apc[i] = "panicReport"
    /\ UNCHANGED <<auditRest, ownerVars, pending, lastAudit, ctx, seen, result>>
    /\ Enqueue(i, "panic")
    /\ Goto(i, "unwind")

(* finishAudit, then close(done) *)
FinishAudit(i) ==
    /\ up /\ apc[i] = "unwind"
    /\ current' = IF current = i THEN None ELSE current
    /\ ctx' = IF current = i THEN ctx \cup {i} ELSE ctx
    /\ UNCHANGED <<auditRest, gen, lastAudit, seen, result, reports>>
    /\ IF Owns(i) THEN ResetBusy /\ DropMarker
                  ELSE UNCHANGED <<busy, owner, pending, sealVars>>
    /\ Goto(i, "exit")
-----------------------------------------------------------------------------
(***************************************************************************)
(* A crash, and the start-up that follows: RestoreFromPersistentState,     *)
(* the roll-back of an interrupted import, reconcileAbandonedAudit.        *)
(***************************************************************************)
(* A crash makes TAA forget two kinds of audit: one whose marker and report never
   reached the file, every seal since it was set having failed; and one that
   panicked, whose marker is dropped (by its own deferred call, or by the failure of
   the next import) before its report is sealed. *)
Said(i, queue) == \E k \in Outcomes \ {"interrupted"} : <<i, k>> \in queue
Unsealed(i) == i \notin marked /\ ~Said(i, sealedReports)
Unreported(i) ==
    /\ i \in panicked /\ sealedPending # i
    /\ \/ apc[i] \in {"return", "conclude", "handler", "panicReport"}
       \/ <<i, "panic">> \in reports \ sealedReports

Crash ==
    /\ up /\ MayFail /\ crashes' = crashes + 1
    /\ up' = FALSE /\ recovery' = "none"
    /\ ipc' = [i \in Imports |-> IF ipc[i] \in {"new", "done"} THEN ipc[i] ELSE "lost"]
    /\ apc' = [i \in Imports |-> IF apc[i] = "none" THEN "none" ELSE "exit"]
    /\ waitFor' = None
    /\ gen' = 0 /\ busy' = FALSE /\ owner' = None /\ current' = None
    /\ pending' = None /\ imported' = FALSE /\ lastAudit' = None
    /\ task' = None /\ reports' = sealedReports /\ kept' = None
    /\ agen' = [i \in Imports |-> 0]
    /\ cut' = cut \cup {i \in Imports : apc[i] # "none" /\ (Unsealed(i) \/ Unreported(i))}
    /\ overlap' = overlap \cup {i \in Imports : sealedPending = i /\ Said(i, sealedReports)}
    /\ UNCHANGED <<modelDir, ctx, seen, result, histVars, identified, sealVars>>

Restart ==
    /\ ~up /\ up' = TRUE
    /\ pending' = sealedPending /\ imported' = sealedImported /\ task' = sealedTask
    /\ recovery' = IF sealedTask = None THEN "audit" ELSE "task"
    /\ sealOk' = TRUE
    /\ UNCHANGED <<importVars, ownerVars, lastAudit, auditVars, reports, histVars, crashes,
                   identified, kept, cut, overlap, fileVars, sealFails>>

startRest == <<importVars, ownerVars, lastAudit, auditVars, panicked, timeouts, up, crashes,
               identified, cut, overlap>>

(* reconcileCrashRecovery of a model import: UpdateImportState(true, false). *)
RecoverTask ==
    /\ up /\ recovery = "task"
    /\ imported' = FALSE /\ pending' = None
    /\ aborted' = aborted \cup ({pending, task} \ {None})
    /\ recovery' = "reset"
    /\ UNCHANGED <<startRest, reports, task, kept>>
    /\ Seal

ResetTask ==
    /\ up /\ recovery = "reset"
    /\ task' = None
    /\ recovery' = "audit"
    /\ UNCHANGED <<startRest, pending, imported, reports, aborted, kept>>
    /\ Seal

(* reconcileAbandonedAudit.  Without an identity the marker is dropped unreported;
   the report is sealed before the marker is dropped; and when that seal fails the
   marker is kept for the next start-up. *)
ReconcileAudit ==
    /\ up /\ recovery = "audit"
    /\ UNCHANGED <<startRest, pending, imported, task, aborted>>
    /\ \/ /\ pending = None
          /\ recovery' = "none" /\ UNCHANGED <<reports, kept, sealVars>>
       \/ /\ pending # None /\ ~identified
          /\ recovery' = "conclude" /\ UNCHANGED <<reports, kept, sealVars>>
       \/ /\ pending # None /\ identified
          /\ reports' = reports \cup {<<pending, "interrupted">>}
          /\ \/ Sealed /\ recovery' = "conclude" /\ UNCHANGED kept
             \/ SealFails /\ recovery' = "none" /\ kept' = pending

ConcludeReconciled ==
    /\ up /\ recovery = "conclude"
    /\ recovery' = "none"
    /\ UNCHANGED <<startRest, imported, reports, task, aborted, kept>>
    /\ DropMarker
-----------------------------------------------------------------------------
ImportStep(i) == \/ Begin(i) \/ ImportFails(i) \/ Download(i) \/ StartWait(i) \/ EndWait(i)
                 \/ Replace(i) \/ Extracted(i) \/ Mark(i) \/ Launch(i) \/ ReleaseImport(i)
AuditStep(i) == \/ StartAudit(i) \/ EndScan(i) \/ CheckSuperseded(i) \/ KeepAudit(i)
                \/ FilterReport(i) \/ SendAudit(i) \/ ReturnAudit(i) \/ ConcludeAudit(i)
                \/ HandleAuditPanic(i) \/ ReportPanic(i) \/ FinishAudit(i)
StartUp == Restart \/ RecoverTask \/ ResetTask \/ ReconcileAudit \/ ConcludeReconciled

Next ==
    \/ \E i \in Imports : ImportStep(i) \/ AuditStep(i) \/ PanicAudit(i)
    \/ Crash \/ StartUp

Spec == Init /\ [][Next]_vars

(* Goroutines are scheduled, scans, downloads and waits end (the scan's calls
   carry timeouts and the wait is bounded), and the supervisor restarts. *)
Fairness == /\ \A i \in Imports : /\ WF_vars(ipc[i] # "new" /\ ImportStep(i))
                                  /\ WF_vars(AuditStep(i))
            /\ WF_vars(StartUp)
FairSpec == Spec /\ Fairness
-----------------------------------------------------------------------------
Alive(i) == apc[i] \notin {"none", "exit"}

(* A verdict is reported only for the package it was computed from: no scan
   that overlapped a replacement of ModelDir gets its result out. *)
VerdictOnOwnModel ==
    \A i \in Imports : <<i, "verdict">> \in reports => seen[i] = {i}

(* The durable marker is never orphaned and never lost to a stale goroutine:
   it names the audit that owns the generation, one about to be launched, one the
   start-up is about to reconcile, or one whose report the start-up could not seal
   and so left for the next. *)
MarkerOwned ==
    up /\ pending # None =>
        \/ recovery # "none" \/ kept = pending
        \/ ipc[pending] = "launch"
        \/ Alive(pending) /\ Owns(pending)

(* The busy flag, which refuses a phase switch, always has a goroutine that
   will clear it. *)
BusyHasOwner ==
    busy => /\ owner # None
            /\ \/ ipc[owner] = "launch"
               \/ Alive(owner) /\ Owns(owner)

(* Memory and disk agree on what is owed unless the last seal failed: a crash at
   any other point neither forgets a pending audit nor revives a concluded one. *)
MarkerDurable == up /\ sealOk => pending = sealedPending

(* No scan reads ModelDir while it is replaced, unless a wait for an aborted
   audit has timed out. *)
NoScanWhileReplacing ==
    (\E k \in Imports : ipc[k] = "extract") /\ (\E i \in Imports : Reading(i))
        => timeouts > 0

(* The audit attached to training reports is the one of the model on disk;
   only before the new audit's first step, or when no model counts as
   imported, may it be a previous model's. *)
LastAuditMatches ==
    lastAudit # None /\ lastAudit # modelDir =>
        \/ \E k \in Imports : ipc[k] \notin {"new", "done", "lost"}
        \/ modelDir = None \/ ~imported
        \/ apc[modelDir] \in {"none", "start"}

(* Every audit that was launched and not given up ends up reported, or is marked on
   disk for the next start-up to report, but for the ones a crash made TAA forget
   (Unsealed, Unreported) and a deployment that has no identity to report under. *)
Owed(i) == ScanEnabled /\ apc[i] # "none" /\ i \notin aborted
Answered(i) == \E k \in Outcomes : <<i, k>> \in reports
AuditNotLost ==
    \A i \in Imports \ cut :
        Owed(i) /\ ~Alive(i) /\ identified => Answered(i) \/ sealedPending = i

(* An audit is reported as interrupted beside its own report only when the process
   died with both that report and the marker on disk: before the marker was dropped,
   or with the seal that drops it failed. *)
ReportedTwice ==
    \A i \in Imports : Said(i, reports) /\ <<i, "interrupted">> \in reports => i \in overlap

(* An audit that keeps the phase switch away does not do so for ever. *)
BusyEnds == busy ~> ~busy

(* What is marked as pending is eventually answered or given up, unless a seal
   fails: the one that drops the marker, or the start-up's that keeps it. *)
MarkerCleared ==
    \A i \in Imports : (sealedPending = i) ~> (sealedPending # i \/ ~sealOk \/ kept = i)

(* What is said about a model comes from an undisturbed scan of that model. *)
VerdictSound == VerdictOnOwnModel /\ NoScanWhileReplacing /\ LastAuditMatches

(* Busy flag and durable marker belong to an audit that will take them down, or the
   marker to the next start-up.  An audit TAA owes is forgotten, and one it has
   answered is answered again, only in the cases AuditNotLost and ReportedTwice
   name: failed seals, crashes at two points, and a missing identity. *)
AuditAccounted ==
    MarkerOwned /\ BusyHasOwner /\ MarkerDurable /\ AuditNotLost /\ ReportedTwice

(* Both flags are eventually taken down. *)
FlagsTakenDown == BusyEnds /\ MarkerCleared
=============================================================================
