--------------------------- MODULE TaskLifecycle ---------------------------
(***************************************************************************)
(* The single-task gate of the controller and everything that goes through *)
(* it: the import and model-import handlers, the asynchronous import and   *)
(* training pipeline, stopTraining, the phase switch, getResourceInfo and  *)
(* the panic recovery (internal/controller/route.go, handler_task.go,      *)
(* handler_system.go, import_processing.go, training_control.go).          *)
(*                                                                         *)
(* A job is one request with the goroutine that serves it.  Every step is  *)
(* one critical section of TAAState.mu, or one stretch of work between two *)
(* of them.  What work produces is abstracted to "it succeeds or fails".   *)
(* An activeToken is identified with the job that took it.                 *)
(***************************************************************************)
EXTENDS Naturals, FiniteSets

CONSTANTS Jobs,         \* import and importModel requests
          Kind,         \* job -> "data", "model" or "config" (no resourceUrl)
          TaskId,       \* job -> its taskId, or None for a requestId-only job
          Config,       \* job -> its runtimeConfig: "absent", "good" or "bad"
          Readers,      \* getResourceInfo requests
          Stops,        \* stopTraining requests
          Phases,       \* the phases a switch may ask for
          PanicStages,  \* where the asynchronous goroutine may panic
          MaxSwitches,  \* bound: accepted phase switches
          None

ASSUME TaskAssumption ==
    /\ Kind \in [Jobs -> {"data", "model", "config"}]
    /\ Config \in [Jobs -> {"absent", "good", "bad"}]
    /\ None \notin Jobs /\ None \notin Jobs \X {"promote", "ensure"}
    /\ MaxSwitches \in Nat

VARIABLES
    op,          \* CurrentOp
    running,     \* TrainingRunning
    activeId,    \* ActiveTaskID, None when empty
    token,       \* activeToken
    activeJob,   \* the request activeTask describes, None when activeTask = nil
    activeType,  \* activeTask.Type
    control,     \* trainingControl, None when nil
    held,        \* the control each executeTraining works with
    cancelled,   \* controls with cancelled = true
    finished,    \* controls whose done channel is closed
    phase,       \* CurrentPhase
    imported,    \* ModelImported
    cfg,         \* RuntimeConfig
    auditBusy,   \* isAuditBusyLocked()
    pc,          \* where each job stands
    answer,      \* the HTTP answer each job was given
    reports,     \* terminal reports queued: about which job, with which code
    silent,      \* history: why a job ended without a report
    panicked,    \* history: the jobs whose goroutine panicked
    reader,      \* where each getResourceInfo request stands
    stop,        \* where each stopTraining request stands
    target,      \* the control each stopTraining request read
    switches

gateVars == <<running, activeId, token, activeJob, activeType, control>>
ctlVars  == <<held, cancelled, finished>>
modelVars == <<imported, cfg, auditBusy>>
outVars  == <<answer, reports, silent, panicked>>
envVars  == <<reader, stop, target, phase, switches>>
vars == <<op, gateVars, ctlVars, modelVars, pc, outVars, envVars>>

ImportStages == {"begun", "download", "decrypt", "work", "landed", "audit",
                 "check", "promote"}
TrainStages  == {"ensure", "ensured", "staging", "run", "collect", "report",
                 "send", "finish"}
HoldStages   == ImportStages \cup TrainStages \cup {"fail", "release", "panicking"}
Stages == HoldStages \cup {"new", "gate", "config", "configSet", "freed", "orphan", "done",
                           "refused"}

Ops == {"idle", "downloading", "decrypting", "analyzing", "staging", "training",
        "reporting"}
Controls == Jobs \X {"promote", "ensure"}
Reasons == {"no", "no model", "model busy", "training busy", "cancelled", "no report"}

TypeOK ==
    /\ op \in Ops
    /\ running \in BOOLEAN /\ imported \in BOOLEAN /\ auditBusy \in BOOLEAN
    /\ activeId \in {TaskId[j] : j \in Jobs} \cup Jobs \cup {None}
    /\ token \in Jobs \cup {None} /\ activeJob \in Jobs \cup {None}
    /\ activeType \in {"none", "model_import", "data_import", "training"}
    /\ control \in Controls \cup {None}
    /\ held \in [Jobs -> Controls \cup {None}]
    /\ cancelled \subseteq Controls /\ finished \subseteq Controls
    /\ phase \in Phases /\ cfg \in {"absent", "good", "bad"}
    /\ pc \in [Jobs -> Stages]
    /\ answer \in [Jobs -> {"none", "accepted", "error", "conflict"}]
    /\ reports \subseteq Jobs \X {0, 1, 2}
    /\ silent \in [Jobs -> Reasons] /\ panicked \subseteq Jobs
    /\ reader \in [Readers -> {"new", "downloading", "decrypting", "analyzing", "done"}]
    /\ stop \in [Stops -> {"new", "request", "waiting", "none", "aborted", "timeout"}]
    /\ target \in [Stops -> Controls \cup {None}]
    /\ switches \in 0..MaxSwitches

Init ==
    /\ op = "idle" /\ running = FALSE /\ activeId = None /\ token = None
    /\ activeJob = None /\ activeType = "none" /\ control = None
    /\ held = [j \in Jobs |-> None] /\ cancelled = {} /\ finished = {}
    /\ phase \in Phases /\ imported = FALSE /\ cfg = "absent" /\ auditBusy = FALSE
    /\ pc = [j \in Jobs |-> "new"] /\ answer = [j \in Jobs |-> "none"]
    /\ reports = {} /\ silent = [j \in Jobs |-> "no"] /\ panicked = {}
    /\ reader = [r \in Readers |-> "new"]
    /\ stop = [s \in Stops |-> "new"] /\ target = [s \in Stops |-> None]
    /\ switches = 0
-----------------------------------------------------------------------------
Holds(j) == pc[j] \in HoldStages
Goto(j, stage) == pc' = [pc EXCEPT ![j] = stage]
Answer(j, a) == answer' = [answer EXCEPT ![j] = a]
Silent(j, why) == silent' = [silent EXCEPT ![j] = why]

TrainingBusy == running \/ op \in {"staging", "training", "reporting"}
GateFree == ~TrainingBusy /\ activeId = None /\ op = "idle"

(* What release, finishTrainingControl and the panic handler reset. *)
ClearGate ==
    /\ op' = "idle" /\ running' = FALSE
    /\ activeId' = None /\ token' = None
    /\ activeJob' = None /\ activeType' = "none"

(* clearImportedState for a model: the import and its configuration are gone. *)
ClearModel == imported' = FALSE /\ cfg' = "absent"
-----------------------------------------------------------------------------
(***************************************************************************)
(* The request handlers.                                                   *)
(***************************************************************************)
(* Before the gate: a model request has already saved its runtimeConfig. *)
Receive(j) ==
    /\ pc[j] = "new"
    /\ Goto(j, IF Kind[j] = "config" THEN "config" ELSE "gate")
    /\ cfg' = IF Kind[j] # "data" /\ Config[j] # "absent" THEN Config[j] ELSE cfg
    /\ UNCHANGED <<op, gateVars, ctlVars, imported, auditBusy, outVars, envVars>>

(* hasSavedModel finds nothing: neither an import, nor the address or the
   files of an earlier package, which are not modelled. *)
NoSavedModel(j) ==
    /\ pc[j] = "new" /\ Kind[j] = "config" /\ ~imported
    /\ Goto(j, "refused") /\ Answer(j, "error")
    /\ UNCHANGED <<op, gateVars, ctlVars, modelVars, reports, silent, panicked, envVars>>

(* importModel without a resourceUrl only updates the configuration: what it
   asks of the gate is over when the model is declared imported. *)
ConfigCheck(j) ==
    /\ pc[j] = "config"
    /\ IF TrainingBusy
       THEN Goto(j, "refused") /\ Answer(j, "conflict")
       ELSE IF cfg # "good"
       THEN Goto(j, "refused") /\ Answer(j, "error")
       ELSE Goto(j, "configSet") /\ UNCHANGED answer
    /\ UNCHANGED <<op, gateVars, ctlVars, modelVars, reports, silent, panicked, envVars>>

ConfigSet(j) ==
    /\ pc[j] = "configSet"
    /\ imported' = TRUE /\ Goto(j, "done")
    /\ UNCHANGED <<op, gateVars, ctlVars, cfg, auditBusy, outVars, envVars>>

SamePair(j) ==
    /\ TaskId[j] # None /\ activeId = TaskId[j]
    /\ activeJob # None
    /\ (activeType = "model_import") # (Kind[j] = "model")

MutMayAcquire(j) == ~TrainingBusy /\ (op = "idle" \/ SamePair(j))
MutMayAcquireAny(j) == GateFree \/ (~TrainingBusy /\ activeType = "data_import")
MayAcquire(j) == ~TrainingBusy /\ ((activeId = None /\ op = "idle") \/ SamePair(j))

(* tryAcquireTask *)
Acquire(j) ==
    /\ pc[j] = "gate" /\ MayAcquire(j)
    /\ token' = j /\ activeId' = TaskId[j] /\ op' = "downloading"
    /\ activeJob' = j
    /\ activeType' = IF Kind[j] = "model" THEN "model_import" ELSE "data_import"
    /\ Goto(j, "begun")
    /\ UNCHANGED <<running, control, ctlVars, modelVars, outVars, envVars>>

Conflict(j) ==
    /\ pc[j] = "gate" /\ ~MayAcquire(j)
    /\ Goto(j, "refused") /\ Answer(j, "conflict")
    /\ UNCHANGED <<op, gateVars, ctlVars, modelVars, reports, silent, panicked, envVars>>

(* Data: the import index reserves the identifiers, or refuses them. *)
Reserve(j) ==
    /\ pc[j] = "begun" /\ Kind[j] = "data"
    /\ \/ op' = "downloading" /\ Goto(j, "download") /\ UNCHANGED answer
       \/ op' = op /\ Goto(j, "release") /\ Answer(j, "error")
    /\ UNCHANGED <<gateVars, ctlVars, modelVars, reports, silent, panicked, envVars>>

(* Model: the running audit is aborted, the model counts as imported. *)
ModelBegin(j) ==
    /\ pc[j] = "begun" /\ Kind[j] = "model"
    /\ auditBusy' = FALSE /\ imported' = TRUE
    /\ Goto(j, "download")
    /\ UNCHANGED <<op, gateVars, ctlVars, cfg, outVars, envVars>>

DownloadOk(j) ==
    /\ pc[j] = "download"
    /\ Goto(j, "decrypt") /\ Answer(j, "accepted")
    /\ UNCHANGED <<op, gateVars, ctlVars, modelVars, reports, silent, panicked, envVars>>

DownloadFails(j) ==
    /\ pc[j] = "download"
    /\ Goto(j, "release") /\ Answer(j, "error")
    /\ IF Kind[j] = "model" THEN ClearModel ELSE UNCHANGED <<imported, cfg>>
    /\ UNCHANGED <<op, gateVars, ctlVars, auditBusy, reports, silent, panicked, envVars>>
-----------------------------------------------------------------------------
(***************************************************************************)
(* The asynchronous pipeline: processImportedResource.                     *)
(***************************************************************************)
StartDecrypt(j) ==
    /\ pc[j] = "decrypt"
    /\ op' = "decrypting" /\ Goto(j, "work")
    /\ UNCHANGED <<gateVars, ctlVars, modelVars, outVars, envVars>>

WorkOk(j) ==
    /\ pc[j] = "work"
    /\ Goto(j, IF Kind[j] = "model" THEN "landed" ELSE "check")
    /\ UNCHANGED <<op, gateVars, ctlVars, modelVars, outVars, envVars>>

WorkFails(j) ==
    /\ pc[j] = "work"
    /\ op' = "idle" /\ Goto(j, "fail")
    /\ UNCHANGED <<gateVars, ctlVars, modelVars, outVars, envVars>>

(* The success of the import is queued before the model is recorded. *)
ReportLanded(j) ==
    /\ pc[j] = "landed"
    /\ reports' = reports \cup {<<j, 0>>}
    /\ Goto(j, "audit")
    /\ UNCHANGED <<op, gateVars, ctlVars, modelVars, answer, silent, panicked, envVars>>

BeginAudit(j) ==
    /\ pc[j] = "audit"
    /\ imported' = TRUE /\ auditBusy' = TRUE
    /\ op' = "idle" /\ Goto(j, "release")
    /\ UNCHANGED <<gateVars, ctlVars, cfg, outVars, envVars>>

(* The audit goroutine ends on its own time (the model audit's module). *)
AuditEnds ==
    /\ auditBusy /\ auditBusy' = FALSE
    /\ UNCHANGED <<op, gateVars, ctlVars, imported, cfg, pc, outVars, envVars>>

(* Why the data just imported does not start a training, if it does not. *)
Holdback == IF ~imported THEN "no model"
            ELSE IF activeJob # None /\ activeType = "model_import" THEN "model busy"
            ELSE IF TrainingBusy THEN "training busy"
            ELSE "no"

Check(j) ==
    /\ pc[j] = "check"
    /\ IF Holdback # "no"
       THEN op' = "idle" /\ Silent(j, Holdback) /\ Goto(j, "release")
       ELSE IF cfg # "good"
       THEN op' = "idle" /\ UNCHANGED silent /\ Goto(j, "fail")
       ELSE UNCHANGED <<op, silent>> /\ Goto(j, "promote")
    /\ UNCHANGED <<gateVars, ctlVars, modelVars, answer, reports, panicked, envVars>>

(* promoteCurrentTaskToTraining; when only its seal fails the caller takes
   the failure path with the promotion already made. *)
Promote(j) ==
    /\ pc[j] = "promote"
    /\ IF running \/ control # None
       THEN op' = "idle" /\ Goto(j, "fail") /\ UNCHANGED gateVars
       ELSE /\ running' = TRUE /\ op' = "training"
            /\ activeType' = IF activeJob = None THEN activeType ELSE "training"
            /\ control' = <<j, "promote">>
            /\ Goto(j, "ensure") \/ Goto(j, "fail")
            /\ UNCHANGED <<activeId, token, activeJob>>
    /\ UNCHANGED <<ctlVars, modelVars, outVars, envVars>>

(* ensureTrainingControl; a requestId-only job trains under its requestId. *)
TrainId(j) == IF TaskId[j] = None THEN j ELSE TaskId[j]

Ensure(j) ==
    /\ pc[j] = "ensure"
    /\ control' = IF control = None THEN <<j, "ensure">> ELSE control
    /\ held' = [held EXCEPT ![j] = control']
    /\ running' = TRUE /\ op' = "training"
    /\ activeId' = IF activeId = None THEN TrainId(j) ELSE activeId
    /\ activeJob' = IF activeJob = None THEN j ELSE activeJob
    /\ activeType' = "training"
    /\ Goto(j, "ensured")
    /\ UNCHANGED <<token, cancelled, finished, modelVars, outVars, envVars>>
-----------------------------------------------------------------------------
(***************************************************************************)
(* executeTraining.  Every stage ends with checkCancelled; a failure is    *)
(* reported unless the task was cancelled first, and cancelled work ends   *)
(* without a report.                                                       *)
(***************************************************************************)
Cancelled(j) == held[j] \in cancelled

NextTrainStage == [ensured |-> "staging", staging |-> "run", run |-> "collect",
                   collect |-> "report", report |-> "send"]
StageOp == [ensured |-> "staging", staging |-> "training", collect |-> "reporting"]
Training(j) == pc[j] \in DOMAIN NextTrainStage

StageOk(j) ==
    /\ Training(j) /\ ~Cancelled(j)
    /\ Goto(j, NextTrainStage[pc[j]])
    /\ op' = IF pc[j] \in DOMAIN StageOp THEN StageOp[pc[j]] ELSE op
    /\ UNCHANGED <<gateVars, ctlVars, modelVars, outVars, envVars>>

StageFails(j) ==
    /\ pc[j] \in {"staging", "run", "collect"} /\ ~Cancelled(j)
    /\ Goto(j, "fail")
    /\ UNCHANGED <<op, gateVars, ctlVars, modelVars, outVars, envVars>>

MutStageCancelled(j) ==
    /\ Training(j) /\ Cancelled(j) /\ pc[j] # "run"
    /\ Silent(j, "cancelled") /\ Goto(j, "finish")
    /\ UNCHANGED <<op, gateVars, ctlVars, modelVars, answer, reports, panicked, envVars>>

StageCancelled(j) ==
    /\ Training(j) /\ Cancelled(j)
    /\ Silent(j, "cancelled") /\ Goto(j, "finish")
    /\ UNCHANGED <<op, gateVars, ctlVars, modelVars, answer, reports, panicked, envVars>>

(* buildAndSaveTrainingReport fails: the run ends without a report. *)
ReportLost(j) ==
    /\ pc[j] = "report" /\ ~Cancelled(j)
    /\ Silent(j, "no report") /\ Goto(j, "finish")
    /\ UNCHANGED <<op, gateVars, ctlVars, modelVars, answer, reports, panicked, envVars>>

(* reportTrainingAsync: success, or 2 when the leakage check refused it. *)
SendReport(j) ==
    /\ pc[j] = "send"
    /\ \E code \in {0, 2} : reports' = reports \cup {<<j, code>>}
    /\ op' = "idle" /\ Goto(j, "finish")
    /\ UNCHANGED <<gateVars, ctlVars, modelVars, answer, silent, panicked, envVars>>

MutAfterFailure(j) == IF held[j] = None THEN "release" ELSE "report"
AfterFailure(j) == IF held[j] = None THEN "release" ELSE "finish"

(* reportImportFailure: the report of a data job can itself fail to build. *)
Fail(j) ==
    /\ pc[j] = "fail"
    /\ IF Kind[j] = "model" THEN ClearModel ELSE UNCHANGED <<imported, cfg>>
    /\ \/ reports' = reports \cup {<<j, 1>>} /\ UNCHANGED silent
       \/ Kind[j] = "data" /\ Silent(j, "no report") /\ UNCHANGED reports
    /\ op' = "idle"
    /\ Goto(j, AfterFailure(j))
    /\ UNCHANGED <<gateVars, ctlVars, auditBusy, answer, panicked, envVars>>

After(j) == IF j \in panicked THEN "orphan" ELSE "freed"

MutFinishEarly(j) ==
    /\ pc[j] = "finish"
    /\ ClearGate /\ UNCHANGED control
    /\ finished' = finished \cup {held[j]}
    /\ Goto(j, After(j))
    /\ UNCHANGED <<held, cancelled, modelVars, outVars, envVars>>

(* finishTrainingControl, then control.finish() *)
Finish(j) ==
    /\ pc[j] = "finish"
    /\ IF control = held[j] THEN ClearGate /\ control' = None
                            ELSE UNCHANGED <<op, gateVars>>
    /\ finished' = finished \cup {held[j]}
    /\ Goto(j, After(j))
    /\ UNCHANGED <<held, cancelled, modelVars, outVars, envVars>>

MutOwnsToken(j) == TRUE
OwnsToken(j) == token = j
Closing == {control} \ {None}

(* The release function of tryAcquireTask *)
Release(j) ==
    /\ pc[j] \in {"release", "freed"}
    /\ IF OwnsToken(j)
       THEN /\ ClearGate /\ control' = None
            /\ finished' = finished \cup Closing
       ELSE UNCHANGED <<op, gateVars, finished>>
    /\ Goto(j, "done")
    /\ UNCHANGED <<held, cancelled, modelVars, outVars, envVars>>
-----------------------------------------------------------------------------
(***************************************************************************)
(* Panics.  The deferred calls run innermost first: finishTrainingControl  *)
(* when training has begun, then handleAsyncPanic, then release.           *)
(***************************************************************************)
Panic(j) ==
    /\ pc[j] \in PanicStages
    /\ pc[j] \in HoldStages \ {"begun", "download", "finish", "release", "panicking"}
    /\ panicked' = panicked \cup {j}
    /\ Goto(j, IF held[j] = None THEN "panicking" ELSE "finish")
    /\ UNCHANGED <<op, gateVars, ctlVars, modelVars, answer, reports, silent, envVars>>

(* handleAsyncPanic reports and clears whatever task is active now. *)
PanicHandler(j) ==
    /\ pc[j] \in {"panicking", "orphan"}
    /\ ClearGate /\ UNCHANGED control
    /\ reports' = IF activeJob = None THEN reports ELSE reports \cup {<<activeJob, 1>>}
    /\ Goto(j, "freed")
    /\ UNCHANGED <<ctlVars, modelVars, answer, silent, panicked, envVars>>
-----------------------------------------------------------------------------
(***************************************************************************)
(* The other requests that touch the gate.                                 *)
(***************************************************************************)
(* getResourceInfo writes CurrentOp without asking the gate. *)
NextRead == [new |-> "downloading", downloading |-> "decrypting",
             decrypting |-> "analyzing", analyzing |-> "done"]

Read(r) ==
    /\ reader[r] \in DOMAIN NextRead
    /\ reader' = [reader EXCEPT ![r] = NextRead[reader[r]]]
    /\ op' = IF reader[r] = "analyzing" THEN "idle" ELSE NextRead[reader[r]]
    /\ UNCHANGED <<gateVars, ctlVars, modelVars, pc, outVars, stop, target, phase, switches>>

ReadFails(r) ==
    /\ reader[r] \in {"downloading", "decrypting", "analyzing"}
    /\ reader' = [reader EXCEPT ![r] = "done"]
    /\ op' = "idle"
    /\ UNCHANGED <<gateVars, ctlVars, modelVars, pc, outVars, stop, target, phase, switches>>

MutMaySwitch == ~TrainingBusy /\ op = "idle" /\ ~auditBusy
MaySwitch == GateFree /\ ~auditBusy

Switch(p) ==
    /\ MaySwitch /\ switches < MaxSwitches /\ p # phase
    /\ phase' = p /\ switches' = switches + 1
    /\ token' = None /\ activeId' = None /\ activeJob' = None /\ activeType' = "none"
    /\ UNCHANGED <<op, running, control, ctlVars, modelVars, pc, outVars, reader, stop, target>>

(* stopTraining: read the control, cancel it, wait for its done channel. *)
StopRead(s) ==
    /\ stop[s] = "new"
    /\ IF control # None /\ running /\ activeJob # None /\ activeType = "training"
       THEN /\ stop' = [stop EXCEPT ![s] = "request"]
            /\ target' = [target EXCEPT ![s] = control]
       ELSE stop' = [stop EXCEPT ![s] = "none"] /\ UNCHANGED target
    /\ UNCHANGED <<op, gateVars, ctlVars, modelVars, pc, outVars, reader, phase, switches>>

StopRequest(s) ==
    /\ stop[s] = "request"
    /\ cancelled' = cancelled \cup {target[s]}
    /\ stop' = [stop EXCEPT ![s] = "waiting"]
    /\ UNCHANGED <<op, gateVars, held, finished, modelVars, pc, outVars, reader, target,
                   phase, switches>>

StopAnswer(s) ==
    /\ stop[s] = "waiting" /\ target[s] \in finished
    /\ stop' = [stop EXCEPT ![s] = "aborted"]
    /\ UNCHANGED <<op, gateVars, ctlVars, modelVars, pc, outVars, reader, target, phase, switches>>

StopTimeout(s) ==
    /\ stop[s] = "waiting"
    /\ stop' = [stop EXCEPT ![s] = "timeout"]
    /\ UNCHANGED <<op, gateVars, ctlVars, modelVars, pc, outVars, reader, target, phase, switches>>
-----------------------------------------------------------------------------
Handler(j) == \/ Receive(j) \/ NoSavedModel(j) \/ ConfigCheck(j) \/ ConfigSet(j)
              \/ Acquire(j) \/ Conflict(j)
              \/ Reserve(j) \/ ModelBegin(j) \/ DownloadOk(j) \/ DownloadFails(j)
Import(j) == \/ StartDecrypt(j) \/ WorkOk(j) \/ WorkFails(j) \/ ReportLanded(j)
             \/ BeginAudit(j) \/ Check(j) \/ Promote(j)
Train(j) == \/ Ensure(j) \/ StageOk(j) \/ StageFails(j) \/ StageCancelled(j)
            \/ ReportLost(j) \/ SendReport(j)
Unwind(j) == Fail(j) \/ Finish(j) \/ Release(j) \/ PanicHandler(j)
JobStep(j) == Handler(j) \/ Import(j) \/ Train(j) \/ Unwind(j) \/ Panic(j)
ReaderStep(r) == Read(r) \/ ReadFails(r)
StopStep(s) == StopRead(s) \/ StopRequest(s) \/ StopAnswer(s) \/ StopTimeout(s)

Next ==
    \/ \E j \in Jobs : JobStep(j)
    \/ \E r \in Readers : ReaderStep(r)
    \/ \E s \in Stops : StopStep(s)
    \/ \E p \in Phases : Switch(p)
    \/ AuditEnds

Spec == Init /\ [][Next]_vars

(***************************************************************************)
(* Fairness: goroutines are scheduled, and downloads and file work end.    *)
(* A training command need not end by itself, but ends once it is killed.  *)
(***************************************************************************)
Fairness ==
    /\ \A j \in Jobs : /\ WF_vars(pc[j] \notin {"new", "run"} /\ JobStep(j))
                       /\ WF_vars(pc[j] = "run" /\ StageCancelled(j))
    /\ \A s \in Stops : WF_vars(stop[s] # "new" /\ StopStep(s))

FairSpec == Spec /\ Fairness
-----------------------------------------------------------------------------
InTraining(j) == pc[j] \in TrainStages
Transferring(m) == pc[m] \in {"begun", "download", "decrypt", "work"} /\ Kind[m] = "model"

(* At most one job is between the gate and its release: imports, model
   replacement and training never overlap. *)
SingleTask == \A i, j \in Jobs : Holds(i) /\ Holds(j) => i = j

(* The gate says who is inside: the strengthening that makes SingleTask
   inductive when task ids are distinct. *)
GateReflectsJob ==
    \A j \in Jobs : Holds(j) =>
        token = j /\ activeJob = j /\ activeId = TaskId[j]

(* A job in training is one that stopTraining finds, from the moment it is
   promoted until its control is finished: under the control it checks. *)
TrainingVisible ==
    \A j \in Jobs : InTraining(j) =>
        /\ running /\ activeJob = j /\ activeType = "training"
        /\ control # None /\ control \notin finished
        /\ pc[j] # "ensure" => control = held[j]

(* stopTraining answers "aborted" only when the training it cancelled is over:
   it holds the gate no more and will queue nothing. *)
StopMeansStopped ==
    \A s \in Stops, j \in Jobs :
        stop[s] = "aborted" /\ held[j] = target[s] => ~Holds(j)

(* When every request has been served the gate is open again: no failure,
   panic, stop or switch leaves a residue that refuses the next task. *)
NoStuckGate ==
    (\A j \in Jobs : pc[j] \in {"new", "gate", "done", "refused"})
    /\ (\A r \in Readers : reader[r] \in {"new", "done"})
        => GateFree /\ control = None /\ activeJob = None /\ token = None

(* Every job the platform was told is accepted ends with exactly one terminal
   report, or with none for one of the reasons the code logs; never with two. *)
OutcomeAccounted ==
    \A j \in Jobs :
        LET n == Cardinality({r \in reports : r[1] = j}) IN
        /\ n <= 1
        /\ pc[j] = "done" /\ answer[j] = "accepted" =>
              IF silent[j] = "no" THEN n = 1 ELSE n = 0

(* A training never starts while a model package is being replaced. *)
ModelSettledForTraining ==
    \A d, m \in Jobs : pc[d] \in {"staging", "run"} => ~Transferring(m)

(* A job whose goroutine panicked has its own failure queued. *)
PanicReported ==
    \A j \in Jobs : j \in panicked /\ pc[j] = "done" => <<j, 1>> \in reports

(* The phase never changes under a job that holds the gate. *)
SwitchOnlyIdle == [][phase' # phase => \A j \in Jobs : ~Holds(j)]_vars

(* Every job that is let in leaves again, unless its training command is
   still executing and nobody stops it. *)
JobLeaves == \A j \in Jobs : Holds(j) ~> (pc[j] \in {"done", "run"})

(* A stop that found a training ends it, whatever stage it is in. *)
StopEnds == \A s \in Stops : stop[s] = "request" ~> target[s] \in finished

(* The gate and the training control always tell the truth about who is
   inside, and are clean when nobody is. *)
GateSound == GateReflectsJob /\ TrainingVisible /\ NoStuckGate

(* One terminal report per accepted job, panicked ones included. *)
OutcomesReported == OutcomeAccounted /\ PanicReported

(* Jobs leave the gate and stops end what they found. *)
TasksEnd == JobLeaves /\ StopEnds
=============================================================================
