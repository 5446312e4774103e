------------------------------ MODULE FheTask ------------------------------
(***************************************************************************)
(* One FHE task id, from the import that carries its data to the report:   *)
(* the import goroutine (internal/controller/fhe_processing.go), the runner*)
(* that resolves a run by callback, poll or cancel (internal/fhe/runner.go,*)
(* client.go), the stop handler, and the service itself as                 *)
(* tools/fake-fhe/main.go implements its contract.                         *)
(*                                                                         *)
(* An attempt is one delivery of the import under the same requestId and   *)
(* taskId.  The task gate and the reservation of the ids admit one attempt *)
(* at a time, so the runner's list of runs for the id holds at most one.   *)
(* A call to the service takes effect there in one step; the caller acts   *)
(* on the answer in a later one.                                           *)
(***************************************************************************)
EXTENDS Naturals, FiniteSets

CONSTANTS Deliveries,  \* bound: deliveries of the data import
          Stops,       \* stopTraining requests
          Cases,       \* cases of the input archive
          MaxFaults    \* bound: lost calls and answers, failed writes, failed staging,
                       \* crashes of TAA

ASSUME FheAssumption ==
    /\ Deliveries \in Nat \ {0} /\ Cases \in Nat \ {0} /\ MaxFaults \in Nat

Attempts == 1..Deliveries
None == 0

VARIABLES
    apc,        \* stage of each attempt
    outcome,    \* taskRun.outcome, "open" until finish
    seen,       \* the terminal status its poll carried
    run,        \* Runner.tasks: the run registered for the id
    active,     \* fheActiveTaskID is set
    reserved,   \* the ids are pending in the import index
    record,     \* a record with its verdict is committed
    archive,    \* cases in output.zip of the result directory; 0 without one
    report,     \* training_report.json is in the result directory
    reports,    \* terminal reports sent: attempt and code
    spc, srun,  \* stop requests: stage, or answer, and the run looked up
    status,     \* the service: state of the task
    worker,     \* its worker: idle, reading the input, evaluating cases, leaving
    known,      \* the cases were read from the input archive
    spawned,    \* workers started and not yet running
    notified,   \* the callback of the current work attempt was claimed
    done, erred,\* cases with a result, cases that failed
    zip,        \* cases in results/<id>/output.zip of the shared directory
    late,       \* the archive is published once, after the status
    callbacks,  \* terminal callbacks on their way: status, and whether
                \* it was posted since the latest run was registered
    staleBy,    \* history: attempts resolved by a callback posted for an earlier one
    unsaved,    \* history: attempts whose record could not be saved
    faults

taskVars == <<apc, outcome, seen, run, active>>
indexVars == <<reserved, record, unsaved>>
resultVars == <<archive, report, reports>>
stopVars == <<spc, srun>>
workVars == <<worker, known, spawned, done, erred, zip, late>>
endVars == <<status, notified, callbacks>>
serviceVars == <<workVars, endVars>>
vars == <<taskVars, indexVars, resultVars, stopVars, serviceVars, staleBy, faults>>

Terminal == {"completed", "failed", "cancelled"}
States == Terminal \cup {"none", "queued", "running"}
Tracked == {"create", "probe", "continue", "wait", "polled", "return"}
InFlight == Tracked \cup {"reserve", "turned", "check", "stage", "copy", "report", "commit", "undo", "send", "release"}
Answers == {"idle", "untracked", "failed", "finished", "cancelled", "gone"}

TypeOK ==
    /\ apc \in [Attempts -> InFlight \cup {"new", "refused", "done", "lost"}]
    /\ outcome \in [Attempts -> Terminal \cup {"open"}] /\ seen \in [Attempts -> States]
    /\ run \in Attempts \cup {None} /\ active \in BOOLEAN
    /\ reserved \in BOOLEAN /\ record \in BOOLEAN
    /\ archive \in 0..Cases /\ report \in BOOLEAN
    /\ reports \subseteq Attempts \X {0, 1}
    /\ spc \in [Stops -> {"new", "lookup", "send", "finish"} \cup Answers]
    /\ srun \in [Stops -> Attempts \cup {None}]
    /\ status \in States /\ worker \in {"idle", "read", "cases", "case", "exit"} /\ known \in BOOLEAN
    /\ spawned \in Nat
    /\ notified \in BOOLEAN /\ late \in BOOLEAN
    /\ done \in 0..Cases /\ erred \in 0..Cases /\ done + erred <= Cases /\ zip \in 0..Cases
    /\ callbacks \subseteq Terminal \X BOOLEAN
    /\ staleBy \cup unsaved \subseteq Attempts
    /\ faults \in 0..MaxFaults

Init ==
    /\ apc = [a \in Attempts |-> "new"] /\ outcome = [a \in Attempts |-> "open"]
    /\ seen = [a \in Attempts |-> "none"] /\ run = None /\ active = FALSE
    /\ reserved = FALSE /\ record = FALSE
    /\ archive = 0 /\ report = FALSE /\ reports = {}
    /\ spc = [s \in Stops |-> "new"] /\ srun = [s \in Stops |-> None]
    /\ status = "none" /\ worker = "idle" /\ known = FALSE /\ spawned = 0
    /\ notified = FALSE
    /\ done = 0 /\ erred = 0 /\ zip = 0 /\ late \in BOOLEAN /\ callbacks = {}
    /\ staleBy = {} /\ unsaved = {} /\ faults = 0
-----------------------------------------------------------------------------
(***************************************************************************)
(* The service.                                                            *)
(***************************************************************************)
NoFault == UNCHANGED faults
(* A call to the service ends in an error, whether or not it took effect. *)
Fault == faults < MaxFaults /\ faults' = faults + 1

(* complete: the first terminal state of a work attempt wins. *)
Complete(st) ==
    IF notified THEN UNCHANGED endVars
    ELSE /\ notified' = TRUE /\ status' = st
         /\ callbacks' = callbacks \cup {<<st, TRUE>>}

(* createTask: an id that exists is refused. *)
Created == status = "none"
ServeCreate == status' = "queued" /\ spawned' = spawned + 1
               /\ UNCHANGED <<worker, known, done, erred, zip, late, notified, callbacks>>

(* taskContinue: nothing to do for a task at work or completed. *)
ServeContinue ==
    /\ spawned' = IF worker # "idle" \/ status = "completed" THEN spawned ELSE spawned + 1
    /\ UNCHANGED <<worker, known, done, erred, zip, late, endVars>>

ServeCancel == Complete("cancelled") /\ UNCHANGED workVars

serviceRest == <<taskVars, indexVars, resultVars, stopVars, staleBy>>

(* work: a second worker leaves; a work attempt claims the callback anew. *)
WorkStart ==
    /\ spawned > 0 /\ spawned' = spawned - 1
    /\ IF worker # "idle" THEN UNCHANGED <<worker, status, notified>>
       ELSE /\ worker' = IF known THEN "cases" ELSE "read"
            /\ status' = "running" /\ notified' = FALSE
    /\ UNCHANGED <<serviceRest, known, done, erred, zip, late, callbacks>> /\ NoFault

(* readCases: an archive that cannot be read, or holds no case, fails the task. *)
ReadCases ==
    /\ worker = "read"
    /\ \/ worker' = "cases" /\ known' = TRUE /\ UNCHANGED endVars /\ NoFault
       \/ worker' = "exit" /\ Complete("failed") /\ UNCHANGED known /\ Fault
    /\ UNCHANGED <<serviceRest, spawned, done, erred, zip, late>>

Pending == Cases - done - erred

(* The next case, unless the task was cancelled. *)
CaseStart ==
    /\ worker = "cases" /\ status # "cancelled" /\ Pending > 0
    /\ worker' = "case"
    /\ UNCHANGED <<serviceRest, known, spawned, done, erred, zip, late, endVars>> /\ NoFault

StoreCase == done' = done + 1 /\ UNCHANGED erred
MarkCaseError == erred' = erred + 1 /\ UNCHANGED done

(* It is stored and the archive rewritten, which may fail the case. *)
CaseDone ==
    /\ worker = "case" /\ worker' = "cases"
    /\ \/ StoreCase /\ NoFault /\ zip' = IF late THEN zip ELSE done'
       \/ MarkCaseError /\ UNCHANGED zip /\ Fault
    /\ UNCHANGED <<serviceRest, known, spawned, late, endVars>>

(* The status the counts of the cases decide on. *)
CaseVerdict == IF Pending > 0 THEN "cancelled" ELSE IF erred > 0 THEN "failed" ELSE "completed"

(* The worker stops for a cancel or ends with its last case. *)
WorkerEnds ==
    /\ worker = "cases" /\ (status = "cancelled" \/ Pending = 0)
    /\ Complete(CaseVerdict)
    /\ worker' = "exit"
    /\ UNCHANGED <<serviceRest, known, spawned, done, erred, zip, late>> /\ NoFault

WorkerExits ==
    /\ worker = "exit" /\ worker' = "idle"
    /\ UNCHANGED <<serviceRest, known, spawned, done, erred, zip, late, endVars>> /\ NoFault

(* The live service assembles the archive after it reports "completed". *)
Publish ==
    /\ late /\ status = "completed" /\ zip # done /\ zip' = done
    /\ UNCHANGED <<serviceRest, worker, known, spawned, done, erred, late, endVars>> /\ NoFault
-----------------------------------------------------------------------------
(***************************************************************************)
(* The runner.                                                             *)
(***************************************************************************)
MutIsTerminal(st) == st \in {"completed", "failed"}
IsTerminal(st) == st \in Terminal
IsSuccess(st) == st = "completed"

(* finish: the first caller resolves the run. *)
Finish(a, st) == outcome' = [outcome EXCEPT ![a] = IF @ = "open" THEN st ELSE @]

(* register and forget: the run listed for the id. *)
Registered(a) == run' = a
Forgotten == run' = None

Goto(a, stage) == apc' = [apc EXCEPT ![a] = stage]

(* A callback counts when it names a tracked run and a terminal status. *)
Received(cb) == run # None /\ IsTerminal(cb[1])

(* notify and fheCallbackHandler: the callback reaches Deliver; its answer
   may be lost, and then it is posted again. *)
Deliver(cb) ==
    /\ cb \in callbacks
    /\ \/ callbacks' = callbacks \ {cb} /\ NoFault
       \/ UNCHANGED callbacks /\ Fault
    /\ IF Received(cb)
       THEN /\ Finish(run, cb[1])
            /\ staleBy' = IF outcome[run] = "open" /\ ~cb[2]
                          THEN staleBy \cup {run} ELSE staleBy
       ELSE UNCHANGED <<outcome, staleBy>>
    /\ UNCHANGED <<apc, seen, run, active, indexVars, resultVars, stopVars, workVars, status,
                   notified>>

(* All four posts fail. *)
LoseCallback(cb) ==
    /\ cb \in callbacks /\ callbacks' = callbacks \ {cb} /\ Fault
    /\ UNCHANGED <<taskVars, indexVars, resultVars, stopVars, workVars, status, notified,
                   staleBy>>

runnerRest == <<active, indexVars, resultVars, stopVars, staleBy>>

(* prepare: key and input are published, the run is registered. *)
Prepare(a) ==
    /\ apc[a] = "stage"
    /\ \/ /\ Registered(a) /\ Goto(a, "create") /\ UNCHANGED outcome /\ NoFault
          /\ callbacks' = {<<cb[1], FALSE>> : cb \in callbacks}
       \/ /\ Fault /\ Finish(a, "failed") /\ Goto(a, "return")
          /\ UNCHANGED <<run, callbacks>>
    /\ UNCHANGED <<runnerRest, seen, workVars, status, notified>>

(* CreateTask: an error, whatever the service did, leads to the probe. *)
Create(a) ==
    /\ apc[a] = "create"
    /\ \/ Created /\ ServeCreate /\ Goto(a, "wait") /\ NoFault
       \/ ~Created /\ UNCHANGED serviceVars /\ Goto(a, "probe") /\ NoFault
       \/ Fault /\ Goto(a, "probe")
          /\ ((Created /\ ServeCreate) \/ UNCHANGED serviceVars)
    /\ UNCHANGED <<runnerRest, outcome, seen, run>>

Probe(a) ==
    /\ apc[a] = "probe" /\ UNCHANGED serviceVars
    /\ \/ /\ status # "none" /\ NoFault
          /\ IF IsSuccess(status) THEN Finish(a, status) /\ Goto(a, "return")
             ELSE UNCHANGED outcome /\ Goto(a, "continue")
       \/ /\ IF status = "none" THEN NoFault ELSE Fault
          /\ Finish(a, "failed") /\ Goto(a, "return")
    /\ UNCHANGED <<runnerRest, seen, run>>

Continue(a) ==
    /\ apc[a] = "continue"
    /\ \/ ServeContinue /\ Goto(a, "wait") /\ UNCHANGED outcome /\ NoFault
       \/ /\ Fault /\ Finish(a, "failed") /\ Goto(a, "return")
          /\ ServeContinue \/ UNCHANGED serviceVars
    /\ UNCHANGED <<runnerRest, seen, run>>

(* pollOnce: the status is read, then decided upon; a failed poll is not
   fatal. *)
Poll(a) ==
    /\ apc[a] = "wait"
    /\ IF IsTerminal(status) THEN Goto(a, "polled") /\ seen' = [seen EXCEPT ![a] = status]
       ELSE UNCHANGED <<apc, seen>>
    /\ UNCHANGED <<runnerRest, outcome, run, serviceVars>> /\ NoFault

FinishPolled(a) ==
    /\ apc[a] = "polled" /\ Finish(a, seen[a]) /\ Goto(a, "return")
    /\ seen' = [seen EXCEPT ![a] = "none"]
    /\ UNCHANGED <<runnerRest, run, serviceVars>> /\ NoFault

(* wait sees the run resolved. *)
Resolved(a) ==
    /\ apc[a] = "wait" /\ outcome[a] # "open" /\ Goto(a, "return")
    /\ UNCHANGED <<runnerRest, outcome, seen, run, serviceVars>> /\ NoFault
-----------------------------------------------------------------------------
(***************************************************************************)
(* stopTrainingHandler and Cancel.                                         *)
(***************************************************************************)
stopRest == <<apc, seen, run, active, indexVars, resultVars, staleBy>>
Reply(s, answer) == spc' = [spc EXCEPT ![s] = answer]

StopRead(s) ==
    /\ spc[s] = "new" /\ Reply(s, IF active THEN "lookup" ELSE "idle")
    /\ UNCHANGED <<stopRest, outcome, srun, serviceVars>> /\ NoFault

StopLookup(s) ==
    /\ spc[s] = "lookup" /\ srun' = [srun EXCEPT ![s] = run]
    /\ Reply(s, IF run = None THEN "untracked"
                ELSE IF outcome[run] # "open" THEN "finished" ELSE "send")
    /\ UNCHANGED <<stopRest, outcome, serviceVars>> /\ NoFault

StopSend(s) ==
    /\ spc[s] = "send"
    /\ \/ status # "none" /\ ServeCancel /\ Reply(s, "finish") /\ NoFault
       \/ status = "none" /\ UNCHANGED serviceVars /\ Reply(s, "failed") /\ NoFault
       \/ Fault /\ Reply(s, "failed")
          /\ ((status # "none" /\ ServeCancel) \/ UNCHANGED serviceVars)
    /\ UNCHANGED <<stopRest, outcome, srun>>

(* Only the cancel that resolved the run is answered as one. *)
MutStopAnswer(s) == "cancelled"
StopAnswer(s) == IF outcome[srun[s]] = "open" THEN "cancelled" ELSE "finished"

StopFinish(s) ==
    /\ spc[s] = "finish" /\ Finish(srun[s], "cancelled")
    /\ Reply(s, StopAnswer(s))
    /\ UNCHANGED <<stopRest, srun, serviceVars>> /\ NoFault
-----------------------------------------------------------------------------
(***************************************************************************)
(* The import goroutine: executeFHETask.                                   *)
(***************************************************************************)
Idle == \A a \in Attempts : apc[a] \notin InFlight
importRest == <<seen, stopVars, serviceVars, staleBy>>

(* tryAcquireTask: the gate is taken and the task sealed as RUNNING. *)
Acquire(a) ==
    /\ apc[a] = "new" /\ Idle /\ \A b \in Attempts : b < a => apc[b] # "new"
    /\ Goto(a, "reserve")
    /\ UNCHANGED <<importRest, outcome, run, active, indexVars, resultVars>> /\ NoFault

(* Reserve: ids that are known or in flight are turned away. *)
Reserve(a) ==
    /\ apc[a] = "reserve"
    /\ IF record \/ reserved THEN Goto(a, "turned") /\ UNCHANGED reserved
       ELSE Goto(a, "check") /\ reserved' = TRUE
    /\ UNCHANGED <<importRest, outcome, run, active, record, unsaved, resultVars>> /\ NoFault

(* Rollback *)
Freed == FALSE

(* reportImportFailure for an input that is no archive, or no model yet. *)
Check(a) ==
    /\ apc[a] = "check"
    /\ \/ /\ active' = TRUE /\ Goto(a, "stage") /\ UNCHANGED <<reserved, reports>> /\ NoFault
       \/ /\ Fault /\ reserved' = Freed /\ reports' = reports \cup {<<a, 1>>}
          /\ Goto(a, "release") /\ UNCHANGED active
    /\ UNCHANGED <<importRest, outcome, run, record, unsaved, archive, report>>

(* Execute returns and forgets the run; the id is no longer active. *)
Return(a) ==
    /\ apc[a] = "return" /\ Forgotten /\ active' = FALSE
    /\ Goto(a, IF IsSuccess(outcome[a]) THEN "copy" ELSE "report")
    /\ UNCHANGED <<importRest, outcome, indexVars, resultVars>> /\ NoFault

(* The archive is there to be copied, and a copy appears whole. *)
ResultReady == zip > 0
CopyFile == archive' = zip

(* CopyResult: it waits for the archive, up to resultReadyWait; the copy or
   the download may also fail. *)
MutCopied(a) == CopyFile /\ Goto(a, "report") /\ UNCHANGED outcome /\ NoFault
Copied(a) == ResultReady /\ CopyFile /\ Goto(a, "report") /\ UNCHANGED outcome /\ NoFault
CopyFails(a) == /\ outcome' = [outcome EXCEPT ![a] = "failed"]
                /\ Goto(a, "report") /\ UNCHANGED archive
                /\ ((~ResultReady /\ NoFault) \/ Fault)

CopyResult(a) ==
    /\ apc[a] = "copy" /\ (Copied(a) \/ CopyFails(a))
    /\ UNCHANGED <<importRest, run, active, indexVars, report, reports>>

(* buildAndSaveTrainingReport; its failure ends the attempt in silence. *)
WriteReport(a) ==
    /\ apc[a] = "report"
    /\ \/ /\ report' = TRUE /\ UNCHANGED reserved /\ NoFault
          /\ Goto(a, IF IsSuccess(outcome[a]) THEN "commit" ELSE "undo")
       \/ Fault /\ reserved' = Freed /\ Goto(a, "release") /\ UNCHANGED report
    /\ UNCHANGED <<importRest, outcome, run, active, record, unsaved, archive, reports>>

Commit(a) ==
    /\ apc[a] = "commit" /\ Goto(a, "send")
    /\ \/ record' = TRUE /\ reserved' = FALSE /\ UNCHANGED unsaved /\ NoFault
       \/ /\ Fault /\ reserved' = Freed /\ unsaved' = unsaved \cup {a}
          /\ UNCHANGED record
    /\ UNCHANGED <<importRest, outcome, run, active, resultVars>>

(* A failed run leaves no record and gives the ids back. *)
Undo(a) ==
    /\ apc[a] = "undo" /\ Goto(a, "send")
    /\ reserved' = Freed
    /\ UNCHANGED <<importRest, outcome, run, active, record, unsaved, resultVars>> /\ NoFault

Send(a) ==
    /\ apc[a] = "send" /\ Goto(a, "release")
    /\ reports' = reports \cup {<<a, IF IsSuccess(outcome[a]) THEN 0 ELSE 1>>}
    /\ UNCHANGED <<importRest, outcome, run, active, indexVars, archive, report>> /\ NoFault

Release(a) ==
    /\ \/ apc[a] = "release" /\ Goto(a, "done")
       \/ apc[a] = "turned" /\ Goto(a, "refused")
    /\ UNCHANGED <<importRest, outcome, run, active, indexVars, resultVars>> /\ NoFault

(* A crash and the recovery that follows (ResultIndex): the interrupted delivery
   is answered, and whatever record and results its ids have are put aside. *)
Crash ==
    /\ Fault
    /\ apc' = [a \in Attempts |-> IF apc[a] \in InFlight THEN "lost" ELSE apc[a]]
    /\ spc' = [s \in Stops |-> IF spc[s] \in {"lookup", "send", "finish"} THEN "gone" ELSE spc[s]]
    /\ srun' = [s \in Stops |-> IF spc'[s] = "gone" THEN None ELSE srun[s]]
    /\ run' = None /\ active' = FALSE /\ reserved' = FALSE
    /\ reports' = reports \cup {<<a, 1>> : a \in {b \in Attempts : apc[b] \in InFlight}}
    /\ IF Idle THEN UNCHANGED <<record, archive, report>>
       ELSE record' = FALSE /\ archive' = 0 /\ report' = FALSE
    /\ seen' = [a \in Attempts |-> "none"]
    /\ UNCHANGED <<outcome, unsaved, serviceVars, staleBy>>
-----------------------------------------------------------------------------
Import(a) == \/ Acquire(a) \/ Reserve(a) \/ Check(a) \/ Prepare(a) \/ Create(a) \/ Probe(a) \/ Continue(a)
             \/ Poll(a) \/ FinishPolled(a) \/ Resolved(a) \/ Return(a) \/ CopyResult(a)
             \/ WriteReport(a) \/ Commit(a) \/ Undo(a) \/ Send(a) \/ Release(a)
Stop(s) == StopRead(s) \/ StopLookup(s) \/ StopSend(s) \/ StopFinish(s)
Service == WorkStart \/ ReadCases \/ CaseStart \/ CaseDone \/ WorkerEnds \/ WorkerExits \/ Publish

Next ==
    \/ \E a \in Attempts : Import(a)
    \/ \E s \in Stops : Stop(s)
    \/ \E cb \in callbacks : Deliver(cb) \/ LoseCallback(cb)
    \/ Service \/ Crash

Spec == Init /\ [][Next]_vars

(* The goroutines and the service keep running; a call may fail only as often
   as the faults allow. *)
FairSpec ==
    /\ Spec /\ WF_vars(Service)
    /\ \A a \in Attempts : WF_vars(Import(a))
-----------------------------------------------------------------------------
(* A stop answered as "cancelled" really ended the run: its recorded outcome
   is the cancel and the platform is never told that it succeeded, however
   the cancel, the callback and the poll interleave. *)
StopTruthful ==
    \A s \in Stops : spc[s] = "cancelled" =>
        outcome[srun[s]] = "cancelled" /\ <<srun[s], 0>> \notin reports

(* A success reported to the platform stands on a complete archive, its report
   and a record an export will find.  Two things undo that: the index could not be
   written, or a crash met a delivery of the task that was still sealed as running,
   be it the successful one before its release or a redelivery that was going to be
   turned away, and the recovery took the results for that delivery's remains. *)
Purged(a) == \E b \in Attempts : a <= b /\ apc[b] = "lost"
SuccessBacked ==
    \A a \in Attempts : <<a, 0>> \in reports =>
        a \in unsaved \/ Purged(a) \/ (record /\ archive = Cases /\ report)

(* A record exists only with everything an export reads through it. *)
RecordBacked == record => archive = Cases /\ report

(* Between attempts the ids are either taken by a record or free for the next
   delivery. *)
IdsSettled == Idle => ~reserved

(* "a callback or a stop that arrives is about the run the platform is
   waiting on now": no run is resolved by a callback the service posted for
   an earlier delivery of the task. *)
CallbackIsAboutThisRun == staleBy = {}

(* Every attempt that takes the gate leaves it, or is cut off by a crash. *)
AttemptEnds ==
    \A a \in Attempts : apc[a] \in InFlight ~> apc[a] \in {"done", "refused", "lost"}

(* Everything a record or a reported success promises is there, but for the two
   losses SuccessBacked names, and an attempt that failed leaves its ids free for
   the next delivery. *)
ResultsBacked == SuccessBacked /\ RecordBacked /\ IdsSettled
=============================================================================
