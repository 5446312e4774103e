----------------------- MODULE TaskLifecycle_proofs -----------------------
(***************************************************************************)
(* The task gate, for any number of jobs, readers, stops and phases:       *)
(* mutual exclusion, what a stop means, and one outcome per job.           *)
(***************************************************************************)
EXTENDS TaskLifecycle, FiniteSetTheorems, TLAPS

(* What the gate needs from its environment: two requests under one task id,
   two without a task id, or a panic between the promotion and the end of the
   training get past it. *)
GateHypotheses ==
    /\ \A j \in Jobs : TaskId[j] # None
    /\ \A i, j \in Jobs : TaskId[i] = TaskId[j] => i = j
    /\ PanicStages \subseteq ImportStages

(* Only a goroutine that entered executeTraining holds a control. *)
ControlFromTraining ==
    \A j \in Jobs :
        pc[j] \in ImportStages \cup {"new", "gate", "config", "configSet", "ensure"} => held[j] = None

(* The panic handler runs in a goroutine that still holds the gate. *)
PanicInside ==
    \A j \in Jobs : /\ pc[j] # "orphan"
                    /\ j \in panicked => pc[j] \in {"panicking", "freed", "done"}

PcOK == /\ pc \in [Jobs -> Stages]
        /\ held \in [Jobs -> Controls \cup {None}]
        /\ control \in Controls \cup {None}

(* The inductive invariant. *)
GateInv == PcOK /\ ControlFromTraining /\ PanicInside /\ GateReflectsJob

-----------------------------------------------------------------------------
(* The gate is free for everybody at the start. *)
LEMMA GateInit == Init => GateInv
<1> SUFFICES ASSUME Init PROVE GateInv
    OBVIOUS
<1>1. PcOK
    BY DEF Init, PcOK, Stages
<1>2. ControlFromTraining
    BY DEF Init, ControlFromTraining
<1>3. PanicInside
    BY DEF Init, PanicInside
<1>4. GateReflectsJob
    BY DEF Init, GateReflectsJob, Holds, HoldStages, ImportStages, TrainStages
<1> QED
    BY <1>1, <1>2, <1>3, <1>4 DEF GateInv

(* A job that waits at the gate is let in only when nobody is inside: with
   distinct ids it is nobody's partner. *)
LEMMA EntryMeansEmpty ==
    ASSUME GateHypotheses, GateReflectsJob,
           NEW j \in Jobs, MayAcquire(j), pc[j] = "gate", NEW i \in Jobs
    PROVE  ~Holds(i)
<1> SUFFICES ASSUME Holds(i) PROVE FALSE
    OBVIOUS
<1>1. activeId = TaskId[i]
    BY DEF GateReflectsJob
<1>2. i # j
    BY DEF Holds, HoldStages, ImportStages, TrainStages
<1>3. TaskId[i] # None /\ TaskId[i] # TaskId[j]
    BY <1>2 DEF GateHypotheses
<1> QED
    BY <1>1, <1>3 DEF MayAcquire, SamePair

(* Only the job inside can see its own token: a job that takes the gate away
   from its holder is that holder. *)
LEMMA HolderUnique ==
    ASSUME GateReflectsJob, NEW i \in Jobs, NEW j \in Jobs, Holds(i), Holds(j)
    PROVE  i = j
BY DEF GateReflectsJob

(* The steps a request takes before its goroutine starts. *)
LEMMA HandlerStep ==
    ASSUME TaskAssumption, GateHypotheses, GateInv, NEW j \in Jobs, Handler(j)
    PROVE  GateInv'
<1> USE TaskAssumption DEF TaskAssumption, GateInv, PcOK, Goto
<1>1. PcOK'
  <2>1. held' = held /\ control' = control
      BY DEF Handler, Receive, NoSavedModel, ConfigCheck, ConfigSet,
         Acquire, Conflict, Reserve, ModelBegin,
             DownloadOk, DownloadFails, ctlVars, gateVars
  <2>2. \E stage \in Stages : pc' = [pc EXCEPT ![j] = stage]
      BY DEF Handler, Receive, NoSavedModel, ConfigCheck, ConfigSet,
         Acquire, Conflict, Reserve, ModelBegin,
             DownloadOk, DownloadFails, Stages, HoldStages, ImportStages
  <2> QED
      BY <2>1, <2>2
<1>2. ControlFromTraining'
    BY DEF ControlFromTraining, Handler, Receive, NoSavedModel, ConfigCheck, ConfigSet,
       Acquire, Conflict,
           Reserve, ModelBegin, DownloadOk, DownloadFails, ctlVars, ImportStages
<1>3. PanicInside'
    BY DEF PanicInside, Handler, Receive, NoSavedModel, ConfigCheck, ConfigSet,
       Acquire, Conflict, Reserve,
           ModelBegin, DownloadOk, DownloadFails, outVars
<1>4. GateReflectsJob'
  <2>1. CASE Acquire(j)
    <3>1. \A i \in Jobs : Holds(i)' => i = j
        BY <2>1, EntryMeansEmpty DEF Acquire, Holds
    <3> QED
        BY <2>1, <3>1 DEF GateReflectsJob, Acquire
  <2>2. CASE Receive(j) \/ NoSavedModel(j) \/ ConfigCheck(j) \/ ConfigSet(j) \/ Conflict(j)
      BY <2>2 DEF GateReflectsJob, Holds, HoldStages, ImportStages, TrainStages,
                  Receive, NoSavedModel, ConfigCheck, ConfigSet, Conflict, gateVars
  <2>3. CASE Reserve(j) \/ ModelBegin(j) \/ DownloadOk(j) \/ DownloadFails(j)
      BY <2>3 DEF GateReflectsJob, Holds, HoldStages, ImportStages,
                  Reserve, ModelBegin, DownloadOk, DownloadFails, gateVars
  <2> QED
      BY <2>1, <2>2, <2>3 DEF Handler
<1> QED
    BY <1>1, <1>2, <1>3, <1>4 DEF GateInv

(* The import pipeline up to the promotion. *)
LEMMA ImportStep ==
    ASSUME GateInv, NEW j \in Jobs, Import(j)
    PROVE  GateInv'
<1> USE DEF GateInv, PcOK, Goto
<1>1. PcOK'
  <2>1. held' = held /\ control' \in {control} \cup Controls
      BY DEF Import, StartDecrypt, WorkOk, WorkFails, ReportLanded, BeginAudit, Check,
             Promote, ctlVars, gateVars, Controls
  <2>2. \E stage \in Stages : pc' = [pc EXCEPT ![j] = stage]
      BY DEF Import, StartDecrypt, WorkOk, WorkFails, ReportLanded, BeginAudit, Check,
             Promote, Stages, HoldStages, ImportStages, TrainStages
  <2> QED
      BY <2>1, <2>2
<1>2. ControlFromTraining'
    BY DEF ControlFromTraining, Import, StartDecrypt, WorkOk, WorkFails, ReportLanded,
           BeginAudit, Check, Promote, ctlVars, ImportStages
<1>3. PanicInside'
    BY DEF PanicInside, Import, StartDecrypt, WorkOk, WorkFails, ReportLanded,
           BeginAudit, Check, Promote, outVars
<1>4. GateReflectsJob'
  <2>1. pc[j] \in HoldStages
      BY DEF Import, StartDecrypt, WorkOk, WorkFails, ReportLanded, BeginAudit, Check,
             Promote, HoldStages, ImportStages
  <2>2. UNCHANGED <<activeId, token, activeJob>>
      BY DEF Import, StartDecrypt, WorkOk, WorkFails, ReportLanded, BeginAudit, Check,
             Promote, gateVars
  <2>3. \A i \in Jobs : i # j => pc'[i] = pc[i]
      BY DEF Import, StartDecrypt, WorkOk, WorkFails, ReportLanded, BeginAudit, Check,
             Promote
  <2> QED
      BY <2>1, <2>2, <2>3 DEF GateReflectsJob, Holds
<1> QED
    BY <1>1, <1>2, <1>3, <1>4 DEF GateInv

(* executeTraining: the job keeps the gate it was given. *)
LEMMA TrainStep ==
    ASSUME TaskAssumption, GateHypotheses, GateInv, NEW j \in Jobs, Train(j)
    PROVE  GateInv'
<1> USE TaskAssumption DEF TaskAssumption, GateInv, PcOK, Goto
<1>1. CASE Ensure(j)
  <2>1. token = j /\ activeJob = j /\ activeId = TaskId[j]
      BY <1>1 DEF Ensure, GateReflectsJob, Holds, HoldStages, TrainStages
  <2>2. activeJob' = activeJob /\ activeId' = activeId /\ token' = token
      BY <1>1, <2>1 DEF Ensure, GateHypotheses
  <2>3. control' \in Controls \cup {None}
      BY <1>1 DEF Ensure, Controls
  <2>4. pc' = [pc EXCEPT ![j] = "ensured"] /\ held' = [held EXCEPT ![j] = control']
      BY <1>1 DEF Ensure
  <2>5. PcOK'
      BY <2>3, <2>4 DEF Stages, HoldStages, TrainStages
  <2>6. ControlFromTraining'
      BY <2>4 DEF ControlFromTraining, ImportStages
  <2>7. PanicInside'
      BY <1>1, <2>4 DEF PanicInside, Ensure, outVars
  <2>8. GateReflectsJob'
      BY <2>1, <2>2, <2>4 DEF GateReflectsJob, Holds
  <2> QED
      BY <2>5, <2>6, <2>7, <2>8
<1>2. CASE \/ StageOk(j) \/ StageFails(j) \/ StageCancelled(j) \/ ReportLost(j)
           \/ SendReport(j)
  <2> DEFINE later == {"staging", "run", "collect", "report", "send", "fail", "finish"}
  <2>a. DOMAIN NextTrainStage = {"ensured", "staging", "run", "collect", "report"}
      BY DEF NextTrainStage
  <2>b. \A st \in DOMAIN NextTrainStage : NextTrainStage[st] \in later
      BY DEF NextTrainStage
  <2>1. pc[j] \in TrainStages \ {"ensure"} /\ \E stage \in later : pc' = [pc EXCEPT ![j] = stage]
      BY <1>2, <2>a, <2>b DEF StageOk, StageFails, StageCancelled, ReportLost,
                  SendReport, Training, TrainStages
  <2>2. UNCHANGED <<gateVars, held, panicked>>
      BY <1>2 DEF StageOk, StageFails, StageCancelled, ReportLost, SendReport, ctlVars,
                  outVars
  <2>3. PcOK'
      BY <2>1, <2>2 DEF gateVars, Stages, HoldStages, TrainStages
  <2>4. ControlFromTraining'
      BY <2>1, <2>2 DEF ControlFromTraining, ImportStages
  <2>5. PanicInside'
      BY <2>1, <2>2 DEF PanicInside, TrainStages
  <2>6. GateReflectsJob'
      BY <2>1, <2>2 DEF GateReflectsJob, Holds, HoldStages, gateVars
  <2> QED
      BY <2>3, <2>4, <2>5, <2>6
<1> QED
    BY <1>1, <1>2 DEF Train

(* The failure path, the two ways out of the gate, and the panics. *)
LEMMA UnwindStep ==
    ASSUME TaskAssumption, GateHypotheses, GateInv, NEW j \in Jobs, Unwind(j) \/ Panic(j)
    PROVE  GateInv'
<1> USE TaskAssumption DEF TaskAssumption, GateInv, PcOK, Goto
<1> DEFINE others == \A i \in Jobs : i # j => pc'[i] = pc[i]
<1>1. CASE Fail(j)
  <2>1. pc[j] = "fail" /\ \E stage \in {"release", "finish"} : pc' = [pc EXCEPT ![j] = stage]
      BY <1>1 DEF Fail, AfterFailure
  <2>2. UNCHANGED <<gateVars, held, panicked>>
      BY <1>1 DEF Fail, ctlVars, outVars
  <2>3. PcOK'
      BY <2>1, <2>2 DEF gateVars, Stages, HoldStages, TrainStages
  <2>4. ControlFromTraining'
      BY <2>1, <2>2 DEF ControlFromTraining, ImportStages
  <2>5. PanicInside'
      BY <2>1, <2>2 DEF PanicInside
  <2>6. GateReflectsJob'
      BY <2>1, <2>2 DEF GateReflectsJob, Holds, HoldStages, gateVars
  <2> QED
      BY <2>3, <2>4, <2>5, <2>6
<1>2. CASE Finish(j)
  <2>1. pc[j] = "finish" /\ Holds(j) /\ j \notin panicked
      BY <1>2 DEF Finish, PanicInside, Holds, HoldStages, TrainStages
  <2>2. pc' = [pc EXCEPT ![j] = "freed"]
      BY <1>2, <2>1 DEF Finish, After
  <2>3. held' = held /\ control' \in {control, None} /\ panicked' = panicked
      BY <1>2 DEF Finish, gateVars, outVars
  <2>4. \A i \in Jobs : ~Holds(i)'
      BY <2>1, <2>2, HolderUnique DEF Holds, HoldStages, ImportStages, TrainStages
  <2>5. PcOK' /\ ControlFromTraining'
      BY <2>2, <2>3 DEF ControlFromTraining, Stages, ImportStages
  <2>6. PanicInside'
      BY <2>2, <2>3 DEF PanicInside
  <2> QED
      BY <2>4, <2>5, <2>6 DEF GateReflectsJob
<1>3. CASE Release(j)
  <2>1. pc[j] \in {"release", "freed"} /\ pc' = [pc EXCEPT ![j] = "done"]
      BY <1>3 DEF Release
  <2>2. held' = held /\ control' \in {control, None} /\ panicked' = panicked
      BY <1>3 DEF Release, gateVars, outVars
  <2>3. PcOK' /\ ControlFromTraining'
      BY <2>1, <2>2 DEF ControlFromTraining, Stages, ImportStages
  <2>4. PanicInside'
      BY <2>1, <2>2 DEF PanicInside
  <2>5. ~Holds(j)' /\ \A i \in Jobs : Holds(i)' => Holds(i)
      BY <2>1 DEF Holds, HoldStages, ImportStages, TrainStages
  <2>6. CASE token = j
    <3>1. \A i \in Jobs : Holds(i) => i = j
        BY <2>6 DEF GateReflectsJob
    <3> QED
        BY <2>3, <2>4, <2>5, <3>1 DEF GateReflectsJob
  <2>7. CASE token # j
    <3>1. UNCHANGED gateVars
        BY <1>3, <2>7 DEF Release, OwnsToken
    <3> QED
        BY <2>3, <2>4, <2>5, <3>1 DEF GateReflectsJob, gateVars
  <2> QED
      BY <2>6, <2>7
<1>4. CASE PanicHandler(j)
  <2>1. pc[j] = "panicking" /\ Holds(j) /\ pc' = [pc EXCEPT ![j] = "freed"]
      BY <1>4 DEF PanicHandler, PanicInside, Holds, HoldStages
  <2>2. held' = held /\ control' = control /\ panicked' = panicked
      BY <1>4 DEF PanicHandler, ctlVars
  <2>3. \A i \in Jobs : ~Holds(i)'
      BY <2>1, HolderUnique DEF Holds, HoldStages, ImportStages, TrainStages
  <2>4. PcOK' /\ ControlFromTraining'
      BY <2>1, <2>2 DEF ControlFromTraining, Stages, ImportStages
  <2>5. PanicInside'
      BY <2>1, <2>2 DEF PanicInside
  <2> QED
      BY <2>3, <2>4, <2>5 DEF GateReflectsJob
<1>5. CASE Panic(j)
  <2>1. pc[j] \in ImportStages /\ held[j] = None
      BY <1>5 DEF Panic, GateHypotheses, ControlFromTraining
  <2>2. pc' = [pc EXCEPT ![j] = "panicking"]
      BY <1>5, <2>1 DEF Panic
  <2>3. UNCHANGED <<gateVars, held>> /\ panicked' = panicked \cup {j}
      BY <1>5 DEF Panic, ctlVars
  <2>4. PcOK' /\ ControlFromTraining'
      BY <2>2, <2>3 DEF ControlFromTraining, gateVars, Stages, HoldStages, ImportStages
  <2>5. PanicInside'
      BY <2>2, <2>3 DEF PanicInside
  <2>6. GateReflectsJob'
      BY <2>1, <2>2, <2>3 DEF GateReflectsJob, Holds, HoldStages, gateVars
  <2> QED
      BY <2>4, <2>5, <2>6
<1> QED
    BY <1>1, <1>2, <1>3, <1>4, <1>5 DEF Unwind

(* Readers, stops and the audit never touch who holds the gate; a switch
   happens only when nobody does. *)
LEMMA OtherStep ==
    ASSUME TaskAssumption, GateHypotheses, GateInv,
           \/ \E r \in Readers : ReaderStep(r)
           \/ \E s \in Stops : StopStep(s)
           \/ \E p \in Phases : Switch(p)
           \/ AuditEnds
           \/ UNCHANGED vars
    PROVE  GateInv'
<1> USE DEF GateInv, PcOK
<1>1. UNCHANGED <<pc, held, panicked, control>>
    BY DEF ReaderStep, Read, ReadFails, StopStep, StopRead, StopRequest, StopAnswer,
           StopTimeout, Switch, AuditEnds, vars, gateVars, ctlVars, outVars
<1>2. PcOK' /\ ControlFromTraining' /\ PanicInside'
    BY <1>1 DEF ControlFromTraining, PanicInside
<1>3. CASE \E p \in Phases : Switch(p)
  <2>1. \A i \in Jobs : ~Holds(i)
      BY <1>3 DEF Switch, MaySwitch, GateFree, GateReflectsJob, GateHypotheses
  <2> QED
      BY <1>1, <1>2, <2>1 DEF GateReflectsJob, Holds
<1>4. CASE ~\E p \in Phases : Switch(p)
  <2>1. UNCHANGED gateVars
      BY <1>4 DEF ReaderStep, Read, ReadFails, StopStep, StopRead, StopRequest,
                  StopAnswer, StopTimeout, AuditEnds, vars
  <2> QED
      BY <1>1, <1>2, <2>1 DEF GateReflectsJob, Holds, gateVars
<1> QED
    BY <1>3, <1>4

(* The invariant is inductive. *)
LEMMA GateStep ==
    ASSUME GateHypotheses, GateInv, [Next]_vars PROVE GateInv'
BY TaskAssumption, HandlerStep, ImportStep, TrainStep, UnwindStep, OtherStep
   DEF Next, JobStep

(* The gate always says which job is inside. *)
THEOREM GateCorrect == ASSUME GateHypotheses PROVE Spec => []GateInv
<1>1. Init => GateInv
    BY GateInit
<1>2. GateInv /\ [Next]_vars => GateInv'
    BY GateStep
<1> QED
    BY <1>1, <1>2, PTL DEF Spec

(* At most one job is between the gate and its release, for any number of
   jobs with distinct task ids. *)
THEOREM SingleTaskCorrect == ASSUME GateHypotheses PROVE Spec => []SingleTask
<1>1. GateInv => SingleTask
    BY HolderUnique DEF GateInv, SingleTask
<1> QED
    BY <1>1, GateCorrect, PTL

(* The phase never changes under a job that holds the gate. *)
THEOREM SwitchCorrect == ASSUME GateHypotheses PROVE Spec => SwitchOnlyIdle
<1>1. GateInv /\ [Next]_vars => [phase' # phase => \A j \in Jobs : ~Holds(j)]_vars
  <2> SUFFICES ASSUME GateInv, Next, phase' # phase PROVE \A j \in Jobs : ~Holds(j)
      OBVIOUS
  <2>1. \E p \in Phases : Switch(p)
      BY DEF Next, JobStep, Handler, Import, Train, Unwind, ReaderStep, StopStep,
             Receive, NoSavedModel, ConfigCheck, ConfigSet,
                Acquire, Conflict, Reserve, ModelBegin, DownloadOk,
             DownloadFails, StartDecrypt, WorkOk, WorkFails, ReportLanded, BeginAudit,
             Check, Promote, Ensure, StageOk, StageFails, StageCancelled, ReportLost,
             SendReport, Fail, Finish, Release, Panic, PanicHandler, Read, ReadFails,
             StopRead, StopRequest, StopAnswer, StopTimeout, AuditEnds, envVars
  <2> QED
      BY <2>1 DEF Switch, MaySwitch, GateFree, GateInv, GateReflectsJob, GateHypotheses
<1> QED
    BY <1>1, GateCorrect, PTL DEF Spec, SwitchOnlyIdle
-----------------------------------------------------------------------------
(***************************************************************************)
(* What the gate and the training control say.  GateSound is not inductive *)
(* on its own: that a control is never finished under its holder, and that *)
(* every way out leaves a clean gate, need to know whose control it is and *)
(* which goroutine the token still belongs to.                             *)
(***************************************************************************)
Promoted(j) == <<j, "promote">>

(* A job trains under the control its own promotion made, and no other. *)
OwnControl(j) ==
    /\ held[j] \in {None, Promoted(j)}
    /\ pc[j] \in TrainStages \ {"ensure"} => held[j] # None
    /\ held[j] # None => pc[j] \in TrainStages \cup {"fail", "freed", "done"}
    /\ Holds(j) => control \in {None, Promoted(j)}
    /\ pc[j] \in ImportStages \cup {"panicking"} => control = None /\ running = FALSE
    /\ pc[j] \in TrainStages \/ (pc[j] = "fail" /\ held[j] # None) =>
          control = Promoted(j) /\ running = TRUE /\ activeType = "training"
ControlOwned == \A j \in Jobs : OwnControl(j)

(* A done channel is closed only by a job on its way out. *)
FinishedOver ==
    \A c \in finished : \E j \in Jobs : c = Promoted(j) /\ pc[j] \in {"freed", "done"}

(* A token is held by somebody inside; without one nothing is left behind. *)
TokenOwned ==
    /\ token # None => token \in Jobs /\ Holds(token)
    /\ token = None => /\ running = FALSE /\ activeId = None /\ activeJob = None
                       /\ control = None

(* CurrentOp is written back to idle by whoever set it. *)
Reading(r) == reader[r] \in {"downloading", "decrypting", "analyzing"}
OpOwned ==
    /\ reader \in [Readers -> {"new", "downloading", "decrypting", "analyzing", "done"}]
    /\ op # "idle" => token # None \/ \E r \in Readers : Reading(r)

(* A stop is answered "aborted" only once its target's channel is closed. *)
AbortedFinished ==
    /\ stop \in [Stops -> {"new", "request", "waiting", "none", "aborted", "timeout"}]
    /\ target \in [Stops -> Controls \cup {None}]
    /\ \A s \in Stops : stop[s] = "aborted" => target[s] \in finished

SoundInv ==
    GateInv /\ ControlOwned /\ FinishedOver /\ TokenOwned /\ OpOwned /\ AbortedFinished

LEMMA SoundInit == Init => SoundInv
<1> SUFFICES ASSUME Init PROVE SoundInv
    OBVIOUS
<1>1. GateInv
    BY GateInit
<1>2. ControlOwned
    BY DEF Init, ControlOwned, OwnControl, Holds, HoldStages, ImportStages, TrainStages
<1>3. FinishedOver /\ TokenOwned /\ OpOwned /\ AbortedFinished
    BY DEF Init, FinishedOver, TokenOwned, OpOwned, AbortedFinished
<1> QED
    BY <1>1, <1>2, <1>3 DEF SoundInv

(* The facts about the gate that every job step is argued from. *)
LEMMA InsideFacts ==
    ASSUME SoundInv, NEW j \in Jobs, Holds(j)
    PROVE  /\ token = j /\ activeJob = j /\ activeId = TaskId[j]
           /\ \A i \in Jobs : Holds(i) => i = j
           /\ \A c \in finished : c # Promoted(j)
<1>1. token = j /\ activeJob = j /\ activeId = TaskId[j] /\ \A i \in Jobs : Holds(i) => i = j
    BY DEF SoundInv, GateInv, GateReflectsJob
<1>2. \A c \in finished : c # Promoted(j)
    BY DEF SoundInv, FinishedOver, Promoted, Holds, HoldStages, ImportStages, TrainStages
<1> QED
    BY <1>1, <1>2

(* A step from one stage to the next inside the gate, whatever it writes to
   CurrentOp, the model flags and the reports. *)
LEMMA MoveInside ==
    ASSUME TaskAssumption, SoundInv, GateInv', NEW j \in Jobs, Holds(j), NEW stage \in HoldStages,
           pc' = [pc EXCEPT ![j] = stage],
           stage \in ImportStages \cup {"panicking"} => pc[j] \in ImportStages,
           stage \in TrainStages => held[j] # None,
           stage = "release" => held[j] = None,
           UNCHANGED <<gateVars, held, finished, reader, stop, target>>
    PROVE  SoundInv'
<1> USE DEF SoundInv, GateInv, PcOK, gateVars
<1>1. token = j /\ \A i \in Jobs : Holds(i) => i = j
    BY InsideFacts
<1>2. pc'[j] = stage /\ \A i \in Jobs : i # j => pc'[i] = pc[i]
    OBVIOUS
<1>3. Holds(j)'
    BY <1>2 DEF Holds
<1>4. held[j] # None => pc[j] \in TrainStages \cup {"fail"}
    BY DEF ControlOwned, OwnControl, Holds, HoldStages, ImportStages, TrainStages
<1>5. held[j] # None => control = Promoted(j) /\ running = TRUE /\ activeType = "training"
    BY <1>4 DEF ControlOwned, OwnControl
<1>6. ControlOwned'
  <2> SUFFICES ASSUME NEW i \in Jobs PROVE OwnControl(i)'
      BY DEF ControlOwned
  <2>1. CASE i # j
      BY <2>1, <1>1, <1>2 DEF ControlOwned, OwnControl, Holds, Promoted
  <2>2. CASE i = j
    <3>1. stage \in ImportStages => control = None /\ running = FALSE /\ held[j] = None
        BY <1>4 DEF ControlOwned, OwnControl, ImportStages, TrainStages
    <3> QED
        BY <2>2, <1>2, <1>5, <3>1 DEF ControlOwned, OwnControl, Holds, Promoted, HoldStages,
           ImportStages, TrainStages
  <2> QED
      BY <2>1, <2>2
<1>7. FinishedOver'
    BY <1>2, InsideFacts DEF FinishedOver, Promoted
<1>8. TokenOwned' /\ OpOwned' /\ AbortedFinished'
    BY <1>1, <1>3, TaskAssumption DEF TaskAssumption, TokenOwned, OpOwned, AbortedFinished,
       Reading
<1> QED
    BY <1>6, <1>7, <1>8

(* A step of a job that is not inside. *)
LEMMA MoveOutside ==
    ASSUME SoundInv, GateInv', NEW j \in Jobs, pc[j] \in {"new", "gate", "config", "configSet"},
           NEW stage \in {"gate", "config", "configSet", "refused", "done"},
           pc' = [pc EXCEPT ![j] = stage],
           UNCHANGED <<op, gateVars, held, finished, reader, stop, target>>
    PROVE  SoundInv'
<1> USE DEF SoundInv, GateInv, PcOK, gateVars
<1>1. pc'[j] = stage /\ \A i \in Jobs : i # j => pc'[i] = pc[i]
    OBVIOUS
<1>2. \A i \in Jobs : Holds(i)' <=> Holds(i)
    BY <1>1 DEF Holds, HoldStages, ImportStages, TrainStages
<1>3. held[j] = None
    BY DEF ControlFromTraining
<1>4. ControlOwned'
  <2> SUFFICES ASSUME NEW i \in Jobs PROVE OwnControl(i)'
      BY DEF ControlOwned
  <2>1. CASE i # j
      BY <2>1, <1>1, <1>2 DEF ControlOwned, OwnControl, Promoted
  <2>2. CASE i = j
      BY <2>2, <1>1, <1>3, <1>2 DEF ControlOwned, OwnControl, Holds, HoldStages, ImportStages,
         TrainStages
  <2> QED
      BY <2>1, <2>2
<1>5. FinishedOver'
    BY <1>1 DEF FinishedOver, Promoted
<1>6. TokenOwned' /\ OpOwned' /\ AbortedFinished'
    BY <1>2 DEF TokenOwned, OpOwned, AbortedFinished, Reading
<1> QED
    BY <1>4, <1>5, <1>6

(* A job leaves with the gate cleared behind it. *)
LEMMA LeaveClean ==
    ASSUME TaskAssumption, SoundInv, GateInv', NEW j \in Jobs, Holds(j),
           NEW stage \in {"freed", "done"}, pc' = [pc EXCEPT ![j] = stage],
           ClearGate, control' = None, held' = held,
           finished' \subseteq finished \cup {Promoted(j)},
           finished \subseteq finished',
           UNCHANGED <<reader, stop, target>>
    PROVE  SoundInv'
<1> USE DEF SoundInv, GateInv, PcOK, ClearGate
<1>1. pc'[j] = stage /\ \A i \in Jobs : i # j => pc'[i] = pc[i]
    OBVIOUS
<1>2. \A i \in Jobs : ~Holds(i)'
    BY <1>1, InsideFacts DEF Holds, HoldStages, ImportStages, TrainStages
<1>3. ControlOwned'
    BY <1>1, <1>2 DEF ControlOwned, OwnControl, Promoted, Holds, HoldStages
<1>4. FinishedOver'
    BY <1>1 DEF FinishedOver, Promoted
<1>5. TokenOwned' /\ OpOwned' /\ AbortedFinished'
    BY DEF TokenOwned, OpOwned, AbortedFinished, Reading
<1> QED
    BY <1>3, <1>4, <1>5

LEMMA SoundStep ==
    ASSUME GateHypotheses, SoundInv, [Next]_vars PROVE SoundInv'
<1> USE TaskAssumption
<1>0. GateInv'
    BY GateStep DEF SoundInv
<1> USE <1>0
<1>1. ASSUME NEW j \in Jobs,
             Receive(j) \/ NoSavedModel(j) \/ ConfigCheck(j) \/ ConfigSet(j) \/ Conflict(j)
      PROVE  SoundInv'
  <2>1. /\ pc[j] \in {"new", "gate", "config", "configSet"}
        /\ \E stage \in {"gate", "config", "configSet", "refused", "done"} :
               pc' = [pc EXCEPT ![j] = stage]
        /\ UNCHANGED <<op, gateVars, held, finished, reader, stop, target>>
      BY <1>1 DEF Receive, NoSavedModel, ConfigCheck, ConfigSet, Conflict, Goto, ctlVars, envVars
  <2> QED
      BY <2>1, MoveOutside
<1>2. ASSUME NEW j \in Jobs, Acquire(j) PROVE SoundInv'
  <2> USE DEF SoundInv, GateInv, PcOK
  <2>1. \A i \in Jobs : ~Holds(i)
      BY <1>2, EntryMeansEmpty DEF Acquire
  <2>2. token = None /\ running = FALSE /\ control = None /\ held[j] = None
      BY <1>2, <2>1 DEF TokenOwned, Acquire, ControlFromTraining
  <2>3. /\ token' = j /\ pc'[j] = "begun" /\ \A i \in Jobs : i # j => pc'[i] = pc[i]
        /\ UNCHANGED <<running, control, held, finished, reader, stop, target>>
      BY <1>2 DEF Acquire, Goto, ctlVars, envVars
  <2>4. Holds(j)' /\ \A i \in Jobs : i # j => ~Holds(i)'
      BY <2>1, <2>3 DEF Holds, HoldStages, ImportStages
  <2>5. ControlOwned'
      BY <2>2, <2>3, <2>4 DEF ControlOwned, OwnControl, Promoted, Holds, HoldStages,
         ImportStages, TrainStages
  <2>6. FinishedOver'
      BY <1>2, <2>3 DEF FinishedOver, Promoted, Acquire
  <2>7. TokenOwned' /\ OpOwned' /\ AbortedFinished'
      BY <2>3, <2>4 DEF TaskAssumption, TokenOwned, OpOwned, AbortedFinished, Reading
  <2> QED
      BY <2>5, <2>6, <2>7
<1>3. ASSUME NEW j \in Jobs,
             \/ Reserve(j) \/ ModelBegin(j) \/ DownloadOk(j) \/ DownloadFails(j)
             \/ StartDecrypt(j) \/ WorkOk(j) \/ WorkFails(j) \/ ReportLanded(j)
             \/ BeginAudit(j) \/ Check(j)
      PROVE  SoundInv'
  <2> DEFINE later == ImportStages \cup {"release", "fail"}
  <2>1. /\ pc[j] \in ImportStages
        /\ \E stage \in later : pc' = [pc EXCEPT ![j] = stage]
      BY <1>3 DEF Reserve, ModelBegin, DownloadOk, DownloadFails, StartDecrypt, WorkOk,
         WorkFails, ReportLanded, BeginAudit, Check, Goto, ImportStages
  <2>2. UNCHANGED <<gateVars, held, finished, reader, stop, target>>
      BY <1>3 DEF Reserve, ModelBegin, DownloadOk, DownloadFails, StartDecrypt, WorkOk,
         WorkFails, ReportLanded, BeginAudit, Check, ctlVars, envVars
  <2>3. held[j] = None /\ Holds(j)
      BY <2>1 DEF SoundInv, GateInv, ControlFromTraining, Holds, HoldStages
  <2>4. later \subseteq HoldStages /\ later \cap TrainStages = {}
      BY DEF HoldStages, ImportStages, TrainStages
  <2> QED
      BY <2>1, <2>2, <2>3, <2>4, MoveInside
<1>4. ASSUME NEW j \in Jobs, Promote(j) PROVE SoundInv'
  <2> USE DEF SoundInv, GateInv, PcOK
  <2>1. Holds(j) /\ pc[j] \in ImportStages /\ control = None /\ running = FALSE /\ held[j] = None
      BY <1>4 DEF Promote, ControlOwned, OwnControl, Holds, HoldStages, ImportStages,
         ControlFromTraining
  <2>2. token = j /\ activeJob = j /\ j # None /\ \A i \in Jobs : Holds(i) => i = j
      BY <2>1, InsideFacts DEF TaskAssumption
  <2>3. /\ running' = TRUE /\ control' = Promoted(j) /\ activeType' = "training"
        /\ UNCHANGED <<activeId, token, activeJob, held, finished, reader, stop, target>>
      BY <1>4, <2>1, <2>2 DEF Promote, Promoted, ctlVars, envVars
  <2>4. pc'[j] \in {"ensure", "fail"} /\ \A i \in Jobs : i # j => pc'[i] = pc[i]
      BY <1>4, <2>1 DEF Promote, Goto
  <2>5. Holds(j)' /\ \A i \in Jobs : i # j => ~Holds(i)'
      BY <2>2, <2>4 DEF Holds, HoldStages, TrainStages
  <2>6. ControlOwned'
      BY <2>1, <2>3, <2>4, <2>5 DEF ControlOwned, OwnControl, Promoted, Holds, HoldStages,
         ImportStages, TrainStages
  <2>7. FinishedOver'
      BY <2>1, <2>3, <2>4, InsideFacts DEF FinishedOver, Promoted
  <2>8. TokenOwned' /\ OpOwned' /\ AbortedFinished'
      BY <2>2, <2>3, <2>5 DEF TaskAssumption, TokenOwned, OpOwned, AbortedFinished, Reading
  <2> QED
      BY <2>6, <2>7, <2>8
<1>5. ASSUME NEW j \in Jobs, Ensure(j) PROVE SoundInv'
  <2> USE DEF SoundInv, GateInv, PcOK
  <2>1. Holds(j) /\ control = Promoted(j) /\ control # None /\ running = TRUE
      BY <1>5 DEF Ensure, ControlOwned, OwnControl, Holds, HoldStages, TrainStages,
         TaskAssumption, Promoted
  <2>2. token = j /\ activeJob = j /\ j # None /\ \A i \in Jobs : Holds(i) => i = j
      BY <2>1, InsideFacts DEF TaskAssumption
  <2>3. /\ running' = TRUE /\ control' = Promoted(j) /\ activeType' = "training"
        /\ UNCHANGED <<token, activeJob, finished, reader, stop, target>>
      BY <1>5, <2>1, <2>2 DEF Ensure, envVars
  <2>4. /\ pc'[j] = "ensured" /\ held'[j] = Promoted(j)
        /\ \A i \in Jobs : i # j => pc'[i] = pc[i] /\ held'[i] = held[i]
      BY <1>5, <2>3 DEF Ensure, Goto
  <2>5. Holds(j)' /\ \A i \in Jobs : i # j => ~Holds(i)'
      BY <2>2, <2>4 DEF Holds, HoldStages, TrainStages
  <2>6. ControlOwned'
      BY <2>1, <2>3, <2>4, <2>5 DEF ControlOwned, OwnControl, Promoted, Holds, HoldStages,
         ImportStages, TrainStages
  <2>7. FinishedOver'
      BY <2>1, <2>3, <2>4, InsideFacts DEF FinishedOver, Promoted
  <2>8. TokenOwned' /\ OpOwned' /\ AbortedFinished'
      BY <2>2, <2>3, <2>5 DEF TaskAssumption, TokenOwned, OpOwned, AbortedFinished, Reading
  <2> QED
      BY <2>6, <2>7, <2>8
<1>6. ASSUME NEW j \in Jobs,
             \/ StageOk(j) \/ StageFails(j) \/ StageCancelled(j) \/ ReportLost(j)
             \/ SendReport(j) \/ Fail(j)
      PROVE  SoundInv'
  <2> DEFINE later == {"staging", "run", "collect", "report", "send", "fail", "finish"}
  <2>1. DOMAIN NextTrainStage = {"ensured", "staging", "run", "collect", "report"}
      BY DEF NextTrainStage
  <2>2. \A st \in DOMAIN NextTrainStage : NextTrainStage[st] \in later
      BY DEF NextTrainStage
  <2>3. UNCHANGED <<gateVars, held, finished, reader, stop, target>>
      BY <1>6 DEF StageOk, StageFails, StageCancelled, ReportLost, SendReport, Fail, ctlVars,
         envVars
  <2>4. Holds(j) /\ pc[j] \notin ImportStages
      BY <1>6, <2>1 DEF StageOk, StageFails, StageCancelled, ReportLost, SendReport, Fail,
         Training, Holds, HoldStages, ImportStages, TrainStages
  <2>5. CASE Fail(j)
    <3>1. CASE held[j] = None
      <4>1. pc' = [pc EXCEPT ![j] = "release"]
          BY <2>5, <3>1 DEF Fail, AfterFailure, Goto
      <4> QED
          BY <2>3, <2>4, <3>1, <4>1, MoveInside DEF HoldStages, ImportStages, TrainStages
    <3>2. CASE held[j] # None
      <4>1. pc' = [pc EXCEPT ![j] = "finish"]
          BY <2>5, <3>2 DEF Fail, AfterFailure, Goto
      <4> QED
          BY <2>3, <2>4, <3>2, <4>1, MoveInside DEF HoldStages, ImportStages, TrainStages
    <3> QED
        BY <3>1, <3>2
  <2>6. CASE ~Fail(j)
    <3>1. pc[j] \in TrainStages \ {"ensure"} /\ \E stage \in later : pc' = [pc EXCEPT ![j] = stage]
        BY <1>6, <2>6, <2>1, <2>2 DEF StageOk, StageFails, StageCancelled, ReportLost, SendReport,
           Training, TrainStages, Goto
    <3>2. held[j] # None
        BY <3>1 DEF SoundInv, ControlOwned, OwnControl
    <3>3. later \subseteq HoldStages /\ later \cap (ImportStages \cup {"panicking", "release"}) = {}
        BY DEF HoldStages, ImportStages, TrainStages
    <3> QED
        BY <2>3, <2>4, <3>1, <3>2, <3>3, MoveInside
  <2> QED
      BY <2>5, <2>6
<1>7. ASSUME NEW j \in Jobs, Panic(j) PROVE SoundInv'
  <2>1. pc[j] \in ImportStages /\ held[j] = None /\ Holds(j)
      BY <1>7 DEF Panic, GateHypotheses, SoundInv, GateInv, ControlFromTraining, Holds, HoldStages
  <2>2. /\ pc' = [pc EXCEPT ![j] = "panicking"]
        /\ UNCHANGED <<gateVars, held, finished, reader, stop, target>>
      BY <1>7, <2>1 DEF Panic, Goto, ctlVars, envVars
  <2> QED
      BY <2>1, <2>2, MoveInside DEF HoldStages, ImportStages, TrainStages
<1>8. ASSUME NEW j \in Jobs, Finish(j) PROVE SoundInv'
  <2>1. Holds(j) /\ held[j] = Promoted(j) /\ control = held[j]
      BY <1>8 DEF Finish, SoundInv, ControlOwned, OwnControl, Holds, HoldStages, TrainStages
  <2>2. /\ ClearGate /\ control' = None /\ held' = held
        /\ finished' = finished \cup {Promoted(j)}
        /\ \E stage \in {"freed", "orphan"} : pc' = [pc EXCEPT ![j] = stage]
        /\ UNCHANGED <<reader, stop, target>>
      BY <1>8, <2>1 DEF Finish, After, Goto, envVars
  <2>3. pc' = [pc EXCEPT ![j] = "freed"]
      BY <2>2 DEF SoundInv, GateInv, PanicInside, PcOK
  <2> QED
      BY <2>1, <2>2, <2>3, LeaveClean
<1>9. ASSUME NEW j \in Jobs, Release(j) PROVE SoundInv'
  <2>1. /\ pc' = [pc EXCEPT ![j] = "done"] /\ pc[j] \in {"release", "freed"} /\ held' = held
        /\ UNCHANGED <<reader, stop, target>>
      BY <1>9 DEF Release, Goto, envVars
  <2>2. CASE token = j
    <3>1. Holds(j)
        BY <2>2 DEF SoundInv, TokenOwned, TaskAssumption
    <3>2. control \in {None, Promoted(j)}
        BY <3>1 DEF SoundInv, ControlOwned, OwnControl
    <3>3. ClearGate /\ control' = None /\ finished' = finished \cup ({control} \ {None})
        BY <1>9, <2>2 DEF Release, OwnsToken, Closing
    <3> QED
        BY <2>1, <3>1, <3>2, <3>3, LeaveClean
  <2>3. CASE token # j
    <3> USE DEF SoundInv, GateInv, PcOK
    <3>1. UNCHANGED <<op, gateVars, finished>>
        BY <1>9, <2>3 DEF Release, OwnsToken
    <3>2. pc[j] = "freed"
        BY <2>1, <2>3 DEF GateReflectsJob, Holds, HoldStages
    <3>3. pc'[j] = "done" /\ \A i \in Jobs : i # j => pc'[i] = pc[i]
        BY <2>1
    <3>4. \A i \in Jobs : Holds(i)' <=> Holds(i)
        BY <3>2, <3>3 DEF Holds, HoldStages, ImportStages, TrainStages
    <3>5. ControlOwned'
        BY <2>1, <3>1, <3>2, <3>3, <3>4 DEF ControlOwned, OwnControl, Promoted, gateVars,
           HoldStages, ImportStages, TrainStages
    <3>6. FinishedOver'
        BY <3>1, <3>3 DEF FinishedOver, Promoted
    <3>7. TokenOwned' /\ OpOwned' /\ AbortedFinished'
        BY <2>1, <3>1, <3>4 DEF TokenOwned, OpOwned, AbortedFinished, Reading, gateVars
    <3> QED
        BY <3>5, <3>6, <3>7
  <2> QED
      BY <2>2, <2>3
<1>10. ASSUME NEW j \in Jobs, PanicHandler(j) PROVE SoundInv'
  <2>1. pc[j] = "panicking" /\ Holds(j) /\ control = None
      BY <1>10 DEF PanicHandler, SoundInv, GateInv, PanicInside, ControlOwned, OwnControl, Holds,
         HoldStages
  <2> QED
      BY <1>10, <2>1, LeaveClean DEF PanicHandler, Goto, ctlVars, envVars
<1>11. ASSUME NEW r \in Readers, ReaderStep(r) PROVE SoundInv'
  <2> USE DEF SoundInv
  <2>1. UNCHANGED <<gateVars, held, finished, pc, stop, target>>
      BY <1>11 DEF ReaderStep, Read, ReadFails, ctlVars
  <2>2. OpOwned'
    <3>1. /\ NextRead["new"] = "downloading" /\ NextRead["downloading"] = "decrypting"
          /\ NextRead["decrypting"] = "analyzing" /\ NextRead["analyzing"] = "done"
          /\ DOMAIN NextRead = {"new", "downloading", "decrypting", "analyzing"}
        BY DEF NextRead
    <3> QED
        BY <1>11, <2>1, <3>1 DEF ReaderStep, Read, ReadFails, OpOwned, Reading, gateVars
  <2> QED
      BY <2>1, <2>2 DEF ControlOwned, OwnControl, FinishedOver, TokenOwned, AbortedFinished,
         Holds, Promoted, gateVars
<1>12. ASSUME NEW s \in Stops, StopStep(s) PROVE SoundInv'
  <2> USE DEF SoundInv
  <2>1. UNCHANGED <<op, gateVars, held, finished, pc, reader>>
      BY <1>12 DEF StopStep, StopRead, StopRequest, StopAnswer, StopTimeout, ctlVars
  <2>2. AbortedFinished'
      BY <1>12, <2>1 DEF StopStep, StopRead, StopRequest, StopAnswer, StopTimeout,
         AbortedFinished, GateInv, PcOK
  <2> QED
      BY <2>1, <2>2 DEF ControlOwned, OwnControl, FinishedOver, TokenOwned, OpOwned, Reading,
         Holds, Promoted, gateVars
<1>13. ASSUME NEW p \in Phases, Switch(p) PROVE SoundInv'
  <2> USE DEF SoundInv
  <2>1. \A i \in Jobs : ~Holds(i)
      BY <1>13 DEF Switch, MaySwitch, GateFree, GateInv, GateReflectsJob, GateHypotheses
  <2>2. token = None
      BY <2>1 DEF TokenOwned
  <2>3. UNCHANGED <<op, running, control, held, finished, pc, reader, stop, target>>
        /\ token' = None /\ activeId' = None /\ activeJob' = None
      BY <1>13 DEF Switch, ctlVars
  <2> QED
      BY <2>1, <2>2, <2>3 DEF ControlOwned, OwnControl, FinishedOver, TokenOwned, OpOwned,
         AbortedFinished, Reading, Holds, HoldStages, Promoted
<1>14. CASE AuditEnds \/ UNCHANGED vars
  <2>1. UNCHANGED <<op, gateVars, held, finished, pc, reader, stop, target>>
      BY <1>14 DEF AuditEnds, vars, ctlVars, envVars
  <2> QED
      BY <2>1 DEF SoundInv, ControlOwned, OwnControl, FinishedOver, TokenOwned, OpOwned,
         AbortedFinished, Reading, Holds, Promoted, gateVars
<1> QED
    BY <1>1, <1>2, <1>3, <1>4, <1>5, <1>6, <1>7, <1>8, <1>9, <1>10, <1>11, <1>12, <1>13, <1>14
       DEF Next, JobStep, Handler, Import, Train, Unwind

(* The gate, the training control, the readers and the stops agree on who is
   inside: the invariant the theorems below rest on. *)
THEOREM SoundCorrect == ASSUME GateHypotheses PROVE Spec => []SoundInv
<1>1. Init => SoundInv
    BY SoundInit
<1>2. SoundInv /\ [Next]_vars => SoundInv'
    BY SoundStep
<1> QED
    BY <1>1, <1>2, PTL DEF Spec

(* The gate and the training control always say who is inside, and are clean
   when nobody is: release, finishTrainingControl, the panic handler and the
   phase switch leave no residue, in any interleaving with readers and stops. *)
THEOREM GateSoundCorrect == ASSUME GateHypotheses PROVE Spec => []GateSound
<1>1. SoundInv => GateSound
  <2> SUFFICES ASSUME SoundInv PROVE GateSound
      OBVIOUS
  <2>1. GateReflectsJob
      BY DEF SoundInv, GateInv
  <2>2. TrainingVisible
    <3> SUFFICES ASSUME NEW j \in Jobs, InTraining(j)
                 PROVE  /\ running /\ activeJob = j /\ activeType = "training"
                        /\ control # None /\ control \notin finished
                        /\ pc[j] # "ensure" => control = held[j]
        BY DEF TrainingVisible
    <3>1. Holds(j)
        BY DEF InTraining, Holds, HoldStages
    <3>2. activeJob = j /\ Promoted(j) \notin finished
        BY <3>1, InsideFacts
    <3>3. Promoted(j) # None
        BY TaskAssumption DEF TaskAssumption, Promoted
    <3> QED
        BY <3>2, <3>3 DEF SoundInv, ControlOwned, OwnControl, InTraining
  <2>3. NoStuckGate
    <3> SUFFICES ASSUME \A j \in Jobs : pc[j] \in {"new", "gate", "done", "refused"},
                        \A r \in Readers : reader[r] \in {"new", "done"}
                 PROVE  GateFree /\ control = None /\ activeJob = None /\ token = None
        BY DEF NoStuckGate
    <3>1. token = None
        BY DEF SoundInv, TokenOwned, Holds, HoldStages, ImportStages, TrainStages
    <3>2. op = "idle"
        BY <3>1 DEF SoundInv, OpOwned, Reading
    <3> QED
        BY <3>1, <3>2 DEF SoundInv, TokenOwned, GateFree, TrainingBusy
  <2> QED
      BY <2>1, <2>2, <2>3 DEF GateSound
<1> QED
    BY <1>1, SoundCorrect, PTL

(* stopTraining answers "aborted" only when the job it cancelled is out of the
   gate for good. *)
THEOREM StopCorrect == ASSUME GateHypotheses PROVE Spec => []StopMeansStopped
<1>1. SoundInv => StopMeansStopped
  <2> SUFFICES ASSUME SoundInv, NEW s \in Stops, NEW j \in Jobs,
                      stop[s] = "aborted", held[j] = target[s]
               PROVE  ~Holds(j)
      BY DEF StopMeansStopped
  <2>1. PICK i \in Jobs : held[j] = Promoted(i) /\ pc[i] \in {"freed", "done"}
      BY DEF SoundInv, AbortedFinished, FinishedOver
  <2>2. i = j
      BY <2>1, TaskAssumption DEF TaskAssumption, SoundInv, ControlOwned, OwnControl, Promoted
  <2> QED
      BY <2>1, <2>2 DEF Holds, HoldStages, ImportStages, TrainStages
<1> QED
    BY <1>1, SoundCorrect, PTL

(* A training never runs while a model package is being replaced. *)
THEOREM ModelSettledCorrect == ASSUME GateHypotheses PROVE Spec => []ModelSettledForTraining
<1>1. GateInv => ModelSettledForTraining
    BY DEF GateInv, GateReflectsJob, ModelSettledForTraining, Transferring, Holds, HoldStages,
       ImportStages, TrainStages
<1> QED
    BY <1>1, GateCorrect, PTL
-----------------------------------------------------------------------------
(***************************************************************************)
(* One terminal report per accepted job.  A panic in the one stage after   *)
(* the success of a model import is queued would add a failure to it, so   *)
(* that stage is left out of the panics here.                              *)
(***************************************************************************)
ReportHypotheses == GateHypotheses /\ "audit" \notin PanicStages

ReportsOf(j) == {r \in reports : r[1] = j}

(* Exactly one report was queued, and nothing is recorded as silent. *)
Told(j) == silent[j] = "no" /\ \E code \in {0, 1, 2} : ReportsOf(j) = {<<j, code>>}
Untold(j) == ReportsOf(j) = {} /\ silent[j] = "no"

(* How each stage stands with the platform. *)
OutcomeOf(j) ==
    /\ pc[j] \in Stages \ {"audit", "release", "finish", "freed", "done", "orphan"} => Untold(j)
    /\ pc[j] \in {"new", "gate", "config", "configSet", "begun", "download"} => answer[j] = "none"
    /\ pc[j] = "audit" => Told(j)
    /\ pc[j] \in {"release", "finish", "freed", "done"} =>
          \/ Told(j)
          \/ ReportsOf(j) = {} /\ (silent[j] # "no" \/ answer[j] # "accepted")
    /\ j \in panicked /\ pc[j] \in {"freed", "done"} => <<j, 1>> \in reports

OutcomeInv ==
    /\ GateInv
    /\ answer \in [Jobs -> {"none", "accepted", "error", "conflict"}]
    /\ silent \in [Jobs -> Reasons]
    /\ \A j \in Jobs : OutcomeOf(j)

LEMMA OutcomeInit == Init => OutcomeInv
<1> SUFFICES ASSUME Init PROVE OutcomeInv
    OBVIOUS
<1>1. GateInv
    BY GateInit
<1>2. /\ answer \in [Jobs -> {"none", "accepted", "error", "conflict"}]
      /\ silent \in [Jobs -> Reasons]
    BY DEF Init, Reasons
<1>3. ASSUME NEW j \in Jobs PROVE OutcomeOf(j)
    BY <1>3 DEF Init, OutcomeOf, Untold, ReportsOf
<1> QED
    BY <1>1, <1>2, <1>3 DEF OutcomeInv

(* A job's step changes nobody else's standing. *)
LEMMA OutcomeOthers ==
    ASSUME OutcomeInv, NEW j \in Jobs, NEW i \in Jobs, i # j,
           \E stage : pc' = [pc EXCEPT ![j] = stage],
           reports' = reports \/ \E code : reports' = reports \cup {<<j, code>>},
           \E why : silent' = [silent EXCEPT ![j] = why],
           \E a : answer' = [answer EXCEPT ![j] = a],
           panicked' \subseteq panicked \cup {j}
    PROVE  OutcomeOf(i)'
<1> USE DEF OutcomeInv, GateInv, PcOK
<1>1. pc'[i] = pc[i] /\ silent'[i] = silent[i] /\ answer'[i] = answer[i]
    OBVIOUS
<1>2. ReportsOf(i)' = ReportsOf(i) /\ (<<i, 1>> \in reports => <<i, 1>> \in reports')
    BY DEF ReportsOf
<1>3. i \in panicked' => i \in panicked
    OBVIOUS
<1>4. OutcomeOf(i)
    OBVIOUS
<1> QED
    BY <1>1, <1>2, <1>3, <1>4 DEF OutcomeOf, Told, Untold

(* What a job's own step has to show. *)
LEMMA OutcomeMove ==
    ASSUME OutcomeInv, GateInv', NEW j \in Jobs, NEW stage, NEW why \in Reasons,
           NEW a \in {"none", "accepted", "error", "conflict"},
           pc' = [pc EXCEPT ![j] = stage],
           reports' = reports \/ \E code : reports' = reports \cup {<<j, code>>},
           silent' = [silent EXCEPT ![j] = why],
           answer' = [answer EXCEPT ![j] = a],
           panicked' \subseteq panicked \cup {j},
           OutcomeOf(j)'
    PROVE  OutcomeInv'
<1>1. ASSUME NEW i \in Jobs, i # j PROVE OutcomeOf(i)'
    BY <1>1, OutcomeOthers
<1>2. silent' \in [Jobs -> Reasons]
      /\ answer' \in [Jobs -> {"none", "accepted", "error", "conflict"}]
    BY DEF OutcomeInv
<1> QED
    BY <1>1, <1>2 DEF OutcomeInv

(* The same, for the steps that only move from stage to stage. *)
LEMMA OutcomeQuiet ==
    ASSUME OutcomeInv, GateInv', NEW j \in Jobs, NEW stage \in Stages,
           pc' = [pc EXCEPT ![j] = stage],
           UNCHANGED <<reports, silent, answer, panicked>>,
           OutcomeOf(j)'
    PROVE  OutcomeInv'
<1>1. /\ silent' = [silent EXCEPT ![j] = silent[j]] /\ silent[j] \in Reasons
      /\ answer' = [answer EXCEPT ![j] = answer[j]]
      /\ answer[j] \in {"none", "accepted", "error", "conflict"}
    BY DEF OutcomeInv
<1> QED
    BY <1>1, OutcomeMove

(* The set of a job's reports after one more is queued about it. *)
LEMMA ReportAdded ==
    ASSUME NEW j \in Jobs, NEW code, reports' = reports \cup {<<j, code>>}
    PROVE  ReportsOf(j)' = ReportsOf(j) \cup {<<j, code>>}
BY DEF ReportsOf

LEMMA OutcomeStep ==
    ASSUME ReportHypotheses, OutcomeInv, [Next]_vars PROVE OutcomeInv'
<1> USE TaskAssumption
<1>0. GateInv'
    BY GateStep DEF OutcomeInv, ReportHypotheses
<1> USE <1>0
<1>a. reports' = reports => \A j \in Jobs : ReportsOf(j)' = ReportsOf(j)
    BY DEF ReportsOf
<1>b. pc \in [Jobs -> Stages] /\ \A j \in Jobs : OutcomeOf(j)
    BY DEF OutcomeInv, GateInv, PcOK
<1>c. \A j \in Jobs : \A st \in Stages : [pc EXCEPT ![j] = st][j] = st
    BY <1>b
<1>1. ASSUME NEW j \in Jobs,
             \/ Receive(j) \/ Acquire(j) \/ ModelBegin(j) \/ StartDecrypt(j) \/ WorkOk(j)
             \/ WorkFails(j) \/ BeginAudit(j) \/ Promote(j)
      PROVE  OutcomeInv'
  <2>1. UNCHANGED <<reports, silent, answer, panicked>>
      BY <1>1 DEF Receive, Acquire, ModelBegin, StartDecrypt, WorkOk, WorkFails, BeginAudit,
         Promote, outVars
  <2>2. PICK stage \in Stages : pc' = [pc EXCEPT ![j] = stage]
      BY <1>1 DEF Receive, Acquire, ModelBegin, StartDecrypt, WorkOk, WorkFails, BeginAudit,
         Promote, Goto, Stages, HoldStages, ImportStages, TrainStages
  <2>3. \/ pc[j] = "new" /\ pc'[j] \in {"gate", "config"}
        \/ pc[j] = "gate" /\ pc'[j] = "begun"
        \/ pc[j] = "begun" /\ pc'[j] = "download"
        \/ pc[j] \in {"decrypt", "work", "promote"}
           /\ pc'[j] \in {"work", "landed", "check", "fail", "ensure"}
        \/ pc[j] = "audit" /\ pc'[j] = "release"
      BY <1>1, <1>b DEF Receive, Acquire, ModelBegin, StartDecrypt, WorkOk, WorkFails, BeginAudit,
         Promote, Goto
  <2>4. OutcomeOf(j)'
      BY <2>1, <2>3, <1>a, <1>b DEF OutcomeOf, Told, Untold, Stages, HoldStages, ImportStages,
         TrainStages
  <2> QED
      BY <2>1, <2>2, <2>4, OutcomeQuiet
<1>2. ASSUME NEW j \in Jobs,
             \/ StageOk(j) \/ StageFails(j)
      PROVE  OutcomeInv'
  <2> DEFINE before == {"ensured", "staging", "run", "collect", "report"}
             later == {"staging", "run", "collect", "report", "send", "fail"}
  <2>1. UNCHANGED <<reports, silent, answer, panicked>>
      BY <1>2 DEF StageOk, StageFails, outVars
  <2>a. DOMAIN NextTrainStage = before
      BY DEF NextTrainStage
  <2>b. \A st \in DOMAIN NextTrainStage : NextTrainStage[st] \in later
      BY DEF NextTrainStage
  <2>2. pc[j] \in before /\ \E stage \in later : pc' = [pc EXCEPT ![j] = stage]
      BY <1>2, <2>a, <2>b DEF StageOk, StageFails, Training, Goto
  <2>3. later \subseteq Stages
      BY DEF Stages, HoldStages, TrainStages
  <2>4. OutcomeOf(j)'
      BY <2>1, <2>2, <2>3, <1>a, <1>b DEF OutcomeOf, Told, Untold, Stages, HoldStages, TrainStages
  <2> QED
      BY <2>1, <2>2, <2>3, <2>4, OutcomeQuiet
<1>3. ASSUME NEW j \in Jobs,
             \/ NoSavedModel(j) \/ ConfigCheck(j) \/ ConfigSet(j) \/ Conflict(j)
             \/ Reserve(j) \/ DownloadOk(j) \/ DownloadFails(j)
      PROVE  OutcomeInv'
  <2>1. UNCHANGED <<reports, silent, panicked>>
      BY <1>3 DEF NoSavedModel, ConfigCheck, ConfigSet, Conflict, Reserve, DownloadOk,
         DownloadFails, outVars
  <2>2. pc[j] \in {"new", "config", "configSet", "gate", "begun", "download"}
        /\ Untold(j) /\ answer[j] = "none"
      BY <1>3, <1>b DEF NoSavedModel, ConfigCheck, ConfigSet, Conflict, Reserve, DownloadOk,
         DownloadFails, OutcomeOf, Stages, HoldStages, ImportStages
  <2>3. PICK stage, a : /\ pc' = [pc EXCEPT ![j] = stage]
                        /\ answer' = [answer EXCEPT ![j] = a]
                        /\ \/ stage \in {"refused", "release"} /\ a \in {"conflict", "error"}
                           \/ stage \in {"configSet", "done"} /\ a = "none"
                           \/ stage = "download" /\ a = "none"
                           \/ stage = "decrypt" /\ a = "accepted"
    <3>1. answer = [answer EXCEPT ![j] = "none"]
        BY <2>2 DEF OutcomeInv
    <3>2. CASE NoSavedModel(j) \/ ConfigCheck(j) \/ ConfigSet(j) \/ Conflict(j)
        BY <3>1, <3>2 DEF NoSavedModel, ConfigCheck, ConfigSet, Conflict, Goto, Answer, outVars
    <3>3. CASE Reserve(j)
        BY <3>1, <3>3 DEF Reserve, Goto, Answer
    <3>4. CASE DownloadOk(j)
        BY <3>4 DEF DownloadOk, Goto, Answer
    <3>5. CASE DownloadFails(j)
        BY <3>5 DEF DownloadFails, Goto, Answer
    <3> QED
        BY <1>3, <3>2, <3>3, <3>4, <3>5
  <2>4. /\ pc'[j] = stage /\ answer'[j] = a
        /\ a \in {"none", "accepted", "error", "conflict"}
      BY <2>3, <1>b DEF OutcomeInv
  <2>5. silent' = [silent EXCEPT ![j] = "no"] /\ "no" \in Reasons
      BY <2>1, <2>2 DEF Untold, OutcomeInv, Reasons
  <2>6. j \notin panicked
      BY <2>2 DEF OutcomeInv, GateInv, PanicInside
  <2>7. OutcomeOf(j)'
      BY <2>1, <2>2, <2>3, <2>4, <2>5, <2>6, <1>a DEF OutcomeOf, Untold
  <2> QED
      BY <2>1, <2>3, <2>4, <2>5, <2>7, OutcomeMove
<1>4. ASSUME NEW j \in Jobs, Check(j) \/ StageCancelled(j) \/ ReportLost(j)
      PROVE  OutcomeInv'
  <2>1. UNCHANGED <<reports, answer, panicked>>
      BY <1>4 DEF Check, StageCancelled, ReportLost
  <2>2. pc[j] \in {"check", "ensured", "staging", "run", "collect", "report"} /\ Untold(j)
    <3>1. DOMAIN NextTrainStage = {"ensured", "staging", "run", "collect", "report"}
        BY DEF NextTrainStage
    <3>2. pc[j] \in {"check", "ensured", "staging", "run", "collect", "report"}
        BY <1>4, <3>1 DEF Check, StageCancelled, ReportLost, Training
    <3> QED
        BY <3>2, <1>b DEF OutcomeOf, Stages, HoldStages, ImportStages, TrainStages
  <2>3. PICK stage, why : /\ pc' = [pc EXCEPT ![j] = stage]
                          /\ silent' = [silent EXCEPT ![j] = why]
                          /\ \/ stage \in {"release", "finish"} /\ why \in Reasons \ {"no"}
                             \/ stage \in {"fail", "promote"} /\ why = "no"
    <3>1. silent = [silent EXCEPT ![j] = "no"]
        BY <2>2 DEF OutcomeInv, Untold
    <3>2. Holdback \in Reasons
        BY DEF Holdback, Reasons
    <3>3. CASE Check(j)
        BY <3>1, <3>2, <3>3 DEF Check, Goto, Silent
    <3>4. CASE StageCancelled(j) \/ ReportLost(j)
        BY <3>4 DEF StageCancelled, ReportLost, Goto, Silent, Reasons
    <3> QED
        BY <1>4, <3>3, <3>4
  <2>4. pc'[j] = stage /\ silent'[j] = why /\ why \in Reasons
      BY <2>3, <1>b DEF OutcomeInv, Reasons
  <2>5. /\ answer' = [answer EXCEPT ![j] = answer[j]]
        /\ answer[j] \in {"none", "accepted", "error", "conflict"}
      BY <2>1 DEF OutcomeInv
  <2>6. j \notin panicked
      BY <2>2 DEF OutcomeInv, GateInv, PanicInside
  <2>7. OutcomeOf(j)'
      BY <2>1, <2>2, <2>3, <2>4, <2>6, <1>a DEF OutcomeOf, Untold
  <2> QED
      BY <2>1, <2>3, <2>4, <2>5, <2>7, OutcomeMove
<1>5. ASSUME NEW j \in Jobs, ReportLanded(j) \/ SendReport(j) \/ Fail(j)
      PROVE  OutcomeInv'
  <2>1. UNCHANGED <<answer, panicked>>
      BY <1>5 DEF ReportLanded, SendReport, Fail
  <2>2. pc[j] \in {"landed", "send", "fail"} /\ Untold(j)
      BY <1>5, <1>b DEF ReportLanded, SendReport, Fail, OutcomeOf, Stages, HoldStages, ImportStages,
         TrainStages
  <2>3. PICK stage \in {"audit", "finish", "release"} : pc' = [pc EXCEPT ![j] = stage]
      BY <1>5 DEF ReportLanded, SendReport, Fail, AfterFailure, Goto
  <2>4. pc'[j] = stage
      BY <2>3, <1>b
  <2>5. /\ answer' = [answer EXCEPT ![j] = answer[j]]
        /\ answer[j] \in {"none", "accepted", "error", "conflict"}
      BY <2>1 DEF OutcomeInv
  <2>6. j \notin panicked
      BY <2>2 DEF OutcomeInv, GateInv, PanicInside
  <2>7. CASE \E code \in {0, 1, 2} : reports' = reports \cup {<<j, code>>} /\ silent' = silent
    <3>1. Told(j)'
        BY <2>2, <2>7, ReportAdded DEF Told, Untold
    <3>2. OutcomeOf(j)'
        BY <2>1, <2>4, <2>6, <3>1 DEF OutcomeOf
    <3>3. silent' = [silent EXCEPT ![j] = silent[j]] /\ silent[j] \in Reasons
        BY <2>7 DEF OutcomeInv
    <3> QED
        BY <2>1, <2>3, <2>5, <2>7, <3>2, <3>3, OutcomeMove
  <2>8. CASE /\ Fail(j) /\ reports' = reports
             /\ silent' = [silent EXCEPT ![j] = "no report"]
    <3>1. stage \in {"finish", "release"}
        BY <2>8, <2>3, <2>4, <1>c DEF Fail, AfterFailure, Goto, Stages, HoldStages, TrainStages
    <3>2. silent'[j] = "no report" /\ "no report" \in Reasons
        BY <2>8 DEF OutcomeInv, Reasons
    <3>3. ReportsOf(j)' = {}
        BY <2>2, <2>8, <1>a DEF Untold
    <3>4. OutcomeOf(j)'
        BY <2>1, <2>4, <2>6, <3>1, <3>2, <3>3 DEF OutcomeOf
    <3> QED
        BY <2>1, <2>3, <2>5, <2>8, <3>2, <3>4, OutcomeMove
  <2> QED
      BY <1>5, <2>7, <2>8 DEF ReportLanded, SendReport, Fail, Silent
<1>6. ASSUME NEW j \in Jobs, Finish(j) \/ Release(j) PROVE OutcomeInv'
  <2>1. UNCHANGED <<reports, silent, answer, panicked>>
      BY <1>6 DEF Finish, Release, outVars
  <2>2. /\ pc[j] \in {"finish", "release", "freed"}
        /\ \E stage \in {"freed", "orphan", "done"} : pc' = [pc EXCEPT ![j] = stage]
      BY <1>6 DEF Finish, Release, After, Goto
  <2>3. PICK stage \in {"freed", "done"} : pc' = [pc EXCEPT ![j] = stage]
      BY <2>2, <1>b DEF GateInv, PanicInside
  <2>4. j \in panicked => pc[j] = "freed"
      BY <2>2 DEF OutcomeInv, GateInv, PanicInside
  <2>5. pc'[j] = stage /\ stage \in Stages
      BY <2>3, <1>b DEF Stages
  <2>6. OutcomeOf(j)'
      BY <2>1, <2>2, <2>4, <2>5, <1>a, <1>b DEF OutcomeOf, Told
  <2> QED
      BY <2>1, <2>3, <2>5, <2>6, OutcomeQuiet
<1>7. ASSUME NEW j \in Jobs, Ensure(j) PROVE OutcomeInv'
  <2>1. UNCHANGED <<reports, silent, answer, panicked>> /\ pc[j] = "ensure"
        /\ pc' = [pc EXCEPT ![j] = "ensured"] /\ "ensured" \in Stages
      BY <1>7 DEF Ensure, outVars, Goto, Stages, HoldStages, TrainStages
  <2>2. OutcomeOf(j)'
      BY <2>1, <1>a, <1>b DEF OutcomeOf, Untold, Stages, HoldStages, TrainStages
  <2> QED
      BY <2>1, <2>2, OutcomeQuiet
<1>8. ASSUME NEW j \in Jobs, Panic(j) PROVE OutcomeInv'
  <2>1. /\ pc[j] \in ImportStages \ {"audit", "begun", "download"} /\ held[j] = None
        /\ UNCHANGED <<reports, silent, answer>> /\ panicked' = panicked \cup {j}
      BY <1>8 DEF Panic, ReportHypotheses, GateHypotheses, OutcomeInv, GateInv, ControlFromTraining
  <2>2. pc' = [pc EXCEPT ![j] = "panicking"] /\ pc'[j] = "panicking"
      BY <1>8, <2>1, <1>b DEF Panic, Goto
  <2>3. Untold(j)
      BY <2>1, <1>b DEF OutcomeOf, Stages, HoldStages, ImportStages
  <2>4. OutcomeOf(j)'
      BY <2>1, <2>2, <2>3, <1>a DEF OutcomeOf, Untold
  <2>5. /\ silent' = [silent EXCEPT ![j] = silent[j]] /\ silent[j] \in Reasons
        /\ answer' = [answer EXCEPT ![j] = answer[j]]
        /\ answer[j] \in {"none", "accepted", "error", "conflict"}
      BY <2>1 DEF OutcomeInv
  <2> QED
      BY <2>1, <2>2, <2>4, <2>5, OutcomeMove
<1>9. ASSUME NEW j \in Jobs, PanicHandler(j) PROVE OutcomeInv'
  <2>1. pc[j] = "panicking" /\ Holds(j) /\ Untold(j)
      BY <1>9, <1>b DEF PanicHandler, OutcomeInv, GateInv, PanicInside, Holds, HoldStages, OutcomeOf,
         Stages
  <2>2. activeJob = j /\ j # None
      BY <2>1 DEF OutcomeInv, GateInv, GateReflectsJob, TaskAssumption
  <2>3. /\ reports' = reports \cup {<<j, 1>>} /\ UNCHANGED <<silent, answer, panicked>>
        /\ pc' = [pc EXCEPT ![j] = "freed"] /\ pc'[j] = "freed"
      BY <1>9, <2>2, <1>b DEF PanicHandler, Goto
  <2>4. Told(j)'
      BY <2>1, <2>3, ReportAdded DEF Told, Untold
  <2>5. OutcomeOf(j)'
      BY <2>3, <2>4 DEF OutcomeOf
  <2>6. /\ silent' = [silent EXCEPT ![j] = silent[j]] /\ silent[j] \in Reasons
        /\ answer' = [answer EXCEPT ![j] = answer[j]]
        /\ answer[j] \in {"none", "accepted", "error", "conflict"}
      BY <2>3 DEF OutcomeInv
  <2> QED
      BY <2>3, <2>5, <2>6, OutcomeMove
<1>10. CASE \/ \E r \in Readers : ReaderStep(r)
            \/ \E s \in Stops : StopStep(s)
            \/ \E p \in Phases : Switch(p)
            \/ AuditEnds
            \/ UNCHANGED vars
  <2>1. UNCHANGED <<pc, reports, silent, answer, panicked>>
      BY <1>10 DEF ReaderStep, Read, ReadFails, StopStep, StopRead, StopRequest, StopAnswer,
             StopTimeout, Switch, AuditEnds, vars, outVars
  <2>2. \A j \in Jobs : OutcomeOf(j)'
      BY <2>1, <1>a, <1>b DEF OutcomeOf, Told, Untold
  <2> QED
      BY <2>1, <2>2 DEF OutcomeInv
<1> QED
    BY <1>1, <1>2, <1>3, <1>4, <1>5, <1>6, <1>7, <1>8, <1>9, <1>10
       DEF Next, JobStep, Handler, Import, Train, Unwind

(* Every accepted job ends with exactly one terminal report or with none for a
   recorded reason, never with two, and a panicked job with its failure. *)
THEOREM OutcomesCorrect == ASSUME ReportHypotheses PROVE Spec => []OutcomesReported
<1>1. Init => OutcomeInv
    BY OutcomeInit
<1>2. OutcomeInv /\ [Next]_vars => OutcomeInv'
    BY OutcomeStep
<1>3. OutcomeInv => OutcomesReported
  <2> SUFFICES ASSUME OutcomeInv PROVE OutcomesReported
      OBVIOUS
  <2>1. ASSUME NEW j \in Jobs
        PROVE  /\ Cardinality(ReportsOf(j)) <= 1
               /\ pc[j] = "done" /\ answer[j] = "accepted" =>
                     IF silent[j] = "no" THEN Cardinality(ReportsOf(j)) = 1
                                         ELSE Cardinality(ReportsOf(j)) = 0
    <3>1. OutcomeOf(j) /\ pc[j] \in Stages /\ pc[j] # "orphan"
        BY DEF OutcomeInv, GateInv, PcOK, PanicInside
    <3>2. \/ Told(j)
          \/ ReportsOf(j) = {} /\ (pc[j] = "done" => silent[j] # "no" \/ answer[j] # "accepted")
        BY <3>1 DEF OutcomeOf, Untold
    <3>3. ReportsOf(j) = {} => Cardinality(ReportsOf(j)) = 0
        BY FS_EmptySet
    <3>4. Told(j) => Cardinality(ReportsOf(j)) = 1 /\ silent[j] = "no"
        BY FS_Singleton DEF Told
    <3> QED
        BY <3>2, <3>3, <3>4
  <2>2. OutcomeAccounted
      BY <2>1 DEF OutcomeAccounted, ReportsOf
  <2>3. PanicReported
      BY DEF OutcomeInv, OutcomeOf, PanicReported
  <2> QED
      BY <2>2, <2>3 DEF OutcomesReported
<1> QED
    BY <1>1, <1>2, <1>3, PTL DEF Spec
=============================================================================
