------------------------- MODULE ModelAudit_proofs -------------------------
(***************************************************************************)
(* Proofs about ModelAudit, for any number of imports, time-outs, panics   *)
(* and crashes, with scanning enabled or not.                              *)
(*                                                                         *)
(* The properties are about several goroutines at once, so the invariant   *)
(* says what each of them may still do: an audit that has writes left owns *)
(* its generation or has been given up, and an import that is going to     *)
(* replace the model has fenced off every audit before it.                 *)
(***************************************************************************)
EXTENDS ModelAudit, TLAPS

Active(i) == ipc[i] \notin {"new", "done", "lost"}
Before(i) == ipc[i] \in {"download", "hash", "wait", "replace", "extract", "mark"}

(* The audit has not queued its report; it has not taken its busy flag down. *)
Unsent(i) == apc[i] \in {"start", "scan", "scanned", "keep", "filter", "send"}
Early(i) == Unsent(i) \/ apc[i] = "return"
PanicPath == {"return", "conclude", "handler", "panicReport"}

(* One import at a time, and none, nor an audit, before the start-up is over. *)
Serial ==
    /\ \A i, k \in Imports : Active(i) /\ Active(k) => i = k
    /\ \A i \in Imports : Active(i) \/ Alive(i) => up /\ recovery = "none"

(* An audit lives between its launch and the end of its import at the least. *)
LaunchedOnce ==
    \A i \in Imports : /\ ipc[i] = "new" \/ Before(i) \/ ipc[i] = "launch" => apc[i] = "none"
                       /\ Alive(i) => ipc[i] \in {"release", "done"}

(* The audit of the current generation is the one the fields belong to. *)
OwnerSound ==
    \A i \in Imports : Alive(i) /\ Owns(i) =>
        /\ owner = i /\ current = i
        /\ Early(i) => busy = TRUE /\ modelDir = i

(* An import that may still replace the model has superseded every audit that
   could report on the old one. *)
Fenced == \A i, k \in Imports : Before(k) /\ Early(i) => ~Owns(i)

LaunchReady ==
    \A k \in Imports :
        /\ ipc[k] = "mark" => modelDir = k
        /\ ipc[k] = "launch" => /\ owner = k /\ busy = TRUE /\ modelDir = k
                                /\ ScanEnabled => pending = k
                                /\ \A i \in Imports : Alive(i) => ~Owns(i)

(* The file lags behind the queue. *)
QueueSound == sealedReports \subseteq reports

(* The whole invariant about who owns what. *)
OwnInv ==
    TypeOK /\ Serial /\ LaunchedOnce /\ OwnerSound /\ Fenced /\ LaunchReady /\ QueueSound

(* A scan that kept its generation has seen its own package and no other. *)
SaidVerdict(i) == <<i, "verdict">> \in reports
ScanOf(i) ==
    /\ apc[i] \in {"scan", "scanned"} /\ Owns(i) => seen[i] = {i}
    /\ apc[i] \in {"keep", "filter", "send"} => seen[i] = {i}
    /\ SaidVerdict(i) => seen[i] = {i} /\ apc[i] # "none" /\ ~Unsent(i)
ScanSound == \A i \in Imports : ScanOf(i)

(* Without a time-out nobody replaces the model before the old audit is over. *)
WaitSound ==
    timeouts = 0 =>
        /\ \A i \in Imports : Alive(i) => current = i
        /\ \A i, k \in Imports :
              /\ ipc[k] = "wait" /\ Alive(i) => waitFor = i
              /\ ipc[k] \in {"replace", "extract", "mark", "launch"} => ~Alive(i)

(* The attached audit is the current model's, or its own first step will drop
   it. *)
LastSound ==
    /\ ~up => lastAudit = None
    /\ (\A k \in Imports : ~Before(k) /\ ipc[k] # "launch") /\ imported = TRUE /\ modelDir # None =>
          /\ apc[modelDir] = "start" => Owns(modelDir)
          /\ lastAudit \in {None, modelDir} \/ apc[modelDir] \in {"none", "start"}

(* An audit nobody gave up still owns its marker, or is answered. *)
Cancelled == \A i \in ctx : apc[i] # "none" /\ (Unsent(i) => i \in aborted)

AnswerOf(i) ==
    /\ Unsent(i) => Owns(i) /\ pending = i /\ i \notin panicked
    /\ Alive(i) /\ ~Unsent(i) /\ i \notin panicked => Answered(i)
    /\ Alive(i) /\ ~Unsent(i) /\ i \in panicked => apc[i] \in PanicPath \/ Answered(i)
AnswerSound ==
    ScanEnabled /\ identified = TRUE => \A i \in Imports : i \notin aborted => AnswerOf(i)

(* What the process knows of an audit, and what its state file knows. *)
Known(i) == i \notin aborted \cup cut /\ (apc[i] # "none" \/ i \in marked)
OnDisk(i) == \E k \in Outcomes : <<i, k>> \in sealedReports
InMemory(i) ==
    pending = i \/ Answered(i) \/ (i \in panicked /\ apc[i] \in PanicPath)
MemorySound ==
    ScanEnabled /\ identified = TRUE /\ up = TRUE => \A i \in Imports : Known(i) => InMemory(i)
DiskSound ==
    ScanEnabled /\ identified = TRUE =>
        \A i \in Imports : Known(i) /\ (i \in marked \/ up = FALSE) =>
            sealedPending = i \/ OnDisk(i) \/ (up = TRUE /\ Unreported(i))

(* The file lags behind the process, and the start-up begins from the file. *)
FileSound ==
    /\ up = FALSE => reports = sealedReports
    /\ sealedPending \in marked \cup {None}
    /\ recovery # "none" /\ pending # None => pending = sealedPending
    /\ kept # None => up = TRUE /\ recovery = "none"
    /\ kept # None /\ identified = TRUE => Answered(kept)
    /\ \A i \in Imports : pending = i \/ i \in marked => ipc[i] # "new"
    /\ \A i \in panicked : apc[i] # "none"

Interrupted(i) == <<i, "interrupted">> \in reports
TwiceOf(i) ==
    /\ Said(i, reports) /\ Interrupted(i) => i \in overlap
    /\ Said(i, reports) => apc[i] # "none"
    /\ Interrupted(i) => ipc[i] \in {"done", "lost"} /\ ~Alive(i)
    /\ /\ up = FALSE \/ recovery # "none"
       /\ sealedPending = i \/ pending = i
       /\ Said(i, reports)
       => i \in overlap
TwiceSound == \A i \in Imports : TwiceOf(i)

Reconciled == recovery = "conclude" /\ identified = TRUE /\ pending # None => Answered(pending)

AccountInv ==
    /\ MarkerDurable /\ MarkerOwned /\ BusyHasOwner /\ Cancelled /\ AnswerSound /\ Reconciled
    /\ MemorySound /\ DiskSound /\ FileSound /\ TwiceSound

AuditInv == OwnInv /\ ScanSound /\ WaitSound /\ LastSound /\ AccountInv
-----------------------------------------------------------------------------
(* The Boolean variables and the state file apart from the rest. *)
BoolOK ==
    /\ busy \in BOOLEAN /\ imported \in BOOLEAN /\ up \in BOOLEAN /\ sealedImported \in BOOLEAN
    /\ identified \in BOOLEAN /\ sealOk \in BOOLEAN

DataOK ==
    /\ ipc \in [Imports -> ImportStages]
    /\ waitFor \in Imports \cup {None} /\ modelDir \in Imports \cup {None}
    /\ gen \in Nat
    /\ owner \in Imports \cup {None} /\ current \in Imports \cup {None}
    /\ pending \in Imports \cup {None}
    /\ lastAudit \in Imports \cup {None}
    /\ apc \in [Imports -> AuditStages] /\ agen \in [Imports -> 0..gen]
    /\ ctx \subseteq Imports /\ seen \in [Imports -> SUBSET (Imports \cup {None})]
    /\ result \in [Imports -> {"verdict", "error"}]
    /\ reports \subseteq Imports \X Outcomes
    /\ task \in Imports \cup {None} /\ kept \in Imports \cup {None}
    /\ aborted \subseteq Imports /\ panicked \subseteq Imports
    /\ cut \subseteq Imports /\ overlap \subseteq Imports
    /\ timeouts \in Nat /\ crashes \in Nat
    /\ recovery \in {"none", "task", "reset", "audit", "conclude"}

FileOK ==
    /\ sealedPending \in Imports \cup {None} /\ sealedTask \in Imports \cup {None}
    /\ sealedReports \subseteq Imports \X Outcomes /\ marked \subseteq Imports
    /\ sealFails \in Nat

LEMMA TypeInit == Init => TypeOK
<1> USE AuditAssumption DEF AuditAssumption
<1>1. Init => BoolOK
  BY Zenon DEF Init, BoolOK
<1>2. Init => DataOK /\ FileOK
  BY DEF Init, DataOK, FileOK, ImportStages, AuditStages
<1> QED
  BY <1>1, <1>2 DEF BoolOK, DataOK, FileOK, TypeOK

(* A seal, whether it succeeds or fails, leaves a state file of the right shape. *)
LEMMA FileStep ==
    ASSUME TypeOK, Seal \/ UNCHANGED sealVars, pending' \in Imports \cup {None},
           task' \in Imports \cup {None}, reports' \subseteq Imports \X Outcomes,
           imported' \in BOOLEAN
    PROVE  FileOK' /\ sealedImported' \in BOOLEAN /\ sealOk' \in BOOLEAN
<1> USE DEF TypeOK, FileOK, sealVars, fileVars
<1>1. CASE Sealed
  <2>1. sealedImported' \in BOOLEAN /\ sealOk' \in BOOLEAN
    BY <1>1, Zenon DEF Sealed
  <2>2. FileOK'
    BY <1>1 DEF Sealed
  <2> QED
    BY <2>1, <2>2
<1>2. CASE SealFails
  <2>1. sealedImported' \in BOOLEAN /\ sealOk' \in BOOLEAN
    BY <1>2, Zenon DEF SealFails
  <2>2. FileOK'
    BY <1>2 DEF SealFails
  <2> QED
    BY <2>1, <2>2
<1>3. CASE UNCHANGED sealVars
  BY <1>3
<1> QED
  BY <1>1, <1>2, <1>3 DEF Seal

LEMMA TypeStep == ASSUME TypeOK, [Next]_vars PROVE TypeOK'
<1> USE AuditAssumption DEF AuditAssumption, TypeOK, ImportStages, AuditStages, importVars,
        ownerVars, auditVars, sealVars, histVars, procVars, auditRest, startRest, fileVars
<1>1. ASSUME NEW i \in Imports, Begin(i) PROVE TypeOK'
  <2>1. Seal \/ UNCHANGED sealVars
    BY <1>1 DEF Begin, Abort, Superseded, ResetBusy, Step, Serving
  <2>2. DataOK'
    BY <1>1 DEF Begin, Abort, Superseded, ResetBusy, Step, Serving, DataOK
  <2>3. busy' \in BOOLEAN /\ imported' \in BOOLEAN /\ up' \in BOOLEAN /\ identified' \in BOOLEAN
    BY <1>1, Zenon DEF Begin, Abort, Superseded, ResetBusy, Step, Serving
  <2>4. FileOK' /\ sealedImported' \in BOOLEAN /\ sealOk' \in BOOLEAN
    BY <2>1, <2>2, <2>3, FileStep DEF DataOK
  <2> QED
    BY <2>2, <2>3, <2>4 DEF DataOK, FileOK
<1>2. ASSUME NEW i \in Imports, ImportFails(i) PROVE TypeOK'
  <2>1. Seal \/ UNCHANGED sealVars
    BY <1>2 DEF ImportFails, Step
  <2>2. DataOK'
    BY <1>2 DEF ImportFails, Step, DataOK
  <2>3. busy' \in BOOLEAN /\ imported' \in BOOLEAN /\ up' \in BOOLEAN /\ identified' \in BOOLEAN
    BY <1>2, Zenon DEF ImportFails, Step
  <2>4. FileOK' /\ sealedImported' \in BOOLEAN /\ sealOk' \in BOOLEAN
    BY <2>1, <2>2, <2>3, FileStep DEF DataOK
  <2> QED
    BY <2>2, <2>3, <2>4 DEF DataOK, FileOK
<1>3. ASSUME NEW i \in Imports, Download(i) PROVE TypeOK'
  BY <1>3 DEF Download, Step
<1>4. ASSUME NEW i \in Imports, StartWait(i) PROVE TypeOK'
  BY <1>4 DEF StartWait, ReadDone, Step
<1>5. ASSUME NEW i \in Imports, EndWait(i) PROVE TypeOK'
  BY <1>5 DEF EndWait, Step
<1>6. ASSUME NEW i \in Imports, Replace(i) PROVE TypeOK'
  BY <1>6 DEF Replace, SeenBy, Step
<1>7. ASSUME NEW i \in Imports, Extracted(i) PROVE TypeOK'
  BY <1>7 DEF Extracted, SeenBy, Step
<1>8. ASSUME NEW i \in Imports, Mark(i) PROVE TypeOK'
  <2>1. Seal \/ UNCHANGED sealVars
    BY <1>8 DEF Mark, Step
  <2>2. DataOK'
    BY <1>8 DEF Mark, Step, DataOK
  <2>3. busy' \in BOOLEAN /\ imported' \in BOOLEAN /\ up' \in BOOLEAN /\ identified' \in BOOLEAN
    BY <1>8, Zenon DEF Mark, Step
  <2>4. FileOK' /\ sealedImported' \in BOOLEAN /\ sealOk' \in BOOLEAN
    BY <2>1, <2>2, <2>3, FileStep DEF DataOK
  <2> QED
    BY <2>2, <2>3, <2>4 DEF DataOK, FileOK
<1>9. ASSUME NEW i \in Imports, Launch(i) PROVE TypeOK'
  BY <1>9 DEF Launch, Goto, Step
<1>10. ASSUME NEW i \in Imports, ReleaseImport(i) PROVE TypeOK'
  <2>1. Seal \/ UNCHANGED sealVars
    BY <1>10 DEF ReleaseImport, Step
  <2>2. DataOK'
    BY <1>10 DEF ReleaseImport, Step, DataOK
  <2>3. busy' \in BOOLEAN /\ imported' \in BOOLEAN /\ up' \in BOOLEAN /\ identified' \in BOOLEAN
    BY <1>10, Zenon DEF ReleaseImport, Step
  <2>4. FileOK' /\ sealedImported' \in BOOLEAN /\ sealOk' \in BOOLEAN
    BY <2>1, <2>2, <2>3, FileStep DEF DataOK
  <2> QED
    BY <2>2, <2>3, <2>4 DEF DataOK, FileOK
<1>11. ASSUME NEW i \in Imports, StartAudit(i) PROVE TypeOK'
  BY <1>11 DEF StartAudit, SetsBusy, Goto
<1>12. ASSUME NEW i \in Imports, EndScan(i) PROVE TypeOK'
  BY <1>12 DEF EndScan, Goto
<1>13. ASSUME NEW i \in Imports, CheckSuperseded(i) PROVE TypeOK'
  BY <1>13 DEF CheckSuperseded, Goto, Stale
<1>14. ASSUME NEW i \in Imports, KeepAudit(i) PROVE TypeOK'
  BY <1>14 DEF KeepAudit, Goto
<1>15. ASSUME NEW i \in Imports, FilterReport(i) PROVE TypeOK'
  BY <1>15 DEF FilterReport, Goto
<1>16. ASSUME NEW i \in Imports, SendAudit(i) PROVE TypeOK'
  <2>1. Seal \/ UNCHANGED sealVars
    BY <1>16 DEF SendAudit, Goto, Enqueue
  <2>2. DataOK'
    BY <1>16 DEF SendAudit, Goto, Enqueue, DataOK, Outcomes
  <2>3. busy' \in BOOLEAN /\ imported' \in BOOLEAN /\ up' \in BOOLEAN /\ identified' \in BOOLEAN
    BY <1>16, Zenon DEF SendAudit, Goto, Enqueue
  <2>4. FileOK' /\ sealedImported' \in BOOLEAN /\ sealOk' \in BOOLEAN
    BY <2>1, <2>2, <2>3, FileStep DEF DataOK
  <2> QED
    BY <2>2, <2>3, <2>4 DEF DataOK, FileOK
<1>17. ASSUME NEW i \in Imports, ReturnAudit(i) PROVE TypeOK'
  BY <1>17 DEF ReturnAudit, Goto
<1>18. ASSUME NEW i \in Imports, ConcludeAudit(i) PROVE TypeOK'
  <2>1. Seal \/ UNCHANGED sealVars
    BY <1>18 DEF ConcludeAudit, DropMarker, Goto
  <2>2. DataOK'
    BY <1>18 DEF ConcludeAudit, DropMarker, Goto, DataOK
  <2>3. busy' \in BOOLEAN /\ imported' \in BOOLEAN /\ up' \in BOOLEAN /\ identified' \in BOOLEAN
    BY <1>18, Zenon DEF ConcludeAudit, DropMarker, Goto
  <2>4. FileOK' /\ sealedImported' \in BOOLEAN /\ sealOk' \in BOOLEAN
    BY <2>1, <2>2, <2>3, FileStep DEF DataOK
  <2> QED
    BY <2>2, <2>3, <2>4 DEF DataOK, FileOK
<1>19. ASSUME NEW i \in Imports, HandleAuditPanic(i) PROVE TypeOK'
  <2>1. Seal \/ UNCHANGED sealVars
    BY <1>19 DEF HandleAuditPanic, ResetBusy, DropMarker, Goto
  <2>2. DataOK'
    BY <1>19 DEF HandleAuditPanic, ResetBusy, DropMarker, Goto, DataOK
  <2>3. busy' \in BOOLEAN /\ imported' \in BOOLEAN /\ up' \in BOOLEAN /\ identified' \in BOOLEAN
    BY <1>19, Zenon DEF HandleAuditPanic, ResetBusy, DropMarker, Goto
  <2>4. FileOK' /\ sealedImported' \in BOOLEAN /\ sealOk' \in BOOLEAN
    BY <2>1, <2>2, <2>3, FileStep DEF DataOK
  <2> QED
    BY <2>2, <2>3, <2>4 DEF DataOK, FileOK
<1>20. ASSUME NEW i \in Imports, ReportPanic(i) PROVE TypeOK'
  <2>1. Seal \/ UNCHANGED sealVars
    BY <1>20 DEF ReportPanic, Goto, Enqueue
  <2>2. DataOK'
    BY <1>20 DEF ReportPanic, Goto, Enqueue, DataOK, Outcomes
  <2>3. busy' \in BOOLEAN /\ imported' \in BOOLEAN /\ up' \in BOOLEAN /\ identified' \in BOOLEAN
    BY <1>20, Zenon DEF ReportPanic, Goto, Enqueue
  <2>4. FileOK' /\ sealedImported' \in BOOLEAN /\ sealOk' \in BOOLEAN
    BY <2>1, <2>2, <2>3, FileStep DEF DataOK
  <2> QED
    BY <2>2, <2>3, <2>4 DEF DataOK, FileOK
<1>21. ASSUME NEW i \in Imports, FinishAudit(i) PROVE TypeOK'
  <2>1. Seal \/ UNCHANGED sealVars
    BY <1>21 DEF FinishAudit, ResetBusy, DropMarker, Goto
  <2>2. DataOK'
    BY <1>21 DEF FinishAudit, ResetBusy, DropMarker, Goto, DataOK
  <2>3. busy' \in BOOLEAN /\ imported' \in BOOLEAN /\ up' \in BOOLEAN /\ identified' \in BOOLEAN
    BY <1>21, Zenon DEF FinishAudit, ResetBusy, DropMarker, Goto
  <2>4. FileOK' /\ sealedImported' \in BOOLEAN /\ sealOk' \in BOOLEAN
    BY <2>1, <2>2, <2>3, FileStep DEF DataOK
  <2> QED
    BY <2>2, <2>3, <2>4 DEF DataOK, FileOK
<1>22. ASSUME NEW i \in Imports, PanicAudit(i) PROVE TypeOK'
  BY <1>22 DEF PanicAudit, Goto
<1>23. CASE Crash
  <2>1. BoolOK'
    BY <1>23, Zenon DEF BoolOK, Crash
  <2>2. DataOK' /\ FileOK'
    BY <1>23 DEF DataOK, FileOK, Crash
  <2> QED
    BY <2>1, <2>2 DEF BoolOK, DataOK, FileOK
<1>24. CASE Restart
  BY <1>24 DEF Restart
<1>25. CASE RecoverTask
  <2>1. Seal \/ UNCHANGED sealVars
    BY <1>25 DEF RecoverTask
  <2>2. DataOK'
    BY <1>25 DEF RecoverTask, DataOK
  <2>3. busy' \in BOOLEAN /\ imported' \in BOOLEAN /\ up' \in BOOLEAN /\ identified' \in BOOLEAN
    BY <1>25, Zenon DEF RecoverTask
  <2>4. FileOK' /\ sealedImported' \in BOOLEAN /\ sealOk' \in BOOLEAN
    BY <2>1, <2>2, <2>3, FileStep DEF DataOK
  <2> QED
    BY <2>2, <2>3, <2>4 DEF DataOK, FileOK
<1>26. CASE ResetTask
  <2>1. Seal \/ UNCHANGED sealVars
    BY <1>26 DEF ResetTask
  <2>2. DataOK'
    BY <1>26 DEF ResetTask, DataOK
  <2>3. busy' \in BOOLEAN /\ imported' \in BOOLEAN /\ up' \in BOOLEAN /\ identified' \in BOOLEAN
    BY <1>26, Zenon DEF ResetTask
  <2>4. FileOK' /\ sealedImported' \in BOOLEAN /\ sealOk' \in BOOLEAN
    BY <2>1, <2>2, <2>3, FileStep DEF DataOK
  <2> QED
    BY <2>2, <2>3, <2>4 DEF DataOK, FileOK
<1>27. CASE ReconcileAudit
  <2>1. Seal \/ UNCHANGED sealVars
    BY <1>27 DEF ReconcileAudit, Seal
  <2>2. DataOK'
    BY <1>27 DEF ReconcileAudit, DataOK, Outcomes
  <2>3. busy' \in BOOLEAN /\ imported' \in BOOLEAN /\ up' \in BOOLEAN /\ identified' \in BOOLEAN
    BY <1>27, Zenon DEF ReconcileAudit
  <2>4. FileOK' /\ sealedImported' \in BOOLEAN /\ sealOk' \in BOOLEAN
    BY <2>1, <2>2, <2>3, FileStep DEF DataOK
  <2> QED
    BY <2>2, <2>3, <2>4 DEF DataOK, FileOK
<1>28. CASE ConcludeReconciled
  <2>1. Seal \/ UNCHANGED sealVars
    BY <1>28 DEF ConcludeReconciled, DropMarker
  <2>2. DataOK'
    BY <1>28 DEF ConcludeReconciled, DropMarker, DataOK
  <2>3. busy' \in BOOLEAN /\ imported' \in BOOLEAN /\ up' \in BOOLEAN /\ identified' \in BOOLEAN
    BY <1>28, Zenon DEF ConcludeReconciled, DropMarker
  <2>4. FileOK' /\ sealedImported' \in BOOLEAN /\ sealOk' \in BOOLEAN
    BY <2>1, <2>2, <2>3, FileStep DEF DataOK
  <2> QED
    BY <2>2, <2>3, <2>4 DEF DataOK, FileOK
<1>29. CASE UNCHANGED vars
  BY <1>29 DEF vars
<1> QED
  BY <1>1, <1>2, <1>3, <1>4, <1>5, <1>6, <1>7, <1>8, <1>9, <1>10, <1>11, <1>12, <1>13,
     <1>14, <1>15, <1>16, <1>17, <1>18, <1>19, <1>20, <1>21, <1>22, <1>23, <1>24, <1>25,
     <1>26, <1>27, <1>28, <1>29 DEF Next, ImportStep, AuditStep, StartUp

(* Type correctness: no generation is ever ahead of the counter. *)
THEOREM TypeCorrect == Spec => []TypeOK
<1>1. Init => TypeOK
  BY TypeInit
<1>2. TypeOK /\ [Next]_vars => TypeOK'
  BY TypeStep
<1> QED
  BY <1>1, <1>2, PTL DEF Spec
-----------------------------------------------------------------------------
LEMMA OwnInit == Init => OwnInv
BY TypeInit DEF Init, OwnInv, QueueSound, Serial, LaunchedOnce, OwnerSound, Fenced, LaunchReady, Active, Before,
   Unsent, Early, Alive

(* No seal writes a report that is not queued, and no step but a crash takes a report
   out of the queue. *)
LEMMA QueueStep == ASSUME QueueSound, [Next]_vars PROVE QueueSound'
<1> USE DEF QueueSound, importVars, ownerVars, auditVars, sealVars, histVars, procVars, auditRest,
        startRest, fileVars, Seal, Sealed, SealFails
<1>1. ASSUME NEW i \in Imports, Begin(i) PROVE QueueSound'
  BY <1>1 DEF Begin, Abort, Step
<1>2. ASSUME NEW i \in Imports, ImportFails(i) PROVE QueueSound'
  BY <1>2 DEF ImportFails, Step
<1>3. ASSUME NEW i \in Imports, Download(i) PROVE QueueSound'
  BY <1>3 DEF Download, Step
<1>4. ASSUME NEW i \in Imports, StartWait(i) PROVE QueueSound'
  BY <1>4 DEF StartWait, Step
<1>5. ASSUME NEW i \in Imports, EndWait(i) PROVE QueueSound'
  BY <1>5 DEF EndWait, Step
<1>6. ASSUME NEW i \in Imports, Replace(i) PROVE QueueSound'
  BY <1>6 DEF Replace, Step
<1>7. ASSUME NEW i \in Imports, Extracted(i) PROVE QueueSound'
  BY <1>7 DEF Extracted, Step
<1>8. ASSUME NEW i \in Imports, Mark(i) PROVE QueueSound'
  BY <1>8 DEF Mark, Step
<1>9. ASSUME NEW i \in Imports, Launch(i) PROVE QueueSound'
  BY <1>9 DEF Launch, Goto
<1>10. ASSUME NEW i \in Imports, ReleaseImport(i) PROVE QueueSound'
  BY <1>10 DEF ReleaseImport, Step
<1>11. ASSUME NEW i \in Imports, StartAudit(i) PROVE QueueSound'
  BY <1>11 DEF StartAudit, Goto
<1>12. ASSUME NEW i \in Imports, EndScan(i) PROVE QueueSound'
  BY <1>12 DEF EndScan, Goto
<1>13. ASSUME NEW i \in Imports, CheckSuperseded(i) PROVE QueueSound'
  BY <1>13 DEF CheckSuperseded, Goto
<1>14. ASSUME NEW i \in Imports, KeepAudit(i) PROVE QueueSound'
  BY <1>14 DEF KeepAudit, Goto
<1>15. ASSUME NEW i \in Imports, FilterReport(i) PROVE QueueSound'
  BY <1>15 DEF FilterReport, Goto
<1>16. ASSUME NEW i \in Imports, SendAudit(i) PROVE QueueSound'
  BY <1>16 DEF SendAudit, Enqueue
<1>17. ASSUME NEW i \in Imports, ReturnAudit(i) PROVE QueueSound'
  BY <1>17 DEF ReturnAudit, Goto
<1>18. ASSUME NEW i \in Imports, ConcludeAudit(i) PROVE QueueSound'
  BY <1>18 DEF ConcludeAudit, DropMarker
<1>19. ASSUME NEW i \in Imports, HandleAuditPanic(i) PROVE QueueSound'
  BY <1>19 DEF HandleAuditPanic, DropMarker
<1>20. ASSUME NEW i \in Imports, ReportPanic(i) PROVE QueueSound'
  BY <1>20 DEF ReportPanic, Enqueue
<1>21. ASSUME NEW i \in Imports, FinishAudit(i) PROVE QueueSound'
  BY <1>21 DEF FinishAudit, DropMarker
<1>22. ASSUME NEW i \in Imports, PanicAudit(i) PROVE QueueSound'
  BY <1>22 DEF PanicAudit, Goto
<1>23. CASE Crash
  BY <1>23 DEF Crash
<1>24. CASE Restart
  BY <1>24 DEF Restart
<1>25. CASE RecoverTask
  BY <1>25 DEF RecoverTask
<1>26. CASE ResetTask
  BY <1>26 DEF ResetTask
<1>27. CASE ReconcileAudit
  BY <1>27 DEF ReconcileAudit
<1>28. CASE ConcludeReconciled
  BY <1>28 DEF ConcludeReconciled, DropMarker
<1>29. CASE UNCHANGED vars
  BY <1>29 DEF vars
<1> QED
  BY <1>1, <1>2, <1>3, <1>4, <1>5, <1>6, <1>7, <1>8, <1>9, <1>10, <1>11, <1>12, <1>13,
     <1>14, <1>15, <1>16, <1>17, <1>18, <1>19, <1>20, <1>21, <1>22, <1>23, <1>24, <1>25,
     <1>26, <1>27, <1>28, <1>29 DEF Next, ImportStep, AuditStep, StartUp

LEMMA OwnStep == ASSUME OwnInv, [Next]_vars PROVE OwnInv'
<1>0. TypeOK' /\ QueueSound'
  BY TypeStep, QueueStep DEF OwnInv
<1> USE <1>0, AuditAssumption DEF AuditAssumption, TypeOK, ImportStages, AuditStages, importVars,
        ownerVars, auditVars, sealVars, histVars, procVars, auditRest, startRest, fileVars, OwnInv, Serial,
        LaunchedOnce, OwnerSound, Fenced, LaunchReady, Active, Before, Unsent, Early, Alive, Owns
<1>1. ASSUME NEW i \in Imports, Begin(i) PROVE OwnInv'
  (* No audit that could still report keeps its generation. *)
  <2>1. \A k \in Imports : Owns(k)' => Owns(k) /\ ~busy
    BY <1>1 DEF Begin, Abort, Superseded
  <2>2. /\ Active(i)' /\ \A k \in Imports : k # i => ~Active(k)' /\ ipc'[k] = ipc[k]
        /\ ipc'[i] = "download" /\ ipc[i] = "new" /\ UNCHANGED <<apc, modelDir, current, up, recovery>>
        /\ up /\ recovery = "none"
    BY <1>1 DEF Begin, Step, Serving
  <2>3. \A k \in Imports : Owns(k)' /\ Alive(k) => owner' = owner /\ ~Early(k)
    BY <1>1, <2>1 DEF Begin, Abort
  <2>4. Serial' /\ LaunchedOnce'
    BY <2>2
  <2>5. OwnerSound' /\ Fenced'
    BY <2>1, <2>2, <2>3
  <2>6. LaunchReady'
    BY <2>2
  <2> QED
    BY <2>4, <2>5, <2>6
<1>2. ASSUME NEW i \in Imports, ImportFails(i) PROVE OwnInv'
  BY <1>2 DEF ImportFails, Seal, Sealed, SealFails, Step
<1>3. ASSUME NEW i \in Imports, Download(i) PROVE OwnInv'
  BY <1>3 DEF Download, Step
<1>4. ASSUME NEW i \in Imports, StartWait(i) PROVE OwnInv'
  BY <1>4 DEF StartWait, ReadDone, Step
<1>5. ASSUME NEW i \in Imports, EndWait(i) PROVE OwnInv'
  BY <1>5 DEF EndWait, Step
<1>6. ASSUME NEW i \in Imports, Replace(i) PROVE OwnInv'
  BY <1>6 DEF Replace, SeenBy, Step
<1>7. ASSUME NEW i \in Imports, Extracted(i) PROVE OwnInv'
  BY <1>7 DEF Extracted, SeenBy, Step
<1>8. ASSUME NEW i \in Imports, Mark(i) PROVE OwnInv'
  BY <1>8 DEF Mark, Seal, Sealed, SealFails, Step
<1>9. ASSUME NEW i \in Imports, Launch(i) PROVE OwnInv'
  BY <1>9 DEF Launch, Goto, Step
<1>10. ASSUME NEW i \in Imports, ReleaseImport(i) PROVE OwnInv'
  BY <1>10 DEF ReleaseImport, Seal, Sealed, SealFails, Step
<1>11. ASSUME NEW i \in Imports, StartAudit(i) PROVE OwnInv'
  BY <1>11 DEF StartAudit, SetsBusy, Goto
<1>12. ASSUME NEW i \in Imports, EndScan(i) PROVE OwnInv'
  BY <1>12 DEF EndScan, Goto
<1>13. ASSUME NEW i \in Imports, CheckSuperseded(i) PROVE OwnInv'
  BY <1>13 DEF CheckSuperseded, Goto, Stale
<1>14. ASSUME NEW i \in Imports, KeepAudit(i) PROVE OwnInv'
  BY <1>14 DEF KeepAudit, Goto
<1>15. ASSUME NEW i \in Imports, FilterReport(i) PROVE OwnInv'
  BY <1>15 DEF FilterReport, Goto
<1>16. ASSUME NEW i \in Imports, SendAudit(i) PROVE OwnInv'
  BY <1>16 DEF SendAudit, Enqueue, Seal, Sealed, SealFails, Goto
<1>17. ASSUME NEW i \in Imports, ReturnAudit(i) PROVE OwnInv'
  BY <1>17 DEF ReturnAudit, Goto
<1>18. ASSUME NEW i \in Imports, ConcludeAudit(i) PROVE OwnInv'
  BY <1>18 DEF ConcludeAudit, DropMarker, Seal, Sealed, SealFails, Goto
<1>19. ASSUME NEW i \in Imports, HandleAuditPanic(i) PROVE OwnInv'
  BY <1>19 DEF HandleAuditPanic, ResetBusy, DropMarker, Seal, Sealed, SealFails, Goto
<1>20. ASSUME NEW i \in Imports, ReportPanic(i) PROVE OwnInv'
  BY <1>20 DEF ReportPanic, Enqueue, Seal, Sealed, SealFails, Goto
<1>21. ASSUME NEW i \in Imports, FinishAudit(i) PROVE OwnInv'
  BY <1>21 DEF FinishAudit, ResetBusy, DropMarker, Seal, Sealed, SealFails, Goto
<1>22. ASSUME NEW i \in Imports, PanicAudit(i) PROVE OwnInv'
  BY <1>22 DEF PanicAudit, Goto
<1>23. CASE Crash
  BY <1>23 DEF Crash
<1>24. CASE Restart
  BY <1>24 DEF Restart
<1>25. CASE RecoverTask
  BY <1>25 DEF RecoverTask, Seal, Sealed, SealFails
<1>26. CASE ResetTask
  BY <1>26 DEF ResetTask, Seal, Sealed, SealFails
<1>27. CASE ReconcileAudit
  BY <1>27 DEF ReconcileAudit, Sealed, SealFails
<1>28. CASE ConcludeReconciled
  BY <1>28 DEF ConcludeReconciled, DropMarker, Seal, Sealed, SealFails
<1>29. CASE UNCHANGED vars
  BY <1>29 DEF vars
<1> QED
  BY <1>1, <1>2, <1>3, <1>4, <1>5, <1>6, <1>7, <1>8, <1>9, <1>10, <1>11, <1>12, <1>13,
     <1>14, <1>15, <1>16, <1>17, <1>18, <1>19, <1>20, <1>21, <1>22, <1>23, <1>24, <1>25,
     <1>26, <1>27, <1>28, <1>29 DEF Next, ImportStep, AuditStep, StartUp
-----------------------------------------------------------------------------
(***************************************************************************)
(* What a scan has read and what is said about it.                         *)
(***************************************************************************)
(* Only an audit that is at its last check queues a verdict. *)
LEMMA VerdictQueued ==
    ASSUME OwnInv, [Next]_vars, NEW k \in Imports, SaidVerdict(k)'
    PROVE  SaidVerdict(k) \/ (apc[k] = "send" /\ apc'[k] = "return")
<1> DEFINE Goal == SaidVerdict(k) \/ (apc[k] = "send" /\ apc'[k] = "return")
<1> SUFFICES Goal
  OBVIOUS
<1> USE DEF SaidVerdict, OwnInv, TypeOK, importVars, ownerVars, auditVars, sealVars, histVars, procVars, auditRest, startRest, fileVars
<1>1. ASSUME NEW i \in Imports, Begin(i) PROVE Goal
  BY <1>1 DEF Begin, Abort, Superseded, ResetBusy, Seal, Sealed, SealFails, Step
<1>2. ASSUME NEW i \in Imports, ImportFails(i) PROVE Goal
  BY <1>2 DEF ImportFails, Seal, Sealed, SealFails, Step
<1>3. ASSUME NEW i \in Imports, Download(i) PROVE Goal
  BY <1>3 DEF Download, Step
<1>4. ASSUME NEW i \in Imports, StartWait(i) PROVE Goal
  BY <1>4 DEF StartWait, ReadDone, Step
<1>5. ASSUME NEW i \in Imports, EndWait(i) PROVE Goal
  BY <1>5 DEF EndWait, Step
<1>6. ASSUME NEW i \in Imports, Replace(i) PROVE Goal
  BY <1>6 DEF Replace, SeenBy, Reading, Step
<1>7. ASSUME NEW i \in Imports, Extracted(i) PROVE Goal
  BY <1>7 DEF Extracted, SeenBy, Reading, Step
<1>8. ASSUME NEW i \in Imports, Mark(i) PROVE Goal
  BY <1>8 DEF Mark, Seal, Sealed, SealFails, Step
<1>9. ASSUME NEW i \in Imports, Launch(i) PROVE Goal
  BY <1>9 DEF Launch, Goto, Step
<1>10. ASSUME NEW i \in Imports, ReleaseImport(i) PROVE Goal
  BY <1>10 DEF ReleaseImport, Seal, Sealed, SealFails, Step
<1>11. ASSUME NEW i \in Imports, StartAudit(i) PROVE Goal
  BY <1>11 DEF StartAudit, SetsBusy, Goto
<1>12. ASSUME NEW i \in Imports, EndScan(i) PROVE Goal
  BY <1>12 DEF EndScan, Goto
<1>13. ASSUME NEW i \in Imports, CheckSuperseded(i) PROVE Goal
  BY <1>13 DEF CheckSuperseded, Goto, Stale
<1>14. ASSUME NEW i \in Imports, KeepAudit(i) PROVE Goal
  BY <1>14 DEF KeepAudit, Goto
<1>15. ASSUME NEW i \in Imports, FilterReport(i) PROVE Goal
  BY <1>15 DEF FilterReport, Goto
<1>16. ASSUME NEW i \in Imports, SendAudit(i) PROVE Goal
  BY <1>16 DEF SendAudit, Enqueue, Seal, Sealed, SealFails, Goto
<1>17. ASSUME NEW i \in Imports, ReturnAudit(i) PROVE Goal
  BY <1>17 DEF ReturnAudit, Goto
<1>18. ASSUME NEW i \in Imports, ConcludeAudit(i) PROVE Goal
  BY <1>18 DEF ConcludeAudit, DropMarker, Seal, Sealed, SealFails, Goto
<1>19. ASSUME NEW i \in Imports, HandleAuditPanic(i) PROVE Goal
  BY <1>19 DEF HandleAuditPanic, ResetBusy, DropMarker, Seal, Sealed, SealFails, Goto
<1>20. ASSUME NEW i \in Imports, ReportPanic(i) PROVE Goal
  BY <1>20 DEF ReportPanic, Enqueue, Seal, Sealed, SealFails, Goto
<1>21. ASSUME NEW i \in Imports, FinishAudit(i) PROVE Goal
  BY <1>21 DEF FinishAudit, ResetBusy, DropMarker, Seal, Sealed, SealFails, Goto
<1>22. ASSUME NEW i \in Imports, PanicAudit(i) PROVE Goal
  BY <1>22 DEF PanicAudit, Goto
<1>23. CASE Crash
  BY <1>23 DEF Crash, QueueSound
<1>24. CASE Restart
  BY <1>24 DEF Restart
<1>25. CASE RecoverTask
  BY <1>25 DEF RecoverTask, Seal, Sealed, SealFails
<1>26. CASE ResetTask
  BY <1>26 DEF ResetTask, Seal, Sealed, SealFails
<1>27. CASE ReconcileAudit
  BY <1>27 DEF ReconcileAudit, Sealed, SealFails
<1>28. CASE ConcludeReconciled
  BY <1>28 DEF ConcludeReconciled, DropMarker, Seal, Sealed, SealFails
<1>29. CASE UNCHANGED vars
  BY <1>29 DEF vars
<1> QED
  BY <1>1, <1>2, <1>3, <1>4, <1>5, <1>6, <1>7, <1>8, <1>9, <1>10, <1>11, <1>12, <1>13,
     <1>14, <1>15, <1>16, <1>17, <1>18, <1>19, <1>20, <1>21, <1>22, <1>23, <1>24, <1>25,
     <1>26, <1>27, <1>28, <1>29 DEF Next, ImportStep, AuditStep, StartUp

LEMMA ScanStep == ASSUME OwnInv, OwnInv', ScanSound, [Next]_vars PROVE ScanSound'
<1> SUFFICES ASSUME NEW k \in Imports PROVE ScanOf(k)'
  BY DEF ScanSound
<1>0. ScanOf(k) /\ (SaidVerdict(k)' => SaidVerdict(k) \/ (apc[k] = "send" /\ apc'[k] = "return"))
  BY VerdictQueued DEF ScanSound
<1> USE <1>0, AuditAssumption DEF AuditAssumption, TypeOK, ImportStages, AuditStages,
        importVars, ownerVars, auditVars, auditRest, startRest, procVars, OwnInv, Serial,
        LaunchedOnce, OwnerSound, Fenced, LaunchReady, Active, Before, Unsent, Early, Alive,
        Owns, ScanOf
<1>1. ASSUME NEW i \in Imports, Begin(i) PROVE ScanOf(k)'
  BY <1>1 DEF Begin, Abort, Superseded, ResetBusy, Seal, Sealed, SealFails, Step
<1>2. ASSUME NEW i \in Imports, ImportFails(i) PROVE ScanOf(k)'
  BY <1>2 DEF ImportFails, Seal, Sealed, SealFails, Step
<1>3. ASSUME NEW i \in Imports, Download(i) PROVE ScanOf(k)'
  BY <1>3 DEF Download, Step
<1>4. ASSUME NEW i \in Imports, StartWait(i) PROVE ScanOf(k)'
  BY <1>4 DEF StartWait, ReadDone, Step
<1>5. ASSUME NEW i \in Imports, EndWait(i) PROVE ScanOf(k)'
  BY <1>5 DEF EndWait, Step
<1>6. ASSUME NEW i \in Imports, Replace(i) PROVE ScanOf(k)'
  BY <1>6 DEF Replace, SeenBy, Reading, Step
<1>7. ASSUME NEW i \in Imports, Extracted(i) PROVE ScanOf(k)'
  BY <1>7 DEF Extracted, SeenBy, Reading, Step
<1>8. ASSUME NEW i \in Imports, Mark(i) PROVE ScanOf(k)'
  BY <1>8 DEF Mark, Seal, Sealed, SealFails, Step
<1>9. ASSUME NEW i \in Imports, Launch(i) PROVE ScanOf(k)'
  BY <1>9 DEF Launch, Goto, Step
<1>10. ASSUME NEW i \in Imports, ReleaseImport(i) PROVE ScanOf(k)'
  BY <1>10 DEF ReleaseImport, Seal, Sealed, SealFails, Step
<1>11. ASSUME NEW i \in Imports, StartAudit(i) PROVE ScanOf(k)'
  BY <1>11 DEF StartAudit, SetsBusy, Goto
<1>12. ASSUME NEW i \in Imports, EndScan(i) PROVE ScanOf(k)'
  BY <1>12 DEF EndScan, Goto
<1>13. ASSUME NEW i \in Imports, CheckSuperseded(i) PROVE ScanOf(k)'
  BY <1>13 DEF CheckSuperseded, Goto, Stale
<1>14. ASSUME NEW i \in Imports, KeepAudit(i) PROVE ScanOf(k)'
  BY <1>14 DEF KeepAudit, Goto
<1>15. ASSUME NEW i \in Imports, FilterReport(i) PROVE ScanOf(k)'
  BY <1>15 DEF FilterReport, Goto
<1>16. ASSUME NEW i \in Imports, SendAudit(i) PROVE ScanOf(k)'
  BY <1>16 DEF SendAudit, Enqueue, Seal, Sealed, SealFails, Goto
<1>17. ASSUME NEW i \in Imports, ReturnAudit(i) PROVE ScanOf(k)'
  BY <1>17 DEF ReturnAudit, Goto
<1>18. ASSUME NEW i \in Imports, ConcludeAudit(i) PROVE ScanOf(k)'
  BY <1>18 DEF ConcludeAudit, DropMarker, Seal, Sealed, SealFails, Goto
<1>19. ASSUME NEW i \in Imports, HandleAuditPanic(i) PROVE ScanOf(k)'
  BY <1>19 DEF HandleAuditPanic, ResetBusy, DropMarker, Seal, Sealed, SealFails, Goto
<1>20. ASSUME NEW i \in Imports, ReportPanic(i) PROVE ScanOf(k)'
  BY <1>20 DEF ReportPanic, Enqueue, Seal, Sealed, SealFails, Goto
<1>21. ASSUME NEW i \in Imports, FinishAudit(i) PROVE ScanOf(k)'
  BY <1>21 DEF FinishAudit, ResetBusy, DropMarker, Seal, Sealed, SealFails, Goto
<1>22. ASSUME NEW i \in Imports, PanicAudit(i) PROVE ScanOf(k)'
  BY <1>22 DEF PanicAudit, Goto
<1>23. CASE Crash
  BY <1>23 DEF Crash
<1>24. CASE Restart
  BY <1>24 DEF Restart
<1>25. CASE RecoverTask
  BY <1>25 DEF RecoverTask, Seal, Sealed, SealFails
<1>26. CASE ResetTask
  BY <1>26 DEF ResetTask, Seal, Sealed, SealFails
<1>27. CASE ReconcileAudit
  BY <1>27 DEF ReconcileAudit, Sealed, SealFails
<1>28. CASE ConcludeReconciled
  BY <1>28 DEF ConcludeReconciled, DropMarker, Seal, Sealed, SealFails
<1>29. CASE UNCHANGED vars
  BY <1>29 DEF vars
<1> QED
  BY <1>1, <1>2, <1>3, <1>4, <1>5, <1>6, <1>7, <1>8, <1>9, <1>10, <1>11, <1>12, <1>13,
     <1>14, <1>15, <1>16, <1>17, <1>18, <1>19, <1>20, <1>21, <1>22, <1>23, <1>24, <1>25,
     <1>26, <1>27, <1>28, <1>29 DEF Next, ImportStep, AuditStep, StartUp

LEMMA WaitStep == ASSUME OwnInv, OwnInv', WaitSound, [Next]_vars PROVE WaitSound'
<1> USE AuditAssumption DEF AuditAssumption, TypeOK, ImportStages, AuditStages, importVars, ownerVars,
        auditVars, sealVars, histVars, procVars, auditRest, startRest, fileVars, OwnInv, Serial, LaunchedOnce,
        OwnerSound, Fenced, LaunchReady, Active, Before, Unsent, Early, Alive, Owns,
        WaitSound, Stopped
<1>1. ASSUME NEW i \in Imports, Begin(i) PROVE WaitSound'
  BY <1>1 DEF Begin, Abort, Superseded, ResetBusy, Seal, Sealed, SealFails, Step
<1>2. ASSUME NEW i \in Imports, ImportFails(i) PROVE WaitSound'
  BY <1>2 DEF ImportFails, Seal, Sealed, SealFails, Step
<1>3. ASSUME NEW i \in Imports, Download(i) PROVE WaitSound'
  BY <1>3 DEF Download, Step
<1>4. ASSUME NEW i \in Imports, StartWait(i) PROVE WaitSound'
  BY <1>4 DEF StartWait, ReadDone, Step
<1>5. ASSUME NEW i \in Imports, EndWait(i) PROVE WaitSound'
  BY <1>5 DEF EndWait, Step
<1>6. ASSUME NEW i \in Imports, Replace(i) PROVE WaitSound'
  BY <1>6 DEF Replace, SeenBy, Reading, Step
<1>7. ASSUME NEW i \in Imports, Extracted(i) PROVE WaitSound'
  BY <1>7 DEF Extracted, SeenBy, Reading, Step
<1>8. ASSUME NEW i \in Imports, Mark(i) PROVE WaitSound'
  BY <1>8 DEF Mark, Seal, Sealed, SealFails, Step
<1>9. ASSUME NEW i \in Imports, Launch(i) PROVE WaitSound'
  BY <1>9 DEF Launch, Goto, Step
<1>10. ASSUME NEW i \in Imports, ReleaseImport(i) PROVE WaitSound'
  BY <1>10 DEF ReleaseImport, Seal, Sealed, SealFails, Step
<1>11. ASSUME NEW i \in Imports, StartAudit(i) PROVE WaitSound'
  BY <1>11 DEF StartAudit, SetsBusy, Goto
<1>12. ASSUME NEW i \in Imports, EndScan(i) PROVE WaitSound'
  BY <1>12 DEF EndScan, Goto
<1>13. ASSUME NEW i \in Imports, CheckSuperseded(i) PROVE WaitSound'
  BY <1>13 DEF CheckSuperseded, Goto, Stale
<1>14. ASSUME NEW i \in Imports, KeepAudit(i) PROVE WaitSound'
  BY <1>14 DEF KeepAudit, Goto
<1>15. ASSUME NEW i \in Imports, FilterReport(i) PROVE WaitSound'
  BY <1>15 DEF FilterReport, Goto
<1>16. ASSUME NEW i \in Imports, SendAudit(i) PROVE WaitSound'
  BY <1>16 DEF SendAudit, Enqueue, Seal, Sealed, SealFails, Goto
<1>17. ASSUME NEW i \in Imports, ReturnAudit(i) PROVE WaitSound'
  BY <1>17 DEF ReturnAudit, Goto
<1>18. ASSUME NEW i \in Imports, ConcludeAudit(i) PROVE WaitSound'
  BY <1>18 DEF ConcludeAudit, DropMarker, Seal, Sealed, SealFails, Goto
<1>19. ASSUME NEW i \in Imports, HandleAuditPanic(i) PROVE WaitSound'
  BY <1>19 DEF HandleAuditPanic, ResetBusy, DropMarker, Seal, Sealed, SealFails, Goto
<1>20. ASSUME NEW i \in Imports, ReportPanic(i) PROVE WaitSound'
  BY <1>20 DEF ReportPanic, Enqueue, Seal, Sealed, SealFails, Goto
<1>21. ASSUME NEW i \in Imports, FinishAudit(i) PROVE WaitSound'
  BY <1>21 DEF FinishAudit, ResetBusy, DropMarker, Seal, Sealed, SealFails, Goto
<1>22. ASSUME NEW i \in Imports, PanicAudit(i) PROVE WaitSound'
  BY <1>22 DEF PanicAudit, Goto
<1>23. CASE Crash
  BY <1>23 DEF Crash
<1>24. CASE Restart
  BY <1>24 DEF Restart
<1>25. CASE RecoverTask
  BY <1>25 DEF RecoverTask, Seal, Sealed, SealFails
<1>26. CASE ResetTask
  BY <1>26 DEF ResetTask, Seal, Sealed, SealFails
<1>27. CASE ReconcileAudit
  BY <1>27 DEF ReconcileAudit, Sealed, SealFails
<1>28. CASE ConcludeReconciled
  BY <1>28 DEF ConcludeReconciled, DropMarker, Seal, Sealed, SealFails
<1>29. CASE UNCHANGED vars
  BY <1>29 DEF vars
<1> QED
  BY <1>1, <1>2, <1>3, <1>4, <1>5, <1>6, <1>7, <1>8, <1>9, <1>10, <1>11, <1>12, <1>13,
     <1>14, <1>15, <1>16, <1>17, <1>18, <1>19, <1>20, <1>21, <1>22, <1>23, <1>24, <1>25,
     <1>26, <1>27, <1>28, <1>29 DEF Next, ImportStep, AuditStep, StartUp

LEMMA LastStep == ASSUME OwnInv, OwnInv', LastSound, [Next]_vars PROVE LastSound'
<1> USE AuditAssumption DEF AuditAssumption, TypeOK, ImportStages, AuditStages, importVars, ownerVars,
        auditVars, sealVars, histVars, procVars, auditRest, startRest, fileVars, OwnInv, Serial, LaunchedOnce,
        OwnerSound, Fenced, LaunchReady, Active, Before, Unsent, Early, Alive, Owns,
        LastSound
<1>1. ASSUME NEW i \in Imports, Begin(i) PROVE LastSound'
  BY <1>1 DEF Begin, Abort, Superseded, ResetBusy, Seal, Sealed, SealFails, Step
<1>2. ASSUME NEW i \in Imports, ImportFails(i) PROVE LastSound'
  BY <1>2 DEF ImportFails, Seal, Sealed, SealFails, Step
<1>3. ASSUME NEW i \in Imports, Download(i) PROVE LastSound'
  BY <1>3 DEF Download, Step
<1>4. ASSUME NEW i \in Imports, StartWait(i) PROVE LastSound'
  BY <1>4 DEF StartWait, ReadDone, Step
<1>5. ASSUME NEW i \in Imports, EndWait(i) PROVE LastSound'
  BY <1>5 DEF EndWait, Step
<1>6. ASSUME NEW i \in Imports, Replace(i) PROVE LastSound'
  BY <1>6 DEF Replace, SeenBy, Reading, Step
<1>7. ASSUME NEW i \in Imports, Extracted(i) PROVE LastSound'
  BY <1>7 DEF Extracted, SeenBy, Reading, Step
<1>8. ASSUME NEW i \in Imports, Mark(i) PROVE LastSound'
  BY <1>8 DEF Mark, Seal, Sealed, SealFails, Step
<1>9. ASSUME NEW i \in Imports, Launch(i) PROVE LastSound'
  BY <1>9 DEF Launch, Goto, Step
<1>10. ASSUME NEW i \in Imports, ReleaseImport(i) PROVE LastSound'
  BY <1>10 DEF ReleaseImport, Seal, Sealed, SealFails, Step
<1>11. ASSUME NEW i \in Imports, StartAudit(i) PROVE LastSound'
  BY <1>11 DEF StartAudit, SetsBusy, Goto
<1>12. ASSUME NEW i \in Imports, EndScan(i) PROVE LastSound'
  BY <1>12 DEF EndScan, Goto
<1>13. ASSUME NEW i \in Imports, CheckSuperseded(i) PROVE LastSound'
  BY <1>13 DEF CheckSuperseded, Goto, Stale
<1>14. ASSUME NEW i \in Imports, KeepAudit(i) PROVE LastSound'
  BY <1>14 DEF KeepAudit, Goto
<1>15. ASSUME NEW i \in Imports, FilterReport(i) PROVE LastSound'
  BY <1>15 DEF FilterReport, Goto
<1>16. ASSUME NEW i \in Imports, SendAudit(i) PROVE LastSound'
  BY <1>16 DEF SendAudit, Enqueue, Seal, Sealed, SealFails, Goto
<1>17. ASSUME NEW i \in Imports, ReturnAudit(i) PROVE LastSound'
  BY <1>17 DEF ReturnAudit, Goto
<1>18. ASSUME NEW i \in Imports, ConcludeAudit(i) PROVE LastSound'
  BY <1>18 DEF ConcludeAudit, DropMarker, Seal, Sealed, SealFails, Goto
<1>19. ASSUME NEW i \in Imports, HandleAuditPanic(i) PROVE LastSound'
  BY <1>19 DEF HandleAuditPanic, ResetBusy, DropMarker, Seal, Sealed, SealFails, Goto
<1>20. ASSUME NEW i \in Imports, ReportPanic(i) PROVE LastSound'
  BY <1>20 DEF ReportPanic, Enqueue, Seal, Sealed, SealFails, Goto
<1>21. ASSUME NEW i \in Imports, FinishAudit(i) PROVE LastSound'
  BY <1>21 DEF FinishAudit, ResetBusy, DropMarker, Seal, Sealed, SealFails, Goto
<1>22. ASSUME NEW i \in Imports, PanicAudit(i) PROVE LastSound'
  BY <1>22 DEF PanicAudit, Goto
<1>23. CASE Crash
  BY <1>23 DEF Crash
<1>24. CASE Restart
  BY <1>24 DEF Restart
<1>25. CASE RecoverTask
  BY <1>25 DEF RecoverTask, Seal, Sealed, SealFails
<1>26. CASE ResetTask
  BY <1>26 DEF ResetTask, Seal, Sealed, SealFails
<1>27. CASE ReconcileAudit
  BY <1>27 DEF ReconcileAudit, Sealed, SealFails
<1>28. CASE ConcludeReconciled
  BY <1>28 DEF ConcludeReconciled, DropMarker, Seal, Sealed, SealFails
<1>29. CASE UNCHANGED vars
  BY <1>29 DEF vars
<1> QED
  BY <1>1, <1>2, <1>3, <1>4, <1>5, <1>6, <1>7, <1>8, <1>9, <1>10, <1>11, <1>12, <1>13,
     <1>14, <1>15, <1>16, <1>17, <1>18, <1>19, <1>20, <1>21, <1>22, <1>23, <1>24, <1>25,
     <1>26, <1>27, <1>28, <1>29 DEF Next, ImportStep, AuditStep, StartUp
-----------------------------------------------------------------------------
(***************************************************************************)
(* What TAA owes: the busy flag and the durable marker.                    *)

LEMMA SealDurable ==
    ASSUME MarkerDurable, up' = up, (pending' = pending /\ UNCHANGED sealVars) \/ Seal
    PROVE  MarkerDurable'
<1>1. CASE Sealed
  BY <1>1 DEF MarkerDurable, Sealed
<1>2. CASE SealFails
  <2>1. sealOk' = FALSE
    BY <1>2 DEF SealFails
  <2> QED
    BY <2>1 DEF MarkerDurable
<1>3. CASE pending' = pending /\ UNCHANGED sealVars
  BY <1>3 DEF MarkerDurable, sealVars, fileVars
<1> QED
  BY <1>1, <1>2, <1>3 DEF Seal

LEMMA DurableStep == ASSUME OwnInv, OwnInv', MarkerDurable, [Next]_vars PROVE MarkerDurable'
<1> USE AuditAssumption DEF AuditAssumption, TypeOK, ImportStages, AuditStages, importVars, ownerVars,
        auditVars, sealVars, histVars, procVars, auditRest, startRest, fileVars, MarkerDurable
<1>1. ASSUME NEW i \in Imports, Begin(i) PROVE MarkerDurable'
  BY <1>1 DEF Begin, Abort, Superseded, ResetBusy, Seal, Sealed, SealFails, Step
<1>2. ASSUME NEW i \in Imports, ImportFails(i) PROVE MarkerDurable'
  BY <1>2 DEF ImportFails, Seal, Sealed, SealFails, Step
<1>3. ASSUME NEW i \in Imports, Download(i) PROVE MarkerDurable'
  BY <1>3 DEF Download, Step
<1>4. ASSUME NEW i \in Imports, StartWait(i) PROVE MarkerDurable'
  BY <1>4 DEF StartWait, ReadDone, Step
<1>5. ASSUME NEW i \in Imports, EndWait(i) PROVE MarkerDurable'
  BY <1>5 DEF EndWait, Step
<1>6. ASSUME NEW i \in Imports, Replace(i) PROVE MarkerDurable'
  BY <1>6 DEF Replace, SeenBy, Reading, Step
<1>7. ASSUME NEW i \in Imports, Extracted(i) PROVE MarkerDurable'
  BY <1>7 DEF Extracted, SeenBy, Reading, Step
<1>8. ASSUME NEW i \in Imports, Mark(i) PROVE MarkerDurable'
  BY <1>8 DEF Mark, Seal, Sealed, SealFails, Step
<1>9. ASSUME NEW i \in Imports, Launch(i) PROVE MarkerDurable'
  BY <1>9 DEF Launch, Goto, Step
<1>10. ASSUME NEW i \in Imports, ReleaseImport(i) PROVE MarkerDurable'
  BY <1>10 DEF ReleaseImport, Seal, Sealed, SealFails, Step
<1>11. ASSUME NEW i \in Imports, StartAudit(i) PROVE MarkerDurable'
  BY <1>11 DEF StartAudit, SetsBusy, Goto
<1>12. ASSUME NEW i \in Imports, EndScan(i) PROVE MarkerDurable'
  BY <1>12 DEF EndScan, Goto
<1>13. ASSUME NEW i \in Imports, CheckSuperseded(i) PROVE MarkerDurable'
  BY <1>13 DEF CheckSuperseded, Goto, Stale
<1>14. ASSUME NEW i \in Imports, KeepAudit(i) PROVE MarkerDurable'
  BY <1>14 DEF KeepAudit, Goto
<1>15. ASSUME NEW i \in Imports, FilterReport(i) PROVE MarkerDurable'
  BY <1>15 DEF FilterReport, Goto
<1>16. ASSUME NEW i \in Imports, SendAudit(i) PROVE MarkerDurable'
  BY <1>16 DEF SendAudit, Enqueue, Seal, Sealed, SealFails, Goto
<1>17. ASSUME NEW i \in Imports, ReturnAudit(i) PROVE MarkerDurable'
  BY <1>17 DEF ReturnAudit, Goto
<1>18. ASSUME NEW i \in Imports, ConcludeAudit(i) PROVE MarkerDurable'
  <2>1. up' = up /\ ((pending' = pending /\ UNCHANGED sealVars) \/ Seal)
    BY <1>18 DEF ConcludeAudit, DropMarker
  <2> QED
    BY <2>1, SealDurable
<1>19. ASSUME NEW i \in Imports, HandleAuditPanic(i) PROVE MarkerDurable'
  <2>1. up' = up /\ ((pending' = pending /\ UNCHANGED sealVars) \/ Seal)
    BY <1>19 DEF HandleAuditPanic, DropMarker
  <2> QED
    BY <2>1, SealDurable
<1>20. ASSUME NEW i \in Imports, ReportPanic(i) PROVE MarkerDurable'
  BY <1>20 DEF ReportPanic, Enqueue, Seal, Sealed, SealFails, Goto
<1>21. ASSUME NEW i \in Imports, FinishAudit(i) PROVE MarkerDurable'
  <2>1. up' = up /\ ((pending' = pending /\ UNCHANGED sealVars) \/ Seal)
    BY <1>21 DEF FinishAudit, DropMarker
  <2> QED
    BY <2>1, SealDurable
<1>22. ASSUME NEW i \in Imports, PanicAudit(i) PROVE MarkerDurable'
  BY <1>22 DEF PanicAudit, Goto
<1>23. CASE Crash
  BY <1>23 DEF Crash
<1>24. CASE Restart
  BY <1>24 DEF Restart
<1>25. CASE RecoverTask
  BY <1>25 DEF RecoverTask, Seal, Sealed, SealFails
<1>26. CASE ResetTask
  BY <1>26 DEF ResetTask, Seal, Sealed, SealFails
<1>27. CASE ReconcileAudit
  BY <1>27 DEF ReconcileAudit, Sealed, SealFails
<1>28. CASE ConcludeReconciled
  BY <1>28 DEF ConcludeReconciled, DropMarker, Seal, Sealed, SealFails
<1>29. CASE UNCHANGED vars
  BY <1>29 DEF vars
<1> QED
  BY <1>1, <1>2, <1>3, <1>4, <1>5, <1>6, <1>7, <1>8, <1>9, <1>10, <1>11, <1>12, <1>13,
     <1>14, <1>15, <1>16, <1>17, <1>18, <1>19, <1>20, <1>21, <1>22, <1>23, <1>24, <1>25,
     <1>26, <1>27, <1>28, <1>29 DEF Next, ImportStep, AuditStep, StartUp

LEMMA MarkerStep == ASSUME OwnInv, OwnInv', MarkerOwned, [Next]_vars PROVE MarkerOwned'
<1> USE AuditAssumption DEF AuditAssumption, TypeOK, ImportStages, AuditStages, importVars, ownerVars,
        auditVars, sealVars, histVars, procVars, auditRest, startRest, fileVars, OwnInv, Serial, LaunchedOnce,
        OwnerSound, Fenced, LaunchReady, Active, Before, Unsent, Early, Alive, Owns,
        MarkerOwned, Serving
<1>1. ASSUME NEW i \in Imports, Begin(i) PROVE MarkerOwned'
  BY <1>1 DEF Begin, Abort, Superseded, ResetBusy, Seal, Sealed, SealFails, Step
<1>2. ASSUME NEW i \in Imports, ImportFails(i) PROVE MarkerOwned'
  BY <1>2 DEF ImportFails, Seal, Sealed, SealFails, Step
<1>3. ASSUME NEW i \in Imports, Download(i) PROVE MarkerOwned'
  BY <1>3 DEF Download, Step
<1>4. ASSUME NEW i \in Imports, StartWait(i) PROVE MarkerOwned'
  BY <1>4 DEF StartWait, ReadDone, Step
<1>5. ASSUME NEW i \in Imports, EndWait(i) PROVE MarkerOwned'
  BY <1>5 DEF EndWait, Step
<1>6. ASSUME NEW i \in Imports, Replace(i) PROVE MarkerOwned'
  BY <1>6 DEF Replace, SeenBy, Reading, Step
<1>7. ASSUME NEW i \in Imports, Extracted(i) PROVE MarkerOwned'
  BY <1>7 DEF Extracted, SeenBy, Reading, Step
<1>8. ASSUME NEW i \in Imports, Mark(i) PROVE MarkerOwned'
  BY <1>8 DEF Mark, Seal, Sealed, SealFails, Step
<1>9. ASSUME NEW i \in Imports, Launch(i) PROVE MarkerOwned'
  BY <1>9 DEF Launch, Goto, Step
<1>10. ASSUME NEW i \in Imports, ReleaseImport(i) PROVE MarkerOwned'
  BY <1>10 DEF ReleaseImport, Seal, Sealed, SealFails, Step
<1>11. ASSUME NEW i \in Imports, StartAudit(i) PROVE MarkerOwned'
  BY <1>11 DEF StartAudit, SetsBusy, Goto
<1>12. ASSUME NEW i \in Imports, EndScan(i) PROVE MarkerOwned'
  BY <1>12 DEF EndScan, Goto
<1>13. ASSUME NEW i \in Imports, CheckSuperseded(i) PROVE MarkerOwned'
  BY <1>13 DEF CheckSuperseded, Goto, Stale
<1>14. ASSUME NEW i \in Imports, KeepAudit(i) PROVE MarkerOwned'
  BY <1>14 DEF KeepAudit, Goto
<1>15. ASSUME NEW i \in Imports, FilterReport(i) PROVE MarkerOwned'
  BY <1>15 DEF FilterReport, Goto
<1>16. ASSUME NEW i \in Imports, SendAudit(i) PROVE MarkerOwned'
  BY <1>16 DEF SendAudit, Enqueue, Seal, Sealed, SealFails, Goto
<1>17. ASSUME NEW i \in Imports, ReturnAudit(i) PROVE MarkerOwned'
  BY <1>17 DEF ReturnAudit, Goto
<1>18. ASSUME NEW i \in Imports, ConcludeAudit(i) PROVE MarkerOwned'
  BY <1>18 DEF ConcludeAudit, DropMarker, Seal, Sealed, SealFails, Goto
<1>19. ASSUME NEW i \in Imports, HandleAuditPanic(i) PROVE MarkerOwned'
  BY <1>19 DEF HandleAuditPanic, ResetBusy, DropMarker, Seal, Sealed, SealFails, Goto
<1>20. ASSUME NEW i \in Imports, ReportPanic(i) PROVE MarkerOwned'
  BY <1>20 DEF ReportPanic, Enqueue, Seal, Sealed, SealFails, Goto
<1>21. ASSUME NEW i \in Imports, FinishAudit(i) PROVE MarkerOwned'
  BY <1>21 DEF FinishAudit, ResetBusy, DropMarker, Seal, Sealed, SealFails, Goto
<1>22. ASSUME NEW i \in Imports, PanicAudit(i) PROVE MarkerOwned'
  BY <1>22 DEF PanicAudit, Goto
<1>23. CASE Crash
  BY <1>23 DEF Crash
<1>24. CASE Restart
  BY <1>24 DEF Restart
<1>25. CASE RecoverTask
  BY <1>25 DEF RecoverTask, Seal, Sealed, SealFails
<1>26. CASE ResetTask
  BY <1>26 DEF ResetTask, Seal, Sealed, SealFails
<1>27. CASE ReconcileAudit
  BY <1>27 DEF ReconcileAudit, Sealed, SealFails
<1>28. CASE ConcludeReconciled
  BY <1>28 DEF ConcludeReconciled, DropMarker, Seal, Sealed, SealFails
<1>29. CASE UNCHANGED vars
  BY <1>29 DEF vars
<1> QED
  BY <1>1, <1>2, <1>3, <1>4, <1>5, <1>6, <1>7, <1>8, <1>9, <1>10, <1>11, <1>12, <1>13,
     <1>14, <1>15, <1>16, <1>17, <1>18, <1>19, <1>20, <1>21, <1>22, <1>23, <1>24, <1>25,
     <1>26, <1>27, <1>28, <1>29 DEF Next, ImportStep, AuditStep, StartUp

LEMMA BusyStep == ASSUME OwnInv, OwnInv', BusyHasOwner, [Next]_vars PROVE BusyHasOwner'
<1> USE AuditAssumption DEF AuditAssumption, TypeOK, ImportStages, AuditStages, importVars, ownerVars,
        auditVars, sealVars, histVars, procVars, auditRest, startRest, fileVars, OwnInv, Serial, LaunchedOnce,
        OwnerSound, Fenced, LaunchReady, Active, Before, Unsent, Early, Alive, Owns,
        BusyHasOwner
<1>1. ASSUME NEW i \in Imports, Begin(i) PROVE BusyHasOwner'
  BY <1>1 DEF Begin, Abort, Superseded, ResetBusy, Seal, Sealed, SealFails, Step
<1>2. ASSUME NEW i \in Imports, ImportFails(i) PROVE BusyHasOwner'
  BY <1>2 DEF ImportFails, Seal, Sealed, SealFails, Step
<1>3. ASSUME NEW i \in Imports, Download(i) PROVE BusyHasOwner'
  BY <1>3 DEF Download, Step
<1>4. ASSUME NEW i \in Imports, StartWait(i) PROVE BusyHasOwner'
  BY <1>4 DEF StartWait, ReadDone, Step
<1>5. ASSUME NEW i \in Imports, EndWait(i) PROVE BusyHasOwner'
  BY <1>5 DEF EndWait, Step
<1>6. ASSUME NEW i \in Imports, Replace(i) PROVE BusyHasOwner'
  BY <1>6 DEF Replace, SeenBy, Reading, Step
<1>7. ASSUME NEW i \in Imports, Extracted(i) PROVE BusyHasOwner'
  BY <1>7 DEF Extracted, SeenBy, Reading, Step
<1>8. ASSUME NEW i \in Imports, Mark(i) PROVE BusyHasOwner'
  BY <1>8 DEF Mark, Seal, Sealed, SealFails, Step
<1>9. ASSUME NEW i \in Imports, Launch(i) PROVE BusyHasOwner'
  BY <1>9 DEF Launch, Goto, Step
<1>10. ASSUME NEW i \in Imports, ReleaseImport(i) PROVE BusyHasOwner'
  BY <1>10 DEF ReleaseImport, Seal, Sealed, SealFails, Step
<1>11. ASSUME NEW i \in Imports, StartAudit(i) PROVE BusyHasOwner'
  BY <1>11 DEF StartAudit, SetsBusy, Goto
<1>12. ASSUME NEW i \in Imports, EndScan(i) PROVE BusyHasOwner'
  BY <1>12 DEF EndScan, Goto
<1>13. ASSUME NEW i \in Imports, CheckSuperseded(i) PROVE BusyHasOwner'
  BY <1>13 DEF CheckSuperseded, Goto, Stale
<1>14. ASSUME NEW i \in Imports, KeepAudit(i) PROVE BusyHasOwner'
  BY <1>14 DEF KeepAudit, Goto
<1>15. ASSUME NEW i \in Imports, FilterReport(i) PROVE BusyHasOwner'
  BY <1>15 DEF FilterReport, Goto
<1>16. ASSUME NEW i \in Imports, SendAudit(i) PROVE BusyHasOwner'
  BY <1>16 DEF SendAudit, Enqueue, Seal, Sealed, SealFails, Goto
<1>17. ASSUME NEW i \in Imports, ReturnAudit(i) PROVE BusyHasOwner'
  BY <1>17 DEF ReturnAudit, Goto
<1>18. ASSUME NEW i \in Imports, ConcludeAudit(i) PROVE BusyHasOwner'
  BY <1>18 DEF ConcludeAudit, DropMarker, Seal, Sealed, SealFails, Goto
<1>19. ASSUME NEW i \in Imports, HandleAuditPanic(i) PROVE BusyHasOwner'
  <2>1. CASE Owns(i)
    <3>1. busy' = FALSE
      BY <1>19, <2>1 DEF HandleAuditPanic, ResetBusy
    <3> QED
      BY <3>1, Zenon DEF BusyHasOwner
  <2>2. CASE ~Owns(i)
    <3>1. /\ busy' = busy /\ owner' = owner /\ gen' = gen /\ UNCHANGED <<ipc, agen>>
          /\ apc' = [apc EXCEPT ![i] = apc'[i]] /\ Alive(i)
      BY <1>19, <2>2 DEF HandleAuditPanic, Goto
    <3>2. owner # i \/ ~busy
      BY <2>2, <3>1
    <3> QED
      BY <3>1, <3>2
  <2> QED
    BY <2>1, <2>2
<1>20. ASSUME NEW i \in Imports, ReportPanic(i) PROVE BusyHasOwner'
  BY <1>20 DEF ReportPanic, Enqueue, Seal, Sealed, SealFails, Goto
<1>21. ASSUME NEW i \in Imports, FinishAudit(i) PROVE BusyHasOwner'
  <2>1. CASE Owns(i)
    <3>1. busy' = FALSE
      BY <1>21, <2>1 DEF FinishAudit, ResetBusy
    <3> QED
      BY <3>1, Zenon DEF BusyHasOwner
  <2>2. CASE ~Owns(i)
    <3>1. /\ busy' = busy /\ owner' = owner /\ gen' = gen /\ UNCHANGED <<ipc, agen>>
          /\ apc' = [apc EXCEPT ![i] = apc'[i]] /\ Alive(i)
      BY <1>21, <2>2 DEF FinishAudit, Goto
    <3>2. owner # i \/ ~busy
      BY <2>2, <3>1
    <3> QED
      BY <3>1, <3>2
  <2> QED
    BY <2>1, <2>2
<1>22. ASSUME NEW i \in Imports, PanicAudit(i) PROVE BusyHasOwner'
  BY <1>22 DEF PanicAudit, Goto
<1>23. CASE Crash
  BY <1>23 DEF Crash
<1>24. CASE Restart
  BY <1>24 DEF Restart
<1>25. CASE RecoverTask
  BY <1>25 DEF RecoverTask, Seal, Sealed, SealFails
<1>26. CASE ResetTask
  BY <1>26 DEF ResetTask, Seal, Sealed, SealFails
<1>27. CASE ReconcileAudit
  BY <1>27 DEF ReconcileAudit, Sealed, SealFails
<1>28. CASE ConcludeReconciled
  BY <1>28 DEF ConcludeReconciled, DropMarker, Seal, Sealed, SealFails
<1>29. CASE UNCHANGED vars
  BY <1>29 DEF vars
<1> QED
  BY <1>1, <1>2, <1>3, <1>4, <1>5, <1>6, <1>7, <1>8, <1>9, <1>10, <1>11, <1>12, <1>13,
     <1>14, <1>15, <1>16, <1>17, <1>18, <1>19, <1>20, <1>21, <1>22, <1>23, <1>24, <1>25,
     <1>26, <1>27, <1>28, <1>29 DEF Next, ImportStep, AuditStep, StartUp

LEMMA CancelledStep == ASSUME OwnInv, OwnInv', BusyHasOwner, Cancelled, [Next]_vars PROVE Cancelled'
<1> USE AuditAssumption DEF AuditAssumption, TypeOK, ImportStages, AuditStages, importVars, ownerVars,
        auditVars, sealVars, histVars, procVars, auditRest, startRest, fileVars, OwnInv, Serial, LaunchedOnce,
        OwnerSound, Fenced, LaunchReady, Active, Before, Unsent, Early, Alive, Owns,
        Cancelled, BusyHasOwner
<1>1. ASSUME NEW i \in Imports, Begin(i) PROVE Cancelled'
  BY <1>1 DEF Begin, Abort, Superseded, ResetBusy, Seal, Sealed, SealFails, Step
<1>2. ASSUME NEW i \in Imports, ImportFails(i) PROVE Cancelled'
  BY <1>2 DEF ImportFails, Seal, Sealed, SealFails, Step
<1>3. ASSUME NEW i \in Imports, Download(i) PROVE Cancelled'
  BY <1>3 DEF Download, Step
<1>4. ASSUME NEW i \in Imports, StartWait(i) PROVE Cancelled'
  BY <1>4 DEF StartWait, ReadDone, Step
<1>5. ASSUME NEW i \in Imports, EndWait(i) PROVE Cancelled'
  BY <1>5 DEF EndWait, Step
<1>6. ASSUME NEW i \in Imports, Replace(i) PROVE Cancelled'
  BY <1>6 DEF Replace, SeenBy, Reading, Step
<1>7. ASSUME NEW i \in Imports, Extracted(i) PROVE Cancelled'
  BY <1>7 DEF Extracted, SeenBy, Reading, Step
<1>8. ASSUME NEW i \in Imports, Mark(i) PROVE Cancelled'
  BY <1>8 DEF Mark, Seal, Sealed, SealFails, Step
<1>9. ASSUME NEW i \in Imports, Launch(i) PROVE Cancelled'
  BY <1>9 DEF Launch, Goto, Step
<1>10. ASSUME NEW i \in Imports, ReleaseImport(i) PROVE Cancelled'
  BY <1>10 DEF ReleaseImport, Seal, Sealed, SealFails, Step
<1>11. ASSUME NEW i \in Imports, StartAudit(i) PROVE Cancelled'
  BY <1>11 DEF StartAudit, SetsBusy, Goto
<1>12. ASSUME NEW i \in Imports, EndScan(i) PROVE Cancelled'
  BY <1>12 DEF EndScan, Goto
<1>13. ASSUME NEW i \in Imports, CheckSuperseded(i) PROVE Cancelled'
  BY <1>13 DEF CheckSuperseded, Goto, Stale
<1>14. ASSUME NEW i \in Imports, KeepAudit(i) PROVE Cancelled'
  BY <1>14 DEF KeepAudit, Goto
<1>15. ASSUME NEW i \in Imports, FilterReport(i) PROVE Cancelled'
  BY <1>15 DEF FilterReport, Goto
<1>16. ASSUME NEW i \in Imports, SendAudit(i) PROVE Cancelled'
  BY <1>16 DEF SendAudit, Enqueue, Seal, Sealed, SealFails, Goto
<1>17. ASSUME NEW i \in Imports, ReturnAudit(i) PROVE Cancelled'
  BY <1>17 DEF ReturnAudit, Goto
<1>18. ASSUME NEW i \in Imports, ConcludeAudit(i) PROVE Cancelled'
  BY <1>18 DEF ConcludeAudit, DropMarker, Seal, Sealed, SealFails, Goto
<1>19. ASSUME NEW i \in Imports, HandleAuditPanic(i) PROVE Cancelled'
  BY <1>19 DEF HandleAuditPanic, ResetBusy, DropMarker, Seal, Sealed, SealFails, Goto
<1>20. ASSUME NEW i \in Imports, ReportPanic(i) PROVE Cancelled'
  BY <1>20 DEF ReportPanic, Enqueue, Seal, Sealed, SealFails, Goto
<1>21. ASSUME NEW i \in Imports, FinishAudit(i) PROVE Cancelled'
  BY <1>21 DEF FinishAudit, ResetBusy, DropMarker, Seal, Sealed, SealFails, Goto
<1>22. ASSUME NEW i \in Imports, PanicAudit(i) PROVE Cancelled'
  BY <1>22 DEF PanicAudit, Goto
<1>23. CASE Crash
  BY <1>23 DEF Crash
<1>24. CASE Restart
  BY <1>24 DEF Restart
<1>25. CASE RecoverTask
  BY <1>25 DEF RecoverTask, Seal, Sealed, SealFails
<1>26. CASE ResetTask
  BY <1>26 DEF ResetTask, Seal, Sealed, SealFails
<1>27. CASE ReconcileAudit
  BY <1>27 DEF ReconcileAudit, Sealed, SealFails
<1>28. CASE ConcludeReconciled
  BY <1>28 DEF ConcludeReconciled, DropMarker, Seal, Sealed, SealFails
<1>29. CASE UNCHANGED vars
  BY <1>29 DEF vars
<1> QED
  BY <1>1, <1>2, <1>3, <1>4, <1>5, <1>6, <1>7, <1>8, <1>9, <1>10, <1>11, <1>12, <1>13,
     <1>14, <1>15, <1>16, <1>17, <1>18, <1>19, <1>20, <1>21, <1>22, <1>23, <1>24, <1>25,
     <1>26, <1>27, <1>28, <1>29 DEF Next, ImportStep, AuditStep, StartUp

(* No report is ever taken back. *)

(* What one step does to the file, the queue and the history. *)
Shape ==
    /\ Sealed \/ UNCHANGED fileVars
    /\ up' = up /\ cut' = cut /\ overlap' = overlap /\ identified' = identified
    /\ aborted \subseteq aborted' /\ panicked \subseteq panicked' /\ reports \subseteq reports'

LEMMA StepShape == ASSUME [Next]_vars PROVE Shape \/ Crash \/ Restart
<1> DEFINE Goal == Shape \/ Crash \/ Restart
<1> SUFFICES Goal
  OBVIOUS
<1> USE DEF Shape, importVars, ownerVars, auditVars, sealVars, histVars, procVars, auditRest,
        startRest, fileVars
<1>1. ASSUME NEW i \in Imports, Begin(i) PROVE Goal
  BY <1>1 DEF Begin, Abort, Superseded, ResetBusy, Step, Serving, Seal, SealFails
<1>2. ASSUME NEW i \in Imports, ImportFails(i) PROVE Goal
  BY <1>2 DEF ImportFails, Step, Seal, SealFails
<1>3. ASSUME NEW i \in Imports, Download(i) PROVE Goal
  BY <1>3 DEF Download, Step
<1>4. ASSUME NEW i \in Imports, StartWait(i) PROVE Goal
  BY <1>4 DEF StartWait, ReadDone, Step
<1>5. ASSUME NEW i \in Imports, EndWait(i) PROVE Goal
  BY <1>5 DEF EndWait, Step
<1>6. ASSUME NEW i \in Imports, Replace(i) PROVE Goal
  BY <1>6 DEF Replace, SeenBy, Reading, Step
<1>7. ASSUME NEW i \in Imports, Extracted(i) PROVE Goal
  BY <1>7 DEF Extracted, SeenBy, Reading, Step
<1>8. ASSUME NEW i \in Imports, Mark(i) PROVE Goal
  BY <1>8 DEF Mark, Step, Seal, SealFails
<1>9. ASSUME NEW i \in Imports, Launch(i) PROVE Goal
  BY <1>9 DEF Launch, Goto, Step
<1>10. ASSUME NEW i \in Imports, ReleaseImport(i) PROVE Goal
  BY <1>10 DEF ReleaseImport, Step, Seal, SealFails
<1>11. ASSUME NEW i \in Imports, StartAudit(i) PROVE Goal
  BY <1>11 DEF StartAudit, SetsBusy, Goto
<1>12. ASSUME NEW i \in Imports, EndScan(i) PROVE Goal
  BY <1>12 DEF EndScan, Goto
<1>13. ASSUME NEW i \in Imports, CheckSuperseded(i) PROVE Goal
  BY <1>13 DEF CheckSuperseded, Goto, Stale
<1>14. ASSUME NEW i \in Imports, KeepAudit(i) PROVE Goal
  BY <1>14 DEF KeepAudit, Goto
<1>15. ASSUME NEW i \in Imports, FilterReport(i) PROVE Goal
  BY <1>15 DEF FilterReport, Goto
<1>16. ASSUME NEW i \in Imports, SendAudit(i) PROVE Goal
  BY <1>16 DEF SendAudit, Enqueue, Goto, Seal, SealFails
<1>17. ASSUME NEW i \in Imports, ReturnAudit(i) PROVE Goal
  BY <1>17 DEF ReturnAudit, Goto
<1>18. ASSUME NEW i \in Imports, ConcludeAudit(i) PROVE Goal
  BY <1>18 DEF ConcludeAudit, DropMarker, Goto, Seal, SealFails
<1>19. ASSUME NEW i \in Imports, HandleAuditPanic(i) PROVE Goal
  BY <1>19 DEF HandleAuditPanic, ResetBusy, DropMarker, Goto, Seal, SealFails
<1>20. ASSUME NEW i \in Imports, ReportPanic(i) PROVE Goal
  BY <1>20 DEF ReportPanic, Enqueue, Goto, Seal, SealFails
<1>21. ASSUME NEW i \in Imports, FinishAudit(i) PROVE Goal
  BY <1>21 DEF FinishAudit, ResetBusy, DropMarker, Goto, Seal, SealFails
<1>22. ASSUME NEW i \in Imports, PanicAudit(i) PROVE Goal
  BY <1>22 DEF PanicAudit, Goto
<1>23. CASE Crash
  BY <1>23
<1>24. CASE Restart
  BY <1>24
<1>25. CASE RecoverTask
  BY <1>25 DEF RecoverTask, Seal, SealFails
<1>26. CASE ResetTask
  BY <1>26 DEF ResetTask, Seal, SealFails
<1>27. CASE ReconcileAudit
  BY <1>27 DEF ReconcileAudit, Seal, SealFails
<1>28. CASE ConcludeReconciled
  BY <1>28 DEF ConcludeReconciled, DropMarker, Seal, SealFails
<1>29. CASE UNCHANGED vars
  BY <1>29 DEF vars
<1> QED
  BY <1>1, <1>2, <1>3, <1>4, <1>5, <1>6, <1>7, <1>8, <1>9, <1>10, <1>11, <1>12, <1>13,
     <1>14, <1>15, <1>16, <1>17, <1>18, <1>19, <1>20, <1>21, <1>22, <1>23, <1>24, <1>25,
     <1>26, <1>27, <1>28, <1>29 DEF Next, ImportStep, AuditStep, StartUp

(* A panicked audit stays on its way to its report, or is given up. *)
Window(k) == k \in panicked /\ apc[k] \in PanicPath

LEMMA WindowKept ==
    ASSUME OwnInv, [Next]_vars, NEW k \in Imports, Window(k), identified = TRUE
    PROVE  Window(k)' \/ <<k, "panic">> \in reports' \/ k \in aborted' \/ Crash
<1> DEFINE Goal == Window(k)' \/ <<k, "panic">> \in reports' \/ k \in aborted' \/ Crash
<1> SUFFICES Goal
  OBVIOUS
<1> USE DEF Window, PanicPath, TypeOK, ImportStages, AuditStages, importVars, ownerVars, auditVars, sealVars, histVars, procVars, auditRest,
        startRest, fileVars, OwnInv
<1>1. ASSUME NEW i \in Imports, Begin(i) PROVE Goal
  BY <1>1 DEF Begin, Abort, Superseded, ResetBusy, Step, Serving
<1>2. ASSUME NEW i \in Imports, ImportFails(i) PROVE Goal
  BY <1>2 DEF ImportFails, Step
<1>3. ASSUME NEW i \in Imports, Download(i) PROVE Goal
  BY <1>3 DEF Download, Step
<1>4. ASSUME NEW i \in Imports, StartWait(i) PROVE Goal
  BY <1>4 DEF StartWait, ReadDone, Step
<1>5. ASSUME NEW i \in Imports, EndWait(i) PROVE Goal
  BY <1>5 DEF EndWait, Step
<1>6. ASSUME NEW i \in Imports, Replace(i) PROVE Goal
  BY <1>6 DEF Replace, SeenBy, Reading, Step
<1>7. ASSUME NEW i \in Imports, Extracted(i) PROVE Goal
  BY <1>7 DEF Extracted, SeenBy, Reading, Step
<1>8. ASSUME NEW i \in Imports, Mark(i) PROVE Goal
  BY <1>8 DEF Mark, Step
<1>9. ASSUME NEW i \in Imports, Launch(i) PROVE Goal
  BY <1>9 DEF Launch, Goto, Step, LaunchedOnce
<1>10. ASSUME NEW i \in Imports, ReleaseImport(i) PROVE Goal
  BY <1>10 DEF ReleaseImport, Step
<1>11. ASSUME NEW i \in Imports, StartAudit(i) PROVE Goal
  BY <1>11 DEF StartAudit, SetsBusy, Goto
<1>12. ASSUME NEW i \in Imports, EndScan(i) PROVE Goal
  BY <1>12 DEF EndScan, Goto
<1>13. ASSUME NEW i \in Imports, CheckSuperseded(i) PROVE Goal
  BY <1>13 DEF CheckSuperseded, Goto, Stale
<1>14. ASSUME NEW i \in Imports, KeepAudit(i) PROVE Goal
  BY <1>14 DEF KeepAudit, Goto
<1>15. ASSUME NEW i \in Imports, FilterReport(i) PROVE Goal
  BY <1>15 DEF FilterReport, Goto
<1>16. ASSUME NEW i \in Imports, SendAudit(i) PROVE Goal
  BY <1>16 DEF SendAudit, Enqueue, Goto
<1>17. ASSUME NEW i \in Imports, ReturnAudit(i) PROVE Goal
  BY <1>17 DEF ReturnAudit, Goto
<1>18. ASSUME NEW i \in Imports, ConcludeAudit(i) PROVE Goal
  BY <1>18 DEF ConcludeAudit, DropMarker, Goto
<1>19. ASSUME NEW i \in Imports, HandleAuditPanic(i) PROVE Goal
  BY <1>19 DEF HandleAuditPanic, ResetBusy, DropMarker, Goto
<1>20. ASSUME NEW i \in Imports, ReportPanic(i) PROVE Goal
  BY <1>20 DEF ReportPanic, Enqueue, Goto
<1>21. ASSUME NEW i \in Imports, FinishAudit(i) PROVE Goal
  BY <1>21 DEF FinishAudit, ResetBusy, DropMarker, Goto
<1>22. ASSUME NEW i \in Imports, PanicAudit(i) PROVE Goal
  BY <1>22 DEF PanicAudit, Goto
<1>23. CASE Crash
  BY <1>23
<1>24. CASE Restart
  BY <1>24 DEF Restart
<1>25. CASE RecoverTask
  BY <1>25 DEF RecoverTask
<1>26. CASE ResetTask
  BY <1>26 DEF ResetTask
<1>27. CASE ReconcileAudit
  BY <1>27 DEF ReconcileAudit
<1>28. CASE ConcludeReconciled
  BY <1>28 DEF ConcludeReconciled, DropMarker
<1>29. CASE UNCHANGED vars
  BY <1>29 DEF vars
<1> QED
  BY <1>1, <1>2, <1>3, <1>4, <1>5, <1>6, <1>7, <1>8, <1>9, <1>10, <1>11, <1>12, <1>13,
     <1>14, <1>15, <1>16, <1>17, <1>18, <1>19, <1>20, <1>21, <1>22, <1>23, <1>24, <1>25,
     <1>26, <1>27, <1>28, <1>29 DEF Next, ImportStep, AuditStep, StartUp

(* The marker of an audit is dropped when the audit is answered, given up, or on its
   way to report its panic. *)
LEMMA MarkerDropped ==
    ASSUME OwnInv, AccountInv, [Next]_vars, NEW k \in Imports, pending = k, pending' # k,
           identified = TRUE, ScanEnabled, up = TRUE
    PROVE  Answered(k) \/ Window(k)' \/ k \in aborted' \/ Crash
<1> DEFINE Goal == Answered(k) \/ Window(k)' \/ k \in aborted' \/ Crash
<1> SUFFICES Goal
  OBVIOUS
<1>0. k # None
  BY AuditAssumption DEF AuditAssumption
<1> USE <1>0, AuditAssumption DEF AuditAssumption, Window, PanicPath, TypeOK, ImportStages, AuditStages, importVars, ownerVars, auditVars, sealVars, histVars, procVars, auditRest,
        startRest, fileVars,
        OwnInv, Serial, LaunchedOnce, OwnerSound, Fenced, LaunchReady, QueueSound, Active,
        Before, Unsent, Early, Alive, Owns,
        AccountInv, MarkerOwned, AnswerSound, AnswerOf, FileSound, Reconciled
<1>1. ASSUME NEW i \in Imports, Begin(i) PROVE Goal
  BY <1>1 DEF Begin, Abort, Superseded, ResetBusy, Step, Serving
<1>2. ASSUME NEW i \in Imports, ImportFails(i) PROVE Goal
  BY <1>2 DEF ImportFails, Step
<1>3. ASSUME NEW i \in Imports, Download(i) PROVE Goal
  BY <1>3 DEF Download, Step
<1>4. ASSUME NEW i \in Imports, StartWait(i) PROVE Goal
  BY <1>4 DEF StartWait, ReadDone, Step
<1>5. ASSUME NEW i \in Imports, EndWait(i) PROVE Goal
  BY <1>5 DEF EndWait, Step
<1>6. ASSUME NEW i \in Imports, Replace(i) PROVE Goal
  BY <1>6 DEF Replace, SeenBy, Reading, Step
<1>7. ASSUME NEW i \in Imports, Extracted(i) PROVE Goal
  BY <1>7 DEF Extracted, SeenBy, Reading, Step
<1>8. ASSUME NEW i \in Imports, Mark(i) PROVE Goal
  BY <1>8 DEF Mark, Step
<1>9. ASSUME NEW i \in Imports, Launch(i) PROVE Goal
  <2>1. pending' = pending
    BY <1>9 DEF Launch
  <2> QED
    BY <2>1
<1>10. ASSUME NEW i \in Imports, ReleaseImport(i) PROVE Goal
  BY <1>10 DEF ReleaseImport, Step
<1>11. ASSUME NEW i \in Imports, StartAudit(i) PROVE Goal
  BY <1>11 DEF StartAudit, SetsBusy, Goto
<1>12. ASSUME NEW i \in Imports, EndScan(i) PROVE Goal
  BY <1>12 DEF EndScan, Goto
<1>13. ASSUME NEW i \in Imports, CheckSuperseded(i) PROVE Goal
  BY <1>13 DEF CheckSuperseded, Goto, Stale
<1>14. ASSUME NEW i \in Imports, KeepAudit(i) PROVE Goal
  BY <1>14 DEF KeepAudit, Goto
<1>15. ASSUME NEW i \in Imports, FilterReport(i) PROVE Goal
  BY <1>15 DEF FilterReport, Goto
<1>16. ASSUME NEW i \in Imports, SendAudit(i) PROVE Goal
  BY <1>16 DEF SendAudit, Enqueue, Goto
<1>17. ASSUME NEW i \in Imports, ReturnAudit(i) PROVE Goal
  BY <1>17 DEF ReturnAudit, Goto
<1>18. ASSUME NEW i \in Imports, ConcludeAudit(i) PROVE Goal
  BY <1>18 DEF ConcludeAudit, DropMarker, Goto
<1>19. ASSUME NEW i \in Imports, HandleAuditPanic(i) PROVE Goal
  BY <1>19 DEF HandleAuditPanic, ResetBusy, DropMarker, Goto
<1>20. ASSUME NEW i \in Imports, ReportPanic(i) PROVE Goal
  BY <1>20 DEF ReportPanic, Enqueue, Goto
<1>21. ASSUME NEW i \in Imports, FinishAudit(i) PROVE Goal
  BY <1>21 DEF FinishAudit, ResetBusy, DropMarker, Goto
<1>22. ASSUME NEW i \in Imports, PanicAudit(i) PROVE Goal
  BY <1>22 DEF PanicAudit, Goto
<1>23. CASE Crash
  BY <1>23
<1>24. CASE Restart
  BY <1>24 DEF Restart
<1>25. CASE RecoverTask
  BY <1>25 DEF RecoverTask
<1>26. CASE ResetTask
  BY <1>26 DEF ResetTask
<1>27. CASE ReconcileAudit
  BY <1>27 DEF ReconcileAudit
<1>28. CASE ConcludeReconciled
  BY <1>28 DEF ConcludeReconciled, DropMarker
<1>29. CASE UNCHANGED vars
  BY <1>29 DEF vars
<1> QED
  BY <1>1, <1>2, <1>3, <1>4, <1>5, <1>6, <1>7, <1>8, <1>9, <1>10, <1>11, <1>12, <1>13,
     <1>14, <1>15, <1>16, <1>17, <1>18, <1>19, <1>20, <1>21, <1>22, <1>23, <1>24, <1>25,
     <1>26, <1>27, <1>28, <1>29 DEF Next, ImportStep, AuditStep, StartUp

(* An audit begins with the launch of its import. *)
LEMMA Launched ==
    ASSUME OwnInv, [Next]_vars, NEW k \in Imports, apc[k] = "none", apc'[k] # "none"
    PROVE  ipc[k] = "launch"
<1> USE DEF TypeOK, ImportStages, AuditStages, importVars, ownerVars, auditVars, sealVars, histVars, procVars, auditRest,
        startRest, fileVars, OwnInv
<1>1. ASSUME NEW i \in Imports, Begin(i) PROVE ipc[k] = "launch"
  BY <1>1 DEF Begin, Abort, Superseded, ResetBusy, Step, Serving
<1>2. ASSUME NEW i \in Imports, ImportFails(i) PROVE ipc[k] = "launch"
  BY <1>2 DEF ImportFails, Step
<1>3. ASSUME NEW i \in Imports, Download(i) PROVE ipc[k] = "launch"
  BY <1>3 DEF Download, Step
<1>4. ASSUME NEW i \in Imports, StartWait(i) PROVE ipc[k] = "launch"
  BY <1>4 DEF StartWait, ReadDone, Step
<1>5. ASSUME NEW i \in Imports, EndWait(i) PROVE ipc[k] = "launch"
  BY <1>5 DEF EndWait, Step
<1>6. ASSUME NEW i \in Imports, Replace(i) PROVE ipc[k] = "launch"
  BY <1>6 DEF Replace, SeenBy, Reading, Step
<1>7. ASSUME NEW i \in Imports, Extracted(i) PROVE ipc[k] = "launch"
  BY <1>7 DEF Extracted, SeenBy, Reading, Step
<1>8. ASSUME NEW i \in Imports, Mark(i) PROVE ipc[k] = "launch"
  BY <1>8 DEF Mark, Step
<1>9. ASSUME NEW i \in Imports, Launch(i) PROVE ipc[k] = "launch"
  BY <1>9 DEF Launch, Goto, Step
<1>10. ASSUME NEW i \in Imports, ReleaseImport(i) PROVE ipc[k] = "launch"
  BY <1>10 DEF ReleaseImport, Step
<1>11. ASSUME NEW i \in Imports, StartAudit(i) PROVE ipc[k] = "launch"
  BY <1>11 DEF StartAudit, SetsBusy, Goto
<1>12. ASSUME NEW i \in Imports, EndScan(i) PROVE ipc[k] = "launch"
  BY <1>12 DEF EndScan, Goto
<1>13. ASSUME NEW i \in Imports, CheckSuperseded(i) PROVE ipc[k] = "launch"
  BY <1>13 DEF CheckSuperseded, Goto, Stale
<1>14. ASSUME NEW i \in Imports, KeepAudit(i) PROVE ipc[k] = "launch"
  BY <1>14 DEF KeepAudit, Goto
<1>15. ASSUME NEW i \in Imports, FilterReport(i) PROVE ipc[k] = "launch"
  BY <1>15 DEF FilterReport, Goto
<1>16. ASSUME NEW i \in Imports, SendAudit(i) PROVE ipc[k] = "launch"
  BY <1>16 DEF SendAudit, Enqueue, Goto
<1>17. ASSUME NEW i \in Imports, ReturnAudit(i) PROVE ipc[k] = "launch"
  BY <1>17 DEF ReturnAudit, Goto
<1>18. ASSUME NEW i \in Imports, ConcludeAudit(i) PROVE ipc[k] = "launch"
  BY <1>18 DEF ConcludeAudit, DropMarker, Goto
<1>19. ASSUME NEW i \in Imports, HandleAuditPanic(i) PROVE ipc[k] = "launch"
  BY <1>19 DEF HandleAuditPanic, ResetBusy, DropMarker, Goto
<1>20. ASSUME NEW i \in Imports, ReportPanic(i) PROVE ipc[k] = "launch"
  BY <1>20 DEF ReportPanic, Enqueue, Goto
<1>21. ASSUME NEW i \in Imports, FinishAudit(i) PROVE ipc[k] = "launch"
  BY <1>21 DEF FinishAudit, ResetBusy, DropMarker, Goto
<1>22. ASSUME NEW i \in Imports, PanicAudit(i) PROVE ipc[k] = "launch"
  BY <1>22 DEF PanicAudit, Goto
<1>23. CASE Crash
  BY <1>23 DEF Crash
<1>24. CASE Restart
  BY <1>24 DEF Restart
<1>25. CASE RecoverTask
  BY <1>25 DEF RecoverTask
<1>26. CASE ResetTask
  BY <1>26 DEF ResetTask
<1>27. CASE ReconcileAudit
  BY <1>27 DEF ReconcileAudit
<1>28. CASE ConcludeReconciled
  BY <1>28 DEF ConcludeReconciled, DropMarker
<1>29. CASE UNCHANGED vars
  BY <1>29 DEF vars
<1> QED
  BY <1>1, <1>2, <1>3, <1>4, <1>5, <1>6, <1>7, <1>8, <1>9, <1>10, <1>11, <1>12, <1>13,
     <1>14, <1>15, <1>16, <1>17, <1>18, <1>19, <1>20, <1>21, <1>22, <1>23, <1>24, <1>25,
     <1>26, <1>27, <1>28, <1>29 DEF Next, ImportStep, AuditStep, StartUp

(* Only a crash takes an answer back. *)
LEMMA AnsweredKept ==
    ASSUME [Next]_vars, ~Crash, NEW k \in Imports, Answered(k) PROVE Answered(k)'
BY StepShape DEF Shape, Answered, Restart

LEMMA UpOrDown == ASSUME up' = up PROVE ~Crash
<1>1. Crash => up = TRUE /\ up' = FALSE
  BY DEF Crash
<1> QED
  BY <1>1

(* What the process knows of one audit is still known after the step. *)
LEMMA MemoryStep ==
    ASSUME OwnInv, OwnInv', AccountInv, [Next]_vars
    PROVE  MemorySound'
<1> SUFFICES ASSUME ScanEnabled, identified' = TRUE, up' = TRUE, NEW k \in Imports, Known(k)'
             PROVE  InMemory(k)'
  BY DEF MemorySound
<1>0. ~Crash /\ k # None
  <2>1. CASE Crash
    <3>1. up' = FALSE
      BY <2>1 DEF Crash
    <3> QED
      BY <3>1
  <2> QED
    BY <2>1, AuditAssumption DEF AuditAssumption
<1>1. CASE Restart
  <2>1. /\ up = FALSE /\ identified = TRUE /\ Known(k) /\ pending' = sealedPending
        /\ reports' = reports
    BY <1>1 DEF Restart, Known, fileVars, auditVars, histVars, OwnInv, TypeOK
  <2>2. sealedPending = k \/ OnDisk(k)
    BY <2>1 DEF AccountInv, DiskSound
  <2>3. OnDisk(k) => Answered(k)
    BY DEF OnDisk, Answered, OwnInv, QueueSound
  <2> QED
    BY <2>1, <2>2, <2>3 DEF InMemory, Answered
<1>2. CASE Shape
  <2>1. identified = TRUE /\ up = TRUE
    BY <1>2 DEF Shape
  <2>2. ASSUME pending = k PROVE InMemory(k)'
    <3>1. Answered(k) => Answered(k)'
      BY <1>0, AnsweredKept
    <3>2. k \notin aborted'
      BY DEF Known
    <3> QED
      BY <1>0, <2>1, <2>2, <3>1, <3>2, MarkerDropped DEF InMemory, Window
  <2>3. CASE Known(k)
    <3>1. InMemory(k)
      BY <2>1, <2>3 DEF AccountInv, MemorySound
    <3>2. Answered(k) => Answered(k)'
      BY <1>0, AnsweredKept
    <3>3. Window(k) => Window(k)' \/ <<k, "panic">> \in reports'
      BY <1>0, <2>1, WindowKept DEF Known
    <3>4. <<k, "panic">> \in reports' => Answered(k)'
      BY DEF Answered, Outcomes
    <3> QED
      BY <2>2, <3>1, <3>2, <3>3, <3>4 DEF InMemory, Window
  <2>4. CASE ~Known(k)
    <3>1. k \notin aborted \cup cut /\ apc[k] = "none" /\ k \notin marked
      BY <1>2, <2>4 DEF Known, Shape
    <3>2. CASE k \in marked'
      <4>1. Sealed
        BY <1>2, <3>1, <3>2 DEF Shape, fileVars
      <4> QED
        BY <4>1, <3>1, <3>2 DEF Sealed, InMemory
    <3>3. CASE apc'[k] # "none"
      <4>1. ipc[k] = "launch"
        BY <3>1, <3>3, Launched
      <4>2. pending = k
        BY <4>1 DEF OwnInv, LaunchReady
      <4> QED
        BY <2>2, <4>2
    <3> QED
      BY <3>2, <3>3 DEF Known
  <2> QED
    BY <2>3, <2>4
<1> QED
  BY <1>0, <1>1, <1>2, StepShape

(* Nothing but a restart happens while the process is down. *)
LEMMA Asleep == ASSUME OwnInv, [Next]_vars, up = FALSE, up' = FALSE PROVE UNCHANGED vars
<1> USE DEF OwnInv, TypeOK
<1>1. ASSUME NEW i \in Imports, Begin(i) PROVE UNCHANGED vars
  BY <1>1 DEF Begin, Abort, Superseded, ResetBusy, Step, Serving
<1>2. ASSUME NEW i \in Imports, ImportFails(i) PROVE UNCHANGED vars
  BY <1>2 DEF ImportFails, Step
<1>3. ASSUME NEW i \in Imports, Download(i) PROVE UNCHANGED vars
  BY <1>3 DEF Download, Step
<1>4. ASSUME NEW i \in Imports, StartWait(i) PROVE UNCHANGED vars
  BY <1>4 DEF StartWait, ReadDone, Step
<1>5. ASSUME NEW i \in Imports, EndWait(i) PROVE UNCHANGED vars
  BY <1>5 DEF EndWait, Step
<1>6. ASSUME NEW i \in Imports, Replace(i) PROVE UNCHANGED vars
  BY <1>6 DEF Replace, SeenBy, Reading, Step
<1>7. ASSUME NEW i \in Imports, Extracted(i) PROVE UNCHANGED vars
  BY <1>7 DEF Extracted, SeenBy, Reading, Step
<1>8. ASSUME NEW i \in Imports, Mark(i) PROVE UNCHANGED vars
  BY <1>8 DEF Mark, Step
<1>9. ASSUME NEW i \in Imports, Launch(i) PROVE UNCHANGED vars
  BY <1>9 DEF Launch, Goto, Step
<1>10. ASSUME NEW i \in Imports, ReleaseImport(i) PROVE UNCHANGED vars
  BY <1>10 DEF ReleaseImport, Step
<1>11. ASSUME NEW i \in Imports, StartAudit(i) PROVE UNCHANGED vars
  BY <1>11 DEF StartAudit, SetsBusy, Goto
<1>12. ASSUME NEW i \in Imports, EndScan(i) PROVE UNCHANGED vars
  BY <1>12 DEF EndScan, Goto
<1>13. ASSUME NEW i \in Imports, CheckSuperseded(i) PROVE UNCHANGED vars
  BY <1>13 DEF CheckSuperseded, Goto, Stale
<1>14. ASSUME NEW i \in Imports, KeepAudit(i) PROVE UNCHANGED vars
  BY <1>14 DEF KeepAudit, Goto
<1>15. ASSUME NEW i \in Imports, FilterReport(i) PROVE UNCHANGED vars
  BY <1>15 DEF FilterReport, Goto
<1>16. ASSUME NEW i \in Imports, SendAudit(i) PROVE UNCHANGED vars
  BY <1>16 DEF SendAudit, Enqueue, Goto
<1>17. ASSUME NEW i \in Imports, ReturnAudit(i) PROVE UNCHANGED vars
  BY <1>17 DEF ReturnAudit, Goto
<1>18. ASSUME NEW i \in Imports, ConcludeAudit(i) PROVE UNCHANGED vars
  BY <1>18 DEF ConcludeAudit, DropMarker, Goto
<1>19. ASSUME NEW i \in Imports, HandleAuditPanic(i) PROVE UNCHANGED vars
  BY <1>19 DEF HandleAuditPanic, ResetBusy, DropMarker, Goto
<1>20. ASSUME NEW i \in Imports, ReportPanic(i) PROVE UNCHANGED vars
  BY <1>20 DEF ReportPanic, Enqueue, Goto
<1>21. ASSUME NEW i \in Imports, FinishAudit(i) PROVE UNCHANGED vars
  BY <1>21 DEF FinishAudit, ResetBusy, DropMarker, Goto
<1>22. ASSUME NEW i \in Imports, PanicAudit(i) PROVE UNCHANGED vars
  BY <1>22 DEF PanicAudit, Goto
<1>23. CASE Crash
  BY <1>23 DEF Crash
<1>24. CASE Restart
  BY <1>24 DEF Restart
<1>25. CASE RecoverTask
  BY <1>25 DEF RecoverTask
<1>26. CASE ResetTask
  BY <1>26 DEF ResetTask
<1>27. CASE ReconcileAudit
  BY <1>27 DEF ReconcileAudit
<1>28. CASE ConcludeReconciled
  BY <1>28 DEF ConcludeReconciled, DropMarker
<1>29. CASE UNCHANGED vars
  BY <1>29 DEF vars
<1> QED
  BY <1>1, <1>2, <1>3, <1>4, <1>5, <1>6, <1>7, <1>8, <1>9, <1>10, <1>11, <1>12, <1>13,
     <1>14, <1>15, <1>16, <1>17, <1>18, <1>19, <1>20, <1>21, <1>22, <1>23, <1>24, <1>25,
     <1>26, <1>27, <1>28, <1>29 DEF Next, ImportStep, AuditStep, StartUp

(* What the file says of one audit. *)
LEMMA DiskStep ==
    ASSUME OwnInv, OwnInv', AccountInv, MemorySound', [Next]_vars
    PROVE  DiskSound'
<1> SUFFICES ASSUME ScanEnabled, identified' = TRUE, NEW k \in Imports, Known(k)',
                    k \in marked' \/ up' = FALSE
             PROVE  (sealedPending = k \/ OnDisk(k) \/ (up = TRUE /\ Unreported(k)))'
  BY DEF DiskSound
<1>1. CASE Restart
  <2>1. /\ up = FALSE /\ identified = TRUE /\ Known(k)
        /\ UNCHANGED <<sealedPending, sealedReports>>
    BY <1>1 DEF Restart, Known, fileVars, auditVars, histVars, OwnInv, TypeOK
  <2>2. sealedPending = k \/ OnDisk(k)
    BY <2>1 DEF AccountInv, DiskSound
  <2> QED
    BY <2>1, <2>2 DEF OnDisk
<1>2. CASE Crash
  <2>1. /\ up = TRUE /\ identified = TRUE /\ UNCHANGED <<sealedPending, sealedReports, marked, aborted>>
        /\ k \notin cut /\ (apc[k] # "none" => ~Unsealed(k) /\ ~Unreported(k))
        /\ Known(k)
    BY <1>2 DEF Crash, Known, sealVars, fileVars, histVars, OwnInv, TypeOK
  <2>2. CASE k \notin marked
    <3>1. Said(k, sealedReports)
      BY <2>1, <2>2 DEF Known, Unsealed
    <3> QED
      BY <2>1, <3>1 DEF Said, OnDisk
  <2>3. CASE k \in marked
    <3>1. sealedPending = k \/ OnDisk(k) \/ Unreported(k)
      BY <2>1, <2>3 DEF AccountInv, DiskSound
    <3>2. Unreported(k) => apc[k] # "none"
      BY DEF Unreported, AccountInv, TwiceSound, TwiceOf, Said, Outcomes
    <3> QED
      BY <2>1, <3>1, <3>2 DEF OnDisk
  <2> QED
    BY <2>2, <2>3
<1>3. CASE Shape /\ ~Crash
  <2>1. /\ identified = TRUE /\ up' = up /\ (k \notin aborted \cup cut)
    BY <1>3 DEF Shape, Known
  <2>2. CASE up = FALSE
    <3>1. UNCHANGED vars
      BY <2>1, <2>2, <1>3, Asleep
    <3>2. Known(k)
      BY <3>1 DEF vars, Known, auditVars, histVars, procVars, sealVars, fileVars
    <3>3. sealedPending = k \/ OnDisk(k)
      BY <2>1, <2>2, <3>2 DEF AccountInv, DiskSound
    <3> QED
      BY <3>1, <3>3 DEF vars, sealVars, fileVars, OnDisk
  <2>3. CASE up = TRUE /\ Sealed
    <3>1. InMemory(k)'
      BY <2>1, <2>3 DEF MemorySound
    <3>2. sealedPending' = pending' /\ sealedReports' = reports'
      BY <2>3 DEF Sealed
    <3> QED
      BY <2>1, <2>3, <3>1, <3>2 DEF InMemory, OnDisk, Answered, Unreported, PanicPath
  <2>4. CASE up = TRUE /\ UNCHANGED fileVars
    <3>1. k \in marked /\ Known(k) /\ UNCHANGED <<sealedPending, sealedReports>>
      BY <2>1, <2>4 DEF Known, fileVars
    <3>2. sealedPending = k \/ OnDisk(k) \/ Unreported(k)
      BY <2>1, <2>4, <3>1 DEF AccountInv, DiskSound
    <3>3. CASE Unreported(k) /\ sealedPending # k /\ ~OnDisk(k)
      <4>1. Window(k) => Window(k)' \/ <<k, "panic">> \in reports'
        BY <1>3, <2>1, WindowKept DEF Known
      <4>2. k \in panicked' /\ (<<k, "panic">> \in reports => <<k, "panic">> \in reports')
        BY <1>3, <3>3 DEF Shape, Unreported
      <4>3. <<k, "panic">> \notin sealedReports'
        BY <3>1, <3>3 DEF OnDisk, Outcomes
      <4> QED
        BY <2>1, <2>4, <3>1, <3>3, <4>1, <4>2, <4>3 DEF Unreported, Window, PanicPath
    <3> QED
      BY <3>1, <3>2, <3>3 DEF OnDisk
  <2> QED
    BY <1>3, <2>2, <2>3, <2>4 DEF Shape, OwnInv, TypeOK
<1> QED
  BY <1>1, <1>2, <1>3, StepShape

(* One audit that nobody gave up: it owns its marker until it has spoken. *)
AnswerIf(k) == ScanEnabled /\ identified = TRUE /\ k \notin aborted => AnswerOf(k)

LEMMA AnswerStep ==
    ASSUME OwnInv, OwnInv', AccountInv, [Next]_vars, NEW k \in Imports
    PROVE  AnswerIf(k)'
<1>0. AnswerIf(k) /\ (up' = up => (Answered(k) => Answered(k)'))
  BY AnsweredKept, UpOrDown DEF AccountInv, AnswerSound, AnswerIf
<1> USE <1>0, AuditAssumption DEF AuditAssumption, TypeOK, ImportStages, AuditStages, importVars, ownerVars, auditVars, sealVars, histVars, procVars, auditRest,
        startRest, fileVars,
        OwnInv, Serial, LaunchedOnce, OwnerSound, Fenced, LaunchReady, QueueSound, Active,
        Before, Unsent, Early, Alive, Owns,
        AccountInv, MarkerOwned, BusyHasOwner, Cancelled, AnswerOf, AnswerIf, PanicPath, FileSound
<1>1. ASSUME NEW i \in Imports, Begin(i) PROVE AnswerIf(k)'
  BY <1>1 DEF Begin, Abort, Superseded, ResetBusy, Step, Serving
<1>2. ASSUME NEW i \in Imports, ImportFails(i) PROVE AnswerIf(k)'
  BY <1>2 DEF ImportFails, Step
<1>3. ASSUME NEW i \in Imports, Download(i) PROVE AnswerIf(k)'
  BY <1>3 DEF Download, Step
<1>4. ASSUME NEW i \in Imports, StartWait(i) PROVE AnswerIf(k)'
  BY <1>4 DEF StartWait, ReadDone, Step
<1>5. ASSUME NEW i \in Imports, EndWait(i) PROVE AnswerIf(k)'
  BY <1>5 DEF EndWait, Step
<1>6. ASSUME NEW i \in Imports, Replace(i) PROVE AnswerIf(k)'
  BY <1>6 DEF Replace, SeenBy, Reading, Step
<1>7. ASSUME NEW i \in Imports, Extracted(i) PROVE AnswerIf(k)'
  BY <1>7 DEF Extracted, SeenBy, Reading, Step
<1>8. ASSUME NEW i \in Imports, Mark(i) PROVE AnswerIf(k)'
  BY <1>8 DEF Mark, Step
<1>9. ASSUME NEW i \in Imports, Launch(i) PROVE AnswerIf(k)'
  BY <1>9 DEF Launch, Goto, Step
<1>10. ASSUME NEW i \in Imports, ReleaseImport(i) PROVE AnswerIf(k)'
  BY <1>10 DEF ReleaseImport, Step
<1>11. ASSUME NEW i \in Imports, StartAudit(i) PROVE AnswerIf(k)'
  BY <1>11 DEF StartAudit, SetsBusy, Goto
<1>12. ASSUME NEW i \in Imports, EndScan(i) PROVE AnswerIf(k)'
  BY <1>12 DEF EndScan, Goto
<1>13. ASSUME NEW i \in Imports, CheckSuperseded(i) PROVE AnswerIf(k)'
  BY <1>13 DEF CheckSuperseded, Goto, Stale
<1>14. ASSUME NEW i \in Imports, KeepAudit(i) PROVE AnswerIf(k)'
  BY <1>14 DEF KeepAudit, Goto
<1>15. ASSUME NEW i \in Imports, FilterReport(i) PROVE AnswerIf(k)'
  BY <1>15 DEF FilterReport, Goto
<1>16. ASSUME NEW i \in Imports, SendAudit(i) PROVE AnswerIf(k)'
  <2>1. i = k /\ identified = TRUE => Answered(k)'
    BY <1>16 DEF SendAudit, Enqueue, Answered, Outcomes
  <2> QED
    BY <1>16, <2>1 DEF SendAudit, Enqueue, Goto
<1>17. ASSUME NEW i \in Imports, ReturnAudit(i) PROVE AnswerIf(k)'
  BY <1>17 DEF ReturnAudit, Goto
<1>18. ASSUME NEW i \in Imports, ConcludeAudit(i) PROVE AnswerIf(k)'
  BY <1>18 DEF ConcludeAudit, DropMarker, Goto
<1>19. ASSUME NEW i \in Imports, HandleAuditPanic(i) PROVE AnswerIf(k)'
  BY <1>19 DEF HandleAuditPanic, ResetBusy, DropMarker, Goto
<1>20. ASSUME NEW i \in Imports, ReportPanic(i) PROVE AnswerIf(k)'
  <2>1. i = k /\ identified = TRUE => Answered(k)'
    BY <1>20 DEF ReportPanic, Enqueue, Answered, Outcomes
  <2> QED
    BY <1>20, <2>1 DEF ReportPanic, Enqueue, Goto
<1>21. ASSUME NEW i \in Imports, FinishAudit(i) PROVE AnswerIf(k)'
  BY <1>21 DEF FinishAudit, ResetBusy, DropMarker, Goto
<1>22. ASSUME NEW i \in Imports, PanicAudit(i) PROVE AnswerIf(k)'
  BY <1>22 DEF PanicAudit, Goto
<1>23. CASE Crash
  BY <1>23 DEF Crash
<1>24. CASE Restart
  BY <1>24 DEF Restart
<1>25. CASE RecoverTask
  BY <1>25 DEF RecoverTask
<1>26. CASE ResetTask
  BY <1>26 DEF ResetTask
<1>27. CASE ReconcileAudit
  BY <1>27 DEF ReconcileAudit
<1>28. CASE ConcludeReconciled
  BY <1>28 DEF ConcludeReconciled, DropMarker
<1>29. CASE UNCHANGED vars
  BY <1>29 DEF vars
<1> QED
  BY <1>1, <1>2, <1>3, <1>4, <1>5, <1>6, <1>7, <1>8, <1>9, <1>10, <1>11, <1>12, <1>13,
     <1>14, <1>15, <1>16, <1>17, <1>18, <1>19, <1>20, <1>21, <1>22, <1>23, <1>24, <1>25,
     <1>26, <1>27, <1>28, <1>29 DEF Next, ImportStep, AuditStep, StartUp

(* The start-up drops the marker only after the report is queued. *)
LEMMA ReconciledStep == ASSUME OwnInv, Reconciled, [Next]_vars PROVE Reconciled'
<1> USE AuditAssumption DEF AuditAssumption, TypeOK, OwnInv, Serial, Active, Alive, Reconciled, Answered,
        importVars, ownerVars, auditVars, sealVars, histVars, procVars, auditRest,
        startRest, fileVars
<1>1. ASSUME NEW i \in Imports, Begin(i) PROVE Reconciled'
  BY <1>1 DEF Begin, Abort, Superseded, ResetBusy, Step, Serving
<1>2. ASSUME NEW i \in Imports, ImportFails(i) PROVE Reconciled'
  BY <1>2 DEF ImportFails, Step
<1>3. ASSUME NEW i \in Imports, Download(i) PROVE Reconciled'
  BY <1>3 DEF Download, Step
<1>4. ASSUME NEW i \in Imports, StartWait(i) PROVE Reconciled'
  BY <1>4 DEF StartWait, ReadDone, Step
<1>5. ASSUME NEW i \in Imports, EndWait(i) PROVE Reconciled'
  BY <1>5 DEF EndWait, Step
<1>6. ASSUME NEW i \in Imports, Replace(i) PROVE Reconciled'
  BY <1>6 DEF Replace, SeenBy, Reading, Step
<1>7. ASSUME NEW i \in Imports, Extracted(i) PROVE Reconciled'
  BY <1>7 DEF Extracted, SeenBy, Reading, Step
<1>8. ASSUME NEW i \in Imports, Mark(i) PROVE Reconciled'
  BY <1>8 DEF Mark, Step
<1>9. ASSUME NEW i \in Imports, Launch(i) PROVE Reconciled'
  BY <1>9 DEF Launch, Goto, Step
<1>10. ASSUME NEW i \in Imports, ReleaseImport(i) PROVE Reconciled'
  BY <1>10 DEF ReleaseImport, Step
<1>11. ASSUME NEW i \in Imports, StartAudit(i) PROVE Reconciled'
  BY <1>11 DEF StartAudit, SetsBusy, Goto
<1>12. ASSUME NEW i \in Imports, EndScan(i) PROVE Reconciled'
  BY <1>12 DEF EndScan, Goto
<1>13. ASSUME NEW i \in Imports, CheckSuperseded(i) PROVE Reconciled'
  BY <1>13 DEF CheckSuperseded, Goto, Stale
<1>14. ASSUME NEW i \in Imports, KeepAudit(i) PROVE Reconciled'
  BY <1>14 DEF KeepAudit, Goto
<1>15. ASSUME NEW i \in Imports, FilterReport(i) PROVE Reconciled'
  BY <1>15 DEF FilterReport, Goto
<1>16. ASSUME NEW i \in Imports, SendAudit(i) PROVE Reconciled'
  BY <1>16 DEF SendAudit, Enqueue, Goto
<1>17. ASSUME NEW i \in Imports, ReturnAudit(i) PROVE Reconciled'
  BY <1>17 DEF ReturnAudit, Goto
<1>18. ASSUME NEW i \in Imports, ConcludeAudit(i) PROVE Reconciled'
  BY <1>18 DEF ConcludeAudit, DropMarker, Goto
<1>19. ASSUME NEW i \in Imports, HandleAuditPanic(i) PROVE Reconciled'
  BY <1>19 DEF HandleAuditPanic, ResetBusy, DropMarker, Goto
<1>20. ASSUME NEW i \in Imports, ReportPanic(i) PROVE Reconciled'
  BY <1>20 DEF ReportPanic, Enqueue, Goto
<1>21. ASSUME NEW i \in Imports, FinishAudit(i) PROVE Reconciled'
  BY <1>21 DEF FinishAudit, ResetBusy, DropMarker, Goto
<1>22. ASSUME NEW i \in Imports, PanicAudit(i) PROVE Reconciled'
  BY <1>22 DEF PanicAudit, Goto
<1>23. CASE Crash
  BY <1>23 DEF Crash
<1>24. CASE Restart
  BY <1>24 DEF Restart
<1>25. CASE RecoverTask
  BY <1>25 DEF RecoverTask
<1>26. CASE ResetTask
  BY <1>26 DEF ResetTask
<1>27. CASE ReconcileAudit
  BY <1>27 DEF ReconcileAudit, Outcomes
<1>28. CASE ConcludeReconciled
  BY <1>28 DEF ConcludeReconciled, DropMarker
<1>29. CASE UNCHANGED vars
  BY <1>29 DEF vars
<1> QED
  BY <1>1, <1>2, <1>3, <1>4, <1>5, <1>6, <1>7, <1>8, <1>9, <1>10, <1>11, <1>12, <1>13,
     <1>14, <1>15, <1>16, <1>17, <1>18, <1>19, <1>20, <1>21, <1>22, <1>23, <1>24, <1>25,
     <1>26, <1>27, <1>28, <1>29 DEF Next, ImportStep, AuditStep, StartUp

(* How far the file lags behind, and what the start-up takes from it. *)
LEMMA FileSoundStep == ASSUME OwnInv, OwnInv', AccountInv, [Next]_vars PROVE FileSound'
<1>0. up' = up => \A k \in Imports : Answered(k) => Answered(k)'
  BY AnsweredKept, UpOrDown
<1> USE <1>0, AuditAssumption DEF AuditAssumption, TypeOK, ImportStages, AuditStages, importVars, ownerVars, auditVars, sealVars, histVars, procVars, auditRest,
        startRest, fileVars, OwnInv, Serial, QueueSound,
        Active, Alive, AccountInv, FileSound
<1>1. ASSUME NEW i \in Imports, Begin(i) PROVE FileSound'
  <2>1. /\ recovery = "none" /\ recovery' = "none" /\ up' = up /\ up = TRUE
        /\ reports' = reports /\ kept' = kept /\ identified' = identified
        /\ apc' = apc /\ panicked' = panicked
    BY <1>1 DEF Begin, Serving
  <2>2. ipc'[i] # "new" /\ \A k \in Imports : k # i => ipc'[k] = ipc[k]
    BY <1>1 DEF Begin, Step
  <2>3. pending' \in {pending, None}
    BY <1>1 DEF Begin, Abort
  <2>4. sealedPending' \in marked' \cup {None} /\ marked' \subseteq marked \cup ({pending'} \ {None})
    <3>1. Seal /\ sealedPending \in marked \cup {None}
      BY <1>1 DEF Begin
    <3>2. Sealed \/ (sealedPending' = sealedPending /\ marked' = marked)
      BY <3>1 DEF Seal, SealFails
    <3> HIDE DEF TypeOK, AuditAssumption, OwnInv, AccountInv, FileSound
    <3> QED
      BY <3>1, <3>2 DEF Sealed
  <2> HIDE DEF TypeOK, AuditAssumption
  <2>5. \A k \in Imports : pending' = k \/ k \in marked' => ipc'[k] # "new"
    BY <2>1, <2>2, <2>3, <2>4, AuditAssumption DEF AuditAssumption
  <2>6. kept' # None /\ identified' = TRUE => Answered(kept)'
    BY <2>1 DEF Answered
  <2> QED
    BY <2>1, <2>4, <2>5, <2>6
<1>2. ASSUME NEW i \in Imports, ImportFails(i) PROVE FileSound'
  BY <1>2 DEF ImportFails, Step, Seal, Sealed, SealFails
<1>3. ASSUME NEW i \in Imports, Download(i) PROVE FileSound'
  BY <1>3 DEF Download, Step
<1>4. ASSUME NEW i \in Imports, StartWait(i) PROVE FileSound'
  BY <1>4 DEF StartWait, ReadDone, Step
<1>5. ASSUME NEW i \in Imports, EndWait(i) PROVE FileSound'
  BY <1>5 DEF EndWait, Step
<1>6. ASSUME NEW i \in Imports, Replace(i) PROVE FileSound'
  BY <1>6 DEF Replace, SeenBy, Reading, Step
<1>7. ASSUME NEW i \in Imports, Extracted(i) PROVE FileSound'
  BY <1>7 DEF Extracted, SeenBy, Reading, Step
<1>8. ASSUME NEW i \in Imports, Mark(i) PROVE FileSound'
  <2>1. /\ recovery = "none" /\ recovery' = "none" /\ up' = up /\ up = TRUE
        /\ reports' = reports /\ kept' = kept /\ identified' = identified
        /\ apc' = apc /\ panicked' = panicked
    BY <1>8 DEF Mark, Serving
  <2>2. ipc'[i] # "new" /\ \A k \in Imports : k # i => ipc'[k] = ipc[k]
    BY <1>8 DEF Mark, Step
  <2>3. pending' \in {i, None}
    BY <1>8 DEF Mark
  <2>4. sealedPending' \in marked' \cup {None} /\ marked' \subseteq marked \cup ({pending'} \ {None})
    <3>1. Seal /\ sealedPending \in marked \cup {None}
      BY <1>8 DEF Mark
    <3>2. Sealed \/ (sealedPending' = sealedPending /\ marked' = marked)
      BY <3>1 DEF Seal, SealFails
    <3> HIDE DEF TypeOK, AuditAssumption, OwnInv, AccountInv, FileSound
    <3> QED
      BY <3>1, <3>2 DEF Sealed
  <2> HIDE DEF TypeOK, AuditAssumption
  <2>5. \A k \in Imports : pending' = k \/ k \in marked' => ipc'[k] # "new"
    BY <2>1, <2>2, <2>3, <2>4, AuditAssumption DEF AuditAssumption
  <2>6. kept' # None /\ identified' = TRUE => Answered(kept)'
    BY <2>1 DEF Answered
  <2> QED
    BY <2>1, <2>4, <2>5, <2>6
<1>9. ASSUME NEW i \in Imports, Launch(i) PROVE FileSound'
  BY <1>9 DEF Launch, Goto, Step
<1>10. ASSUME NEW i \in Imports, ReleaseImport(i) PROVE FileSound'
  BY <1>10 DEF ReleaseImport, Step, Seal, Sealed, SealFails
<1>11. ASSUME NEW i \in Imports, StartAudit(i) PROVE FileSound'
  BY <1>11 DEF StartAudit, SetsBusy, Goto
<1>12. ASSUME NEW i \in Imports, EndScan(i) PROVE FileSound'
  BY <1>12 DEF EndScan, Goto
<1>13. ASSUME NEW i \in Imports, CheckSuperseded(i) PROVE FileSound'
  BY <1>13 DEF CheckSuperseded, Goto, Stale
<1>14. ASSUME NEW i \in Imports, KeepAudit(i) PROVE FileSound'
  BY <1>14 DEF KeepAudit, Goto
<1>15. ASSUME NEW i \in Imports, FilterReport(i) PROVE FileSound'
  BY <1>15 DEF FilterReport, Goto
<1>16. ASSUME NEW i \in Imports, SendAudit(i) PROVE FileSound'
  BY <1>16 DEF SendAudit, Enqueue, Goto, Seal, Sealed, SealFails
<1>17. ASSUME NEW i \in Imports, ReturnAudit(i) PROVE FileSound'
  BY <1>17 DEF ReturnAudit, Goto
<1>18. ASSUME NEW i \in Imports, ConcludeAudit(i) PROVE FileSound'
  BY <1>18 DEF ConcludeAudit, DropMarker, Goto, Seal, Sealed, SealFails
<1>19. ASSUME NEW i \in Imports, HandleAuditPanic(i) PROVE FileSound'
  BY <1>19 DEF HandleAuditPanic, ResetBusy, DropMarker, Goto, Seal, Sealed, SealFails
<1>20. ASSUME NEW i \in Imports, ReportPanic(i) PROVE FileSound'
  BY <1>20 DEF ReportPanic, Enqueue, Goto, Seal, Sealed, SealFails
<1>21. ASSUME NEW i \in Imports, FinishAudit(i) PROVE FileSound'
  BY <1>21 DEF FinishAudit, ResetBusy, DropMarker, Goto, Seal, Sealed, SealFails
<1>22. ASSUME NEW i \in Imports, PanicAudit(i) PROVE FileSound'
  BY <1>22 DEF PanicAudit, Goto
<1>23. CASE Crash
  BY <1>23 DEF Crash
<1>24. CASE Restart
  BY <1>24 DEF Restart
<1>25. CASE RecoverTask
  BY <1>25 DEF RecoverTask, Seal, Sealed, SealFails
<1>26. CASE ResetTask
  BY <1>26 DEF ResetTask, Seal, Sealed, SealFails
<1>27. CASE ReconcileAudit
  <2>1. /\ up' = up /\ up = TRUE /\ pending' = pending /\ ipc' = ipc /\ identified' = identified
        /\ apc' = apc /\ panicked' = panicked /\ kept = None
    BY <1>27 DEF ReconcileAudit, Seal, Sealed, SealFails
  <2>2. /\ sealedPending' \in marked' \cup {None} /\ marked' \subseteq marked \cup ({pending'} \ {None})
        /\ recovery' # "none" /\ pending' # None => pending' = sealedPending'
    BY <1>27 DEF ReconcileAudit, Seal, Sealed, SealFails, Seal, Sealed, SealFails
  <2>3. kept' # None => /\ recovery' = "none" /\ kept' = pending
                        /\ <<pending, "interrupted">> \in reports'
    BY <1>27, <2>1 DEF ReconcileAudit, Seal, Sealed, SealFails
  <2>4. kept' # None => Answered(kept)'
    BY <2>3 DEF Answered, Outcomes
  <2>5. \A k \in Imports : pending' = k \/ k \in marked' => ipc'[k] # "new"
    BY <2>1, <2>2
  <2> QED
    BY <2>1, <2>2, <2>3, <2>4, <2>5
<1>28. CASE ConcludeReconciled
  BY <1>28 DEF ConcludeReconciled, DropMarker, Seal, Sealed, SealFails
<1>29. CASE UNCHANGED vars
  BY <1>29 DEF vars
<1> QED
  BY <1>1, <1>2, <1>3, <1>4, <1>5, <1>6, <1>7, <1>8, <1>9, <1>10, <1>11, <1>12, <1>13,
     <1>14, <1>15, <1>16, <1>17, <1>18, <1>19, <1>20, <1>21, <1>22, <1>23, <1>24, <1>25,
     <1>26, <1>27, <1>28, <1>29 DEF Next, ImportStep, AuditStep, StartUp

(* An audit is answered twice only across a crash. *)
LEMMA TwiceStep ==
    ASSUME OwnInv, OwnInv', AccountInv, [Next]_vars, NEW k \in Imports PROVE TwiceOf(k)'
<1>0. TwiceOf(k)
  BY DEF AccountInv, TwiceSound
<1> USE <1>0, AuditAssumption DEF AuditAssumption, TypeOK, ImportStages, AuditStages, importVars, ownerVars, auditVars, sealVars, histVars, procVars, auditRest,
        startRest, fileVars, OwnInv, Serial, LaunchedOnce,
        QueueSound, Active, Alive, AccountInv, FileSound, TwiceOf, Interrupted
<1>1. ASSUME NEW i \in Imports, Begin(i) PROVE TwiceOf(k)'
  BY <1>1 DEF Begin, Abort, Superseded, ResetBusy, Step, Serving, Seal, Sealed, SealFails
<1>2. ASSUME NEW i \in Imports, ImportFails(i) PROVE TwiceOf(k)'
  BY <1>2 DEF ImportFails, Step, Seal, Sealed, SealFails
<1>3. ASSUME NEW i \in Imports, Download(i) PROVE TwiceOf(k)'
  BY <1>3 DEF Download, Step
<1>4. ASSUME NEW i \in Imports, StartWait(i) PROVE TwiceOf(k)'
  BY <1>4 DEF StartWait, ReadDone, Step
<1>5. ASSUME NEW i \in Imports, EndWait(i) PROVE TwiceOf(k)'
  BY <1>5 DEF EndWait, Step
<1>6. ASSUME NEW i \in Imports, Replace(i) PROVE TwiceOf(k)'
  BY <1>6 DEF Replace, SeenBy, Reading, Step
<1>7. ASSUME NEW i \in Imports, Extracted(i) PROVE TwiceOf(k)'
  BY <1>7 DEF Extracted, SeenBy, Reading, Step
<1>8. ASSUME NEW i \in Imports, Mark(i) PROVE TwiceOf(k)'
  BY <1>8 DEF Mark, Step, Seal, Sealed, SealFails
<1>9. ASSUME NEW i \in Imports, Launch(i) PROVE TwiceOf(k)'
  BY <1>9 DEF Launch, Goto, Step
<1>10. ASSUME NEW i \in Imports, ReleaseImport(i) PROVE TwiceOf(k)'
  BY <1>10 DEF ReleaseImport, Step, Seal, Sealed, SealFails
<1>11. ASSUME NEW i \in Imports, StartAudit(i) PROVE TwiceOf(k)'
  BY <1>11 DEF StartAudit, SetsBusy, Goto
<1>12. ASSUME NEW i \in Imports, EndScan(i) PROVE TwiceOf(k)'
  BY <1>12 DEF EndScan, Goto
<1>13. ASSUME NEW i \in Imports, CheckSuperseded(i) PROVE TwiceOf(k)'
  BY <1>13 DEF CheckSuperseded, Goto, Stale
<1>14. ASSUME NEW i \in Imports, KeepAudit(i) PROVE TwiceOf(k)'
  BY <1>14 DEF KeepAudit, Goto
<1>15. ASSUME NEW i \in Imports, FilterReport(i) PROVE TwiceOf(k)'
  BY <1>15 DEF FilterReport, Goto
<1>16. ASSUME NEW i \in Imports, SendAudit(i) PROVE TwiceOf(k)'
  BY <1>16 DEF SendAudit, Enqueue, Goto, Said, Outcomes
<1>17. ASSUME NEW i \in Imports, ReturnAudit(i) PROVE TwiceOf(k)'
  BY <1>17 DEF ReturnAudit, Goto
<1>18. ASSUME NEW i \in Imports, ConcludeAudit(i) PROVE TwiceOf(k)'
  BY <1>18 DEF ConcludeAudit, DropMarker, Goto, Seal, Sealed, SealFails
<1>19. ASSUME NEW i \in Imports, HandleAuditPanic(i) PROVE TwiceOf(k)'
  BY <1>19 DEF HandleAuditPanic, ResetBusy, DropMarker, Goto, Seal, Sealed, SealFails
<1>20. ASSUME NEW i \in Imports, ReportPanic(i) PROVE TwiceOf(k)'
  BY <1>20 DEF ReportPanic, Enqueue, Goto, Said, Outcomes
<1>21. ASSUME NEW i \in Imports, FinishAudit(i) PROVE TwiceOf(k)'
  BY <1>21 DEF FinishAudit, ResetBusy, DropMarker, Goto, Seal, Sealed, SealFails
<1>22. ASSUME NEW i \in Imports, PanicAudit(i) PROVE TwiceOf(k)'
  BY <1>22 DEF PanicAudit, Goto
<1>23. CASE Crash
  <2>1. /\ pending' = None /\ reports' = sealedReports /\ up' = FALSE /\ sealedPending' = sealedPending
        /\ sealedReports' = sealedReports /\ ipc' \in [Imports -> ImportStages]
        /\ overlap' = overlap \cup {i \in Imports : sealedPending = i /\ Said(i, sealedReports)}
    BY <1>23 DEF Crash, Said
  <2>2. sealedReports \subseteq reports
    OBVIOUS
  <2>3. Said(k, sealedReports) => Said(k, reports)
    BY <2>2 DEF Said
  <2>4. Interrupted(k)' => Interrupted(k)
    BY <2>1, <2>2
  <2>5. apc[k] # "none" => apc'[k] # "none"
    BY <1>23 DEF Crash
  <2>6. ipc[k] \in {"done", "lost"} => ipc'[k] \in {"done", "lost"}
    BY <1>23 DEF Crash
  <2>7. apc'[k] \in {"none", "exit"} /\ k # None
    BY <1>23 DEF Crash
  <2> HIDE DEF Interrupted, TypeOK, FileSound, OwnInv, AccountInv
  <2> QED
    BY <2>1, <2>3, <2>4, <2>5, <2>6, <2>7
<1>24. CASE Restart
  BY <1>24 DEF Restart
<1>25. CASE RecoverTask
  BY <1>25 DEF RecoverTask, Seal, Sealed, SealFails
<1>26. CASE ResetTask
  BY <1>26 DEF ResetTask, Seal, Sealed, SealFails
<1>27. CASE ReconcileAudit
  <2>1. /\ up' = up /\ pending' = pending /\ ipc' = ipc /\ apc' = apc /\ overlap' = overlap
        /\ up = TRUE /\ recovery = "audit"
    BY <1>27 DEF ReconcileAudit
  <2>2. reports' = reports \/ (reports' = reports \cup {<<pending, "interrupted">>} /\ pending # None)
    BY <1>27 DEF ReconcileAudit
  <2>3. sealedPending' \in {sealedPending, pending}
    BY <1>27, <2>1 DEF ReconcileAudit, Sealed, SealFails
  <2>4. Said(k, reports') <=> Said(k, reports)
    BY <2>2 DEF Said, Outcomes
  <2>5. Interrupted(k)' => Interrupted(k) \/ pending = k
    BY <2>2
  <2>6. pending = k => ipc[k] \in {"done", "lost"} /\ ~Alive(k)
    BY <2>1
  <2> HIDE DEF Interrupted, TypeOK
  <2> QED
    BY <2>1, <2>3, <2>4, <2>5, <2>6
<1>28. CASE ConcludeReconciled
  BY <1>28 DEF ConcludeReconciled, DropMarker, Seal, Sealed, SealFails
<1>29. CASE UNCHANGED vars
  BY <1>29 DEF vars
<1> QED
  BY <1>1, <1>2, <1>3, <1>4, <1>5, <1>6, <1>7, <1>8, <1>9, <1>10, <1>11, <1>12, <1>13,
     <1>14, <1>15, <1>16, <1>17, <1>18, <1>19, <1>20, <1>21, <1>22, <1>23, <1>24, <1>25,
     <1>26, <1>27, <1>28, <1>29 DEF Next, ImportStep, AuditStep, StartUp

LEMMA AccountStep == ASSUME OwnInv, OwnInv', AccountInv, [Next]_vars PROVE AccountInv'
<1>1. MarkerDurable' /\ MarkerOwned' /\ BusyHasOwner' /\ Cancelled'
  BY DurableStep, MarkerStep, BusyStep, CancelledStep DEF AccountInv
<1>2. AnswerSound'
  <2>1. \A k \in Imports : AnswerIf(k)'
    BY AnswerStep
  <2> QED
    BY <2>1 DEF AnswerSound, AnswerIf
<1>3. Reconciled' /\ FileSound' /\ TwiceSound'
  BY ReconciledStep, FileSoundStep, TwiceStep DEF AccountInv, TwiceSound
<1>4. MemorySound'
  BY MemoryStep
<1>5. DiskSound'
  BY <1>4, DiskStep
<1> QED
  BY <1>1, <1>2, <1>3, <1>4, <1>5 DEF AccountInv
-----------------------------------------------------------------------------
LEMMA AuditInit == Init => AuditInv
<1> SUFFICES ASSUME Init PROVE AuditInv
  OBVIOUS
<1>1. OwnInv
  BY OwnInit
<1>2. ScanSound /\ WaitSound /\ LastSound
  BY DEF Init, ScanSound, ScanOf, SaidVerdict, Unsent, WaitSound, LastSound, Alive
<1>3. MarkerDurable /\ MarkerOwned /\ BusyHasOwner /\ Cancelled /\ Reconciled
  BY DEF Init, MarkerDurable, MarkerOwned, BusyHasOwner, Cancelled, Reconciled
<1>4. AnswerSound
  BY DEF Init, AnswerSound, AnswerOf, Unsent, Alive
<1>8. MemorySound /\ DiskSound
  <2>1. \A i \in Imports : ~Known(i)
    BY DEF Init, Known
  <2> QED
    BY <2>1 DEF MemorySound, DiskSound
<1>5. FileSound
  BY AuditAssumption DEF Init, FileSound, AuditAssumption
<1>6. TwiceSound
  BY DEF Init, TwiceSound, TwiceOf, Said, Interrupted
<1>7. AccountInv
  BY <1>3, <1>4, <1>5, <1>6, <1>8 DEF AccountInv
<1> QED
  BY <1>1, <1>2, <1>7 DEF AuditInv

(* The invariant is kept by every step of every import, audit, crash and
   start-up. *)
THEOREM AuditCorrect == Spec => []AuditInv
<1>1. ASSUME AuditInv, [Next]_vars PROVE AuditInv'
  <2>1. OwnInv'
    BY <1>1, OwnStep DEF AuditInv
  <2>2. ScanSound' /\ WaitSound' /\ LastSound' /\ AccountInv'
    BY <1>1, <2>1, ScanStep, WaitStep, LastStep, AccountStep DEF AuditInv
  <2> QED
    BY <2>1, <2>2 DEF AuditInv
<1> QED
  BY <1>1, AuditInit, PTL DEF Spec

(* What is said about a model comes from an undisturbed scan of that model:
   no audit that overlapped a replacement of ModelDir reports a verdict, no
   scan reads a tree that is being replaced unless a wait timed out, and the
   attached audit is that of the model on disk. *)
THEOREM VerdictCorrect == Spec => []VerdictSound
<1>1. AuditInv => VerdictSound
  <2> SUFFICES ASSUME AuditInv PROVE VerdictSound
    OBVIOUS
  <2> USE AuditAssumption DEF AuditAssumption, AuditInv
  <2>1. VerdictOnOwnModel
    BY DEF VerdictOnOwnModel, ScanSound, ScanOf, SaidVerdict
  <2>2. NoScanWhileReplacing
    BY DEF NoScanWhileReplacing, WaitSound, Reading, Alive, OwnInv, TypeOK
  <2>3. LastAuditMatches
    BY DEF LastAuditMatches, LastSound, Before, OwnInv, TypeOK
  <2> QED
    BY <2>1, <2>2, <2>3 DEF VerdictSound
<1> QED
  BY <1>1, AuditCorrect, PTL

(* Busy flag and durable marker belong to an audit that will take them down, or the
   marker to the next start-up; and an audit is forgotten or answered twice only in
   the cases AuditNotLost and ReportedTwice name, for any number of imports, failed
   seals, time-outs, panics and crashes. *)
THEOREM AccountCorrect == Spec => []AuditAccounted
<1>1. AuditInv => AuditAccounted
  <2> SUFFICES ASSUME AuditInv PROVE AuditAccounted
    OBVIOUS
  <2> USE DEF AuditInv, AccountInv
  <2>1. AuditNotLost
    <3> SUFFICES ASSUME NEW i \in Imports \ cut, Owed(i), ~Alive(i), identified
                 PROVE  Answered(i) \/ sealedPending = i
      BY DEF AuditNotLost
    <3>1. Known(i) /\ ScanEnabled /\ identified = TRUE /\ apc[i] = "exit"
      BY DEF Owed, Known, Alive, OwnInv, TypeOK
    <3>2. OnDisk(i) => Answered(i)
      BY DEF OnDisk, Answered, OwnInv, QueueSound
    <3>3. Unreported(i) => Answered(i)
      BY <3>1 DEF Unreported, Answered, Outcomes
    <3>4. CASE i \in marked \/ up = FALSE
      BY <3>1, <3>2, <3>3, <3>4 DEF DiskSound
    <3>5. CASE i \notin marked /\ up = TRUE
      <4>1. pending = i \/ Answered(i)
        BY <3>1, <3>5 DEF MemorySound, InMemory, PanicPath
      <4>2. CASE pending = i
        <5>1. i # None
          BY AuditAssumption DEF AuditAssumption
        <5>2. ipc[i] # "launch" /\ ~Alive(i)
          BY <3>1 DEF OwnInv, LaunchedOnce, Alive
        <5>3. recovery # "none" \/ kept = i
          BY <3>5, <4>2, <5>1, <5>2 DEF MarkerOwned
        <5> QED
          BY <3>1, <4>2, <5>1, <5>3 DEF FileSound
      <4> QED
        BY <4>1, <4>2
    <3> QED
      BY <3>4, <3>5 DEF OwnInv, TypeOK
  <2>2. ReportedTwice
    BY DEF ReportedTwice, TwiceSound, TwiceOf, Interrupted
  <2> QED
    BY <2>1, <2>2 DEF AuditAccounted
<1> QED
  BY <1>1, AuditCorrect, PTL
=============================================================================
