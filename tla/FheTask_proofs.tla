--------------------------- MODULE FheTask_proofs ---------------------------
(***************************************************************************)
(* Proofs about FheTask, for any number of deliveries, stop requests,      *)
(* cases and faults.                                                       *)
(*                                                                         *)
(* Three arguments meet.  The service says "completed" only of an input    *)
(* all of whose cases have a result, and nothing takes a result back.  One *)
(* attempt at a time owns the ids, and the run it registers is open only   *)
(* while it is tracked, so a stop can resolve no run but that one.  And an *)
(* attempt that gets the ids finds no record, so nobody writes into a      *)
(* result directory a record or a reported success stands on; only a crash *)
(* takes one away, and it meets no attempt earlier than the successful one.*)
(***************************************************************************)
EXTENDS FheTask, TLAPS

Flying(a) == apc[a] \in InFlight

(* A case is evaluated only while one is left, a poll ends the wait only with
   a terminal status. *)
StageSound ==
    /\ worker = "case" => done + erred < Cases
    /\ \A a \in Attempts : apc[a] = "polled" => seen[a] \in Terminal

(* The service never says more than its cases have done. *)
ServiceSound ==
    /\ status = "completed" => done = Cases
    /\ \A cb \in callbacks : cb[1] = "completed" => done = Cases
    /\ \A a \in Attempts : seen[a] = "completed" \/ outcome[a] = "completed" => done = Cases
    /\ IF late THEN zip \in {0, Cases} ELSE zip = done

(* One attempt at a time, and the registered run is its. *)
OneAttempt ==
    /\ \A a, b \in Attempts : Flying(a) /\ Flying(b) => a = b
    /\ run # None => apc[run] \in Tracked

(* Deliveries are begun in order: what has begun has nothing open before it. *)
InOrder ==
    \A a, b \in Attempts : b < a /\ apc[a] # "new" => apc[b] # "new" /\ ~Flying(b)

(* A run is open only before Execute returns; whom a stop may still resolve. *)
RunSound ==
    /\ \A a \in Attempts :
         /\ apc[a] = "new" => outcome[a] = "open"
         /\ apc[a] \in {"return", "copy", "report", "commit", "undo", "send"} =>
              outcome[a] # "open"
         /\ apc[a] \in {"copy", "commit"} => outcome[a] = "completed"
         /\ apc[a] = "undo" => outcome[a] # "completed"
    /\ \A s \in Stops :
         /\ spc[s] \in {"send", "finish"} =>
              /\ srun[s] \in Attempts
              /\ apc[srun[s]] \in Tracked \/ outcome[srun[s]] # "open"
         /\ spc[s] = "cancelled" => srun[s] \in Attempts /\ outcome[srun[s]] = "cancelled"

(* A success is said of a completed run that is past its last write. *)
Succeeded(a) == <<a, 0>> \in reports
SaidSound ==
    \A a \in Attempts : Succeeded(a) =>
        outcome[a] = "completed" /\ apc[a] \in {"release", "done", "lost"}

(* What stands in the result directory while an attempt writes there. *)
DirSound ==
    /\ \A a \in Attempts :
         /\ apc[a] \in {"report", "commit"} /\ outcome[a] = "completed" => archive = Cases
         /\ apc[a] = "commit" => report = TRUE
         /\ apc[a] = "send" /\ outcome[a] = "completed" => a \in unsaved \/ record = TRUE
         /\ Flying(a) /\ record = TRUE => apc[a] \in {"reserve", "turned", "send", "release"}
    /\ RecordBacked

(* No success is left standing by another attempt's record. *)
SuccessKept ==
    /\ \A a \in Attempts :
         Succeeded(a) /\ ~Purged(a) => a \in unsaved \/ record = TRUE
    /\ \A a, b \in Attempts :
         Succeeded(a) /\ ~Purged(a) /\ a # b /\ Flying(b) =>
             a \in unsaved \/ apc[b] \in {"reserve", "turned"}

(* The ids are reserved by an attempt that is going to give them back. *)
ReservedSound ==
    (\A a \in Attempts : Flying(a) => apc[a] \in {"reserve", "turned", "send", "release"})
        => reserved = FALSE

FheInv == /\ TypeOK /\ StageSound /\ ServiceSound /\ OneAttempt /\ InOrder /\ RunSound
          /\ SaidSound /\ DirSound /\ SuccessKept /\ ReservedSound
-----------------------------------------------------------------------------
(* The Boolean variables and the sets of pairs, apart from the rest. *)
BoolOK ==
    /\ active \in BOOLEAN /\ reserved \in BOOLEAN /\ record \in BOOLEAN /\ report \in BOOLEAN
    /\ known \in BOOLEAN /\ notified \in BOOLEAN /\ late \in BOOLEAN

PairOK == reports \subseteq Attempts \X {0, 1} /\ callbacks \subseteq Terminal \X BOOLEAN

DataOK ==
    /\ apc \in [Attempts -> InFlight \cup {"new", "refused", "done", "lost"}]
    /\ outcome \in [Attempts -> Terminal \cup {"open"}] /\ seen \in [Attempts -> States]
    /\ run \in Attempts \cup {None} /\ archive \in 0..Cases
    /\ spc \in [Stops -> {"new", "lookup", "send", "finish"} \cup Answers]
    /\ srun \in [Stops -> Attempts \cup {None}]
    /\ status \in States /\ worker \in {"idle", "read", "cases", "case", "exit"}
    /\ spawned \in Nat
    /\ done \in 0..Cases /\ erred \in 0..Cases /\ done + erred <= Cases /\ zip \in 0..Cases
    /\ staleBy \cup unsaved \subseteq Attempts
    /\ faults \in 0..MaxFaults

LEMMA TypeInit == Init => TypeOK
<1> SUFFICES ASSUME Init PROVE TypeOK
  OBVIOUS
<1>1. BoolOK
  BY Zenon DEF Init, BoolOK
<1>2. PairOK
  BY DEF Init, PairOK
<1>3. DataOK
  BY FheAssumption DEF FheAssumption, Init, DataOK, Attempts, None, Terminal, States, Tracked, InFlight, Answers
<1> QED
  BY <1>1, <1>2, <1>3 DEF TypeOK, BoolOK, PairOK, DataOK

(* complete either changes nothing or records one terminal state. *)
LEMMA CompleteType ==
    ASSUME NEW st \in Terminal, Complete(st), callbacks \subseteq Terminal \X BOOLEAN,
           status \in States
    PROVE  callbacks' \subseteq Terminal \X BOOLEAN /\ status' \in States
<1>1. <<st, TRUE>> \in Terminal \X BOOLEAN
  OBVIOUS
<1>2. callbacks' \in {callbacks, callbacks \cup {<<st, TRUE>>}} /\ status' \in {status, st}
  BY DEF Complete, endVars
<1> QED
  BY <1>1, <1>2 DEF States

LEMMA TypeStep == ASSUME TypeOK, StageSound, [Next]_vars PROVE TypeOK' /\ StageSound'
<1>0. BoolOK /\ PairOK /\ DataOK
  BY DEF TypeOK, BoolOK, PairOK, DataOK
<1> SUFFICES BoolOK' /\ PairOK' /\ DataOK' /\ StageSound'
  BY DEF TypeOK, BoolOK, PairOK, DataOK
<1> DEFINE Goal == BoolOK' /\ PairOK' /\ DataOK' /\ StageSound'
<1> USE FheAssumption DEF FheAssumption, Attempts, None, Terminal, States, Tracked, InFlight, Answers,
        taskVars, indexVars, resultVars, stopVars, workVars, endVars, serviceVars,
        serviceRest, runnerRest, stopRest, importRest
<1>1. ASSUME NEW a \in Attempts, Acquire(a) PROVE Goal
  <2>1. BoolOK'
    BY <1>0, <1>1, Zenon DEF BoolOK, Acquire, Idle, Goto, NoFault
  <2>2. PairOK'
    BY <1>0, <1>1 DEF PairOK, Acquire, Idle, Goto, NoFault
  <2>3. DataOK'
    BY <1>0, <1>1 DEF DataOK, StageSound, Acquire, Idle, Goto, NoFault
  <2>4. StageSound'
    BY <1>0, <1>1 DEF DataOK, StageSound, Acquire, Idle, Goto, NoFault
  <2> QED
    BY <2>1, <2>2, <2>3, <2>4
<1>r. ASSUME NEW a \in Attempts, Reserve(a) PROVE Goal
  <2>1. BoolOK'
    BY <1>0, <1>r, Zenon DEF BoolOK, Reserve, Goto, NoFault
  <2>2. PairOK'
    BY <1>0, <1>r DEF PairOK, Reserve, Goto, NoFault
  <2>3. DataOK'
    BY <1>0, <1>r DEF DataOK, StageSound, Reserve, Goto, NoFault
  <2>4. StageSound'
    BY <1>0, <1>r DEF DataOK, StageSound, Reserve, Goto, NoFault
  <2> QED
    BY <2>1, <2>2, <2>3, <2>4
<1>2. ASSUME NEW a \in Attempts, Check(a) PROVE Goal
  <2>1. BoolOK'
    BY <1>0, <1>2, Zenon DEF BoolOK, Check, Freed, Goto, Fault, NoFault
  <2>2. PairOK'
    BY <1>0, <1>2 DEF PairOK, Check, Freed, Goto, Fault, NoFault
  <2>3. DataOK'
    BY <1>0, <1>2 DEF DataOK, StageSound, Check, Freed, Goto, Fault, NoFault
  <2>4. StageSound'
    BY <1>0, <1>2 DEF DataOK, StageSound, Check, Freed, Goto, Fault, NoFault
  <2> QED
    BY <2>1, <2>2, <2>3, <2>4
<1>3. ASSUME NEW a \in Attempts, Prepare(a) PROVE Goal
  <2>1. BoolOK'
    BY <1>0, <1>3, Zenon DEF BoolOK, Prepare, Registered, Finish, Goto, Fault, NoFault
  <2>2. PairOK'
    <3>1. ASSUME NEW cb \in callbacks PROVE <<cb[1], FALSE>> \in Terminal \X BOOLEAN
      BY <1>0 DEF PairOK
    <3>2. \/ callbacks' = callbacks
          \/ callbacks' = {<<cb[1], FALSE>> : cb \in callbacks}
      BY <1>3 DEF Prepare
    <3>3. callbacks' \subseteq Terminal \X BOOLEAN
      BY <1>0, <3>1, <3>2 DEF PairOK
    <3> QED
      BY <1>0, <3>3, <1>3 DEF PairOK, Prepare
  <2>3. DataOK' /\ StageSound'
    <3>1. CASE apc' = [apc EXCEPT ![a] = "create"] /\ run' = a /\ UNCHANGED <<outcome, faults>>
      BY <1>0, <3>1, <1>3 DEF DataOK, StageSound, Prepare
    <3>2. CASE UNCHANGED run /\ Fault /\ Finish(a, "failed") /\ Goto(a, "return")
      BY <1>0, <3>2, <1>3 DEF DataOK, StageSound, Prepare, Finish, Goto, Fault
    <3> QED
      BY <3>1, <3>2, <1>3 DEF Prepare, Registered, Goto, NoFault
  <2> QED
    BY <2>1, <2>2, <2>3
<1>4. ASSUME NEW a \in Attempts, Create(a) PROVE Goal
  <2>1. BoolOK'
    BY <1>0, <1>4, Zenon DEF BoolOK, Create, Created, ServeCreate, Goto, Fault, NoFault
  <2>2. PairOK'
    BY <1>0, <1>4 DEF PairOK, Create, Created, ServeCreate, Goto, Fault, NoFault
  <2>3. DataOK'
    BY SMTT(60), <1>0, <1>4 DEF DataOK, StageSound, Create, Created, ServeCreate, Goto, Fault,
       NoFault
  <2>4. StageSound'
    BY <1>0, <1>4 DEF DataOK, StageSound, Create, Created, ServeCreate, Goto, Fault,
       NoFault
  <2> QED
    BY <2>1, <2>2, <2>3, <2>4
<1>5. ASSUME NEW a \in Attempts, Probe(a) PROVE Goal
  <2>1. BoolOK'
    BY <1>0, <1>5, Zenon DEF BoolOK, Probe, IsSuccess, Finish, Goto, Fault, NoFault
  <2>2. PairOK'
    BY <1>0, <1>5 DEF PairOK, Probe, IsSuccess, Finish, Goto, Fault, NoFault
  <2>3. DataOK'
    BY <1>0, <1>5 DEF DataOK, StageSound, Probe, IsSuccess, Finish, Goto, Fault, NoFault
  <2>4. StageSound'
    BY <1>0, <1>5 DEF DataOK, StageSound, Probe, IsSuccess, Finish, Goto, Fault, NoFault
  <2> QED
    BY <2>1, <2>2, <2>3, <2>4
<1>6. ASSUME NEW a \in Attempts, Continue(a) PROVE Goal
  <2>1. BoolOK'
    BY <1>0, <1>6, Zenon DEF BoolOK, Continue, ServeContinue, Finish, Goto, Fault, NoFault
  <2>2. PairOK'
    BY <1>0, <1>6 DEF PairOK, Continue, ServeContinue, Finish, Goto, Fault, NoFault
  <2>3. DataOK'
    <3>1. \/ Goto(a, "wait") /\ UNCHANGED outcome
          \/ Goto(a, "return") /\ Finish(a, "failed")
      BY <1>6 DEF Continue
    <3>2. /\ apc' \in [Attempts -> InFlight \cup {"new", "refused", "done", "lost"}]
          /\ outcome' \in [Attempts -> Terminal \cup {"open"}]
      BY <1>0, <3>1 DEF DataOK, Goto, Finish
    <3>3. /\ UNCHANGED <<seen, run, archive, spc, srun, status, worker, done, erred, zip,
                         staleBy, unsaved>>
          /\ spawned' \in {spawned, spawned + 1}
      BY <1>6 DEF Continue, ServeContinue
    <3>4. faults' \in 0..MaxFaults
      BY <1>0, <1>6 DEF DataOK, Continue, Fault, NoFault
    <3> QED
      BY <1>0, <3>2, <3>3, <3>4 DEF DataOK
  <2>4. StageSound'
    BY <1>0, <1>6 DEF DataOK, StageSound, Continue, ServeContinue, Finish, Goto, Fault,
       NoFault
  <2> QED
    BY <2>1, <2>2, <2>3, <2>4
<1>7. ASSUME NEW a \in Attempts, Poll(a) PROVE Goal
  <2>1. BoolOK'
    BY <1>0, <1>7, Zenon DEF BoolOK, Poll, IsTerminal, Goto, NoFault
  <2>2. PairOK'
    BY <1>0, <1>7 DEF PairOK, Poll, IsTerminal, Goto, NoFault
  <2>3. DataOK'
    BY <1>0, <1>7 DEF DataOK, StageSound, Poll, IsTerminal, Goto, NoFault
  <2>4. StageSound'
    BY <1>0, <1>7 DEF DataOK, StageSound, Poll, IsTerminal, Goto, NoFault
  <2> QED
    BY <2>1, <2>2, <2>3, <2>4
<1>8. ASSUME NEW a \in Attempts, FinishPolled(a) PROVE Goal
  <2>1. BoolOK'
    BY <1>0, <1>8, Zenon DEF BoolOK, FinishPolled, Finish, Goto, NoFault
  <2>2. PairOK'
    BY <1>0, <1>8 DEF PairOK, FinishPolled, Finish, Goto, NoFault
  <2>3. DataOK'
    BY <1>0, <1>8 DEF DataOK, StageSound, FinishPolled, Finish, Goto, NoFault
  <2>4. StageSound'
    BY <1>0, <1>8 DEF DataOK, StageSound, FinishPolled, Finish, Goto, NoFault
  <2> QED
    BY <2>1, <2>2, <2>3, <2>4
<1>9. ASSUME NEW a \in Attempts, Resolved(a) PROVE Goal
  <2>1. BoolOK'
    BY <1>0, <1>9, Zenon DEF BoolOK, Resolved, Goto, NoFault
  <2>2. PairOK'
    BY <1>0, <1>9 DEF PairOK, Resolved, Goto, NoFault
  <2>3. DataOK'
    BY <1>0, <1>9 DEF DataOK, StageSound, Resolved, Goto, NoFault
  <2>4. StageSound'
    BY <1>0, <1>9 DEF DataOK, StageSound, Resolved, Goto, NoFault
  <2> QED
    BY <2>1, <2>2, <2>3, <2>4
<1>10. ASSUME NEW a \in Attempts, Return(a) PROVE Goal
  <2>1. BoolOK'
    BY <1>0, <1>10, Zenon DEF BoolOK, Return, Forgotten, IsSuccess, Goto, NoFault
  <2>2. PairOK'
    BY <1>0, <1>10 DEF PairOK, Return, Forgotten, IsSuccess, Goto, NoFault
  <2>3. DataOK'
    BY <1>0, <1>10 DEF DataOK, StageSound, Return, Forgotten, IsSuccess, Goto, NoFault
  <2>4. StageSound'
    BY <1>0, <1>10 DEF DataOK, StageSound, Return, Forgotten, IsSuccess, Goto, NoFault
  <2> QED
    BY <2>1, <2>2, <2>3, <2>4
<1>11. ASSUME NEW a \in Attempts, CopyResult(a) PROVE Goal
  <2>1. BoolOK'
    BY <1>0, <1>11, Zenon DEF BoolOK, CopyResult, Copied, CopyFails, ResultReady, CopyFile,
       Goto, Fault, NoFault
  <2>2. PairOK'
    BY <1>0, <1>11 DEF PairOK, CopyResult, Copied, CopyFails, ResultReady, CopyFile, Goto,
       Fault, NoFault
  <2>3. DataOK'
    BY SMTT(60), <1>0, <1>11 DEF DataOK, StageSound, CopyResult, Copied, CopyFails, ResultReady,
       CopyFile, Goto, Fault, NoFault
  <2>4. StageSound'
    BY <1>0, <1>11 DEF DataOK, StageSound, CopyResult, Copied, CopyFails, ResultReady,
       CopyFile, Goto, Fault, NoFault
  <2> QED
    BY <2>1, <2>2, <2>3, <2>4
<1>12. ASSUME NEW a \in Attempts, WriteReport(a) PROVE Goal
  <2>1. BoolOK'
    BY <1>0, <1>12, Zenon DEF BoolOK, WriteReport, Freed, IsSuccess, Goto, Fault, NoFault
  <2>2. PairOK'
    BY <1>0, <1>12 DEF PairOK, WriteReport, Freed, IsSuccess, Goto, Fault, NoFault
  <2>3. DataOK'
    BY <1>0, <1>12 DEF DataOK, StageSound, WriteReport, Freed, IsSuccess, Goto, Fault,
       NoFault
  <2>4. StageSound'
    BY <1>0, <1>12 DEF DataOK, StageSound, WriteReport, Freed, IsSuccess, Goto, Fault,
       NoFault
  <2> QED
    BY <2>1, <2>2, <2>3, <2>4
<1>13. ASSUME NEW a \in Attempts, Commit(a) PROVE Goal
  <2>1. BoolOK'
    BY <1>0, <1>13, Zenon DEF BoolOK, Commit, Freed, Goto, Fault, NoFault
  <2>2. PairOK'
    BY <1>0, <1>13 DEF PairOK, Commit, Freed, Goto, Fault, NoFault
  <2>3. DataOK'
    BY <1>0, <1>13 DEF DataOK, StageSound, Commit, Freed, Goto, Fault, NoFault
  <2>4. StageSound'
    BY <1>0, <1>13 DEF DataOK, StageSound, Commit, Freed, Goto, Fault, NoFault
  <2> QED
    BY <2>1, <2>2, <2>3, <2>4
<1>14. ASSUME NEW a \in Attempts, Undo(a) PROVE Goal
  <2>1. BoolOK'
    BY <1>0, <1>14, Zenon DEF BoolOK, Undo, Freed, Goto, NoFault
  <2>2. PairOK'
    BY <1>0, <1>14 DEF PairOK, Undo, Freed, Goto, NoFault
  <2>3. DataOK'
    BY <1>0, <1>14 DEF DataOK, StageSound, Undo, Freed, Goto, NoFault
  <2>4. StageSound'
    BY <1>0, <1>14 DEF DataOK, StageSound, Undo, Freed, Goto, NoFault
  <2> QED
    BY <2>1, <2>2, <2>3, <2>4
<1>15. ASSUME NEW a \in Attempts, Send(a) PROVE Goal
  <2>1. BoolOK'
    BY <1>0, <1>15, Zenon DEF BoolOK, Send, IsSuccess, Goto, NoFault
  <2>2. PairOK'
    BY <1>0, <1>15 DEF PairOK, Send, IsSuccess, Goto, NoFault
  <2>3. DataOK'
    BY <1>0, <1>15 DEF DataOK, StageSound, Send, IsSuccess, Goto, NoFault
  <2>4. StageSound'
    BY <1>0, <1>15 DEF DataOK, StageSound, Send, IsSuccess, Goto, NoFault
  <2> QED
    BY <2>1, <2>2, <2>3, <2>4
<1>16. ASSUME NEW a \in Attempts, Release(a) PROVE Goal
  <2>1. BoolOK'
    BY <1>0, <1>16, Zenon DEF BoolOK, Release, Goto, NoFault
  <2>2. PairOK'
    BY <1>0, <1>16 DEF PairOK, Release, Goto, NoFault
  <2>3. DataOK'
    BY <1>0, <1>16 DEF DataOK, StageSound, Release, Goto, NoFault
  <2>4. StageSound'
    BY <1>0, <1>16 DEF DataOK, StageSound, Release, Goto, NoFault
  <2> QED
    BY <2>1, <2>2, <2>3, <2>4
<1>17. ASSUME NEW s \in Stops, StopRead(s) PROVE Goal
  <2>1. BoolOK'
    BY <1>0, <1>17, Zenon DEF BoolOK, StopRead, Reply, NoFault
  <2>2. PairOK'
    BY <1>0, <1>17 DEF PairOK, StopRead, Reply, NoFault
  <2>3. DataOK'
    BY <1>0, <1>17 DEF DataOK, StageSound, StopRead, Reply, NoFault
  <2>4. StageSound'
    BY <1>0, <1>17 DEF DataOK, StageSound, StopRead, Reply, NoFault
  <2> QED
    BY <2>1, <2>2, <2>3, <2>4
<1>18. ASSUME NEW s \in Stops, StopLookup(s) PROVE Goal
  <2>1. BoolOK'
    BY <1>0, <1>18, Zenon DEF BoolOK, StopLookup, Reply, NoFault
  <2>2. PairOK'
    BY <1>0, <1>18 DEF PairOK, StopLookup, Reply, NoFault
  <2>3. DataOK'
    BY <1>0, <1>18 DEF DataOK, StageSound, StopLookup, Reply, NoFault
  <2>4. StageSound'
    BY <1>0, <1>18 DEF DataOK, StageSound, StopLookup, Reply, NoFault
  <2> QED
    BY <2>1, <2>2, <2>3, <2>4
<1>19. ASSUME NEW s \in Stops, StopSend(s) PROVE Goal
  <2>0. Complete("cancelled") => callbacks' \subseteq Terminal \X BOOLEAN /\ status' \in States
    BY <1>0, CompleteType DEF PairOK, DataOK, CaseVerdict
  <2>1. BoolOK'
    BY <1>0, <1>19, Zenon DEF BoolOK, StopSend, ServeCancel, Complete, Reply, Fault,
       NoFault
  <2>2. PairOK'
    BY <2>0, <1>0, <1>19 DEF PairOK, StopSend, ServeCancel, Reply, Fault, NoFault
  <2>3. DataOK'
    BY <2>0, <1>0, <1>19 DEF DataOK, StageSound, StopSend, ServeCancel, Reply, Fault,
       NoFault
  <2>4. StageSound'
    BY <1>0, <1>19 DEF DataOK, StageSound, StopSend, ServeCancel, Reply, Fault, NoFault
  <2> QED
    BY <2>1, <2>2, <2>3, <2>4
<1>20. ASSUME NEW s \in Stops, StopFinish(s) PROVE Goal
  <2>1. BoolOK'
    BY <1>0, <1>20, Zenon DEF BoolOK, StopFinish, StopAnswer, Finish, Reply, NoFault
  <2>2. PairOK'
    BY <1>0, <1>20 DEF PairOK, StopFinish, StopAnswer, Finish, Reply, NoFault
  <2>3. DataOK'
    BY <1>0, <1>20 DEF DataOK, StageSound, StopFinish, StopAnswer, Finish, Reply, NoFault
  <2>4. StageSound'
    BY <1>0, <1>20 DEF DataOK, StageSound, StopFinish, StopAnswer, Finish, Reply, NoFault
  <2> QED
    BY <2>1, <2>2, <2>3, <2>4
<1>21. ASSUME NEW cb \in callbacks, Deliver(cb) PROVE Goal
  <2>1. BoolOK'
    BY <1>0, <1>21, Zenon DEF BoolOK, Deliver, Received, IsTerminal, Finish, Fault, NoFault
  <2>2. PairOK'
    BY <1>0, <1>21 DEF PairOK, Deliver, Received, IsTerminal, Finish, Fault, NoFault
  <2>3. DataOK'
    BY <1>0, <1>21 DEF DataOK, StageSound, Deliver, Received, IsTerminal, Finish, Fault,
       NoFault
  <2>4. StageSound'
    BY <1>0, <1>21 DEF DataOK, StageSound, Deliver, Received, IsTerminal, Finish, Fault,
       NoFault
  <2> QED
    BY <2>1, <2>2, <2>3, <2>4
<1>22. ASSUME NEW cb \in callbacks, LoseCallback(cb) PROVE Goal
  <2>1. BoolOK'
    BY <1>0, <1>22, Zenon DEF BoolOK, LoseCallback, Fault
  <2>2. PairOK'
    BY <1>0, <1>22 DEF PairOK, LoseCallback, Fault
  <2>3. DataOK'
    BY <1>0, <1>22 DEF DataOK, StageSound, LoseCallback, Fault
  <2>4. StageSound'
    BY <1>0, <1>22 DEF DataOK, StageSound, LoseCallback, Fault
  <2> QED
    BY <2>1, <2>2, <2>3, <2>4
<1>23. CASE WorkStart
  <2>1. BoolOK'
    BY <1>0, <1>23, Zenon DEF BoolOK, WorkStart, NoFault
  <2>2. PairOK'
    BY <1>0, <1>23 DEF PairOK, WorkStart, NoFault
  <2>3. DataOK'
    BY <1>0, <1>23 DEF DataOK, StageSound, WorkStart, NoFault
  <2>4. StageSound'
    BY <1>0, <1>23 DEF DataOK, StageSound, WorkStart, NoFault
  <2> QED
    BY <2>1, <2>2, <2>3, <2>4
<1>24. CASE ReadCases
  <2>0. Complete("failed") => callbacks' \subseteq Terminal \X BOOLEAN /\ status' \in States
    BY <1>0, CompleteType DEF PairOK, DataOK, CaseVerdict
  <2>1. BoolOK'
    BY <1>0, <1>24, Zenon DEF BoolOK, ReadCases, Complete, Fault, NoFault
  <2>2. PairOK'
    BY <2>0, <1>0, <1>24 DEF PairOK, ReadCases, Fault, NoFault
  <2>3. DataOK'
    BY <2>0, <1>0, <1>24 DEF DataOK, StageSound, ReadCases, Fault, NoFault
  <2>4. StageSound'
    BY <1>0, <1>24 DEF DataOK, StageSound, ReadCases, Fault, NoFault
  <2> QED
    BY <2>1, <2>2, <2>3, <2>4
<1>25. CASE CaseStart
  <2>1. BoolOK'
    BY <1>0, <1>25, Zenon DEF BoolOK, CaseStart, Pending, NoFault
  <2>2. PairOK'
    BY <1>0, <1>25 DEF PairOK, CaseStart, Pending, NoFault
  <2>3. DataOK'
    BY <1>0, <1>25 DEF DataOK, StageSound, CaseStart, Pending, NoFault
  <2>4. StageSound'
    BY <1>0, <1>25 DEF DataOK, StageSound, CaseStart, Pending, NoFault
  <2> QED
    BY <2>1, <2>2, <2>3, <2>4
<1>26. CASE CaseDone
  <2>1. BoolOK'
    BY <1>0, <1>26, Zenon DEF BoolOK, CaseDone, StoreCase, MarkCaseError, Fault, NoFault
  <2>2. PairOK'
    BY <1>0, <1>26 DEF PairOK, CaseDone, StoreCase, MarkCaseError, Fault, NoFault
  <2>3. DataOK'
    BY <1>0, <1>26 DEF DataOK, StageSound, CaseDone, StoreCase, MarkCaseError, Fault,
       NoFault
  <2>4. StageSound'
    BY <1>0, <1>26 DEF DataOK, StageSound, CaseDone, StoreCase, MarkCaseError, Fault,
       NoFault
  <2> QED
    BY <2>1, <2>2, <2>3, <2>4
<1>27. CASE WorkerEnds
  <2>0. Complete(CaseVerdict) => callbacks' \subseteq Terminal \X BOOLEAN /\ status' \in States
    BY <1>0, CompleteType DEF PairOK, DataOK, CaseVerdict
  <2>1. BoolOK'
    BY <1>0, <1>27, Zenon DEF BoolOK, WorkerEnds, Complete, CaseVerdict, Pending, NoFault
  <2>2. PairOK'
    BY <2>0, <1>0, <1>27 DEF PairOK, WorkerEnds, CaseVerdict, Pending, NoFault
  <2>3. DataOK'
    BY <2>0, <1>0, <1>27 DEF DataOK, StageSound, WorkerEnds, CaseVerdict, Pending, NoFault
  <2>4. StageSound'
    BY <1>0, <1>27 DEF DataOK, StageSound, WorkerEnds, CaseVerdict, Pending, NoFault
  <2> QED
    BY <2>1, <2>2, <2>3, <2>4
<1>28. CASE WorkerExits
  <2>1. BoolOK'
    BY <1>0, <1>28, Zenon DEF BoolOK, WorkerExits, NoFault
  <2>2. PairOK'
    BY <1>0, <1>28 DEF PairOK, WorkerExits, NoFault
  <2>3. DataOK'
    BY <1>0, <1>28 DEF DataOK, StageSound, WorkerExits, NoFault
  <2>4. StageSound'
    BY <1>0, <1>28 DEF DataOK, StageSound, WorkerExits, NoFault
  <2> QED
    BY <2>1, <2>2, <2>3, <2>4
<1>29. CASE Publish
  <2>1. BoolOK'
    BY <1>0, <1>29, Zenon DEF BoolOK, Publish, NoFault
  <2>2. PairOK'
    BY <1>0, <1>29 DEF PairOK, Publish, NoFault
  <2>3. DataOK'
    BY <1>0, <1>29 DEF DataOK, StageSound, Publish, NoFault
  <2>4. StageSound'
    BY <1>0, <1>29 DEF DataOK, StageSound, Publish, NoFault
  <2> QED
    BY <2>1, <2>2, <2>3, <2>4
<1>30. CASE Crash
  <2>1. BoolOK'
    BY <1>0, <1>30, Zenon DEF BoolOK, Crash, Fault, Idle
  <2>2. PairOK'
    BY <1>0, <1>30 DEF PairOK, Crash, Fault, Idle
  <2>3. DataOK'
    BY <1>0, <1>30 DEF DataOK, StageSound, Crash, Fault, Idle
  <2>4. StageSound'
    BY <1>0, <1>30 DEF DataOK, StageSound, Crash, Fault, Idle
  <2> QED
    BY <2>1, <2>2, <2>3, <2>4
<1>31. CASE UNCHANGED vars
  BY <1>0, <1>31 DEF vars, BoolOK, PairOK, DataOK, StageSound
<1> QED
  BY <1>1, <1>r, <1>2, <1>3, <1>4, <1>5, <1>6, <1>7, <1>8, <1>9, <1>10, <1>11, <1>12, <1>13,
     <1>14, <1>15, <1>16, <1>17, <1>18, <1>19, <1>20, <1>21, <1>22, <1>23, <1>24, <1>25,
     <1>26, <1>27, <1>28, <1>29, <1>30, <1>31 DEF Next, Import, Stop, Service
-----------------------------------------------------------------------------
(***************************************************************************)
(* What each step keeps.                                                   *)
(***************************************************************************)
(* A registration changes no callback but its tag. *)
LEMMA Retagged ==
    ASSUME callbacks' = {<<cb[1], FALSE>> : cb \in callbacks}, NEW new \in callbacks'
    PROVE  \E cb \in callbacks : new[1] = cb[1]
<1>1. PICK cb \in callbacks : new = <<cb[1], FALSE>>
  BY Zenon
<1>2. new[1] = cb[1]
  BY <1>1
<1> QED
  BY <1>2

LEMMA CompleteSound ==
    ASSUME NEW st, Complete(st), st = "completed" => done = Cases, ServiceSound
    PROVE  /\ status' = "completed" => done = Cases
           /\ \A cb \in callbacks' : cb[1] = "completed" => done = Cases
<1>1. CASE notified
  BY <1>1 DEF Complete, endVars, ServiceSound
<1>2. CASE ~notified
  <2>1. status' = st /\ callbacks' = callbacks \cup {<<st, TRUE>>}
    BY <1>2 DEF Complete
  <2>2. <<st, TRUE>>[1] = st
    OBVIOUS
  <2> QED
    BY <2>1, <2>2 DEF ServiceSound
<1> QED
  BY <1>1, <1>2

LEMMA ServiceStep == ASSUME FheInv, [Next]_vars PROVE ServiceSound'
<1>0. DataOK /\ DataOK' /\ StageSound /\ ServiceSound
  BY TypeStep DEF FheInv, TypeOK, DataOK
<1> USE <1>0, FheAssumption DEF FheAssumption, Attempts, None, Terminal, States, Tracked, InFlight, Answers,
        taskVars, indexVars, resultVars, stopVars, workVars, endVars, serviceVars,
        serviceRest, runnerRest, stopRest, importRest, DataOK, StageSound, ServiceSound
<1>1. ASSUME NEW a \in Attempts, Acquire(a) PROVE ServiceSound'
  BY <1>1 DEF Acquire, Idle, Goto, NoFault
<1>r. ASSUME NEW a \in Attempts, Reserve(a) PROVE ServiceSound'
  BY <1>r DEF Reserve, Goto, NoFault
<1>2. ASSUME NEW a \in Attempts, Check(a) PROVE ServiceSound'
  BY <1>2 DEF Check, Freed, Goto, Fault, NoFault
<1>3. ASSUME NEW a \in Attempts, Prepare(a) PROVE ServiceSound'
  <2>1. \/ callbacks' = callbacks
        \/ callbacks' = {<<cb[1], FALSE>> : cb \in callbacks}
    BY <1>3 DEF Prepare
  <2>3. \A cb \in callbacks' : cb[1] = "completed" => done = Cases
    <3> SUFFICES ASSUME NEW cb \in callbacks', cb[1] = "completed" PROVE done = Cases
      OBVIOUS
    <3>1. CASE callbacks' = callbacks
      BY <3>1
    <3>2. CASE callbacks' = {<<old[1], FALSE>> : old \in callbacks}
      <4>2. \A new \in callbacks' : \E old \in callbacks : new[1] = old[1]
        BY <3>2, Retagged, Zenon
      <4> QED
        BY <4>2
    <3> QED
      BY <2>1, <3>1, <3>2
  <2>4. \A b \in Attempts : outcome'[b] = "completed" => outcome[b] = "completed"
    BY <1>3 DEF Prepare, Finish
  <2> QED
    BY <1>3, <2>3, <2>4 DEF Prepare
<1>4. ASSUME NEW a \in Attempts, Create(a) PROVE ServiceSound'
  BY <1>4 DEF Create, Created, ServeCreate, Goto, Fault, NoFault
<1>5. ASSUME NEW a \in Attempts, Probe(a) PROVE ServiceSound'
  BY <1>5 DEF Probe, IsSuccess, Finish, Goto, Fault, NoFault
<1>6. ASSUME NEW a \in Attempts, Continue(a) PROVE ServiceSound'
  BY <1>6 DEF Continue, ServeContinue, Finish, Goto, Fault, NoFault
<1>7. ASSUME NEW a \in Attempts, Poll(a) PROVE ServiceSound'
  BY <1>7 DEF Poll, IsTerminal, Goto, NoFault
<1>8. ASSUME NEW a \in Attempts, FinishPolled(a) PROVE ServiceSound'
  BY <1>8 DEF FinishPolled, Finish, Goto, NoFault
<1>9. ASSUME NEW a \in Attempts, Resolved(a) PROVE ServiceSound'
  BY <1>9 DEF Resolved, Goto, NoFault
<1>10. ASSUME NEW a \in Attempts, Return(a) PROVE ServiceSound'
  BY <1>10 DEF Return, Forgotten, IsSuccess, Goto, NoFault
<1>11. ASSUME NEW a \in Attempts, CopyResult(a) PROVE ServiceSound'
  BY <1>11 DEF CopyResult, Copied, CopyFails, ResultReady, CopyFile, Goto, Fault,
     NoFault
<1>12. ASSUME NEW a \in Attempts, WriteReport(a) PROVE ServiceSound'
  BY <1>12 DEF WriteReport, Freed, IsSuccess, Goto, Fault, NoFault
<1>13. ASSUME NEW a \in Attempts, Commit(a) PROVE ServiceSound'
  BY <1>13 DEF Commit, Freed, Goto, Fault, NoFault
<1>14. ASSUME NEW a \in Attempts, Undo(a) PROVE ServiceSound'
  BY <1>14 DEF Undo, Freed, Goto, NoFault
<1>15. ASSUME NEW a \in Attempts, Send(a) PROVE ServiceSound'
  BY <1>15 DEF Send, IsSuccess, Goto, NoFault
<1>16. ASSUME NEW a \in Attempts, Release(a) PROVE ServiceSound'
  BY <1>16 DEF Release, Goto, NoFault
<1>17. ASSUME NEW s \in Stops, StopRead(s) PROVE ServiceSound'
  BY <1>17 DEF StopRead, Reply, NoFault
<1>18. ASSUME NEW s \in Stops, StopLookup(s) PROVE ServiceSound'
  BY <1>18 DEF StopLookup, Reply, NoFault
<1>19. ASSUME NEW s \in Stops, StopSend(s) PROVE ServiceSound'
  <2>1. Complete("cancelled") => /\ status' = "completed" => done = Cases
                        /\ \A cb \in callbacks' : cb[1] = "completed" => done = Cases
    BY CompleteSound
  <2> QED
    BY <1>19, <2>1 DEF StopSend, ServeCancel
<1>20. ASSUME NEW s \in Stops, StopFinish(s) PROVE ServiceSound'
  BY <1>20 DEF StopFinish, StopAnswer, Finish, Reply, NoFault
<1>21. ASSUME NEW cb \in callbacks, Deliver(cb) PROVE ServiceSound'
  BY <1>21 DEF Deliver, Received, IsTerminal, Finish, Fault, NoFault
<1>22. ASSUME NEW cb \in callbacks, LoseCallback(cb) PROVE ServiceSound'
  BY <1>22 DEF LoseCallback, Fault
<1>23. CASE WorkStart
  BY <1>23 DEF WorkStart, NoFault
<1>24. CASE ReadCases
  <2>1. Complete("failed") => /\ status' = "completed" => done = Cases
                        /\ \A cb \in callbacks' : cb[1] = "completed" => done = Cases
    BY CompleteSound
  <2> QED
    BY <1>24, <2>1 DEF ReadCases
<1>25. CASE CaseStart
  BY <1>25 DEF CaseStart, Pending, NoFault
<1>26. CASE CaseDone
  BY <1>26 DEF CaseDone, StoreCase, MarkCaseError, Fault, NoFault
<1>27. CASE WorkerEnds
  <2>1. Complete(CaseVerdict) => /\ status' = "completed" => done = Cases
                        /\ \A cb \in callbacks' : cb[1] = "completed" => done = Cases
    BY CompleteSound DEF CaseVerdict, Pending
  <2> QED
    BY <1>27, <2>1 DEF WorkerEnds
<1>28. CASE WorkerExits
  BY <1>28 DEF WorkerExits, NoFault
<1>29. CASE Publish
  BY <1>29 DEF Publish, NoFault
<1>30. CASE Crash
  BY <1>30 DEF Crash, Fault, Idle
<1>31. CASE UNCHANGED vars
  BY <1>31 DEF vars
<1> QED
  BY <1>1, <1>r, <1>2, <1>3, <1>4, <1>5, <1>6, <1>7, <1>8, <1>9, <1>10, <1>11, <1>12, <1>13,
     <1>14, <1>15, <1>16, <1>17, <1>18, <1>19, <1>20, <1>21, <1>22, <1>23, <1>24, <1>25,
     <1>26, <1>27, <1>28, <1>29, <1>30, <1>31 DEF Next, Import, Stop, Service

LEMMA OneStep == ASSUME FheInv, [Next]_vars PROVE OneAttempt'
<1>0. DataOK /\ DataOK' /\ OneAttempt
  BY TypeStep DEF FheInv, TypeOK, DataOK
<1> USE <1>0, FheAssumption DEF FheAssumption, Attempts, None, Terminal, States, Tracked, InFlight, Answers,
        taskVars, indexVars, resultVars, stopVars, workVars, endVars, serviceVars,
        serviceRest, runnerRest, stopRest, importRest, DataOK, OneAttempt, Flying
<1>1. ASSUME NEW a \in Attempts, Acquire(a) PROVE OneAttempt'
  BY <1>1 DEF Acquire, Idle, Goto, NoFault
<1>r. ASSUME NEW a \in Attempts, Reserve(a) PROVE OneAttempt'
  BY <1>r DEF Reserve, Goto, NoFault
<1>2. ASSUME NEW a \in Attempts, Check(a) PROVE OneAttempt'
  <2>1. /\ apc' \in [Attempts -> InFlight \cup {"new", "refused", "done", "lost"}]
        /\ \A b \in Attempts \ {a} : apc'[b] = apc[b]
        /\ apc[a] = "check" /\ apc'[a] \in {"stage", "release"} /\ run' = run
    BY <1>2 DEF Check, Goto
  <2>2. \A b \in Attempts : apc'[b] \in InFlight => apc[b] \in InFlight
    BY <2>1
  <2>3. run' # None => apc'[run'] \in Tracked
    BY <2>1
  <2> QED
    BY <2>2, <2>3
<1>3. ASSUME NEW a \in Attempts, Prepare(a) PROVE OneAttempt'
  <2>0. \/ Registered(a) /\ Goto(a, "create")
        \/ Goto(a, "return") /\ UNCHANGED run
    BY <1>3, Zenon DEF Prepare
  <2>1. apc[a] = "stage"
    BY <1>3, Zenon DEF Prepare
  <2>2. /\ \A b \in Attempts \ {a} : apc'[b] = apc[b]
        /\ \/ run' = a /\ apc'[a] = "create"
           \/ run' = run /\ apc'[a] = "return"
    BY <2>0 DEF Registered, Goto
  <2>3. \A b \in Attempts : apc'[b] \in InFlight => apc[b] \in InFlight
    BY <2>1, <2>2
  <2>4. run' # None => apc'[run'] \in Tracked
    BY <2>1, <2>2
  <2> QED
    BY <2>3, <2>4
<1>4. ASSUME NEW a \in Attempts, Create(a) PROVE OneAttempt'
  <2>1. /\ apc' \in [Attempts -> InFlight \cup {"new", "refused", "done", "lost"}]
        /\ \A b \in Attempts \ {a} : apc'[b] = apc[b]
        /\ apc[a] = "create" /\ apc'[a] \in {"wait", "probe"} /\ run' = run
    BY <1>4 DEF Create, Goto
  <2>2. \A b \in Attempts : apc'[b] \in InFlight => apc[b] \in InFlight
    BY <2>1
  <2>3. run' # None => apc'[run'] \in Tracked
    BY <2>1
  <2> QED
    BY <2>2, <2>3
<1>5. ASSUME NEW a \in Attempts, Probe(a) PROVE OneAttempt'
  BY SMTT(60), <1>5 DEF Probe, IsSuccess, Finish, Goto, Fault, NoFault
<1>6. ASSUME NEW a \in Attempts, Continue(a) PROVE OneAttempt'
  <2>1. /\ apc' \in [Attempts -> InFlight \cup {"new", "refused", "done", "lost"}]
        /\ \A b \in Attempts \ {a} : apc'[b] = apc[b]
        /\ apc[a] = "continue" /\ apc'[a] \in {"wait", "return"} /\ run' = run
    BY <1>6 DEF Continue, Goto
  <2>2. \A b \in Attempts : apc'[b] \in InFlight => apc[b] \in InFlight
    BY <2>1
  <2>3. run' # None => apc'[run'] \in Tracked
    BY <2>1
  <2> QED
    BY <2>2, <2>3
<1>7. ASSUME NEW a \in Attempts, Poll(a) PROVE OneAttempt'
  BY <1>7 DEF Poll, IsTerminal, Goto, NoFault
<1>8. ASSUME NEW a \in Attempts, FinishPolled(a) PROVE OneAttempt'
  BY <1>8 DEF FinishPolled, Finish, Goto, NoFault
<1>9. ASSUME NEW a \in Attempts, Resolved(a) PROVE OneAttempt'
  BY <1>9 DEF Resolved, Goto, NoFault
<1>10. ASSUME NEW a \in Attempts, Return(a) PROVE OneAttempt'
  BY <1>10 DEF Return, Forgotten, IsSuccess, Goto, NoFault
<1>11. ASSUME NEW a \in Attempts, CopyResult(a) PROVE OneAttempt'
  BY SMTT(60), <1>11 DEF CopyResult, Copied, CopyFails, ResultReady, CopyFile, Goto, Fault,
     NoFault
<1>12. ASSUME NEW a \in Attempts, WriteReport(a) PROVE OneAttempt'
  <2>1. /\ apc' \in [Attempts -> InFlight \cup {"new", "refused", "done", "lost"}]
        /\ \A b \in Attempts \ {a} : apc'[b] = apc[b]
        /\ apc[a] = "report" /\ apc'[a] \in {"commit", "undo", "release"} /\ run' = run
    BY <1>12 DEF WriteReport, Goto
  <2>2. \A b \in Attempts : apc'[b] \in InFlight => apc[b] \in InFlight
    BY <2>1
  <2>3. run' # None => apc'[run'] \in Tracked
    BY <2>1
  <2> QED
    BY <2>2, <2>3
<1>13. ASSUME NEW a \in Attempts, Commit(a) PROVE OneAttempt'
  BY <1>13 DEF Commit, Freed, Goto, Fault, NoFault
<1>14. ASSUME NEW a \in Attempts, Undo(a) PROVE OneAttempt'
  BY <1>14 DEF Undo, Freed, Goto, NoFault
<1>15. ASSUME NEW a \in Attempts, Send(a) PROVE OneAttempt'
  BY <1>15 DEF Send, IsSuccess, Goto, NoFault
<1>16. ASSUME NEW a \in Attempts, Release(a) PROVE OneAttempt'
  BY SMTT(60), <1>16 DEF Release, Goto, NoFault
<1>17. ASSUME NEW s \in Stops, StopRead(s) PROVE OneAttempt'
  BY <1>17 DEF StopRead, Reply, NoFault
<1>18. ASSUME NEW s \in Stops, StopLookup(s) PROVE OneAttempt'
  BY <1>18 DEF StopLookup, Reply, NoFault
<1>19. ASSUME NEW s \in Stops, StopSend(s) PROVE OneAttempt'
  BY <1>19 DEF StopSend, ServeCancel, Complete, Reply, Fault, NoFault
<1>20. ASSUME NEW s \in Stops, StopFinish(s) PROVE OneAttempt'
  BY <1>20 DEF StopFinish, StopAnswer, Finish, Reply, NoFault
<1>21. ASSUME NEW cb \in callbacks, Deliver(cb) PROVE OneAttempt'
  BY <1>21 DEF Deliver, Received, IsTerminal, Finish, Fault, NoFault
<1>22. ASSUME NEW cb \in callbacks, LoseCallback(cb) PROVE OneAttempt'
  BY <1>22 DEF LoseCallback, Fault
<1>23. CASE WorkStart
  BY <1>23 DEF WorkStart, NoFault
<1>24. CASE ReadCases
  BY <1>24 DEF ReadCases, Complete, Fault, NoFault
<1>25. CASE CaseStart
  BY <1>25 DEF CaseStart, Pending, NoFault
<1>26. CASE CaseDone
  BY <1>26 DEF CaseDone, StoreCase, MarkCaseError, Fault, NoFault
<1>27. CASE WorkerEnds
  BY <1>27 DEF WorkerEnds, Complete, CaseVerdict, Pending, NoFault
<1>28. CASE WorkerExits
  BY <1>28 DEF WorkerExits, NoFault
<1>29. CASE Publish
  BY <1>29 DEF Publish, NoFault
<1>30. CASE Crash
  BY <1>30 DEF Crash, Fault, Idle
<1>31. CASE UNCHANGED vars
  BY <1>31 DEF vars
<1> QED
  BY <1>1, <1>r, <1>2, <1>3, <1>4, <1>5, <1>6, <1>7, <1>8, <1>9, <1>10, <1>11, <1>12, <1>13,
     <1>14, <1>15, <1>16, <1>17, <1>18, <1>19, <1>20, <1>21, <1>22, <1>23, <1>24, <1>25,
     <1>26, <1>27, <1>28, <1>29, <1>30, <1>31 DEF Next, Import, Stop, Service

LEMMA RunStep == ASSUME FheInv, [Next]_vars PROVE RunSound'
<1>0. DataOK /\ DataOK' /\ OneAttempt /\ StageSound /\ RunSound
  BY TypeStep DEF FheInv, TypeOK, DataOK
<1> USE <1>0, FheAssumption DEF FheAssumption, Attempts, None, Terminal, States, Tracked, InFlight, Answers,
        taskVars, indexVars, resultVars, stopVars, workVars, endVars, serviceVars,
        serviceRest, runnerRest, stopRest, importRest, DataOK, OneAttempt, StageSound,
        RunSound, Flying
<1>1. ASSUME NEW a \in Attempts, Acquire(a) PROVE RunSound'
  BY <1>1 DEF Acquire, Idle, Goto, NoFault
<1>r. ASSUME NEW a \in Attempts, Reserve(a) PROVE RunSound'
  BY <1>r DEF Reserve, Goto, NoFault
<1>2. ASSUME NEW a \in Attempts, Check(a) PROVE RunSound'
  BY <1>2 DEF Check, Freed, Goto, Fault, NoFault
<1>3. ASSUME NEW a \in Attempts, Prepare(a) PROVE RunSound'
  <2>0. /\ apc[a] = "stage" /\ UNCHANGED <<spc, srun>>
        /\ \/ UNCHANGED outcome /\ Goto(a, "create")
           \/ Goto(a, "return") /\ \E st \in Terminal : Finish(a, st)
    BY <1>3 DEF Prepare, IsSuccess
  <2>1. PICK o \in Terminal :
           \/ UNCHANGED outcome /\ Goto(a, "create")
           \/ Goto(a, "return") /\ Finish(a, o)
    BY <2>0
  <2>2. /\ \A b \in Attempts \ {a} : apc'[b] = apc[b] /\ outcome'[b] = outcome[b]
        /\ \/ apc'[a] = "create" /\ outcome'[a] = outcome[a]
           \/ apc'[a] = "return" /\ outcome'[a] # "open"
        /\ outcome[a] # "open" => outcome'[a] = outcome[a]
    BY <2>1 DEF Goto, Finish
  <2>3. ASSUME NEW b \in Attempts
        PROVE  /\ apc'[b] = "new" => outcome'[b] = "open"
               /\ apc'[b] \in {"return", "copy", "report", "commit", "undo", "send"} =>
                    outcome'[b] # "open"
               /\ apc'[b] \in {"copy", "commit"} => outcome'[b] = "completed"
               /\ apc'[b] = "undo" => outcome'[b] # "completed"
    BY <2>0, <2>2
  <2>4. ASSUME NEW s \in Stops
        PROVE  /\ spc'[s] \in {"send", "finish"} =>
                    /\ srun'[s] \in Attempts
                    /\ apc'[srun'[s]] \in Tracked \/ outcome'[srun'[s]] # "open"
               /\ spc'[s] = "cancelled" =>
                    srun'[s] \in Attempts /\ outcome'[srun'[s]] = "cancelled"
    <3>1. /\ spc'[s] = spc[s] /\ srun'[s] = srun[s]
          /\ srun[s] = a /\ spc[s] \in {"send", "finish"} => outcome[a] # "open"
      BY <2>0
    <3> QED
      BY <2>2, <3>1
  <2> QED
    BY <2>3, <2>4
<1>4. ASSUME NEW a \in Attempts, Create(a) PROVE RunSound'
  BY <1>4 DEF Create, Created, ServeCreate, Goto, Fault, NoFault
<1>5. ASSUME NEW a \in Attempts, Probe(a) PROVE RunSound'
  <2>0. /\ apc[a] = "probe" /\ UNCHANGED <<spc, srun>>
        /\ \/ UNCHANGED outcome /\ Goto(a, "continue")
           \/ Goto(a, "return") /\ \E st \in Terminal : Finish(a, st)
    BY <1>5 DEF Probe, IsSuccess
  <2>1. PICK o \in Terminal :
           \/ UNCHANGED outcome /\ Goto(a, "continue")
           \/ Goto(a, "return") /\ Finish(a, o)
    BY <2>0
  <2>2. /\ \A b \in Attempts \ {a} : apc'[b] = apc[b] /\ outcome'[b] = outcome[b]
        /\ \/ apc'[a] = "continue" /\ outcome'[a] = outcome[a]
           \/ apc'[a] = "return" /\ outcome'[a] # "open"
        /\ outcome[a] # "open" => outcome'[a] = outcome[a]
    BY <2>1 DEF Goto, Finish
  <2>3. ASSUME NEW b \in Attempts
        PROVE  /\ apc'[b] = "new" => outcome'[b] = "open"
               /\ apc'[b] \in {"return", "copy", "report", "commit", "undo", "send"} =>
                    outcome'[b] # "open"
               /\ apc'[b] \in {"copy", "commit"} => outcome'[b] = "completed"
               /\ apc'[b] = "undo" => outcome'[b] # "completed"
    BY <2>0, <2>2
  <2>4. ASSUME NEW s \in Stops
        PROVE  /\ spc'[s] \in {"send", "finish"} =>
                    /\ srun'[s] \in Attempts
                    /\ apc'[srun'[s]] \in Tracked \/ outcome'[srun'[s]] # "open"
               /\ spc'[s] = "cancelled" =>
                    srun'[s] \in Attempts /\ outcome'[srun'[s]] = "cancelled"
    BY <2>0, <2>2
  <2> QED
    BY <2>3, <2>4
<1>6. ASSUME NEW a \in Attempts, Continue(a) PROVE RunSound'
  <2>0. /\ apc[a] = "continue" /\ UNCHANGED <<spc, srun>>
        /\ \/ UNCHANGED outcome /\ Goto(a, "wait")
           \/ Goto(a, "return") /\ \E st \in Terminal : Finish(a, st)
    BY <1>6 DEF Continue, IsSuccess
  <2>1. PICK o \in Terminal :
           \/ UNCHANGED outcome /\ Goto(a, "wait")
           \/ Goto(a, "return") /\ Finish(a, o)
    BY <2>0
  <2>2. /\ \A b \in Attempts \ {a} : apc'[b] = apc[b] /\ outcome'[b] = outcome[b]
        /\ \/ apc'[a] = "wait" /\ outcome'[a] = outcome[a]
           \/ apc'[a] = "return" /\ outcome'[a] # "open"
        /\ outcome[a] # "open" => outcome'[a] = outcome[a]
    BY <2>1 DEF Goto, Finish
  <2>3. ASSUME NEW b \in Attempts
        PROVE  /\ apc'[b] = "new" => outcome'[b] = "open"
               /\ apc'[b] \in {"return", "copy", "report", "commit", "undo", "send"} =>
                    outcome'[b] # "open"
               /\ apc'[b] \in {"copy", "commit"} => outcome'[b] = "completed"
               /\ apc'[b] = "undo" => outcome'[b] # "completed"
    BY <2>0, <2>2
  <2>4. ASSUME NEW s \in Stops
        PROVE  /\ spc'[s] \in {"send", "finish"} =>
                    /\ srun'[s] \in Attempts
                    /\ apc'[srun'[s]] \in Tracked \/ outcome'[srun'[s]] # "open"
               /\ spc'[s] = "cancelled" =>
                    srun'[s] \in Attempts /\ outcome'[srun'[s]] = "cancelled"
    BY <2>0, <2>2
  <2> QED
    BY <2>3, <2>4
<1>7. ASSUME NEW a \in Attempts, Poll(a) PROVE RunSound'
  BY <1>7 DEF Poll, IsTerminal, Goto, NoFault
<1>8. ASSUME NEW a \in Attempts, FinishPolled(a) PROVE RunSound'
  BY <1>8 DEF FinishPolled, Finish, Goto, NoFault
<1>9. ASSUME NEW a \in Attempts, Resolved(a) PROVE RunSound'
  BY <1>9 DEF Resolved, Goto, NoFault
<1>10. ASSUME NEW a \in Attempts, Return(a) PROVE RunSound'
  BY <1>10 DEF Return, Forgotten, IsSuccess, Goto, NoFault
<1>11. ASSUME NEW a \in Attempts, CopyResult(a) PROVE RunSound'
  BY <1>11 DEF CopyResult, Copied, CopyFails, ResultReady, CopyFile, Goto, Fault,
     NoFault
<1>12. ASSUME NEW a \in Attempts, WriteReport(a) PROVE RunSound'
  BY <1>12 DEF WriteReport, Freed, IsSuccess, Goto, Fault, NoFault
<1>13. ASSUME NEW a \in Attempts, Commit(a) PROVE RunSound'
  BY <1>13 DEF Commit, Freed, Goto, Fault, NoFault
<1>14. ASSUME NEW a \in Attempts, Undo(a) PROVE RunSound'
  BY <1>14 DEF Undo, Freed, Goto, NoFault
<1>15. ASSUME NEW a \in Attempts, Send(a) PROVE RunSound'
  BY <1>15 DEF Send, IsSuccess, Goto, NoFault
<1>16. ASSUME NEW a \in Attempts, Release(a) PROVE RunSound'
  BY SMTT(60), <1>16 DEF Release, Goto, NoFault
<1>17. ASSUME NEW s \in Stops, StopRead(s) PROVE RunSound'
  BY <1>17 DEF StopRead, Reply, NoFault
<1>18. ASSUME NEW s \in Stops, StopLookup(s) PROVE RunSound'
  BY <1>18 DEF StopLookup, Reply, NoFault
<1>19. ASSUME NEW s \in Stops, StopSend(s) PROVE RunSound'
  <2>1. /\ spc[s] = "send" /\ spc' = [spc EXCEPT ![s] = spc'[s]] /\ spc'[s] \in {"finish", "failed"}
        /\ UNCHANGED <<srun, outcome, apc>>
    BY <1>19 DEF StopSend, Reply
  <2> QED
    BY <2>1
<1>20. ASSUME NEW s \in Stops, StopFinish(s) PROVE RunSound'
  BY <1>20 DEF StopFinish, StopAnswer, Finish, Reply, NoFault
<1>21. ASSUME NEW cb \in callbacks, Deliver(cb) PROVE RunSound'
  BY <1>21 DEF Deliver, Received, IsTerminal, Finish, Fault, NoFault
<1>22. ASSUME NEW cb \in callbacks, LoseCallback(cb) PROVE RunSound'
  BY <1>22 DEF LoseCallback, Fault
<1>23. CASE WorkStart
  BY <1>23 DEF WorkStart, NoFault
<1>24. CASE ReadCases
  BY <1>24 DEF ReadCases, Complete, Fault, NoFault
<1>25. CASE CaseStart
  BY <1>25 DEF CaseStart, Pending, NoFault
<1>26. CASE CaseDone
  BY <1>26 DEF CaseDone, StoreCase, MarkCaseError, Fault, NoFault
<1>27. CASE WorkerEnds
  BY <1>27 DEF WorkerEnds, Complete, CaseVerdict, Pending, NoFault
<1>28. CASE WorkerExits
  BY <1>28 DEF WorkerExits, NoFault
<1>29. CASE Publish
  BY <1>29 DEF Publish, NoFault
<1>30. CASE Crash
  BY <1>30 DEF Crash, Fault, Idle
<1>31. CASE UNCHANGED vars
  BY <1>31 DEF vars
<1> QED
  BY <1>1, <1>r, <1>2, <1>3, <1>4, <1>5, <1>6, <1>7, <1>8, <1>9, <1>10, <1>11, <1>12, <1>13,
     <1>14, <1>15, <1>16, <1>17, <1>18, <1>19, <1>20, <1>21, <1>22, <1>23, <1>24, <1>25,
     <1>26, <1>27, <1>28, <1>29, <1>30, <1>31 DEF Next, Import, Stop, Service

(* Only a completed run is reported as a success, and no report is taken back. *)
LEMMA SuccessSaid ==
    ASSUME FheInv, [Next]_vars, NEW k \in Attempts
    PROVE  /\ Succeeded(k) => Succeeded(k)'
           /\ Succeeded(k)' => \/ Succeeded(k)
                               \/ apc[k] = "send" /\ apc'[k] = "release" /\ outcome[k] = "completed"
<1> DEFINE Goal == /\ Succeeded(k) => Succeeded(k)'
                   /\ Succeeded(k)' =>
                        \/ Succeeded(k)
                        \/ apc[k] = "send" /\ apc'[k] = "release" /\ outcome[k] = "completed"
<1> SUFFICES Goal
  OBVIOUS
<1>0. apc \in [Attempts -> InFlight \cup {"new", "refused", "done", "lost"}]
  BY DEF FheInv, TypeOK
<1> USE <1>0 DEF Succeeded, taskVars, indexVars, resultVars, stopVars, workVars, endVars,
        serviceVars, serviceRest, runnerRest, stopRest, importRest
<1>1. ASSUME NEW a \in Attempts, Acquire(a) PROVE Goal
  BY <1>1 DEF Acquire, Idle, Goto, NoFault
<1>r. ASSUME NEW a \in Attempts, Reserve(a) PROVE Goal
  BY <1>r DEF Reserve, Goto, NoFault
<1>2. ASSUME NEW a \in Attempts, Check(a) PROVE Goal
  BY <1>2 DEF Check, Freed, Goto, Fault, NoFault
<1>3. ASSUME NEW a \in Attempts, Prepare(a) PROVE Goal
  BY <1>3 DEF Prepare, Registered, Finish, Goto, Fault, NoFault
<1>4. ASSUME NEW a \in Attempts, Create(a) PROVE Goal
  BY <1>4 DEF Create, Created, ServeCreate, Goto, Fault, NoFault
<1>5. ASSUME NEW a \in Attempts, Probe(a) PROVE Goal
  BY <1>5 DEF Probe, IsSuccess, Finish, Goto, Fault, NoFault
<1>6. ASSUME NEW a \in Attempts, Continue(a) PROVE Goal
  BY <1>6 DEF Continue, ServeContinue, Finish, Goto, Fault, NoFault
<1>7. ASSUME NEW a \in Attempts, Poll(a) PROVE Goal
  BY <1>7 DEF Poll, IsTerminal, Goto, NoFault
<1>8. ASSUME NEW a \in Attempts, FinishPolled(a) PROVE Goal
  BY <1>8 DEF FinishPolled, Finish, Goto, NoFault
<1>9. ASSUME NEW a \in Attempts, Resolved(a) PROVE Goal
  BY <1>9 DEF Resolved, Goto, NoFault
<1>10. ASSUME NEW a \in Attempts, Return(a) PROVE Goal
  BY <1>10 DEF Return, Forgotten, IsSuccess, Goto, NoFault
<1>11. ASSUME NEW a \in Attempts, CopyResult(a) PROVE Goal
  BY <1>11 DEF CopyResult, Copied, CopyFails, ResultReady, CopyFile, Goto, Fault,
     NoFault
<1>12. ASSUME NEW a \in Attempts, WriteReport(a) PROVE Goal
  BY <1>12 DEF WriteReport, Freed, IsSuccess, Goto, Fault, NoFault
<1>13. ASSUME NEW a \in Attempts, Commit(a) PROVE Goal
  BY <1>13 DEF Commit, Freed, Goto, Fault, NoFault
<1>14. ASSUME NEW a \in Attempts, Undo(a) PROVE Goal
  BY <1>14 DEF Undo, Freed, Goto, NoFault
<1>15. ASSUME NEW a \in Attempts, Send(a) PROVE Goal
  BY <1>15 DEF Send, IsSuccess, Goto, NoFault
<1>16. ASSUME NEW a \in Attempts, Release(a) PROVE Goal
  BY <1>16 DEF Release, Goto, NoFault
<1>17. ASSUME NEW s \in Stops, StopRead(s) PROVE Goal
  BY <1>17 DEF StopRead, Reply, NoFault
<1>18. ASSUME NEW s \in Stops, StopLookup(s) PROVE Goal
  BY <1>18 DEF StopLookup, Reply, NoFault
<1>19. ASSUME NEW s \in Stops, StopSend(s) PROVE Goal
  BY <1>19 DEF StopSend, ServeCancel, Complete, Reply, Fault, NoFault
<1>20. ASSUME NEW s \in Stops, StopFinish(s) PROVE Goal
  BY <1>20 DEF StopFinish, StopAnswer, Finish, Reply, NoFault
<1>21. ASSUME NEW cb \in callbacks, Deliver(cb) PROVE Goal
  BY <1>21 DEF Deliver, Received, IsTerminal, Finish, Fault, NoFault
<1>22. ASSUME NEW cb \in callbacks, LoseCallback(cb) PROVE Goal
  BY <1>22 DEF LoseCallback, Fault
<1>23. CASE WorkStart
  BY <1>23 DEF WorkStart, NoFault
<1>24. CASE ReadCases
  BY <1>24 DEF ReadCases, Complete, Fault, NoFault
<1>25. CASE CaseStart
  BY <1>25 DEF CaseStart, Pending, NoFault
<1>26. CASE CaseDone
  BY <1>26 DEF CaseDone, StoreCase, MarkCaseError, Fault, NoFault
<1>27. CASE WorkerEnds
  BY <1>27 DEF WorkerEnds, Complete, CaseVerdict, Pending, NoFault
<1>28. CASE WorkerExits
  BY <1>28 DEF WorkerExits, NoFault
<1>29. CASE Publish
  BY <1>29 DEF Publish, NoFault
<1>30. CASE Crash
  BY <1>30 DEF Crash, Fault, Idle
<1>31. CASE UNCHANGED vars
  BY <1>31 DEF vars
<1> QED
  BY <1>1, <1>r, <1>2, <1>3, <1>4, <1>5, <1>6, <1>7, <1>8, <1>9, <1>10, <1>11, <1>12, <1>13,
     <1>14, <1>15, <1>16, <1>17, <1>18, <1>19, <1>20, <1>21, <1>22, <1>23, <1>24, <1>25,
     <1>26, <1>27, <1>28, <1>29, <1>30, <1>31 DEF Next, Import, Stop, Service

(* Who may begin, and what the steps of all attempts have in common. *)
Begun(a) == Idle /\ \A b \in Attempts : b < a => apc[b] # "new"
LEMMA StageMoves ==
    ASSUME DataOK, [Next]_vars, NEW k \in Attempts
    PROVE  /\ apc[k] = "lost" => apc'[k] = "lost"
           /\ apc[k] # "new" => apc'[k] # "new"
           /\ Flying(k)' => Flying(k) \/ apc[k] = "new"
           /\ apc[k] = "new" => apc'[k] = "new" \/ Begun(k)
<1> DEFINE Goal == /\ apc[k] = "lost" => apc'[k] = "lost"
                   /\ apc[k] # "new" => apc'[k] # "new"
                   /\ Flying(k)' => Flying(k) \/ apc[k] = "new"
                   /\ apc[k] = "new" => apc'[k] = "new" \/ Begun(k)
<1> SUFFICES Goal
  OBVIOUS
<1>0. apc \in [Attempts -> InFlight \cup {"new", "refused", "done", "lost"}]
  BY DEF DataOK
<1> USE <1>0 DEF Flying, InFlight, Tracked, taskVars, indexVars, resultVars, stopVars, workVars,
        endVars, serviceVars, serviceRest, runnerRest, stopRest, importRest
<1>1. ASSUME NEW a \in Attempts, Acquire(a) PROVE Goal
  BY <1>1 DEF Acquire, Begun, Goto, NoFault
<1>r. ASSUME NEW a \in Attempts, Reserve(a) PROVE Goal
  BY <1>r DEF Reserve, Goto, NoFault
<1>2. ASSUME NEW a \in Attempts, Check(a) PROVE Goal
  BY <1>2 DEF Check, Freed, Goto, Fault, NoFault
<1>3. ASSUME NEW a \in Attempts, Prepare(a) PROVE Goal
  BY <1>3 DEF Prepare, Registered, Finish, Goto, Fault, NoFault
<1>4. ASSUME NEW a \in Attempts, Create(a) PROVE Goal
  BY <1>4 DEF Create, Created, ServeCreate, Goto, Fault, NoFault
<1>5. ASSUME NEW a \in Attempts, Probe(a) PROVE Goal
  BY <1>5 DEF Probe, IsSuccess, Finish, Goto, Fault, NoFault
<1>6. ASSUME NEW a \in Attempts, Continue(a) PROVE Goal
  BY <1>6 DEF Continue, ServeContinue, Finish, Goto, Fault, NoFault
<1>7. ASSUME NEW a \in Attempts, Poll(a) PROVE Goal
  BY <1>7 DEF Poll, IsTerminal, Goto, NoFault
<1>8. ASSUME NEW a \in Attempts, FinishPolled(a) PROVE Goal
  BY <1>8 DEF FinishPolled, Finish, Goto, NoFault
<1>9. ASSUME NEW a \in Attempts, Resolved(a) PROVE Goal
  BY <1>9 DEF Resolved, Goto, NoFault
<1>10. ASSUME NEW a \in Attempts, Return(a) PROVE Goal
  BY <1>10 DEF Return, Forgotten, IsSuccess, Goto, NoFault
<1>11. ASSUME NEW a \in Attempts, CopyResult(a) PROVE Goal
  BY <1>11 DEF CopyResult, Copied, CopyFails, ResultReady, CopyFile, Goto, Fault,
     NoFault
<1>12. ASSUME NEW a \in Attempts, WriteReport(a) PROVE Goal
  BY <1>12 DEF WriteReport, Freed, IsSuccess, Goto, Fault, NoFault
<1>13. ASSUME NEW a \in Attempts, Commit(a) PROVE Goal
  BY <1>13 DEF Commit, Freed, Goto, Fault, NoFault
<1>14. ASSUME NEW a \in Attempts, Undo(a) PROVE Goal
  BY <1>14 DEF Undo, Freed, Goto, NoFault
<1>15. ASSUME NEW a \in Attempts, Send(a) PROVE Goal
  BY <1>15 DEF Send, IsSuccess, Goto, NoFault
<1>16. ASSUME NEW a \in Attempts, Release(a) PROVE Goal
  BY <1>16 DEF Release, Goto, NoFault
<1>17. ASSUME NEW s \in Stops, StopRead(s) PROVE Goal
  BY <1>17 DEF StopRead, Reply, NoFault
<1>18. ASSUME NEW s \in Stops, StopLookup(s) PROVE Goal
  BY <1>18 DEF StopLookup, Reply, NoFault
<1>19. ASSUME NEW s \in Stops, StopSend(s) PROVE Goal
  BY <1>19 DEF StopSend, ServeCancel, Complete, Reply, Fault, NoFault
<1>20. ASSUME NEW s \in Stops, StopFinish(s) PROVE Goal
  BY <1>20 DEF StopFinish, StopAnswer, Finish, Reply, NoFault
<1>21. ASSUME NEW cb \in callbacks, Deliver(cb) PROVE Goal
  BY <1>21 DEF Deliver, Received, IsTerminal, Finish, Fault, NoFault
<1>22. ASSUME NEW cb \in callbacks, LoseCallback(cb) PROVE Goal
  BY <1>22 DEF LoseCallback, Fault
<1>23. CASE WorkStart
  BY <1>23 DEF WorkStart, NoFault
<1>24. CASE ReadCases
  BY <1>24 DEF ReadCases, Complete, Fault, NoFault
<1>25. CASE CaseStart
  BY <1>25 DEF CaseStart, Pending, NoFault
<1>26. CASE CaseDone
  BY <1>26 DEF CaseDone, StoreCase, MarkCaseError, Fault, NoFault
<1>27. CASE WorkerEnds
  BY <1>27 DEF WorkerEnds, Complete, CaseVerdict, Pending, NoFault
<1>28. CASE WorkerExits
  BY <1>28 DEF WorkerExits, NoFault
<1>29. CASE Publish
  BY <1>29 DEF Publish, NoFault
<1>30. CASE Crash
  BY <1>30 DEF Crash, Fault, Idle
<1>31. CASE UNCHANGED vars
  BY <1>31 DEF vars
<1> QED
  BY <1>1, <1>r, <1>2, <1>3, <1>4, <1>5, <1>6, <1>7, <1>8, <1>9, <1>10, <1>11, <1>12, <1>13,
     <1>14, <1>15, <1>16, <1>17, <1>18, <1>19, <1>20, <1>21, <1>22, <1>23, <1>24, <1>25,
     <1>26, <1>27, <1>28, <1>29, <1>30, <1>31 DEF Next, Import, Stop, Service

LEMMA OrderStep == ASSUME FheInv, [Next]_vars PROVE InOrder'
<1>0. DataOK /\ InOrder
  BY DEF FheInv, TypeOK, DataOK
<1> SUFFICES ASSUME NEW a \in Attempts, NEW b \in Attempts, b < a, apc'[a] # "new"
             PROVE  apc'[b] # "new" /\ ~Flying(b)'
  BY DEF InOrder
<1>1. apc[b] # "new" /\ ~Flying(b)
  <2>1. CASE apc[a] # "new"
    BY <1>0, <2>1 DEF InOrder
  <2>2. CASE apc[a] = "new"
    BY <1>0, <2>2, StageMoves DEF Begun, Idle, Flying
  <2> QED
    BY <2>1, <2>2
<1> QED
  BY <1>0, <1>1, StageMoves

(* A registration or a failed staging, without its callbacks. *)
LEMMA PrepareFrame ==
    ASSUME DataOK, NEW a \in Attempts, Prepare(a)
    PROVE  /\ apc[a] = "stage" /\ apc'[a] \in {"create", "return"}
           /\ \A b \in Attempts \ {a} : apc'[b] = apc[b] /\ outcome'[b] = outcome[b]
           /\ outcome'[a] \in {outcome[a], "failed"}
           /\ UNCHANGED <<reserved, record, unsaved, archive, report>>
<1>1. /\ apc[a] = "stage" /\ UNCHANGED <<reserved, record, unsaved, archive, report>>
      /\ \/ UNCHANGED outcome /\ Goto(a, "create")
         \/ Goto(a, "return") /\ Finish(a, "failed")
  BY Zenon DEF Prepare, runnerRest, indexVars, resultVars
<1> QED
  BY <1>1 DEF DataOK, Goto, Finish

LEMMA SaidStep == ASSUME FheInv, [Next]_vars PROVE SaidSound'
<1>0. DataOK /\ DataOK' /\ OneAttempt /\ RunSound /\ SaidSound
  BY TypeStep DEF FheInv, TypeOK, DataOK
<1>a. \A k \in Attempts : Succeeded(k)' =>
         \/ Succeeded(k)
         \/ apc[k] = "send" /\ apc'[k] = "release" /\ outcome[k] = "completed"
  BY SuccessSaid
<1> USE <1>a
<1> USE <1>0, FheAssumption DEF FheAssumption, Attempts, None, Terminal, States, Tracked, InFlight, Answers,
        taskVars, indexVars, resultVars, stopVars, workVars, endVars, serviceVars,
        serviceRest, runnerRest, stopRest, importRest, DataOK, RunSound, SaidSound,
        OneAttempt, Flying
<1>1. ASSUME NEW a \in Attempts, Acquire(a) PROVE SaidSound'
  BY <1>1 DEF Acquire, Idle, Goto, NoFault
<1>r. ASSUME NEW a \in Attempts, Reserve(a) PROVE SaidSound'
  BY <1>r DEF Reserve, Goto, NoFault
<1>2. ASSUME NEW a \in Attempts, Check(a) PROVE SaidSound'
  BY <1>2 DEF Check, Freed, Goto, Fault, NoFault
<1>3. ASSUME NEW a \in Attempts, Prepare(a) PROVE SaidSound'
  <2>1. /\ apc[a] = "stage"
        /\ \A b \in Attempts \ {a} : apc'[b] = apc[b] /\ outcome'[b] = outcome[b]
    BY <1>3, PrepareFrame
  <2>2. \A b \in Attempts : Succeeded(b)' => Succeeded(b) /\ b # a
    BY <2>1
  <2> QED
    BY <2>1, <2>2
<1>4. ASSUME NEW a \in Attempts, Create(a) PROVE SaidSound'
  BY <1>4 DEF Create, Created, ServeCreate, Goto, Fault, NoFault
<1>5. ASSUME NEW a \in Attempts, Probe(a) PROVE SaidSound'
  BY <1>5 DEF Probe, IsSuccess, Finish, Goto, Fault, NoFault
<1>6. ASSUME NEW a \in Attempts, Continue(a) PROVE SaidSound'
  BY <1>6 DEF Continue, ServeContinue, Finish, Goto, Fault, NoFault
<1>7. ASSUME NEW a \in Attempts, Poll(a) PROVE SaidSound'
  BY <1>7 DEF Poll, IsTerminal, Goto, NoFault
<1>8. ASSUME NEW a \in Attempts, FinishPolled(a) PROVE SaidSound'
  BY <1>8 DEF FinishPolled, Finish, Goto, NoFault
<1>9. ASSUME NEW a \in Attempts, Resolved(a) PROVE SaidSound'
  BY <1>9 DEF Resolved, Goto, NoFault
<1>10. ASSUME NEW a \in Attempts, Return(a) PROVE SaidSound'
  BY <1>10 DEF Return, Forgotten, IsSuccess, Goto, NoFault
<1>11. ASSUME NEW a \in Attempts, CopyResult(a) PROVE SaidSound'
  BY <1>11 DEF CopyResult, Copied, CopyFails, ResultReady, CopyFile, Goto, Fault,
     NoFault
<1>12. ASSUME NEW a \in Attempts, WriteReport(a) PROVE SaidSound'
  BY <1>12 DEF WriteReport, Freed, IsSuccess, Goto, Fault, NoFault
<1>13. ASSUME NEW a \in Attempts, Commit(a) PROVE SaidSound'
  BY <1>13 DEF Commit, Freed, Goto, Fault, NoFault
<1>14. ASSUME NEW a \in Attempts, Undo(a) PROVE SaidSound'
  BY <1>14 DEF Undo, Freed, Goto, NoFault
<1>15. ASSUME NEW a \in Attempts, Send(a) PROVE SaidSound'
  BY <1>15 DEF Send, IsSuccess, Goto, NoFault
<1>16. ASSUME NEW a \in Attempts, Release(a) PROVE SaidSound'
  BY <1>16 DEF Release, Goto, NoFault
<1>17. ASSUME NEW s \in Stops, StopRead(s) PROVE SaidSound'
  BY <1>17 DEF StopRead, Reply, NoFault
<1>18. ASSUME NEW s \in Stops, StopLookup(s) PROVE SaidSound'
  BY <1>18 DEF StopLookup, Reply, NoFault
<1>19. ASSUME NEW s \in Stops, StopSend(s) PROVE SaidSound'
  BY <1>19 DEF StopSend, ServeCancel, Complete, Reply, Fault, NoFault
<1>20. ASSUME NEW s \in Stops, StopFinish(s) PROVE SaidSound'
  BY <1>20 DEF StopFinish, StopAnswer, Finish, Reply, NoFault
<1>21. ASSUME NEW cb \in callbacks, Deliver(cb) PROVE SaidSound'
  BY <1>21 DEF Deliver, Received, IsTerminal, Finish, Fault, NoFault
<1>22. ASSUME NEW cb \in callbacks, LoseCallback(cb) PROVE SaidSound'
  BY <1>22 DEF LoseCallback, Fault
<1>23. CASE WorkStart
  BY <1>23 DEF WorkStart, NoFault
<1>24. CASE ReadCases
  BY <1>24 DEF ReadCases, Complete, Fault, NoFault
<1>25. CASE CaseStart
  BY <1>25 DEF CaseStart, Pending, NoFault
<1>26. CASE CaseDone
  BY <1>26 DEF CaseDone, StoreCase, MarkCaseError, Fault, NoFault
<1>27. CASE WorkerEnds
  BY <1>27 DEF WorkerEnds, Complete, CaseVerdict, Pending, NoFault
<1>28. CASE WorkerExits
  BY <1>28 DEF WorkerExits, NoFault
<1>29. CASE Publish
  BY <1>29 DEF Publish, NoFault
<1>30. CASE Crash
  BY <1>30 DEF Crash, Fault, Idle
<1>31. CASE UNCHANGED vars
  BY <1>31 DEF vars
<1> QED
  BY <1>1, <1>r, <1>2, <1>3, <1>4, <1>5, <1>6, <1>7, <1>8, <1>9, <1>10, <1>11, <1>12, <1>13,
     <1>14, <1>15, <1>16, <1>17, <1>18, <1>19, <1>20, <1>21, <1>22, <1>23, <1>24, <1>25,
     <1>26, <1>27, <1>28, <1>29, <1>30, <1>31 DEF Next, Import, Stop, Service

LEMMA DirStep == ASSUME FheInv, [Next]_vars PROVE DirSound'
<1>0. DataOK /\ DataOK' /\ OneAttempt /\ RunSound /\ ServiceSound /\ DirSound
  BY TypeStep DEF FheInv, TypeOK, DataOK
<1> USE <1>0, FheAssumption DEF FheAssumption, Attempts, None, Terminal, States, Tracked, InFlight, Answers,
        taskVars, indexVars, resultVars, stopVars, workVars, endVars, serviceVars,
        serviceRest, runnerRest, stopRest, importRest, DataOK, OneAttempt, RunSound,
        ServiceSound, DirSound, RecordBacked, Flying
<1>1. ASSUME NEW a \in Attempts, Acquire(a) PROVE DirSound'
  BY <1>1 DEF Acquire, Idle, Goto, NoFault
<1>r. ASSUME NEW a \in Attempts, Reserve(a) PROVE DirSound'
  BY <1>r DEF Reserve, Goto, NoFault
<1>2. ASSUME NEW a \in Attempts, Check(a) PROVE DirSound'
  BY SMTT(60), <1>2 DEF Check, Freed, Goto, Fault, NoFault
<1>3. ASSUME NEW a \in Attempts, Prepare(a) PROVE DirSound'
  BY <1>3, PrepareFrame
<1>4. ASSUME NEW a \in Attempts, Create(a) PROVE DirSound'
  BY <1>4 DEF Create, Created, ServeCreate, Goto, Fault, NoFault
<1>5. ASSUME NEW a \in Attempts, Probe(a) PROVE DirSound'
  BY SMTT(60), <1>5 DEF Probe, IsSuccess, Finish, Goto, Fault, NoFault
<1>6. ASSUME NEW a \in Attempts, Continue(a) PROVE DirSound'
  BY <1>6 DEF Continue, ServeContinue, Finish, Goto, Fault, NoFault
<1>7. ASSUME NEW a \in Attempts, Poll(a) PROVE DirSound'
  BY <1>7 DEF Poll, IsTerminal, Goto, NoFault
<1>8. ASSUME NEW a \in Attempts, FinishPolled(a) PROVE DirSound'
  BY <1>8 DEF FinishPolled, Finish, Goto, NoFault
<1>9. ASSUME NEW a \in Attempts, Resolved(a) PROVE DirSound'
  BY <1>9 DEF Resolved, Goto, NoFault
<1>10. ASSUME NEW a \in Attempts, Return(a) PROVE DirSound'
  BY <1>10 DEF Return, Forgotten, IsSuccess, Goto, NoFault
<1>11. ASSUME NEW a \in Attempts, CopyResult(a) PROVE DirSound'
  BY <1>11 DEF CopyResult, Copied, CopyFails, ResultReady, CopyFile, Goto, Fault,
     NoFault
<1>12. ASSUME NEW a \in Attempts, WriteReport(a) PROVE DirSound'
  BY <1>12 DEF WriteReport, Freed, IsSuccess, Goto, Fault, NoFault
<1>13. ASSUME NEW a \in Attempts, Commit(a) PROVE DirSound'
  BY <1>13 DEF Commit, Freed, Goto, Fault, NoFault
<1>14. ASSUME NEW a \in Attempts, Undo(a) PROVE DirSound'
  BY <1>14 DEF Undo, Freed, Goto, NoFault
<1>15. ASSUME NEW a \in Attempts, Send(a) PROVE DirSound'
  BY <1>15 DEF Send, IsSuccess, Goto, NoFault
<1>16. ASSUME NEW a \in Attempts, Release(a) PROVE DirSound'
  BY <1>16 DEF Release, Goto, NoFault
<1>17. ASSUME NEW s \in Stops, StopRead(s) PROVE DirSound'
  BY <1>17 DEF StopRead, Reply, NoFault
<1>18. ASSUME NEW s \in Stops, StopLookup(s) PROVE DirSound'
  BY <1>18 DEF StopLookup, Reply, NoFault
<1>19. ASSUME NEW s \in Stops, StopSend(s) PROVE DirSound'
  BY <1>19 DEF StopSend, ServeCancel, Complete, Reply, Fault, NoFault
<1>20. ASSUME NEW s \in Stops, StopFinish(s) PROVE DirSound'
  BY <1>20 DEF StopFinish, StopAnswer, Finish, Reply, NoFault
<1>21. ASSUME NEW cb \in callbacks, Deliver(cb) PROVE DirSound'
  BY <1>21 DEF Deliver, Received, IsTerminal, Finish, Fault, NoFault
<1>22. ASSUME NEW cb \in callbacks, LoseCallback(cb) PROVE DirSound'
  BY <1>22 DEF LoseCallback, Fault
<1>23. CASE WorkStart
  BY <1>23 DEF WorkStart, NoFault
<1>24. CASE ReadCases
  BY <1>24 DEF ReadCases, Complete, Fault, NoFault
<1>25. CASE CaseStart
  BY <1>25 DEF CaseStart, Pending, NoFault
<1>26. CASE CaseDone
  BY <1>26 DEF CaseDone, StoreCase, MarkCaseError, Fault, NoFault
<1>27. CASE WorkerEnds
  BY <1>27 DEF WorkerEnds, Complete, CaseVerdict, Pending, NoFault
<1>28. CASE WorkerExits
  BY <1>28 DEF WorkerExits, NoFault
<1>29. CASE Publish
  BY <1>29 DEF Publish, NoFault
<1>30. CASE Crash
  BY <1>30 DEF Crash, Fault, Idle
<1>31. CASE UNCHANGED vars
  BY <1>31 DEF vars
<1> QED
  BY <1>1, <1>r, <1>2, <1>3, <1>4, <1>5, <1>6, <1>7, <1>8, <1>9, <1>10, <1>11, <1>12, <1>13,
     <1>14, <1>15, <1>16, <1>17, <1>18, <1>19, <1>20, <1>21, <1>22, <1>23, <1>24, <1>25,
     <1>26, <1>27, <1>28, <1>29, <1>30, <1>31 DEF Next, Import, Stop, Service

LEMMA ReservedStep == ASSUME FheInv, [Next]_vars PROVE ReservedSound'
<1>0. DataOK /\ DataOK' /\ OneAttempt /\ ReservedSound
  BY TypeStep DEF FheInv, TypeOK, DataOK
<1> USE <1>0, FheAssumption DEF FheAssumption, Attempts, None, Terminal, States, Tracked, InFlight, Answers,
        taskVars, indexVars, resultVars, stopVars, workVars, endVars, serviceVars,
        serviceRest, runnerRest, stopRest, importRest, DataOK, OneAttempt, ReservedSound,
        Flying
<1>1. ASSUME NEW a \in Attempts, Acquire(a) PROVE ReservedSound'
  BY <1>1 DEF Acquire, Idle, Goto, NoFault
<1>r. ASSUME NEW a \in Attempts, Reserve(a) PROVE ReservedSound'
  BY <1>r DEF Reserve, Goto, NoFault
<1>2. ASSUME NEW a \in Attempts, Check(a) PROVE ReservedSound'
  <2>1. /\ \A b \in Attempts \ {a} : apc'[b] = apc[b]
        /\ apc[a] = "check" /\ apc'[a] \in {"stage", "release"}
        /\ (apc'[a] = "stage" \/ reserved' = FALSE)
    BY <1>2 DEF Check, Freed, Goto, Fault, NoFault
  <2> QED
    BY <2>1
<1>3. ASSUME NEW a \in Attempts, Prepare(a) PROVE ReservedSound'
  BY <1>3, PrepareFrame
<1>4. ASSUME NEW a \in Attempts, Create(a) PROVE ReservedSound'
  <2>1. /\ \A b \in Attempts \ {a} : apc'[b] = apc[b]
        /\ apc[a] = "create" /\ apc'[a] \in {"wait", "probe"}
        /\ reserved' = reserved
    BY <1>4 DEF Create, Created, ServeCreate, Goto, Fault, NoFault
  <2> QED
    BY <2>1
<1>5. ASSUME NEW a \in Attempts, Probe(a) PROVE ReservedSound'
  BY SMTT(60), <1>5 DEF Probe, IsSuccess, Finish, Goto, Fault, NoFault
<1>6. ASSUME NEW a \in Attempts, Continue(a) PROVE ReservedSound'
  <2>1. /\ \A b \in Attempts \ {a} : apc'[b] = apc[b]
        /\ apc[a] = "continue" /\ apc'[a] \in {"wait", "return"}
        /\ reserved' = reserved
    BY <1>6 DEF Continue, ServeContinue, Finish, Goto, Fault, NoFault
  <2> QED
    BY <2>1
<1>7. ASSUME NEW a \in Attempts, Poll(a) PROVE ReservedSound'
  BY <1>7 DEF Poll, IsTerminal, Goto, NoFault
<1>8. ASSUME NEW a \in Attempts, FinishPolled(a) PROVE ReservedSound'
  BY <1>8 DEF FinishPolled, Finish, Goto, NoFault
<1>9. ASSUME NEW a \in Attempts, Resolved(a) PROVE ReservedSound'
  BY <1>9 DEF Resolved, Goto, NoFault
<1>10. ASSUME NEW a \in Attempts, Return(a) PROVE ReservedSound'
  BY <1>10 DEF Return, Forgotten, IsSuccess, Goto, NoFault
<1>11. ASSUME NEW a \in Attempts, CopyResult(a) PROVE ReservedSound'
  <2>1. /\ \A b \in Attempts \ {a} : apc'[b] = apc[b]
        /\ apc[a] = "copy" /\ apc'[a] \in {"report"}
        /\ reserved' = reserved
    BY <1>11 DEF CopyResult, Copied, CopyFails, ResultReady, CopyFile, Goto, Fault, NoFault
  <2> QED
    BY <2>1
<1>12. ASSUME NEW a \in Attempts, WriteReport(a) PROVE ReservedSound'
  BY <1>12 DEF WriteReport, Freed, IsSuccess, Goto, Fault, NoFault
<1>13. ASSUME NEW a \in Attempts, Commit(a) PROVE ReservedSound'
  BY <1>13 DEF Commit, Freed, Goto, Fault, NoFault
<1>14. ASSUME NEW a \in Attempts, Undo(a) PROVE ReservedSound'
  BY <1>14 DEF Undo, Freed, Goto, NoFault
<1>15. ASSUME NEW a \in Attempts, Send(a) PROVE ReservedSound'
  BY <1>15 DEF Send, IsSuccess, Goto, NoFault
<1>16. ASSUME NEW a \in Attempts, Release(a) PROVE ReservedSound'
  BY <1>16 DEF Release, Goto, NoFault
<1>17. ASSUME NEW s \in Stops, StopRead(s) PROVE ReservedSound'
  BY <1>17 DEF StopRead, Reply, NoFault
<1>18. ASSUME NEW s \in Stops, StopLookup(s) PROVE ReservedSound'
  BY <1>18 DEF StopLookup, Reply, NoFault
<1>19. ASSUME NEW s \in Stops, StopSend(s) PROVE ReservedSound'
  BY <1>19 DEF StopSend, ServeCancel, Complete, Reply, Fault, NoFault
<1>20. ASSUME NEW s \in Stops, StopFinish(s) PROVE ReservedSound'
  BY <1>20 DEF StopFinish, StopAnswer, Finish, Reply, NoFault
<1>21. ASSUME NEW cb \in callbacks, Deliver(cb) PROVE ReservedSound'
  BY <1>21 DEF Deliver, Received, IsTerminal, Finish, Fault, NoFault
<1>22. ASSUME NEW cb \in callbacks, LoseCallback(cb) PROVE ReservedSound'
  BY <1>22 DEF LoseCallback, Fault
<1>23. CASE WorkStart
  BY <1>23 DEF WorkStart, NoFault
<1>24. CASE ReadCases
  BY <1>24 DEF ReadCases, Complete, Fault, NoFault
<1>25. CASE CaseStart
  BY <1>25 DEF CaseStart, Pending, NoFault
<1>26. CASE CaseDone
  BY <1>26 DEF CaseDone, StoreCase, MarkCaseError, Fault, NoFault
<1>27. CASE WorkerEnds
  BY <1>27 DEF WorkerEnds, Complete, CaseVerdict, Pending, NoFault
<1>28. CASE WorkerExits
  BY <1>28 DEF WorkerExits, NoFault
<1>29. CASE Publish
  BY <1>29 DEF Publish, NoFault
<1>30. CASE Crash
  BY <1>30 DEF Crash, Fault, Idle
<1>31. CASE UNCHANGED vars
  BY <1>31 DEF vars
<1> QED
  BY <1>1, <1>r, <1>2, <1>3, <1>4, <1>5, <1>6, <1>7, <1>8, <1>9, <1>10, <1>11, <1>12, <1>13,
     <1>14, <1>15, <1>16, <1>17, <1>18, <1>19, <1>20, <1>21, <1>22, <1>23, <1>24, <1>25,
     <1>26, <1>27, <1>28, <1>29, <1>30, <1>31 DEF Next, Import, Stop, Service

LEMMA SuccessStep == ASSUME FheInv, [Next]_vars PROVE SuccessKept'
<1>0. DataOK /\ DataOK' /\ OneAttempt /\ InOrder /\ RunSound /\ SaidSound /\ DirSound /\ SuccessKept
  BY TypeStep DEF FheInv, TypeOK, DataOK
<1>a. \A k \in Attempts : Succeeded(k)' =>
         \/ Succeeded(k)
         \/ apc[k] = "send" /\ apc'[k] = "release" /\ outcome[k] = "completed"
  BY SuccessSaid
<1>b. \A k \in Attempts : Purged(k) => Purged(k)'
  <2>1. \A k \in Attempts : apc[k] = "lost" => apc'[k] = "lost"
    BY <1>0, StageMoves
  <2> QED
    BY <2>1 DEF Purged
<1> USE <1>a, <1>b
<1> USE <1>0, FheAssumption DEF FheAssumption, Attempts, None, Terminal, States, Tracked, InFlight, Answers,
        taskVars, indexVars, resultVars, stopVars, workVars, endVars, serviceVars,
        serviceRest, runnerRest, stopRest, importRest, DataOK, OneAttempt, RunSound,
        SaidSound, DirSound, SuccessKept, Flying
<1>1. ASSUME NEW a \in Attempts, Acquire(a) PROVE SuccessKept'
  BY <1>1 DEF Acquire, Idle, Goto, NoFault
<1>r. ASSUME NEW a \in Attempts, Reserve(a) PROVE SuccessKept'
  BY <1>r DEF Reserve, Goto, NoFault
<1>2. ASSUME NEW a \in Attempts, Check(a) PROVE SuccessKept'
  <2>1. /\ \A b \in Attempts \ {a} : apc'[b] = apc[b]
        /\ apc[a] = "check" /\ apc'[a] \in {"stage", "release"}
        /\ record' = record /\ unsaved' = unsaved
    BY <1>2 DEF Check, Freed, Goto, Fault, NoFault
  <2>2. \A k \in Attempts : Succeeded(k)' => Succeeded(k)
    BY <2>1
  <2>3. \A k \in Attempts : /\ apc'[k] \in InFlight => apc[k] \in InFlight
                            /\ apc[k] \in {"reserve", "turned"} => apc'[k] = apc[k]
    BY <2>1
  <2>4. record' = record /\ unsaved' = unsaved
    BY <2>1
  <2> QED
    BY <2>2, <2>3, <2>4
<1>3. ASSUME NEW a \in Attempts, Prepare(a) PROVE SuccessKept'
  <2>1. /\ \A b \in Attempts \ {a} : apc'[b] = apc[b]
        /\ apc[a] = "stage" /\ apc'[a] \in {"create", "return"}
        /\ record' = record /\ unsaved' = unsaved
    BY <1>3, PrepareFrame
  <2>2. \A k \in Attempts : Succeeded(k)' => Succeeded(k)
    BY <2>1
  <2>3. \A k \in Attempts : /\ apc'[k] \in InFlight => apc[k] \in InFlight
                            /\ apc[k] \in {"reserve", "turned"} => apc'[k] = apc[k]
    BY <2>1
  <2>4. record' = record /\ unsaved' = unsaved
    BY <2>1
  <2> QED
    BY <2>2, <2>3, <2>4
<1>4. ASSUME NEW a \in Attempts, Create(a) PROVE SuccessKept'
  <2>1. /\ \A b \in Attempts \ {a} : apc'[b] = apc[b]
        /\ apc[a] = "create" /\ apc'[a] \in {"wait", "probe"}
        /\ record' = record /\ unsaved' = unsaved
    BY <1>4 DEF Create, Created, ServeCreate, Goto, Fault, NoFault
  <2>2. \A k \in Attempts : Succeeded(k)' => Succeeded(k)
    BY <2>1
  <2>3. \A k \in Attempts : /\ apc'[k] \in InFlight => apc[k] \in InFlight
                            /\ apc[k] \in {"reserve", "turned"} => apc'[k] = apc[k]
    BY <2>1
  <2>4. record' = record /\ unsaved' = unsaved
    BY <2>1
  <2> QED
    BY <2>2, <2>3, <2>4
<1>5. ASSUME NEW a \in Attempts, Probe(a) PROVE SuccessKept'
  <2>1. /\ \A b \in Attempts \ {a} : apc'[b] = apc[b]
        /\ apc[a] = "probe" /\ apc'[a] \in {"continue", "return"}
        /\ record' = record /\ unsaved' = unsaved
    BY <1>5 DEF Probe, IsSuccess, Finish, Goto, Fault, NoFault
  <2>2. \A k \in Attempts : Succeeded(k)' => Succeeded(k)
    BY <2>1
  <2>3. \A k \in Attempts : /\ apc'[k] \in InFlight => apc[k] \in InFlight
                            /\ apc[k] \in {"reserve", "turned"} => apc'[k] = apc[k]
    BY <2>1
  <2>4. record' = record /\ unsaved' = unsaved
    BY <2>1
  <2> QED
    BY <2>2, <2>3, <2>4
<1>6. ASSUME NEW a \in Attempts, Continue(a) PROVE SuccessKept'
  <2>1. /\ \A b \in Attempts \ {a} : apc'[b] = apc[b]
        /\ apc[a] = "continue" /\ apc'[a] \in {"wait", "return"}
        /\ record' = record /\ unsaved' = unsaved
    BY <1>6 DEF Continue, ServeContinue, Finish, Goto, Fault, NoFault
  <2>2. \A k \in Attempts : Succeeded(k)' => Succeeded(k)
    BY <2>1
  <2>3. \A k \in Attempts : /\ apc'[k] \in InFlight => apc[k] \in InFlight
                            /\ apc[k] \in {"reserve", "turned"} => apc'[k] = apc[k]
    BY <2>1
  <2>4. record' = record /\ unsaved' = unsaved
    BY <2>1
  <2> QED
    BY <2>2, <2>3, <2>4
<1>7. ASSUME NEW a \in Attempts, Poll(a) PROVE SuccessKept'
  BY <1>7 DEF Poll, IsTerminal, Goto, NoFault
<1>8. ASSUME NEW a \in Attempts, FinishPolled(a) PROVE SuccessKept'
  BY <1>8 DEF FinishPolled, Finish, Goto, NoFault
<1>9. ASSUME NEW a \in Attempts, Resolved(a) PROVE SuccessKept'
  BY <1>9 DEF Resolved, Goto, NoFault
<1>10. ASSUME NEW a \in Attempts, Return(a) PROVE SuccessKept'
  BY <1>10 DEF Return, Forgotten, IsSuccess, Goto, NoFault
<1>11. ASSUME NEW a \in Attempts, CopyResult(a) PROVE SuccessKept'
  <2>1. /\ \A b \in Attempts \ {a} : apc'[b] = apc[b]
        /\ apc[a] = "copy" /\ apc'[a] \in {"report"}
        /\ record' = record /\ unsaved' = unsaved
    BY <1>11 DEF CopyResult, Copied, CopyFails, ResultReady, CopyFile, Goto, Fault, NoFault
  <2>2. \A k \in Attempts : Succeeded(k)' => Succeeded(k)
    BY <2>1
  <2>3. \A k \in Attempts : /\ apc'[k] \in InFlight => apc[k] \in InFlight
                            /\ apc[k] \in {"reserve", "turned"} => apc'[k] = apc[k]
    BY <2>1
  <2>4. record' = record /\ unsaved' = unsaved
    BY <2>1
  <2> QED
    BY <2>2, <2>3, <2>4
<1>12. ASSUME NEW a \in Attempts, WriteReport(a) PROVE SuccessKept'
  BY <1>12 DEF WriteReport, Freed, IsSuccess, Goto, Fault, NoFault
<1>13. ASSUME NEW a \in Attempts, Commit(a) PROVE SuccessKept'
  BY <1>13 DEF Commit, Freed, Goto, Fault, NoFault
<1>14. ASSUME NEW a \in Attempts, Undo(a) PROVE SuccessKept'
  BY <1>14 DEF Undo, Freed, Goto, NoFault
<1>15. ASSUME NEW a \in Attempts, Send(a) PROVE SuccessKept'
  BY <1>15 DEF Send, IsSuccess, Goto, NoFault
<1>16. ASSUME NEW a \in Attempts, Release(a) PROVE SuccessKept'
  BY <1>16 DEF Release, Goto, NoFault
<1>17. ASSUME NEW s \in Stops, StopRead(s) PROVE SuccessKept'
  BY <1>17 DEF StopRead, Reply, NoFault
<1>18. ASSUME NEW s \in Stops, StopLookup(s) PROVE SuccessKept'
  BY <1>18 DEF StopLookup, Reply, NoFault
<1>19. ASSUME NEW s \in Stops, StopSend(s) PROVE SuccessKept'
  BY <1>19 DEF StopSend, ServeCancel, Complete, Reply, Fault, NoFault
<1>20. ASSUME NEW s \in Stops, StopFinish(s) PROVE SuccessKept'
  BY <1>20 DEF StopFinish, StopAnswer, Finish, Reply, NoFault
<1>21. ASSUME NEW cb \in callbacks, Deliver(cb) PROVE SuccessKept'
  BY <1>21 DEF Deliver, Received, IsTerminal, Finish, Fault, NoFault
<1>22. ASSUME NEW cb \in callbacks, LoseCallback(cb) PROVE SuccessKept'
  BY <1>22 DEF LoseCallback, Fault
<1>23. CASE WorkStart
  BY <1>23 DEF WorkStart, NoFault
<1>24. CASE ReadCases
  BY <1>24 DEF ReadCases, Complete, Fault, NoFault
<1>25. CASE CaseStart
  BY <1>25 DEF CaseStart, Pending, NoFault
<1>26. CASE CaseDone
  BY <1>26 DEF CaseDone, StoreCase, MarkCaseError, Fault, NoFault
<1>27. CASE WorkerEnds
  BY <1>27 DEF WorkerEnds, Complete, CaseVerdict, Pending, NoFault
<1>28. CASE WorkerExits
  BY <1>28 DEF WorkerExits, NoFault
<1>29. CASE Publish
  BY <1>29 DEF Publish, NoFault
<1>30. CASE Crash
  <2>1. \A k \in Attempts : ~Flying(k)'
    BY <1>30 DEF Crash
  <2>2. CASE Idle
    <3>1. UNCHANGED <<record, unsaved>>
      BY <1>30, <2>2 DEF Crash
    <3>2. \A k \in Attempts : Succeeded(k)' => Succeeded(k)
      BY <2>2 DEF Idle
    <3> QED
      BY <2>1, <3>1, <3>2
  <2>3. CASE ~Idle
    <3>1. PICK b \in Attempts : Flying(b)
      BY <2>3 DEF Idle
    <3>2. apc'[b] = "lost"
      BY <1>30, <3>1 DEF Crash
    <3>3. \A k \in Attempts : Succeeded(k)' => apc[k] # "new"
      OBVIOUS
    <3>4. \A k \in Attempts : Succeeded(k)' => k <= b
      <4> SUFFICES ASSUME NEW k \in Attempts, Succeeded(k)', b < k PROVE FALSE
        OBVIOUS
      <4> QED
        BY <3>1, <3>3 DEF InOrder
    <3>5. \A k \in Attempts : Succeeded(k)' => Purged(k)'
      BY <3>2, <3>4 DEF Purged
    <3> QED
      BY <3>5
  <2> QED
    BY <2>2, <2>3
<1>31. CASE UNCHANGED vars
  BY <1>31 DEF vars
<1> QED
  BY <1>1, <1>r, <1>2, <1>3, <1>4, <1>5, <1>6, <1>7, <1>8, <1>9, <1>10, <1>11, <1>12, <1>13,
     <1>14, <1>15, <1>16, <1>17, <1>18, <1>19, <1>20, <1>21, <1>22, <1>23, <1>24, <1>25,
     <1>26, <1>27, <1>28, <1>29, <1>30, <1>31 DEF Next, Import, Stop, Service
-----------------------------------------------------------------------------
LEMMA FheInit == Init => FheInv
<1> SUFFICES ASSUME Init PROVE FheInv
  OBVIOUS
<1> USE FheAssumption DEF FheAssumption, Init
<1>1. TypeOK
  BY TypeInit
<1>2. StageSound /\ ServiceSound
  BY DEF StageSound, ServiceSound
<1>3. OneAttempt /\ InOrder /\ RunSound /\ ReservedSound
  BY DEF OneAttempt, InOrder, RunSound, ReservedSound, Flying, InFlight, Tracked
<1>4. SaidSound /\ DirSound /\ SuccessKept
  BY DEF SaidSound, DirSound, SuccessKept, Succeeded, RecordBacked, Flying, InFlight, Tracked
<1> QED
  BY <1>1, <1>2, <1>3, <1>4 DEF FheInv

(* The invariant is kept by every step of the import, the runner, the stops,
   the service, its callbacks and a crash. *)
THEOREM FheCorrect == Spec => []FheInv
<1>1. ASSUME FheInv, [Next]_vars PROVE FheInv'
  <2>1. TypeOK' /\ StageSound'
    BY <1>1, TypeStep DEF FheInv
  <2>2. ServiceSound' /\ OneAttempt' /\ InOrder' /\ RunSound' /\ ReservedSound'
    BY <1>1, ServiceStep, OneStep, OrderStep, RunStep, ReservedStep
  <2>3. SaidSound' /\ DirSound' /\ SuccessKept'
    BY <1>1, SaidStep, DirStep, SuccessStep
  <2> QED
    BY <2>1, <2>2, <2>3 DEF FheInv
<1> QED
  BY <1>1, FheInit, PTL DEF Spec

(* A stop answered as "cancelled" really ended the run, and the platform is
   never told that the run succeeded, however the cancel, the callback, the
   poll and the copy of the results interleave. *)
THEOREM StopCorrect == Spec => []StopTruthful
<1>1. FheInv => StopTruthful
  <2> SUFFICES ASSUME FheInv, NEW s \in Stops, spc[s] = "cancelled"
               PROVE  outcome[srun[s]] = "cancelled" /\ <<srun[s], 0>> \notin reports
    BY DEF StopTruthful
  <2>1. srun[s] \in Attempts /\ outcome[srun[s]] = "cancelled"
    BY DEF FheInv, RunSound
  <2>2. ~Succeeded(srun[s])
    BY <2>1 DEF FheInv, SaidSound
  <2> QED
    BY <2>1, <2>2 DEF Succeeded
<1> QED
  BY <1>1, FheCorrect, PTL

(* A success the platform was told of stands on a complete archive, its report and
   a record, unless the index could not be written or a crash met this or a later
   delivery of the task; a record has everything an export reads; between attempts
   no id stays reserved. *)
THEOREM ResultsCorrect == Spec => []ResultsBacked
<1>1. FheInv => ResultsBacked
  <2> SUFFICES ASSUME FheInv PROVE ResultsBacked
    OBVIOUS
  <2>1. RecordBacked /\ IdsSettled
    BY DEF FheInv, DirSound, ReservedSound, IdsSettled, Idle, Flying
  <2>2. SuccessBacked
    BY <2>1 DEF FheInv, SuccessKept, Succeeded, SuccessBacked, RecordBacked
  <2> QED
    BY <2>1, <2>2 DEF ResultsBacked
<1> QED
  BY <1>1, FheCorrect, PTL
=============================================================================
