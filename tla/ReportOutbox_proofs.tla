------------------------ MODULE ReportOutbox_proofs ------------------------
(***************************************************************************)
(* Proofs about ReportOutbox, for any set of reports and any bounds.       *)
(***************************************************************************)
EXTENDS ReportOutbox, TLAPS

(* The Boolean variables apart from the rest. *)
BoolOK == up \in BOOLEAN /\ started \in BOOLEAN /\ wake \in BOOLEAN

DataOK ==
    /\ queue \subseteq Reports /\ sealed \subseteq Reports
    /\ stamp \in [Reports -> Nat] /\ arrivals \in Nat
    /\ call \in [Reports -> CallStates]
    /\ pc \in WorkerStates
    /\ batch \subseteq Reports /\ acked \subseteq Reports
    /\ next \in Nat /\ timer \in Nat
    /\ wait \in [Reports -> 0..RetryMax] /\ due \in [Reports -> Nat]
    /\ delivered \subseteq Reports /\ confirmed \subseteq Reports
    /\ crashes \in 0..MaxCrashes /\ sealFailures \in 0..MaxSealFailures

LEMMA TypeParts == TypeOK <=> BoolOK /\ DataOK
BY DEF TypeOK, BoolOK, DataOK

LEMMA TypeInit == Init => TypeOK
<1> USE OutboxAssumption DEF OutboxAssumption, CallStates, WorkerStates
<1>1. Init => BoolOK
  BY Zenon DEF Init, BoolOK
<1>2. Init => DataOK
  BY DEF Init, DataOK
<1> QED
  BY <1>1, <1>2, TypeParts

LEMMA TypeStep == TypeOK /\ [Next]_vars => TypeOK'
<1> USE OutboxAssumption DEF OutboxAssumption, TypeOK, CallStates, WorkerStates
<1> SUFFICES ASSUME TypeOK, [Next]_vars PROVE TypeOK'
  OBVIOUS
<1> USE DEF queueVars, passVars, retryVars, workerRest
<1>1. ASSUME NEW r \in Reports, Refuse(r) PROVE TypeOK'
  BY <1>1 DEF Refuse
<1>2. ASSUME NEW r \in Reports, Enqueue(r) PROVE TypeOK'
  BY <1>2 DEF Enqueue, AppendReport, SealOk, SealFails
<1>3. ASSUME NEW r \in Reports, StartAndWake(r) PROVE TypeOK'
  BY <1>3 DEF StartAndWake, Wake
<1>4. ASSUME NEW r \in Reports, SendOk(r) PROVE TypeOK'
  BY <1>4 DEF SendOk, IsOldest
<1>5. ASSUME NEW r \in Reports, SendFails(r) PROVE TypeOK'
  <2>1. WaitOf(r) \in 1..RetryMax
    BY DEF WaitOf
  <2>2. Doubled(WaitOf(r)) \in 0..RetryMax
    BY <2>1 DEF Doubled
  <2> QED
    BY <1>5, <2>1, <2>2 DEF SendFails, IsOldest
<1>6. CASE OtherSeal
  BY <1>6 DEF OtherSeal
<1>7. CASE TakeWake \/ TimerFires \/ QueueEmpty \/ Sleep
  <2>1. BoolOK'
    BY <1>7, Zenon DEF BoolOK, TakeWake, TimerFires, QueueEmpty, Sleep
  <2>2. DataOK'
    BY <1>7 DEF DataOK, TakeWake, TimerFires, QueueEmpty, Sleep
  <2> QED
    BY <2>1, <2>2 DEF BoolOK, DataOK
<1>8. CASE StartPass
  BY <1>8 DEF StartPass, DueNow, Soonest
<1>9. CASE Ack
  BY <1>9 DEF Ack, Kept, SealOk, SealFails
<1>10. CASE Tick
  BY <1>10 DEF Tick, Minus1
<1>11. CASE Crash
  <2>1. BoolOK'
    BY <1>11, Zenon DEF BoolOK, Crash
  <2>2. DataOK'
    BY <1>11 DEF DataOK, Crash
  <2> QED
    BY <2>1, <2>2 DEF BoolOK, DataOK
<1>12. CASE Restart
  BY <1>12 DEF Restart
<1>13. CASE UNCHANGED vars
  BY <1>13 DEF vars
<1> QED
  BY <1>1, <1>2, <1>3, <1>4, <1>5, <1>6, <1>7, <1>8, <1>9, <1>10, <1>11,
     <1>12, <1>13 DEF Next, Worker, Send

(* Type correctness: in particular no recorded backoff exceeds the cap. *)
THEOREM TypeCorrect == Spec => []TypeOK
BY TypeInit, TypeStep, PTL DEF Spec
-----------------------------------------------------------------------------
(***************************************************************************)
(* Durability.  Durable alone is not inductive: an acknowledgement batch   *)
(* and a reseal both overwrite the sealed queue with the one in memory, so *)
(* memory must cover what is sealed, and a pass must only collect entries  *)
(* the platform has received.                                              *)
(***************************************************************************)
WorkerUp == pc # "off" => up

DInv ==
    /\ TypeOK
    /\ WorkerUp
    /\ acked \subseteq delivered
    /\ QueueCoversSealed
    /\ Durable

(* Whatever crashes, failed seals and batches intervene, a report whose
   caller was told it is queued is on disk until the platform has it. *)
THEOREM DurableThm == Spec => []DInv
<1>1. Init => DInv
  <2>1. Init => TypeOK
    BY TypeInit
  <2> QED
    BY <2>1 DEF Init, DInv, WorkerUp, QueueCoversSealed, Durable
<1>2. DInv /\ [Next]_vars => DInv'
  <2> SUFFICES ASSUME DInv, [Next]_vars PROVE DInv'
    OBVIOUS
  <2>0. TypeOK'
    BY TypeStep DEF DInv
  <2> USE <2>0 DEF DInv, WorkerUp, QueueCoversSealed, Durable, TypeOK,
          queueVars, passVars, retryVars, workerRest
  <2>1. ASSUME NEW r \in Reports, Refuse(r) PROVE DInv'
    BY <2>1 DEF Refuse
  <2>2. ASSUME NEW r \in Reports, Enqueue(r) PROVE DInv'
    BY <2>2 DEF Enqueue, AppendReport, SealOk, SealFails
  <2>3. ASSUME NEW r \in Reports, StartAndWake(r) PROVE DInv'
    BY <2>3 DEF StartAndWake
  <2>4. ASSUME NEW r \in Reports, SendOk(r) PROVE DInv'
    BY <2>4 DEF SendOk, IsOldest
  <2>5. ASSUME NEW r \in Reports, SendFails(r) PROVE DInv'
    BY <2>5 DEF SendFails, IsOldest
  <2>6. CASE OtherSeal
    BY <2>6 DEF OtherSeal
  <2>7. CASE TakeWake \/ TimerFires \/ QueueEmpty \/ Sleep \/ StartPass \/ Tick
    BY <2>7 DEF TakeWake, TimerFires, QueueEmpty, Sleep, StartPass, Tick
  <2>8. CASE Ack
    BY <2>8 DEF Ack, Kept, SealOk, SealFails
  <2>9. CASE Crash
    BY <2>9 DEF Crash
  <2>10. CASE Restart
    BY <2>10 DEF Restart
  <2>11. CASE UNCHANGED vars
    BY <2>11 DEF vars
  <2> QED
    BY <2>1, <2>2, <2>3, <2>4, <2>5, <2>6, <2>7, <2>8, <2>9, <2>10, <2>11
       DEF Next, Worker, Send
<1> QED
  BY <1>1, <1>2, PTL DEF Spec

(* The invariants the runs check, as consequences. *)
THEOREM DurableCorrect == Spec => [](Durable /\ QueueCoversSealed)
<1>1. DInv => Durable /\ QueueCoversSealed
  BY DEF DInv
<1> QED
  BY <1>1, DurableThm, PTL

(* The outbox implements ReliableReports: every step maps to an acceptance,
   a delivery or a stutter of what is owed. *)
THEOREM Refinement == Spec => ReliableSpec
<1>1. Init => Reliable!Init
  BY DEF Init, Reliable!Init
<1>2. DInv /\ DInv' /\ [Next]_vars => [Reliable!Next]_<<sealed \ delivered, delivered>>
  <2> SUFFICES ASSUME DInv, DInv', [Next]_vars
               PROVE [Reliable!Next]_<<sealed \ delivered, delivered>>
    OBVIOUS
  <2> DEFINE owed == sealed \ delivered
  (* A step that reseals without losing an undelivered report accepts the
     reports it adds. *)
  <2>A. ASSUME delivered' = delivered, owed \subseteq sealed'
        PROVE  [Reliable!Next]_<<sealed \ delivered, delivered>>
    <3> DEFINE S == (sealed' \ delivered) \ owed
    <3>1. CASE S = {}
      <4>1. sealed' \ delivered' = sealed \ delivered
        BY <2>A, <3>1
      <4> QED
        BY <4>1, <2>A
    <3>2. CASE S # {}
      <4>1. S \in SUBSET Reports
        BY DEF DInv, TypeOK
      <4>2. sealed' \ delivered' = owed \cup S
        BY <2>A
      <4>3. S \cap (owed \cup delivered) = {}
        OBVIOUS
      <4>4. Reliable!Accept(S)
        BY <3>2, <4>2, <4>3, <2>A DEF Reliable!Accept
      <4> QED
        BY <4>1, <4>4 DEF Reliable!Next
    <3> QED
      BY <3>1, <3>2
  (* A send leaves the file alone and may add its report to what the
     platform has. *)
  <2>B. ASSUME NEW r \in Reports, sealed' = sealed,
               delivered' = delivered \/ delivered' = delivered \cup {r}
        PROVE  [Reliable!Next]_<<sealed \ delivered, delivered>>
    <3>1. CASE delivered' = delivered
      BY <2>B, <3>1
    <3>2. CASE delivered' # delivered
      <4>1. r \notin delivered /\ delivered' = delivered \cup {r}
        BY <2>B, <3>2
      <4>2. sealed' \ delivered' = (sealed \ delivered) \ {r}
        BY <2>B, <4>1
      <4>3. Reliable!Receive(r)
        BY <4>1, <4>2 DEF Reliable!Receive
      <4> QED
        BY <4>3 DEF Reliable!Next
    <3> QED
      BY <3>1, <3>2
  <2> USE DEF queueVars, passVars, retryVars, workerRest
  <2>1. ASSUME NEW r \in Reports, Refuse(r) \/ StartAndWake(r)
        PROVE delivered' = delivered /\ sealed' = sealed
    BY <2>1 DEF Refuse, StartAndWake
  <2>2. ASSUME NEW r \in Reports, Enqueue(r)
        PROVE delivered' = delivered /\ owed \subseteq sealed'
    BY <2>2 DEF Enqueue, AppendReport, SealOk, SealFails, DInv, QueueCoversSealed
  <2>3. ASSUME NEW r \in Reports, Send(r)
        PROVE sealed' = sealed /\ (delivered' = delivered \/ delivered' = delivered \cup {r})
    BY <2>3 DEF Send, SendOk, SendFails
  <2>4. CASE OtherSeal
    <3>1. delivered' = delivered /\ owed \subseteq sealed'
      BY <2>4 DEF OtherSeal, DInv, QueueCoversSealed
    <3> QED
      BY <3>1, <2>A
  <2>5. CASE Ack
    <3>1. up
      BY <2>5 DEF Ack, DInv, WorkerUp
    <3>2. delivered' = delivered /\ owed \subseteq sealed'
      BY <2>5, <3>1 DEF Ack, Kept, SealOk, SealFails, DInv, QueueCoversSealed
    <3> QED
      BY <3>2, <2>A
  <2>6. CASE TakeWake \/ TimerFires \/ QueueEmpty \/ Sleep \/ StartPass \/ Tick
             \/ Crash \/ Restart \/ UNCHANGED vars
    <3>1. delivered' = delivered /\ sealed' = sealed
      BY <2>6 DEF TakeWake, TimerFires, QueueEmpty, Sleep, StartPass, Tick, Crash,
                  Restart, vars
    <3> QED
      BY <3>1
  <2>7. ASSUME NEW r \in Reports, Refuse(r) \/ StartAndWake(r) \/ Enqueue(r) \/ Send(r)
        PROVE [Reliable!Next]_<<sealed \ delivered, delivered>>
    BY <2>7, <2>1, <2>2, <2>3, <2>A, <2>B
  <2> QED
    BY <2>4, <2>5, <2>6, <2>7 DEF Next, Worker
<1>3. Reliable!Spec <=> Reliable!Init /\ [][Reliable!Next]_<<sealed \ delivered, delivered>>
  BY DEF Reliable!Spec
<1> QED
  BY <1>1, <1>2, <1>3, DurableThm, PTL DEF Spec, ReliableSpec
-----------------------------------------------------------------------------
(***************************************************************************)
(* The worker.  WorkerSound looks at the moments the worker rests, so it   *)
(* needs to know what a pass guarantees on the way there: every queued     *)
(* entry is still to be attempted, acknowledged, backing off, or younger   *)
(* than the snapshot, and then its caller has signalled or is about to.    *)
(***************************************************************************)
(* A signal is pending, or a caller is between its append and its Wake. *)
Signal == wake \/ \E r \in Reports : call[r] \in {"sealed", "unsealed"}

(* The worker goroutine exists exactly when the outbox was started, in a
   process that runs. *)
StartedOnce == (started <=> pc # "off") /\ (~up => pc = "off" /\ confirmed = {})

(* An entry that must wait has a recorded backoff. *)
DueMeansWait == \A r \in Reports : due[r] > 0 => wait[r] > 0

PassCovers ==
    pc = "pass" => \A r \in queue :
        r \in batch \/ r \in acked \/ (wait[r] > 0 /\ next > 0) \/ Signal

(* What was sent and seen to succeed leaves the queue with its own pass. *)
ConfirmedLeaves ==
    \A r \in confirmed : /\ call[r] # "idle"
                         /\ r \in queue => pc = "pass" /\ r \in acked

(* An entry is queued, sealed or attempted only after its call appended it. *)
QueuedWasCalled == \A r \in queue \cup sealed \cup batch : call[r] # "idle"

WInv ==
    /\ TypeOK /\ StartedOnce /\ DueMeansWait /\ PassCovers
    /\ ConfirmedLeaves /\ QueuedWasCalled /\ WorkerSound

LEMMA WorkerInit == Init => WInv
<1>1. Init => TypeOK
  BY TypeInit
<1> QED
  BY <1>1 DEF Init, WInv, StartedOnce, DueMeansWait, PassCovers, ConfirmedLeaves,
     QueuedWasCalled, WorkerSound, NoLostWakeup, FreshNotHeld, NoResendInProcess

(* The part of the invariant that does not look at the signal. *)
CalmInv ==
    StartedOnce /\ DueMeansWait /\ ConfirmedLeaves /\ QueuedWasCalled /\ NoResendInProcess

LEMMA CalmStep == ASSUME WInv, TypeOK', [Next]_vars PROVE CalmInv'
<1> USE OutboxAssumption DEF OutboxAssumption, WInv, WorkerSound, CalmInv, StartedOnce,
        DueMeansWait, ConfirmedLeaves, QueuedWasCalled, NoResendInProcess, TypeOK,
        queueVars, passVars, retryVars, workerRest, WorkerStates, CallStates
<1>1. ASSUME NEW r \in Reports, Refuse(r) PROVE CalmInv'
  BY <1>1 DEF Refuse
<1>2. ASSUME NEW r \in Reports, Enqueue(r) PROVE CalmInv'
  BY <1>2 DEF Enqueue, AppendReport, SealOk, SealFails
<1>3. ASSUME NEW r \in Reports, StartAndWake(r) PROVE CalmInv'
  BY <1>3 DEF StartAndWake
<1>4. ASSUME NEW r \in Reports, SendOk(r) PROVE CalmInv'
  BY <1>4 DEF SendOk, IsOldest
<1>5. ASSUME NEW r \in Reports, SendFails(r) PROVE CalmInv'
  <2>1. WaitOf(r) \in 1..RetryMax
    BY DEF WaitOf
  <2>2. Doubled(WaitOf(r)) > 0
    BY <2>1 DEF Doubled
  <2> QED
    BY <1>5, <2>1, <2>2 DEF SendFails, IsOldest
<1>6. CASE OtherSeal \/ Restart
  BY <1>6 DEF OtherSeal, Restart
<1>7. CASE TakeWake \/ TimerFires \/ QueueEmpty \/ Sleep
  BY <1>7 DEF TakeWake, TimerFires, QueueEmpty, Sleep
<1>8. CASE StartPass
  BY <1>8 DEF StartPass, DueNow
<1>9. CASE Ack
  BY <1>9 DEF Ack, Kept, SealOk, SealFails
<1>10. CASE Tick
  BY <1>10 DEF Tick, Minus1
<1>11. CASE Crash
  BY <1>11 DEF Crash
<1>12. CASE UNCHANGED vars
  BY <1>12 DEF vars
<1> QED
  BY <1>1, <1>2, <1>3, <1>4, <1>5, <1>6, <1>7, <1>8, <1>9, <1>10, <1>11, <1>12
     DEF Next, Worker, Send

(* The part that does. *)
AlertInv == PassCovers /\ NoLostWakeup /\ FreshNotHeld

LEMMA AlertStep == ASSUME WInv, TypeOK', [Next]_vars PROVE AlertInv'
<1> USE OutboxAssumption DEF OutboxAssumption, WInv, WorkerSound, AlertInv, StartedOnce,
        DueMeansWait, PassCovers, NoLostWakeup, FreshNotHeld, Signal, TypeOK,
        queueVars, passVars, retryVars, workerRest, WorkerStates, CallStates
<1>1. ASSUME NEW r \in Reports, Refuse(r) PROVE AlertInv'
  BY <1>1 DEF Refuse
<1>2. ASSUME NEW r \in Reports, Enqueue(r) PROVE AlertInv'
  BY <1>2 DEF Enqueue, AppendReport, SealOk, SealFails
<1>3. ASSUME NEW r \in Reports, StartAndWake(r) PROVE AlertInv'
  BY <1>3 DEF StartAndWake, Wake
<1>4. ASSUME NEW r \in Reports, SendOk(r) PROVE AlertInv'
  BY <1>4 DEF SendOk, IsOldest
<1>5. ASSUME NEW r \in Reports, SendFails(r) PROVE AlertInv'
  <2>1. WaitOf(r) \in 1..RetryMax
    BY DEF WaitOf
  <2>2. Doubled(WaitOf(r)) > 0
    BY <2>1 DEF Doubled
  <2> QED
    BY <1>5, <2>1, <2>2 DEF SendFails, IsOldest
<1>6. CASE OtherSeal \/ Restart
  BY <1>6 DEF OtherSeal, Restart
<1>7. CASE TakeWake \/ TimerFires \/ QueueEmpty
  BY <1>7 DEF TakeWake, TimerFires, QueueEmpty
<1>8. CASE StartPass
  <2>1. \A r \in queue \ DueNow : wait[r] > 0 /\ next' > 0
    BY <1>8 DEF StartPass, DueNow, Soonest
  <2> QED
    BY <1>8, <2>1 DEF StartPass, DueNow
<1>9. CASE Ack
  BY <1>9 DEF Ack
<1>10. CASE Tick
  BY <1>10 DEF Tick
<1>11. CASE Crash
  BY <1>11 DEF Crash
<1>12. CASE Sleep
  BY <1>12 DEF Sleep
<1>13. CASE UNCHANGED vars
  BY <1>13 DEF vars
<1> QED
  BY <1>1, <1>2, <1>3, <1>4, <1>5, <1>6, <1>7, <1>8, <1>9, <1>10, <1>11, <1>12, <1>13
     DEF Next, Worker, Send

(* No wake-up is lost, no fresh report waits for another's backoff, and one
   process never sends again what the platform accepted: the two-step append
   and Wake of EnqueuePlatformReport against any pass of the worker. *)
THEOREM WorkerCorrect == Spec => []WorkerSound
<1>1. Init => WInv
  BY WorkerInit
<1>2. WInv /\ [Next]_vars => WInv'
  <2> SUFFICES ASSUME WInv, [Next]_vars PROVE WInv'
    OBVIOUS
  <2>1. TypeOK'
    BY TypeStep DEF WInv
  <2>2. CalmInv' /\ AlertInv'
    BY <2>1, CalmStep, AlertStep
  <2> QED
    BY <2>1, <2>2 DEF WInv, CalmInv, AlertInv, WorkerSound
<1>3. WInv => WorkerSound
  BY DEF WInv
<1> QED
  BY <1>1, <1>2, <1>3, PTL DEF Spec
=============================================================================
