---------------------------- MODULE ReportOutbox ----------------------------
(***************************************************************************)
(* The durable outbox of terminal reports                                  *)
(* (internal/controller/report_outbox.go), with the part of the sealed     *)
(* state it lives in (internal/store/sealed_state.go).                     *)
(*                                                                         *)
(* A report is appended to the in-memory queue and the whole state is      *)
(* sealed under the state lock; afterwards, outside the lock, the caller   *)
(* starts the worker if there is none and wakes it.  The worker makes      *)
(* passes over snapshots of the queue, sends each due entry oldest first,  *)
(* and removes the delivered ones with one more seal per pass.             *)
(*                                                                         *)
(* The slice pendingReports is a set of reports with an arrival stamp.     *)
(* Time is counted in units of the initial backoff; due[r] and timer are   *)
(* the times left.                                                         *)
(***************************************************************************)
EXTENDS Naturals

CONSTANTS Reports,         \* the calls of EnqueuePlatformReport
          Valid,           \* those that pass the kind and identity checks
          Dead,            \* those captured against an address that never answers
          RetryMax,        \* defaultReportRetryMax / defaultReportRetryInitial
          MaxCrashes,      \* bound: process crashes
          MaxSealFailures  \* bound: failed writes of the sealed file

ASSUME OutboxAssumption ==
    /\ Valid \subseteq Reports
    /\ Dead \subseteq Reports
    /\ RetryMax \in Nat \ {0}
    /\ MaxCrashes \in Nat
    /\ MaxSealFailures \in Nat

VARIABLES
    up,         \* the TAA process runs
    queue,      \* TAAState.pendingReports
    stamp,      \* arrival number of each report, 0 before it arrives
    arrivals,   \* the last stamp given
    sealed,     \* pendingReports of the sealed state file
    call,       \* where each EnqueuePlatformReport call stands
    started,    \* TAAState.outbox # nil
    wake,       \* the one-slot wake channel holds a signal
    pc,         \* where the worker goroutine stands
    batch,      \* due entries of the snapshot still to be attempted
    acked,      \* entries delivered in this pass
    next,       \* shortest wait seen in this pass, 0 when none
    wait,       \* reportOutbox.retry[id].wait, 0 when id is not in the map
    due,        \* time left until reportOutbox.retry[id].due
    timer,      \* time left of the sleep in (*reportOutbox).wait
    delivered,  \* external: reports the platform has received at least once
    confirmed,  \* history: sends this process saw succeed
    crashes, sealFailures

queueVars  == <<queue, stamp, arrivals, sealed>>
passVars   == <<batch, acked, next>>
retryVars  == <<wait, due>>
vars == <<up, queueVars, call, started, wake, pc, passVars, retryVars, timer,
          delivered, confirmed, crashes, sealFailures>>

CallStates == {"idle", "refused", "sealed", "unsealed", "ok", "error", "lost"}
WorkerStates == {"off", "blocked", "snapshot", "pass", "waiting"}

TypeOK ==
    /\ up \in BOOLEAN /\ started \in BOOLEAN /\ wake \in BOOLEAN
    /\ queue \subseteq Reports /\ sealed \subseteq Reports
    /\ stamp \in [Reports -> Nat] /\ arrivals \in Nat
    /\ call \in [Reports -> CallStates]
    /\ pc \in WorkerStates
    /\ batch \subseteq Reports /\ acked \subseteq Reports
    /\ next \in Nat /\ timer \in Nat
    /\ wait \in [Reports -> 0..RetryMax] /\ due \in [Reports -> Nat]
    /\ delivered \subseteq Reports /\ confirmed \subseteq Reports
    /\ crashes \in 0..MaxCrashes /\ sealFailures \in 0..MaxSealFailures

Init ==
    /\ up = TRUE
    /\ queue = {} /\ sealed = {}
    /\ stamp = [r \in Reports |-> 0] /\ arrivals = 0
    /\ call = [r \in Reports |-> "idle"]
    /\ started = FALSE /\ wake = FALSE /\ pc = "off"
    /\ batch = {} /\ acked = {} /\ next = 0 /\ timer = 0
    /\ wait = [r \in Reports |-> 0] /\ due = [r \in Reports |-> 0]
    /\ delivered = {} /\ confirmed = {}
    /\ crashes = 0 /\ sealFailures = 0
-----------------------------------------------------------------------------
(***************************************************************************)
(* Sealing: AtomicWriteFile replaces the whole file or leaves it alone.    *)
(***************************************************************************)
SealOk(q) == sealed' = q /\ UNCHANGED sealFailures

SealFails ==
    /\ sealFailures < MaxSealFailures
    /\ sealFailures' = sealFailures + 1
    /\ UNCHANGED sealed

(***************************************************************************)
(* EnqueuePlatformReport.                                                  *)
(***************************************************************************)
Refuse(r) ==
    /\ up /\ call[r] = "idle" /\ r \notin Valid
    /\ call' = [call EXCEPT ![r] = "refused"]
    /\ UNCHANGED <<up, queueVars, started, wake, pc, passVars, retryVars, timer,
                   delivered, confirmed, crashes, sealFailures>>

AppendReport(r) ==
    /\ queue' = queue \cup {r}
    /\ arrivals' = arrivals + 1
    /\ stamp' = [stamp EXCEPT ![r] = arrivals + 1]

Enqueue(r) ==
    /\ up /\ call[r] = "idle" /\ r \in Valid
    /\ AppendReport(r)
    /\ \/ SealOk(queue') /\ call' = [call EXCEPT ![r] = "sealed"]
       \/ SealFails /\ call' = [call EXCEPT ![r] = "unsealed"]
    /\ UNCHANGED <<up, started, wake, pc, passVars, retryVars, timer,
                   delivered, confirmed, crashes>>

(* Wake: a signal already pending is enough. *)
MutWakeOnlyIdle == wake' = (wake \/ ~started \/ pc = "blocked")
Wake == wake' = TRUE

(* StartReportOutbox(...).Wake(): a worker is created once per process. *)
StartAndWake(r) ==
    /\ up /\ call[r] \in {"sealed", "unsealed"}
    /\ started' = TRUE
    /\ pc' = IF started THEN pc ELSE "blocked"
    /\ Wake
    /\ call' = [call EXCEPT ![r] = IF @ = "sealed" THEN "ok" ELSE "error"]
    /\ UNCHANGED <<up, queueVars, passVars, retryVars, timer, delivered,
                   confirmed, crashes, sealFailures>>

(* Any other change of the controller's state reseals the queue with it. *)
OtherSeal ==
    /\ up /\ sealed # queue
    /\ sealed' = queue
    /\ UNCHANGED <<up, queue, stamp, arrivals, call, started, wake, pc, passVars,
                   retryVars, timer, delivered, confirmed, crashes, sealFailures>>
-----------------------------------------------------------------------------
(***************************************************************************)
(* The worker: run, drain, wait.                                           *)
(***************************************************************************)
workerRest == <<up, queueVars, call, started, delivered, confirmed, crashes,
                sealFailures>>

TakeWake ==
    /\ pc \in {"blocked", "waiting"} /\ wake
    /\ wake' = FALSE
    /\ pc' = "snapshot" /\ timer' = 0
    /\ UNCHANGED <<workerRest, passVars, retryVars>>

TimerFires ==
    /\ pc = "waiting" /\ timer = 0
    /\ pc' = "snapshot"
    /\ UNCHANGED <<workerRest, wake, passVars, retryVars, timer>>

QueueEmpty ==
    /\ pc = "snapshot" /\ queue = {}
    /\ pc' = "blocked"
    /\ UNCHANGED <<workerRest, wake, passVars, retryVars, timer>>

(* The shortest of a set of waits, as a set; 0 stands for "none". *)
Soonest(S) == IF S = {} THEN {0} ELSE {d \in S : \A e \in S : d <= e}

MutOldestOnly == {r \in queue : due[r] = 0 /\ \A q \in queue : stamp[r] <= stamp[q]}
DueNow == {r \in queue : due[r] = 0}

StartPass ==
    /\ pc = "snapshot" /\ queue # {}
    /\ batch' = DueNow
    /\ acked' = {}
    /\ next' \in Soonest({due[r] : r \in queue \ DueNow})
    /\ pc' = "pass"
    /\ UNCHANGED <<workerRest, wake, retryVars, timer>>

IsOldest(r) == r \in batch /\ \A q \in batch : stamp[r] <= stamp[q]

SendOk(r) ==
    /\ pc = "pass" /\ IsOldest(r) /\ r \notin Dead
    /\ delivered' = delivered \cup {r}
    /\ confirmed' = confirmed \cup {r}
    /\ acked' = acked \cup {r}
    /\ batch' = batch \ {r}
    /\ wait' = [wait EXCEPT ![r] = 0] /\ due' = [due EXCEPT ![r] = 0]
    /\ UNCHANGED <<up, queueVars, call, started, wake, pc, next, timer,
                   crashes, sealFailures>>

(* The wait before the next attempt, and the one recorded for the attempt
   after that: doubled and capped. *)
WaitOf(r) == IF wait[r] = 0 THEN 1 ELSE wait[r]
Doubled(w) == IF 2 * w < RetryMax THEN 2 * w ELSE RetryMax

(* A send that errors may or may not have reached the platform: the answer
   to a request that was processed can be lost. *)
SendFails(r) ==
    /\ pc = "pass" /\ IsOldest(r)
    /\ \/ delivered' = delivered
       \/ r \notin Dead /\ delivered' = delivered \cup {r}
    /\ wait' = [wait EXCEPT ![r] = Doubled(WaitOf(r))]
    /\ due' = [due EXCEPT ![r] = WaitOf(r)]
    /\ next' = IF next = 0 \/ WaitOf(r) < next THEN WaitOf(r) ELSE next
    /\ batch' = batch \ {r}
    /\ UNCHANGED <<up, queueVars, call, started, wake, pc, acked, timer,
                   confirmed, crashes, sealFailures>>

MutKeepNone == {}
Kept == queue \ acked

(* ackPendingReports: one batch, one seal, whose failure is only logged. *)
Ack ==
    /\ pc = "pass" /\ batch = {} /\ acked # {}
    /\ queue' = Kept
    /\ SealOk(queue') \/ SealFails
    /\ pc' = "snapshot"
    /\ UNCHANGED <<up, stamp, arrivals, call, started, wake, passVars, retryVars,
                   timer, delivered, confirmed, crashes>>

Sleep ==
    /\ pc = "pass" /\ batch = {} /\ acked = {}
    /\ pc' = IF next > 0 THEN "waiting" ELSE "blocked"
    /\ timer' = next
    /\ UNCHANGED <<workerRest, wake, passVars, retryVars>>

Minus1(t) == IF t = 0 THEN 0 ELSE t - 1

Tick ==
    /\ timer > 0 \/ \E r \in Reports : due[r] > 0
    /\ timer' = Minus1(timer)
    /\ due' = [r \in Reports |-> Minus1(due[r])]
    /\ UNCHANGED <<workerRest, wake, pc, passVars, wait>>
-----------------------------------------------------------------------------
(***************************************************************************)
(* The process dies and is started again.  The retry schedule is in memory *)
(* only; RestoreFromPersistentState loads the sealed queue, and nothing on *)
(* the start-up path starts the worker.                                    *)
(***************************************************************************)
Crash ==
    /\ up /\ crashes < MaxCrashes
    /\ crashes' = crashes + 1
    /\ up' = FALSE
    /\ queue' = {}
    /\ call' = [r \in Reports |->
                  IF call[r] \in {"sealed", "unsealed"} THEN "lost" ELSE call[r]]
    /\ started' = FALSE /\ wake' = FALSE /\ pc' = "off"
    /\ batch' = {} /\ acked' = {} /\ next' = 0 /\ timer' = 0
    /\ wait' = [r \in Reports |-> 0] /\ due' = [r \in Reports |-> 0]
    /\ confirmed' = {}
    /\ UNCHANGED <<stamp, arrivals, sealed, delivered, sealFailures>>

MutRestartForgets ==
    /\ ~up
    /\ up' = TRUE
    /\ UNCHANGED <<queueVars, call, started, wake, pc, passVars, retryVars, timer,
                   delivered, confirmed, crashes, sealFailures>>

Restart ==
    /\ ~up
    /\ up' = TRUE
    /\ queue' = sealed
    /\ UNCHANGED <<stamp, arrivals, sealed, call, started, wake, pc, passVars,
                   retryVars, timer, delivered, confirmed, crashes, sealFailures>>
-----------------------------------------------------------------------------
Worker == TakeWake \/ TimerFires \/ QueueEmpty \/ StartPass \/ Ack \/ Sleep
Send(r) == SendOk(r) \/ SendFails(r)

Next ==
    \/ \E r \in Reports : Refuse(r) \/ Enqueue(r) \/ StartAndWake(r) \/ Send(r)
    \/ OtherSeal \/ Worker \/ Tick \/ Crash \/ Restart

Spec == Init /\ [][Next]_vars

(***************************************************************************)
(* Fairness.  The goroutines are scheduled and the clock runs (weak); the  *)
(* process is restarted by its supervisor; and an address that is not dead *)
(* answers an attempt sooner or later if it is tried for ever (strong).    *)
(* New reports, crashes and failures are never forced.                     *)
(***************************************************************************)
Fairness ==
    /\ WF_vars(Worker) /\ WF_vars(Tick) /\ WF_vars(Restart)
    /\ \A r \in Reports : /\ WF_vars(StartAndWake(r))
                          /\ WF_vars(Send(r))
                          /\ SF_vars(SendOk(r))

FairSpec == Spec /\ Fairness
-----------------------------------------------------------------------------
(* A report whose caller was told "queued" is on disk until the platform
   has received it, whatever crashes, failed seals and acknowledgement
   batches come in between. *)
Durable ==
    \A r \in Reports : call[r] \in {"sealed", "ok"} => r \in sealed \cup delivered

(* Only what the platform has received is dropped from the running queue:
   an undelivered entry of the sealed file is in memory too. *)
QueueCoversSealed == up => sealed \ delivered \subseteq queue

(* No lost wake-up: a worker that waits for a signal while something is
   queued has one pending, or a caller is about to send it.  (The queue a
   restart restored has no worker yet.) *)
NoLostWakeup ==
    pc = "blocked" /\ queue # {} =>
        wake \/ \E r \in Reports : call[r] \in {"sealed", "unsealed"}

(* A report that was never tried is not held behind another entry's backoff:
   while the worker sleeps, every queued entry that is not itself backing
   off has woken the worker, or is about to. *)
FreshNotHeld ==
    pc = "waiting" /\ (\E r \in queue : wait[r] = 0) =>
        wake \/ \E r \in Reports : call[r] \in {"sealed", "unsealed"}

(* One process never sends again what it saw the platform accept. *)
NoResendInProcess == batch \cap confirmed = {}

(* Every entry queued in a process whose worker runs is delivered, even
   behind entries that never will be, unless the process dies. *)
EventuallyDelivered ==
    \A r \in Reports \ Dead :
        (started /\ r \in queue) ~> (r \in delivered \/ ~up)

(* PendingReports "are retried until delivery succeeds and survive a
   restart": a sealed report is eventually delivered, crashes included. *)
SealedEventuallyDelivered ==
    \A r \in Reports \ Dead : (r \in sealed) ~> (r \in delivered)
-----------------------------------------------------------------------------
(* The outbox implements reliable reporting: what is owed to the platform
   is what is sealed and not yet received. *)
Reliable == INSTANCE ReliableReports WITH owed <- sealed \ delivered,
                                          received <- delivered
ReliableSpec == Reliable!Spec

(* The worker neither sleeps on work nor repeats it: no wake-up is lost, no
   fresh report waits for another's backoff, nothing accepted is sent again. *)
WorkerSound == NoLostWakeup /\ FreshNotHeld /\ NoResendInProcess
=============================================================================
