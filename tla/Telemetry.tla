------------------------------ MODULE Telemetry ------------------------------
(***************************************************************************)
(* The streaming reports of TAA and the platform stores that receive them: *)
(* the training watcher that tails the model's log and progress files, the *)
(* poller that replays the FHE service's log, the watcher that ships TAA's *)
(* own log out of a ring buffer, and the mock platform's log and progress  *)
(* stores.  Requests may be lost, answered too late, or handled after the  *)
(* sender gave up; either side may restart.                                *)
(*                                                                         *)
(* A log text is a sequence of characters, Nl ending a line.  Formatting,  *)
(* timestamps inside lines, envelopes and HTTP details are left out.       *)
(***************************************************************************)
EXTENDS Integers, Sequences, FiniteSets

CONSTANTS
    Scenarios,   \* the deployments Init chooses from (records, see ScenarioType)
    BatchSize,   \* maxLogBatchSize
    LogCap,      \* capacity of a platform log store (2000 in the code)
    RingSize     \* capacity of TAA's own log buffer (1000 in the code)

ScenarioType ==
    [source: {"train", "fhe"}, requests: Nat, chars: Nat, letters: Nat, rewrites: Nat,
     beats: Nat, adds: Nat, losses: Nat, platformRestarts: Nat, taaRestarts: Nat]

ASSUME TelemetryAssumption ==
    /\ Scenarios \subseteq ScenarioType
    /\ {BatchSize, LogCap, RingSize} \subseteq Nat \ {0} /\ BatchSize =< LogCap

VARIABLES
    scen,      \* the scenario
    used,      \* what has been spent of its bounds
    task,      \* [req, stage]: the task TAA is running
    text,      \* the model's log file, or the FHE service's log
    snap,      \* the latest progress snapshot of the model, or the FHE run
    watch,     \* the goroutine shipping the model log
    ring,      \* TAA's own log buffer
    ship,      \* the goroutine shipping TAA's own log
    net,       \* requests on their way, the sender waiting or not
    answers,   \* requests the platform has answered
    handling,  \* progress requests the platform has checked, not yet stored
    store,     \* the platform's log stores
    progress,  \* the platform's progress store, in memory and on disk
    going,     \* FHE progress goroutines that have not taken their time yet
    queued,    \* history: per request, the model lines given a number
    kept,      \* history: the lines each platform store added, in order
    acked,     \* history: the lines a sender saw accepted
    resent,    \* history: the lines of TAA's own log in a batch that was given up
    mixed,     \* history: the requests whose numbers a restart of the platform mixed up
    checked    \* history: the requests whose result check reached a verdict

taaVars == <<task, text, snap, watch, ring, ship, going>>
platformVars == <<handling, store, progress>>
history == <<queued, kept, acked, resent, mixed, checked>>
vars == <<scen, used, taaVars, net, answers, platformVars, history>>

Nl == 0
System == 0          \* the requestId "system" of the TAA log
Chans == {"model", "taa"}
Full == 100          \* progressHoldPercent
NoSnap == [pct |-> -1, ts |-> 0]

Requests == 1..scen.requests

-----------------------------------------------------------------------------
(* Text and lines *)

\* The k-th smallest member of a set of numbers.
Nth(S, k) == CHOOSE i \in S : Cardinality({j \in S : j =< i}) = k

IsPrefixOf(s, t) == Len(s) =< Len(t) /\ SubSeq(t, 1, Len(s)) = s

Breaks(t) == {i \in DOMAIN t : t[i] = Nl}
LastBreak(t) == IF Breaks(t) = {} THEN 0
                ELSE CHOOSE i \in Breaks(t) : \A j \in Breaks(t) : j =< i

\* The non-empty lines of a text, in order.
Lines(t) ==
    LET starts == {i \in DOMAIN t : t[i] # Nl /\ (i = 1 \/ t[i - 1] = Nl)}
        ending(i) == CHOOSE j \in i..Len(t) :
                        /\ \A m \in i..j : t[m] # Nl
                        /\ j = Len(t) \/ t[j + 1] = Nl
    IN  [k \in 1..Cardinality(starts) |->
            LET i == Nth(starts, k) IN SubSeq(t, i, ending(i))]

\* Mutant: a replay is only taken for a new log when it is shorter.
MutReadFrom(w, t) == IF Len(t) < w.offset THEN 0 ELSE w.offset

\* Where the next read starts.  The poller compares the replay with the last
\* one; the file reader only notices that the file has shrunk.
ReadFrom(w, t) ==
    IF scen.source = "fhe"
    THEN IF IsPrefixOf(w.last, t) THEN w.offset ELSE 0
    ELSE IF Len(t) < w.offset THEN 0 ELSE w.offset

\* A read takes complete lines only; the last replay of the poller takes the
\* unfinished one as well, since nothing else will come to finish it.
ReadUpTo(t, from, final) ==
    IF final /\ scen.source = "fhe" THEN Len(t)
    ELSE from + LastBreak(SubSeq(t, from + 1, Len(t)))

\* Read what is new in t and number its lines.
Absorb(w, t, final) ==
    LET from  == ReadFrom(w, t)
        upTo  == ReadUpTo(t, from, final)
        fresh == Lines(SubSeq(t, from + 1, upTo))
    IN  [w EXCEPT !.last = t, !.offset = upTo,
                  !.next = w.next + Len(fresh),
                  !.pending = w.pending \o
                     [i \in DOMAIN fresh |-> [seq |-> w.next + i - 1, msg |-> fresh[i]]]]

\* The first batch of a queue.
Batch(pending) == SubSeq(pending, 1, IF Len(pending) < BatchSize THEN Len(pending) ELSE BatchSize)
AfterBatch(pending) == SubSeq(pending, Len(Batch(pending)) + 1, Len(pending))

\* ReportModelLog and ReportTaaLog refuse a batch whose numbers have a hole.
Contiguous(batch) == \A i \in DOMAIN batch : batch[i].seq = batch[1].seq + i - 1

-----------------------------------------------------------------------------
(* The platform's log store *)

EmptyStore == [req |-> System, entries |-> <<>>, seen |-> {}]

\* A sequence of numbers in ascending order.
Ascending(s) ==
    [i \in DOMAIN s |-> CHOOSE x \in {s[j] : j \in DOMAIN s} :
        /\ Cardinality({j \in DOMAIN s : s[j] < x}) < i
        /\ i =< Cardinality({j \in DOMAIN s : s[j] =< x})]

Newest(s) == IF Len(s) > LogCap THEN SubSeq(s, Len(s) - LogCap + 1, Len(s)) ELSE s

Fresh(st, m) == SelectSeq(m.entries, LAMBDA e : <<m.req, e.seq>> \notin st.seen)

\* addEntries: drop what was seen, keep the highest numbers of the rest.
AddEntries(st, m) ==
    LET fresh == Fresh(st, m) IN
    IF fresh = <<>> THEN st
    ELSE [req |-> m.req,
          seen |-> st.seen \cup {<<m.req, fresh[i].seq>> : i \in DOMAIN fresh},
          entries |-> Newest(Ascending(st.entries \o [i \in DOMAIN fresh |-> fresh[i].seq]))]

\* load: the persisted entries are taken to belong to the persisted request.
Reload(st) == [st EXCEPT !.seen = {<<st.req, st.entries[i]>> : i \in DOMAIN st.entries}]

-----------------------------------------------------------------------------
(* Initial state *)

IdleWatch == [pc |-> "off", req |-> System, cancelled |-> FALSE, flush |-> FALSE,
              final |-> FALSE, last |-> <<>>, offset |-> 0, next |-> 1,
              pending |-> <<>>, waiting |-> 0, sending |-> NoSnap,
              key |-> NoSnap, held |-> NoSnap]
IdleShip == [pc |-> "tick", pending |-> <<>>, req |-> System, waiting |-> 0]
EmptyRing == [entries |-> <<>>, cursor |-> 0, next |-> 1]
NoProgress == [req |-> System, pct |-> -1, ts |-> 0]

Init ==
    /\ scen \in Scenarios
    /\ used = [requests |-> 0, rewrites |-> 0, beats |-> 0, adds |-> 0, losses |-> 0,
               platform |-> 0, taa |-> 0, sent |-> 0, holes |-> FALSE]
    /\ task = [req |-> System, stage |-> "idle", outcome |-> "none"]
    /\ text = <<>> /\ snap = NoSnap
    /\ watch = IdleWatch /\ ring = EmptyRing /\ ship = IdleShip
    /\ net = {} /\ answers = {} /\ handling = {}
    /\ store = [c \in Chans |-> EmptyStore]
    /\ progress = [mem |-> NoProgress, file |-> NoProgress]
    /\ going = {}
    /\ queued = [r \in Requests |-> <<>>]
    /\ kept = [c \in Chans |-> <<>>]
    /\ acked = [c \in Chans |-> {}]
    /\ resent = {} /\ mixed = [c \in Chans |-> {}]
    /\ checked = {}

\* A request leaves: it gets a number of its own, so that a retry is another request.
Post(m) ==
    /\ net' = net \cup {m}
    /\ used' = [used EXCEPT !.sent = @ + 1]
NextId == used.sent + 1

-----------------------------------------------------------------------------
(* The model or the FHE service writing its log and progress *)

Live == task.stage = "run"

WriteLog ==
    /\ Live /\ Len(text) < scen.chars
    /\ \E c \in (1..scen.letters) \cup {Nl} :
        /\ c = Nl => text # <<>> /\ text[Len(text)] # Nl
        /\ text' = Append(text, c)
    /\ UNCHANGED <<scen, used, task, snap, watch, ring, ship, going, net, answers,
                   platformVars, history>>

\* The log starts over: a file the model truncates, or a task the service continues.
RewriteLog ==
    /\ Live /\ text # <<>> /\ used.rewrites < scen.rewrites
    /\ text' = <<>>
    /\ used' = [used EXCEPT !.rewrites = @ + 1]
    /\ UNCHANGED <<scen, task, snap, watch, ring, ship, going, net, answers,
                   platformVars, history>>

\* A new snapshot; a second may or may not have passed since the last one.  On
\* an FHE instance the poll of the run starts a goroutine for each report.
WriteProgress ==
    /\ Live /\ used.beats < scen.beats
    /\ used' = [used EXCEPT !.beats = @ + 1]
    /\ \E pct \in {50, Full}, tick \in {0, 1} :
        /\ pct >= snap.pct
        /\ snap' = [pct |-> pct, ts |-> snap.ts + tick]
        /\ going' = IF scen.source = "fhe" THEN going \cup {[req |-> task.req, pct |-> pct]}
                    ELSE going
    /\ UNCHANGED <<scen, task, text, watch, ring, ship, net, answers,
                   platformVars, history>>

\* reportFHEProgress: the goroutine reads the clock when it runs, and sends.
SendFheProgress ==
    \E g \in going :
        /\ going' = going \ {g}
        /\ Post([id |-> NextId, ch |-> "progress", req |-> g.req, pct |-> g.pct, ts |-> snap.ts])
        /\ UNCHANGED <<scen, task, text, snap, watch, ring, ship, answers,
                       platformVars, history>>

-----------------------------------------------------------------------------
(* The task around the watcher *)

\* The log and progress directories are emptied before a training run.
StartTask ==
    /\ task.stage = "idle" /\ watch.pc = "off" /\ used.requests < scen.requests
    /\ used' = [used EXCEPT !.requests = @ + 1]
    /\ task' = [req |-> used.requests + 1, stage |-> "run", outcome |-> "none"]
    /\ text' = <<>>
    /\ snap' = [snap EXCEPT !.pct = -1]
    /\ watch' = [IdleWatch EXCEPT !.pc = "tick", !.req = used.requests + 1]
    /\ UNCHANGED <<scen, ring, ship, going, net, answers, platformVars, history>>

\* The run ends; the watcher is told to stop, with a last flush unless cancelled.
EndRun ==
    /\ Live
    /\ \E outcome \in {"ok", "fail", "cancel"} :
        /\ task' = [task EXCEPT !.stage = "stopping", !.outcome = outcome]
        /\ watch' = [watch EXCEPT !.cancelled = TRUE,
                                  !.flush = scen.source = "fhe" \/ outcome # "cancel"]
        /\ going' = IF scen.source = "fhe" /\ outcome = "ok"
                    THEN going \cup {[req |-> task.req, pct |-> Full]} ELSE going
    /\ UNCHANGED <<scen, used, text, snap, ring, ship, net, answers,
                   platformVars, history>>

\* The watcher has stopped: a training run that succeeded has its results checked.
Stopped ==
    /\ task.stage = "stopping" /\ watch.pc = "off"
    /\ task' = [task EXCEPT !.stage =
                  IF scen.source = "train" /\ task.outcome = "ok" THEN "check" ELSE "idle",
                !.req = IF scen.source = "train" /\ task.outcome = "ok" THEN @ ELSE System]
    /\ UNCHANGED <<scen, used, text, snap, watch, ring, ship, going, net, answers,
                   platformVars, history>>

\* The check fails or is cancelled: the held snapshot goes with it.
CheckAborted ==
    /\ task.stage = "check" /\ task.req \notin checked
    /\ task' = [task EXCEPT !.stage = "idle", !.req = System]
    /\ UNCHANGED <<scen, used, text, snap, watch, ring, ship, going, net, answers,
                   platformVars, history>>

CheckVerdict ==
    /\ task.stage = "check" /\ task.req \notin checked
    /\ checked' = checked \cup {task.req}
    /\ UNCHANGED <<scen, used, taaVars, net, answers, platformVars, queued, kept, acked, resent, mixed>>

\* Mutant: the held progress is released before the check has a verdict.
MutReleaseProgress ==
    /\ task.stage = "check"
    /\ task' = [task EXCEPT !.stage = "idle", !.req = System]
    /\ watch' = [watch EXCEPT !.held = NoSnap]
    /\ \/ watch.held = NoSnap /\ UNCHANGED <<net, used>>
       \/ /\ watch.held # NoSnap
          /\ Post([id |-> NextId, ch |-> "progress", req |-> task.req,
                   pct |-> watch.held.pct, ts |-> watch.held.ts])
    /\ UNCHANGED <<scen, text, snap, ring, ship, going, answers, platformVars, history>>

\* reportDeferredProgress: claimed before it is sent, never sent twice.
ReleaseProgress ==
    /\ task.stage = "check" /\ task.req \in checked
    /\ task' = [task EXCEPT !.stage = "idle", !.req = System]
    /\ watch' = [watch EXCEPT !.held = NoSnap]
    /\ \/ watch.held = NoSnap /\ UNCHANGED <<net, used>>
       \/ /\ watch.held # NoSnap
          /\ Post([id |-> NextId, ch |-> "progress", req |-> task.req,
                   pct |-> watch.held.pct, ts |-> watch.held.ts])
    /\ UNCHANGED <<scen, text, snap, ring, ship, going, answers, platformVars, history>>
-----------------------------------------------------------------------------
(* The watcher: one goroutine, one request at a time *)

\* The end of a flush: wait for the next tick, or stop after the last one.
Rest(w) == [w EXCEPT !.pc = IF w.final THEN "off" ELSE "tick"]
\* The logs of this flush are done; the training watcher goes on to progress.
LogsDone(w) == IF scen.source = "train" THEN [w EXCEPT !.pc = "beat"] ELSE Rest(w)

\* Read new lines; queued remembers them under the numbers they were given.
ReadLines(w, final) ==
    LET read == Absorb(w, text, final) IN
    /\ watch' = [read EXCEPT !.pc = "send", !.final = final,
                             !.cancelled = IF final THEN FALSE ELSE @]
    /\ queued' = [queued EXCEPT ![w.req] = @ \o
          [i \in 1..(Len(read.pending) - Len(w.pending)) |-> read.pending[Len(w.pending) + i].msg]]

WatchTick ==
    /\ watch.pc = "tick" /\ ~watch.cancelled
    /\ ReadLines(watch, FALSE)
    /\ UNCHANGED <<scen, used, task, text, snap, ring, ship, going, net, answers,
                   platformVars, kept, acked, resent, mixed, checked>>

\* Stop: the loop has ended; flush once more, outside the cancelled context.
\* The last replay of the FHE log may fail.
WatchStop ==
    /\ watch.pc = "tick" /\ watch.cancelled
    /\ \/ watch.flush /\ ReadLines(watch, TRUE)
       \/ /\ ~watch.flush \/ scen.source = "fhe"
          /\ watch' = [watch EXCEPT !.pc = "off"]
          /\ UNCHANGED queued
    /\ UNCHANGED <<scen, used, task, text, snap, ring, ship, going, net, answers,
                   platformVars, kept, acked, resent, mixed, checked>>

\* Send the first batch; a cancelled context or a hole in the numbers fails at once.
WatchSend ==
    /\ watch.pc = "send"
    /\ LET batch == Batch(watch.pending)
           able == batch # <<>> /\ ~watch.cancelled /\ Contiguous(batch)
       IN  \/ /\ able
              /\ Post([id |-> NextId, ch |-> "model", req |-> watch.req, entries |-> batch])
              /\ watch' = [watch EXCEPT !.pc = "await", !.waiting = NextId]
           \/ /\ ~able
              /\ watch' = LogsDone(watch)
              /\ UNCHANGED <<net, used>>
    /\ UNCHANGED <<scen, task, text, snap, ring, ship, going, answers,
                   platformVars, history>>

\* The batch was accepted: only now does the queue get shorter.
WatchAcked ==
    /\ watch.pc = "await" /\ watch.waiting \in answers
    /\ answers' = answers \ {watch.waiting}
    /\ acked' = [acked EXCEPT !["model"] = @ \cup
                   {<<watch.req, Batch(watch.pending)[i].seq>> : i \in DOMAIN Batch(watch.pending)}]
    /\ watch' = [watch EXCEPT !.pc = "send", !.waiting = 0, !.pending = AfterBatch(@)]
    /\ UNCHANGED <<scen, used, task, text, snap, ring, ship, going, net,
                   platformVars, queued, kept, resent, mixed, checked>>

\* What is left of a request after its sender gave up: it may still arrive.
Gone(id) == id \notin answers /\ \A m \in net \cup handling : m.id # id
GiveUp(id, free) ==
    /\ \/ (free \/ Gone(id)) /\ UNCHANGED used
       \/ /\ ~free /\ ~Gone(id) /\ used.losses < scen.losses
          /\ used' = [used EXCEPT !.losses = @ + 1]
    /\ \E late \in BOOLEAN : net' = IF late THEN net ELSE {m \in net : m.id # id}
    /\ answers' = answers \ {id}

\* Mutant: a batch whose report failed is dropped from the queue.
MutWatchFailed ==
    /\ watch.pc = "await"
    /\ GiveUp(watch.waiting, watch.cancelled)
    /\ watch' = LogsDone([watch EXCEPT !.waiting = 0, !.pending = AfterBatch(@)])
    /\ UNCHANGED <<scen, task, text, snap, ring, ship, going, platformVars, history>>

WatchFailed ==
    /\ watch.pc = "await"
    /\ GiveUp(watch.waiting, watch.cancelled)
    /\ watch' = LogsDone([watch EXCEPT !.waiting = 0])
    /\ UNCHANGED <<scen, task, text, snap, ring, ship, going, platformVars, history>>

\* The progress half of a flush: an unchanged snapshot is skipped, a full one held.
WatchBeat ==
    /\ watch.pc = "beat"
    /\ LET new == snap.pct >= 0 /\ snap # watch.key
           send == new /\ snap.pct < Full /\ ~watch.cancelled
       IN  \/ /\ send
              /\ Post([id |-> NextId, ch |-> "progress", req |-> watch.req,
                       pct |-> snap.pct, ts |-> snap.ts])
              /\ watch' = [watch EXCEPT !.pc = "beating", !.waiting = NextId, !.sending = snap]
           \/ /\ new /\ snap.pct >= Full
              /\ watch' = Rest([watch EXCEPT !.held = snap, !.key = snap])
              /\ UNCHANGED <<net, used>>
           \/ /\ ~send /\ ~(new /\ snap.pct >= Full)
              /\ watch' = Rest(watch)
              /\ UNCHANGED <<net, used>>
    /\ UNCHANGED <<scen, task, text, snap, ring, ship, going, answers,
                   platformVars, history>>

WatchBeatAcked ==
    /\ watch.pc = "beating" /\ watch.waiting \in answers
    /\ answers' = answers \ {watch.waiting}
    /\ watch' = Rest([watch EXCEPT !.waiting = 0, !.key = watch.sending, !.sending = NoSnap])
    /\ UNCHANGED <<scen, used, task, text, snap, ring, ship, going, net,
                   platformVars, history>>

WatchBeatFailed ==
    /\ watch.pc = "beating"
    /\ GiveUp(watch.waiting, watch.cancelled)
    /\ watch' = Rest([watch EXCEPT !.waiting = 0, !.sending = NoSnap])
    /\ UNCHANGED <<scen, task, text, snap, ring, ship, going, platformVars, history>>

-----------------------------------------------------------------------------
(* TAA's own log: a ring buffer and the goroutine that ships it *)

\* Store.Add: a full buffer first drops its older half, read or not.
AddTaaLog ==
    /\ used.adds < scen.adds
    /\ used' = [used EXCEPT !.adds = @ + 1]
    /\ LET half == IF RingSize \div 2 = 0 THEN 1 ELSE RingSize \div 2
           drop == IF Len(ring.entries) >= RingSize THEN half ELSE 0
       IN  ring' = [entries |-> Append(SubSeq(ring.entries, drop + 1, Len(ring.entries)),
                                       [seq |-> ring.next, boot |-> used.taa]),
                    cursor |-> IF ring.cursor >= drop THEN ring.cursor - drop ELSE 0,
                    next |-> ring.next + 1]
    /\ UNCHANGED <<scen, task, text, snap, watch, ship, going, net, answers,
                   platformVars, history>>

\* Mutant: a tick without new lines does nothing, also when a batch is left over.
MutShipTick ==
    /\ ship.pc = "tick" /\ ring.cursor < Len(ring.entries)
    /\ ship' = [ship EXCEPT !.pc = "send", !.req = task.req,
                  !.pending = @ \o SubSeq(ring.entries, ring.cursor + 1, Len(ring.entries))]
    /\ ring' = [ring EXCEPT !.cursor = Len(ring.entries)]
    /\ UNCHANGED <<scen, used, task, text, snap, watch, going, net, answers,
                   platformVars, history>>

\* A tick: drain the buffer; the request the lines are sent under is read now.
ShipTick ==
    /\ ship.pc = "tick"
    /\ ship.pending # <<>> \/ ring.cursor < Len(ring.entries)
    /\ ship' = [ship EXCEPT !.pc = "send", !.req = task.req,
                  !.pending = @ \o SubSeq(ring.entries, ring.cursor + 1, Len(ring.entries))]
    /\ ring' = [ring EXCEPT !.cursor = Len(ring.entries)]
    /\ UNCHANGED <<scen, used, task, text, snap, watch, going, net, answers,
                   platformVars, history>>

ShipSend ==
    /\ ship.pc = "send"
    /\ LET batch == Batch(ship.pending) IN
       \/ /\ batch # <<>> /\ Contiguous(batch)
          /\ Post([id |-> NextId, ch |-> "taa", req |-> ship.req, entries |-> batch])
          /\ ship' = [ship EXCEPT !.pc = "await", !.waiting = NextId]
       \/ /\ batch = <<>>
          /\ ship' = [ship EXCEPT !.pc = "tick"]
          /\ UNCHANGED <<net, used>>
       \/ /\ batch # <<>> /\ ~Contiguous(batch)
          /\ ship' = [ship EXCEPT !.pc = "tick"]
          /\ used' = [used EXCEPT !.holes = TRUE]
          /\ UNCHANGED net
    /\ UNCHANGED <<scen, task, text, snap, watch, ring, going, answers,
                   platformVars, history>>

ShipAcked ==
    /\ ship.pc = "await" /\ ship.waiting \in answers
    /\ answers' = answers \ {ship.waiting}
    /\ acked' = [acked EXCEPT !["taa"] = @ \cup
          {[req |-> ship.req, line |-> Batch(ship.pending)[i]] : i \in DOMAIN Batch(ship.pending)}]
    /\ ship' = [ship EXCEPT !.pc = "send", !.waiting = 0, !.pending = AfterBatch(@)]
    /\ UNCHANGED <<scen, used, task, text, snap, watch, ring, going, net,
                   platformVars, queued, kept, resent, mixed, checked>>

ShipFailed ==
    /\ ship.pc = "await"
    /\ GiveUp(ship.waiting, FALSE)
    /\ ship' = [ship EXCEPT !.pc = "tick", !.waiting = 0]
    /\ resent' = resent \cup {Batch(ship.pending)[i] : i \in DOMAIN Batch(ship.pending)}
    /\ UNCHANGED <<scen, task, text, snap, watch, ring, going, platformVars, queued, kept,
                   acked, mixed, checked>>

\* TAA restarts: its numbers start again at one.
RestartTaa ==
    /\ used.taa < scen.taaRestarts
    /\ used' = [used EXCEPT !.taa = @ + 1]
    /\ task' = [req |-> System, stage |-> "idle", outcome |-> "none"]
    /\ watch' = IdleWatch /\ ship' = IdleShip /\ ring' = EmptyRing
    /\ going' = {} /\ answers' = {}
    /\ UNCHANGED <<scen, text, snap, net, platformVars, history>>

-----------------------------------------------------------------------------
(* The platform *)

\* Somebody is still waiting for the answer to this request.
Answer(id) == IF id \in {watch.waiting, ship.waiting} THEN {id} ELSE {}

\* modelLogHandler and taaLogHandler: addEntries holds the lock until it has saved.
HandleLog ==
    \E m \in {x \in net : x.ch \in Chans} :
        /\ net' = net \ {m}
        /\ store' = [store EXCEPT ![m.ch] = AddEntries(@, m)]
        /\ kept' = [kept EXCEPT ![m.ch] = @ \o
              [i \in DOMAIN Fresh(store[m.ch], m) |-> [req |-> m.req, line |-> Fresh(store[m.ch], m)[i]]]]
        /\ answers' = answers \cup Answer(m.id)
        /\ UNCHANGED <<scen, used, taaVars, handling, progress, queued, acked, resent, mixed, checked>>

\* reportProgressHandler: an older timestamp than the stored one is ignored ...
CheckProgress ==
    \E m \in {x \in net : x.ch = "progress"} :
        /\ net' = net \ {m}
        /\ \/ /\ m.ts < progress.mem.ts
              /\ answers' = answers \cup Answer(m.id)
              /\ UNCHANGED handling
           \/ /\ m.ts >= progress.mem.ts
              /\ handling' = handling \cup {m}
              /\ UNCHANGED answers
        /\ UNCHANGED <<scen, used, taaVars, store, progress, history>>

Shown(m) == [req |-> m.req, pct |-> m.pct, ts |-> m.ts]

\* ... otherwise it is set, under another hold of the lock, then saved and answered.
SetProgress ==
    \E m \in handling :
        /\ m.ch = "progress"
        /\ handling' = (handling \ {m}) \cup {[m EXCEPT !.ch = "saving"]}
        /\ progress' = [progress EXCEPT !.mem = Shown(m)]
        /\ UNCHANGED <<scen, used, taaVars, net, answers, store, history>>

SaveProgress ==
    \E m \in handling :
        /\ m.ch = "saving"
        /\ handling' = handling \ {m}
        /\ progress' = [progress EXCEPT !.file = Shown(m)]
        /\ answers' = answers \cup Answer(m.id)
        /\ UNCHANGED <<scen, used, taaVars, net, store, history>>

\* Whose lines a store has taken: a request, and the run of TAA that numbered them.
Writers(c) == {IF c = "taa" THEN <<k.req, k.line.boot>> ELSE <<k.req, 0>> :
                 k \in {kept[c][i] : i \in DOMAIN kept[c]}}

\* The platform restarts: open connections die, the stores are read from disk.
RestartPlatform ==
    /\ used.platform < scen.platformRestarts
    /\ used' = [used EXCEPT !.platform = @ + 1]
    /\ net' = {} /\ handling' = {} /\ answers' = {}
    /\ store' = [c \in Chans |-> Reload(store[c])]
    /\ progress' = [progress EXCEPT !.mem = progress.file]
    /\ mixed' = [c \in Chans |-> mixed[c] \cup
                   IF Cardinality(Writers(c)) > 1 THEN {w[1] : w \in Writers(c)} ELSE {}]
    /\ UNCHANGED <<scen, taaVars, queued, kept, acked, resent, checked>>
-----------------------------------------------------------------------------
Next ==
    \/ WriteLog \/ RewriteLog \/ WriteProgress \/ SendFheProgress
    \/ StartTask \/ EndRun \/ Stopped \/ CheckAborted \/ CheckVerdict \/ ReleaseProgress
    \/ WatchTick \/ WatchStop \/ WatchSend \/ WatchAcked \/ WatchFailed
    \/ WatchBeat \/ WatchBeatAcked \/ WatchBeatFailed
    \/ AddTaaLog \/ ShipTick \/ ShipSend \/ ShipAcked \/ ShipFailed
    \/ RestartTaa \/ HandleLog \/ CheckProgress \/ SetProgress \/ SaveProgress
    \/ RestartPlatform

\* The shipping goroutine is woken by its ticker for as long as TAA runs and the
\* platform answers what reaches it; nothing obliges a request to be lost.
Fairness ==
    /\ WF_vars(ShipTick) /\ WF_vars(ShipSend) /\ WF_vars(ShipAcked)
    /\ WF_vars(ShipFailed /\ Gone(ship.waiting))
    /\ WF_vars(HandleLog)

Spec == Init /\ [][Next]_vars /\ Fairness

-----------------------------------------------------------------------------
(* Properties *)

\* Model lines reach the platform exactly once and in order, whatever is lost,
\* repeated or late: what the store added for a request is a prefix of the lines
\* numbered for it, without a hole, and covers every line the watcher saw accepted.
\* A platform that restarts with lines of several requests in its store takes them all
\* for the last one's and forgets whose they were: of the requests it mixed up so only
\* the text is sure, lines may be missing or stored twice.
ModelStreamExact ==
    \A r \in Requests :
        LET mine == SelectSeq(kept["model"], LAMBDA k : k.req = r) IN
        /\ \A i \in DOMAIN mine : /\ mine[i].line.seq \in DOMAIN queued[r]
                                  /\ mine[i].line.msg = queued[r][mine[i].line.seq]
        /\ r \notin mixed["model"] =>
             /\ \A i \in DOMAIN mine : mine[i].line.seq = i
             /\ \A s \in 1..Len(queued[r]) : <<r, s>> \in acked["model"] => s =< Len(mine)

\* What has been read of the current log is exactly what was queued last: no line
\* twice, none skipped, no read past the end of the text, also after the service
\* started the log over.  (A file rewritten and regrown past the old offset between
\* two reads goes unnoticed by the file reader; a replay does not.)
ReadExact ==
    (watch.pc # "off" /\ (scen.source = "fhe" \/ used.rewrites = 0)) =>
        LET read == Lines(SubSeq(watch.last, 1, watch.offset))
            all == queued[watch.req]
        IN  /\ watch.offset =< Len(watch.last)
            /\ Len(read) =< Len(all)
            /\ SubSeq(all, Len(all) - Len(read) + 1, Len(all)) = read

\* A training run is shown as finished only once its results have been checked:
\* no report of 100% is on its way, being stored, or shown before the verdict.
HoldsFull ==
    scen.source = "train" =>
        \A m \in {x \in net \cup handling : x.ch \in {"progress", "saving"}}
                 \cup {progress.mem, progress.file} :
            m.pct = Full => m.req \in checked

\* TAA's own log.  A line the platform acknowledged is in its store, under the
\* request it was sent for unless that one was mixed up, or else an earlier run of TAA
\* has used its number.
TaaKept ==
    \A a \in acked["taa"] :
        \E i \in DOMAIN kept["taa"] :
            LET k == kept["taa"][i] IN
            /\ k.line.seq = a.line.seq /\ k.line.boot =< a.line.boot
            /\ k.req = a.req \/ a.req \in mixed["taa"]

\* Only a line of a batch the sender gave up on is ever stored again, under the
\* request that is active by then (or, after a mix-up, under the same), and only such a
\* line is stored after one that was written later.
TaaOrder ==
    \A i, j \in DOMAIN kept["taa"] :
        LET x == kept["taa"][i]
            y == kept["taa"][j]
        IN  i < j =>
              /\ x.line = y.line => x.line \in resent /\ (x.req # y.req \/ x.req \in mixed["taa"])
              /\ x.line.boot = y.line.boot /\ y.line.seq =< x.line.seq => y.line \in resent

\* Every acknowledged line of TAA's own log is in the platform's store.
AckedKept ==
    \A a \in acked["taa"] : \E i \in DOMAIN kept["taa"] : kept["taa"][i] = a

\* A line drained from the buffer reaches the platform in the end, unless TAA
\* restarts or the buffer overflowed and left a hole in the queue.
Drained(s) == \E i \in DOMAIN ship.pending : ship.pending[i].seq = s
TaaFlows ==
    \A s \in 1..4 :
        Drained(s) ~> \/ used.holes \/ used.taa > 0
                      \/ \E i \in DOMAIN kept["taa"] : kept["taa"][i].line.seq = s

\* A request's model lines are stored once, in order and without a hole; TAA's own
\* lines are not lost once acknowledged, and stored twice or late only when their batch
\* was repeated.  The exceptions are a platform restart that mixes requests up and, for
\* TAA's own log, the numbers of an earlier run of TAA.
StreamExact == ModelStreamExact /\ TaaKept /\ TaaOrder
=============================================================================
