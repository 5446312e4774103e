------------------------- MODULE PlatformMock_proofs -------------------------
(***************************************************************************)
(* Proofs about PlatformMock, for any ids, handler threads, registrations, *)
(* reports, crashes and failing writes.                                    *)
(*                                                                         *)
(* The key table, in memory and on file, holds only keys that an accepted  *)
(* registration of that very id carried, and an id once told that it is    *)
(* registered never lacks one.  A handler that is overtaken between two    *)
(* steps still writes only into the bundle of the id it authenticated.     *)
(*                                                                         *)
(* Before instances/ exists the newest copy of a legacy file is in the     *)
(* root or alone in one staging directory, so neither order of recovering  *)
(* the directories can put an older copy over it.                          *)
(***************************************************************************)
EXTENDS PlatformMock, FiniteSetTheorems, WellFoundedInduction, TLAPS

(***************************************************************************)
(* Shapes.  What a handler is doing, by its operation.                     *)
(***************************************************************************)
Reports == [kind : {"resource", "res", "import", "audit"}, plain : Ids, blank : BOOLEAN, key : Nat,
            accepted : BOOLEAN, early : BOOLEAN]
Registering == [op : {"target", "record", "save", "adopt"}, m : Registrations, bundle : Ids, rec : Records]
Writing == [op : {"report"}, m : Bodies, id : Ids, rec : Reports]
Resetting == [op : {"reset"}, todo : SUBSET Ids, what : {"register", "reports"}, bundle : Ids \cup {None}]
Clearing == [op : {"clear"}, todo : SUBSET Ids, what : {"register", "reports"}, bundle : Ids]
Sending == [op : {"send"}, id : Ids, addr : Nat, bare : BOOLEAN, own : BOOLEAN]
Tasks == {Idle} \cup Registering \cup Writing \cup Resetting \cup Clearing \cup Sending

DirOK(d) ==
    /\ DOMAIN d = DOMAIN NoDir
    /\ d.meta \in BOOLEAN /\ d.target \in Nat /\ d.reg \in Records /\ d.reports \in Seq(Reports)

HistOK ==
    /\ DOMAIN hist = {"adopted", "from", "last", "validated", "answered", "sent",
                     "unreturned", "stale", "unsaved"}
    /\ hist.adopted \in [Ids -> SUBSET Nat] /\ hist.from \in [Ids -> SUBSET Nat]
    /\ hist.last \in [Ids -> Nat] /\ hist.answered \subseteq Ids

BootOK ==
    /\ DOMAIN boot = DOMAIN Off
    /\ boot.pc \in {"off", "recover", "stage", "rollback", "scan", "up"}
    /\ boot.id \in {Legacy, deploy.legacyId}
    /\ instances \in BOOLEAN

MemoryOK ==
    /\ known \subseteq Ids /\ target \in [Ids -> Nat] /\ reg \in [Ids -> Records]
    /\ keys \in [Ids -> Nat] /\ keyFile \in [Ids -> Nat] /\ tick \in Nat

Typed ==
    /\ deploy \in Deployments
    /\ DOMAIN dirs = Ids /\ \A i \in Ids : DirOK(dirs[i])
    /\ HistOK
    /\ BootOK
    /\ MemoryOK
    /\ work \in [Threads -> Tasks]

(***************************************************************************)
(* No record is stamped in the future.                                     *)
(***************************************************************************)
AtRegister(t) == work[t].op \in {"target", "record", "save", "adopt"}
ClockSound ==
    /\ \A i \in Ids : reg[i].at <= tick /\ dirs[i].reg.at <= tick
    /\ \A t \in Threads : AtRegister(t) => work[t].rec.at <= tick
    /\ deploy.legacyReg.at <= tick

(***************************************************************************)
(* The start: instances/ is made once, and nothing is served before.       *)
(***************************************************************************)
BootSound ==
    /\ boot.pc \in {"recover", "stage", "rollback"} => ~instances
    /\ Up => instances
    /\ ~Up => \A t \in Threads : work[t] = Idle
    /\ ~instances => \A i \in Ids : ~dirs[i].meta /\ dirs[i].reports = <<>> /\ hist.last[i] = 0

(***************************************************************************)
(* A key table is the initial one changed by accepted registrations only,  *)
(* and an id that had a key, or was told it has one, never lacks one.      *)
(***************************************************************************)
KeyTable(k) ==
    /\ k[Legacy] = deploy.keys[Legacy]
    /\ \A i \in Ids : /\ k[i] # 0 => k[i] \in hist.adopted[i]
                      /\ k[i] = 0 => NeverKeyed(i)
                      /\ k[i] # deploy.keys[i] => <<i, k[i]>> \in hist.validated

KeysSound == KeyTable(keyFile) /\ (boot.pc # "off" => KeyTable(keys))

(***************************************************************************)
(* A registration that was accepted goes to the bundle of its own id.      *)
(***************************************************************************)
RegisterSound ==
    \A t \in Threads : AtRegister(t) =>
        /\ work[t].bundle \in known
        /\ work[t].op \in {"target", "adopt"} => work[t].rec.accepted
        /\ work[t].rec.accepted => /\ work[t].m.id # Legacy /\ work[t].m.key # 0
                                   /\ work[t].bundle = work[t].m.id
                                   /\ <<work[t].m.id, work[t].m.key>> \in hist.validated

(***************************************************************************)
(* A report names the id its handler authenticated and will write under.   *)
(***************************************************************************)
Owned(i, r) ==
    i # Legacy /\ r.accepted =>
        /\ r.plain = i \/ Nameless(r)
        /\ r.key \in hist.adopted[i] \/ (r.early /\ r.key = deploy.keys[Legacy])

ReportSound ==
    /\ \A t \in Threads : work[t].op = "report" => Owned(work[t].id, work[t].rec)
    /\ \A i \in Ids : \A n \in DOMAIN dirs[i].reports : Owned(i, dirs[i].reports[n])

(***************************************************************************)
(* Who may have a directory, and which address is on file and in memory.   *)
(***************************************************************************)
Entitled(i) ==
    i = Legacy \/ deploy.dirs[i].meta \/ i = deploy.legacyId \/ \E r \in hist.validated : r[1] = i

MembersSound ==
    \A i \in Ids : /\ i \in known \/ dirs[i].meta => Entitled(i)
                   /\ Up /\ dirs[i].meta => i \in known

TargetSound ==
    \A i \in Ids :
        /\ i \notin hist.unsaved => dirs[i].target = hist.last[i] /\ (hist.last[i] # 0 => dirs[i].meta)
        /\ Up /\ i \in known /\ i \notin hist.unsaved => dirs[i].meta /\ target[i] = hist.last[i]
        /\ i \in hist.answered => i \in hist.unsaved \/ dirs[i].meta
        /\ dirs[i].target # 0 => dirs[i].target \in hist.from[i]
        /\ target[i] # 0 => target[i] \in hist.from[i]

(***************************************************************************)
(* A request carries a route of its own instance.                          *)
(***************************************************************************)
RouteFits(s) == s.addr \in hist.from[s.id] \/ (~s.own /\ s.addr \in {deploy.static, deploy.discovered})
SendSound ==
    /\ \A t \in Threads : work[t].op = "send" => RouteFits(work[t])
    /\ \A s \in hist.sent : s.id \in Ids
    /\ RoutedHome

MockInv == /\ Typed /\ ClockSound /\ BootSound /\ KeysSound /\ RegisterSound /\ ReportSound
           /\ MembersSound /\ TargetSound /\ SendSound

(***************************************************************************)
(* The steps of the migration before it publishes: nothing that is served  *)
(* changes, and of the history only what the migration could not move.     *)
(***************************************************************************)
Migration == \/ RecoverDir \/ RestoreFile \/ Recovered \/ BeginMigration
             \/ StageFile \/ RollbackFile \/ RolledBack

Migrating == {"recover", "stage", "rollback"}

MigrateFrame ==
    /\ UNCHANGED <<deploy, instances, dirs, keyFile, known, target, reg, keys, work, tick>>
    /\ DOMAIN hist' = DOMAIN hist
    /\ \A x \in DOMAIN hist \ {"unreturned", "stale"} : hist'[x] = hist[x]
    /\ boot.pc \in Migrating /\ boot'.pc \in Migrating \cup {"scan"} /\ DOMAIN boot' = DOMAIN boot
    /\ boot'.id \in {boot.id, Legacy, deploy.legacyId}

LEMMA MigrationFrame == ASSUME Typed, Migration PROVE MigrateFrame
<1> USE DEF Typed, HistOK, BootOK, MigrateFrame, Migrating, QuietBoot, memory, files, Booting, Goto, Off
<1>1. CASE RecoverDir
  BY <1>1 DEF RecoverDir
<1>2. CASE RestoreFile
  BY <1>2 DEF RestoreFile
<1>3. CASE Recovered
  BY <1>3 DEF Recovered
<1>4. CASE BeginMigration
  BY <1>4 DEF BeginMigration
<1>5. CASE StageFile
  BY <1>5 DEF StageFile, Rollback
<1>6. CASE RollbackFile
  BY <1>6 DEF RollbackFile
<1>7. CASE RolledBack
  BY <1>7 DEF RolledBack
<1> QED  BY <1>1, <1>2, <1>3, <1>4, <1>5, <1>6, <1>7 DEF Migration

(* The operation says what the record of a handler holds. *)
LEMMA TaskShape ==
    ASSUME Typed, NEW t \in Threads
    PROVE  /\ work[t] \in Tasks
           /\ AtRegister(t) => work[t] \in Registering
           /\ work[t].op = "report" => work[t] \in Writing
           /\ work[t].op = "reset" => work[t] \in Resetting
           /\ work[t].op = "clear" => work[t] \in Clearing
           /\ work[t].op = "send" => work[t] \in Sending
<1>1. work[t] \in Tasks
  BY DEF Typed
<1> QED  BY <1>1 DEF Tasks, Registering, Writing, Resetting, Clearing, Sending, Idle, AtRegister

(* The parts of a deployment. *)
LEMMA DeployShape ==
    ASSUME deploy \in Deployments
    PROVE  /\ Legacy \in Ids /\ Ids \subseteq Nat /\ deploy.legacyId \in Ids
           /\ deploy.static \in Nat /\ deploy.discovered \in Nat
           /\ deploy.instances \in BOOLEAN /\ deploy.keys \in [Ids -> Nat]
           /\ deploy.regs \subseteq Registrations /\ deploy.reports \subseteq Bodies
           /\ deploy.legacyReg \in Records
BY MockAssumption

(***************************************************************************)
(* What getOrCreate does to the memory, whoever calls it.                  *)
(***************************************************************************)
LEMMA JoinMemory ==
    ASSUME Typed, NEW b \in Ids, NEW ok \in BOOLEAN, GetOrCreate(b, ok)
    PROVE  /\ known' = known \cup {b} /\ target' \in [Ids -> Nat] /\ reg' \in [Ids -> Records]
           /\ \A i \in Ids \ {b} : target'[i] = target[i]
           /\ target'[b] = IF b \in known THEN target[b] ELSE 0
BY DEF Typed, MemoryOK, DirOK, GetOrCreate

(* The directory after it. *)
LEMMA JoinDir ==
    ASSUME Typed, NEW b \in Ids, NEW ok \in BOOLEAN
    PROVE  /\ DirOK(Joined(b, ok)) /\ Joined(b, ok).reports = dirs[b].reports
           /\ b \in known \/ ~ok => Joined(b, ok) = dirs[b]
           /\ b \notin known /\ ok => Joined(b, ok).meta /\ Joined(b, ok).target = 0
<1>1. DirOK(dirs[b])
  BY DEF Typed
<1>2. CASE b \in known \/ ~ok
  BY <1>1, <1>2 DEF Joined
<1>3. CASE b \notin known /\ ok
  BY <1>1, <1>3 DEF Joined, DirOK, NoDir
<1> QED  BY <1>2, <1>3

(***************************************************************************)
(* A registration that arrives: m, whether it is accepted, and its bundle. *)
(***************************************************************************)
Arrives(t, m, accepted, b, later, ok) ==
    /\ m \in deploy.regs /\ accepted \in BOOLEAN /\ b \in Ids /\ later \in {0, 1} /\ ok \in BOOLEAN
    /\ IF accepted THEN m.id # Legacy /\ m.key # 0 /\ b = m.id ELSE b \in known \cup {Legacy}
    /\ Up /\ work[t] = Idle
    /\ tick' = tick + later
    /\ work' = [work EXCEPT ![t] =
                  [op |-> IF accepted THEN "target" ELSE "record", m |-> m, bundle |-> b,
                   rec |-> [received |-> TRUE, accepted |-> accepted, at |-> tick + later,
                            key |-> IF RegisterOpens(m) THEN m.key ELSE 0]]]
    /\ GetOrCreate(b, ok)
    /\ dirs' = [dirs EXCEPT ![b] = Joined(b, ok)]
    /\ hist' = [hist EXCEPT !.validated = IF accepted THEN @ \cup {<<m.id, m.key>>} ELSE @,
                            !.unsaved = UnsavedIn(b, ok)]
    /\ UNCHANGED <<deploy, root, staging, instances, keyFile, boot, keys>>

LEMMA RegisterArrives ==
    ASSUME Typed, NEW t \in Threads, Register(t)
    PROVE  \E m, accepted, b, later, ok : Arrives(t, m, accepted, b, later, ok)
<1> DEFINE acc(m) == RegisterOpens(m) /\ RegisterAccepted(m)
           to(m) == IF RegisterOpens(m) THEN BundleForRegistration(m.id, acc(m)) ELSE BundleForWrite(Legacy)
           joins(m, ok) ==
              /\ ok \/ left.faults > 0
              /\ left' = [left EXCEPT !.regs = @ - 1, !.faults = IF ok THEN @ ELSE @ - 1]
              /\ GetOrCreate(to(m), ok)
              /\ dirs' = [dirs EXCEPT ![to(m)] = Joined(to(m), ok)]
              /\ hist' = [hist EXCEPT !.validated = IF acc(m) THEN @ \cup {<<m.id, m.key>>} ELSE @,
                                      !.unsaved = UnsavedIn(to(m), ok)]
<1>0. PICK m \in deploy.regs, later \in {0, 1} :
        /\ tick' = tick + later
        /\ Step(t, [op |-> IF acc(m) THEN "target" ELSE "record", m |-> m, bundle |-> to(m),
                    rec |-> [received |-> TRUE, accepted |-> acc(m), at |-> tick + later,
                             key |-> IF RegisterOpens(m) THEN m.key ELSE 0]])
        /\ \E ok \in BOOLEAN : joins(m, ok)
  BY Zenon DEF Register
<1>1. PICK ok \in BOOLEAN : joins(m, ok)
  BY <1>0
<1> DEFINE accepted == acc(m)
           b == to(m)
<1>2. accepted \in BOOLEAN
  BY DEF RegisterOpens, RegisterAccepted
<1>3. m.id \in Ids /\ Legacy \in Ids
  BY DeployShape DEF Typed, Registrations
<1>4. /\ b \in Ids
      /\ IF accepted THEN m.id # Legacy /\ m.key # 0 /\ b = m.id ELSE b \in known \cup {Legacy}
  BY <1>3 DEF RegisterOpens, RegisterAccepted, BundleForRegistration, BundleForWrite
<1>5. Up /\ work[t] = Idle /\ UNCHANGED <<deploy, root, staging, instances, keyFile, boot, keys>>
  BY DEF Register, Free, files
<1>6. Arrives(t, m, accepted, b, later, ok)
  BY <1>0, <1>1, <1>2, <1>4, <1>5 DEF Arrives, Step
<1> QED  BY <1>6

(***************************************************************************)
(* A report that is written: its bundle.                                   *)
(***************************************************************************)
Written(t, b, ok) ==
    /\ b \in Ids /\ ok \in BOOLEAN /\ Up /\ work[t] \in Writing
    /\ b = IF work[t].id \in known THEN work[t].id ELSE Legacy
    /\ GetOrCreate(b, ok)
    /\ dirs' = [dirs EXCEPT ![b] = [Joined(b, ok) EXCEPT !.reports = Kept(<<work[t].rec>> \o @)]]
    /\ hist' = [hist EXCEPT !.unsaved = UnsavedIn(b, ok)]
    /\ work' = [work EXCEPT ![t] = Idle]
    /\ UNCHANGED <<deploy, root, staging, instances, keyFile, boot, keys, tick>>

LEMMA ReportWritten ==
    ASSUME Typed, NEW t \in Threads, WriteReport(t)
    PROVE  \E b, ok : Written(t, b, ok)
<1>1. work[t] \in Writing /\ Up
  BY TaskShape DEF WriteReport, At
<1>2. BundleForWrite(work[t].id) \in Ids
  BY <1>1, DeployShape DEF Typed, Writing, BundleForWrite
<1>3. PICK ok \in BOOLEAN : Written(t, BundleForWrite(work[t].id), ok)
  BY <1>1, <1>2 DEF WriteReport, Written, Step, files, BundleForWrite
<1> QED  BY <1>3

(***************************************************************************)
(* An address that is recorded, on file too when the write works.          *)
(***************************************************************************)
Addressed(b, a, ok) ==
    /\ target' = [target EXCEPT ![b] = a]
    /\ dirs' = IF ok THEN [dirs EXCEPT ![b].meta = TRUE, ![b].target = a] ELSE dirs
    /\ hist' = [hist EXCEPT !.from[b] = @ \cup {a}, !.last[b] = a, !.unsaved = Unsaved(b, ok)]

LEMMA TargetAddressed ==
    ASSUME Typed, NEW t \in Threads, SetTarget(t)
    PROVE  /\ Up /\ work[t].op = "target" /\ work[t] \in Registering
           /\ work[t].bundle \in Ids /\ work[t].m.addr \in Nat
           /\ work' = [work EXCEPT ![t] = [work[t] EXCEPT !.op = "record"]]
           /\ UNCHANGED <<deploy, root, staging, instances, keyFile, boot, known, reg, keys, tick>>
           /\ \/ UNCHANGED <<target, dirs, hist>>
              \/ \E ok \in BOOLEAN : Addressed(work[t].bundle, work[t].m.addr, ok)
<1>1. Up /\ work[t].op = "target" /\ work[t] \in Registering
  BY TaskShape DEF SetTarget, At, AtRegister
<1>2. work[t].bundle \in Ids /\ work[t].m.addr \in Nat
  BY <1>1 DEF Registering, Registrations
<1>3. UNCHANGED <<target, dirs, hist>> \/ \E ok \in BOOLEAN : Addressed(work[t].bundle, work[t].m.addr, ok)
  BY Zenon DEF SetTarget, Addressed
<1>4. /\ work' = [work EXCEPT ![t] = [work[t] EXCEPT !.op = "record"]]
      /\ UNCHANGED <<deploy, root, staging, instances, keyFile, boot, known, reg, keys, tick>>
  BY DEF SetTarget, Step, files
<1> QED  BY <1>1, <1>2, <1>3, <1>4

(* What that does to the directories and to the history, id by id. *)
LEMMA AddressedDirs ==
    ASSUME Typed, NEW b \in Ids, NEW a \in Nat, NEW ok \in BOOLEAN, Addressed(b, a, ok)
    PROVE  /\ DOMAIN dirs' = Ids
           /\ \A i \in Ids : ~(ok /\ i = b) => dirs'[i] = dirs[i]
           /\ ok => /\ DOMAIN dirs'[b] = DOMAIN NoDir /\ dirs'[b].meta = TRUE /\ dirs'[b].target = a
                    /\ dirs'[b].reg = dirs[b].reg /\ dirs'[b].reports = dirs[b].reports
<1>1. DOMAIN dirs = Ids /\ \A i \in Ids : DOMAIN dirs[i] = DOMAIN NoDir
  BY DEF Typed, DirOK
<1> QED  BY <1>1 DEF Addressed, NoDir

LEMMA AddressedHist ==
    ASSUME HistOK, NEW b \in Ids, NEW a \in Nat, NEW ok \in BOOLEAN, Addressed(b, a, ok)
    PROVE  /\ DOMAIN hist' = DOMAIN hist
           /\ \A x \in DOMAIN hist \ {"from", "last", "unsaved"} : hist'[x] = hist[x]
           /\ hist'.from = [hist.from EXCEPT ![b] = @ \cup {a}]
           /\ hist'.last = [hist.last EXCEPT ![b] = a]
           /\ hist'.unsaved = Unsaved(b, ok)
BY DEF HistOK, Addressed

DirsOK == DOMAIN dirs = Ids /\ \A i \in Ids : DirOK(dirs[i])

LEMMA AddressedShape ==
    ASSUME Typed, NEW b \in Ids, NEW a \in Nat, NEW ok \in BOOLEAN, Addressed(b, a, ok)
    PROVE  HistOK' /\ DirsOK'
<1>1. HistOK /\ DirsOK
  BY DEF Typed, DirsOK
<1>2. /\ DOMAIN hist' = DOMAIN hist
      /\ hist'.adopted = hist.adopted /\ hist'.answered = hist.answered
      /\ hist'.from = [hist.from EXCEPT ![b] = @ \cup {a}]
      /\ hist'.last = [hist.last EXCEPT ![b] = a]
  BY <1>1 DEF HistOK, Addressed
<1>3. HistOK'
  BY <1>1, <1>2 DEF HistOK
<1>4. DOMAIN dirs' = Ids
  BY AddressedDirs
<1>5. ASSUME NEW i \in Ids PROVE DirOK(dirs'[i])
  <2>1. CASE ~(ok /\ i = b)
    BY <1>1, <2>1, AddressedDirs DEF DirsOK
  <2>2. CASE ok /\ i = b
    <3>1. /\ DOMAIN dirs'[b] = DOMAIN NoDir /\ dirs'[b].meta = TRUE /\ dirs'[b].target = a
          /\ dirs'[b].reg = dirs[b].reg /\ dirs'[b].reports = dirs[b].reports
      BY <2>2, AddressedDirs
    <3>2. DirOK(dirs[b])
      BY <1>1 DEF DirsOK
    <3>3. DirOK(dirs'[b])
      BY <3>1, <3>2 DEF DirOK
    <3> QED  BY <2>2, <3>3
  <2> QED  BY <2>1, <2>2
<1> QED  BY <1>3, <1>4, <1>5 DEF DirsOK

(***************************************************************************)
(* A reset of one bundle: its reports on file, or its record in memory.    *)
(***************************************************************************)
LEMMA ResetBundle ==
    ASSUME Typed, NEW t \in Threads, ResetOne(t)
    PROVE  /\ Up /\ work[t] \in Resetting
           /\ UNCHANGED <<deploy, root, staging, instances, keyFile, boot, known, target, keys, tick, hist>>
           /\ \E b \in Ids :
                \/ /\ dirs' = [dirs EXCEPT ![b].reports = <<>>] /\ reg' = reg
                   /\ \/ work' = [work EXCEPT ![t] = Idle]
                      \/ work' = [work EXCEPT ![t] = [work[t] EXCEPT !.todo = @ \ {b}]]
                \/ /\ dirs' = dirs /\ reg' = [reg EXCEPT ![b] = NoRecord]
                   /\ work' = [work EXCEPT ![t] = [[work[t] EXCEPT !.todo = @ \ {b}]
                                                     EXCEPT !.op = "clear", !.bundle = b]]
<1>1. Up /\ work[t] \in Resetting
  BY TaskShape DEF ResetOne, At
<1>2. work[t].todo \subseteq Ids
  BY <1>1 DEF Resetting
<1>3. UNCHANGED <<deploy, root, staging, instances, keyFile, boot, known, target, keys, tick, hist>>
  BY DEF ResetOne, files
<1>4. PICK b \in work[t].todo :
        \/ /\ dirs' = [dirs EXCEPT ![b].reports = <<>>] /\ reg' = reg
           /\ \/ work' = [work EXCEPT ![t] = Idle]
              \/ work' = [work EXCEPT ![t] = [work[t] EXCEPT !.todo = @ \ {b}]]
        \/ /\ dirs' = dirs /\ reg' = [reg EXCEPT ![b] = NoRecord]
           /\ work' = [work EXCEPT ![t] = [[work[t] EXCEPT !.todo = @ \ {b}]
                                             EXCEPT !.op = "clear", !.bundle = b]]
  BY Zenon DEF ResetOne, Step
<1> QED  BY <1>1, <1>2, <1>3, <1>4

(***************************************************************************)
(* The legacy bundle made by a lookup, and the directory a migration       *)
(* publishes.                                                              *)
(***************************************************************************)
LEMMA LookJoins ==
    ASSUME Typed, Look
    PROVE  /\ Up /\ UNCHANGED <<deploy, root, staging, instances, keyFile, boot, keys, work, tick>>
           /\ \E ok \in BOOLEAN : /\ GetOrCreate(Legacy, ok)
                                  /\ dirs' = [dirs EXCEPT ![Legacy] = Joined(Legacy, ok)]
                                  /\ hist' = [hist EXCEPT !.unsaved = UnsavedIn(Legacy, ok)]
BY DEF Look, files

PublishedAs(saved, f) ==
    /\ dirs' = [dirs EXCEPT ![boot.id] = [NoDir EXCEPT !.meta = saved, !.files = f,
                                                       !.reg = Migrated(f)]]
    /\ hist' = IF saved THEN hist ELSE [hist EXCEPT !.unsaved = @ \cup {boot.id}]

Publishes == /\ instances' = TRUE /\ boot'.pc = "scan"
             /\ \E saved \in BOOLEAN : \E f : PublishedAs(saved, f)

LEMMA PublishDir ==
    ASSUME Typed, Publish
    PROVE  /\ boot.pc = "stage" /\ boot.id \in Ids
           /\ UNCHANGED <<deploy, keyFile, known, target, reg, keys, work, tick, root>>
           /\ DOMAIN boot' = DOMAIN boot /\ boot'.id = boot.id
           /\ \/ UNCHANGED <<instances, dirs, hist>> /\ boot'.pc = "rollback"
              \/ Publishes
<1>1. boot.pc = "stage" /\ boot.id \in Ids
  BY DeployShape DEF Publish, Booting, Typed, BootOK
<1>2. UNCHANGED <<deploy, keyFile, known, target, reg, keys, work, tick, root>>
  BY DEF Publish, QuietBoot, memory
<1>3. \/ UNCHANGED <<instances, dirs, hist>> /\ Rollback
      \/ instances' = TRUE /\ Goto("scan") /\ \E saved \in BOOLEAN : \E f : PublishedAs(saved, f)
  BY Zenon DEF Publish, PublishedAs
<1>4. (Rollback => boot'.pc = "rollback" /\ DOMAIN boot' = DOMAIN boot /\ boot'.id = boot.id)
      /\ (Goto("scan") => boot'.pc = "scan" /\ DOMAIN boot' = DOMAIN boot /\ boot'.id = boot.id)
  BY DEF Rollback, Goto, Typed, BootOK, Off
<1> QED  BY <1>1, <1>2, <1>3, <1>4 DEF Publishes

(* The start moves through its stages. *)
LEMMA BootTyped ==
    ASSUME Typed, [Next]_vars
    PROVE  BootOK'
<1> USE DEF BootOK, files, memory, At, Step, Free, Disk, Spend
<1>1. CASE Migration
  BY <1>1, MigrationFrame DEF MigrateFrame, Typed, Migrating
<1>2. CASE LoadKeys
  BY <1>2 DEF LoadKeys, Typed, Off
<1>3. CASE Publish
  BY <1>3 DEF Publish, Goto, Rollback, Typed, QuietBoot, Booting, Off
<1>4. CASE Scan
  BY <1>4 DEF Scan, Typed, Off
<1>5. CASE Look
  BY <1>5 DEF Look, Typed
<1>6. CASE Crash
  BY <1>6 DEF Crash, Typed, Off
<1>7. ASSUME NEW t \in Threads, Register(t) PROVE BootOK'
  BY <1>7 DEF Register, Typed
<1>8. ASSUME NEW t \in Threads, SetTarget(t) PROVE BootOK'
  BY <1>8 DEF SetTarget, Typed
<1>9. ASSUME NEW t \in Threads, RecordRegister(t) PROVE BootOK'
  BY <1>9 DEF RecordRegister, Typed
<1>10. ASSUME NEW t \in Threads, SaveRegister(t) PROVE BootOK'
  BY <1>10 DEF SaveRegister, Typed
<1>11. ASSUME NEW t \in Threads, AdoptKey(t) PROVE BootOK'
  BY <1>11 DEF AdoptKey, Typed
<1>12. ASSUME NEW t \in Threads, OpenReport(t) PROVE BootOK'
  BY <1>12 DEF OpenReport, Typed
<1>13. ASSUME NEW t \in Threads, WriteReport(t) PROVE BootOK'
  BY <1>13 DEF WriteReport, Typed
<1>14. ASSUME NEW t \in Threads, Reset(t) PROVE BootOK'
  BY <1>14 DEF Reset, Typed
<1>15. ASSUME NEW t \in Threads, ResetOne(t) PROVE BootOK'
  BY <1>15 DEF ResetOne, Typed
<1>16. ASSUME NEW t \in Threads, SaveReset(t) PROVE BootOK'
  BY <1>16 DEF SaveReset, Typed
<1>17. ASSUME NEW t \in Threads, Route(t) PROVE BootOK'
  BY <1>17 DEF Route, Typed
<1>18. ASSUME NEW t \in Threads, SealAndSend(t) PROVE BootOK'
  BY <1>18 DEF SealAndSend, Typed
<1>19. CASE UNCHANGED vars
  BY <1>19 DEF vars, memory, files, Typed
<1> QED
  BY <1>1, <1>2, <1>3, <1>4, <1>5, <1>6, <1>7, <1>8, <1>9, <1>10, <1>11, <1>12, <1>13, <1>14, <1>15, <1>16, <1>17, <1>18, <1>19 DEF Next, Migrate, Migration, Handle

(* Bundles and key tables keep their shapes. *)
LEMMA MemoryTyped ==
    ASSUME Typed, [Next]_vars
    PROVE  MemoryOK'
<1> USE DEF Typed, MemoryOK, files, memory, At, Step, Free, Disk, Spend
<1>1. CASE Migration
  BY <1>1, MigrationFrame DEF MigrateFrame
<1>2. CASE LoadKeys
  BY DeployShape, <1>2 DEF LoadKeys
<1>3. CASE Publish
  BY DeployShape, <1>3 DEF Publish, QuietBoot
<1>4. CASE Scan
  BY DeployShape, <1>4 DEF Scan, DirOK, NoRecord, Records
<1>5. CASE Look
  BY DeployShape, JoinMemory, JoinDir, <1>5 DEF Look, GetOrCreate, DirOK
<1>6. CASE Crash
  BY DeployShape, <1>6 DEF Crash, NoRecord, Records
<1>7. ASSUME NEW t \in Threads, Register(t) PROVE MemoryOK'
  <2>1. PICK m, accepted, b, later, ok : Arrives(t, m, accepted, b, later, ok)
    BY <1>7, RegisterArrives
  <2> QED  BY <2>1, JoinMemory, JoinDir, DeployShape DEF Arrives
<1>8. ASSUME NEW t \in Threads, SetTarget(t) PROVE MemoryOK'
  BY TaskShape, DeployShape, <1>8 DEF SetTarget, AtRegister, Registering, Registrations
<1>9. ASSUME NEW t \in Threads, RecordRegister(t) PROVE MemoryOK'
  BY TaskShape, DeployShape, <1>9 DEF RecordRegister, AtRegister, Registering
<1>10. ASSUME NEW t \in Threads, SaveRegister(t) PROVE MemoryOK'
  BY TaskShape, DeployShape, <1>10 DEF SaveRegister
<1>11. ASSUME NEW t \in Threads, AdoptKey(t) PROVE MemoryOK'
  BY TaskShape, DeployShape, <1>11 DEF AdoptKey, AtRegister, Registering, Registrations, PersistKeys
<1>12. ASSUME NEW t \in Threads, OpenReport(t) PROVE MemoryOK'
  BY TaskShape, DeployShape, <1>12 DEF OpenReport
<1>13. ASSUME NEW t \in Threads, WriteReport(t) PROVE MemoryOK'
  <2>1. PICK b, ok : Written(t, b, ok)
    BY <1>13, ReportWritten
  <2> QED  BY <2>1, JoinMemory, JoinDir, DeployShape DEF Written
<1>14. ASSUME NEW t \in Threads, Reset(t) PROVE MemoryOK'
  BY TaskShape, DeployShape, <1>14 DEF Reset
<1>15. ASSUME NEW t \in Threads, ResetOne(t) PROVE MemoryOK'
  <2>1. PICK b \in work[t].todo : reg' = reg \/ reg' = [reg EXCEPT ![b] = NoRecord]
    BY <1>15 DEF ResetOne
  <2>2. NoRecord \in Records /\ b \in Ids
    BY <1>15, TaskShape DEF NoRecord, Records, Resetting, ResetOne
  <2>3. UNCHANGED <<known, target, keys, keyFile, tick>>
    BY <1>15 DEF ResetOne
  <2> QED  BY <2>1, <2>2, <2>3
<1>16. ASSUME NEW t \in Threads, SaveReset(t) PROVE MemoryOK'
  BY TaskShape, DeployShape, <1>16 DEF SaveReset
<1>17. ASSUME NEW t \in Threads, Route(t) PROVE MemoryOK'
  BY TaskShape, DeployShape, <1>17 DEF Route
<1>18. ASSUME NEW t \in Threads, SealAndSend(t) PROVE MemoryOK'
  BY TaskShape, DeployShape, <1>18 DEF SealAndSend
<1>19. CASE UNCHANGED vars
  BY <1>19 DEF vars, memory, files
<1> QED
  BY <1>1, <1>2, <1>3, <1>4, <1>5, <1>6, <1>7, <1>8, <1>9, <1>10, <1>11, <1>12, <1>13, <1>14, <1>15, <1>16, <1>17, <1>18, <1>19 DEF Next, Migrate, Migration, Handle

(* A report history stays a sequence of reports, and gains only the new one. *)
LEMMA KeptReports ==
    ASSUME NEW r \in Reports, NEW s \in Seq(Reports)
    PROVE  /\ Kept(<<r>> \o s) \in Seq(Reports)
           /\ \A n \in DOMAIN Kept(<<r>> \o s) :
                Kept(<<r>> \o s)[n] = r \/ \E k \in DOMAIN s : Kept(<<r>> \o s)[n] = s[k]
<1> DEFINE all == <<r>> \o s
           top == IF Len(all) > HistoryCap THEN HistoryCap ELSE Len(all)
<1>1. all \in Seq(Reports) /\ Len(all) = Len(s) + 1
  OBVIOUS
<1>2. \A n \in 1..Len(all) : all[n] = IF n = 1 THEN r ELSE s[n - 1]
  OBVIOUS
<1> HIDE DEF all
<1>3. top \in Nat /\ top <= Len(all)
  BY <1>1, MockAssumption
<1>4. SubSeq(all, 1, top) \in Seq(Reports) /\ Len(SubSeq(all, 1, top)) = top
  BY <1>1, <1>3
<1>5. \A n \in 1..top : SubSeq(all, 1, top)[n] = all[n]
  BY <1>1, <1>3
<1>6. Kept(all) = SubSeq(all, 1, top)
  BY DEF Kept
<1> HIDE DEF top
<1>7. \A n \in 1..top : all[n] = r \/ \E k \in DOMAIN s : all[n] = s[k]
  <2> SUFFICES ASSUME NEW n \in 1..top, n # 1 PROVE n - 1 \in DOMAIN s /\ all[n] = s[n - 1]
    BY <1>2, <1>3
  <2> QED  BY <1>1, <1>2, <1>3
<1>8. Kept(all) \in Seq(Reports) /\ \A n \in DOMAIN Kept(all) : all[n] = Kept(all)[n] /\ n \in 1..top
  BY <1>3, <1>4, <1>5, <1>6
<1>9. \A n \in DOMAIN Kept(all) : Kept(all)[n] = r \/ \E k \in DOMAIN s : Kept(all)[n] = s[k]
  BY <1>7, <1>8
<1> QED  BY <1>8, <1>9 DEF all

(* The history keeps its shape. *)
LEMMA HistTyped ==
    ASSUME Typed, [Next]_vars
    PROVE  HistOK'
<1> USE DEF Typed, HistOK, files, memory, At, Step, Free, Disk, Spend
<1>1. CASE Migration
  BY <1>1, MigrationFrame DEF MigrateFrame
<1>2. CASE LoadKeys
  BY DeployShape, <1>2 DEF LoadKeys
<1>3. CASE Publish
  BY DeployShape, <1>3 DEF Publish, QuietBoot
<1>4. CASE Scan
  BY DeployShape, <1>4 DEF Scan
<1>5. CASE Look
  BY DeployShape, JoinMemory, JoinDir, <1>5 DEF Look
<1>6. CASE Crash
  BY DeployShape, <1>6 DEF Crash
<1>7. ASSUME NEW t \in Threads, Register(t) PROVE HistOK'
  <2>1. PICK m, accepted, b, later, ok : Arrives(t, m, accepted, b, later, ok)
    BY <1>7, RegisterArrives
  <2> QED  BY <2>1, JoinMemory, JoinDir, DeployShape DEF Arrives
<1>8. ASSUME NEW t \in Threads, SetTarget(t) PROVE HistOK'
  <2>1. work[t].bundle \in Ids /\ work[t].m.addr \in Nat
    BY <1>8, TargetAddressed
  <2>2. CASE UNCHANGED <<target, dirs, hist>>
    BY <1>8, <2>2, TargetAddressed
  <2>3. ASSUME NEW ok \in BOOLEAN, Addressed(work[t].bundle, work[t].m.addr, ok) PROVE HistOK'
    BY <1>8, <2>1, <2>3, TargetAddressed, AddressedShape
  <2> QED  BY <1>8, <2>2, <2>3, TargetAddressed
<1>9. ASSUME NEW t \in Threads, RecordRegister(t) PROVE HistOK'
  BY TaskShape, DeployShape, <1>9 DEF RecordRegister
<1>10. ASSUME NEW t \in Threads, SaveRegister(t) PROVE HistOK'
  BY TaskShape, DeployShape, <1>10 DEF SaveRegister
<1>11. ASSUME NEW t \in Threads, AdoptKey(t) PROVE HistOK'
  BY TaskShape, DeployShape, <1>11 DEF AdoptKey, AtRegister, Registering, Registrations
<1>12. ASSUME NEW t \in Threads, OpenReport(t) PROVE HistOK'
  BY TaskShape, DeployShape, <1>12 DEF OpenReport
<1>13. ASSUME NEW t \in Threads, WriteReport(t) PROVE HistOK'
  <2>1. PICK b, ok : Written(t, b, ok)
    BY <1>13, ReportWritten
  <2> QED  BY <2>1, JoinMemory, JoinDir, DeployShape DEF Written
<1>14. ASSUME NEW t \in Threads, Reset(t) PROVE HistOK'
  BY TaskShape, DeployShape, <1>14 DEF Reset
<1>15. ASSUME NEW t \in Threads, ResetOne(t) PROVE HistOK'
  BY TaskShape, DeployShape, <1>15 DEF ResetOne
<1>16. ASSUME NEW t \in Threads, SaveReset(t) PROVE HistOK'
  BY TaskShape, DeployShape, <1>16 DEF SaveReset
<1>17. ASSUME NEW t \in Threads, Route(t) PROVE HistOK'
  BY TaskShape, DeployShape, <1>17 DEF Route
<1>18. ASSUME NEW t \in Threads, SealAndSend(t) PROVE HistOK'
  BY TaskShape, DeployShape, <1>18 DEF SealAndSend
<1>19. CASE UNCHANGED vars
  BY <1>19 DEF vars, memory, files
<1> QED
  BY <1>1, <1>2, <1>3, <1>4, <1>5, <1>6, <1>7, <1>8, <1>9, <1>10, <1>11, <1>12, <1>13, <1>14, <1>15, <1>16, <1>17, <1>18, <1>19 DEF Next, Migrate, Migration, Handle

LEMMA NoDirOK ==
    ASSUME deploy \in Deployments
    PROVE  \A x \in BOOLEAN : \A f : DirOK([NoDir EXCEPT !.meta = x, !.files = f, !.reg = Migrated(f)])
<1>1. DirOK(NoDir)
  BY DEF DirOK, NoDir, NoRecord, Records
<1>2. \A f : Migrated(f) \in Records
  BY DeployShape DEF Migrated, NoRecord, Records
<1> QED  BY <1>1, <1>2 DEF DirOK, NoDir

LEMMA EmptyReports == <<>> \in Seq(Reports)
OBVIOUS

(* The directories keep their shape. *)
LEMMA DirsTyped ==
    ASSUME Typed, [Next]_vars
    PROVE  DirsOK'
<1> USE DEF Typed, DirsOK, files, memory, At, Step, Free, Disk, Spend
<1>1. CASE Migration
  BY <1>1, MigrationFrame DEF MigrateFrame
<1>2. CASE LoadKeys
  BY DeployShape, <1>2 DEF LoadKeys
<1>3. CASE Publish
  <2>1. CASE UNCHANGED <<instances, dirs, hist>> /\ boot'.pc = "rollback"
    BY <1>3, <2>1, PublishDir
  <2>2. CASE Publishes
    <3>0. PICK saved \in BOOLEAN : \E f : PublishedAs(saved, f)
      BY <2>2 DEF Publishes
    <3>1. PICK f : PublishedAs(saved, f)
      BY <3>0
    <3> QED  BY <1>3, <2>2, <3>1, PublishDir, NoDirOK DEF Publishes, PublishedAs
  <2> QED  BY <1>3, <2>1, <2>2, PublishDir
<1>4. CASE Scan
  BY DeployShape, <1>4 DEF Scan
<1>5. CASE Look
  BY <1>5, LookJoins, JoinDir, DeployShape
<1>6. CASE Crash
  BY DeployShape, <1>6 DEF Crash
<1>7. ASSUME NEW t \in Threads, Register(t) PROVE DirsOK'
  <2>1. PICK m, accepted, b, later, ok : Arrives(t, m, accepted, b, later, ok)
    BY <1>7, RegisterArrives
  <2> QED  BY <2>1, JoinMemory, JoinDir, DeployShape DEF Arrives
<1>8. ASSUME NEW t \in Threads, SetTarget(t) PROVE DirsOK'
  <2>1. work[t].bundle \in Ids /\ work[t].m.addr \in Nat
    BY <1>8, TargetAddressed
  <2>2. CASE UNCHANGED <<target, dirs, hist>>
    BY <1>8, <2>2, TargetAddressed DEF DirOK
  <2>3. ASSUME NEW ok \in BOOLEAN, Addressed(work[t].bundle, work[t].m.addr, ok) PROVE DirsOK'
    BY <1>8, <2>1, <2>3, TargetAddressed, AddressedShape DEF DirOK
  <2> QED  BY <1>8, <2>2, <2>3, TargetAddressed
<1>9. ASSUME NEW t \in Threads, RecordRegister(t) PROVE DirsOK'
  BY TaskShape, DeployShape, <1>9 DEF RecordRegister
<1>10. ASSUME NEW t \in Threads, SaveRegister(t) PROVE DirsOK'
  BY TaskShape, DeployShape, <1>10 DEF SaveRegister, AtRegister, Registering, DirOK, NoDir
<1>11. ASSUME NEW t \in Threads, AdoptKey(t) PROVE DirsOK'
  BY TaskShape, DeployShape, <1>11 DEF AdoptKey
<1>12. ASSUME NEW t \in Threads, OpenReport(t) PROVE DirsOK'
  BY TaskShape, DeployShape, <1>12 DEF OpenReport
<1>13. ASSUME NEW t \in Threads, WriteReport(t) PROVE DirsOK'
  <2>1. PICK b, ok : Written(t, b, ok)
    BY <1>13, ReportWritten
  <2> DEFINE d == Joined(b, ok)
             h == Kept(<<work[t].rec>> \o d.reports)
  <2>2. DirOK(d) /\ work[t].rec \in Reports
    BY <2>1, JoinDir DEF Written, Writing
  <2>3. h \in Seq(Reports)
    BY <2>2, KeptReports DEF DirOK
  <2>4. dirs' = [dirs EXCEPT ![b] = [d EXCEPT !.reports = h]] /\ b \in Ids
    BY <2>1 DEF Written
  <2> HIDE DEF d, h
  <2>5. DirOK([d EXCEPT !.reports = h])
    BY <2>2, <2>3 DEF DirOK, NoDir
  <2> QED  BY <2>4, <2>5
<1>14. ASSUME NEW t \in Threads, Reset(t) PROVE DirsOK'
  BY TaskShape, DeployShape, <1>14 DEF Reset
<1>15. ASSUME NEW t \in Threads, ResetOne(t) PROVE DirsOK'
  <2>1. PICK b \in Ids :
          \/ dirs' = [dirs EXCEPT ![b].reports = <<>>]
          \/ dirs' = dirs
    BY <1>15, ResetBundle
  <2>2. UNCHANGED <<deploy, instances, keyFile, boot, known, target, keys, hist>>
    BY <1>15, ResetBundle
  <2> QED  BY <2>1, <2>2, EmptyReports DEF DirOK, NoDir
<1>16. ASSUME NEW t \in Threads, SaveReset(t) PROVE DirsOK'
  <2>1. NoRecord \in Records
    BY DEF NoRecord, Records
  <2>2. work[t].bundle \in Ids
    BY <1>16, TaskShape DEF SaveReset, Clearing
  <2>3. dirs' = [dirs EXCEPT ![work[t].bundle].reg = NoRecord] \/ dirs' = dirs
    BY <1>16 DEF SaveReset
  <2> QED  BY <2>1, <2>2, <2>3 DEF DirOK, NoDir
<1>17. ASSUME NEW t \in Threads, Route(t) PROVE DirsOK'
  BY TaskShape, DeployShape, <1>17 DEF Route
<1>18. ASSUME NEW t \in Threads, SealAndSend(t) PROVE DirsOK'
  BY TaskShape, DeployShape, <1>18 DEF SealAndSend
<1>19. CASE UNCHANGED vars
  BY <1>19 DEF vars, memory, files
<1> QED
  BY <1>1, <1>2, <1>3, <1>4, <1>5, <1>6, <1>7, <1>8, <1>9, <1>10, <1>11, <1>12, <1>13, <1>14, <1>15, <1>16, <1>17, <1>18, <1>19 DEF Next, Migrate, Migration, Handle

(***************************************************************************)
(* A report that is opened, and the record made of it.                     *)
(***************************************************************************)
Opened(t, m) ==
    /\ Up /\ work[t] = Idle
    /\ work' = [work EXCEPT ![t] =
         [op |-> "report", m |-> m, id |-> IF Opens(m) THEN Identity(m) ELSE Legacy,
          rec |-> [kind |-> m.kind, plain |-> m.plain, blank |-> m.blank, key |-> m.signer,
                   accepted |-> Opens(m) /\ Accepted(m), early |-> NeverKeyed(m.hint)]]]
    /\ UNCHANGED <<deploy, root, staging, instances, dirs, keyFile, boot, known, target, reg, keys, tick, hist>>

LEMMA ReportOpened ==
    ASSUME NEW t \in Threads, OpenReport(t)
    PROVE  \E m \in deploy.reports : Opened(t, m)
<1>1. PICK m \in deploy.reports :
        Step(t, [op |-> "report", m |-> m, id |-> IF Opens(m) THEN Identity(m) ELSE Legacy,
                 rec |-> [kind |-> m.kind, plain |-> m.plain, blank |-> m.blank, key |-> m.signer,
                          accepted |-> Opens(m) /\ Accepted(m), early |-> NeverKeyed(m.hint)]])
  BY DEF OpenReport
<1>2. Up /\ work[t] = Idle
      /\ UNCHANGED <<deploy, root, staging, instances, dirs, keyFile, boot, known, target, reg, keys, tick, hist>>
  BY DEF OpenReport, Free, files, memory
<1> QED  BY <1>1, <1>2 DEF Opened, Step

LEMMA OpenedFlags ==
    ASSUME NEW m
    PROVE  (Opens(m) /\ Accepted(m)) \in BOOLEAN /\ NeverKeyed(m.hint) \in BOOLEAN
BY DEF Opens, Verified, NeverKeyed

(***************************************************************************)
(* Routing.  Every set of naturals that is not empty has a least element,  *)
(* so the order of instances has a first one: accepted before received     *)
(* before the rest, then the latest, then the smallest id.                 *)
(***************************************************************************)
LEMMA NatMin ==
    ASSUME NEW T \in SUBSET Nat, T # {}
    PROVE  \E x \in T : \A y \in T : x <= y
<1>1. PICK x \in T : \A y \in T : ~(<<y, x>> \in OpToRel(<, Nat))
  BY NatLessThanWellFounded, WFMin
<1>2. \A y \in T : y < x => <<y, x>> \in OpToRel(<, Nat)
  BY DEF OpToRel
<1>3. \A y \in T : ~(y < x)
  BY <1>1, <1>2, Zenon
<1> QED  BY <1>3

LEMMA FirstBundle ==
    ASSUME Typed, ClockSound, Real # {}
    PROVE  \E a \in Real : \A b \in Real \ {a} : Before(a, b)
<1>1. Real \subseteq Nat /\ \A a \in Real : reg[a] \in Records
  BY MockAssumption DEF Typed, MemoryOK, Real
<1>2. PICK A \in SUBSET Real : /\ A # {}
                               /\ A = {a \in Real : reg[a].accepted} \/ (A = Real /\ \A a \in Real : ~reg[a].accepted)
  BY Zenon
<1>3. PICK B \in SUBSET A : /\ B # {}
                            /\ B = {a \in A : reg[a].received} \/ (B = A /\ \A a \in A : ~reg[a].received)
  BY <1>2, Zenon
<1>4. PICK C \in SUBSET B : C # {} /\ \A a \in C : \A b \in B : reg[b].at <= reg[a].at /\ (b \notin C => reg[b].at < reg[a].at)
  <2> DEFINE T == {tick - reg[b].at : b \in B}
  <2>1. \A b \in B : reg[b].at \in Nat /\ reg[b].at <= tick
    BY <1>1, <1>2, <1>3 DEF ClockSound, Records, Real, Typed, MemoryOK
  <2>2. T \in SUBSET Nat /\ T # {}
    BY <1>3, <2>1 DEF Typed, MemoryOK
  <2>3. PICK x \in T : \A y \in T : x <= y
    BY <2>2, NatMin
  <2>4. PICK c \in B : x = tick - reg[c].at
    BY <2>3
  <2>5. \A b \in B : reg[b].at <= reg[c].at
    <3>1. \A b \in B : x <= tick - reg[b].at
      BY <2>3
    <3>2. tick \in Nat
      BY DEF Typed, MemoryOK
    <3> HIDE DEF T
    <3> QED  BY <2>1, <2>4, <3>1, <3>2
  <2> DEFINE C == {b \in B : reg[b].at = reg[c].at}
  <2> WITNESS C \in SUBSET B
  <2> QED  BY <2>1, <2>4, <2>5
<1>5. PICK a \in C : \A b \in C : a <= b
  BY <1>1, <1>2, <1>3, <1>4, NatMin
<1> QED
  <2> SUFFICES ASSUME NEW b \in Real, b # a PROVE Before(a, b)
    BY <1>2, <1>3
  <2>1. CASE b \in C
    BY <2>1, <1>1, <1>2, <1>3, <1>4, <1>5 DEF Before, Records
  <2>2. CASE b \in B \ C
    BY <2>2, <1>1, <1>2, <1>3, <1>4 DEF Before, Records
  <2>3. CASE b \in A \ B
    BY <2>3, <1>1, <1>2, <1>3 DEF Before, Records
  <2>4. CASE b \notin A
    BY <2>4, <1>1, <1>2, <1>3 DEF Before, Records
  <2> QED  BY <1>2, <1>3, <2>1, <2>2, <2>3, <2>4

LEMMA FirstOfThree ==
    ASSUME NEW x \in Nat, NEW y \in Nat, NEW z \in Nat
    PROVE  FirstOf(<<x, y, z>>) \in {x, y, z} /\ (x # 0 => FirstOf(<<x, y, z>>) = x)
<1> DEFINE addrs == <<x, y, z>>
           some == {n \in DOMAIN addrs : addrs[n] # 0}
<1>1. addrs[1] = x /\ addrs[2] = y /\ addrs[3] = z /\ DOMAIN addrs = {1, 2, 3}
  OBVIOUS
<1> HIDE DEF addrs
<1>2. some \in SUBSET Nat
  BY <1>1
<1>3. some # {} => (CHOOSE n \in some : \A k \in some : n <= k) \in some
                   /\ \A k \in some : (CHOOSE n \in some : \A j \in some : n <= j) <= k
  BY <1>2, NatMin
<1>4. FirstOf(addrs) = IF some = {} THEN 0 ELSE addrs[CHOOSE n \in some : \A k \in some : n <= k]
  BY DEF FirstOf
<1>5. CASE some = {}
  BY <1>1, <1>4, <1>5 DEF addrs
<1>6. CASE some # {}
  <2> DEFINE c == CHOOSE n \in some : \A k \in some : n <= k
  <2>1. c \in some /\ (\A k \in some : c <= k) /\ FirstOf(addrs) = addrs[c]
    BY <1>3, <1>4, <1>6
  <2> HIDE DEF c
  <2> QED  BY <1>1, <2>1 DEF addrs
<1> QED  BY <1>5, <1>6

LEMMA FirstOfTwo ==
    ASSUME NEW x \in Nat, NEW y \in Nat
    PROVE  FirstOf(<<x, y>>) \in {x, y}
<1> DEFINE addrs == <<x, y>>
           some == {n \in DOMAIN addrs : addrs[n] # 0}
<1>1. addrs[1] = x /\ addrs[2] = y /\ DOMAIN addrs = {1, 2}
  OBVIOUS
<1> HIDE DEF addrs
<1>2. some \in SUBSET Nat
  BY <1>1
<1>3. some # {} => (CHOOSE n \in some : \A k \in some : n <= k) \in some
  BY <1>2, NatMin
<1>4. FirstOf(addrs) = IF some = {} THEN 0 ELSE addrs[CHOOSE n \in some : \A k \in some : n <= k]
  BY DEF FirstOf
<1>5. CASE some = {}
  BY <1>1, <1>4, <1>5 DEF addrs
<1>6. CASE some # {}
  <2> DEFINE c == CHOOSE n \in some : \A k \in some : n <= k
  <2>1. c \in some /\ FirstOf(addrs) = addrs[c]
    BY <1>3, <1>4, <1>6
  <2> HIDE DEF c
  <2> QED  BY <1>1, <2>1 DEF addrs
<1> QED  BY <1>5, <1>6

(***************************************************************************)
(* A route that is taken: an address of that instance, or a shared one     *)
(* where the instance has none of its own to insist on.                    *)
(***************************************************************************)
Fits(to, own) ==
    /\ to.id \in Ids /\ to.addr \in Nat /\ to.addr # 0 /\ own \in BOOLEAN
    /\ \/ to.id \in known /\ to.addr = target[to.id]
       \/ to.addr \in {deploy.static, deploy.discovered}
    /\ own => /\ hist.last[to.id] # 0 /\ to.id \notin hist.unsaved /\ to.id \in known
              /\ target[to.id] # 0 => to.addr = target[to.id]

Routed(t, to, own) ==
    /\ Fits(to, own) /\ Up /\ work[t] = Idle
    /\ \E bare \in BOOLEAN :
         work' = [work EXCEPT ![t] = [op |-> "send", id |-> to.id, addr |-> to.addr, bare |-> bare,
                                      own |-> own]]
    /\ UNCHANGED <<deploy, root, staging, instances, dirs, keyFile, boot, known, target, reg, keys, tick, hist>>

Insists(to) == /\ Cardinality(Real) > 1 /\ hist.last[to.id] # 0
               /\ to.id \notin hist.unsaved

LEMMA TargetFits ==
    ASSUME Typed, ClockSound, NEW i \in Ids, TargetFor(i).id # None, TargetFor(i).addr # 0
    PROVE  Fits(TargetFor(i), Insists(TargetFor(i)))
<1> DEFINE b == IF i # Legacy THEN i ELSE DefaultBundle
           alone == Cardinality(Real) <= 1 /\ deploy.static # 0
<1>1. deploy.static \in Nat /\ deploy.discovered \in Nat /\ Legacy \in Ids
  BY DeployShape DEF Typed
<1>2. Cardinality(Real) \in Nat /\ (Real = {} => Cardinality(Real) = 0)
  BY MockAssumption, FS_Subset, FS_CardinalityType, FS_EmptySet DEF Real, Typed, MemoryOK
<1>3. target \in [Ids -> Nat] /\ known \subseteq Ids
  BY DEF Typed, MemoryOK
<1>4. CASE i # Legacy /\ i \notin known
  BY <1>4 DEF TargetFor
<1>5. CASE ~(i # Legacy /\ i \notin known) /\ b = None
  <2>1. Real = {} /\ i = Legacy
    <3>1. i \in Nat
      BY MockAssumption
    <3>2. i = Legacy
      BY <1>5, <3>1 DEF None
    <3>3. DefaultBundle = None
      BY <1>5, <3>2
    <3>4. Real # {} => DefaultBundle \in Real
      BY FirstBundle DEF DefaultBundle
    <3>5. Real \subseteq Nat
      BY <1>3, MockAssumption DEF Real
    <3> QED  BY <3>2, <3>3, <3>4, <3>5 DEF None
  <2>2. TargetFor(i) = [id |-> Legacy, addr |-> FirstOf(<<deploy.static, deploy.discovered>>)]
    BY <1>5 DEF TargetFor
  <2>3. FirstOf(<<deploy.static, deploy.discovered>>) \in {deploy.static, deploy.discovered}
    BY <1>1, FirstOfTwo
  <2> QED  BY <1>1, <1>2, <2>1, <2>2, <2>3 DEF Fits, Insists
<1>6. CASE ~(i # Legacy /\ i \notin known) /\ b # None
  <2> DEFINE a == IF alone THEN deploy.static
                  ELSE FirstOf(<<target[b], deploy.static, deploy.discovered>>)
  <2>1. b \in known
    <3>1. CASE i # Legacy
      BY <1>6, <3>1
    <3>2. CASE i = Legacy /\ Real # {}
      <4>1. DefaultBundle \in Real
        BY <3>2, FirstBundle DEF DefaultBundle
      <4> QED  BY <3>2, <4>1 DEF Real
    <3>3. CASE i = Legacy /\ Real = {}
      <4>1. known # {}
        BY <1>6, <3>3 DEF DefaultBundle
      <4>2. Legacy \in known /\ b = Legacy
        BY <3>3, <4>1 DEF Real, DefaultBundle
      <4> QED  BY <4>2
    <3> QED  BY <3>1, <3>2, <3>3
  <2>2. TargetFor(i) = [id |-> b, addr |-> a]
    BY <1>6 DEF TargetFor
  <2> HIDE DEF b
  <2>3. target[b] \in Nat /\ b \in Ids
    BY <1>3, <2>1
  <2>4. /\ FirstOf(<<target[b], deploy.static, deploy.discovered>>)
             \in {target[b], deploy.static, deploy.discovered}
        /\ target[b] # 0 => FirstOf(<<target[b], deploy.static, deploy.discovered>>) = target[b]
    BY <1>1, <2>3, FirstOfThree
  <2>5. a \in {target[b], deploy.static, deploy.discovered}
    BY <2>4
  <2>6. Cardinality(Real) > 1 /\ target[b] # 0 => a = target[b]
    BY <1>2, <2>4
  <2> HIDE DEF a
  <2>7. Insists(TargetFor(i)) \in BOOLEAN
    BY DEF Insists
  <2> QED  BY <1>1, <2>1, <2>2, <2>3, <2>5, <2>6, <2>7 DEF Fits, Insists
<1> QED  BY <1>4, <1>5, <1>6

LEMMA RouteTaken ==
    ASSUME Typed, ClockSound, NEW t \in Threads, Route(t)
    PROVE  \E to, own : Routed(t, to, own)
<1>1. PICK i \in Ids, bare \in BOOLEAN :
                          /\ TargetFor(i).id # None /\ TargetFor(i).addr # 0
                       /\ work' = [work EXCEPT ![t] = [op |-> "send", id |-> TargetFor(i).id,
                                     addr |-> TargetFor(i).addr, bare |-> bare, own |-> Insists(TargetFor(i))]]
  BY Zenon DEF Route, Step, Insists
<1>2. Fits(TargetFor(i), Insists(TargetFor(i)))
  BY <1>1, TargetFits
<1>3. Up /\ work[t] = Idle
      /\ UNCHANGED <<deploy, root, staging, instances, dirs, keyFile, boot, known, target, reg, keys, tick, hist>>
  BY DEF Route, Free, files, memory
<1> QED  BY <1>1, <1>2, <1>3 DEF Routed

WorkOK == deploy \in Deployments /\ work \in [Threads -> Tasks]

LEMMA IdleTask == Idle \in Tasks
BY DEF Tasks

(* Handlers keep their shapes. *)
LEMMA WorkTyped ==
    ASSUME Typed, ClockSound, [Next]_vars
    PROVE  WorkOK'
<1> USE DEF Typed, WorkOK, files, memory, At, Step, Free, Disk, Spend
<1>1. CASE Migration
  BY <1>1, MigrationFrame DEF MigrateFrame
<1>2. CASE LoadKeys
  BY <1>2 DEF LoadKeys
<1>3. CASE Publish
  BY <1>3, PublishDir
<1>4. CASE Scan
  BY <1>4 DEF Scan
<1>5. CASE Look
  BY <1>5 DEF Look
<1>6. CASE Crash
  BY IdleTask, <1>6 DEF Crash
<1>7. ASSUME NEW t \in Threads, Register(t) PROVE WorkOK'
  <2>1. PICK m, accepted, b, later, ok : Arrives(t, m, accepted, b, later, ok)
    BY <1>7, RegisterArrives
  <2> DEFINE rec == [received |-> TRUE, accepted |-> accepted, at |-> tick + later,
                     key |-> IF RegisterOpens(m) THEN m.key ELSE 0]
             w == [op |-> IF accepted THEN "target" ELSE "record", m |-> m, bundle |-> b, rec |-> rec]
  <2>2. m \in Registrations
    BY <2>1, DeployShape DEF Arrives
  <2>3. rec \in Records
    BY <2>1, <2>2 DEF Arrives, Records, Registrations, MemoryOK
  <2> HIDE DEF rec
  <2>4. w \in Registering
    BY <2>1, <2>2, <2>3 DEF Arrives, Registering
  <2>5. work' = [work EXCEPT ![t] = w] /\ UNCHANGED deploy
    BY <2>1 DEF Arrives, rec
  <2> HIDE DEF w
  <2> QED  BY <2>4, <2>5 DEF Tasks
<1>8. ASSUME NEW t \in Threads, SetTarget(t) PROVE WorkOK'
  <2>1. [work[t] EXCEPT !.op = "record"] \in Registering
    BY <1>8, TargetAddressed DEF Registering
  <2> QED  BY <1>8, <2>1, TargetAddressed DEF Tasks
<1>9. ASSUME NEW t \in Threads, RecordRegister(t) PROVE WorkOK'
  <2>1. [work[t] EXCEPT !.op = "save"] \in Registering
    BY <1>9, TaskShape DEF RecordRegister, Registering, AtRegister
  <2> QED  BY <1>9, <2>1 DEF RecordRegister, Tasks
<1>10. ASSUME NEW t \in Threads, SaveRegister(t) PROVE WorkOK'
  <2>1. [work[t] EXCEPT !.op = "adopt"] \in Registering
    BY <1>10, TaskShape DEF SaveRegister, Registering, AtRegister
  <2> QED  BY <1>10, <2>1, IdleTask DEF SaveRegister, Tasks
<1>11. ASSUME NEW t \in Threads, AdoptKey(t) PROVE WorkOK'
  <2>1. work[t] \in Registering
    BY <1>11, TaskShape DEF AdoptKey, AtRegister
  <2>2. [work[t].rec EXCEPT !.accepted = FALSE] \in Records
    BY <2>1 DEF Registering, Records
  <2>3. [work[t] EXCEPT !.op = "record", !.rec.accepted = FALSE] \in Registering
    BY <2>1, <2>2 DEF Registering
  <2> QED  BY <1>11, <2>3, IdleTask DEF AdoptKey, Tasks
<1>12. ASSUME NEW t \in Threads, OpenReport(t) PROVE WorkOK'
  <2>1. PICK m \in deploy.reports : Opened(t, m)
    BY <1>12, ReportOpened
  <2>2. m \in Bodies /\ Legacy \in Ids
    BY DeployShape
  <2> DEFINE rec == [kind |-> m.kind, plain |-> m.plain, blank |-> m.blank, key |-> m.signer,
                     accepted |-> Opens(m) /\ Accepted(m), early |-> NeverKeyed(m.hint)]
             w == [op |-> "report", m |-> m, id |-> IF Opens(m) THEN Identity(m) ELSE Legacy, rec |-> rec]
  <2>3. rec \in Reports
    BY <2>2, OpenedFlags DEF Reports, Bodies
  <2>4. (IF Opens(m) THEN Identity(m) ELSE Legacy) \in Ids
    BY <2>2 DEF Identity, Bodies
  <2> HIDE DEF rec
  <2>5. w \in Writing
    BY <2>2, <2>3, <2>4 DEF Writing
  <2>6. work' = [work EXCEPT ![t] = w] /\ UNCHANGED deploy
    BY <2>1 DEF Opened, rec
  <2> HIDE DEF w
  <2> QED  BY <2>5, <2>6 DEF Tasks
<1>13. ASSUME NEW t \in Threads, WriteReport(t) PROVE WorkOK'
  BY <1>13, IdleTask DEF WriteReport
<1>14. ASSUME NEW t \in Threads, Reset(t) PROVE WorkOK'
  <2>1. PICK bs \in SUBSET Ids, what \in {"register", "reports"} :
          work' = [work EXCEPT ![t] = [op |-> "reset", todo |-> bs, what |-> what, bundle |-> None]]
    BY <1>14 DEF Reset, Real, MemoryOK
  <2>2. [op |-> "reset", todo |-> bs, what |-> what, bundle |-> None] \in Resetting
    BY DEF Resetting
  <2>3. UNCHANGED deploy
    BY <1>14 DEF Reset
  <2> QED  BY <2>1, <2>2, <2>3 DEF Tasks
<1>15. ASSUME NEW t \in Threads, ResetOne(t) PROVE WorkOK'
  <2>1. work[t] \in Resetting /\ UNCHANGED deploy
    BY <1>15, ResetBundle
  <2>2. PICK b \in Ids : \/ work' = [work EXCEPT ![t] = Idle]
                        \/ work' = [work EXCEPT ![t] = [work[t] EXCEPT !.todo = work[t].todo \ {b}]]
                        \/ work' = [work EXCEPT ![t] = [[work[t] EXCEPT !.todo = work[t].todo \ {b}]
                                                          EXCEPT !.op = "clear", !.bundle = b]]
    BY <1>15, ResetBundle
  <2>3. [work[t] EXCEPT !.todo = work[t].todo \ {b}] \in Resetting
    BY <2>1 DEF Resetting
  <2>4. [[work[t] EXCEPT !.todo = work[t].todo \ {b}] EXCEPT !.op = "clear", !.bundle = b] \in Clearing
    BY <2>3 DEF Resetting, Clearing
  <2> QED  BY <2>1, <2>2, <2>3, <2>4, IdleTask DEF Tasks
<1>16. ASSUME NEW t \in Threads, SaveReset(t) PROVE WorkOK'
  <2>1. [work[t] EXCEPT !.op = "reset"] \in Resetting
    BY <1>16, TaskShape DEF SaveReset, Clearing, Resetting
  <2> QED  BY <1>16, <2>1, IdleTask DEF SaveReset, Tasks
<1>17. ASSUME NEW t \in Threads, Route(t) PROVE WorkOK'
  <2>1. PICK to, own : Routed(t, to, own)
    BY <1>17, RouteTaken
  <2>2. PICK bare \in BOOLEAN :
          work' = [work EXCEPT ![t] = [op |-> "send", id |-> to.id, addr |-> to.addr, bare |-> bare,
                                       own |-> own]]
    BY <2>1 DEF Routed
  <2>3. [op |-> "send", id |-> to.id, addr |-> to.addr, bare |-> bare, own |-> own] \in Sending
    BY <2>1 DEF Routed, Fits, Sending
  <2> QED  BY <2>1, <2>2, <2>3 DEF Routed, Tasks
<1>18. ASSUME NEW t \in Threads, SealAndSend(t) PROVE WorkOK'
  BY IdleTask, <1>18 DEF SealAndSend
<1>19. CASE UNCHANGED vars
  BY <1>19 DEF vars, memory, files
<1> QED
  BY <1>1, <1>2, <1>3, <1>4, <1>5, <1>6, <1>7, <1>8, <1>9, <1>10, <1>11, <1>12, <1>13, <1>14, <1>15, <1>16, <1>17, <1>18, <1>19 DEF Next, Migrate, Migration, Handle

(***************************************************************************)
(* The same steps read id by id and handler by handler, for the parts of   *)
(* the invariant that speak about one id or one handler at a time.         *)
(***************************************************************************)
OthersKeep(t) == \A u \in Threads : u # t => work'[u] = work[u]

HistKeeps == /\ hist'.adopted = hist.adopted /\ hist'.answered = hist.answered
             /\ hist'.from = hist.from /\ hist'.last = hist.last /\ hist'.sent = hist.sent

Joins(b, ok) ==
    /\ b \in Ids /\ ok \in BOOLEAN /\ (b \in known => ok)
    /\ Up /\ UNCHANGED <<deploy, instances, keyFile, boot, keys>>
    /\ known' = known \cup {b}
    /\ \A i \in Ids : i # b => target'[i] = target[i] /\ reg'[i] = reg[i] /\ dirs'[i] = dirs[i]
    /\ target'[b] = IF b \in known THEN target[b] ELSE 0
    /\ reg'[b] = IF b \in known THEN reg[b] ELSE dirs[b].reg
    /\ dirs'[b].reg = dirs[b].reg
    /\ b \in known \/ ~ok => dirs'[b].meta = dirs[b].meta /\ dirs'[b].target = dirs[b].target
    /\ b \notin known /\ ok => dirs'[b].meta /\ dirs'[b].target = 0
    /\ HistKeeps /\ hist'.unsaved = UnsavedIn(b, ok)

SameReports == \A i \in Ids : dirs'[i].reports = dirs[i].reports

Enters(t, m, accepted, b, later) ==
    /\ m \in Registrations /\ accepted \in BOOLEAN /\ later \in {0, 1}
    /\ IF accepted THEN m.id # Legacy /\ m.key # 0 /\ b = m.id ELSE b \in known \cup {Legacy}
    /\ work[t] = Idle /\ tick' = tick + later
    /\ OthersKeep(t) /\ SameReports
    /\ work'[t].op = IF accepted THEN "target" ELSE "record"
    /\ work'[t].m = m /\ work'[t].bundle = b
    /\ work'[t].rec.accepted = accepted /\ work'[t].rec.at = tick + later
    /\ hist'.validated = IF accepted THEN hist.validated \cup {<<m.id, m.key>>} ELSE hist.validated

(* The directory that is joined. *)
LEMMA JoinFrame ==
    ASSUME Typed, NEW b \in Ids, NEW ok \in BOOLEAN, GetOrCreate(b, ok)
    PROVE  /\ b \in known => ok
           /\ known' = known \cup {b}
           /\ \A i \in Ids : i # b => target'[i] = target[i] /\ reg'[i] = reg[i]
           /\ target'[b] = IF b \in known THEN target[b] ELSE 0
           /\ reg'[b] = IF b \in known THEN reg[b] ELSE dirs[b].reg
           /\ Joined(b, ok).reg = dirs[b].reg /\ Joined(b, ok).reports = dirs[b].reports
           /\ b \in known \/ ~ok => Joined(b, ok) = dirs[b]
           /\ b \notin known /\ ok => Joined(b, ok).meta /\ Joined(b, ok).target = 0
<1>1. DirOK(dirs[b]) /\ MemoryOK
  BY DEF Typed
<1>2. Joined(b, ok).reg = dirs[b].reg
  BY <1>1 DEF Joined, DirOK, NoDir
<1> QED  BY <1>1, <1>2, JoinDir DEF GetOrCreate, MemoryOK

LEMMA LookFrame ==
    ASSUME Typed, Look
    PROVE  \E ok : Joins(Legacy, ok) /\ SameReports /\ UNCHANGED <<work, tick>> /\ hist'.validated = hist.validated
<1>1. PICK ok \in BOOLEAN : /\ GetOrCreate(Legacy, ok)
                            /\ dirs' = [dirs EXCEPT ![Legacy] = Joined(Legacy, ok)]
                            /\ hist' = [hist EXCEPT !.unsaved = UnsavedIn(Legacy, ok)]
  BY LookJoins
<1>2. Legacy \in Ids /\ DOMAIN dirs = Ids /\ HistOK
  BY DeployShape DEF Typed
<1>3. Up /\ UNCHANGED <<deploy, instances, keyFile, boot, keys, work, tick>>
  BY LookJoins
<1>4. HistKeeps /\ hist'.unsaved = UnsavedIn(Legacy, ok) /\ hist'.validated = hist.validated
  BY <1>1, <1>2 DEF HistKeeps, HistOK
<1>5. dirs'[Legacy] = Joined(Legacy, ok) /\ \A i \in Ids : i # Legacy => dirs'[i] = dirs[i]
  BY <1>1, <1>2
<1>6. Joins(Legacy, ok) /\ SameReports
  BY <1>1, <1>2, <1>3, <1>4, <1>5, JoinFrame DEF Joins, SameReports
<1> QED  BY <1>3, <1>4, <1>6

LEMMA RegisterFrame ==
    ASSUME Typed, NEW t \in Threads, Register(t)
    PROVE  \E m, accepted, b, later, ok : Joins(b, ok) /\ Enters(t, m, accepted, b, later)
<1>1. PICK m, accepted, b, later, ok : Arrives(t, m, accepted, b, later, ok)
  BY RegisterArrives
<1>2. DOMAIN dirs = Ids /\ HistOK /\ DOMAIN work = Threads /\ m \in Registrations
  BY <1>1, DeployShape DEF Typed, Arrives
<1>3. Up /\ UNCHANGED <<deploy, instances, keyFile, boot, keys>> /\ b \in Ids /\ ok \in BOOLEAN
  BY <1>1 DEF Arrives
<1>4. /\ HistKeeps /\ hist'.unsaved = UnsavedIn(b, ok)
      /\ hist'.validated = IF accepted THEN hist.validated \cup {<<m.id, m.key>>} ELSE hist.validated
  BY <1>1, <1>2 DEF HistKeeps, HistOK, Arrives
<1>5. GetOrCreate(b, ok) /\ dirs'[b] = Joined(b, ok) /\ \A i \in Ids : i # b => dirs'[i] = dirs[i]
  BY <1>1, <1>2 DEF Arrives
<1>6. Joins(b, ok) /\ SameReports
  BY <1>3, <1>4, <1>5, JoinFrame DEF Joins, SameReports
<1>7. /\ OthersKeep(t) /\ work'[t].op = IF accepted THEN "target" ELSE "record"
      /\ work'[t].m = m /\ work'[t].bundle = b
      /\ work'[t].rec.accepted = accepted /\ work'[t].rec.at = tick + later
  BY <1>1, <1>2 DEF Arrives, OthersKeep
<1>8. Enters(t, m, accepted, b, later)
  BY <1>1, <1>2, <1>4, <1>6, <1>7 DEF Arrives, Enters
<1> QED  BY <1>6, <1>8

Writes(t, b) ==
    /\ work[t] \in Writing /\ b = IF work[t].id \in known THEN work[t].id ELSE Legacy
    /\ OthersKeep(t) /\ work'[t] = Idle
    /\ \A i \in Ids : i # b => dirs'[i].reports = dirs[i].reports
    /\ \A n \in DOMAIN dirs'[b].reports :
          dirs'[b].reports[n] = work[t].rec \/ \E k \in DOMAIN dirs[b].reports : dirs'[b].reports[n] = dirs[b].reports[k]
    /\ tick' = tick /\ hist'.validated = hist.validated

LEMMA WriteFrame ==
    ASSUME Typed, NEW t \in Threads, WriteReport(t)
    PROVE  \E b, ok : Joins(b, ok) /\ Writes(t, b)
<1>1. PICK b, ok : Written(t, b, ok)
  BY ReportWritten
<1>2. DOMAIN dirs = Ids /\ HistOK /\ DOMAIN work = Threads
  BY DEF Typed
<1>3. /\ Up /\ UNCHANGED <<deploy, instances, keyFile, boot, keys, tick>> /\ b \in Ids /\ ok \in BOOLEAN
      /\ work[t] \in Writing /\ b = IF work[t].id \in known THEN work[t].id ELSE Legacy
  BY <1>1 DEF Written
<1>4. HistKeeps /\ hist'.unsaved = UnsavedIn(b, ok) /\ hist'.validated = hist.validated
  BY <1>1, <1>2 DEF HistKeeps, HistOK, Written
<1> DEFINE d == Joined(b, ok)
           h == Kept(<<work[t].rec>> \o d.reports)
<1>5. DirOK(d) /\ d.reports = dirs[b].reports /\ work[t].rec \in Reports
  BY <1>3, JoinDir DEF Writing
<1>6. GetOrCreate(b, ok) /\ dirs'[b] = [d EXCEPT !.reports = h] /\ \A i \in Ids : i # b => dirs'[i] = dirs[i]
  BY <1>1, <1>2, <1>3 DEF Written
<1>7. \A n \in DOMAIN h : h[n] = work[t].rec \/ \E k \in DOMAIN d.reports : h[n] = d.reports[k]
  BY <1>5, KeptReports DEF DirOK
<1>8. /\ d.reg = dirs[b].reg
      /\ b \in known \/ ~ok => d = dirs[b]
      /\ b \notin known /\ ok => d.meta /\ d.target = 0
  BY <1>3, <1>6, JoinFrame
<1> HIDE DEF d, h
<1>9. /\ dirs'[b].reports = h /\ dirs'[b].reg = d.reg /\ dirs'[b].meta = d.meta /\ dirs'[b].target = d.target
  BY <1>5, <1>6 DEF DirOK, NoDir
<1>10. Joins(b, ok)
  BY <1>3, <1>4, <1>6, <1>8, <1>9, JoinFrame DEF Joins
<1>11. OthersKeep(t) /\ work'[t] = Idle
  BY <1>1, <1>2 DEF Written, OthersKeep
<1>12. \A i \in Ids : i # b => dirs'[i].reports = dirs[i].reports
  BY <1>6
<1>13. \A n \in DOMAIN dirs'[b].reports :
          dirs'[b].reports[n] = work[t].rec \/ \E k \in DOMAIN dirs[b].reports : dirs'[b].reports[n] = dirs[b].reports[k]
  BY <1>5, <1>7, <1>9
<1>14. Writes(t, b)
  BY <1>3, <1>4, <1>11, <1>12, <1>13 DEF Writes
<1> QED  BY <1>10, <1>14

TargetDone(t) ==
    /\ Up /\ work[t] \in Registering /\ work[t].op = "target" /\ OthersKeep(t)
    /\ work'[t].op = "record" /\ work'[t].m = work[t].m /\ work'[t].bundle = work[t].bundle
    /\ work'[t].rec = work[t].rec
    /\ UNCHANGED <<deploy, instances, keyFile, boot, known, reg, keys, tick>>

Addresses(b, a, ok) ==
    /\ b \in Ids /\ a \in Nat /\ ok \in BOOLEAN
    /\ \A i \in Ids : i # b => /\ target'[i] = target[i] /\ dirs'[i] = dirs[i]
                               /\ hist'.from[i] = hist.from[i] /\ hist'.last[i] = hist.last[i]
    /\ target'[b] = a /\ hist'.last[b] = a /\ hist'.from[b] = hist.from[b] \cup {a}
    /\ dirs'[b].reg = dirs[b].reg /\ dirs'[b].reports = dirs[b].reports
    /\ ok => dirs'[b].meta /\ dirs'[b].target = a
    /\ ~ok => dirs'[b] = dirs[b]
    /\ hist'.unsaved = Unsaved(b, ok)
    /\ hist'.adopted = hist.adopted /\ hist'.answered = hist.answered
    /\ hist'.sent = hist.sent /\ hist'.validated = hist.validated

LEMMA TargetFrame ==
    ASSUME Typed, NEW t \in Threads, SetTarget(t)
    PROVE  /\ TargetDone(t)
           /\ \/ UNCHANGED <<target, dirs, hist>>
              \/ \E ok : Addresses(work[t].bundle, work[t].m.addr, ok)
<1>1. TargetDone(t)
  <2>1. DOMAIN work = Threads
    BY DEF Typed
  <2>2. [work[t] EXCEPT !.op = "record"].op = "record"
        /\ [work[t] EXCEPT !.op = "record"].m = work[t].m
        /\ [work[t] EXCEPT !.op = "record"].bundle = work[t].bundle
        /\ [work[t] EXCEPT !.op = "record"].rec = work[t].rec
    BY TargetAddressed DEF Registering
  <2> QED  BY <2>1, <2>2, TargetAddressed DEF TargetDone, OthersKeep
<1>2. ASSUME NEW ok \in BOOLEAN, Addressed(work[t].bundle, work[t].m.addr, ok)
      PROVE  Addresses(work[t].bundle, work[t].m.addr, ok)
  <2> DEFINE b == work[t].bundle
             a == work[t].m.addr
  <2>1. b \in Ids /\ a \in Nat
    BY TargetAddressed
  <2>2. HistOK /\ MemoryOK
    BY DEF Typed
  <2>3. Addressed(b, a, ok)
    BY <1>2
  <2> HIDE DEF a, b
  <2>4. /\ \A i \in Ids : i # b => dirs'[i] = dirs[i]
        /\ dirs'[b].reg = dirs[b].reg /\ dirs'[b].reports = dirs[b].reports
        /\ ok => dirs'[b].meta /\ dirs'[b].target = a
        /\ ~ok => dirs'[b] = dirs[b]
    BY <2>1, <2>3, AddressedDirs
  <2>5. /\ hist'.from = [hist.from EXCEPT ![b] = @ \cup {a}]
        /\ hist'.last = [hist.last EXCEPT ![b] = a]
        /\ hist'.unsaved = Unsaved(b, ok)
        /\ hist'.adopted = hist.adopted /\ hist'.answered = hist.answered
        /\ hist'.sent = hist.sent /\ hist'.validated = hist.validated
    BY <2>1, <2>2, <2>3 DEF HistOK, Addressed
  <2>6. target'[b] = a /\ \A i \in Ids : i # b => target'[i] = target[i]
    BY <2>1, <2>2, <2>3 DEF Addressed, MemoryOK
  <2>7. /\ hist'.from[b] = hist.from[b] \cup {a} /\ hist'.last[b] = a
        /\ \A i \in Ids : i # b => hist'.from[i] = hist.from[i] /\ hist'.last[i] = hist.last[i]
    BY <2>1, <2>2, <2>5 DEF HistOK
  <2>8. Addresses(b, a, ok)
    BY <2>1, <2>4, <2>5, <2>6, <2>7 DEF Addresses
  <2> QED  BY <2>8 DEF a, b
<1> QED  BY <1>1, <1>2, TargetAddressed

Saves(t) ==
    /\ Up /\ work[t] \in Registering /\ work[t].op = "save" /\ OthersKeep(t)
    /\ \/ work'[t] = Idle
       \/ /\ work[t].rec.accepted /\ work'[t].op = "adopt" /\ work'[t].m = work[t].m
          /\ work'[t].bundle = work[t].bundle /\ work'[t].rec = work[t].rec
    /\ \A i \in Ids : /\ dirs'[i].meta = dirs[i].meta /\ dirs'[i].target = dirs[i].target
                      /\ dirs'[i].reports = dirs[i].reports
                      /\ dirs'[i].reg = dirs[i].reg \/ dirs'[i].reg = work[t].rec
    /\ UNCHANGED <<deploy, instances, keyFile, boot, known, target, reg, keys, tick, hist>>

LEMMA SaveFrame ==
    ASSUME Typed, NEW t \in Threads, SaveRegister(t)
    PROVE  Saves(t)
<1>1. work[t] \in Registering /\ work[t].op = "save" /\ Up
  BY TaskShape DEF SaveRegister, At, AtRegister
<1>2. work[t].bundle \in Ids /\ DOMAIN work = Threads /\ DOMAIN dirs = Ids /\ DirOK(dirs[work[t].bundle])
  BY <1>1 DEF Typed, Registering
<1>3. dirs' = [dirs EXCEPT ![work[t].bundle].reg = work[t].rec] \/ dirs' = dirs
  BY DEF SaveRegister
<1>4. \A i \in Ids : /\ dirs'[i].meta = dirs[i].meta /\ dirs'[i].target = dirs[i].target
                     /\ dirs'[i].reports = dirs[i].reports
                     /\ dirs'[i].reg = dirs[i].reg \/ dirs'[i].reg = work[t].rec
  BY <1>2, <1>3 DEF DirOK, NoDir
<1>5. work' = [work EXCEPT ![t] = IF work[t].rec.accepted THEN [work[t] EXCEPT !.op = "adopt"] ELSE Idle]
      /\ UNCHANGED <<deploy, instances, keyFile, boot, known, target, reg, keys, tick, hist>>
  BY DEF SaveRegister, Step, files, memory
<1>6. /\ OthersKeep(t)
      /\ \/ work'[t] = Idle
         \/ /\ work[t].rec.accepted /\ work'[t].op = "adopt" /\ work'[t].m = work[t].m
            /\ work'[t].bundle = work[t].bundle /\ work'[t].rec = work[t].rec
  BY <1>1, <1>2, <1>5 DEF OthersKeep, Registering
<1> QED  BY <1>1, <1>4, <1>5, <1>6 DEF Saves

Adopts(t, ok) ==
    /\ Up /\ work[t] \in Registering /\ work[t].op = "adopt" /\ OthersKeep(t) /\ ok \in BOOLEAN
    /\ ok => work'[t] = Idle
    /\ ~ok => /\ work'[t].op = "record" /\ work'[t].bundle = work[t].bundle
              /\ work'[t].rec.accepted = FALSE /\ work'[t].rec.at = work[t].rec.at
    /\ keys'[work[t].m.id] = work[t].m.key
    /\ \A i \in Ids : i # work[t].m.id => keys'[i] = keys[i] /\ hist'.adopted[i] = hist.adopted[i]
    /\ hist'.adopted[work[t].m.id] = hist.adopted[work[t].m.id] \cup {work[t].m.key}
    /\ ok => keyFile' = keys' /\ hist'.answered = hist.answered \cup {work[t].m.id}
    /\ ~ok => keyFile' = keyFile /\ hist'.answered = hist.answered
    /\ hist'.from = hist.from /\ hist'.last = hist.last /\ hist'.sent = hist.sent
    /\ hist'.validated = hist.validated /\ hist'.unsaved = hist.unsaved
    /\ UNCHANGED <<deploy, instances, dirs, boot, known, target, reg, tick>>

LEMMA AdoptFrame ==
    ASSUME Typed, NEW t \in Threads, AdoptKey(t)
    PROVE  \E ok : Adopts(t, ok)
<1> DEFINE w == work[t]
           m == work[t].m
<1>1. w \in Registering /\ w.op = "adopt" /\ Up
  BY TaskShape DEF AdoptKey, At, AtRegister
<1>2. m.id \in Ids /\ w.rec \in Records /\ DOMAIN work = Threads /\ HistOK /\ DOMAIN keys = Ids
  BY <1>1 DEF Typed, MemoryOK, Registering, Registrations
<1>3. PICK ok \in BOOLEAN :
        /\ PersistKeys(ok)
        /\ Step(t, IF ok THEN Idle ELSE [work[t] EXCEPT !.op = "record", !.rec.accepted = FALSE])
        /\ hist' = [hist EXCEPT !.adopted[m.id] = @ \cup {m.key},
                                !.answered = IF ok THEN @ \cup {m.id} ELSE @]
  BY Zenon DEF AdoptKey
<1>4. keys' = [keys EXCEPT ![m.id] = m.key] /\ UNCHANGED <<deploy, instances, dirs, boot, known, target, reg, tick>>
  BY DEF AdoptKey, files
<1>5. /\ hist'.adopted = [hist.adopted EXCEPT ![m.id] = @ \cup {m.key}]
      /\ hist'.answered = IF ok THEN hist.answered \cup {m.id} ELSE hist.answered
      /\ hist'.from = hist.from /\ hist'.last = hist.last /\ hist'.sent = hist.sent
      /\ hist'.validated = hist.validated /\ hist'.unsaved = hist.unsaved
  BY <1>2, <1>3 DEF HistOK
<1>6. /\ \A i \in Ids : i # m.id => keys'[i] = keys[i] /\ hist'.adopted[i] = hist.adopted[i]
      /\ keys'[m.id] = m.key /\ hist'.adopted[m.id] = hist.adopted[m.id] \cup {m.key}
  BY <1>2, <1>4, <1>5 DEF HistOK
<1>7. OthersKeep(t) /\ work'[t] = IF ok THEN Idle ELSE [w EXCEPT !.op = "record", !.rec.accepted = FALSE]
  BY <1>2, <1>3 DEF Step, OthersKeep
<1>8. /\ [w EXCEPT !.op = "record", !.rec.accepted = FALSE].op = "record"
      /\ [w EXCEPT !.op = "record", !.rec.accepted = FALSE].bundle = w.bundle
      /\ [w EXCEPT !.op = "record", !.rec.accepted = FALSE].rec.accepted = FALSE
      /\ [w EXCEPT !.op = "record", !.rec.accepted = FALSE].rec.at = w.rec.at
  BY <1>1, <1>2 DEF Registering, Records
<1>9. keyFile' = IF ok THEN keys' ELSE keyFile
  BY <1>3 DEF PersistKeys
<1>10. Adopts(t, ok)
  BY <1>1, <1>4, <1>5, <1>6, <1>7, <1>8, <1>9 DEF Adopts
<1> QED  BY <1>10

Clears(t) ==
    /\ Up /\ OthersKeep(t) /\ work[t].op \in {"reset", "clear"} /\ work'[t].op \in {"idle", "reset", "clear"}
    /\ \A i \in Ids : /\ dirs'[i].meta = dirs[i].meta /\ dirs'[i].target = dirs[i].target
                      /\ dirs'[i].reports \in {dirs[i].reports, <<>>}
                      /\ dirs'[i].reg \in {dirs[i].reg, NoRecord}
                      /\ reg'[i] \in {reg[i], NoRecord}
    /\ UNCHANGED <<deploy, instances, keyFile, boot, known, target, keys, tick, hist>>

LEMMA ResetFrame ==
    ASSUME Typed, NEW t \in Threads, ResetOne(t)
    PROVE  Clears(t)
<1>1. Up /\ work[t] \in Resetting /\ UNCHANGED <<deploy, instances, keyFile, boot, known, target, keys, tick, hist>>
  BY ResetBundle
<1>2. PICK b \in Ids :
        \/ /\ dirs' = [dirs EXCEPT ![b].reports = <<>>] /\ reg' = reg
           /\ \/ work' = [work EXCEPT ![t] = Idle]
              \/ work' = [work EXCEPT ![t] = [work[t] EXCEPT !.todo = @ \ {b}]]
        \/ /\ dirs' = dirs /\ reg' = [reg EXCEPT ![b] = NoRecord]
           /\ work' = [work EXCEPT ![t] = [[work[t] EXCEPT !.todo = @ \ {b}] EXCEPT !.op = "clear", !.bundle = b]]
  BY ResetBundle
<1>3. DOMAIN work = Threads /\ DOMAIN dirs = Ids /\ DirOK(dirs[b]) /\ DOMAIN reg = Ids
  BY DEF Typed, MemoryOK
<1>4. OthersKeep(t)
  BY <1>2, <1>3 DEF OthersKeep
<1>5. /\ work[t].op = "reset" /\ Idle.op = "idle"
      /\ [work[t] EXCEPT !.todo = @ \ {b}].op = "reset"
      /\ [[work[t] EXCEPT !.todo = @ \ {b}] EXCEPT !.op = "clear", !.bundle = b].op = "clear"
  BY <1>1 DEF Resetting, Idle
<1>8. work'[t].op \in {"idle", "reset", "clear"}
  <2>1. \/ work'[t] = Idle
        \/ work'[t] = [work[t] EXCEPT !.todo = @ \ {b}]
        \/ work'[t] = [[work[t] EXCEPT !.todo = @ \ {b}] EXCEPT !.op = "clear", !.bundle = b]
    BY <1>2, <1>3
  <2> QED  BY <1>5, <2>1
<1>6. \A i \in Ids : reg'[i] \in {reg[i], NoRecord}
  BY <1>2, <1>3
<1>7. \A i \in Ids : /\ dirs'[i].meta = dirs[i].meta /\ dirs'[i].target = dirs[i].target
                     /\ dirs'[i].reports \in {dirs[i].reports, <<>>} /\ dirs'[i].reg \in {dirs[i].reg, NoRecord}
  BY <1>2, <1>3 DEF DirOK, NoDir
<1> QED  BY <1>1, <1>4, <1>5, <1>6, <1>7, <1>8 DEF Clears

LEMMA ClearFrame ==
    ASSUME Typed, NEW t \in Threads, SaveReset(t)
    PROVE  Clears(t)
<1>1. Up /\ work[t] \in Clearing /\ UNCHANGED <<deploy, instances, keyFile, boot, known, target, reg, keys, tick, hist>>
  BY TaskShape DEF SaveReset, At, files, memory
<1>2. /\ dirs' = [dirs EXCEPT ![work[t].bundle].reg = NoRecord] \/ dirs' = dirs
      /\ work' = [work EXCEPT ![t] = IF work[t].todo = {} THEN Idle ELSE [work[t] EXCEPT !.op = "reset"]]
  BY DEF SaveReset, Step
<1>3. DOMAIN work = Threads /\ DOMAIN dirs = Ids /\ work[t].bundle \in Ids /\ DirOK(dirs[work[t].bundle])
  BY <1>1 DEF Typed, Clearing
<1>4. OthersKeep(t)
  BY <1>2, <1>3 DEF OthersKeep
<1>5. work[t].op = "clear" /\ work'[t].op \in {"idle", "reset", "clear"}
  BY <1>1, <1>2, <1>3 DEF Clearing, Idle
<1>6. \A i \in Ids : /\ dirs'[i].meta = dirs[i].meta /\ dirs'[i].target = dirs[i].target
                     /\ dirs'[i].reports = dirs[i].reports /\ dirs'[i].reg \in {dirs[i].reg, NoRecord}
  BY <1>2, <1>3 DEF DirOK, NoDir
<1> QED  BY <1>1, <1>4, <1>5, <1>6 DEF Clears

MakesDir ==
    /\ boot.pc = "stage" /\ boot.id \in Ids /\ boot.id \in {Legacy, deploy.legacyId}
    /\ instances' = TRUE /\ boot'.pc = "scan"
    /\ \A i \in Ids : i # boot.id => dirs'[i] = dirs[i]
    /\ dirs'[boot.id].meta \in BOOLEAN /\ dirs'[boot.id].target = 0
    /\ dirs'[boot.id].reg \in {NoRecord, deploy.legacyReg} /\ dirs'[boot.id].reports = <<>>
    /\ HistKeeps /\ hist'.validated = hist.validated
    /\ hist'.unsaved = IF dirs'[boot.id].meta THEN hist.unsaved ELSE hist.unsaved \cup {boot.id}

LEMMA PublishFrame ==
    ASSUME Typed, Publish
    PROVE  /\ UNCHANGED <<deploy, keyFile, known, target, reg, keys, work, tick>>
           /\ boot.pc = "stage"
           /\ \/ UNCHANGED <<instances, dirs, hist>> /\ boot'.pc = "rollback"
              \/ MakesDir
<1>1. boot.id \in Ids /\ boot.id \in {Legacy, deploy.legacyId} /\ boot.pc = "stage" /\ DOMAIN dirs = Ids /\ HistOK
  BY PublishDir DEF Typed, BootOK
<1>2. ASSUME Publishes PROVE MakesDir
  <2>0. PICK saved \in BOOLEAN : \E f : PublishedAs(saved, f)
    BY <1>2 DEF Publishes
  <2>1. PICK f : PublishedAs(saved, f)
    BY <2>0
  <2>2. dirs'[boot.id] = [NoDir EXCEPT !.meta = saved, !.files = f, !.reg = Migrated(f)] /\ \A i \in Ids : i # boot.id => dirs'[i] = dirs[i]
    BY <1>1, <2>1 DEF PublishedAs
  <2>3. /\ dirs'[boot.id].meta = saved /\ dirs'[boot.id].target = 0
        /\ dirs'[boot.id].reg \in {NoRecord, deploy.legacyReg} /\ dirs'[boot.id].reports = <<>>
    BY <2>2 DEF NoDir, Migrated
  <2>4. /\ HistKeeps /\ hist'.validated = hist.validated
        /\ hist'.unsaved = IF saved THEN hist.unsaved ELSE hist.unsaved \cup {boot.id}
    BY <1>1, <2>1 DEF PublishedAs, HistKeeps, HistOK
  <2> QED  BY <1>1, <1>2, <2>2, <2>3, <2>4 DEF MakesDir, Publishes
<1> QED  BY <1>1, <1>2, PublishDir

(* A stamp is taken from the clock. *)
LEMMA ClockStep ==
    ASSUME Typed, ClockSound, [Next]_vars
    PROVE  ClockSound'
<1> USE DEF ClockSound, AtRegister, files, memory, At, Step, Free, Disk, Spend
<1>0. /\ tick \in Nat /\ NoRecord.at = 0 /\ Idle.op = "idle" /\ 0 <= tick
      /\ \A i \in Ids : reg[i].at \in Nat /\ dirs[i].reg.at \in Nat
      /\ DOMAIN work = Threads
      /\ \A u \in Threads : AtRegister(u) => work[u].rec.at \in Nat
      /\ deploy.legacyReg.at \in Nat
  <2>1. /\ tick \in Nat /\ NoRecord.at = 0 /\ Idle.op = "idle" /\ 0 <= tick
        /\ \A i \in Ids : reg[i].at \in Nat /\ dirs[i].reg.at \in Nat
        /\ DOMAIN work = Threads
        /\ \A u \in Threads : AtRegister(u) => work[u].rec.at \in Nat
    BY TaskShape DEF Typed, MemoryOK, NoRecord, Idle, DirOK, Records, Registering
  <2>2. deploy.legacyReg \in Records
    BY DeployShape DEF Typed
  <2> QED  BY <2>1, <2>2 DEF Records
<1>1. CASE Migration
  BY <1>1, MigrationFrame DEF MigrateFrame
<1>2. CASE LoadKeys
  BY <1>2 DEF LoadKeys
<1>3. CASE Publish
  <2>1. CASE MakesDir
    BY <1>3, <2>1, PublishFrame, <1>0 DEF MakesDir, HistKeeps
  <2>2. CASE UNCHANGED <<instances, dirs, hist>> /\ boot'.pc = "rollback"
    BY <1>3, <2>2, PublishFrame
  <2> QED  BY <1>3, <2>1, <2>2, PublishFrame
<1>4. CASE Scan
  BY <1>0, <1>4 DEF Scan
<1>5. CASE Look
  <2>1. PICK ok : Joins(Legacy, ok) /\ SameReports /\ UNCHANGED <<work, tick>> /\ hist'.validated = hist.validated
    BY <1>5, LookFrame
  <2> QED  BY <2>1, <1>0 DEF Joins, SameReports, HistKeeps
<1>6. CASE Crash
  BY <1>0, <1>6 DEF Crash
<1>7. ASSUME NEW t \in Threads, Register(t) PROVE ClockSound'
  <2>1. PICK m, accepted, b, later, ok : Joins(b, ok) /\ Enters(t, m, accepted, b, later)
    BY <1>7, RegisterFrame
  <2> QED  BY <2>1, <1>0 DEF Joins, Enters, SameReports, OthersKeep, HistKeeps
<1>8. ASSUME NEW t \in Threads, SetTarget(t) PROVE ClockSound'
  <2>1. TargetDone(t)
    BY <1>8, TargetFrame
  <2>2. CASE UNCHANGED <<target, dirs, hist>>
    BY <2>1, <2>2, <1>0 DEF TargetDone, OthersKeep
  <2>3. ASSUME NEW ok, Addresses(work[t].bundle, work[t].m.addr, ok) PROVE ClockSound'
    BY <2>1, <2>3, <1>0 DEF TargetDone, OthersKeep, Addresses
  <2> QED  BY <1>8, <2>2, <2>3, TargetFrame
<1>9. ASSUME NEW t \in Threads, RecordRegister(t) PROVE ClockSound'
  BY TaskShape, <1>9 DEF RecordRegister, Typed, MemoryOK, Registering
<1>10. ASSUME NEW t \in Threads, SaveRegister(t) PROVE ClockSound'
  <2>1. Saves(t)
    BY <1>10, SaveFrame
  <2> QED  BY <2>1, <1>0 DEF Saves, OthersKeep
<1>11. ASSUME NEW t \in Threads, AdoptKey(t) PROVE ClockSound'
  <2>1. PICK ok : Adopts(t, ok)
    BY <1>11, AdoptFrame
  <2> QED  BY <2>1, <1>0 DEF Adopts, OthersKeep
<1>12. ASSUME NEW t \in Threads, OpenReport(t) PROVE ClockSound'
  <2>1. PICK m \in deploy.reports : Opened(t, m)
    BY <1>12, ReportOpened
  <2> QED  BY <2>1, <1>0 DEF Opened
<1>13. ASSUME NEW t \in Threads, WriteReport(t) PROVE ClockSound'
  <2>1. PICK b, ok : Joins(b, ok) /\ Writes(t, b)
    BY <1>13, WriteFrame
  <2> QED  BY <2>1, <1>0 DEF Joins, Writes, OthersKeep, HistKeeps
<1>14. ASSUME NEW t \in Threads, Reset(t) PROVE ClockSound'
  BY <1>0, <1>14 DEF Reset
<1>15. ASSUME NEW t \in Threads, ResetOne(t) PROVE ClockSound'
  <2>1. Clears(t)
    BY <1>15, ResetFrame
  <2> QED  BY <1>0, <2>1 DEF Clears, OthersKeep
<1>16. ASSUME NEW t \in Threads, SaveReset(t) PROVE ClockSound'
  <2>1. Clears(t)
    BY <1>16, ClearFrame
  <2> QED  BY <1>0, <2>1 DEF Clears, OthersKeep
<1>17. ASSUME NEW t \in Threads, Route(t) PROVE ClockSound'
  <2>1. PICK to, own : Routed(t, to, own)
    BY <1>17, RouteTaken
  <2> QED  BY <2>1, <1>0 DEF Routed
<1>18. ASSUME NEW t \in Threads, SealAndSend(t) PROVE ClockSound'
  BY <1>0, <1>18 DEF SealAndSend
<1>19. CASE UNCHANGED vars
  BY <1>19 DEF vars, memory, files
<1> QED
  BY <1>1, <1>2, <1>3, <1>4, <1>5, <1>6, <1>7, <1>8, <1>9, <1>10, <1>11, <1>12, <1>13, <1>14, <1>15, <1>16, <1>17, <1>18, <1>19 DEF Next, Migrate, Migration, Handle

(* Nothing is served before instances/ exists. *)
LEMMA BootStep ==
    ASSUME Typed, ClockSound, BootSound, [Next]_vars
    PROVE  BootSound'
<1> USE DEF BootSound, Up, Booting, Typed, HistOK, BootOK, files, memory, At, Step, Free, Disk, Spend
<1>1. CASE Migration
  BY <1>1, MigrationFrame DEF MigrateFrame, Migrating
<1>2. CASE LoadKeys
  BY <1>2 DEF LoadKeys, Off
<1>3. CASE Publish
  <2>1. CASE MakesDir
    BY <1>3, <2>1, PublishFrame DEF MakesDir, HistKeeps
  <2>2. CASE UNCHANGED <<instances, dirs, hist>> /\ boot'.pc = "rollback"
    BY <1>3, <2>2, PublishFrame
  <2> QED  BY <1>3, <2>1, <2>2, PublishFrame
<1>4. CASE Scan
  BY <1>4 DEF Scan, Off
<1>5. CASE Look
  <2>1. PICK ok : Joins(Legacy, ok) /\ SameReports /\ UNCHANGED <<work, tick>> /\ hist'.validated = hist.validated
    BY <1>5, LookFrame
  <2> QED  BY <2>1 DEF Joins, SameReports, HistKeeps
<1>6. CASE Crash
  BY <1>6 DEF Crash, Off
<1>7. ASSUME NEW t \in Threads, Register(t) PROVE BootSound'
  <2>1. PICK m, accepted, b, later, ok : Joins(b, ok) /\ Enters(t, m, accepted, b, later)
    BY <1>7, RegisterFrame
  <2> QED  BY <2>1 DEF Joins, Enters, SameReports, OthersKeep, HistKeeps
<1>8. ASSUME NEW t \in Threads, SetTarget(t) PROVE BootSound'
  <2>1. TargetDone(t)
    BY <1>8, TargetFrame
  <2>2. CASE UNCHANGED <<target, dirs, hist>>
    BY <2>1, <2>2 DEF TargetDone, OthersKeep
  <2>3. ASSUME NEW ok, Addresses(work[t].bundle, work[t].m.addr, ok) PROVE BootSound'
    BY <2>1, <2>3 DEF TargetDone, OthersKeep, Addresses
  <2> QED  BY <1>8, <2>2, <2>3, TargetFrame
<1>9. ASSUME NEW t \in Threads, RecordRegister(t) PROVE BootSound'
  BY <1>9 DEF RecordRegister
<1>10. ASSUME NEW t \in Threads, SaveRegister(t) PROVE BootSound'
  <2>1. Saves(t)
    BY <1>10, SaveFrame
  <2> QED  BY <2>1 DEF Saves, OthersKeep
<1>11. ASSUME NEW t \in Threads, AdoptKey(t) PROVE BootSound'
  <2>1. PICK ok : Adopts(t, ok)
    BY <1>11, AdoptFrame
  <2> QED  BY <2>1 DEF Adopts, OthersKeep
<1>12. ASSUME NEW t \in Threads, OpenReport(t) PROVE BootSound'
  <2>1. PICK m \in deploy.reports : Opened(t, m)
    BY <1>12, ReportOpened
  <2> QED  BY <2>1 DEF Opened
<1>13. ASSUME NEW t \in Threads, WriteReport(t) PROVE BootSound'
  <2>1. PICK b, ok : Joins(b, ok) /\ Writes(t, b)
    BY <1>13, WriteFrame
  <2> QED  BY <2>1 DEF Joins, Writes, OthersKeep, HistKeeps
<1>14. ASSUME NEW t \in Threads, Reset(t) PROVE BootSound'
  BY <1>14 DEF Reset
<1>15. ASSUME NEW t \in Threads, ResetOne(t) PROVE BootSound'
  <2>1. Clears(t)
    BY <1>15, ResetFrame
  <2> QED  BY <2>1 DEF Clears, OthersKeep
<1>16. ASSUME NEW t \in Threads, SaveReset(t) PROVE BootSound'
  <2>1. Clears(t)
    BY <1>16, ClearFrame
  <2> QED  BY <2>1 DEF Clears, OthersKeep
<1>17. ASSUME NEW t \in Threads, Route(t) PROVE BootSound'
  <2>1. PICK to, own : Routed(t, to, own)
    BY <1>17, RouteTaken
  <2> QED  BY <2>1 DEF Routed
<1>18. ASSUME NEW t \in Threads, SealAndSend(t) PROVE BootSound'
  BY <1>18 DEF SealAndSend
<1>19. CASE UNCHANGED vars
  BY <1>19 DEF vars, memory, files
<1> QED
  BY <1>1, <1>2, <1>3, <1>4, <1>5, <1>6, <1>7, <1>8, <1>9, <1>10, <1>11, <1>12, <1>13, <1>14, <1>15, <1>16, <1>17, <1>18, <1>19 DEF Next, Migrate, Migration, Handle

(* Only an accepted registration changes a key, and only of its id. *)
LEMMA KeysStep ==
    ASSUME Typed, ClockSound, BootSound, RegisterSound, KeysSound, [Next]_vars
    PROVE  KeysSound'
<1> USE DEF KeysSound, KeyTable, NeverKeyed, Typed, HistOK, MemoryOK, files, memory, At, Step, Free, Disk, Spend
<1>1. CASE Migration
  BY <1>1, MigrationFrame DEF MigrateFrame, Migrating
<1>2. CASE LoadKeys
  BY <1>2 DEF LoadKeys, Booting
<1>3. CASE Publish
  <2>1. CASE MakesDir
    BY <1>3, <2>1, PublishFrame DEF MakesDir, HistKeeps
  <2>2. CASE UNCHANGED <<instances, dirs, hist>> /\ boot'.pc = "rollback"
    BY <1>3, <2>2, PublishFrame
  <2> QED  BY <1>3, <2>1, <2>2, PublishFrame
<1>4. CASE Scan
  BY <1>4 DEF Scan, Booting
<1>5. CASE Look
  <2>1. PICK ok : Joins(Legacy, ok) /\ SameReports /\ UNCHANGED <<work, tick>> /\ hist'.validated = hist.validated
    BY <1>5, LookFrame
  <2> QED  BY <2>1 DEF Joins, SameReports, HistKeeps, Up, Booting
<1>6. CASE Crash
  BY <1>6 DEF Crash, Off
<1>7. ASSUME NEW t \in Threads, Register(t) PROVE KeysSound'
  <2>1. PICK m, accepted, b, later, ok : Joins(b, ok) /\ Enters(t, m, accepted, b, later)
    BY <1>7, RegisterFrame
  <2> QED  BY <2>1 DEF Joins, Enters, SameReports, OthersKeep, HistKeeps
<1>8. ASSUME NEW t \in Threads, SetTarget(t) PROVE KeysSound'
  <2>1. TargetDone(t)
    BY <1>8, TargetFrame
  <2>2. CASE UNCHANGED <<target, dirs, hist>>
    BY <2>1, <2>2 DEF TargetDone, OthersKeep
  <2>3. ASSUME NEW ok, Addresses(work[t].bundle, work[t].m.addr, ok) PROVE KeysSound'
    BY <2>1, <2>3 DEF TargetDone, OthersKeep, Addresses
  <2> QED  BY <1>8, <2>2, <2>3, TargetFrame
<1>9. ASSUME NEW t \in Threads, RecordRegister(t) PROVE KeysSound'
  BY <1>9 DEF RecordRegister
<1>10. ASSUME NEW t \in Threads, SaveRegister(t) PROVE KeysSound'
  <2>1. Saves(t)
    BY <1>10, SaveFrame
  <2> QED  BY <2>1 DEF Saves, OthersKeep
<1>11. ASSUME NEW t \in Threads, AdoptKey(t) PROVE KeysSound'
  <2>1. PICK ok : Adopts(t, ok)
    BY <1>11, AdoptFrame
  <2>2. work[t].m.id \in Ids /\ work[t].m.key \in Nat
    BY <2>1 DEF Adopts, Registering, Registrations
  <2>3. /\ work[t].m.id # Legacy /\ work[t].m.key # 0 /\ <<work[t].m.id, work[t].m.key>> \in hist.validated
        /\ KeyTable(keys) /\ KeyTable(keyFile)
    BY <2>1 DEF Adopts, RegisterSound, AtRegister, Up, Booting
  <2>4. KeyTable(keys)'
    <3>1. keys'[Legacy] = deploy'.keys[Legacy]
      BY <2>1, <2>3, DeployShape DEF Adopts
    <3> DEFINE Fine(i) == /\ keys'[i] # 0 => keys'[i] \in hist'.adopted[i]
                          /\ keys'[i] = 0 => NeverKeyed(i)'
                          /\ keys'[i] # deploy'.keys[i] => <<i, keys'[i]>> \in hist'.validated
    <3>2. ASSUME NEW i \in Ids, i = work[t].m.id PROVE Fine(i)
      BY <2>1, <2>3, <3>2 DEF Adopts
    <3>3. ASSUME NEW i \in Ids, i # work[t].m.id PROVE Fine(i)
      BY <2>1, <2>3, <3>3 DEF Adopts
    <3> HIDE DEF Fine
    <3>4. \A i \in Ids : Fine(i)
      BY <3>2, <3>3, Zenon
    <3> QED  BY <3>1, <3>4, Zenon DEF Fine
  <2>5. ~ok => KeyTable(keyFile)'
    BY <2>1, <2>2, <2>3 DEF Adopts
  <2>6. ok => KeyTable(keyFile)'
    BY <2>1, <2>4 DEF Adopts
  <2> QED  BY <2>4, <2>5, <2>6
<1>12. ASSUME NEW t \in Threads, OpenReport(t) PROVE KeysSound'
  <2>1. PICK m \in deploy.reports : Opened(t, m)
    BY <1>12, ReportOpened
  <2> QED  BY <2>1 DEF Opened
<1>13. ASSUME NEW t \in Threads, WriteReport(t) PROVE KeysSound'
  <2>1. PICK b, ok : Joins(b, ok) /\ Writes(t, b)
    BY <1>13, WriteFrame
  <2> QED  BY <2>1 DEF Joins, Writes, OthersKeep, HistKeeps
<1>14. ASSUME NEW t \in Threads, Reset(t) PROVE KeysSound'
  BY <1>14 DEF Reset
<1>15. ASSUME NEW t \in Threads, ResetOne(t) PROVE KeysSound'
  <2>1. Clears(t)
    BY <1>15, ResetFrame
  <2> QED  BY <2>1 DEF Clears, OthersKeep
<1>16. ASSUME NEW t \in Threads, SaveReset(t) PROVE KeysSound'
  <2>1. Clears(t)
    BY <1>16, ClearFrame
  <2> QED  BY <2>1 DEF Clears, OthersKeep
<1>17. ASSUME NEW t \in Threads, Route(t) PROVE KeysSound'
  <2>1. PICK to, own : Routed(t, to, own)
    BY <1>17, RouteTaken
  <2> QED  BY <2>1 DEF Routed
<1>18. ASSUME NEW t \in Threads, SealAndSend(t) PROVE KeysSound'
  BY <1>18 DEF SealAndSend
<1>19. CASE UNCHANGED vars
  BY <1>19 DEF vars, memory, files
<1> QED
  BY <1>1, <1>2, <1>3, <1>4, <1>5, <1>6, <1>7, <1>8, <1>9, <1>10, <1>11, <1>12, <1>13, <1>14, <1>15, <1>16, <1>17, <1>18, <1>19 DEF Next, Migrate, Migration, Handle

(* A registration that was accepted stays with the bundle of its id. *)
LEMMA RegisterStep ==
    ASSUME Typed, ClockSound, BootSound, RegisterSound, [Next]_vars
    PROVE  RegisterSound'
<1> USE DEF RegisterSound, AtRegister, files, memory, At, Step, Free, Disk, Spend
<1>0. DOMAIN work = Threads /\ Idle.op = "idle"
  BY DEF Typed, Idle
<1>1. CASE Migration
  BY <1>1, MigrationFrame DEF MigrateFrame, Typed, HistOK
<1>2. CASE LoadKeys
  BY <1>2 DEF LoadKeys
<1>3. CASE Publish
  <2>1. CASE MakesDir
    BY <1>3, <2>1, PublishFrame DEF MakesDir, HistKeeps
  <2>2. CASE UNCHANGED <<instances, dirs, hist>> /\ boot'.pc = "rollback"
    BY <1>3, <2>2, PublishFrame
  <2> QED  BY <1>3, <2>1, <2>2, PublishFrame
<1>4. CASE Scan
  BY <1>0, <1>4 DEF Scan, BootSound, Up, Booting
<1>5. CASE Look
  <2>1. PICK ok : Joins(Legacy, ok) /\ SameReports /\ UNCHANGED <<work, tick>> /\ hist'.validated = hist.validated
    BY <1>5, LookFrame
  <2> QED  BY <2>1, <1>0 DEF Joins, SameReports, HistKeeps
<1>6. CASE Crash
  BY <1>0, <1>6 DEF Crash
<1>7. ASSUME NEW t \in Threads, Register(t) PROVE RegisterSound'
  <2>1. PICK m, accepted, b, later, ok : Joins(b, ok) /\ Enters(t, m, accepted, b, later)
    BY <1>7, RegisterFrame
  <2> QED  BY <2>1, <1>0 DEF Joins, Enters, SameReports, OthersKeep, HistKeeps
<1>8. ASSUME NEW t \in Threads, SetTarget(t) PROVE RegisterSound'
  <2>1. TargetDone(t)
    BY <1>8, TargetFrame
  <2>2. CASE UNCHANGED <<target, dirs, hist>>
    BY <2>1, <2>2, <1>0 DEF TargetDone, OthersKeep
  <2>3. ASSUME NEW ok, Addresses(work[t].bundle, work[t].m.addr, ok) PROVE RegisterSound'
    BY <2>1, <2>3, <1>0 DEF TargetDone, OthersKeep, Addresses
  <2> QED  BY <1>8, <2>2, <2>3, TargetFrame
<1>9. ASSUME NEW t \in Threads, RecordRegister(t) PROVE RegisterSound'
  BY TaskShape, <1>0, <1>9 DEF RecordRegister, Typed, Registering
<1>10. ASSUME NEW t \in Threads, SaveRegister(t) PROVE RegisterSound'
  <2>1. Saves(t)
    BY <1>10, SaveFrame
  <2> QED  BY <2>1, <1>0 DEF Saves, OthersKeep
<1>11. ASSUME NEW t \in Threads, AdoptKey(t) PROVE RegisterSound'
  <2>1. PICK ok : Adopts(t, ok)
    BY <1>11, AdoptFrame
  <2>2. /\ known' = known /\ hist'.validated = hist.validated
        /\ \A u \in Threads : u # t => work'[u] = work[u]
        /\ work[t].op = "adopt" /\ work[t].bundle \in known
    BY <2>1 DEF Adopts, OthersKeep
  <2>3. CASE ok
    BY <1>0, <2>1, <2>2, <2>3 DEF Adopts
  <2>4. CASE ~ok
    <3>1. work'[t].op = "record" /\ work'[t].bundle = work[t].bundle /\ work'[t].rec.accepted = FALSE
      BY <2>1, <2>4 DEF Adopts
    <3> QED  BY <2>2, <3>1
  <2> QED  BY <2>3, <2>4
<1>12. ASSUME NEW t \in Threads, OpenReport(t) PROVE RegisterSound'
  <2>1. PICK m \in deploy.reports : Opened(t, m)
    BY <1>12, ReportOpened
  <2> QED  BY <2>1, <1>0 DEF Opened
<1>13. ASSUME NEW t \in Threads, WriteReport(t) PROVE RegisterSound'
  <2>1. PICK b, ok : Joins(b, ok) /\ Writes(t, b)
    BY <1>13, WriteFrame
  <2> QED  BY <2>1, <1>0 DEF Joins, Writes, OthersKeep, HistKeeps
<1>14. ASSUME NEW t \in Threads, Reset(t) PROVE RegisterSound'
  BY <1>0, <1>14 DEF Reset, Typed
<1>15. ASSUME NEW t \in Threads, ResetOne(t) PROVE RegisterSound'
  <2>1. Clears(t)
    BY <1>15, ResetFrame
  <2> QED  BY <1>0, <2>1 DEF Clears, OthersKeep
<1>16. ASSUME NEW t \in Threads, SaveReset(t) PROVE RegisterSound'
  <2>1. Clears(t)
    BY <1>16, ClearFrame
  <2> QED  BY <1>0, <2>1 DEF Clears, OthersKeep
<1>17. ASSUME NEW t \in Threads, Route(t) PROVE RegisterSound'
  <2>1. PICK to, own : Routed(t, to, own)
    BY <1>17, RouteTaken
  <2> QED  BY <2>1, <1>0 DEF Routed
<1>18. ASSUME NEW t \in Threads, SealAndSend(t) PROVE RegisterSound'
  BY <1>0, <1>18 DEF SealAndSend, Typed, HistOK
<1>19. CASE UNCHANGED vars
  BY <1>19 DEF vars, memory, files
<1> QED
  BY <1>1, <1>2, <1>3, <1>4, <1>5, <1>6, <1>7, <1>8, <1>9, <1>10, <1>11, <1>12, <1>13, <1>14, <1>15, <1>16, <1>17, <1>18, <1>19 DEF Next, Migrate, Migration, Handle

(* A report goes to the id its hint named and its signature proved. *)
LEMMA ReportStep ==
    ASSUME Typed, ClockSound, BootSound, KeysSound, ReportSound, [Next]_vars
    PROVE  ReportSound'
<1> USE DEF ReportSound, Owned, files, memory, At, Step, Free, Disk, Spend
<1>0. DOMAIN work = Threads /\ Idle.op = "idle"
  BY DEF Typed, Idle
<1>1. CASE Migration
  BY <1>1, MigrationFrame DEF MigrateFrame, Typed, HistOK
<1>2. CASE LoadKeys
  BY <1>2 DEF LoadKeys
<1>3. CASE Publish
  <2>1. CASE MakesDir
    BY <1>3, <2>1, PublishFrame DEF MakesDir, HistKeeps
  <2>2. CASE UNCHANGED <<instances, dirs, hist>> /\ boot'.pc = "rollback"
    BY <1>3, <2>2, PublishFrame
  <2> QED  BY <1>3, <2>1, <2>2, PublishFrame
<1>4. CASE Scan
  BY <1>0, <1>4 DEF Scan
<1>5. CASE Look
  <2>1. PICK ok : Joins(Legacy, ok) /\ SameReports /\ UNCHANGED <<work, tick>> /\ hist'.validated = hist.validated
    BY <1>5, LookFrame
  <2> QED  BY <2>1, <1>0 DEF Joins, SameReports, HistKeeps, SameReports
<1>6. CASE Crash
  BY <1>0, <1>6 DEF Crash, Typed
<1>7. ASSUME NEW t \in Threads, Register(t) PROVE ReportSound'
  <2>1. PICK m, accepted, b, later, ok : Joins(b, ok) /\ Enters(t, m, accepted, b, later)
    BY <1>7, RegisterFrame
  <2> QED  BY <2>1, <1>0 DEF Joins, Enters, SameReports, OthersKeep, HistKeeps
<1>8. ASSUME NEW t \in Threads, SetTarget(t) PROVE ReportSound'
  <2>1. TargetDone(t)
    BY <1>8, TargetFrame
  <2>2. CASE UNCHANGED <<target, dirs, hist>>
    BY <2>1, <2>2, <1>0 DEF TargetDone, OthersKeep
  <2>3. ASSUME NEW ok, Addresses(work[t].bundle, work[t].m.addr, ok) PROVE ReportSound'
    BY <2>1, <2>3, <1>0 DEF TargetDone, OthersKeep, Addresses
  <2> QED  BY <1>8, <2>2, <2>3, TargetFrame
<1>9. ASSUME NEW t \in Threads, RecordRegister(t) PROVE ReportSound'
  BY TaskShape, <1>0, <1>9 DEF RecordRegister, Typed, Registering
<1>10. ASSUME NEW t \in Threads, SaveRegister(t) PROVE ReportSound'
  <2>1. Saves(t)
    BY <1>10, SaveFrame
  <2> QED  BY <2>1, <1>0 DEF Saves, OthersKeep
<1>11. ASSUME NEW t \in Threads, AdoptKey(t) PROVE ReportSound'
  <2>1. PICK ok : Adopts(t, ok)
    BY <1>11, AdoptFrame
  <2>2. \A i \in Ids : hist.adopted[i] \subseteq hist'.adopted[i]
    BY <2>1 DEF Adopts
  <2>3. /\ deploy' = deploy /\ dirs' = dirs /\ work'[t].op # "report"
        /\ \A u \in Threads : u # t => work'[u] = work[u]
    BY <1>0, <2>1 DEF Adopts, OthersKeep
  <2>4. \A u \in Threads : work[u].op = "report" => work[u].id \in Ids
    BY TaskShape DEF Writing
  <2> QED  BY <2>2, <2>3, <2>4
<1>12. ASSUME NEW t \in Threads, OpenReport(t) PROVE ReportSound'
  <2>1. PICK m \in deploy.reports : Opened(t, m)
    BY <1>12, ReportOpened
  <2>2. m \in Bodies /\ Legacy \in Ids
    BY DeployShape DEF Typed
  <2>3. KeyTable(keys)
    BY <2>1 DEF Opened, KeysSound, Up, Booting
  <2>4. Opens(m) /\ Accepted(m) /\ m.hint # Legacy =>
          /\ m.plain = m.hint \/ Nameless(m)
          /\ m.signer \in hist.adopted[m.hint] \/ (NeverKeyed(m.hint) /\ m.signer = deploy.keys[Legacy])
    <3> SUFFICES ASSUME Opens(m), Accepted(m), m.hint # Legacy
                 PROVE  /\ m.plain = m.hint \/ Nameless(m)
                        /\ m.signer \in hist.adopted[m.hint] \/ (NeverKeyed(m.hint) /\ m.signer = deploy.keys[Legacy])
      OBVIOUS
    <3>1. (m.plain # Legacy \/ Nameless(m)) /\ m.hint \in Ids
      BY <2>2 DEF Nameless, Accepted, ResourceAccepted, ResAccepted, ImportAccepted, AuditAccepted, Bodies
    <3>2. m.plain \in {Legacy, m.hint} /\ m.signer = KeyFor(m.hint)
      BY DEF Opens, Verified
    <3> QED  BY <2>3, <3>1, <3>2 DEF KeyTable, KeyFor
  <2>5. /\ UNCHANGED <<dirs, hist, deploy>> /\ \A u \in Threads : u # t => work'[u] = work[u]
        /\ work'[t].id = (IF Opens(m) THEN m.hint ELSE Legacy) /\ work'[t].rec.plain = m.plain
        /\ work'[t].rec.key = m.signer /\ work'[t].rec.accepted = (Opens(m) /\ Accepted(m))
        /\ work'[t].rec.early = NeverKeyed(m.hint)
        /\ work'[t].rec.kind = m.kind /\ work'[t].rec.blank = m.blank
    BY <1>0, <2>1 DEF Opened, Identity
  <2>6. Owned(work'[t].id, work'[t].rec)
    BY <2>4, <2>5 DEF Nameless
  <2> QED  BY <2>5, <2>6
<1>13. ASSUME NEW t \in Threads, WriteReport(t) PROVE ReportSound'
  <2>1. PICK b, ok : Joins(b, ok) /\ Writes(t, b)
    BY <1>13, WriteFrame
  <2> QED  BY <2>1, <1>0 DEF Joins, Writes, OthersKeep, HistKeeps, Typed, Writing
<1>14. ASSUME NEW t \in Threads, Reset(t) PROVE ReportSound'
  BY <1>0, <1>14 DEF Reset
<1>15. ASSUME NEW t \in Threads, ResetOne(t) PROVE ReportSound'
  <2>1. Clears(t)
    BY <1>15, ResetFrame
  <2> QED  BY <1>0, <2>1 DEF Clears, OthersKeep
<1>16. ASSUME NEW t \in Threads, SaveReset(t) PROVE ReportSound'
  <2>1. Clears(t)
    BY <1>16, ClearFrame
  <2> QED  BY <1>0, <2>1 DEF Clears, OthersKeep
<1>17. ASSUME NEW t \in Threads, Route(t) PROVE ReportSound'
  <2>1. PICK to, own : Routed(t, to, own)
    BY <1>17, RouteTaken
  <2> QED  BY <2>1, <1>0 DEF Routed
<1>18. ASSUME NEW t \in Threads, SealAndSend(t) PROVE ReportSound'
  BY <1>0, <1>18 DEF SealAndSend, Typed, HistOK
<1>19. CASE UNCHANGED vars
  BY <1>19 DEF vars, memory, files
<1> QED
  BY <1>1, <1>2, <1>3, <1>4, <1>5, <1>6, <1>7, <1>8, <1>9, <1>10, <1>11, <1>12, <1>13, <1>14, <1>15, <1>16, <1>17, <1>18, <1>19 DEF Next, Migrate, Migration, Handle

(* Only an accepted registration or the migration makes an instance. *)
LEMMA MembersStep ==
    ASSUME Typed, ClockSound, BootSound, RegisterSound, MembersSound, [Next]_vars
    PROVE  MembersSound'
<1> USE DEF MembersSound, Entitled, Up, Booting, files, memory, At, Step, Free, Disk, Spend
<1>0. DOMAIN work = Threads /\ Idle.op = "idle"
  BY DEF Typed, Idle
<1>1. CASE Migration
  BY <1>1, MigrationFrame DEF MigrateFrame, Typed, HistOK, Migrating
<1>2. CASE LoadKeys
  BY <1>2 DEF LoadKeys, Off
<1>3. CASE Publish
  <2>1. CASE MakesDir
    BY <1>3, <2>1, PublishFrame DEF MakesDir, HistKeeps
  <2>2. CASE UNCHANGED <<instances, dirs, hist>> /\ boot'.pc = "rollback"
    BY <1>3, <2>2, PublishFrame
  <2> QED  BY <1>3, <2>1, <2>2, PublishFrame
<1>4. CASE Scan
  BY <1>0, <1>4 DEF Scan, Off
<1>5. CASE Look
  <2>1. PICK ok : Joins(Legacy, ok) /\ SameReports /\ UNCHANGED <<work, tick>> /\ hist'.validated = hist.validated
    BY <1>5, LookFrame
  <2> QED  BY <2>1, <1>0 DEF Joins, SameReports, HistKeeps
<1>6. CASE Crash
  BY <1>0, <1>6 DEF Crash, Off
<1>7. ASSUME NEW t \in Threads, Register(t) PROVE MembersSound'
  <2>1. PICK m, accepted, b, later, ok : Joins(b, ok) /\ Enters(t, m, accepted, b, later)
    BY <1>7, RegisterFrame
  <2>2. /\ hist.validated \subseteq hist'.validated /\ known' = known \cup {b} /\ deploy' = deploy /\ boot' = boot
        /\ \A i \in Ids : i # b => dirs'[i] = dirs[i]
    BY <2>1 DEF Joins, Enters
  <2>3. b \notin known => Entitled(b)'
    <3>1. CASE accepted
      <4>1. b = m.id /\ <<m.id, m.key>> \in hist'.validated
        BY <2>1, <3>1 DEF Enters
      <4>2. <<m.id, m.key>>[1] = b
        BY <4>1
      <4> QED  BY <4>1, <4>2
    <3>2. CASE ~accepted
      BY <2>1, <3>2 DEF Enters
    <3> QED  BY <3>1, <3>2
  <2>4. \A i \in Ids : Entitled(i) => Entitled(i)'
    BY <2>2
  <2>5. b \in known => Entitled(b)
    BY <2>1 DEF Joins
  <2> HIDE DEF Entitled
  <2>6. b \in Ids /\ Entitled(b)'
    BY <2>1, <2>3, <2>4, <2>5 DEF Joins
  <2> QED  BY <2>2, <2>4, <2>6
<1>8. ASSUME NEW t \in Threads, SetTarget(t) PROVE MembersSound'
  <2>1. TargetDone(t)
    BY <1>8, TargetFrame
  <2>2. CASE UNCHANGED <<target, dirs, hist>>
    BY <2>1, <2>2, <1>0 DEF TargetDone, OthersKeep
  <2>3. ASSUME NEW ok, Addresses(work[t].bundle, work[t].m.addr, ok) PROVE MembersSound'
    BY <2>1, <2>3, <1>0 DEF TargetDone, OthersKeep, Addresses, RegisterSound, AtRegister
  <2> QED  BY <1>8, <2>2, <2>3, TargetFrame
<1>9. ASSUME NEW t \in Threads, RecordRegister(t) PROVE MembersSound'
  BY <1>9 DEF RecordRegister
<1>10. ASSUME NEW t \in Threads, SaveRegister(t) PROVE MembersSound'
  <2>1. Saves(t)
    BY <1>10, SaveFrame
  <2> QED  BY <2>1, <1>0 DEF Saves, OthersKeep
<1>11. ASSUME NEW t \in Threads, AdoptKey(t) PROVE MembersSound'
  <2>1. PICK ok : Adopts(t, ok)
    BY <1>11, AdoptFrame
  <2> QED  BY <2>1, <1>0 DEF Adopts, OthersKeep
<1>12. ASSUME NEW t \in Threads, OpenReport(t) PROVE MembersSound'
  <2>1. PICK m \in deploy.reports : Opened(t, m)
    BY <1>12, ReportOpened
  <2> QED  BY <2>1, <1>0 DEF Opened
<1>13. ASSUME NEW t \in Threads, WriteReport(t) PROVE MembersSound'
  <2>1. PICK b, ok : Joins(b, ok) /\ Writes(t, b)
    BY <1>13, WriteFrame
  <2> QED  BY <2>1, <1>0 DEF Joins, Writes, OthersKeep, HistKeeps
<1>14. ASSUME NEW t \in Threads, Reset(t) PROVE MembersSound'
  BY <1>0, <1>14 DEF Reset
<1>15. ASSUME NEW t \in Threads, ResetOne(t) PROVE MembersSound'
  <2>1. Clears(t)
    BY <1>15, ResetFrame
  <2> QED  BY <1>0, <2>1 DEF Clears, OthersKeep
<1>16. ASSUME NEW t \in Threads, SaveReset(t) PROVE MembersSound'
  <2>1. Clears(t)
    BY <1>16, ClearFrame
  <2> QED  BY <1>0, <2>1 DEF Clears, OthersKeep
<1>17. ASSUME NEW t \in Threads, Route(t) PROVE MembersSound'
  <2>1. PICK to, own : Routed(t, to, own)
    BY <1>17, RouteTaken
  <2> QED  BY <2>1, <1>0 DEF Routed
<1>18. ASSUME NEW t \in Threads, SealAndSend(t) PROVE MembersSound'
  BY <1>0, <1>18 DEF SealAndSend, Typed, HistOK
<1>19. CASE UNCHANGED vars
  BY <1>19 DEF vars, memory, files
<1> QED
  BY <1>1, <1>2, <1>3, <1>4, <1>5, <1>6, <1>7, <1>8, <1>9, <1>10, <1>11, <1>12, <1>13, <1>14, <1>15, <1>16, <1>17, <1>18, <1>19 DEF Next, Migrate, Migration, Handle

(* A bundle that is joined keeps the address it had, and a new one had none. *)
LEMMA JoinTarget ==
    ASSUME Typed, MembersSound, TargetSound, NEW b, NEW ok, Joins(b, ok)
    PROVE  TargetSound'
<1> USE DEF TargetSound, Up, Booting
<1>1. ASSUME NEW i \in Ids, i # b
      PROVE  /\ i \notin hist'.unsaved => dirs'[i].target = hist'.last[i] /\ (hist'.last[i] # 0 => dirs'[i].meta)
             /\ Up' /\ i \in known' /\ i \notin hist'.unsaved => dirs'[i].meta /\ target'[i] = hist'.last[i]
             /\ i \in hist'.answered => i \in hist'.unsaved \/ dirs'[i].meta
             /\ dirs'[i].target # 0 => dirs'[i].target \in hist'.from[i]
             /\ target'[i] # 0 => target'[i] \in hist'.from[i]
  BY <1>1 DEF Joins, HistKeeps, UnsavedIn
<1>2. CASE b \in known
  <2>1. /\ dirs'[b].meta = dirs[b].meta /\ dirs'[b].target = dirs[b].target /\ target'[b] = target[b]
        /\ known' = known /\ hist'.unsaved = hist.unsaved /\ boot' = boot
        /\ hist'.last = hist.last /\ hist'.from = hist.from /\ hist'.answered = hist.answered
    BY <1>2 DEF Joins, HistKeeps, UnsavedIn
  <2> QED  BY <1>1, <2>1
<1>3. CASE b \notin known
  <2>1. ~dirs[b].meta /\ b \in Ids
    BY <1>3 DEF Joins, MembersSound
  <2>2. /\ target'[b] = 0 /\ boot' = boot
        /\ hist'.last = hist.last /\ hist'.from = hist.from /\ hist'.answered = hist.answered
        /\ ok => dirs'[b].meta /\ dirs'[b].target = 0 /\ hist'.unsaved = hist.unsaved
        /\ ~ok => dirs'[b].meta = dirs[b].meta /\ dirs'[b].target = dirs[b].target /\ b \in hist'.unsaved
        /\ ok \in BOOLEAN
    BY <1>3 DEF Joins, HistKeeps, UnsavedIn
  <2>3. CASE ok
    BY <1>1, <2>1, <2>2, <2>3
  <2>4. CASE ~ok
    BY <1>1, <2>1, <2>2, <2>4
  <2> QED  BY <2>2, <2>3, <2>4
<1> QED  BY <1>2, <1>3

(* The address on file is the last one registered, unless its write failed. *)
LEMMA TargetStep ==
    ASSUME Typed, ClockSound, BootSound, RegisterSound, MembersSound, TargetSound, [Next]_vars
    PROVE  TargetSound'
<1> USE DEF TargetSound, Up, Booting, files, memory, At, Step, Free, Disk, Spend
<1>0. DOMAIN work = Threads /\ Idle.op = "idle"
  BY DEF Typed, Idle
<1>1. CASE Migration
  BY <1>1, MigrationFrame DEF MigrateFrame, Typed, HistOK, Migrating
<1>2. CASE LoadKeys
  BY <1>2 DEF LoadKeys, Off
<1>3. CASE Publish
  <2>1. CASE MakesDir
    BY <1>3, <2>1, PublishFrame DEF MakesDir, HistKeeps, BootSound
  <2>2. CASE UNCHANGED <<instances, dirs, hist>> /\ boot'.pc = "rollback"
    BY <1>3, <2>2, PublishFrame
  <2> QED  BY <1>3, <2>1, <2>2, PublishFrame
<1>4. CASE Scan
  BY <1>0, <1>4 DEF Scan, Off
<1>5. CASE Look
  <2>1. PICK ok : Joins(Legacy, ok) /\ SameReports /\ UNCHANGED <<work, tick>> /\ hist'.validated = hist.validated
    BY <1>5, LookFrame
  <2> QED  BY <2>1, JoinTarget
<1>6. CASE Crash
  BY <1>0, <1>6 DEF Crash, Off, Typed, MemoryOK
<1>7. ASSUME NEW t \in Threads, Register(t) PROVE TargetSound'
  <2>1. PICK m, accepted, b, later, ok : Joins(b, ok) /\ Enters(t, m, accepted, b, later)
    BY <1>7, RegisterFrame
  <2> QED  BY <2>1, JoinTarget
<1>8. ASSUME NEW t \in Threads, SetTarget(t) PROVE TargetSound'
  <2>1. TargetDone(t)
    BY <1>8, TargetFrame
  <2>2. CASE UNCHANGED <<target, dirs, hist>>
    BY <2>1, <2>2, <1>0 DEF TargetDone, OthersKeep
  <2>3. ASSUME NEW ok, Addresses(work[t].bundle, work[t].m.addr, ok) PROVE TargetSound'
    BY <2>1, <2>3, <1>0 DEF TargetDone, OthersKeep, Addresses, RegisterSound, AtRegister, Unsaved
  <2> QED  BY <1>8, <2>2, <2>3, TargetFrame
<1>9. ASSUME NEW t \in Threads, RecordRegister(t) PROVE TargetSound'
  BY <1>9 DEF RecordRegister
<1>10. ASSUME NEW t \in Threads, SaveRegister(t) PROVE TargetSound'
  <2>1. Saves(t)
    BY <1>10, SaveFrame
  <2> QED  BY <2>1, <1>0 DEF Saves, OthersKeep
<1>11. ASSUME NEW t \in Threads, AdoptKey(t) PROVE TargetSound'
  <2>1. PICK ok : Adopts(t, ok)
    BY <1>11, AdoptFrame
  <2>2. /\ work[t].m.id \in known /\ Up
        /\ UNCHANGED <<dirs, boot, known, target>>
        /\ hist'.from = hist.from /\ hist'.last = hist.last /\ hist'.unsaved = hist.unsaved
        /\ hist'.answered \subseteq hist.answered \cup {work[t].m.id}
    BY <2>1 DEF Adopts, RegisterSound, AtRegister
  <2> QED  BY <2>2
<1>12. ASSUME NEW t \in Threads, OpenReport(t) PROVE TargetSound'
  <2>1. PICK m \in deploy.reports : Opened(t, m)
    BY <1>12, ReportOpened
  <2> QED  BY <2>1, <1>0 DEF Opened
<1>13. ASSUME NEW t \in Threads, WriteReport(t) PROVE TargetSound'
  <2>1. PICK b, ok : Joins(b, ok) /\ Writes(t, b)
    BY <1>13, WriteFrame
  <2> QED  BY <2>1, JoinTarget
<1>14. ASSUME NEW t \in Threads, Reset(t) PROVE TargetSound'
  BY <1>0, <1>14 DEF Reset
<1>15. ASSUME NEW t \in Threads, ResetOne(t) PROVE TargetSound'
  <2>1. Clears(t)
    BY <1>15, ResetFrame
  <2> QED  BY <1>0, <2>1 DEF Clears, OthersKeep
<1>16. ASSUME NEW t \in Threads, SaveReset(t) PROVE TargetSound'
  <2>1. Clears(t)
    BY <1>16, ClearFrame
  <2> QED  BY <1>0, <2>1 DEF Clears, OthersKeep
<1>17. ASSUME NEW t \in Threads, Route(t) PROVE TargetSound'
  <2>1. PICK to, own : Routed(t, to, own)
    BY <1>17, RouteTaken
  <2> QED  BY <2>1, <1>0 DEF Routed
<1>18. ASSUME NEW t \in Threads, SealAndSend(t) PROVE TargetSound'
  BY <1>0, <1>18 DEF SealAndSend, Typed, HistOK
<1>19. CASE UNCHANGED vars
  BY <1>19 DEF vars, memory, files
<1> QED
  BY <1>1, <1>2, <1>3, <1>4, <1>5, <1>6, <1>7, <1>8, <1>9, <1>10, <1>11, <1>12, <1>13, <1>14, <1>15, <1>16, <1>17, <1>18, <1>19 DEF Next, Migrate, Migration, Handle

(* A request keeps to the addresses and keys of its instance. *)
LEMMA SendStep ==
    ASSUME Typed, ClockSound, BootSound, RegisterSound, KeysSound, TargetSound, SendSound, [Next]_vars
    PROVE  SendSound'
<1> USE DEF SendSound, RouteFits, RoutedHome, files, memory, At, Step, Free, Disk, Spend
<1>0. DOMAIN work = Threads /\ Idle.op = "idle"
      /\ \A u \in Threads : work[u].op = "send" => work[u].id \in Ids
  BY TaskShape DEF Typed, Idle, Sending
<1>1. CASE Migration
  BY <1>1, MigrationFrame DEF MigrateFrame, Typed, HistOK
<1>2. CASE LoadKeys
  BY <1>2 DEF LoadKeys
<1>3. CASE Publish
  <2>1. CASE MakesDir
    BY <1>3, <2>1, PublishFrame DEF MakesDir, HistKeeps
  <2>2. CASE UNCHANGED <<instances, dirs, hist>> /\ boot'.pc = "rollback"
    BY <1>3, <2>2, PublishFrame
  <2> QED  BY <1>3, <2>1, <2>2, PublishFrame
<1>4. CASE Scan
  BY <1>0, <1>4 DEF Scan
<1>5. CASE Look
  <2>1. PICK ok : Joins(Legacy, ok) /\ SameReports /\ UNCHANGED <<work, tick>> /\ hist'.validated = hist.validated
    BY <1>5, LookFrame
  <2> QED  BY <2>1, <1>0 DEF Joins, SameReports, HistKeeps
<1>6. CASE Crash
  BY <1>0, <1>6 DEF Crash, Typed
<1>7. ASSUME NEW t \in Threads, Register(t) PROVE SendSound'
  <2>1. PICK m, accepted, b, later, ok : Joins(b, ok) /\ Enters(t, m, accepted, b, later)
    BY <1>7, RegisterFrame
  <2> QED  BY <2>1, <1>0 DEF Joins, Enters, SameReports, OthersKeep, HistKeeps
<1>8. ASSUME NEW t \in Threads, SetTarget(t) PROVE SendSound'
  <2>1. TargetDone(t)
    BY <1>8, TargetFrame
  <2>2. CASE UNCHANGED <<target, dirs, hist>>
    BY <2>1, <2>2, <1>0 DEF TargetDone, OthersKeep
  <2>3. ASSUME NEW ok, Addresses(work[t].bundle, work[t].m.addr, ok) PROVE SendSound'
    BY <2>1, <2>3, <1>0 DEF TargetDone, OthersKeep, Addresses
  <2> QED  BY <1>8, <2>2, <2>3, TargetFrame
<1>9. ASSUME NEW t \in Threads, RecordRegister(t) PROVE SendSound'
  BY TaskShape, <1>0, <1>9 DEF RecordRegister, Typed, Registering
<1>10. ASSUME NEW t \in Threads, SaveRegister(t) PROVE SendSound'
  <2>1. Saves(t)
    BY <1>10, SaveFrame
  <2> QED  BY <2>1, <1>0 DEF Saves, OthersKeep
<1>11. ASSUME NEW t \in Threads, AdoptKey(t) PROVE SendSound'
  <2>1. PICK ok : Adopts(t, ok)
    BY <1>11, AdoptFrame
  <2>2. \A i \in Ids : hist.adopted[i] \subseteq hist'.adopted[i]
    BY <2>1 DEF Adopts
  <2>3. /\ deploy' = deploy /\ hist'.from = hist.from /\ hist'.sent = hist.sent /\ work'[t].op # "send"
        /\ \A u \in Threads : u # t => work'[u] = work[u]
    BY <1>0, <2>1 DEF Adopts, OthersKeep
  <2> QED  BY <1>0, <2>2, <2>3
<1>12. ASSUME NEW t \in Threads, OpenReport(t) PROVE SendSound'
  <2>1. PICK m \in deploy.reports : Opened(t, m)
    BY <1>12, ReportOpened
  <2> QED  BY <2>1, <1>0 DEF Opened
<1>13. ASSUME NEW t \in Threads, WriteReport(t) PROVE SendSound'
  <2>1. PICK b, ok : Joins(b, ok) /\ Writes(t, b)
    BY <1>13, WriteFrame
  <2> QED  BY <2>1, <1>0 DEF Joins, Writes, OthersKeep, HistKeeps
<1>14. ASSUME NEW t \in Threads, Reset(t) PROVE SendSound'
  BY <1>0, <1>14 DEF Reset
<1>15. ASSUME NEW t \in Threads, ResetOne(t) PROVE SendSound'
  <2>1. Clears(t)
    BY <1>15, ResetFrame
  <2> QED  BY <1>0, <2>1 DEF Clears, OthersKeep
<1>16. ASSUME NEW t \in Threads, SaveReset(t) PROVE SendSound'
  <2>1. Clears(t)
    BY <1>16, ClearFrame
  <2> QED  BY <1>0, <2>1 DEF Clears, OthersKeep
<1>17. ASSUME NEW t \in Threads, Route(t) PROVE SendSound'
  <2>1. PICK to, own : Routed(t, to, own)
    BY <1>17, RouteTaken
  <2>2. /\ UNCHANGED <<hist, deploy>> /\ \A u \in Threads : u # t => work'[u] = work[u]
        /\ work'[t].id = to.id /\ work'[t].addr = to.addr /\ work'[t].own = own
    BY <1>0, <2>1 DEF Routed
  <2>3. RouteFits(work'[t])
    BY <2>1, <2>2 DEF Routed, Fits, TargetSound
  <2> HIDE DEF RouteFits
  <2>4. \A s : RouteFits(s)' <=> RouteFits(s)
    BY <2>2 DEF RouteFits
  <2> QED  BY <2>2, <2>3, <2>4
<1>18. ASSUME NEW t \in Threads, SealAndSend(t) PROVE SendSound'
  <2> DEFINE k == IF work[t].bare THEN 0 ELSE SealedWith(work[t].id)
             s == [id |-> work[t].id, addr |-> work[t].addr, own |-> work[t].own, key |-> k,
                   bare |-> work[t].bare, early |-> NeverKeyed(work[t].id)]
             lost == k = 0 /\ ~work[t].bare
  <2>1. /\ work[t] \in Sending /\ Up /\ UNCHANGED deploy
        /\ work' = [work EXCEPT ![t] = Idle]
        /\ hist' = IF lost THEN hist ELSE [hist EXCEPT !.sent = hist.sent \cup {s}]
    BY <1>18, TaskShape DEF SealAndSend
  <2>2. hist'.sent = (IF lost THEN hist.sent ELSE hist.sent \cup {s})
        /\ hist'.adopted = hist.adopted /\ hist'.from = hist.from
    BY <2>1 DEF Typed, HistOK
  <2>3. KeyTable(keys) /\ work[t].id \in Ids /\ Legacy \in Ids
    BY <2>1, DeployShape DEF KeysSound, Up, Booting, Typed, Sending
  <2>4. ~lost => work[t].bare \/ k \in hist.adopted[work[t].id] \/ (NeverKeyed(work[t].id) /\ k = deploy.keys[Legacy])
    BY <2>3 DEF SealedWith, KeyFor, KeyTable
  <2>5. RouteFits(work[t])
    BY <2>1 DEF Sending
  <2> HIDE DEF k, lost
  <2>6. \A u \in Threads : work'[u].op = "send" => work'[u] = work[u]
    BY <1>0, <2>1
  <2> QED  BY <2>1, <2>2, <2>3, <2>4, <2>5, <2>6
<1>19. CASE UNCHANGED vars
  BY <1>19 DEF vars, memory, files
<1> QED
  BY <1>1, <1>2, <1>3, <1>4, <1>5, <1>6, <1>7, <1>8, <1>9, <1>10, <1>11, <1>12, <1>13, <1>14, <1>15, <1>16, <1>17, <1>18, <1>19 DEF Next, Migrate, Migration, Handle

(* The start of the process and of the history. *)
LEMMA MockInit == ASSUME Init PROVE MockInv
<1> USE DEF Init
<1>1. deploy \in Deployments
  OBVIOUS
<1>2. /\ \A i \in Ids : /\ DOMAIN deploy.dirs[i] = DOMAIN NoDir
                        /\ deploy.dirs[i].meta \in BOOLEAN /\ deploy.dirs[i].target \in Nat
                        /\ deploy.dirs[i].reg \in Records /\ deploy.dirs[i].reg.at <= 1
                        /\ deploy.dirs[i].reports = <<>>
                        /\ ~deploy.dirs[i].meta => deploy.dirs[i].target = 0
                        /\ ~deploy.instances => ~deploy.dirs[i].meta
      /\ DOMAIN deploy.dirs = Ids /\ deploy.legacyReg.at <= 1
  BY <1>1, MockAssumption
<1>3. Typed
  <2>1. \A i \in Ids : DirOK(dirs[i])
    BY <1>2, EmptyReports DEF DirOK
  <2>2. HistOK
    BY <1>1, <1>2, DeployShape DEF HistOK
  <2>3. BootOK
    BY <1>1, DeployShape DEF BootOK, Off
  <2>4. MemoryOK
    BY <1>1, DeployShape DEF MemoryOK, NoRecord, Records
  <2>5. work \in [Threads -> Tasks]
    BY IdleTask
  <2> QED  BY <1>1, <1>2, <2>1, <2>2, <2>3, <2>4, <2>5 DEF Typed
<1>4. ClockSound
  BY <1>2 DEF ClockSound, NoRecord, AtRegister, Idle
<1>5. BootSound
  BY <1>2 DEF BootSound, Up, Booting, Off
<1>6. KeysSound
  BY <1>1, DeployShape DEF KeysSound, KeyTable, NeverKeyed, Off
<1>7. RegisterSound
  BY DEF RegisterSound, AtRegister, Idle
<1>8. ReportSound
  BY <1>2 DEF ReportSound, Idle
<1>9. MembersSound
  BY <1>2 DEF MembersSound, Entitled, Up, Booting, Off
<1>10. TargetSound
  BY <1>2 DEF TargetSound, Up, Booting, Off
<1>11. SendSound
  BY DEF SendSound, RoutedHome, Idle
<1> QED  BY <1>3, <1>4, <1>5, <1>6, <1>7, <1>8, <1>9, <1>10, <1>11 DEF MockInv

LEMMA MockStep == ASSUME MockInv, [Next]_vars PROVE MockInv'
<1> USE DEF MockInv
<1>1. Typed'
  <2>1. WorkOK' /\ DirsOK' /\ HistOK' /\ MemoryOK' /\ BootOK'
    BY WorkTyped, DirsTyped, HistTyped, MemoryTyped, BootTyped
  <2> QED  BY <2>1 DEF Typed, WorkOK, DirsOK
<1> QED
  BY <1>1, ClockStep, BootStep, KeysStep, RegisterStep, ReportStep, MembersStep, TargetStep, SendStep

(***************************************************************************)
(* The inductive invariant, for any deployment: the handlers of            *)
(* handlers_taa.go, overtaken or cut off between any two of their steps,   *)
(* keep the key table, the directories and the addresses of instances.go   *)
(* and keystore.go apart from each other.                                  *)
(***************************************************************************)
THEOREM MockCorrect == Spec => []MockInv
<1>1. Init => MockInv
  BY MockInit
<1>2. MockInv /\ [Next]_vars => MockInv'
  BY MockStep
<1> QED  BY <1>1, <1>2, PTL DEF Spec

(***************************************************************************)
(* No instance writes another's record: an accepted report in the store of *)
(* an instance names it and was signed with its key (openBodyWithID,       *)
(* instanceForWrite).                                                      *)
(***************************************************************************)
THEOREM ReportsCorrect == Spec => []ReportsOwned
<1>1. MockInv => ReportsOwned
  <2> SUFFICES ASSUME MockInv, NEW i \in Ids \ {Legacy}, NEW n \in DOMAIN dirs[i].reports
               PROVE  dirs[i].reports[n].accepted =>
                         /\ dirs[i].reports[n].plain = i \/ Nameless(dirs[i].reports[n])
                         /\ \/ dirs[i].reports[n].key \in hist.adopted[i]
                            \/ dirs[i].reports[n].early /\ dirs[i].reports[n].key = deploy.keys[Legacy]
    BY DEF ReportsOwned
  <2> QED  BY DEF MockInv, ReportSound, Owned
<1> QED  BY <1>1, MockCorrect, PTL

(***************************************************************************)
(* Only an accepted registration makes an instance or changes a key, and   *)
(* one answered with success survives every crash, reset and further       *)
(* registration (registerHandler, setTaaPublicKeyFor, getOrCreate).        *)
(***************************************************************************)
THEOREM RegistrationCorrect == Spec => []RegistrationSound
<1>1. MockInv => OnlyRegistered
  <2> SUFFICES ASSUME MockInv PROVE OnlyRegistered
    OBVIOUS
  <2>1. \A i \in Ids : i \in known \/ dirs[i].meta => Entitled(i)
    BY DEF MockInv, MembersSound
  <2>2. known \subseteq Ids
    BY DEF MockInv, Typed, MemoryOK
  <2>3. Up => \A i \in Ids : keys[i] # deploy.keys[i] => <<i, keys[i]>> \in hist.validated
    BY DEF MockInv, KeysSound, KeyTable, Up, Booting
  <2> QED  BY <2>1, <2>2, <2>3 DEF OnlyRegistered, Entitled
<1>2. MockInv => AcceptedKept
  <2> SUFFICES ASSUME MockInv, Up, NEW i \in hist.answered
               PROVE  keys[i] \in hist.adopted[i] /\ (i \notin hist.unsaved => i \in known /\ target[i] = hist.last[i])
    BY DEF AcceptedKept
  <2>1. i \in Ids
    BY DEF MockInv, Typed, HistOK
  <2>2. KeyTable(keys)
    BY DEF MockInv, KeysSound, Up, Booting
  <2>3. keys[i] \in hist.adopted[i]
    BY <2>1, <2>2 DEF KeyTable, NeverKeyed
  <2>4. i \notin hist.unsaved => dirs[i].meta
    BY <2>1 DEF MockInv, TargetSound
  <2>5. dirs[i].meta => i \in known
    BY <2>1 DEF MockInv, MembersSound
  <2>6. i \in known /\ i \notin hist.unsaved => target[i] = hist.last[i]
    BY <2>1 DEF MockInv, TargetSound
  <2> QED  BY <2>3, <2>4, <2>5, <2>6
<1>3. MockInv => RegistrationSound
  BY <1>1, <1>2 DEF RegistrationSound
<1> QED  BY <1>3, MockCorrect, PTL

(***************************************************************************)
(* No request borrows another instance's key or address (targetFor,        *)
(* sealForTAAFor), whatever registers or crashes between the choice of the *)
(* route and the sealing.                                                  *)
(***************************************************************************)
THEOREM RoutedCorrect == Spec => []RoutedHome
<1>1. MockInv => RoutedHome
  BY DEF MockInv, SendSound
<1> QED  BY <1>1, MockCorrect, PTL

(***************************************************************************)
(* The migration.  Shapes: the copies of the files and the faults left.    *)
(***************************************************************************)
FilesOK ==
    /\ root \in [Files -> Nat]
    /\ staging \in [DOMAIN staging -> [Files -> Nat]]
    /\ DOMAIN staging \subseteq Nat /\ IsFiniteSet(DOMAIN staging)
    /\ boot.todo \subseteq Files /\ boot.kept \in BOOLEAN
    /\ DOMAIN left = Budget /\ left.faults \in Nat /\ left.faults <= deploy.left.faults

(***************************************************************************)
(* Where the newest copy is before instances/ exists: in the root, or in   *)
(* the one staging directory that has the file while the root has none.    *)
(***************************************************************************)
Alone(d, f) == \A e \in DOMAIN staging \ {d} : staging[e][f] = Absent
Nowhere(f) == root[f] = Absent /\ \A e \in DOMAIN staging : staging[e][f] = Absent
Safe(f) ==
    IF Newest(f) = Absent THEN Nowhere(f)
    ELSE \/ root[f] = Newest(f)
         \/ root[f] = Absent /\ \E d \in DOMAIN staging : staging[d][f] = Newest(f) /\ Alone(d, f)
Exempt(f) == f \in hist.unreturned \cup hist.stale

CopySound == \A f \in Files :
    /\ ~instances => Safe(f) \/ Exempt(f)
    /\ instances /\ Newest(f) # Absent => Somewhere(f) \/ Exempt(f)

(***************************************************************************)
(* What the loops of the migration know of the files they have passed.     *)
(***************************************************************************)
RecoverSound == boot.pc = "recover" =>
    /\ boot.dir = None => boot.todo = {}
    /\ boot.dir # None => boot.dir \in DOMAIN staging /\ boot.dir \in boot.seen
    /\ \A f \in boot.todo : staging[boot.dir][f] # Absent
    /\ boot.dir # None /\ ~boot.kept =>
         \A f \in Files \ boot.todo : staging[boot.dir][f] = Absent \/ root[f] # Absent
    /\ \A e \in (DOMAIN staging \cap boot.seen) \ {boot.dir} : \A f \in Files :
         staging[e][f] = Absent \/ root[f] = Absent \/ Exempt(f)

StageSound == boot.pc = "stage" =>
    /\ boot.dir \in DOMAIN staging
    /\ \A f \in Files : /\ f \in boot.todo <=> root[f] # Absent
                        /\ staging[boot.dir][f] # Absent => root[f] = Absent
                        /\ f \in boot.todo => Alone(boot.dir, f) \/ Exempt(f)

RollbackSound == boot.pc = "rollback" =>
    /\ boot.dir \in DOMAIN staging
    /\ \A f \in Files : /\ staging[boot.dir][f] # Absent => root[f] = Absent
                        /\ f \in boot.todo => staging[boot.dir][f] # Absent
                        /\ f \notin boot.todo => staging[boot.dir][f] = Absent \/ f \in hist.unreturned

LoopSound == RecoverSound /\ StageSound /\ RollbackSound

(***************************************************************************)
(* As long as no file operation failed: every staging directory is put     *)
(* back, everything is staged in one, and that one is published under the  *)
(* dockerId of the register record.                                        *)
(***************************************************************************)
Unfailed == left.faults = deploy.left.faults
Published == dirs[deploy.legacyId].meta
             /\ \A f \in Files : Newest(f) # Absent => dirs[deploy.legacyId].files[f] = Newest(f)
UnfailedSound == Unfailed =>
    /\ boot.pc # "rollback" /\ ~boot.kept /\ hist.unreturned = {} /\ hist.stale = {}
    /\ boot.pc = "recover" => DOMAIN staging \cap boot.seen \subseteq {boot.dir}
    /\ boot.pc = "stage" => DOMAIN staging = {boot.dir} /\ boot.id = deploy.legacyId
    /\ boot.pc = "scan" /\ ~instances => \A f \in Files : Newest(f) = Absent
    /\ instances /\ ~deploy.instances /\ (\E f \in Files : Newest(f) # Absent) => Published

MigrationInv == FilesOK /\ CopySound /\ LoopSound /\ UnfailedSound

(* The next file of a list is on it. *)
LEMMA FirstFile == ASSUME NEW S \in SUBSET Files, S # {} PROVE First(S) \in S
<1>1. DOMAIN LegacyFiles = {1, 2} /\ LegacyFiles[1] = "register" /\ LegacyFiles[2] = "report"
  BY DEF LegacyFiles
<1>2. Files = {"register", "report"}
  BY <1>1 DEF Files
<1> DEFINE P(n) == LegacyFiles[n] \in S /\ \A m \in 1..(n - 1) : LegacyFiles[m] \notin S
<1>3. \E n \in DOMAIN LegacyFiles : P(n)
  <2>1. CASE "register" \in S
    BY <1>1, <2>1
  <2>2. CASE "register" \notin S
    <3>1. "report" \in S
      BY <1>2, <2>2
    <3>2. \A m \in 1..(2 - 1) : m = 1
      OBVIOUS
    <3>3. P(2)
      BY <1>1, <2>2, <3>1, <3>2
    <3> QED  BY <1>1, <3>3
  <2> QED  BY <2>1, <2>2
<1>4. P(CHOOSE n \in DOMAIN LegacyFiles : P(n))
  BY <1>3
<1> QED  BY <1>4 DEF First

(* The newest copy of a deployment's file. *)
LEMMA NewestCopy ==
    ASSUME deploy \in Deployments, NEW f \in Files
    PROVE  /\ deploy.root[f] # Absent => Newest(f) = deploy.root[f]
           /\ \A e \in DOMAIN deploy.staging : deploy.root[f] = Absent /\ deploy.staging[e][f] # Absent
                => Newest(f) = deploy.staging[e][f]
           /\ deploy.root[f] = Absent /\ (\A e \in DOMAIN deploy.staging : deploy.staging[e][f] = Absent)
                => Newest(f) = Absent
<1> DEFINE vs == {deploy.root[f]} \cup {deploy.staging[d][f] : d \in DOMAIN deploy.staging}
<1>1. /\ deploy.root \in [Files -> Nat] /\ LastWritten(deploy, f)
      /\ deploy.staging \in [DOMAIN deploy.staging -> [Files -> Nat]]
  BY MockAssumption DEF Staged
<1>2. ASSUME NEW v \in vs, \A w \in vs : w <= v PROVE Newest(f) = v
  <2>1. vs \subseteq Nat
    BY <1>1
  <2>2. Newest(f) \in vs /\ \A w \in vs : w <= Newest(f)
    BY <1>2 DEF Newest
  <2> HIDE DEF vs
  <2>3. v \in Nat /\ Newest(f) \in Nat /\ v <= Newest(f) /\ Newest(f) <= v
    BY <1>2, <2>1, <2>2
  <2> QED  BY <2>3
<1>3. deploy.root[f] # Absent => Newest(f) = deploy.root[f]
  <2> SUFFICES ASSUME deploy.root[f] # Absent PROVE Newest(f) = deploy.root[f]
    OBVIOUS
  <2>1. deploy.root[f] \in vs /\ \A w \in vs : w <= deploy.root[f]
    BY <1>1 DEF LastWritten, Absent
  <2> HIDE DEF vs
  <2> QED  BY <1>2, <2>1
<1>4. ASSUME NEW e \in DOMAIN deploy.staging, deploy.root[f] = Absent, deploy.staging[e][f] # Absent
      PROVE  Newest(f) = deploy.staging[e][f]
  <2>1. deploy.staging[e][f] \in vs /\ \A w \in vs : w <= deploy.staging[e][f]
    BY <1>1, <1>4 DEF LastWritten, Absent
  <2> HIDE DEF vs
  <2> QED  BY <1>2, <2>1
<1>5. ASSUME deploy.root[f] = Absent, \A e \in DOMAIN deploy.staging : deploy.staging[e][f] = Absent
      PROVE  Newest(f) = Absent
  <2>1. Absent \in vs /\ \A w \in vs : w <= Absent
    BY <1>5 DEF Absent
  <2> HIDE DEF vs
  <2> QED  BY <1>2, <2>1
<1> QED  BY <1>3, <1>4, <1>5

(* The files of a deployment are where the invariant wants them. *)
LEMMA MigrationInit == ASSUME Init PROVE MigrationInv
<1> USE DEF Init, Off
<1>1. deploy \in Deployments
  OBVIOUS
<1>2. /\ DOMAIN deploy.left = Budget /\ deploy.left.faults \in Nat
      /\ deploy.root \in [Files -> Nat] /\ Staged(deploy)
      /\ DOMAIN deploy.staging \subseteq Nat /\ IsFiniteSet(DOMAIN deploy.staging)
      /\ \A f \in Files : LastWritten(deploy, f)
      /\ deploy.instances \in BOOLEAN
  BY <1>1, MockAssumption
<1>3. FilesOK
  BY <1>2 DEF FilesOK, Staged
<1>4. ASSUME NEW f \in Files PROVE Safe(f)
  <2>1. CASE root[f] # Absent
    BY <1>1, <2>1, NewestCopy DEF Safe
  <2>2. ASSUME root[f] = Absent, NEW e \in DOMAIN staging, staging[e][f] # Absent PROVE Safe(f)
    <3>1. Newest(f) = staging[e][f]
      BY <1>1, <2>2, NewestCopy
    <3>2. Alone(e, f)
      BY <1>2, <2>2 DEF Alone, LastWritten
    <3> QED  BY <2>2, <3>1, <3>2 DEF Safe
  <2>3. CASE Nowhere(f)
    BY <1>1, <2>3, NewestCopy DEF Safe, Nowhere
  <2> QED  BY <2>1, <2>2, <2>3 DEF Nowhere
<1>5. CopySound
  BY <1>4 DEF CopySound, Safe, Somewhere
<1>6. LoopSound
  BY DEF LoopSound, RecoverSound, StageSound, RollbackSound
<1>7. UnfailedSound
  BY <1>2 DEF UnfailedSound
<1> QED  BY <1>3, <1>5, <1>6, <1>7 DEF MigrationInv

(***************************************************************************)
(* What serves requests leaves the migration's files alone.                *)
(***************************************************************************)
Serving ==
    /\ UNCHANGED <<deploy, root, staging, instances, boot>>
    /\ \A i \in Ids : dirs'[i].files = dirs[i].files /\ (dirs[i].meta => dirs'[i].meta)
    /\ hist'.unreturned = hist.unreturned /\ hist'.stale = hist.stale
    /\ DOMAIN left' = Budget /\ left'.faults \in Nat /\ left'.faults <= left.faults

(* Adding an instance (join, instances.go) writes no migrated file. *)
LEMMA JoinFiles ==
    ASSUME Typed, NEW b \in Ids, NEW ok \in BOOLEAN
    PROVE  Joined(b, ok).files = dirs[b].files /\ (dirs[b].meta => Joined(b, ok).meta)
<1>1. DOMAIN dirs[b] = DOMAIN NoDir
  BY DEF Typed, DirOK
<1> QED  BY <1>1 DEF Joined, NoDir

(* A request handler changes no copy of the legacy files. *)
LEMMA ServingFrame ==
    ASSUME Typed, FilesOK, Look \/ \E t \in Threads : Handle(t)
    PROVE  Serving
<1> USE DEF Serving, files, memory, At, Step, Free
<1>0. /\ DOMAIN dirs = Ids /\ \A i \in Ids : DOMAIN dirs[i] = DOMAIN NoDir
      /\ HistOK /\ DOMAIN left = Budget /\ left.faults \in Nat /\ "faults" \in Budget
  BY DEF Typed, DirOK, FilesOK, Budget
<1>1. ASSUME NEW ok \in BOOLEAN, Disk(ok)
      PROVE  DOMAIN left' = Budget /\ left'.faults \in Nat /\ left'.faults <= left.faults
  BY <1>0, <1>1 DEF Disk
<1>2. ASSUME NEW x \in Budget \ {"faults"}, Spend(x)
      PROVE  DOMAIN left' = Budget /\ left'.faults \in Nat /\ left'.faults <= left.faults
  BY <1>0, <1>2 DEF Spend
<1>3. CASE Look
  <2>1. PICK ok \in BOOLEAN : /\ ok \/ left.faults > 0
           /\ left' = [left EXCEPT !.looks = @ - 1, !.faults = IF ok THEN @ ELSE @ - 1]
           /\ dirs' = [dirs EXCEPT ![Legacy] = Joined(Legacy, ok)]
           /\ hist' = [hist EXCEPT !.unsaved = UnsavedIn(Legacy, ok)]
    BY <1>3 DEF Look
  <2>2. Legacy \in Ids
    BY DeployShape DEF Typed
  <2>3. DOMAIN left' = Budget /\ left'.faults \in Nat /\ left'.faults <= left.faults
    BY <1>0, <2>1
  <2>4. \A i \in Ids : dirs'[i].files = dirs[i].files /\ (dirs[i].meta => dirs'[i].meta)
    BY <1>0, <2>1, <2>2, JoinFiles
  <2>5. hist'.unreturned = hist.unreturned /\ hist'.stale = hist.stale
    BY <1>0, <2>1 DEF HistOK
  <2> QED  BY <1>3, <2>3, <2>4, <2>5 DEF Look
<1>4. ASSUME NEW t \in Threads, Register(t) PROVE Serving
  <2>1. PICK m, accepted, b, later, ok : Arrives(t, m, accepted, b, later, ok)
    BY <1>4, RegisterArrives
  <2>2. DOMAIN left' = Budget /\ left'.faults \in Nat /\ left'.faults <= left.faults
    <3>1. PICK o \in BOOLEAN : /\ o \/ left.faults > 0
             /\ left' = [left EXCEPT !.regs = @ - 1, !.faults = IF o THEN @ ELSE @ - 1]
      BY <1>4 DEF Register
    <3> QED  BY <1>0, <3>1
  <2>3. \A i \in Ids : dirs'[i].files = dirs[i].files /\ (dirs[i].meta => dirs'[i].meta)
    BY <1>0, <2>1, JoinFiles DEF Arrives
  <2>4. hist'.unreturned = hist.unreturned /\ hist'.stale = hist.stale
    BY <1>0, <2>1 DEF HistOK, Arrives
  <2> QED  BY <2>1, <2>2, <2>3, <2>4 DEF Arrives
<1>5. ASSUME NEW t \in Threads, SetTarget(t) PROVE Serving
  <2>1. left' = left \/ \E ok \in BOOLEAN : Disk(ok)
    BY <1>5 DEF SetTarget
  <2>2. DOMAIN left' = Budget /\ left'.faults \in Nat /\ left'.faults <= left.faults
    BY <1>0, <1>1, <2>1
  <2>3. CASE UNCHANGED <<dirs, hist>>
    BY <1>5, <2>2, <2>3, TargetAddressed
  <2>4. ASSUME NEW ok \in BOOLEAN, Addressed(work[t].bundle, work[t].m.addr, ok) PROVE Serving
    <3>1. work[t].bundle \in Ids /\ work[t].m.addr \in Nat
      BY <1>5, TargetAddressed
    <3>2. hist'.unreturned = hist.unreturned /\ hist'.stale = hist.stale
      BY <1>0, <2>4 DEF HistOK, Addressed
    <3>3. \A i \in Ids : dirs'[i].files = dirs[i].files /\ (dirs[i].meta => dirs'[i].meta)
      BY <1>0, <2>4, <3>1 DEF Addressed, NoDir
    <3> QED  BY <1>5, <2>2, <3>2, <3>3, TargetAddressed
  <2> QED  BY <1>5, <2>3, <2>4, TargetAddressed
<1>6. ASSUME NEW t \in Threads, RecordRegister(t) \/ OpenReport(t) \/ Reset(t) \/ Route(t) PROVE Serving
  <2>1. left' = left \/ Spend("reports") \/ Spend("resets") \/ Spend("sends")
    BY <1>6 DEF RecordRegister, OpenReport, Reset, Route
  <2>2. DOMAIN left' = Budget /\ left'.faults \in Nat /\ left'.faults <= left.faults
    BY <1>0, <1>2, <2>1 DEF Budget
  <2> QED  BY <1>6, <2>2 DEF RecordRegister, OpenReport, Reset, Route
<1>7. ASSUME NEW t \in Threads, SaveRegister(t) \/ SaveReset(t) PROVE Serving
  <2>0. work[t].bundle \in Ids
    BY <1>7, TaskShape DEF SaveRegister, SaveReset, AtRegister, Registering, Clearing
  <2>1. \/ dirs' = dirs
        \/ dirs' = [dirs EXCEPT ![work[t].bundle].reg = work[t].rec]
        \/ dirs' = [dirs EXCEPT ![work[t].bundle].reg = NoRecord]
    BY <1>7 DEF SaveRegister, SaveReset
  <2>2. \A i \in Ids : dirs'[i].files = dirs[i].files /\ (dirs[i].meta => dirs'[i].meta)
    BY <1>0, <2>0, <2>1 DEF NoDir
  <2>3. \E ok \in BOOLEAN : Disk(ok)
    BY <1>7 DEF SaveRegister, SaveReset
  <2>4. DOMAIN left' = Budget /\ left'.faults \in Nat /\ left'.faults <= left.faults
    BY <1>1, <2>3
  <2> QED  BY <1>7, <2>2, <2>4 DEF SaveRegister, SaveReset
<1>8. ASSUME NEW t \in Threads, AdoptKey(t) PROVE Serving
  <2>1. \E ok \in BOOLEAN : Disk(ok)
    BY <1>8 DEF AdoptKey
  <2>2. DOMAIN left' = Budget /\ left'.faults \in Nat /\ left'.faults <= left.faults
    BY <1>1, <2>1
  <2>3. hist'.unreturned = hist.unreturned /\ hist'.stale = hist.stale
    BY <1>0, <1>8 DEF HistOK, AdoptKey
  <2> QED  BY <1>8, <2>2, <2>3 DEF AdoptKey
<1>9. ASSUME NEW t \in Threads, WriteReport(t) PROVE Serving
  <2>1. PICK b, ok : Written(t, b, ok)
    BY <1>9, ReportWritten
  <2>2. \E o \in BOOLEAN : Disk(o)
    BY <1>9 DEF WriteReport
  <2>3. DOMAIN left' = Budget /\ left'.faults \in Nat /\ left'.faults <= left.faults
    BY <1>1, <2>2
  <2>4. DOMAIN Joined(b, ok) = DOMAIN NoDir
    BY <2>1, JoinDir DEF Written, DirOK
  <2>5. \A i \in Ids : dirs'[i].files = dirs[i].files /\ (dirs[i].meta => dirs'[i].meta)
    BY <1>0, <2>1, <2>4, JoinFiles DEF Written, NoDir
  <2>6. hist'.unreturned = hist.unreturned /\ hist'.stale = hist.stale
    BY <1>0, <2>1 DEF HistOK, Written
  <2> QED  BY <1>9, <2>3, <2>5, <2>6 DEF WriteReport
<1>10. ASSUME NEW t \in Threads, ResetOne(t) PROVE Serving
  <2>1. PICK b \in Ids : dirs' = dirs \/ dirs' = [dirs EXCEPT ![b].reports = <<>>]
    BY <1>10, ResetBundle
  <2>2. \A i \in Ids : dirs'[i].files = dirs[i].files /\ (dirs[i].meta => dirs'[i].meta)
    BY <1>0, <2>1 DEF NoDir
  <2> QED  BY <1>0, <1>10, <2>2 DEF ResetOne
<1>11. ASSUME NEW t \in Threads, SealAndSend(t) PROVE Serving
  <2>1. hist' = hist \/ \E x : hist' = [hist EXCEPT !.sent = x]
    BY <1>11 DEF SealAndSend
  <2>2. hist'.unreturned = hist.unreturned /\ hist'.stale = hist.stale
    BY <1>0, <2>1 DEF HistOK
  <2> QED  BY <1>0, <1>11, <2>2 DEF SealAndSend
<1> QED  BY <1>3, <1>4, <1>5, <1>6, <1>7, <1>8, <1>9, <1>10, <1>11 DEF Handle

(* The newest copy is a matter of the deployment. *)
LEMMA NewestStays == ASSUME UNCHANGED deploy PROVE \A f \in Files : Newest(f)' = Newest(f)
BY DEF Newest

(* What a file operation leaves of the faults. *)
LEMMA DiskFaults ==
    ASSUME deploy \in Deployments, FilesOK, NEW ok \in BOOLEAN, Disk(ok)
    PROVE  /\ DOMAIN left' = Budget /\ left'.faults \in Nat /\ left'.faults <= deploy.left.faults
           /\ left'.faults = deploy.left.faults => ok
           /\ ok => left' = left
<1>1. deploy.left.faults \in Nat
  BY MockAssumption
<1> QED  BY <1>1 DEF FilesOK, Disk, Budget

(* Requests are served once instances/ exists, and the copies stay. *)
LEMMA ServingKeeps ==
    ASSUME MockInv, MigrationInv, Serving, boot.pc = "up" PROVE MigrationInv'
<1> USE DEF Serving, MigrationInv
<1>1. instances /\ deploy.legacyId \in Ids
  BY DeployShape DEF MockInv, BootSound, Up, Booting, Typed
<1>2. \A f \in Files : Newest(f)' = Newest(f)
  BY NewestStays
<1>3. FilesOK' /\ (Unfailed' => Unfailed)
  <2>1. deploy.left.faults \in Nat
    BY MockAssumption DEF MockInv, Typed
  <2>2. left.faults \in Nat /\ left.faults <= deploy.left.faults
    BY DEF FilesOK
  <2>3. left'.faults \in Nat /\ left'.faults <= left.faults /\ deploy' = deploy
    OBVIOUS
  <2>4. left'.faults <= deploy'.left.faults /\ (Unfailed' => Unfailed)
    BY <2>1, <2>2, <2>3 DEF Unfailed
  <2> QED  BY <2>4 DEF FilesOK
<1>4. CopySound'
  <2> SUFFICES ASSUME NEW f \in Files, Newest(f) # Absent PROVE (Somewhere(f) \/ Exempt(f))'
    BY <1>1, <1>2 DEF CopySound
  <2>1. Somewhere(f) \/ Exempt(f)
    BY <1>1 DEF CopySound
  <2> QED  BY <1>2, <2>1 DEF Somewhere, Exempt
<1>5. LoopSound'
  BY DEF LoopSound, RecoverSound, StageSound, RollbackSound
<1>6. UnfailedSound'
  <2> SUFFICES ASSUME Unfailed' PROVE UnfailedSound'
    BY DEF UnfailedSound
  <2>1. Unfailed
    BY <1>3
  <2>2. Published => Published'
    BY <1>1, <1>2 DEF Published
  <2> QED  BY <1>1, <1>2, <2>1, <2>2 DEF UnfailedSound
<1> QED  BY <1>3, <1>4, <1>5, <1>6

(* A start reads the keys and looks whether instances/ exists. *)
LEMMA LoadKeeps == ASSUME MockInv, MigrationInv, LoadKeys PROVE MigrationInv'
<1> USE DEF MigrationInv
<1>1. /\ UNCHANGED <<deploy, root, staging, instances, dirs, left, hist>>
      /\ boot' = [pc |-> IF instances THEN "scan" ELSE "recover", dir |-> None, todo |-> {}, seen |-> {},
                  kept |-> FALSE, id |-> Legacy]
  BY DEF LoadKeys, files, Off
<1>2. \A f \in Files : Newest(f)' = Newest(f)
  BY <1>1, NewestStays
<1>3. FilesOK'
  BY <1>1 DEF FilesOK
<1>4. CopySound'
  BY <1>1, <1>2 DEF CopySound, Safe, Alone, Nowhere, Somewhere, Exempt
<1>5. LoopSound'
  BY <1>1 DEF LoopSound, RecoverSound, StageSound, RollbackSound
<1>6. UnfailedSound'
  BY <1>1, <1>2 DEF UnfailedSound, Unfailed, Published
<1> QED  BY <1>3, <1>4, <1>5, <1>6

(* A crash leaves the files as they are. *)
LEMMA CrashKeeps == ASSUME MockInv, MigrationInv, Crash PROVE MigrationInv'
<1> USE DEF MigrationInv
<1>1. /\ UNCHANGED <<deploy, root, staging, instances, dirs, hist>>
      /\ boot' = [pc |-> "off", dir |-> None, todo |-> {}, seen |-> {}, kept |-> FALSE, id |-> Legacy]
      /\ DOMAIN left' = DOMAIN left /\ left'.faults = left.faults
  BY DEF Crash, files, Off, Spend, FilesOK, Budget
<1>2. \A f \in Files : Newest(f)' = Newest(f)
  BY <1>1, NewestStays
<1>3. FilesOK'
  BY <1>1 DEF FilesOK
<1>4. CopySound'
  BY <1>1, <1>2 DEF CopySound, Safe, Alone, Nowhere, Somewhere, Exempt
<1>5. LoopSound'
  BY <1>1 DEF LoopSound, RecoverSound, StageSound, RollbackSound
<1>6. UnfailedSound'
  BY <1>1, <1>2 DEF UnfailedSound, Unfailed, Published
<1> QED  BY <1>3, <1>4, <1>5, <1>6

(* instances/ is made, whatever became of the migration. *)
LEMMA ScanKeeps == ASSUME MockInv, MigrationInv, Scan PROVE MigrationInv'
<1> USE DEF MigrationInv
<1>1. /\ UNCHANGED <<deploy, root, staging, dirs, left, hist>> /\ instances' = TRUE
      /\ boot' = [pc |-> "up", dir |-> None, todo |-> {}, seen |-> {}, kept |-> FALSE, id |-> Legacy]
      /\ boot.pc = "scan"
  BY DEF Scan, Off, Booting
<1>2. \A f \in Files : Newest(f)' = Newest(f)
  BY <1>1, NewestStays
<1>3. FilesOK'
  BY <1>1 DEF FilesOK
<1>4. CopySound'
  <2> SUFFICES ASSUME NEW f \in Files, Newest(f) # Absent PROVE (Somewhere(f) \/ Exempt(f))'
    BY <1>1, <1>2 DEF CopySound
  <2>1. Somewhere(f) \/ Exempt(f)
    BY DEF CopySound, Safe, Somewhere
  <2> QED  BY <1>1, <1>2, <2>1 DEF Somewhere, Exempt
<1>5. LoopSound'
  BY <1>1 DEF LoopSound, RecoverSound, StageSound, RollbackSound
<1>6. UnfailedSound'
  BY <1>1, <1>2 DEF UnfailedSound, Unfailed, Published
<1> QED  BY <1>3, <1>4, <1>5, <1>6

(* Before instances/ exists a file is safe, or exempt. *)
LEMMA SafeBefore ==
    ASSUME MockInv, MigrationInv, boot.pc \in Migrating
    PROVE  ~instances /\ \A f \in Files : Safe(f) \/ Exempt(f)
BY DEF MockInv, BootSound, MigrationInv, CopySound, Migrating

(* The next staging directory, whose files are all to be put back. *)
LEMMA RecoverDirKeeps == ASSUME MockInv, MigrationInv, RecoverDir PROVE MigrationInv'
<1> USE DEF MigrationInv
<1>1. DOMAIN boot = {"pc", "dir", "todo", "seen", "kept", "id"}
  BY DEF MockInv, Typed, BootOK, Off
<1>2. PICK d \in DOMAIN staging \ boot.seen :
         boot' = [boot EXCEPT !.dir = d, !.todo = Present(staging[d]),
                              !.seen = @ \cup {d}, !.kept = FALSE]
  BY DEF RecoverDir
<1>3. /\ UNCHANGED <<deploy, root, staging, instances, dirs, left, hist>>
      /\ boot.pc = "recover" /\ boot.dir = None
  BY DEF RecoverDir, QuietBoot, files, Booting
<1>4. /\ boot'.pc = "recover" /\ boot'.dir = d /\ boot'.todo = {f \in Files : staging[d][f] # Absent}
      /\ boot'.seen = boot.seen \cup {d} /\ ~boot'.kept /\ boot'.kept \in BOOLEAN /\ boot'.id = boot.id
  BY <1>1, <1>2, <1>3 DEF Present
<1>5. \A f \in Files : Newest(f)' = Newest(f)
  BY <1>3, NewestStays
<1>6. FilesOK'
  BY <1>3, <1>4 DEF FilesOK
<1>7. CopySound'
  BY <1>3, <1>5 DEF CopySound, Safe, Alone, Nowhere, Somewhere, Exempt
<1>8. d \in Nat /\ None \notin DOMAIN staging
  BY DEF FilesOK, None
<1>9. LoopSound'
  BY <1>3, <1>4, <1>8 DEF LoopSound, RecoverSound, StageSound, RollbackSound, Exempt
<1>10. UnfailedSound'
  BY <1>3, <1>4, <1>5, <1>8 DEF UnfailedSound, Unfailed, Published
<1> QED  BY <1>6, <1>7, <1>9, <1>10

(***************************************************************************)
(* A rename that moves file f between the root and directory d, one way or *)
(* the other, and what that does to the copies.                            *)
(***************************************************************************)
MovedBack(d, f) == /\ root' = [root EXCEPT ![f] = staging[d][f]]
                   /\ staging' = [staging EXCEPT ![d][f] = Absent]
MovedOut(d, f) == /\ staging' = [staging EXCEPT ![d][f] = root[f]]
                  /\ root' = [root EXCEPT ![f] = Absent]

(* What the root and the staging directories hold once a file is moved back. *)
LEMMA MovedBackCopies ==
    ASSUME FilesOK, NEW d \in DOMAIN staging, NEW f \in Files, MovedBack(d, f)
    PROVE  /\ root' \in [Files -> Nat] /\ staging' \in [DOMAIN staging' -> [Files -> Nat]]
           /\ DOMAIN staging' = DOMAIN staging
           /\ root'[f] = staging[d][f] /\ staging'[d][f] = Absent
           /\ \A g \in Files \ {f} : root'[g] = root[g] /\ staging'[d][g] = staging[d][g]
           /\ \A e \in DOMAIN staging \ {d} : staging'[e] = staging[e]
BY DEF FilesOK, MovedBack, Absent

(* What the root and the staging directories hold once a file is staged. *)
LEMMA MovedOutCopies ==
    ASSUME FilesOK, NEW d \in DOMAIN staging, NEW f \in Files, MovedOut(d, f)
    PROVE  /\ root' \in [Files -> Nat] /\ staging' \in [DOMAIN staging' -> [Files -> Nat]]
           /\ DOMAIN staging' = DOMAIN staging
           /\ root'[f] = Absent /\ staging'[d][f] = root[f]
           /\ \A g \in Files \ {f} : root'[g] = root[g] /\ staging'[d][g] = staging[d][g]
           /\ \A e \in DOMAIN staging \ {d} : staging'[e] = staging[e]
BY DEF FilesOK, MovedOut, Absent

(* A copy moved back where the root has none: it is the newest, and the file's only one. *)
LEMMA MovedBackSafe ==
    ASSUME FilesOK, NEW d \in DOMAIN staging, NEW f \in Files, MovedBack(d, f), UNCHANGED deploy,
           root[f] = Absent, staging[d][f] # Absent, Safe(f)
    PROVE  Safe(f)' /\ \A e \in DOMAIN staging \ {d} : staging[e][f] = Absent
<1>1. Newest(f)' = Newest(f)
  BY NewestStays
<1>2. Newest(f) # Absent /\ staging[d][f] = Newest(f) /\ Alone(d, f)
  BY DEF Safe, Nowhere, Alone
<1>3. root'[f] = staging[d][f]
  BY MovedBackCopies
<1> QED  BY <1>1, <1>2, <1>3 DEF Safe, Alone

(* The other files keep theirs. *)
LEMMA OthersSafe ==
    ASSUME NEW g \in Files, DOMAIN staging' = DOMAIN staging, UNCHANGED deploy, root'[g] = root[g],
           \A e \in DOMAIN staging : staging'[e][g] = staging[e][g], Safe(g)
    PROVE  Safe(g)'
<1>1. Newest(g)' = Newest(g)
  BY NewestStays
<1> QED  BY <1>1 DEF Safe, Alone, Nowhere

(* One staged file is put back, or not. *)
LEMMA RestoreKeeps == ASSUME MockInv, MigrationInv, RestoreFile PROVE MigrationInv'
<1> USE DEF MigrationInv
<1>1. /\ DOMAIN boot = {"pc", "dir", "todo", "seen", "kept", "id"} /\ deploy \in Deployments
      /\ boot.pc = "recover" /\ boot.todo # {} /\ UNCHANGED <<deploy, instances, dirs, hist>>
  BY DEF MockInv, Typed, BootOK, Off, RestoreFile, Booting, QuietBoot, files
<1>2. PICK f \in Files : f = First(boot.todo) /\ f \in boot.todo
  BY <1>1, FirstFile DEF FilesOK
<1>3. PICK d \in DOMAIN staging : d = boot.dir /\ staging[d][f] # Absent /\ d # None
  BY <1>1, <1>2 DEF LoopSound, RecoverSound
<1> DEFINE Skips == /\ root[f] # Absent /\ UNCHANGED <<left, root, staging>>
                    /\ boot' = [boot EXCEPT !.todo = @ \ {f}]
           Restores == /\ root[f] = Absent /\ MovedBack(d, f) /\ Disk(TRUE)
                       /\ boot' = [boot EXCEPT !.todo = @ \ {f}, !.kept = @ \/ ~TRUE]
           Fails == /\ root[f] = Absent /\ UNCHANGED <<root, staging>> /\ Disk(FALSE)
                    /\ boot' = [boot EXCEPT !.todo = @ \ {f}, !.kept = @ \/ ~FALSE]
<1>4. ~instances /\ \A g \in Files : Safe(g) \/ Exempt(g)
  BY <1>1, SafeBefore DEF Migrating
<1>5. \A g \in Files : Newest(g)' = Newest(g) /\ (Exempt(g)' <=> Exempt(g))
  BY <1>1, NewestStays DEF Exempt
<1>6. \/ Skips \/ Restores \/ Fails
  BY <1>2, <1>3 DEF RestoreFile, MovedBack, files
<1>7. /\ boot'.pc = "recover" /\ boot'.dir = d /\ boot'.todo = boot.todo \ {f}
      /\ boot'.seen = boot.seen /\ boot'.id = boot.id
  BY <1>1, <1>3, <1>6
<1>8. CASE root[f] # Absent /\ boot'.kept = boot.kept /\ UNCHANGED <<left, root, staging>>
  <2>1. FilesOK'
    BY <1>1, <1>7, <1>8 DEF FilesOK
  <2>2. CopySound'
    BY <1>1, <1>4, <1>5, <1>8 DEF CopySound, Safe, Alone, Nowhere
  <2>3. LoopSound'
    BY <1>1, <1>2, <1>3, <1>5, <1>7, <1>8 DEF LoopSound, RecoverSound, StageSound, RollbackSound
  <2>4. UnfailedSound'
    BY <1>1, <1>3, <1>4, <1>5, <1>7, <1>8 DEF UnfailedSound, Unfailed
  <2> QED  BY <2>1, <2>2, <2>3, <2>4
<1>9. CASE root[f] = Absent /\ boot'.kept = boot.kept /\ MovedBack(d, f) /\ Disk(TRUE)
  <2>1. left' = left
    BY <1>1, <1>9, DiskFaults
  <2>2. /\ root' \in [Files -> Nat] /\ staging' \in [DOMAIN staging' -> [Files -> Nat]]
        /\ DOMAIN staging' = DOMAIN staging
        /\ root'[f] = staging[d][f] /\ staging'[d][f] = Absent
        /\ \A g \in Files \ {f} : root'[g] = root[g] /\ staging'[d][g] = staging[d][g]
        /\ \A e \in DOMAIN staging \ {d} : staging'[e] = staging[e]
    BY <1>2, <1>3, <1>9, MovedBackCopies
  <2>3. Exempt(f) \/ (Safe(f)' /\ \A e \in DOMAIN staging \ {d} : staging[e][f] = Absent)
    BY <1>1, <1>2, <1>3, <1>4, <1>9, MovedBackSafe
  <2>4. \A g \in Files : Safe(g)' \/ Exempt(g)'
    BY <1>1, <1>4, <1>5, <2>2, <2>3, OthersSafe
  <2>5. FilesOK'
    BY <1>1, <1>7, <1>9, <2>1, <2>2 DEF FilesOK
  <2>6. CopySound'
    BY <1>1, <1>4, <2>4 DEF CopySound
  <2>7. RecoverSound'
    <3>1. \A g \in boot'.todo : staging'[boot'.dir][g] # Absent
      BY <1>1, <1>3, <1>7, <2>2 DEF LoopSound, RecoverSound, FilesOK
    <3>2. ~boot'.kept => \A g \in Files \ boot'.todo : staging'[d][g] = Absent \/ root'[g] # Absent
      BY <1>1, <1>3, <1>7, <1>9, <2>2 DEF LoopSound, RecoverSound
    <3>3. \A e \in (DOMAIN staging \cap boot.seen) \ {d} : \A g \in Files :
            staging[e][g] = Absent \/ root[g] = Absent \/ Exempt(g)
      BY <1>1, <1>3 DEF LoopSound, RecoverSound
    <3>4. \A e \in (DOMAIN staging' \cap boot'.seen) \ {boot'.dir} : \A g \in Files :
            staging'[e][g] = Absent \/ root'[g] = Absent \/ Exempt(g)'
      BY <1>5, <1>7, <2>2, <2>3, <3>3
    <3>5. d \in DOMAIN staging' /\ d \in boot'.seen
      BY <1>1, <1>3, <1>7, <2>2 DEF LoopSound, RecoverSound
    <3> QED  BY <1>3, <1>7, <3>1, <3>2, <3>4, <3>5 DEF RecoverSound
  <2>8. LoopSound'
    BY <1>7, <2>7 DEF LoopSound, StageSound, RollbackSound
  <2>9. UnfailedSound'
    BY <1>1, <1>3, <1>4, <1>5, <1>7, <1>9, <2>1, <2>2 DEF UnfailedSound, Unfailed
  <2> QED  BY <2>5, <2>6, <2>8, <2>9
<1>10. CASE root[f] = Absent /\ boot'.kept /\ UNCHANGED <<root, staging>> /\ Disk(FALSE)
  <2>1. /\ DOMAIN left' = Budget /\ left'.faults \in Nat /\ left'.faults <= deploy.left.faults
        /\ left'.faults # deploy.left.faults
    BY <1>1, <1>10, DiskFaults
  <2>2. FilesOK'
    BY <1>1, <1>7, <1>10, <2>1 DEF FilesOK
  <2>3. CopySound'
    BY <1>1, <1>4, <1>5, <1>10 DEF CopySound, Safe, Alone, Nowhere
  <2>4. LoopSound'
    BY <1>1, <1>2, <1>3, <1>5, <1>7, <1>10 DEF LoopSound, RecoverSound, StageSound, RollbackSound
  <2>5. UnfailedSound'
    BY <1>1, <2>1 DEF UnfailedSound, Unfailed
  <2> QED  BY <2>2, <2>3, <2>4, <2>5
<1>11. CASE Skips
  BY <1>1, <1>8, <1>11
<1>12. CASE Restores
  <2>1. boot'.kept = (boot.kept \/ ~TRUE)
    BY <1>1, <1>12
  <2>2. boot'.kept = boot.kept
    BY <2>1 DEF FilesOK
  <2> QED  BY <1>9, <1>12, <2>2
<1>13. CASE Fails
  BY <1>1, <1>10, <1>13
<1> QED  BY <1>6, <1>11, <1>12, <1>13

(* A directory that is removed or becomes instances/: the others stay. *)
LEMMA WithoutCopies ==
    ASSUME FilesOK, NEW d, staging' = Without(d)
    PROVE  /\ staging' \in [DOMAIN staging' -> [Files -> Nat]] /\ DOMAIN staging' = DOMAIN staging \ {d}
           /\ DOMAIN staging' \subseteq Nat /\ IsFiniteSet(DOMAIN staging')
           /\ \A e \in DOMAIN staging' : staging'[e] = staging[e]
<1>1. DOMAIN staging' = DOMAIN staging \ {d} /\ \A e \in DOMAIN staging' : staging'[e] = staging[e]
  BY DEF Without
<1>2. staging' \in [DOMAIN staging' -> [Files -> Nat]] /\ DOMAIN staging' \subseteq Nat
  BY <1>1 DEF FilesOK, Without
<1>3. IsFiniteSet(DOMAIN staging')
  BY <1>1, FS_Subset DEF FilesOK
<1> QED  BY <1>1, <1>2, <1>3

(* Removing a staging directory costs nothing when the root has what it held. *)
LEMMA DroppedSafe ==
    ASSUME FilesOK, NEW d, staging' = Without(d), UNCHANGED <<deploy, root>>, NEW g \in Files, Safe(g),
           d \in DOMAIN staging => staging[d][g] = Absent \/ root[g] # Absent
    PROVE  Safe(g)'
<1>1. Newest(g)' = Newest(g)
  BY NewestStays
<1>2. DOMAIN staging' = DOMAIN staging \ {d} /\ \A e \in DOMAIN staging' : staging'[e] = staging[e]
  BY WithoutCopies
<1> QED  BY <1>1, <1>2 DEF Safe, Alone, Nowhere

(* A staging directory is done: removed, or kept with what could not be moved. *)
LEMMA RecoveredKeeps == ASSUME MockInv, MigrationInv, Recovered PROVE MigrationInv'
<1> USE DEF MigrationInv
<1>1. /\ DOMAIN boot = {"pc", "dir", "todo", "seen", "kept", "id"}
      /\ boot.pc = "recover" /\ boot.todo = {} /\ boot.dir # None
      /\ UNCHANGED <<deploy, instances, dirs, left, root>>
      /\ boot' = [boot EXCEPT !.dir = None]
  BY DEF MockInv, Typed, BootOK, Off, Recovered, Booting, QuietBoot
<1>2. PICK d \in DOMAIN staging : d = boot.dir
  BY <1>1 DEF LoopSound, RecoverSound
<1>3. /\ boot'.pc = "recover" /\ boot'.dir = None /\ boot'.todo = {} /\ boot'.seen = boot.seen
      /\ boot'.kept = boot.kept /\ boot'.id = boot.id
  BY <1>1
<1>4. ~instances /\ \A g \in Files : Safe(g) \/ Exempt(g)
  BY <1>1, SafeBefore DEF Migrating
<1>5. \A g \in Files : Newest(g)' = Newest(g)
  BY <1>1, NewestStays
<1>6. \A e \in (DOMAIN staging \cap boot.seen) \ {d} : \A g \in Files :
         staging[e][g] = Absent \/ root[g] = Absent \/ Exempt(g)
  BY <1>1, <1>2 DEF LoopSound, RecoverSound
<1>7. CASE boot.kept
  <2>1. staging' = staging
    BY <1>7 DEF Recovered
  <2>2. /\ hist'.stale = hist.stale \cup (Present(staging[d]) \cap Present(root))
        /\ hist'.unreturned = hist.unreturned
    BY <1>2, <1>7 DEF Recovered, MockInv, Typed, HistOK
  <2>3. \A g \in Files : Exempt(g) => Exempt(g)'
    BY <2>2 DEF Exempt
  <2>4. FilesOK'
    BY <1>1, <1>3, <2>1 DEF FilesOK
  <2>5. CopySound'
    <3>1. \A g \in Files : Safe(g) => Safe(g)'
      BY <1>1, <1>5, <2>1 DEF Safe, Alone, Nowhere
    <3> QED  BY <1>1, <1>4, <2>3, <3>1 DEF CopySound
  <2>6. \A g \in Files : staging[d][g] = Absent \/ root[g] = Absent \/ Exempt(g)'
    BY <2>2 DEF Present, Exempt
  <2>7. LoopSound'
    BY <1>1, <1>3, <1>6, <2>1, <2>3, <2>6 DEF LoopSound, RecoverSound, StageSound, RollbackSound
  <2>8. UnfailedSound'
    BY <1>1, <1>7 DEF UnfailedSound, Unfailed
  <2> QED  BY <2>4, <2>5, <2>7, <2>8
<1>8. CASE ~boot.kept
  <2>1. staging' = Without(d) /\ hist' = hist
    BY <1>2, <1>8 DEF Recovered
  <2>2. /\ staging' \in [DOMAIN staging' -> [Files -> Nat]] /\ DOMAIN staging' = DOMAIN staging \ {d}
        /\ DOMAIN staging' \subseteq Nat /\ IsFiniteSet(DOMAIN staging')
        /\ \A e \in DOMAIN staging' : staging'[e] = staging[e]
    BY <2>1, WithoutCopies
  <2>3. \A g \in Files : Exempt(g) <=> Exempt(g)'
    BY <2>1 DEF Exempt
  <2>4. \A g \in Files : staging[d][g] = Absent \/ root[g] # Absent
    BY <1>1, <1>2, <1>8 DEF LoopSound, RecoverSound
  <2>5. FilesOK'
    BY <1>1, <1>3, <2>2 DEF FilesOK
  <2>6. CopySound'
    <3>1. \A g \in Files : Safe(g) => Safe(g)'
      BY <1>1, <2>1, <2>4, DroppedSafe
    <3> QED  BY <1>1, <1>4, <2>3, <3>1 DEF CopySound
  <2>7. LoopSound'
    BY <1>1, <1>3, <1>6, <2>2, <2>3 DEF LoopSound, RecoverSound, StageSound, RollbackSound
  <2>8. UnfailedSound'
    BY <1>1, <1>2, <1>3, <1>4, <2>1, <2>2 DEF UnfailedSound, Unfailed
  <2> QED  BY <2>5, <2>6, <2>7, <2>8
<1> QED  BY <1>7, <1>8

(* A staging directory is made under a name that is free. *)
FreeName == CHOOSE n \in 1..(Cardinality(DOMAIN staging) + 1) : n \notin DOMAIN staging

(* A new staging directory takes a name nothing else has. *)
LEMMA FreeNameFree == ASSUME FilesOK PROVE FreeName \in Nat /\ FreeName \notin DOMAIN staging
<1> DEFINE c == Cardinality(DOMAIN staging)
<1>1. IsFiniteSet(DOMAIN staging)
  BY DEF FilesOK
<1>2. c \in Nat
  BY <1>1, FS_CardinalityType
<1>3. IsFiniteSet(1..(c + 1)) /\ Cardinality(1..(c + 1)) = c + 1
  <2>1. c + 1 \in Int /\ 1 \in Int /\ 1 <= c + 1 /\ (c + 1) - 1 + 1 = c + 1
    BY <1>2
  <2> HIDE DEF c
  <2> QED  BY <2>1, FS_Interval
<1>4. ~(1..(c + 1) \subseteq DOMAIN staging)
  <2>1. 1..(c + 1) \subseteq DOMAIN staging => Cardinality(1..(c + 1)) <= c
    BY <1>1, FS_Subset
  <2> HIDE DEF c
  <2> QED  BY <1>2, <1>3, <2>1
<1>5. \E n \in 1..(c + 1) : n \notin DOMAIN staging
  BY <1>4
<1>6. FreeName \in 1..(c + 1) /\ FreeName \notin DOMAIN staging
  BY <1>5 DEF FreeName
<1> HIDE DEF c
<1> QED  BY <1>2, <1>6

(* With every staging directory put back and nothing failed, the root has the newest copies. *)
LEMMA AllBack ==
    ASSUME MockInv, MigrationInv, Unfailed, boot.pc = "recover", boot.dir = None,
           DOMAIN staging \subseteq boot.seen
    PROVE  DOMAIN staging = {} /\ \A g \in Files : root[g] = Newest(g)
<1> USE DEF MigrationInv
<1>1. DOMAIN staging = {}
  <2>1. DOMAIN staging \cap boot.seen \subseteq {boot.dir}
    BY DEF UnfailedSound
  <2>2. DOMAIN staging \subseteq Nat
    BY DEF FilesOK
  <2>3. None \notin Nat
    BY DEF None
  <2> QED  BY <2>1, <2>2, <2>3
<1>2. \A g \in Files : Safe(g)
  BY SafeBefore DEF Migrating, UnfailedSound, Exempt
<1> QED  BY <1>1, <1>2 DEF Safe, Nowhere

(* migrateLegacy lists what the root holds and makes its staging directory. *)
LEMMA BeginKeeps == ASSUME MockInv, MigrationInv, BeginMigration PROVE MigrationInv'
<1> USE DEF MigrationInv
<1>1. /\ DOMAIN boot = {"pc", "dir", "todo", "seen", "kept", "id"} /\ deploy \in Deployments
      /\ boot.pc = "recover" /\ boot.dir = None /\ DOMAIN staging \subseteq boot.seen
      /\ UNCHANGED <<deploy, instances, dirs, root, hist>>
  BY DEF MockInv, Typed, BootOK, Off, BeginMigration, Booting, QuietBoot
<1>2. ~instances /\ \A g \in Files : Safe(g) \/ Exempt(g)
  BY <1>1, SafeBefore DEF Migrating
<1>3. \A g \in Files : Newest(g)' = Newest(g) /\ (Exempt(g)' <=> Exempt(g))
  BY <1>1, NewestStays DEF Exempt
<1>4. PICK d : d = FreeName /\ d \in Nat /\ d \notin DOMAIN staging
  BY FreeNameFree
<1> DEFINE Made == /\ Disk(TRUE) /\ Present(root) # {}
                   /\ staging' = [e \in DOMAIN staging \cup {d} |-> IF e = d THEN NoFiles ELSE staging[e]]
                   /\ boot' = [boot EXCEPT !.pc = "stage", !.dir = d, !.todo = Present(root),
                                 !.id = IF root["register"] = Absent THEN Legacy ELSE deploy.legacyId]
           Nothing == Goto("scan") /\ UNCHANGED <<left, staging>> /\ Present(root) = {}
           Fails == Goto("scan") /\ UNCHANGED staging /\ Disk(FALSE)
<1>5. Made \/ Nothing \/ Fails
  BY <1>4 DEF BeginMigration, FreeName
<1>6. CASE Nothing \/ Fails
  <2>1. /\ boot'.pc = "scan" /\ boot'.todo = boot.todo /\ boot'.kept = boot.kept /\ staging' = staging
    BY <1>1, <1>6 DEF Goto
  <2>2. DOMAIN left' = Budget /\ left'.faults \in Nat /\ left'.faults <= deploy.left.faults
    BY <1>1, <1>6, DiskFaults DEF FilesOK
  <2>3. FilesOK'
    BY <1>1, <2>1, <2>2 DEF FilesOK
  <2>4. CopySound'
    BY <1>1, <1>2, <1>3, <2>1 DEF CopySound, Safe, Alone, Nowhere
  <2>5. LoopSound'
    BY <2>1 DEF LoopSound, RecoverSound, StageSound, RollbackSound
  <2>6. UnfailedSound'
    <3> SUFFICES ASSUME Unfailed' PROVE UnfailedSound'
      BY DEF UnfailedSound
    <3>1. Nothing /\ Unfailed
      BY <1>1, <1>6, DiskFaults DEF Unfailed
    <3>2. \A g \in Files : Newest(g) = Absent
      BY <1>1, <3>1, AllBack DEF Present
    <3> QED  BY <1>1, <1>2, <1>3, <2>1, <3>1, <3>2 DEF UnfailedSound
  <2> QED  BY <2>3, <2>4, <2>5, <2>6
<1>7. CASE Made
  <2>1. /\ boot'.pc = "stage" /\ boot'.dir = d /\ boot'.todo = {g \in Files : root[g] # Absent}
        /\ boot'.kept = boot.kept
        /\ boot'.id = IF root["register"] = Absent THEN Legacy ELSE deploy.legacyId
    BY <1>1, <1>7 DEF Present
  <2>2. left' = left
    BY <1>1, <1>7, DiskFaults
  <2>3. /\ DOMAIN staging' = DOMAIN staging \cup {d} /\ \A e \in DOMAIN staging : staging'[e] = staging[e]
        /\ \A g \in Files : staging'[d][g] = Absent
        /\ staging' \in [DOMAIN staging' -> [Files -> Nat]]
    BY <1>4, <1>7 DEF NoFiles, FilesOK, Absent
  <2>4. IsFiniteSet(DOMAIN staging') /\ DOMAIN staging' \subseteq Nat
    BY <1>4, <2>3, FS_AddElement DEF FilesOK
  <2>5. FilesOK'
    BY <1>1, <2>1, <2>2, <2>3, <2>4 DEF FilesOK
  <2>6. CopySound'
    <3>1. \A g \in Files : Safe(g) => Safe(g)'
      BY <1>1, <1>3, <1>4, <2>3 DEF Safe, Alone, Nowhere
    <3> QED  BY <1>1, <1>2, <1>3, <3>1 DEF CopySound
  <2>7. LoopSound'
    <3>1. \A g \in Files : root[g] # Absent => Exempt(g) \/ \A e \in DOMAIN staging : staging[e][g] = Absent
      BY <1>1 DEF LoopSound, RecoverSound, FilesOK, None
    <3>2. StageSound'
      BY <1>1, <1>3, <1>4, <2>1, <2>3, <3>1 DEF StageSound, Alone
    <3> QED  BY <2>1, <3>2 DEF LoopSound, RecoverSound, RollbackSound
  <2>8. UnfailedSound'
    <3> SUFFICES ASSUME Unfailed' PROVE UnfailedSound'
      BY DEF UnfailedSound
    <3>1. Unfailed
      BY <1>1, <2>2 DEF Unfailed
    <3>2. DOMAIN staging = {} /\ \A g \in Files : root[g] = Newest(g)
      BY <1>1, <3>1, AllBack
    <3>3. "register" \in Files
      BY DEF Files, LegacyFiles
    <3>4. root["register"] = Absent => deploy.legacyId = Legacy
      <4> SUFFICES ASSUME Newest("register") = Absent PROVE deploy.legacyId = Legacy
        BY <3>2, <3>3
      <4>1. Unnamed(deploy)
        BY <1>1, <3>3, NewestCopy DEF Unnamed
      <4> QED  BY <1>1, <4>1, MockAssumption
    <3> QED  BY <1>1, <1>2, <2>1, <2>3, <3>1, <3>2, <3>4 DEF UnfailedSound
  <2> QED  BY <2>5, <2>6, <2>7, <2>8
<1> QED  BY <1>5, <1>6, <1>7

(* The list of a rollback: what the staging directory holds. *)
LEMMA RollbackStarts ==
    ASSUME MockInv, Rollback
    PROVE  /\ boot'.pc = "rollback" /\ boot'.dir = boot.dir /\ boot'.kept = boot.kept /\ boot'.id = boot.id
           /\ boot'.todo = {g \in Files : staging[boot.dir][g] # Absent}
BY DEF MockInv, Typed, BootOK, Off, Rollback, Present

(* One file is staged, or its move fails and the rollback starts. *)
LEMMA StageKeeps == ASSUME MockInv, MigrationInv, StageFile PROVE MigrationInv'
<1> USE DEF MigrationInv
<1>1. /\ DOMAIN boot = {"pc", "dir", "todo", "seen", "kept", "id"} /\ deploy \in Deployments
      /\ boot.pc = "stage" /\ boot.todo # {} /\ UNCHANGED <<deploy, instances, dirs, hist>>
  BY DEF MockInv, Typed, BootOK, Off, StageFile, Booting, QuietBoot
<1>2. PICK f \in Files : f = First(boot.todo) /\ f \in boot.todo
  BY <1>1, FirstFile DEF FilesOK
<1>3. PICK d \in DOMAIN staging : d = boot.dir
  BY <1>1 DEF LoopSound, StageSound
<1>4. \A g \in Files : /\ g \in boot.todo <=> root[g] # Absent
                       /\ staging[d][g] # Absent => root[g] = Absent
                       /\ g \in boot.todo => Alone(d, g) \/ Exempt(g)
  BY <1>1, <1>3 DEF LoopSound, StageSound
<1>5. ~instances /\ \A g \in Files : Safe(g) \/ Exempt(g)
  BY <1>1, SafeBefore DEF Migrating
<1>6. \A g \in Files : Newest(g)' = Newest(g) /\ (Exempt(g)' <=> Exempt(g))
  BY <1>1, NewestStays DEF Exempt
<1> DEFINE Moves == Disk(TRUE) /\ MovedOut(d, f) /\ boot' = [boot EXCEPT !.todo = @ \ {f}]
           Fails == Disk(FALSE) /\ UNCHANGED <<root, staging>> /\ Rollback
<1>7. Moves \/ Fails
  BY <1>2, <1>3 DEF StageFile, MovedOut
<1>8. CASE Moves
  <2>1. left' = left
    BY <1>1, <1>8, DiskFaults
  <2>2. /\ boot'.pc = "stage" /\ boot'.dir = d /\ boot'.todo = boot.todo \ {f}
        /\ boot'.kept = boot.kept /\ boot'.id = boot.id
    BY <1>1, <1>3, <1>8
  <2>3. /\ root' \in [Files -> Nat] /\ staging' \in [DOMAIN staging' -> [Files -> Nat]]
        /\ DOMAIN staging' = DOMAIN staging
        /\ root'[f] = Absent /\ staging'[d][f] = root[f]
        /\ \A g \in Files \ {f} : root'[g] = root[g] /\ staging'[d][g] = staging[d][g]
        /\ \A e \in DOMAIN staging \ {d} : staging'[e] = staging[e]
    BY <1>2, <1>3, <1>8, MovedOutCopies
  <2>4. Safe(f)' \/ Exempt(f)'
    <3> SUFFICES ASSUME ~Exempt(f) PROVE Safe(f)'
      BY <1>6
    <3>1. root[f] # Absent /\ root[f] = Newest(f) /\ Alone(d, f)
      BY <1>2, <1>4, <1>5 DEF Safe, Nowhere
    <3>2. root'[f] = Absent /\ staging'[d][f] = Newest(f)' /\ Alone(d, f)' /\ Newest(f)' # Absent
      BY <1>6, <2>3, <3>1 DEF Alone
    <3> QED  BY <1>3, <2>3, <3>2 DEF Safe
  <2>5. \A g \in Files : Safe(g)' \/ Exempt(g)'
    BY <1>1, <1>5, <1>6, <2>3, <2>4, OthersSafe
  <2>6. FilesOK'
    BY <1>1, <2>1, <2>2, <2>3 DEF FilesOK
  <2>7. CopySound'
    BY <1>1, <1>5, <2>5 DEF CopySound
  <2>8. StageSound'
    BY <1>3, <1>4, <1>6, <2>2, <2>3 DEF StageSound, Alone
  <2>9. LoopSound'
    BY <2>2, <2>8 DEF LoopSound, RecoverSound, RollbackSound
  <2>10. UnfailedSound'
    BY <1>1, <1>3, <1>5, <1>6, <2>1, <2>2, <2>3 DEF UnfailedSound, Unfailed
  <2> QED  BY <2>6, <2>7, <2>9, <2>10
<1>9. CASE Fails
  <2>1. /\ DOMAIN left' = Budget /\ left'.faults \in Nat /\ left'.faults <= deploy.left.faults
        /\ left'.faults # deploy.left.faults
    BY <1>1, <1>9, DiskFaults
  <2>2. /\ boot'.pc = "rollback" /\ boot'.dir = d /\ boot'.kept = boot.kept
        /\ boot'.todo = {g \in Files : staging[d][g] # Absent}
    BY <1>3, <1>9, RollbackStarts
  <2>3. FilesOK'
    BY <1>1, <1>9, <2>1, <2>2 DEF FilesOK
  <2>4. CopySound'
    BY <1>1, <1>5, <1>6, <1>9 DEF CopySound, Safe, Alone, Nowhere
  <2>5. LoopSound'
    BY <1>3, <1>4, <1>9, <2>2 DEF LoopSound, RecoverSound, StageSound, RollbackSound
  <2>6. UnfailedSound'
    BY <1>1, <2>1 DEF UnfailedSound, Unfailed
  <2> QED  BY <2>3, <2>4, <2>5, <2>6
<1> QED  BY <1>7, <1>8, <1>9

(* The staging directory becomes the instance's: what it holds is published. *)
LEMMA PublishKeeps == ASSUME MockInv, MigrationInv, Publish PROVE MigrationInv'
<1> USE DEF MigrationInv
<1>1. /\ DOMAIN boot = {"pc", "dir", "todo", "seen", "kept", "id"} /\ deploy \in Deployments
      /\ boot.pc = "stage" /\ boot.todo = {} /\ UNCHANGED <<deploy, root>>
      /\ boot.id \in Ids /\ deploy.legacyId \in Ids /\ DOMAIN dirs = Ids /\ HistOK
  BY DeployShape DEF MockInv, Typed, BootOK, Off, Publish, Booting, QuietBoot
<1>2. PICK d \in DOMAIN staging : d = boot.dir
  BY <1>1 DEF LoopSound, StageSound
<1>3. \A g \in Files : root[g] = Absent
  BY <1>1 DEF LoopSound, StageSound
<1>4. ~instances /\ \A g \in Files : Safe(g) \/ Exempt(g)
  BY <1>1, SafeBefore DEF Migrating
<1>5. \A g \in Files : Newest(g)' = Newest(g)
  BY <1>1, NewestStays
<1> DEFINE Lands(saved) ==
              /\ Disk(saved) /\ instances' = TRUE
              /\ dirs' = [dirs EXCEPT ![boot.id] = [NoDir EXCEPT !.meta = saved, !.files = staging[boot.dir],
                                                          !.reg = Migrated(staging[boot.dir])]]
              /\ hist' = IF saved THEN hist ELSE [hist EXCEPT !.unsaved = @ \cup {boot.id}]
              /\ staging' = Without(boot.dir) /\ Goto("scan")
           Fails == Disk(FALSE) /\ Rollback /\ UNCHANGED <<instances, dirs, staging, hist>>
<1>6. Fails \/ \E saved \in BOOLEAN : Lands(saved)
  BY DEF Publish
<1>7. CASE Fails
  <2>1. /\ DOMAIN left' = Budget /\ left'.faults \in Nat /\ left'.faults <= deploy.left.faults
        /\ left'.faults # deploy.left.faults
    BY <1>1, <1>7, DiskFaults
  <2>2. /\ boot'.pc = "rollback" /\ boot'.dir = d /\ boot'.kept = boot.kept
        /\ boot'.todo = {g \in Files : staging[d][g] # Absent}
    BY <1>2, <1>7, RollbackStarts
  <2>3. FilesOK'
    BY <1>1, <1>7, <2>1, <2>2 DEF FilesOK
  <2>4. CopySound'
    BY <1>1, <1>4, <1>5, <1>7 DEF CopySound, Safe, Alone, Nowhere, Exempt
  <2>5. LoopSound'
    BY <1>1, <1>2, <1>3, <1>7, <2>2 DEF LoopSound, RecoverSound, StageSound, RollbackSound
  <2>6. UnfailedSound'
    BY <1>1, <2>1 DEF UnfailedSound, Unfailed
  <2> QED  BY <2>3, <2>4, <2>5, <2>6
<1>8. ASSUME NEW saved \in BOOLEAN, Lands(saved) PROVE MigrationInv'
  <2>1. /\ DOMAIN left' = Budget /\ left'.faults \in Nat /\ left'.faults <= deploy.left.faults
        /\ left'.faults = deploy.left.faults => saved /\ left' = left
    BY <1>1, <1>8, DiskFaults
  <2>2. boot'.pc = "scan" /\ boot'.todo = {} /\ boot'.kept = boot.kept
    BY <1>1, <1>8 DEF Goto
  <2>3. /\ dirs'[boot.id].files = staging[d] /\ dirs'[boot.id].meta = saved
    BY <1>1, <1>2, <1>8 DEF NoDir
  <2>4. hist'.stale = hist.stale /\ hist'.unreturned = hist.unreturned
    BY <1>1, <1>8 DEF HistOK
  <2>5. /\ staging' \in [DOMAIN staging' -> [Files -> Nat]] /\ DOMAIN staging' = DOMAIN staging \ {d}
        /\ DOMAIN staging' \subseteq Nat /\ IsFiniteSet(DOMAIN staging')
        /\ \A e \in DOMAIN staging' : staging'[e] = staging[e]
    BY <1>2, <1>8, WithoutCopies
  <2>6. FilesOK'
    BY <1>1, <2>1, <2>2, <2>5 DEF FilesOK
  <2>7. CopySound'
    <3> SUFFICES ASSUME NEW g \in Files, Newest(g) # Absent, ~Exempt(g) PROVE Somewhere(g)'
      BY <1>5, <1>8, <2>4 DEF CopySound, Exempt
    <3>1. PICK e \in DOMAIN staging : staging[e][g] = Newest(g)
      BY <1>3, <1>4 DEF Safe
    <3>2. CASE e = d
      BY <1>1, <1>5, <2>3, <3>1, <3>2 DEF Somewhere
    <3>3. CASE e # d
      BY <1>5, <2>5, <3>1, <3>3 DEF Somewhere
    <3> QED  BY <3>2, <3>3
  <2>8. LoopSound'
    BY <2>2 DEF LoopSound, RecoverSound, StageSound, RollbackSound
  <2>9. UnfailedSound'
    <3> SUFFICES ASSUME Unfailed' PROVE UnfailedSound'
      BY DEF UnfailedSound
    <3>1. saved /\ Unfailed
      BY <1>1, <2>1 DEF Unfailed
    <3>2. DOMAIN staging = {d} /\ boot.id = deploy.legacyId /\ \A g \in Files : ~Exempt(g)
      BY <1>1, <1>2, <3>1 DEF UnfailedSound, Exempt
    <3>3. \A g \in Files : Newest(g) # Absent => staging[d][g] = Newest(g)
      BY <1>3, <1>4, <3>2 DEF Safe
    <3>4. Published'
      BY <1>1, <1>5, <2>3, <3>1, <3>2, <3>3 DEF Published
    <3> QED  BY <1>1, <1>8, <2>2, <2>4, <3>1, <3>4 DEF UnfailedSound
  <2> QED  BY <2>6, <2>7, <2>8, <2>9
<1> QED  BY <1>6, <1>7, <1>8

(* One file is rolled back, or stays behind and is recorded as unreturned. *)
LEMMA RollbackKeeps == ASSUME MockInv, MigrationInv, RollbackFile PROVE MigrationInv'
<1> USE DEF MigrationInv
<1>1. /\ DOMAIN boot = {"pc", "dir", "todo", "seen", "kept", "id"} /\ deploy \in Deployments
      /\ boot.pc = "rollback" /\ boot.todo # {} /\ UNCHANGED <<deploy, instances, dirs>> /\ HistOK
      /\ boot' = [boot EXCEPT !.todo = @ \ {First(@)}]
  BY DEF MockInv, Typed, BootOK, Off, RollbackFile, Booting, QuietBoot
<1>2. PICK f \in Files : f = First(boot.todo) /\ f \in boot.todo
  BY <1>1, FirstFile DEF FilesOK
<1>3. PICK d \in DOMAIN staging : d = boot.dir
  BY <1>1 DEF LoopSound, RollbackSound
<1>4. \A g \in Files : /\ staging[d][g] # Absent => root[g] = Absent
                       /\ g \in boot.todo => staging[d][g] # Absent
                       /\ g \notin boot.todo => staging[d][g] = Absent \/ g \in hist.unreturned
  BY <1>1, <1>3 DEF LoopSound, RollbackSound
<1>5. ~instances /\ \A g \in Files : Safe(g) \/ Exempt(g)
  BY <1>1, SafeBefore DEF Migrating
<1>6. \A g \in Files : Newest(g)' = Newest(g)
  BY <1>1, NewestStays
<1>7. boot'.pc = "rollback" /\ boot'.dir = d /\ boot'.todo = boot.todo \ {f} /\ boot'.kept = boot.kept
  BY <1>1, <1>2, <1>3
<1> DEFINE Moves == Disk(TRUE) /\ MovedBack(d, f) /\ UNCHANGED hist
           Fails == /\ Disk(FALSE) /\ hist' = [hist EXCEPT !.unreturned = @ \cup {f}]
                    /\ UNCHANGED <<root, staging>>
<1>8. Moves \/ Fails
  BY <1>2, <1>3 DEF RollbackFile, MovedBack
<1>9. /\ DOMAIN left' = Budget /\ left'.faults \in Nat /\ left'.faults <= deploy.left.faults
      /\ left'.faults # deploy.left.faults
  <2>1. ~Unfailed
    BY <1>1 DEF UnfailedSound
  <2> QED  BY <1>1, <1>8, <2>1, DiskFaults DEF Unfailed
<1>10. UnfailedSound'
  BY <1>1, <1>9 DEF UnfailedSound, Unfailed
<1>11. CASE Moves
  <2>1. /\ root' \in [Files -> Nat] /\ staging' \in [DOMAIN staging' -> [Files -> Nat]]
        /\ DOMAIN staging' = DOMAIN staging
        /\ root'[f] = staging[d][f] /\ staging'[d][f] = Absent
        /\ \A g \in Files \ {f} : root'[g] = root[g] /\ staging'[d][g] = staging[d][g]
        /\ \A e \in DOMAIN staging \ {d} : staging'[e] = staging[e]
    BY <1>2, <1>3, <1>11, MovedBackCopies
  <2>2. \A g \in Files : Exempt(g)' <=> Exempt(g)
    BY <1>11 DEF Exempt
  <2>3. Safe(f)' \/ Exempt(f)
    BY <1>1, <1>2, <1>3, <1>4, <1>5, <1>11, MovedBackSafe
  <2>4. \A g \in Files : Safe(g)' \/ Exempt(g)'
    BY <1>1, <1>5, <2>1, <2>2, <2>3, OthersSafe
  <2>5. FilesOK'
    BY <1>1, <1>7, <1>9, <2>1 DEF FilesOK
  <2>6. CopySound'
    BY <1>1, <1>5, <2>4 DEF CopySound
  <2>7. LoopSound'
    BY <1>3, <1>4, <1>7, <1>11, <2>1 DEF LoopSound, RecoverSound, StageSound, RollbackSound
  <2> QED  BY <1>10, <2>5, <2>6, <2>7
<1>12. CASE Fails
  <2>1. hist'.unreturned = hist.unreturned \cup {f} /\ hist'.stale = hist.stale
    BY <1>1, <1>12 DEF HistOK
  <2>2. FilesOK'
    BY <1>1, <1>7, <1>9, <1>12 DEF FilesOK
  <2>3. CopySound'
    <3>1. \A g \in Files : (Safe(g) => Safe(g)') /\ (Exempt(g) => Exempt(g)')
      BY <1>1, <1>6, <1>12, <2>1 DEF Safe, Alone, Nowhere, Exempt
    <3> QED  BY <1>1, <1>5, <3>1 DEF CopySound
  <2>4. LoopSound'
    BY <1>3, <1>4, <1>7, <1>12, <2>1 DEF LoopSound, RecoverSound, StageSound, RollbackSound
  <2> QED  BY <1>10, <2>2, <2>3, <2>4
<1> QED  BY <1>8, <1>11, <1>12

(* The rollback removes the staging directory with what could not return. *)
LEMMA RolledBackKeeps == ASSUME MockInv, MigrationInv, RolledBack PROVE MigrationInv'
<1> USE DEF MigrationInv
<1>1. /\ DOMAIN boot = {"pc", "dir", "todo", "seen", "kept", "id"}
      /\ boot.pc = "rollback" /\ boot.todo = {} /\ boot' = [boot EXCEPT !.pc = "scan"]
      /\ UNCHANGED <<deploy, instances, dirs, left, root, hist>>
  BY DEF MockInv, Typed, BootOK, Off, RolledBack, Booting, QuietBoot, Goto
<1>2. PICK d \in DOMAIN staging : d = boot.dir
  BY <1>1 DEF LoopSound, RollbackSound
<1>3. \A g \in Files : staging[d][g] = Absent \/ g \in hist.unreturned
  BY <1>1, <1>2 DEF LoopSound, RollbackSound
<1>4. staging' = Without(d)
  BY <1>2 DEF RolledBack
<1>5. ~instances /\ \A g \in Files : Safe(g) \/ Exempt(g)
  BY <1>1, SafeBefore DEF Migrating
<1>6. \A g \in Files : Safe(g)' \/ Exempt(g)'
  <2>1. \A g \in Files : Exempt(g)' <=> Exempt(g)
    BY <1>1 DEF Exempt
  <2> QED  BY <1>1, <1>3, <1>4, <1>5, <2>1, DroppedSafe DEF Exempt
<1>7. boot'.pc = "scan" /\ boot'.todo = {} /\ boot'.kept = boot.kept
  BY <1>1
<1>8. FilesOK'
  BY <1>1, <1>4, <1>7, WithoutCopies DEF FilesOK
<1>9. CopySound'
  BY <1>1, <1>5, <1>6 DEF CopySound
<1>10. LoopSound'
  BY <1>7 DEF LoopSound, RecoverSound, StageSound, RollbackSound
<1>11. UnfailedSound'
  BY <1>1 DEF UnfailedSound, Unfailed
<1> QED  BY <1>8, <1>9, <1>10, <1>11

(* Every step keeps the migration's invariant. *)
LEMMA MigrationStep == ASSUME MockInv, MigrationInv, [Next]_vars PROVE MigrationInv'
<1>1. CASE Look \/ \E t \in Threads : Handle(t)
  <2>1. boot.pc = "up"
    BY <1>1 DEF Look, Handle, Up, Booting, Free, At, Register, SetTarget, RecordRegister, SaveRegister, AdoptKey,
                OpenReport, WriteReport, Reset, ResetOne, SaveReset, Route, SealAndSend
  <2> QED  BY <1>1, <2>1, ServingFrame, ServingKeeps DEF MockInv, MigrationInv
<1>2. CASE UNCHANGED vars
  <2>1. UNCHANGED <<deploy, left, root, staging, instances, dirs, boot, hist>>
    BY <1>2 DEF vars, files
  <2>2. \A f \in Files : /\ Exempt(f)' <=> Exempt(f)
                         /\ Newest(f)' = Newest(f)
                         /\ Somewhere(f)' <=> Somewhere(f)
                         /\ Safe(f)' <=> Safe(f)
    BY <2>1 DEF Exempt, Newest, Somewhere, Safe, Alone, Nowhere
  <2>3. FilesOK'
    BY <2>1 DEF MigrationInv, FilesOK
  <2>4. CopySound'
    BY <2>1, <2>2 DEF MigrationInv, CopySound
  <2>5. RecoverSound'
    BY <2>1, <2>2 DEF MigrationInv, LoopSound, RecoverSound
  <2>6. StageSound'
    BY <2>1, <2>2 DEF MigrationInv, LoopSound, StageSound, Alone
  <2>7. RollbackSound'
    BY <2>1 DEF MigrationInv, LoopSound, RollbackSound
  <2>8. UnfailedSound'
    BY <2>1, <2>2 DEF MigrationInv, UnfailedSound, Unfailed, Published
  <2> QED  BY <2>3, <2>4, <2>5, <2>6, <2>7, <2>8 DEF MigrationInv, LoopSound
<1> QED
  BY <1>1, <1>2, LoadKeeps, CrashKeeps, ScanKeeps, RecoverDirKeeps, RestoreKeeps, RecoveredKeeps, BeginKeeps,
     StageKeeps, PublishKeeps, RollbackKeeps, RolledBackKeeps DEF Next, Migrate

(***************************************************************************)
(* The move to one directory per instance loses no file, whatever crashes  *)
(* and fails (migrateLegacy, recoverInterruptedMigration): the newest copy *)
(* is in the root, staged or published, unless its rollback failed or a    *)
(* failed recovery left an older copy behind; and when nothing failed it   *)
(* ends up published, in the directory of an instance that is loaded.      *)
(***************************************************************************)
THEOREM MigrationCorrect == Spec => []MigrationLossless
<1>1. Init => MigrationInv
  BY MigrationInit
<1>2. MockInv /\ MigrationInv /\ [Next]_vars => MigrationInv'
  BY MigrationStep
<1>3. MockInv /\ MigrationInv => MigrationLossless
  <2> SUFFICES ASSUME MockInv, MigrationInv PROVE MigrationLossless
    OBVIOUS
  <2>1. \A f \in Files : Newest(f) # Absent => Somewhere(f) \/ f \in hist.unreturned \cup hist.stale
    BY DEF MockInv, Typed, BootOK, MigrationInv, CopySound, Safe, Exempt, Somewhere
  <2>2. Up => instances /\ \A i \in Ids : dirs[i].meta => i \in known
    BY DEF MockInv, BootSound, MembersSound
  <2>3. deploy.legacyId \in Ids
    BY DeployShape DEF MockInv, Typed
  <2>4. Up /\ Unfailed /\ ~deploy.instances => \A f \in Files : Newest(f) # Absent => Published
    BY <2>2 DEF MigrationInv, UnfailedSound
  <2> QED  BY <2>1, <2>2, <2>3, <2>4 DEF MigrationLossless, Published, Unfailed
<1> QED  BY <1>1, <1>2, <1>3, MockCorrect, PTL DEF Spec

=============================================================================
