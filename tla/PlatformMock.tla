----------------------------- MODULE PlatformMock -----------------------------
(***************************************************************************)
(* The platform side of the protocol as the repository's platform mock     *)
(* implements it: the start that moves single-instance state into one      *)
(* directory per instance, registrations and reports handled by concurrent *)
(* request handlers, the console's resets, and the requests sent to an     *)
(* instance, with crashes between any two writes.  A message is a record   *)
(* of what the handlers look at; cryptography is the key that signed it.   *)
(*                                                                         *)
(* Ids are numbers and Legacy (0) is the empty dockerId, whose bundle takes *)
(* what belongs to no instance.  keys[Legacy] is the single key of the old  *)
(* layout.  0 also stands for no key, no address and an absent file.       *)
(***************************************************************************)
EXTENDS Integers, Sequences, FiniteSets

CONSTANTS Threads,      \* request handlers running at once
          Ids,          \* dockerIds, Legacy among them
          HistoryCap,   \* reports kept per store
          Deployments   \* initial states and the traffic that follows

Legacy == 0
None == -1
Absent == 0

(***************************************************************************)
(* The legacy files, in the order in which they are moved.                 *)
(***************************************************************************)
LegacyFiles == <<"register", "report">>
Files == {LegacyFiles[n] : n \in DOMAIN LegacyFiles}
NoFiles == [f \in Files |-> Absent]
Present(place) == {f \in Files : place[f] # Absent}
First(todo) == LegacyFiles[CHOOSE n \in DOMAIN LegacyFiles :
                              /\ LegacyFiles[n] \in todo
                              /\ \A m \in 1..(n - 1) : LegacyFiles[m] \notin todo]

VARIABLES deploy,     \* the deployment
          left,       \* what may still happen of its traffic and faults
          root,       \* legacy files in the state directory: their version
          staging,    \* .instances-migrating-* directories: their files
          instances,  \* does instances/ exist
          dirs,       \* the directory of each id under instances/
          keyFile,    \* platform-key.json: a key per id
          boot,       \* the start of the process
          known,      \* byID: the ids with a bundle in memory
          target,     \* address each bundle's instance registered from
          reg,        \* register record of each bundle
          keys,       \* keystore: a key per id
          work,       \* what each handler is doing
          tick,       \* clock of the received-at stamps
          hist        \* history variables, read by the properties only

files == <<root, staging, instances>>
memory == <<known, target, reg, keys>>
vars == <<deploy, left, files, dirs, keyFile, boot, memory, work, tick, hist>>

NoRecord == [received |-> FALSE, accepted |-> FALSE, at |-> 0, key |-> 0]
NoDir == [meta |-> FALSE, target |-> 0, reg |-> NoRecord, reports |-> <<>>, files |-> NoFiles]
Records == [received : BOOLEAN, accepted : BOOLEAN, at : Nat, key : Nat]
Registrations == [id : Ids, key : Nat, signer : Nat, addr : Nat, attested : BOOLEAN, complete : BOOLEAN]
Bodies == [kind : {"resource", "res", "import", "audit"}, hint : Ids, plain : Ids, signer : Nat,
           json : BOOLEAN, blank : BOOLEAN, whole : BOOLEAN, code : Nat, sum : BOOLEAN]

(***************************************************************************)
(* What a deployment is: without instances/ no instance has a directory,   *)
(* and an address is on file only with the metadata that holds it.  Of the *)
(* legacy files, a copy in the root was written after the ones an          *)
(* interrupted migration staged, and one staging directory holds a file.   *)
(***************************************************************************)
Budget == {"regs", "reports", "sends", "resets", "looks", "crashes", "faults"}
Staged(d) == d.staging \in [DOMAIN d.staging -> [Files -> Nat]]
LastWritten(d, f) ==
    \A e \in DOMAIN d.staging : d.staging[e][f] # Absent =>
        /\ d.root[f] # Absent => d.staging[e][f] <= d.root[f]
        /\ \A g \in DOMAIN d.staging \ {e} : d.staging[g][f] = Absent
Unnamed(d) == d.root["register"] = Absent /\ \A e \in DOMAIN d.staging : d.staging[e]["register"] = Absent

ASSUME MockAssumption ==
    /\ Ids \in SUBSET Nat /\ IsFiniteSet(Ids) /\ Legacy \in Ids /\ HistoryCap \in Nat
    /\ \A d \in Deployments :
         /\ d.legacyId \in Ids /\ d.static \in Nat /\ d.discovered \in Nat
         /\ d.instances \in BOOLEAN /\ d.keys \in [Ids -> Nat]
         /\ d.legacyReg \in Records /\ d.legacyReg.at <= 1
         /\ d.regs \subseteq Registrations /\ d.reports \subseteq Bodies
         /\ DOMAIN d.left = Budget /\ d.left["faults"] \in Nat
         /\ d.root \in [Files -> Nat] /\ Staged(d)
         /\ DOMAIN d.staging \subseteq Nat /\ IsFiniteSet(DOMAIN d.staging)
         /\ \A f \in Files : LastWritten(d, f)
         /\ Unnamed(d) => d.legacyId = Legacy
         /\ DOMAIN d.dirs = Ids
         /\ \A i \in Ids :
              /\ DOMAIN d.dirs[i] = DOMAIN NoDir
              /\ d.dirs[i].meta \in BOOLEAN /\ d.dirs[i].target \in Nat
              /\ d.dirs[i].reg \in Records /\ d.dirs[i].reg.at <= 1 /\ d.dirs[i].reports = <<>>
              /\ ~d.dirs[i].meta => d.dirs[i].target = 0
              /\ ~d.instances => ~d.dirs[i].meta

Off == [pc |-> "off", dir |-> None, todo |-> {}, seen |-> {}, kept |-> FALSE, id |-> Legacy]
Idle == [op |-> "idle"]

(***************************************************************************)
(* The outcome of a file operation: a failure uses up one of the faults.   *)
(***************************************************************************)
Disk(ok) == /\ ok \/ left.faults > 0
            /\ left' = IF ok THEN left ELSE [left EXCEPT !.faults = @ - 1]
Spend(what) == /\ left[what] > 0
               /\ left' = [left EXCEPT ![what] = @ - 1]

Init ==
    /\ deploy \in Deployments
    /\ left = deploy.left
    /\ root = deploy.root
    /\ staging = deploy.staging
    /\ instances = deploy.instances
    /\ dirs = deploy.dirs
    /\ keyFile = deploy.keys
    /\ boot = Off
    /\ known = {}
    /\ target = [i \in Ids |-> 0]
    /\ reg = [i \in Ids |-> NoRecord]
    /\ keys = [i \in Ids |-> 0]
    /\ work = [t \in Threads |-> Idle]
    /\ tick = 1
    /\ hist = [adopted |-> [i \in Ids |-> {deploy.keys[i]} \ {0}],
               from |-> [i \in Ids |-> {deploy.dirs[i].target} \ {0}],
               last |-> [i \in Ids |-> deploy.dirs[i].target],
               validated |-> {}, answered |-> {}, sent |-> {},
               unreturned |-> {}, stale |-> {}, unsaved |-> {}]

-----------------------------------------------------------------------------
(* Start.                                                                  *)

Booting(pc) == boot.pc = pc
Goto(pc) == boot' = [boot EXCEPT !.pc = pc]
QuietBoot == UNCHANGED <<deploy, memory, work, tick>>

(* The keystore is loaded first; an existing instances/ ends the migration. *)
LoadKeys ==
    /\ Booting("off")
    /\ keys' = keyFile
    /\ boot' = [Off EXCEPT !.pc = IF instances THEN "scan" ELSE "recover"]
    /\ UNCHANGED <<deploy, left, files, dirs, keyFile, known, target, reg, work, tick, hist>>

(* recoverInterruptedMigration: the next staging directory to put back.    *)
RecoverDir ==
    /\ Booting("recover")
    /\ boot.dir = None
    /\ \E d \in DOMAIN staging \ boot.seen :
          boot' = [boot EXCEPT !.dir = d, !.todo = Present(staging[d]),
                               !.seen = @ \cup {d}, !.kept = FALSE]
    /\ UNCHANGED <<left, files, dirs, keyFile, hist>> /\ QuietBoot

(* One staged file is renamed back unless the root has a copy already.     *)
RestoreFile ==
    /\ Booting("recover")
    /\ boot.todo # {}
    /\ LET f == First(boot.todo) IN
       IF root[f] # Absent
         THEN /\ boot' = [boot EXCEPT !.todo = @ \ {f}]
              /\ UNCHANGED <<left, files>>
         ELSE \E ok \in BOOLEAN :
                /\ Disk(ok)
                /\ boot' = [boot EXCEPT !.todo = @ \ {f}, !.kept = @ \/ ~ok]
                /\ root' = IF ok THEN [root EXCEPT ![f] = staging[boot.dir][f]] ELSE root
                /\ staging' = IF ok THEN [staging EXCEPT ![boot.dir][f] = Absent] ELSE staging
                /\ UNCHANGED instances
    /\ UNCHANGED <<dirs, keyFile, hist>> /\ QuietBoot

Without(d) == [e \in DOMAIN staging \ {d} |-> staging[e]]

(* The mutant that removes the staging directory whatever stayed in it.    *)
MutRecovered ==
    /\ Booting("recover")
    /\ boot.dir # None
    /\ boot.todo = {}
    /\ staging' = Without(boot.dir)
    /\ boot' = [boot EXCEPT !.dir = None]
    /\ UNCHANGED <<left, root, instances, dirs, keyFile, hist>> /\ QuietBoot

(***************************************************************************)
(* A directory in which a file could not be renamed back stays as it is,   *)
(* also the copies that the root's ones were preferred to (stale).         *)
(***************************************************************************)
Recovered ==
    /\ Booting("recover")
    /\ boot.dir # None
    /\ boot.todo = {}
    /\ IF boot.kept
         THEN /\ hist' = [hist EXCEPT !.stale = @ \cup (Present(staging[boot.dir]) \cap Present(root))]
              /\ UNCHANGED staging
         ELSE staging' = Without(boot.dir) /\ UNCHANGED hist
    /\ boot' = [boot EXCEPT !.dir = None]
    /\ UNCHANGED <<left, root, instances, dirs, keyFile>> /\ QuietBoot

(***************************************************************************)
(* migrateLegacy: with legacy files present the dockerId is read from the  *)
(* register record before it moves, and a staging directory is made.       *)
(***************************************************************************)
BeginMigration ==
    /\ Booting("recover")
    /\ boot.dir = None
    /\ DOMAIN staging \subseteq boot.seen
    /\ IF Present(root) = {}
         THEN Goto("scan") /\ UNCHANGED <<left, staging>>
         ELSE \E ok \in BOOLEAN :
                /\ Disk(ok)
                /\ IF ok
                     THEN LET d == CHOOSE n \in 1..(Cardinality(DOMAIN staging) + 1) :
                                      n \notin DOMAIN staging
                          IN /\ staging' = [e \in DOMAIN staging \cup {d} |->
                                              IF e = d THEN NoFiles ELSE staging[e]]
                             /\ boot' = [boot EXCEPT !.pc = "stage", !.dir = d,
                                           !.todo = Present(root),
                                           !.id = IF root["register"] = Absent
                                                    THEN Legacy ELSE deploy.legacyId]
                     ELSE Goto("scan") /\ UNCHANGED staging
    /\ UNCHANGED <<root, instances, dirs, keyFile, hist>> /\ QuietBoot

Migrated(place) == IF place["register"] = Absent THEN NoRecord ELSE deploy.legacyReg
Rollback == boot' = [boot EXCEPT !.pc = "rollback", !.todo = Present(staging[boot.dir])]

(* One legacy file is renamed into the staging directory.                  *)
StageFile ==
    /\ Booting("stage")
    /\ boot.todo # {}
    /\ \E ok \in BOOLEAN :
          /\ Disk(ok)
          /\ LET f == First(boot.todo) IN
             IF ok
               THEN /\ boot' = [boot EXCEPT !.todo = @ \ {f}]
                    /\ staging' = [staging EXCEPT ![boot.dir][f] = root[f]]
                    /\ root' = [root EXCEPT ![f] = Absent]
               ELSE Rollback /\ UNCHANGED <<root, staging>>
    /\ UNCHANGED <<instances, dirs, keyFile, hist>> /\ QuietBoot

(***************************************************************************)
(* The metadata is written into the staged instance directory (a failure   *)
(* is only logged) and one rename makes the directory instances/, with the *)
(* old register record as the instance's own.                              *)
(***************************************************************************)
Publish ==
    /\ Booting("stage")
    /\ boot.todo = {}
    /\ \E saved, renamed \in BOOLEAN :
          /\ saved \/ renamed
          /\ Disk(saved /\ renamed)
          /\ IF renamed
               THEN /\ instances' = TRUE
                    /\ dirs' = [dirs EXCEPT ![boot.id] = [NoDir EXCEPT
                                   !.meta = saved, !.files = staging[boot.dir],
                                   !.reg = Migrated(staging[boot.dir])]]
                    /\ hist' = IF saved THEN hist
                               ELSE [hist EXCEPT !.unsaved = @ \cup {boot.id}]
                    /\ staging' = Without(boot.dir)
                    /\ Goto("scan")
               ELSE Rollback /\ UNCHANGED <<instances, dirs, staging, hist>>
    /\ UNCHANGED <<root, keyFile>> /\ QuietBoot

(***************************************************************************)
(* rollback: each moved file is renamed back, then the staging directory   *)
(* is removed with whatever could not be.                                  *)
(***************************************************************************)
RollbackFile ==
    /\ Booting("rollback")
    /\ boot.todo # {}
    /\ \E ok \in BOOLEAN :
          /\ Disk(ok)
          /\ LET f == First(boot.todo) IN
             IF ok
               THEN /\ root' = [root EXCEPT ![f] = staging[boot.dir][f]]
                    /\ staging' = [staging EXCEPT ![boot.dir][f] = Absent]
                    /\ UNCHANGED hist
               ELSE /\ hist' = [hist EXCEPT !.unreturned = @ \cup {f}]
                    /\ UNCHANGED <<root, staging>>
    /\ boot' = [boot EXCEPT !.todo = @ \ {First(@)}]
    /\ UNCHANGED <<instances, dirs, keyFile>> /\ QuietBoot

RolledBack ==
    /\ Booting("rollback")
    /\ boot.todo = {}
    /\ staging' = Without(boot.dir)
    /\ Goto("scan")
    /\ UNCHANGED <<left, root, instances, dirs, keyFile, hist>> /\ QuietBoot

(***************************************************************************)
(* instances/ is made if it is missing, whatever became of the migration,  *)
(* and every directory with readable metadata is loaded.                   *)
(***************************************************************************)
Scan ==
    /\ Booting("scan")
    /\ instances' = TRUE
    /\ known' = {i \in Ids : dirs[i].meta}
    /\ target' = [i \in Ids |-> IF dirs[i].meta THEN dirs[i].target ELSE 0]
    /\ reg' = [i \in Ids |-> IF dirs[i].meta THEN dirs[i].reg ELSE NoRecord]
    /\ boot' = [Off EXCEPT !.pc = "up"]
    /\ UNCHANGED <<deploy, left, root, staging, dirs, keyFile, keys, work, tick, hist>>

Up == Booting("up")

-----------------------------------------------------------------------------
(* Bundles and keys.                                                       *)

(***************************************************************************)
(* getOrCreate: a new bundle loads the stores of its directory and writes  *)
(* its metadata (ok says whether that worked), and exists in memory also   *)
(* when the write failed.  Joined is the directory afterwards.             *)
(***************************************************************************)
GetOrCreate(b, ok) ==
    /\ b \in known => ok
    /\ known' = known \cup {b}
    /\ target' = IF b \in known THEN target ELSE [target EXCEPT ![b] = 0]
    /\ reg' = IF b \in known THEN reg ELSE [reg EXCEPT ![b] = dirs[b].reg]
Joined(b, ok) == IF b \in known \/ ~ok THEN dirs[b]
                 ELSE [dirs[b] EXCEPT !.meta = TRUE, !.target = 0]
Unsaved(b, ok) == IF ok THEN hist.unsaved \ {b} ELSE hist.unsaved \cup {b}
UnsavedIn(b, ok) == IF ok THEN hist.unsaved ELSE hist.unsaved \cup {b}

(* instanceForWrite: never an instance of its own for an unknown id.       *)
BundleForWrite(i) == IF i \in known THEN i ELSE Legacy

(* instanceForRegistration: only an accepted registration makes a bundle.  *)
BundleForRegistration(i, accepted) ==
    IF accepted /\ i # Legacy THEN i ELSE BundleForWrite(i)

(* taaPubForLocked: an id without a key of its own uses the legacy key.    *)
KeyFor(i) == IF i # Legacy /\ keys[i] # 0 THEN keys[i] ELSE keys[Legacy]

(* History: the id has had no key on file, and was never told it registered. *)
NeverKeyed(i) == deploy.keys[i] = 0 /\ i \notin hist.answered

(* instanceLess: accepted, then received, then the latest, then by id.     *)
Before(a, b) ==
    LET x == reg[a]
        y == reg[b]
    IN  IF x.accepted # y.accepted THEN x.accepted
        ELSE IF x.received # y.received THEN x.received
        ELSE x.at > y.at \/ (x.at = y.at /\ a < b)

Real == known \ {Legacy}

DefaultBundle ==
    IF Real # {} THEN CHOOSE a \in Real : \A b \in Real \ {a} : Before(a, b)
    ELSE IF known # {} THEN Legacy ELSE None

(* The first address there is.                                             *)
FirstOf(addrs) == LET some == {n \in DOMAIN addrs : addrs[n] # 0}
                  IN  IF some = {} THEN 0 ELSE addrs[CHOOSE n \in some : \A k \in some : n <= k]

MutTargetFor(i) ==
    LET b == IF i # Legacy THEN i ELSE DefaultBundle
    IN  IF i # Legacy /\ i \notin known THEN [id |-> None, addr |-> 0]
        ELSE IF b = None
          THEN [id |-> Legacy, addr |-> FirstOf(<<deploy.static, deploy.discovered>>)]
        ELSE [id |-> b, addr |-> FirstOf(<<deploy.static, target[b], deploy.discovered>>)]

(***************************************************************************)
(* targetFor: a lone instance with a configured address uses it; otherwise *)
(* the address it registered from, the configured and the discovered one.  *)
(***************************************************************************)
TargetFor(i) ==
    LET b == IF i # Legacy THEN i ELSE DefaultBundle
        alone == Cardinality(Real) <= 1 /\ deploy.static # 0
    IN  IF i # Legacy /\ i \notin known THEN [id |-> None, addr |-> 0]
        ELSE IF b = None
          THEN [id |-> Legacy, addr |-> FirstOf(<<deploy.static, deploy.discovered>>)]
        ELSE [id |-> b,
              addr |-> IF alone THEN deploy.static
                       ELSE FirstOf(<<target[b], deploy.static, deploy.discovered>>)]

-----------------------------------------------------------------------------
(* Registration.                                                           *)

Free(t) == Up /\ work[t] = Idle
At(t, op) == Up /\ work[t].op = op
Step(t, w) == work' = [work EXCEPT ![t] = w]

(* openRegister: the body carries a key and is signed with that key.       *)
RegisterOpens(m) == m.key # 0 /\ m.signer = m.key

(* The checks of registerHandler, in its order; local mode needs no        *)
(* attestation.                                                            *)
RegisterAccepted(m) ==
    /\ m.id # Legacy
    /\ deploy.allowEmpty \/ m.attested
    /\ m.complete

(***************************************************************************)
(* registerHandler up to the choice of the bundle: a body that does not    *)
(* open goes to the legacy bundle, one that fails validation to the bundle *)
(* already known under its id, an accepted one to a bundle of its own.     *)
(***************************************************************************)
Register(t) ==
    /\ Free(t)
    /\ left.regs > 0
    /\ \E m \in deploy.regs, later \in {0, 1} :
          LET opens == RegisterOpens(m)
              accepted == opens /\ RegisterAccepted(m)
              b == IF opens THEN BundleForRegistration(m.id, accepted)
                   ELSE BundleForWrite(Legacy)
              rec == [received |-> TRUE, accepted |-> accepted, at |-> tick + later,
                      key |-> IF opens THEN m.key ELSE 0]
          IN  /\ tick' = tick + later
              /\ Step(t, [op |-> IF accepted THEN "target" ELSE "record",
                          m |-> m, bundle |-> b, rec |-> rec])
              /\ \E ok \in BOOLEAN :
                   /\ ok \/ left.faults > 0
                   /\ left' = [left EXCEPT !.regs = @ - 1,
                                           !.faults = IF ok THEN @ ELSE @ - 1]
                   /\ GetOrCreate(b, ok)
                   /\ dirs' = [dirs EXCEPT ![b] = Joined(b, ok)]
                   /\ hist' = [hist EXCEPT
                        !.validated = IF accepted THEN @ \cup {<<m.id, m.key>>} ELSE @,
                        !.unsaved = UnsavedIn(b, ok)]
    /\ UNCHANGED <<deploy, files, keyFile, boot, keys>>

(***************************************************************************)
(* setTarget: the derived address and its save under the bundle's lock;    *)
(* an address already recorded is not written again.                       *)
(***************************************************************************)
SetTarget(t) ==
    /\ At(t, "target")
    /\ LET b == work[t].bundle
           a == work[t].m.addr
       IN IF a = 0 \/ target[b] = a
            THEN UNCHANGED <<left, target, dirs, hist>>
            ELSE \E ok \in BOOLEAN :
                   /\ Disk(ok)
                   /\ target' = [target EXCEPT ![b] = a]
                   /\ dirs' = IF ok THEN [dirs EXCEPT ![b].meta = TRUE, ![b].target = a] ELSE dirs
                   /\ hist' = [hist EXCEPT !.from[b] = @ \cup {a}, !.last[b] = a,
                                 !.unsaved = Unsaved(b, ok)]
    /\ Step(t, [work[t] EXCEPT !.op = "record"])
    /\ UNCHANGED <<deploy, files, keyFile, boot, known, reg, keys, tick>>

(* registerStateStore.set: the memory under the lock, the file after it.   *)
RecordRegister(t) ==
    /\ At(t, "record")
    /\ reg' = [reg EXCEPT ![work[t].bundle] = work[t].rec]
    /\ Step(t, [work[t] EXCEPT !.op = "save"])
    /\ UNCHANGED <<deploy, left, files, dirs, keyFile, boot, known, target, keys, tick, hist>>

(* A failed save is only logged: the answer is the same. *)
SaveRegister(t) ==
    /\ At(t, "save")
    /\ \E ok \in BOOLEAN :
         /\ Disk(ok)
         /\ dirs' = IF ok THEN [dirs EXCEPT ![work[t].bundle].reg = work[t].rec] ELSE dirs
    /\ Step(t, IF work[t].rec.accepted THEN [work[t] EXCEPT !.op = "adopt"] ELSE Idle)
    /\ UNCHANGED <<deploy, files, keyFile, boot, memory, tick, hist>>

(* persistLocked: the whole key table in one atomic write.                 *)
PersistKeys(ok) == keyFile' = IF ok THEN keys' ELSE keyFile

MutAdoptKey(t) ==
    /\ At(t, "adopt")
    /\ LET m == work[t].m IN
       /\ keys' = [keys EXCEPT ![m.id] = m.key]
       /\ hist' = [hist EXCEPT !.adopted[m.id] = @ \cup {m.key}, !.answered = @ \cup {m.id}]
    /\ Step(t, Idle)
    /\ UNCHANGED <<deploy, left, files, dirs, keyFile, boot, known, target, reg, tick>>

(***************************************************************************)
(* setTaaPublicKeyFor: the key in memory and the key file under one lock,  *)
(* then the answer.  When the file cannot be written the registration is   *)
(* recorded as rejected, and the key in memory stays.                      *)
(***************************************************************************)
AdoptKey(t) ==
    /\ At(t, "adopt")
    /\ LET m == work[t].m IN
       /\ keys' = [keys EXCEPT ![m.id] = m.key]
       /\ \E ok \in BOOLEAN :
            /\ Disk(ok)
            /\ PersistKeys(ok)
            /\ Step(t, IF ok THEN Idle
                       ELSE [work[t] EXCEPT !.op = "record", !.rec.accepted = FALSE])
            /\ hist' = [hist EXCEPT !.adopted[m.id] = @ \cup {m.key},
                                    !.answered = IF ok THEN @ \cup {m.id} ELSE @]
    /\ UNCHANGED <<deploy, files, dirs, boot, known, target, reg, tick>>

-----------------------------------------------------------------------------
(* Reports.                                                                *)

(***************************************************************************)
(* What each report handler asks of a body beyond its dockerId: m.whole    *)
(* says whether it has the ids, m.sum whether its checksum is complete,    *)
(* m.code its code.  m.plain is its dockerId without surrounding blanks;   *)
(* m.blank says that blanks are all there is, which only the resource      *)
(* handler, comparing with the empty string, takes for a dockerId.         *)
(***************************************************************************)
ResourceAccepted(m) == m.json /\ (m.plain # Legacy \/ m.blank) /\ m.whole
ResAccepted(m) == m.plain # Legacy /\ m.whole
ImportAccepted(m) == m.plain # Legacy /\ m.whole /\ (m.code = 0 => m.sum)
AuditAccepted(m) == m.plain # Legacy /\ m.whole /\ m.code \in {0, 1, 2}
Accepted(m) == CASE m.kind = "resource" -> ResourceAccepted(m)
                 [] m.kind = "res"      -> ResAccepted(m)
                 [] m.kind = "import"   -> ImportAccepted(m)
                 [] m.kind = "audit"    -> AuditAccepted(m)

MutIdentity(m) == IF m.hint = Legacy THEN m.plain ELSE m.hint

(* The identity openBodyWithID returns: an empty hint stays the legacy one. *)
Identity(m) == m.hint

(* openFromTAAResponseFor: the hint selects the key.                       *)
Verified(m) == KeyFor(m.hint) # 0 /\ m.signer = KeyFor(m.hint)

(* openBodyWithID: the plaintext must agree with the hint.                 *)
Opens(m) ==
    /\ Verified(m)
    /\ m.hint = Legacy \/ m.plain \in {Legacy, m.hint}

OpenReport(t) ==
    /\ Free(t)
    /\ Spend("reports")
    /\ \E m \in deploy.reports :
          Step(t, [op |-> "report", m |-> m,
                   id |-> IF Opens(m) THEN Identity(m) ELSE Legacy,
                   rec |-> [kind |-> m.kind, plain |-> m.plain, blank |-> m.blank,
                            key |-> m.signer, accepted |-> Opens(m) /\ Accepted(m),
                            early |-> NeverKeyed(m.hint)]])
    /\ UNCHANGED <<deploy, files, dirs, keyFile, boot, memory, tick, hist>>

(* reportStateStore.set: newest first, at most HistoryCap, and saved.      *)
Kept(all) == SubSeq(all, 1, IF Len(all) > HistoryCap THEN HistoryCap ELSE Len(all))

WriteReport(t) ==
    /\ At(t, "report")
    /\ LET b == BundleForWrite(work[t].id) IN
       \E ok \in BOOLEAN :
         /\ Disk(ok)
         /\ GetOrCreate(b, ok)
         /\ dirs' = [dirs EXCEPT ![b] = [Joined(b, ok) EXCEPT
                                           !.reports = Kept(<<work[t].rec>> \o @)]]
         /\ hist' = [hist EXCEPT !.unsaved = UnsavedIn(b, ok)]
    /\ Step(t, Idle)
    /\ UNCHANGED <<deploy, files, keyFile, boot, keys, tick>>

-----------------------------------------------------------------------------
(* The console.                                                            *)

(* instanceResetHandler: the bundle named, or every bundle in turn.        *)
Reset(t) ==
    /\ Free(t)
    /\ Spend("resets")
    /\ \E bs \in {{i} : i \in Real} \cup {known}, what \in {"register", "reports"} :
          /\ bs # {}
          /\ Step(t, [op |-> "reset", todo |-> bs, what |-> what, bundle |-> None])
    /\ UNCHANGED <<deploy, files, dirs, keyFile, boot, memory, tick, hist>>

(* The reports are reset and saved under the store's lock; the register    *)
(* record is reset in memory and saved after the lock is released.         *)
ResetOne(t) ==
    /\ At(t, "reset")
    /\ \E b \in work[t].todo :
         LET rest == [work[t] EXCEPT !.todo = @ \ {b}] IN
         IF work[t].what = "reports"
           THEN /\ dirs' = [dirs EXCEPT ![b].reports = <<>>]
                /\ Step(t, IF rest.todo = {} THEN Idle ELSE rest)
                /\ UNCHANGED reg
           ELSE /\ reg' = [reg EXCEPT ![b] = NoRecord]
                /\ Step(t, [rest EXCEPT !.op = "clear", !.bundle = b])
                /\ UNCHANGED dirs
    /\ UNCHANGED <<deploy, left, files, keyFile, boot, known, target, keys, tick, hist>>

SaveReset(t) ==
    /\ At(t, "clear")
    /\ \E ok \in BOOLEAN :
         /\ Disk(ok)
         /\ dirs' = IF ok THEN [dirs EXCEPT ![work[t].bundle].reg = NoRecord] ELSE dirs
    /\ Step(t, IF work[t].todo = {} THEN Idle ELSE [work[t] EXCEPT !.op = "reset"])
    /\ UNCHANGED <<deploy, files, keyFile, boot, memory, tick, hist>>

(***************************************************************************)
(* resolveLenient, as the readiness probe and the dashboard call it: with  *)
(* no bundle at all the legacy bundle is created.                          *)
(***************************************************************************)
Look ==
    /\ Up
    /\ DefaultBundle = None
    /\ left.looks > 0
    /\ \E ok \in BOOLEAN :
         /\ ok \/ left.faults > 0
         /\ left' = [left EXCEPT !.looks = @ - 1, !.faults = IF ok THEN @ ELSE @ - 1]
         /\ GetOrCreate(Legacy, ok)
         /\ dirs' = [dirs EXCEPT ![Legacy] = Joined(Legacy, ok)]
         /\ hist' = [hist EXCEPT !.unsaved = UnsavedIn(Legacy, ok)]
    /\ UNCHANGED <<deploy, files, keyFile, boot, keys, work, tick>>

(* A console request for an instance, or for the default one: its route.   *)
(* One without a body (bare: GET and HEAD) goes through the reverse proxy. *)
Route(t) ==
    /\ Free(t)
    /\ Spend("sends")
    /\ \E i \in Ids, bare \in BOOLEAN :
         LET to == TargetFor(i) IN
         /\ to.id # None
         /\ to.addr # 0
         /\ Step(t, [op |-> "send", id |-> to.id, addr |-> to.addr, bare |-> bare,
                     own |-> /\ Cardinality(Real) > 1 /\ hist.last[to.id] # 0
                             /\ to.id \notin hist.unsaved])
    /\ UNCHANGED <<deploy, files, dirs, keyFile, boot, memory, tick, hist>>

(* sealForTAAFor: the key of that id, or none, and then nothing is sent.   *)
(* A request without a body is forwarded as it is.                         *)
SealedWith(i) == KeyFor(i)

SealAndSend(t) ==
    /\ At(t, "send")
    /\ LET k == IF work[t].bare THEN 0 ELSE SealedWith(work[t].id) IN
       hist' = IF k = 0 /\ ~work[t].bare THEN hist
               ELSE [hist EXCEPT !.sent = @ \cup {[id |-> work[t].id, addr |-> work[t].addr,
                       own |-> work[t].own, key |-> k, bare |-> work[t].bare,
                       early |-> NeverKeyed(work[t].id)]}]
    /\ Step(t, Idle)
    /\ UNCHANGED <<deploy, left, files, dirs, keyFile, boot, memory, tick>>

-----------------------------------------------------------------------------
(* The process dies at any point and starts again.                         *)
Crash ==
    /\ ~Booting("off")
    /\ Spend("crashes")
    /\ boot' = Off
    /\ known' = {}
    /\ target' = [i \in Ids |-> 0]
    /\ reg' = [i \in Ids |-> NoRecord]
    /\ keys' = [i \in Ids |-> 0]
    /\ work' = [t \in Threads |-> Idle]
    /\ UNCHANGED <<deploy, files, dirs, keyFile, tick, hist>>

Migrate == \/ RecoverDir \/ RestoreFile \/ Recovered \/ BeginMigration
           \/ StageFile \/ Publish \/ RollbackFile \/ RolledBack

Handle(t) == \/ Register(t) \/ SetTarget(t) \/ RecordRegister(t) \/ SaveRegister(t)
             \/ AdoptKey(t) \/ OpenReport(t) \/ WriteReport(t) \/ Reset(t)
             \/ ResetOne(t) \/ SaveReset(t) \/ Route(t) \/ SealAndSend(t)

Next == LoadKeys \/ Migrate \/ Scan \/ Look \/ Crash \/ \E t \in Threads : Handle(t)

Spec == Init /\ [][Next]_vars

-----------------------------------------------------------------------------
(* Properties.                                                             *)

Newest(f) == LET vs == {deploy.root[f]} \cup {deploy.staging[d][f] : d \in DOMAIN deploy.staging}
             IN  CHOOSE v \in vs : \A w \in vs : w <= v

Somewhere(f) == \/ root[f] = Newest(f)
                \/ \E d \in DOMAIN staging : staging[d][f] = Newest(f)
                \/ \E i \in Ids : dirs[i].files[f] = Newest(f)

(***************************************************************************)
(* The move to one directory per instance loses nothing: at every moment,  *)
(* through crashes and failing renames, the newest copy of each legacy file *)
(* is in the root, in a staging directory or published, with two           *)
(* exceptions the README explains: a file whose rollback rename failed,    *)
(* and one of which a failed recovery left an older copy behind.  When no  *)
(* file operation failed, once the mock is up every file is published      *)
(* under the dockerId of the old register record and that instance is      *)
(* loaded.                                                                 *)
(***************************************************************************)
MigrationLossless ==
    /\ \A f \in Files : Newest(f) # Absent => Somewhere(f) \/ f \in hist.unreturned \cup hist.stale
    /\ Up /\ left.faults = deploy.left.faults /\ ~deploy.instances =>
         \A f \in Files : Newest(f) # Absent =>
            /\ dirs[deploy.legacyId].files[f] = Newest(f)
            /\ deploy.legacyId \in known

(* A report whose dockerId is blank. *)
Nameless(r) == r.kind = "resource" /\ r.blank /\ r.plain = Legacy

(***************************************************************************)
(* A report accepted into an instance's store names that instance and was  *)
(* signed with a key adopted for it, or with the legacy key before any     *)
(* registration of it had succeeded: rotation, crashes, an empty or a      *)
(* foreign hint never let one instance write another's record.  The name   *)
(* has one exception: a resource report may name nothing but blanks.       *)
(***************************************************************************)
ReportsOwned ==
    \A i \in Ids \ {Legacy} : \A n \in DOMAIN dirs[i].reports :
        LET r == dirs[i].reports[n] IN
        r.accepted => /\ r.plain = i \/ Nameless(r)
                      /\ \/ r.key \in hist.adopted[i]
                         \/ r.early /\ r.key = deploy.keys[Legacy]

(***************************************************************************)
(* Only an accepted registration or the migration makes an instance, on    *)
(* disk or in memory, and only an accepted registration changes a key: the *)
(* key in use for an id is the one it started with or one that an accepted *)
(* registration of that id carried.                                        *)
(***************************************************************************)
OnlyRegistered ==
    /\ \A i \in known \cup {j \in Ids : dirs[j].meta} :
          \/ i = Legacy
          \/ deploy.dirs[i].meta
          \/ i = deploy.legacyId
          \/ \E r \in hist.validated : r[1] = i
    /\ Up => \A i \in Ids : keys[i] # deploy.keys[i] => <<i, keys[i]>> \in hist.validated

(***************************************************************************)
(* A registration answered with success survives: whatever crashes, resets *)
(* and further registrations follow, the instance is known whenever the    *)
(* mock is up, has a key adopted for it, and its requests go to the        *)
(* address it last registered from (unless writing its metadata failed,    *)
(* which the code only logs).                                              *)
(***************************************************************************)
AcceptedKept ==
    Up => \A i \in hist.answered :
            /\ keys[i] \in hist.adopted[i]
            /\ i \notin hist.unsaved => i \in known /\ target[i] = hist.last[i]

(***************************************************************************)
(* Registration makes exactly the instances it accepted, and keeps them.   *)
(***************************************************************************)
RegistrationSound == OnlyRegistered /\ AcceptedKept

(***************************************************************************)
(* A request for an instance is sealed with a key of that instance (the    *)
(* legacy key only before any registration of it had succeeded) unless it  *)
(* has no body to seal, and, sealed or not, among                          *)
(* several instances one that has registered an address is reached at such *)
(* an address, unless writing its metadata failed: no request borrows      *)
(* another instance's key or address.                                      *)
(***************************************************************************)
RoutedHome ==
    \A s \in hist.sent :
        /\ \/ s.bare
           \/ s.key \in hist.adopted[s.id]
           \/ s.early /\ s.key = deploy.keys[Legacy]
        /\ \/ s.addr \in hist.from[s.id]
           \/ ~s.own /\ s.addr \in {deploy.static, deploy.discovered}
=============================================================================
