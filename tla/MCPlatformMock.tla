---------------------------- MODULE MCPlatformMock ----------------------------
(* Instances of PlatformMock for TLC: two instances and the legacy bundle. *)
EXTENDS PlatformMock, TLC

MCIds == 0..2
Sym == Permutations(Threads)

\* Keys: 1 and 3 of instance 1, 2 of instance 2, 9 the legacy key.
\* Addresses: 1, 2 and 3 derived, 8 configured, 9 discovered.
Old(addr) == [NoDir EXCEPT !.meta = TRUE, !.target = addr]
Calm == [regs |-> 0, reports |-> 0, sends |-> 0, resets |-> 0, looks |-> 0,
         crashes |-> 0, faults |-> 0]
Fresh == [legacyId |-> 0, root |-> NoFiles, staging |-> <<>>, instances |-> TRUE,
          dirs |-> [i \in MCIds |-> NoDir], legacyReg |-> NoRecord, keys |-> [i \in MCIds |-> 0],
          static |-> 0, discovered |-> 0, allowEmpty |-> FALSE, regs |-> {}, reports |-> {}, left |-> Calm]
Reg(id, key, addr) == [id |-> id, key |-> key, signer |-> key, addr |-> addr,
                       attested |-> TRUE, complete |-> TRUE]
Report(hint, plain, signer) == [kind |-> "res", hint |-> hint, plain |-> plain, signer |-> signer,
                                json |-> TRUE, blank |-> FALSE, whole |-> TRUE, code |-> 0, sum |-> TRUE]

\* A single-instance state directory, with or without a register record in it.
OldLayout(place, id) ==
    [Fresh EXCEPT !.legacyId = id,
                  !.legacyReg = [received |-> TRUE, accepted |-> TRUE, at |-> 1, key |-> 9],
                  !.instances = FALSE, !.root = place, !.keys = [@ EXCEPT ![0] = 9],
                  !.left = [Calm EXCEPT !.crashes = 2, !.faults = 2]]
\* One whose migration was cut off, after which an older mock wrote a record again.
CutOff == [OldLayout([register |-> 2, report |-> Absent], 1) EXCEPT
             !.staging = <<[register |-> 1, report |-> 1]>>,
             !.left = [Calm EXCEPT !.crashes = 2, !.faults = 1]]
\* The migrated instance is the default one until another registers.
Outgrown == [OldLayout([register |-> 1, report |-> 1], 1) EXCEPT
              !.static = 8, !.regs = {Reg(1, 1, 1), Reg(2, 2, 2)},
              !.left = [Calm EXCEPT !.regs = 2, !.sends = 1, !.crashes = 1]]
Migrations == {Outgrown,
               OldLayout([register |-> 1, report |-> 1], 1),
               OldLayout([register |-> Absent, report |-> 1], 0),
               OldLayout([register |-> 1, report |-> Absent], 0), CutOff}

\* Registrations of two ids, one of them rotating its key, some refused.
Joining == [Fresh EXCEPT
    !.keys = [@ EXCEPT ![0] = 9],
    !.regs = {Reg(1, 1, 1), Reg(1, 3, 3), Reg(2, 2, 2), Reg(0, 2, 2),
              [Reg(2, 2, 2) EXCEPT !.attested = FALSE], [Reg(1, 1, 1) EXCEPT !.signer = 2],
              [Reg(1, 3, 0) EXCEPT !.complete = FALSE]},
    !.left = [Calm EXCEPT !.regs = 2, !.looks = 1, !.resets = 1, !.crashes = 1]]
\* Three accepted registrations, two of them of one id.
JoinThree == [Joining EXCEPT !.regs = {Reg(1, 1, 1), Reg(1, 3, 3), Reg(2, 2, 2)},
    !.left = [Calm EXCEPT !.regs = 3, !.crashes = 1]]
JoinFaults == [Joining EXCEPT !.regs = {Reg(1, 1, 1), Reg(1, 3, 3)},
    !.left = [Calm EXCEPT !.regs = 2, !.crashes = 1, !.faults = 2]]

\* Reports with every hint, plaintext id and signer while instances register.
Reporting == [Fresh EXCEPT
    !.dirs = [@ EXCEPT ![2] = Old(2)],
    !.keys = [@ EXCEPT ![0] = 9, ![2] = 2],
    !.regs = {Reg(1, 1, 1)},
    !.reports = {Report(h, p, s) : h \in {0, 1, 2}, p \in {0, 1, 2}, s \in {1, 2, 9}},
    !.left = [Calm EXCEPT !.regs = 1, !.reports = 2, !.crashes = 1]]
\* The key file may fail to be written before a crash.
ReportFaults == [Reporting EXCEPT !.left = [Calm EXCEPT !.regs = 1, !.reports = 1, !.crashes = 1, !.faults = 1]]
\* The bodies each kind of report accepts.
Kinds == [Reporting EXCEPT
    !.reports = {[Report(2, 2, 2) EXCEPT !.plain = p, !.blank = p = 0,
                             !.kind = k, !.json = j, !.whole = w, !.code = c, !.sum = u] :
                   p \in {0, 2}, k \in {"resource", "res", "import", "audit"}, j \in BOOLEAN, w \in BOOLEAN,
                   c \in {0, 3}, u \in BOOLEAN},
    !.left = [Calm EXCEPT !.reports = 2, !.resets = 1]]

\* Requests to one or two instances, with and without configured addresses.
Routing(static, discovered, d1, d2, f) == [Fresh EXCEPT
    !.static = static, !.discovered = discovered,
    !.dirs = [@ EXCEPT ![1] = d1, ![2] = d2],
    !.keys = [i \in MCIds |-> IF i = 0 THEN 9 ELSE IF i = 2 /\ ~d2.meta THEN 0 ELSE i],
    !.regs = {Reg(2, 2, 2), Reg(1, 3, 3)},
    !.left = [Calm EXCEPT !.regs = 1, !.sends = 2, !.crashes = 1, !.resets = 1, !.faults = f]]
Routes == {Routing(a[1], a[2], Old(1), d2, 0) :
             a \in {<<0, 0>>, <<8, 0>>, <<0, 9>>}, d2 \in {NoDir, Old(2), Old(0)}}
          \cup {Routing(8, 0, Old(1), NoDir, 1)}

MCDeployments == Migrations \cup {Joining, JoinThree, JoinFaults, Reporting, ReportFaults, Kinds} \cup Routes
=============================================================================
