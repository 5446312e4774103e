--------------------------- MODULE Startup_proofs ---------------------------
(***************************************************************************)
(* Proofs about Startup, for any deployments, hosts, starts and faults.    *)
(*                                                                         *)
(* The directory is kept because a start writes a private key or a sealed  *)
(* state only where there is none, and archives under a stamp no earlier   *)
(* archive has.  The platform's record is one identity because everything  *)
(* that is registered derives from the key of this start, and the world it *)
(* was derived from does not change while the process runs.                *)
(***************************************************************************)
EXTENDS Startup, TLAPS

(***************************************************************************)
(* Shapes: what EXCEPT and the comparisons of numbers need.  A             *)
(* configuration, a host and a sealing key stay opaque.                    *)
(***************************************************************************)
Memory == [cfg : {p.cfg}, key : Int, loaded : BOOLEAN, recovered : BOOLEAN,
           source : {"none", "sm2", "csv-hw"}, seal : {p.seal}, secret : {p.secret},
           verified : BOOLEAN, retrying : BOOLEAN, registered : BOOLEAN, engine : {p.engine}]

\* Before the key of this start is fixed, and up to the archive of a state.
Fresh == {"probe", "keys"}
BeforeKeys == Fresh \cup {"archivePriv"}
BeforeDrift == BeforeKeys \cup {"archivePub", "writePriv", "writePub", "material", "drift"}
Drifted == {"sealClean", "attest"}
Attested == {"register", "security", "runner", "serving"}
Places == {"down"} \cup BeforeDrift \cup Drifted \cup Attested

\* Variables and their shapes.
Typed ==
    /\ pc \in Places
    /\ p \in Memory
    /\ disk \in [priv : Int, pub : Int]
    /\ now \in Nat /\ nextKey \in Nat /\ seals \in Nat
    /\ deployment \in Deployments

\* A process that is down has no memory.
DownSound == pc = "down" => p = Idle

(***************************************************************************)
(* The directory.                                                          *)
(***************************************************************************)
\* The stamps of the archives are past ones until this start archives.
StampsSound ==
    /\ \A a \in bak : a.stamp \in Nat /\ a.stamp <= now
    /\ \A a \in orphans : a.stamp \in Nat /\ a.stamp <= now
    /\ pc \in BeforeKeys => \A a \in bak : a.stamp < now
    /\ pc \in BeforeDrift => \A a \in orphans : a.stamp < now

\* No held key is "no file", and a private key is written over none.
WriteSound ==
    /\ None \notin held
    /\ pc \in {"archivePub", "writePriv"} => disk.priv = None
    /\ pc = "sealClean" => sealed = NoState

\* The key of a start is a key, and its source is known once the material is.
KeySound ==
    /\ nextKey >= 1 /\ nextKey <= now + 3
    /\ pc \in Fresh => nextKey <= now + 2
    /\ now <= MaxBoots(deployment)
    /\ pc \notin Fresh \cup {"down"} => p.key \in Keys
    /\ pc \in Drifted \cup Attested => p.source = DetectSource
    /\ pc = "drift" => p.source = DetectSource

DirInv == Typed /\ DownSound /\ StampsSound /\ WriteSound /\ KeySound /\ DirectoryKept

(***************************************************************************)
(* The identity.                                                           *)
(***************************************************************************)
\* The wrapped key is of this start's key, host and contract, or there is none.
SecretSound ==
    p.secret = IF pc \in {"drift"} \cup Drifted \cup Attested /\ ReportsSecret
               THEN SealTAASecretKey(host.hw, p.cfg.contract, p.key) ELSE NoSecret

\* The key of a start that was given a TAASECRETKEY is the one it unwraps to.
RecoveredSound ==
    pc \notin Fresh \cup {"down"} /\ secretEnv # NoSecret => p.recovered /\ p.key = secretEnv.key

\* From the registration on the report file is of this start's key.
ReportSound == pc \in Attested => report \in {None, p.key}

\* Requests are sent after the report, and the record is the last one accepted.
RecordSound ==
    /\ p.retrying \/ p.registered => pc \in Attested
    /\ p.registered => platform.pub = p.key /\ platform.secret = p.secret
    /\ platform.verified => platform.userData = platform.pub
    /\ platform.secret # NoSecret => platform.secret.key = platform.pub

PlatInv == SecretSound /\ RecoveredSound /\ ReportSound /\ RecordSound

(* Every action keeps the shapes. *)
LEMMA TypedStep ==
    ASSUME Typed, KeySound, [Next]_vars
    PROVE  Typed'
<1> USE DEF Typed, Memory, Idle, Places, Fresh, BeforeKeys, BeforeDrift, Drifted, Attested, world
<1>1. CASE Probe
  BY <1>1 DEF Probe
<1>2. CASE Recover
  <2>1. CASE Exit
    BY <1>2, <2>1 DEF Recover, None, Exit
  <2>2. CASE ~Exit
    <3> DEFINE k == OpenTAASecretKey(host.hw, p.cfg.contract, secretEnv)
    <3>1. p' = [p EXCEPT !.key = k, !.recovered = TRUE] /\ k # Bad /\ pc' \in {"material", "archivePriv"}
      BY <1>2, <2>2 DEF Recover
    <3>2. k \in Int
      BY <3>1 DEF OpenTAASecretKey, Keys, Bad
    <3> HIDE DEF k
    <3>3. p' \in Memory'
      BY <3>1, <3>2
    <3>4. UNCHANGED <<disk, now, nextKey, seals, deployment>>
      BY <1>2 DEF Recover
    <3> QED  BY <3>1, <3>3, <3>4
  <2> QED  BY <2>1, <2>2
<1>3. CASE ArchivePriv
  BY <1>3 DEF ArchivePriv, None
<1>4. CASE ArchivePub
  BY <1>4 DEF ArchivePub, None
<1>5. CASE LoadPair
  <2>1. CASE Exit
    BY <1>5, <2>1 DEF LoadPair, None, Exit
  <2>2. CASE ~Exit
    BY <1>5, <2>2 DEF LoadPair, None, Keys
  <2> QED  BY <2>1, <2>2
<1>6. CASE SelfHeal
  <2>1. CASE Exit
    BY <1>6, <2>1 DEF SelfHeal, None, Exit
  <2>2. CASE ~Exit
    BY <1>6, <2>2 DEF SelfHeal, None, Keys
  <2> QED  BY <2>1, <2>2
<1>7. CASE Generate
  BY <1>7 DEF Generate, None
<1>8. CASE FetchFailed
  BY <1>8 DEF FetchFailed, Exit, None
<1>9. CASE WritePriv
  BY <1>9 DEF WritePriv, Keys
<1>10. CASE WritePub
  BY <1>10 DEF WritePub, Keys
<1>11. CASE Material
  <2>1. CASE Exit
    BY <1>11, <2>1 DEF Material, None, Exit
  <2>2. CASE ~Exit
    <3> DEFINE x == SealingKey(p.key)
               y == IF ReportsSecret THEN SealTAASecretKey(host.hw, p.cfg.contract, p.key) ELSE NoSecret
    <3>1. p' = [p EXCEPT !.source = DetectSource, !.seal = x, !.secret = y]
      BY <1>11, <2>2 DEF Material
    <3> HIDE DEF x, y
    <3>2. DetectSource \in {"sm2", "csv-hw"}
      BY DEF DetectSource
    <3>3. p' \in Memory'
      BY <3>1, <3>2
    <3>4. pc' = "drift" /\ UNCHANGED <<disk, now, nextKey, seals, deployment>>
      BY <1>11, <2>2 DEF Material
    <3> QED  BY <3>3, <3>4
  <2> QED  BY <2>1, <2>2
<1>12. CASE DetectKeyDrift
  <2>1. CASE Exit
    BY <1>12, <2>1 DEF DetectKeyDrift, None, Exit
  <2>2. CASE ~Exit
    BY <1>12, <2>2 DEF DetectKeyDrift, None
  <2> QED  BY <2>1, <2>2
<1>13. CASE SealClean
  BY <1>13 DEF SealClean
<1>14. CASE Attest
  BY <1>14 DEF Attest, None
<1>15. CASE Register
  BY <1>15 DEF Register
<1>16. CASE BuildSecurityConfig
  BY <1>16 DEF BuildSecurityConfig
<1>17. CASE BuildRunner
  <2>1. CASE Exit
    BY <1>17, <2>1 DEF BuildRunner, None, Exit
  <2>2. CASE ~Exit
    BY <1>17, <2>2 DEF BuildRunner, None
  <2> QED  BY <2>1, <2>2
<1>18. CASE Boot
  <2>1. CASE UNCHANGED <<pc, p>>
    BY <1>18, <2>1 DEF Boot
  <2>2. CASE ~UNCHANGED <<pc, p>>
    <3>1. PICK c : p' = [Idle EXCEPT !.cfg = c]
      BY <1>18, <2>2, Zenon DEF Boot
    <3>2. p' = [cfg |-> c, key |-> None, loaded |-> FALSE, recovered |-> FALSE, source |-> "none",
                seal |-> "none", secret |-> NoSecret, verified |-> FALSE, retrying |-> FALSE,
                registered |-> FALSE, engine |-> "none"]
      BY <3>1
    <3>3. p' \in Memory'
      BY <3>2 DEF None
    <3>4. pc' = "probe"
      BY <1>18, <2>2 DEF Boot
    <3>5. now' = now + 1 /\ UNCHANGED <<disk, nextKey, seals, deployment>>
      BY <1>18 DEF Boot
    <3> QED  BY <3>3, <3>4, <3>5
  <2> QED  BY <2>1, <2>2
<1>19. CASE RetryRegister
  BY <1>19 DEF RetryRegister
<1>20. CASE RetryAnswerLost
  BY <1>20 DEF RetryAnswerLost
<1>21. CASE SealState
  BY <1>21 DEF SealState
<1>22. CASE GetAttestation
  BY <1>22 DEF GetAttestation
<1>23. CASE Stop
  BY <1>23 DEF Stop, Exit, None
<1>24. CASE Move
  BY <1>24 DEF Move
<1>25. CASE Fault
  BY <1>25 DEF Fault, None, Bad
<1>26. CASE UNCHANGED vars
  BY <1>26 DEF vars
<1>27. QED
  BY <1>1, <1>2, <1>3, <1>4, <1>5, <1>6, <1>7, <1>8, <1>9, <1>10, <1>11, <1>12, <1>13, <1>14, <1>15, <1>16, <1>17, <1>18, <1>19, <1>20, <1>21, <1>22, <1>23, <1>24, <1>25, <1>26 DEF Next, Step

(* Nothing writes the memory of a process that is down. *)
LEMMA DownStep ==
    ASSUME Typed, DownSound, [Next]_vars
    PROVE  DownSound'
<1> USE DEF DownSound
<1>1. CASE Probe
  BY <1>1 DEF Probe
<1>2. CASE Recover
  BY <1>2 DEF Recover, Exit
<1>3. CASE ArchivePriv
  BY <1>3 DEF ArchivePriv
<1>4. CASE ArchivePub
  BY <1>4 DEF ArchivePub
<1>5. CASE LoadPair
  BY <1>5 DEF LoadPair, Exit
<1>6. CASE SelfHeal
  BY <1>6 DEF SelfHeal, Exit
<1>7. CASE Generate
  BY <1>7 DEF Generate
<1>8. CASE FetchFailed
  BY <1>8 DEF FetchFailed, Exit
<1>9. CASE WritePriv
  BY <1>9 DEF WritePriv
<1>10. CASE WritePub
  BY <1>10 DEF WritePub
<1>11. CASE Material
  BY <1>11 DEF Material, Exit
<1>12. CASE DetectKeyDrift
  BY <1>12 DEF DetectKeyDrift, Exit
<1>13. CASE SealClean
  BY <1>13 DEF SealClean
<1>14. CASE Attest
  BY <1>14 DEF Attest
<1>15. CASE Register
  BY <1>15 DEF Register
<1>16. CASE BuildSecurityConfig
  BY <1>16 DEF BuildSecurityConfig
<1>17. CASE BuildRunner
  BY <1>17 DEF BuildRunner, Exit
<1>18. CASE Boot
  BY <1>18 DEF Boot
<1>19. CASE RetryRegister
  BY <1>19 DEF RetryRegister, Idle
<1>20. CASE RetryAnswerLost
  BY <1>20 DEF RetryAnswerLost, Idle
<1>21. CASE SealState
  BY <1>21 DEF SealState
<1>22. CASE GetAttestation
  BY <1>22 DEF GetAttestation
<1>23. CASE Stop
  BY <1>23 DEF Stop, Exit
<1>24. CASE Move
  BY <1>24 DEF Move
<1>25. CASE Fault
  BY <1>25 DEF Fault
<1>26. CASE UNCHANGED vars
  BY <1>26 DEF vars
<1>27. QED
  BY <1>1, <1>2, <1>3, <1>4, <1>5, <1>6, <1>7, <1>8, <1>9, <1>10, <1>11, <1>12, <1>13, <1>14, <1>15, <1>16, <1>17, <1>18, <1>19, <1>20, <1>21, <1>22, <1>23, <1>24, <1>25, <1>26 DEF Next, Step

(* The clock advances at a start, and an archive takes the stamp of now. *)
LEMMA StampsStep ==
    ASSUME Typed, StampsSound, [Next]_vars
    PROVE  StampsSound'
<1> USE DEF Typed, StampsSound, Places, Fresh, BeforeKeys, BeforeDrift, Drifted, Attested, world
<1>1. CASE Probe
  BY <1>1 DEF Probe
<1>2. CASE Recover
  BY <1>2 DEF Recover, Exit
<1>3. CASE ArchivePriv
  BY <1>3 DEF ArchivePriv, Stamped, KeyStamp
<1>4. CASE ArchivePub
  BY <1>4 DEF ArchivePub
<1>5. CASE LoadPair
  BY <1>5 DEF LoadPair, Exit
<1>6. CASE SelfHeal
  BY <1>6 DEF SelfHeal, Exit
<1>7. CASE Generate
  BY <1>7 DEF Generate
<1>8. CASE FetchFailed
  BY <1>8 DEF FetchFailed, Exit
<1>9. CASE WritePriv
  BY <1>9 DEF WritePriv
<1>10. CASE WritePub
  BY <1>10 DEF WritePub
<1>11. CASE Material
  BY <1>11 DEF Material, Exit
<1>12. CASE DetectKeyDrift
  BY <1>12 DEF DetectKeyDrift, Exit, Stamped
<1>13. CASE SealClean
  BY <1>13 DEF SealClean
<1>14. CASE Attest
  BY <1>14 DEF Attest
<1>15. CASE Register
  BY <1>15 DEF Register
<1>16. CASE BuildSecurityConfig
  BY <1>16 DEF BuildSecurityConfig
<1>17. CASE BuildRunner
  BY <1>17 DEF BuildRunner, Exit
<1>18. CASE Boot
  BY <1>18 DEF Boot
<1>19. CASE RetryRegister
  BY <1>19 DEF RetryRegister
<1>20. CASE RetryAnswerLost
  BY <1>20 DEF RetryAnswerLost
<1>21. CASE SealState
  BY <1>21 DEF SealState
<1>22. CASE GetAttestation
  BY <1>22 DEF GetAttestation
<1>23. CASE Stop
  BY <1>23 DEF Stop, Exit
<1>24. CASE Move
  BY <1>24 DEF Move
<1>25. CASE Fault
  BY <1>25 DEF Fault
<1>26. CASE UNCHANGED vars
  BY <1>26 DEF vars
<1>27. QED
  BY <1>1, <1>2, <1>3, <1>4, <1>5, <1>6, <1>7, <1>8, <1>9, <1>10, <1>11, <1>12, <1>13, <1>14, <1>15, <1>16, <1>17, <1>18, <1>19, <1>20, <1>21, <1>22, <1>23, <1>24, <1>25, <1>26 DEF Next, Step

(* A file is written where there is none. *)
LEMMA WriteStep ==
    ASSUME Typed, DownSound, WriteSound, KeySound, [Next]_vars
    PROVE  WriteSound'
<1> USE DEF Typed, WriteSound, KeySound, Places, Fresh, BeforeKeys, BeforeDrift, Drifted, Attested, world
<1>1. CASE Probe
  BY <1>1 DEF Probe
<1>2. CASE Recover
  BY <1>2 DEF Recover, Exit
<1>3. CASE ArchivePriv
  BY <1>3 DEF ArchivePriv, None
<1>4. CASE ArchivePub
  BY <1>4 DEF ArchivePub, None
<1>5. CASE LoadPair
  BY <1>5 DEF LoadPair, Exit
<1>6. CASE SelfHeal
  BY <1>6 DEF SelfHeal, Exit, None
<1>7. CASE Generate
  BY <1>7 DEF Generate, None
<1>8. CASE FetchFailed
  BY <1>8 DEF FetchFailed, Exit
<1>9. CASE WritePriv
  BY <1>9 DEF WritePriv, Keys, None
<1>10. CASE WritePub
  BY <1>10 DEF WritePub, None
<1>11. CASE Material
  BY <1>11 DEF Material, Exit
<1>12. CASE DetectKeyDrift
  BY <1>12 DEF DetectKeyDrift, Exit
<1>13. CASE SealClean
  BY <1>13 DEF SealClean
<1>14. CASE Attest
  BY <1>14 DEF Attest
<1>15. CASE Register
  BY <1>15 DEF Register
<1>16. CASE BuildSecurityConfig
  BY <1>16 DEF BuildSecurityConfig
<1>17. CASE BuildRunner
  BY <1>17 DEF BuildRunner, Exit
<1>18. CASE Boot
  BY <1>18 DEF Boot
<1>19. CASE RetryRegister
  BY <1>19 DEF RetryRegister
<1>20. CASE RetryAnswerLost
  BY <1>20 DEF RetryAnswerLost
<1>21. CASE SealState
  BY <1>21 DEF SealState
<1>22. CASE GetAttestation
  BY <1>22 DEF GetAttestation
<1>23. CASE Stop
  BY <1>23 DEF Stop, Exit
<1>24. CASE Move
  BY <1>24 DEF Move
<1>25. CASE Fault
  BY <1>25 DEF Fault, None
<1>26. CASE UNCHANGED vars
  BY <1>26 DEF vars
<1>27. QED
  BY <1>1, <1>2, <1>3, <1>4, <1>5, <1>6, <1>7, <1>8, <1>9, <1>10, <1>11, <1>12, <1>13, <1>14, <1>15, <1>16, <1>17, <1>18, <1>19, <1>20, <1>21, <1>22, <1>23, <1>24, <1>25, <1>26 DEF Next, Step

(* The key of a start is recovered, read or new, and new ones never run out. *)
LEMMA KeyStep ==
    ASSUME Typed, DownSound, KeySound, [Next]_vars
    PROVE  KeySound'
<1> USE DEF Typed, Memory, KeySound, DetectSource, Places, Fresh, BeforeKeys, BeforeDrift, Drifted, Attested, world
<1>1. CASE Probe
  BY <1>1 DEF Probe
<1>2. CASE Recover
  BY <1>2 DEF Recover, Exit, Idle, OpenTAASecretKey, Bad
<1>3. CASE ArchivePriv
  BY <1>3 DEF ArchivePriv
<1>4. CASE ArchivePub
  BY <1>4 DEF ArchivePub
<1>5. CASE LoadPair
  BY <1>5 DEF LoadPair, Exit, Idle
<1>6. CASE SelfHeal
  BY <1>6 DEF SelfHeal, Exit, Idle
<1>7. CASE Generate
  BY StartupAssumption, <1>7 DEF Generate, Keys
<1>8. CASE FetchFailed
  BY <1>8 DEF FetchFailed, Exit, Idle
<1>9. CASE WritePriv
  BY <1>9 DEF WritePriv
<1>10. CASE WritePub
  BY <1>10 DEF WritePub
<1>11. CASE Material
  BY <1>11 DEF Material, Exit, Idle
<1>12. CASE DetectKeyDrift
  BY <1>12 DEF DetectKeyDrift, Exit, Idle
<1>13. CASE SealClean
  BY <1>13 DEF SealClean
<1>14. CASE Attest
  BY <1>14 DEF Attest
<1>15. CASE Register
  BY <1>15 DEF Register
<1>16. CASE BuildSecurityConfig
  BY <1>16 DEF BuildSecurityConfig
<1>17. CASE BuildRunner
  BY <1>17 DEF BuildRunner, Exit, Idle
<1>18. CASE Boot
  BY StartupAssumption, <1>18 DEF Boot
<1>19. CASE RetryRegister
  BY <1>19 DEF RetryRegister, DownSound, Idle
<1>20. CASE RetryAnswerLost
  BY <1>20 DEF RetryAnswerLost
<1>21. CASE SealState
  BY <1>21 DEF SealState
<1>22. CASE GetAttestation
  BY <1>22 DEF GetAttestation
<1>23. CASE Stop
  BY <1>23 DEF Stop, Exit, Idle
<1>24. CASE Move
  BY <1>24 DEF Move, DownSound
<1>25. CASE Fault
  BY <1>25 DEF Fault
<1>26. CASE UNCHANGED vars
  BY <1>26 DEF vars
<1>27. QED
  BY <1>1, <1>2, <1>3, <1>4, <1>5, <1>6, <1>7, <1>8, <1>9, <1>10, <1>11, <1>12, <1>13, <1>14, <1>15, <1>16, <1>17, <1>18, <1>19, <1>20, <1>21, <1>22, <1>23, <1>24, <1>25, <1>26 DEF Next, Step

(* An archive under a stamp of its own keeps the others. *)
LEMMA StampedKeeps ==
    ASSUME NEW archive, NEW stamp, NEW what, \A a \in archive : a.stamp # stamp
    PROVE  /\ \A a \in archive : a \in Stamped(archive, stamp, what)
           /\ \E a \in Stamped(archive, stamp, what) : a.what = what
<1>1. [stamp |-> stamp, what |-> what] \in Stamped(archive, stamp, what)
  BY DEF Stamped
<1> QED  BY <1>1 DEF Stamped

(* Nothing that is kept is overwritten. *)
LEMMA KeptStep ==
    ASSUME Typed, StampsSound, WriteSound, KeySound, DirectoryKept, [Next]_vars
    PROVE  DirectoryKept'
<1> USE DEF Typed, StampsSound, WriteSound, DirectoryKept, KeyKept, StateKept, Places, Fresh, BeforeKeys, BeforeDrift, Drifted, Attested, world
<1>1. CASE Probe
  BY <1>1 DEF Probe
<1>2. CASE Recover
  BY <1>2 DEF Recover, Exit
<1>3. CASE ArchivePriv
  <2>1. CASE disk.priv = None
    BY <1>3, <2>1 DEF ArchivePriv, None
  <2>2. CASE disk.priv # None
    <3>1. bak' = Stamped(bak, now, disk.priv) /\ UNCHANGED <<held, kept, sealed, orphans>>
      BY <1>3, <2>2 DEF ArchivePriv, KeyStamp
    <3>2. \A a \in bak : a.stamp # now
      BY <1>3 DEF ArchivePriv
    <3>3. /\ \A a \in bak : a \in bak'
          /\ \E a \in bak' : a.what = disk.priv
      BY <3>1, <3>2, StampedKeeps
    <3> QED  BY <3>1, <3>3
  <2> QED  BY <2>1, <2>2
<1>4. CASE ArchivePub
  BY <1>4 DEF ArchivePub
<1>5. CASE LoadPair
  BY <1>5 DEF LoadPair, Exit
<1>6. CASE SelfHeal
  BY <1>6 DEF SelfHeal, Exit
<1>7. CASE Generate
  BY <1>7 DEF Generate
<1>8. CASE FetchFailed
  BY <1>8 DEF FetchFailed, Exit
<1>9. CASE WritePriv
  BY <1>9 DEF WritePriv, None
<1>10. CASE WritePub
  BY <1>10 DEF WritePub
<1>11. CASE Material
  BY <1>11 DEF Material, Exit
<1>12. CASE DetectKeyDrift
  <2>1. UNCHANGED <<disk, bak, held, kept>>
    BY <1>12 DEF DetectKeyDrift
  <2>2. CASE sealed = NoState /\ UNCHANGED orphans
    BY <1>12, <2>1, <2>2 DEF DetectKeyDrift
  <2>3. CASE UNCHANGED <<sealed, orphans>>
    BY <2>1, <2>3
  <2>4. CASE orphans' = Stamped(orphans, now, sealed.content)
    <3>1. \A a \in orphans : a.stamp # now
      BY <1>12 DEF DetectKeyDrift
    <3>2. /\ \A a \in orphans : a \in orphans'
          /\ \E a \in orphans' : a.what = sealed.content
      BY <3>1, <2>4, StampedKeeps
    <3> QED  BY <2>1, <3>2
  <2> QED  BY <1>12, <2>2, <2>3, <2>4 DEF DetectKeyDrift
<1>13. CASE SealClean
  BY <1>13 DEF SealClean, SealAs, NoState
<1>14. CASE Attest
  BY <1>14 DEF Attest
<1>15. CASE Register
  BY <1>15 DEF Register
<1>16. CASE BuildSecurityConfig
  BY <1>16 DEF BuildSecurityConfig
<1>17. CASE BuildRunner
  BY <1>17 DEF BuildRunner, Exit
<1>18. CASE Boot
  BY <1>18 DEF Boot
<1>19. CASE RetryRegister
  BY <1>19 DEF RetryRegister
<1>20. CASE RetryAnswerLost
  BY <1>20 DEF RetryAnswerLost
<1>21. CASE SealState
  BY <1>21 DEF SealState, SealAs, NoState, KeySound, DetectSource
<1>22. CASE GetAttestation
  BY <1>22 DEF GetAttestation
<1>23. CASE Stop
  BY <1>23 DEF Stop, Exit
<1>24. CASE Move
  BY <1>24 DEF Move
<1>25. CASE Fault
  BY <1>25 DEF Fault, None, Bad
<1>26. CASE UNCHANGED vars
  BY <1>26 DEF vars
<1>27. QED
  BY <1>1, <1>2, <1>3, <1>4, <1>5, <1>6, <1>7, <1>8, <1>9, <1>10, <1>11, <1>12, <1>13, <1>14, <1>15, <1>16, <1>17, <1>18, <1>19, <1>20, <1>21, <1>22, <1>23, <1>24, <1>25, <1>26 DEF Next, Step

(* The initial states. *)
LEMMA DirInit == Init => DirInv
<1> SUFFICES ASSUME Init PROVE DirInv
  OBVIOUS
<1> USE DEF Init, FreshDir, LegacyDir, ReplacedDir, None
<1>1. Typed
  BY DEF Typed, Memory, Idle, Places
<1>2. DownSound /\ StampsSound /\ WriteSound
  BY DEF DownSound, StampsSound, WriteSound, BeforeKeys, BeforeDrift, Fresh
<1>3. KeySound
  BY StartupAssumption DEF KeySound, Fresh, Drifted, Attested
<1>4. DirectoryKept
  BY DEF DirectoryKept, KeyKept, StateKept, NoState
<1> QED  BY <1>1, <1>2, <1>3, <1>4 DEF DirInv

(* The parts are kept together. *)
LEMMA DirStep == DirInv /\ [Next]_vars => DirInv'
<1> SUFFICES ASSUME DirInv, [Next]_vars PROVE DirInv'
  OBVIOUS
<1>1. Typed'
  BY TypedStep DEF DirInv
<1>2. DownSound'
  BY DownStep DEF DirInv
<1>3. StampsSound'
  BY StampsStep DEF DirInv
<1>4. WriteSound'
  BY WriteStep DEF DirInv
<1>5. KeySound'
  BY KeyStep DEF DirInv
<1>6. DirectoryKept'
  BY KeptStep DEF DirInv
<1> QED  BY <1>1, <1>2, <1>3, <1>4, <1>5, <1>6 DEF DirInv

(***************************************************************************)
(* The start's sequence of writes holds its own invariant in every         *)
(* behaviour: stamps are fresh where an archive is made, private keys and  *)
(* clean states are written over nothing, the key in use is a key.         *)
(***************************************************************************)
THEOREM DirCorrect == Spec => []DirInv
<1>1. Init => DirInv
  BY DirInit
<1>2. DirInv /\ [Next]_vars => DirInv'
  BY DirStep
<1> QED  BY <1>1, <1>2, PTL DEF Spec

(***************************************************************************)
(* No start destroys a private key or a sealed state that an earlier one   *)
(* left, wherever the process dies and whatever is recovered over them.    *)
(***************************************************************************)
THEOREM DirectoryCorrect == Spec => []DirectoryKept
<1>1. DirInv => DirectoryKept
  BY DEF DirInv
<1> QED  BY <1>1, DirCorrect, PTL

(* The wrapped key is made once, from a world that stays. *)
LEMMA SecretStep ==
    ASSUME Typed, DownSound, SecretSound, [Next]_vars
    PROVE  SecretSound'
<1> USE DEF Typed, Memory, SecretSound, ReportsSecret, DetectSource, Places, Fresh, BeforeKeys, BeforeDrift, Drifted, Attested, world
<1>1. CASE Probe
  BY <1>1 DEF Probe
<1>2. CASE Recover
  <2>1. CASE Exit
    BY <1>2, <2>1 DEF Recover, Idle, Exit
  <2>2. CASE ~Exit
    BY <1>2, <2>2 DEF Recover, Idle
  <2> QED  BY <2>1, <2>2
<1>3. CASE ArchivePriv
  BY <1>3 DEF ArchivePriv
<1>4. CASE ArchivePub
  BY <1>4 DEF ArchivePub
<1>5. CASE LoadPair
  <2>1. CASE Exit
    BY <1>5, <2>1 DEF LoadPair, Idle, Exit
  <2>2. CASE ~Exit
    BY <1>5, <2>2 DEF LoadPair, Idle
  <2> QED  BY <2>1, <2>2
<1>6. CASE SelfHeal
  <2>1. CASE Exit
    BY <1>6, <2>1 DEF SelfHeal, Idle, Exit
  <2>2. CASE ~Exit
    BY <1>6, <2>2 DEF SelfHeal, Idle
  <2> QED  BY <2>1, <2>2
<1>7. CASE Generate
  BY <1>7 DEF Generate
<1>8. CASE FetchFailed
  BY <1>8 DEF FetchFailed, Exit, Idle
<1>9. CASE WritePriv
  BY <1>9 DEF WritePriv
<1>10. CASE WritePub
  BY <1>10 DEF WritePub
<1>11. CASE Material
  <2>1. CASE Exit
    BY <1>11, <2>1 DEF Material, Idle, Exit
  <2>2. CASE ~Exit
    <3> DEFINE x == SealingKey(p.key)
               y == IF ReportsSecret THEN SealTAASecretKey(host.hw, p.cfg.contract, p.key) ELSE NoSecret
    <3>1. p' = [p EXCEPT !.source = DetectSource, !.seal = x, !.secret = y] /\ pc' = "drift" /\ UNCHANGED host
      BY <1>11, <2>2 DEF Material
    <3>2. y = IF ReportsSecret THEN SealTAASecretKey(host.hw, p.cfg.contract, p.key) ELSE NoSecret
      OBVIOUS
    <3> HIDE DEF x, y
    <3>3. p'.secret = y /\ p'.key = p.key /\ p'.cfg = p.cfg /\ p'.recovered = p.recovered
      BY <3>1
    <3> QED  BY <3>1, <3>2, <3>3 DEF SealTAASecretKey
  <2> QED  BY <2>1, <2>2
<1>12. CASE DetectKeyDrift
  BY <1>12 DEF DetectKeyDrift, Exit, Idle
<1>13. CASE SealClean
  BY <1>13 DEF SealClean
<1>14. CASE Attest
  BY <1>14 DEF Attest
<1>15. CASE Register
  BY <1>15 DEF Register
<1>16. CASE BuildSecurityConfig
  BY <1>16 DEF BuildSecurityConfig
<1>17. CASE BuildRunner
  BY <1>17 DEF BuildRunner, Exit, Idle
<1>18. CASE Boot
  BY <1>18 DEF Boot, Idle, DownSound
<1>19. CASE RetryRegister
  BY <1>19 DEF RetryRegister, DownSound, Idle
<1>20. CASE RetryAnswerLost
  BY <1>20 DEF RetryAnswerLost
<1>21. CASE SealState
  BY <1>21 DEF SealState
<1>22. CASE GetAttestation
  BY <1>22 DEF GetAttestation
<1>23. CASE Stop
  BY <1>23 DEF Stop, Exit, Idle
<1>24. CASE Move
  BY <1>24 DEF Move, DownSound, Idle
<1>25. CASE Fault
  BY <1>25 DEF Fault
<1>26. CASE UNCHANGED vars
  BY <1>26 DEF vars
<1>27. QED
  BY <1>1, <1>2, <1>3, <1>4, <1>5, <1>6, <1>7, <1>8, <1>9, <1>10, <1>11, <1>12, <1>13, <1>14, <1>15, <1>16, <1>17, <1>18, <1>19, <1>20, <1>21, <1>22, <1>23, <1>24, <1>25, <1>26 DEF Next, Step

(* With a TAASECRETKEY the key is recovered and nothing else. *)
LEMMA RecoveredStep ==
    ASSUME Typed, DownSound, RecoveredSound, [Next]_vars
    PROVE  RecoveredSound'
<1> USE DEF Typed, Memory, RecoveredSound, Places, Fresh, BeforeKeys, BeforeDrift, Drifted, Attested, world
<1>1. CASE Probe
  BY <1>1 DEF Probe
<1>2. CASE Recover
  BY <1>2 DEF Recover, Exit, OpenTAASecretKey, Bad
<1>3. CASE ArchivePriv
  BY <1>3 DEF ArchivePriv
<1>4. CASE ArchivePub
  BY <1>4 DEF ArchivePub
<1>5. CASE LoadPair
  BY <1>5 DEF LoadPair, Exit
<1>6. CASE SelfHeal
  BY <1>6 DEF SelfHeal, Exit
<1>7. CASE Generate
  BY <1>7 DEF Generate
<1>8. CASE FetchFailed
  BY <1>8 DEF FetchFailed, Exit
<1>9. CASE WritePriv
  BY <1>9 DEF WritePriv
<1>10. CASE WritePub
  BY <1>10 DEF WritePub
<1>11. CASE Material
  BY <1>11 DEF Material, Exit
<1>12. CASE DetectKeyDrift
  BY <1>12 DEF DetectKeyDrift, Exit
<1>13. CASE SealClean
  BY <1>13 DEF SealClean
<1>14. CASE Attest
  BY <1>14 DEF Attest
<1>15. CASE Register
  BY <1>15 DEF Register
<1>16. CASE BuildSecurityConfig
  BY <1>16 DEF BuildSecurityConfig
<1>17. CASE BuildRunner
  BY <1>17 DEF BuildRunner, Exit
<1>18. CASE Boot
  BY <1>18 DEF Boot
<1>19. CASE RetryRegister
  BY <1>19 DEF RetryRegister
<1>20. CASE RetryAnswerLost
  BY <1>20 DEF RetryAnswerLost
<1>21. CASE SealState
  BY <1>21 DEF SealState
<1>22. CASE GetAttestation
  BY <1>22 DEF GetAttestation
<1>23. CASE Stop
  BY <1>23 DEF Stop, Exit
<1>24. CASE Move
  BY <1>24 DEF Move
<1>25. CASE Fault
  BY <1>25 DEF Fault
<1>26. CASE UNCHANGED vars
  BY <1>26 DEF vars
<1>27. QED
  BY <1>1, <1>2, <1>3, <1>4, <1>5, <1>6, <1>7, <1>8, <1>9, <1>10, <1>11, <1>12, <1>13, <1>14, <1>15, <1>16, <1>17, <1>18, <1>19, <1>20, <1>21, <1>22, <1>23, <1>24, <1>25, <1>26 DEF Next, Step

(* Every report written from the registration on is of the key in use. *)
LEMMA ReportStep ==
    ASSUME Typed, DownSound, RecordSound, ReportSound, [Next]_vars
    PROVE  ReportSound'
<1> USE DEF Typed, Memory, ReportSound, Places, Fresh, BeforeKeys, BeforeDrift, Drifted, Attested, world
<1>1. CASE Probe
  BY <1>1 DEF Probe
<1>2. CASE Recover
  BY <1>2 DEF Recover, Exit
<1>3. CASE ArchivePriv
  BY <1>3 DEF ArchivePriv
<1>4. CASE ArchivePub
  BY <1>4 DEF ArchivePub
<1>5. CASE LoadPair
  BY <1>5 DEF LoadPair, Exit
<1>6. CASE SelfHeal
  BY <1>6 DEF SelfHeal, Exit
<1>7. CASE Generate
  BY <1>7 DEF Generate
<1>8. CASE FetchFailed
  BY <1>8 DEF FetchFailed, Exit
<1>9. CASE WritePriv
  BY <1>9 DEF WritePriv
<1>10. CASE WritePub
  BY <1>10 DEF WritePub
<1>11. CASE Material
  BY <1>11 DEF Material, Exit
<1>12. CASE DetectKeyDrift
  BY <1>12 DEF DetectKeyDrift, Exit
<1>13. CASE SealClean
  BY <1>13 DEF SealClean
<1>14. CASE Attest
  BY <1>14 DEF Attest, GenerateReport
<1>15. CASE Register
  BY <1>15 DEF Register
<1>16. CASE BuildSecurityConfig
  BY <1>16 DEF BuildSecurityConfig
<1>17. CASE BuildRunner
  BY <1>17 DEF BuildRunner, Exit
<1>18. CASE Boot
  BY <1>18 DEF Boot
<1>19. CASE RetryRegister
  BY <1>19 DEF RetryRegister
<1>20. CASE RetryAnswerLost
  BY <1>20 DEF RetryAnswerLost
<1>21. CASE SealState
  BY <1>21 DEF SealState
<1>22. CASE GetAttestation
  BY <1>22 DEF GetAttestation, GenerateReport
<1>23. CASE Stop
  BY <1>23 DEF Stop, Exit
<1>24. CASE Move
  BY <1>24 DEF Move
<1>25. CASE Fault
  BY <1>25 DEF Fault
<1>26. CASE UNCHANGED vars
  BY <1>26 DEF vars
<1>27. QED
  BY <1>1, <1>2, <1>3, <1>4, <1>5, <1>6, <1>7, <1>8, <1>9, <1>10, <1>11, <1>12, <1>13, <1>14, <1>15, <1>16, <1>17, <1>18, <1>19, <1>20, <1>21, <1>22, <1>23, <1>24, <1>25, <1>26 DEF Next, Step

(* A request that is accepted makes the record one identity. *)
LEMMA AcceptedSound ==
    ASSUME SecretSound, ReportSound, pc \in Attested, Accepted
    PROVE  /\ platform'.pub = p.key /\ platform'.secret = p.secret
           /\ platform'.verified => platform'.userData = platform'.pub
           /\ platform'.secret # NoSecret => platform'.secret.key = platform'.pub
<1>1. p.secret # NoSecret => p.secret.key = p.key
  BY DEF SecretSound, SealTAASecretKey
<1>2. report # None => report = p.key
  BY DEF ReportSound
<1>3. platform' = [pub |-> p.key, secret |-> p.secret, verified |-> p.verified /\ report # None,
                   userData |-> report]
  BY DEF Accepted, Payload
<1> QED  BY <1>1, <1>2, <1>3

(* A record is replaced by a whole request, and a request is one identity. *)
LEMMA RecordStep ==
    ASSUME Typed, DownSound, SecretSound, ReportSound, RecordSound, [Next]_vars
    PROVE  RecordSound'
<1> USE DEF Typed, Memory, RecordSound, Places, Fresh, BeforeKeys, BeforeDrift, Drifted, Attested, world
<1>1. CASE Probe
  BY <1>1 DEF Probe
<1>2. CASE Recover
  <2>1. CASE Exit
    BY <1>2, <2>1 DEF Recover, Idle, Exit
  <2>2. CASE ~Exit
    BY <1>2, <2>2 DEF Recover, Idle
  <2> QED  BY <2>1, <2>2
<1>3. CASE ArchivePriv
  BY <1>3 DEF ArchivePriv
<1>4. CASE ArchivePub
  BY <1>4 DEF ArchivePub
<1>5. CASE LoadPair
  <2>1. CASE Exit
    BY <1>5, <2>1 DEF LoadPair, Idle, Exit
  <2>2. CASE ~Exit
    BY <1>5, <2>2 DEF LoadPair, Idle
  <2> QED  BY <2>1, <2>2
<1>6. CASE SelfHeal
  <2>1. CASE Exit
    BY <1>6, <2>1 DEF SelfHeal, Idle, Exit
  <2>2. CASE ~Exit
    BY <1>6, <2>2 DEF SelfHeal, Idle
  <2> QED  BY <2>1, <2>2
<1>7. CASE Generate
  BY <1>7 DEF Generate
<1>8. CASE FetchFailed
  BY <1>8 DEF FetchFailed, Exit, Idle
<1>9. CASE WritePriv
  BY <1>9 DEF WritePriv
<1>10. CASE WritePub
  BY <1>10 DEF WritePub
<1>11. CASE Material
  <2>1. CASE Exit
    BY <1>11, <2>1 DEF Material, Idle, Exit
  <2>2. CASE ~Exit
    BY <1>11, <2>2 DEF Material, Idle
  <2> QED  BY <2>1, <2>2
<1>12. CASE DetectKeyDrift
  BY <1>12 DEF DetectKeyDrift, Exit, Idle
<1>13. CASE SealClean
  BY <1>13 DEF SealClean
<1>14. CASE Attest
  BY <1>14 DEF Attest
<1>15. CASE Register
  BY AcceptedSound, <1>15 DEF Register
<1>16. CASE BuildSecurityConfig
  BY <1>16 DEF BuildSecurityConfig
<1>17. CASE BuildRunner
  BY <1>17 DEF BuildRunner, Exit, Idle
<1>18. CASE Boot
  BY <1>18 DEF Boot, Idle
<1>19. CASE RetryRegister
  BY AcceptedSound, <1>19 DEF RetryRegister
<1>20. CASE RetryAnswerLost
  BY AcceptedSound, <1>20 DEF RetryAnswerLost
<1>21. CASE SealState
  BY <1>21 DEF SealState
<1>22. CASE GetAttestation
  BY <1>22 DEF GetAttestation
<1>23. CASE Stop
  BY <1>23 DEF Stop, Exit, Idle
<1>24. CASE Move
  BY <1>24 DEF Move
<1>25. CASE Fault
  BY <1>25 DEF Fault
<1>26. CASE UNCHANGED vars
  BY <1>26 DEF vars
<1>27. QED
  BY <1>1, <1>2, <1>3, <1>4, <1>5, <1>6, <1>7, <1>8, <1>9, <1>10, <1>11, <1>12, <1>13, <1>14, <1>15, <1>16, <1>17, <1>18, <1>19, <1>20, <1>21, <1>22, <1>23, <1>24, <1>25, <1>26 DEF Next, Step

(* The initial states. *)
LEMMA PlatInit == Init => PlatInv
<1> SUFFICES ASSUME Init PROVE PlatInv
  OBVIOUS
<1> USE DEF Init, Idle, Drifted, Attested, Fresh
<1>1. SecretSound
  BY DEF SecretSound
<1>2. RecoveredSound /\ ReportSound
  BY DEF RecoveredSound, ReportSound
<1>3. RecordSound
  BY DEF RecordSound, NoRecord
<1> QED  BY <1>1, <1>2, <1>3 DEF PlatInv

(* What the platform holds follows from it. *)
LEMMA PlatSound == DirInv /\ PlatInv => PlatformSound
<1> SUFFICES ASSUME DirInv, PlatInv PROVE PlatformSound
  OBVIOUS
<1> USE DEF DirInv, PlatInv, RecordSound, Attested
<1>1. OneIdentity
  BY DEF OneIdentity, RecoveredSound, Fresh
<1>2. Recoverable
  <2> SUFFICES ASSUME p.registered, p.source = "csv-hw", ~p.recovered
               PROVE  OpenTAASecretKey(host.hw, p.cfg.contract, platform.secret) = p.key
    BY DEF Recoverable
  <2>1. p.key \in Keys /\ DetectSource = "csv-hw"
    BY DEF KeySound, Fresh
  <2>2. platform.secret = SealTAASecretKey(host.hw, p.cfg.contract, p.key)
    BY <2>1 DEF SecretSound, ReportsSecret
  <2> QED  BY <2>1, <2>2 DEF OpenTAASecretKey, SealTAASecretKey
<1> QED  BY <1>1, <1>2 DEF PlatformSound

(***************************************************************************)
(* What the platform holds is one instance's identity, through retries,    *)
(* lost answers, restarts and recoveries, and from it an instance of a CSV *)
(* guest can be rebuilt on that guest.                                     *)
(***************************************************************************)
THEOREM PlatformCorrect == Spec => []PlatformSound
<1>1. DirInv /\ PlatInv /\ [Next]_vars => PlatInv'
  BY SecretStep, RecoveredStep, ReportStep, RecordStep DEF DirInv, PlatInv
<1> QED  BY <1>1, PlatInit, PlatSound, DirCorrect, PTL DEF Spec

(***************************************************************************)
(* The configuration.                                                      *)
(***************************************************************************)
(* The last key that is set gives a setting its value. *)
LEMMA LastOfThree ==
    ASSUME NEW file, NEW a, NEW b, NEW c, NEW fallback,
           UnsetValues(a) = {Absent}, UnsetValues(b) = {Absent}, UnsetValues(c) = {Absent}
    PROVE  LastSet(file, <<a, b, c>>, fallback) =
             IF At(file, c) # Absent THEN At(file, c)
             ELSE IF At(file, b) # Absent THEN At(file, b)
             ELSE IF At(file, a) # Absent THEN At(file, a) ELSE fallback
<1> DEFINE t == <<a, b, c>>
           set == {i \in DOMAIN t : At(file, t[i]) \notin UnsetValues(t[i])}
           last == CHOOSE i \in set : \A j \in set : j <= i
<1>1. DOMAIN t = 1..3 /\ t[1] = a /\ t[2] = b /\ t[3] = c
  OBVIOUS
<1>2. LastSet(file, t, fallback) = IF set = {} THEN fallback ELSE file[t[last]]
  BY DEF LastSet
<1>3. /\ set \subseteq {1, 2, 3} /\ (1 \in set <=> At(file, a) # Absent)
      /\ (2 \in set <=> At(file, b) # Absent) /\ (3 \in set <=> At(file, c) # Absent)
  BY <1>1
<1> HIDE DEF set, t
<1>4. ASSUME NEW n \in set, \A j \in set : j <= n PROVE last = n
  <2>1. last \in set /\ \A j \in set : j <= last
    BY <1>4
  <2> HIDE DEF last
  <2> QED BY <1>3, <1>4, <2>1
<1> HIDE DEF last
<1>5. ASSUME NEW k, At(file, k) # Absent PROVE file[k] = At(file, k)
  BY <1>5 DEF At
<1>6. CASE At(file, c) # Absent
  BY <1>1, <1>2, <1>3, <1>4, <1>5, <1>6 DEF t
<1>7. CASE At(file, c) = Absent /\ At(file, b) # Absent
  BY <1>1, <1>2, <1>3, <1>4, <1>5, <1>7 DEF t
<1>8. CASE At(file, c) = Absent /\ At(file, b) = Absent /\ At(file, a) # Absent
  BY <1>1, <1>2, <1>3, <1>4, <1>5, <1>8 DEF t
<1>9. CASE At(file, c) = Absent /\ At(file, b) = Absent /\ At(file, a) = Absent
  BY <1>2, <1>3, <1>9 DEF t
<1> QED BY <1>6, <1>7, <1>8, <1>9

(* The first of four sources that says anything, and of two. *)
LEMMA FirstOfFour ==
    ASSUME NEW a, NEW b, NEW c, NEW d
    PROVE  FirstSet(<<a, b, c, d>>) =
             IF a # Absent THEN a ELSE IF b # Absent THEN b ELSE IF c # Absent THEN c ELSE d
<1> DEFINE t == <<a, b, c, d>>
           set == {n \in DOMAIN t : t[n] # Absent}
           first == CHOOSE n \in set : \A m \in set : n <= m
<1>1. DOMAIN t = 1..4 /\ t[1] = a /\ t[2] = b /\ t[3] = c /\ t[4] = d
  OBVIOUS
<1>2. FirstSet(t) = IF set = {} THEN Absent ELSE t[first]
  BY DEF FirstSet
<1>3. /\ set \subseteq {1, 2, 3, 4} /\ (1 \in set <=> a # Absent) /\ (2 \in set <=> b # Absent)
      /\ (3 \in set <=> c # Absent) /\ (4 \in set <=> d # Absent)
  BY <1>1
<1> HIDE DEF set, t
<1>4. ASSUME NEW n \in set, \A m \in set : n <= m PROVE first = n
  <2>1. first \in set /\ \A m \in set : first <= m
    BY <1>4
  <2> HIDE DEF first
  <2> QED BY <1>3, <1>4, <2>1
<1> HIDE DEF first
<1>5. CASE a # Absent
  BY <1>1, <1>2, <1>3, <1>4, <1>5 DEF t
<1>6. CASE a = Absent /\ b # Absent
  BY <1>1, <1>2, <1>3, <1>4, <1>6 DEF t
<1>7. CASE a = Absent /\ b = Absent /\ c # Absent
  BY <1>1, <1>2, <1>3, <1>4, <1>7 DEF t
<1>8. CASE a = Absent /\ b = Absent /\ c = Absent /\ d # Absent
  BY <1>1, <1>2, <1>3, <1>4, <1>8 DEF t
<1>9. CASE a = Absent /\ b = Absent /\ c = Absent /\ d = Absent
  BY <1>2, <1>3, <1>9 DEF t
<1> QED BY <1>5, <1>6, <1>7, <1>8, <1>9

LEMMA FirstOfTwo ==
    ASSUME NEW a, NEW b
    PROVE  FirstSet(<<a, b>>) = IF a # Absent THEN a ELSE b
<1> DEFINE t == <<a, b>>
           set == {n \in DOMAIN t : t[n] # Absent}
           first == CHOOSE n \in set : \A m \in set : n <= m
<1>1. DOMAIN t = 1..2 /\ t[1] = a /\ t[2] = b
  OBVIOUS
<1>2. FirstSet(t) = IF set = {} THEN Absent ELSE t[first]
  BY DEF FirstSet
<1>3. set \subseteq {1, 2} /\ (1 \in set <=> a # Absent) /\ (2 \in set <=> b # Absent)
  BY <1>1
<1> HIDE DEF set, t
<1>4. ASSUME NEW n \in set, \A m \in set : n <= m PROVE first = n
  <2>1. first \in set /\ \A m \in set : first <= m
    BY <1>4
  <2> HIDE DEF first
  <2> QED BY <1>3, <1>4, <2>1
<1> HIDE DEF first
<1>5. CASE a # Absent
  BY <1>1, <1>2, <1>3, <1>4, <1>5 DEF t
<1>6. CASE a = Absent /\ b # Absent
  BY <1>1, <1>2, <1>3, <1>4, <1>6 DEF t
<1>7. CASE a = Absent /\ b = Absent
  BY <1>2, <1>3, <1>7 DEF t
<1> QED BY <1>5, <1>6, <1>7

(* A setting with one key. *)
LEMMA LastOfOne ==
    ASSUME NEW file, NEW a, NEW fallback, UnsetValues(a) = {Absent}
    PROVE  LastSet(file, <<a>>, fallback) = IF At(file, a) # Absent THEN At(file, a) ELSE fallback
<1> DEFINE t == <<a>>
           set == {i \in DOMAIN t : At(file, t[i]) \notin UnsetValues(t[i])}
           last == CHOOSE i \in set : \A j \in set : j <= i
<1>1. DOMAIN t = {1} /\ t[1] = a
  OBVIOUS
<1>2. LastSet(file, t, fallback) = IF set = {} THEN fallback ELSE file[t[last]]
  BY DEF LastSet
<1>3. set \subseteq {1} /\ (1 \in set <=> At(file, a) # Absent)
  BY <1>1
<1> HIDE DEF set, t
<1>4. set # {} => last = 1
  <2>1. set # {} => set = {1}
    BY <1>3
  <2> QED  BY <2>1
<1> HIDE DEF last
<1>5. At(file, a) # Absent => file[a] = At(file, a)
  BY DEF At
<1> QED BY <1>1, <1>2, <1>3, <1>4, <1>5 DEF t

(* What a configuration that was not refused says of the settings the property is about. *)
LEMMA ResolvedSettings ==
    ASSUME NEW role, NEW file, NEW env
    PROVE  LET c == Resolved(role, file, env)
               set(s) == Setting(s, role, file, env)
           IN  /\ c.role = role /\ c.fhe = FheSection(role, file)
               /\ c.codeAudit = set("codeAudit") /\ c.engine = set("engine")
               /\ c.llm = set("llm") /\ c.resultCheck = set("resultCheck")
               /\ c.binaryAudit = set("binaryAudit")
               /\ c.platformIP = FheIdentityOverride(role, env, "PLATFORM_IP", set("platformIP"))
<1> DEFINE set(s) == Setting(s, role, file, env)
           D == DOMAIN DefaultStartupConfig(env)
           c0 == [s \in D |-> set(s)]
           c == Resolved(role, file, env)
<1>1. {"codeAudit", "engine", "llm", "resultCheck", "binaryAudit", "platformIP"} \subseteq D
  BY DEF DefaultStartupConfig
<1> HIDE DEF D, set
<1>2. /\ c0.codeAudit = set("codeAudit") /\ c0.engine = set("engine")
      /\ c0.llm = set("llm") /\ c0.resultCheck = set("resultCheck")
      /\ c0.binaryAudit = set("binaryAudit") /\ c0.platformIP = set("platformIP")
      /\ DOMAIN c0 = D
  BY <1>1
<1>3. c = [s \in DOMAIN c0 \union {"role", "publicKey", "fhe"} |->
        CASE s = "role"        -> role
          [] s = "publicKey"   -> PlatformPublicKey(file, env)
          [] s = "fhe"         -> FheSection(role, file)
          [] s = "llmEndpoint" -> LLMEndpointOverride(env, c0.llmEndpoint)
          [] s = "platformIP"  -> FheIdentityOverride(role, env, "PLATFORM_IP", c0.platformIP)
          [] s = "dockerID"    -> FheIdentityOverride(role, env, "DOCKER_ID", c0.dockerID)
          [] OTHER             -> c0[s]]
  BY DEF Resolved, D, set
<1> HIDE DEF c, c0
<1>4. c.role = role /\ c.fhe = FheSection(role, file)
  BY <1>3
<1>5. c.platformIP = FheIdentityOverride(role, env, "PLATFORM_IP", set("platformIP"))
  BY <1>1, <1>2, <1>3
<1>6. /\ c.codeAudit = set("codeAudit") /\ c.engine = set("engine")
      /\ c.llm = set("llm") /\ c.resultCheck = set("resultCheck")
      /\ c.binaryAudit = set("binaryAudit")
  BY <1>1, <1>2, <1>3
<1> QED BY <1>4, <1>5, <1>6 DEF c, set

(* The sources of the settings in their order (applyStartupConfigFile). *)
LEMMA SettingValues ==
    ASSUME NEW role, NEW file, NEW env
    PROVE  LET set(s) == Setting(s, role, file, env)
           IN  /\ role # "tee" => /\ set("codeAudit") = "off" /\ set("engine") = "regex"
                                 /\ set("llm") = "off" /\ set("resultCheck") = "off"
                                 /\ set("binaryAudit") = "off"
               /\ role = "tee" => set("codeAudit") =
                    IF At(file, "codeAudit.enabled") # Absent THEN At(file, "codeAudit.enabled")
                    ELSE IF At(file, "codeAudit.scan") # Absent THEN At(file, "codeAudit.scan")
                    ELSE IF At(file, "securityScan") # Absent THEN At(file, "securityScan") ELSE "on"
               /\ role = "tee" => set("engine") =
                    IF At(file, "codeAudit.codeScan.engine") # Absent
                    THEN At(file, "codeAudit.codeScan.engine") ELSE "semgrep"
               /\ set("platformIP") =
                    IF At(file, "platform.ip") # Absent THEN At(file, "platform.ip")
                    ELSE IF At(file, "platform.endpoint") # Absent THEN At(file, "platform.endpoint")
                    ELSE IF At(file, "platformIP") # Absent THEN At(file, "platformIP")
                    ELSE At(env, "PLATFORM_IP")
<1>1. /\ DOMAIN NonAuditing = {"codeAudit", "binaryAudit", "resultCheck", "engine", "llm"}
      /\ NonAuditing.codeAudit = "off" /\ NonAuditing.engine = "regex" /\ NonAuditing.llm = "off"
      /\ NonAuditing.resultCheck = "off" /\ NonAuditing.binaryAudit = "off"
  BY DEF NonAuditing
<1>2. /\ "codeAudit" \notin DOMAIN PlainPaths /\ "engine" \notin DOMAIN PlainPaths
      /\ "platformIP" \in DOMAIN PlainPaths
      /\ PlainPaths["platformIP"] = <<"platformIP", "platform.endpoint", "platform.ip">>
  BY DEF PlainPaths
<1>3. /\ "codeAudit" \in DOMAIN AuditPaths
      /\ AuditPaths["codeAudit"] = <<"securityScan", "codeAudit.scan", "codeAudit.enabled">>
      /\ "engine" \in DOMAIN AuditPaths /\ AuditPaths["engine"] = <<"codeAudit.codeScan.engine">>
  BY DEF AuditPaths
<1>4. /\ DefaultStartupConfig(env)["codeAudit"] = "on"
      /\ DefaultStartupConfig(env)["engine"] = "semgrep"
      /\ DefaultStartupConfig(env)["platformIP"] = At(env, "PLATFORM_IP")
  BY DEF DefaultStartupConfig
<1>5. \A k \in {"platformIP", "platform.endpoint", "platform.ip", "securityScan", "codeAudit.scan",
               "codeAudit.enabled", "codeAudit.codeScan.engine"} : UnsetValues(k) = {Absent}
  BY DEF UnsetValues
<1>6. role # "tee" => \A s \in DOMAIN NonAuditing : Setting(s, role, file, env) = NonAuditing[s]
  BY DEF Setting, Audits
<1>7. role = "tee" => Setting("codeAudit", role, file, env) =
        LastSet(file, <<"securityScan", "codeAudit.scan", "codeAudit.enabled">>, "on")
  BY <1>2, <1>3, <1>4 DEF Setting, Audits
<1>8. Setting("platformIP", role, file, env) =
        LastSet(file, <<"platformIP", "platform.endpoint", "platform.ip">>, At(env, "PLATFORM_IP"))
  BY <1>1, <1>2, <1>4 DEF Setting
<1>9. LastSet(file, <<"securityScan", "codeAudit.scan", "codeAudit.enabled">>, "on") =
        IF At(file, "codeAudit.enabled") # Absent THEN At(file, "codeAudit.enabled")
        ELSE IF At(file, "codeAudit.scan") # Absent THEN At(file, "codeAudit.scan")
        ELSE IF At(file, "securityScan") # Absent THEN At(file, "securityScan") ELSE "on"
  BY <1>5, LastOfThree
<1>10. LastSet(file, <<"platformIP", "platform.endpoint", "platform.ip">>, At(env, "PLATFORM_IP")) =
        IF At(file, "platform.ip") # Absent THEN At(file, "platform.ip")
        ELSE IF At(file, "platform.endpoint") # Absent THEN At(file, "platform.endpoint")
        ELSE IF At(file, "platformIP") # Absent THEN At(file, "platformIP")
        ELSE At(env, "PLATFORM_IP")
  BY <1>5, LastOfThree
<1>11. role # "tee" => /\ Setting("codeAudit", role, file, env) = "off"
                       /\ Setting("engine", role, file, env) = "regex"
                       /\ Setting("llm", role, file, env) = "off"
                       /\ Setting("resultCheck", role, file, env) = "off"
                       /\ Setting("binaryAudit", role, file, env) = "off"
  BY <1>1, <1>6
<1>12. role = "tee" => Setting("engine", role, file, env) =
         LastSet(file, <<"codeAudit.codeScan.engine">>, "semgrep")
  BY <1>2, <1>3, <1>4 DEF Setting, Audits
<1>13. LastSet(file, <<"codeAudit.codeScan.engine">>, "semgrep") =
         IF At(file, "codeAudit.codeScan.engine") # Absent
         THEN At(file, "codeAudit.codeScan.engine") ELSE "semgrep"
  BY <1>5, LastOfOne
<1> QED BY <1>7, <1>8, <1>9, <1>10, <1>11, <1>12, <1>13

\* What the deployment, started on this host, resolves to.
Loaded == LoadStartupConfig(deployment.file, Env)

\* A process runs under the configuration its deployment resolves to, scans with the
\* engine that configuration and the rules file allow, and serves only with an address
\* its role can do with.
CfgSound ==
    /\ pc # "down" => p.cfg = Loaded /\ Loaded # Rejected
    /\ pc \in {"runner", "serving"} => p.engine = ScanEngine(p.cfg)
    /\ pc = "serving" => ~(p.cfg.role = "fhe" /\ p.cfg.addr = "noport")

(* The host and the deployment stay what they were at the start while a process runs. *)
LEMMA CfgStep ==
    ASSUME Typed, DownSound, RecordSound, CfgSound, [Next]_vars
    PROVE  CfgSound'
<1>0. UNCHANGED world => UNCHANGED Loaded
  BY DEF Loaded, Env, world
<1> USE DEF Typed, Memory, CfgSound, ScanEngine, Places, Fresh, BeforeKeys, BeforeDrift, Drifted, Attested, world
<1>1. CASE Probe
  BY <1>0, <1>1 DEF Probe
<1>2. CASE Recover
  BY <1>0, <1>2 DEF Recover, Exit
<1>3. CASE ArchivePriv
  BY <1>0, <1>3 DEF ArchivePriv
<1>4. CASE ArchivePub
  BY <1>0, <1>4 DEF ArchivePub
<1>5. CASE LoadPair
  BY <1>0, <1>5 DEF LoadPair, Exit
<1>6. CASE SelfHeal
  BY <1>0, <1>6 DEF SelfHeal, Exit
<1>7. CASE Generate
  BY <1>0, <1>7 DEF Generate
<1>8. CASE FetchFailed
  BY <1>0, <1>8 DEF FetchFailed, Exit
<1>9. CASE WritePriv
  BY <1>0, <1>9 DEF WritePriv
<1>10. CASE WritePub
  BY <1>0, <1>10 DEF WritePub
<1>11. CASE Material
  BY <1>0, <1>11 DEF Material, Exit
<1>12. CASE DetectKeyDrift
  BY <1>0, <1>12 DEF DetectKeyDrift, Exit
<1>13. CASE SealClean
  BY <1>0, <1>13 DEF SealClean
<1>14. CASE Attest
  BY <1>0, <1>14 DEF Attest
<1>15. CASE Register
  BY <1>0, <1>15 DEF Register
<1>16. CASE BuildSecurityConfig
  BY <1>0, <1>16 DEF BuildSecurityConfig
<1>17. CASE BuildRunner
  BY <1>0, <1>17 DEF BuildRunner, Exit
<1>18. CASE Boot
  BY <1>0, <1>18 DEF Boot, Idle, Loaded
<1>19. CASE RetryRegister
  BY <1>0, <1>19 DEF RetryRegister, RecordSound
<1>20. CASE RetryAnswerLost
  BY <1>0, <1>20 DEF RetryAnswerLost, RecordSound
<1>21. CASE SealState
  BY <1>0, <1>21 DEF SealState
<1>22. CASE GetAttestation
  BY <1>0, <1>22 DEF GetAttestation
<1>23. CASE Stop
  BY <1>0, <1>23 DEF Stop, Exit
<1>24. CASE Move
  BY <1>0, <1>24 DEF Move
<1>25. CASE Fault
  BY <1>0, <1>25 DEF Fault
<1>26. CASE UNCHANGED vars
  BY <1>0, <1>26 DEF vars
<1>27. QED
  BY <1>1, <1>2, <1>3, <1>4, <1>5, <1>6, <1>7, <1>8, <1>9, <1>10, <1>11, <1>12, <1>13, <1>14, <1>15, <1>16, <1>17, <1>18, <1>19, <1>20, <1>21, <1>22, <1>23, <1>24, <1>25, <1>26 DEF Next, Step

(* What a configuration that is not refused says of its deployment. *)
LEMMA LoadedSettings ==
    ASSUME Loaded # Rejected
    PROVE  LET role == ServerType(deployment.file, Env)
           IN  /\ role # "refused"
               /\ Loaded = Resolved(role, deployment.file, Env)
               /\ Loaded.role = "fhe" => Loaded.fhe.present
               /\ Loaded.engine \in {"regex", "semgrep"}
<1> DEFINE role == ServerType(deployment.file, Env)
           c == Resolved(role, deployment.file, Env)
<1>1. Loaded = IF /\ Parses(deployment.file) /\ ~HasRemovedKey(deployment.file)
                  /\ role # "refused" /\ ValidStartupConfig(c)
               THEN c ELSE Rejected
  BY DEF Loaded, LoadStartupConfig
<1> HIDE DEF role, c
<1>2. role # "refused" /\ ValidStartupConfig(c) /\ Loaded = c
  BY <1>1
<1>3. (Loaded.role = "fhe" => Loaded.fhe.present) /\ Loaded.engine \in {"regex", "semgrep"}
  BY <1>2 DEF ValidStartupConfig, ValidFHEConfig
<1> QED  BY <1>2, <1>3 DEF role, c

(* The contract a host adds to the environment changes no other variable. *)
LEMMA EnvAt ==
    \A k \in {"CONTRACT_TYPE", "PLATFORM_IP"} : At(Env, k) = At(deployment.env, k)
  BY DEF At, Env

(* A service that runs under what its deployment resolves to is the one deployed. *)
LEMMA ServedSound == CfgSound => ServedAsDeployed
<1> SUFFICES ASSUME CfgSound, pc = "serving" PROVE ServedAsDeployed
  BY DEF ServedAsDeployed
<1> DEFINE file == deployment.file
           env == deployment.env
           role == ServerType(file, Env)
           type == At(file, "server.type")
           contract == At(env, "CONTRACT_TYPE")
           ip == At(env, "PLATFORM_IP")
           new == At(file, "platform.ip")
           mid == At(file, "platform.endpoint")
           old == At(file, "platformIP")
           enabled == At(file, "codeAudit.enabled")
           scan == At(file, "codeAudit.scan")
           first == At(file, "securityScan")
           engine == At(file, "codeAudit.codeScan.engine")
           set(s) == Setting(s, role, file, Env)
           c == p.cfg
<1>1. /\ c = Loaded /\ Loaded # Rejected /\ p.engine = ScanEngine(c)
      /\ ~(c.role = "fhe" /\ c.addr = "noport")
  BY DEF CfgSound
<1>2. /\ role # "refused" /\ c = Resolved(role, file, Env) /\ (c.role = "fhe" => c.fhe.present)
      /\ c.engine \in {"regex", "semgrep"}
  BY <1>1, LoadedSettings
<1>3. /\ c.role = role
      /\ c.codeAudit = set("codeAudit") /\ c.engine = set("engine")
      /\ c.llm = set("llm") /\ c.resultCheck = set("resultCheck")
      /\ c.binaryAudit = set("binaryAudit")
      /\ c.platformIP = FheIdentityOverride(role, Env, "PLATFORM_IP", set("platformIP"))
  BY <1>2, ResolvedSettings
<1>4. /\ role # "tee" => /\ set("codeAudit") = "off" /\ set("engine") = "regex"
                        /\ set("llm") = "off" /\ set("resultCheck") = "off"
                        /\ set("binaryAudit") = "off"
      /\ role = "tee" => set("codeAudit") =
           IF enabled # Absent THEN enabled
           ELSE IF scan # Absent THEN scan
           ELSE IF first # Absent THEN first ELSE "on"
      /\ role = "tee" => set("engine") = IF engine # Absent THEN engine ELSE "semgrep"
      /\ set("platformIP") =
           IF new # Absent THEN new ELSE IF mid # Absent THEN mid
           ELSE IF old # Absent THEN old ELSE At(Env, "PLATFORM_IP")
  BY SettingValues
<1>5. At(Env, "CONTRACT_TYPE") = contract /\ At(Env, "PLATFORM_IP") = ip
  BY EnvAt
<1>6. /\ contract # Absent => contract \in DOMAIN ContractTypeServerTypes
      /\ role = IF contract # Absent THEN ContractTypeServerTypes[contract]
                ELSE IF type # Absent THEN type ELSE "tee"
  <2>1. type # Absent => file["server.type"] = type
    BY DEF At
  <2> QED  BY <1>2, <1>5, <2>1 DEF ServerType
<1>7. ip # Absent => Env["PLATFORM_IP"] = ip
  BY <1>5 DEF At
<1> HIDE DEF role, set, file, env, contract, ip, enabled, scan, first, engine, type, new, mid, old
<1>8. /\ FirstSet(<<type, "tee">>) = IF type # Absent THEN type ELSE "tee"
      /\ FirstSet(<<enabled, scan, first, "on">>) =
           IF enabled # Absent THEN enabled ELSE IF scan # Absent THEN scan
           ELSE IF first # Absent THEN first ELSE "on"
  BY FirstOfTwo, FirstOfFour
<1>9. /\ FirstSet(<<ip, new, mid, old>>) =
           IF ip # Absent THEN ip ELSE IF new # Absent THEN new ELSE IF mid # Absent THEN mid ELSE old
      /\ FirstSet(<<new, mid, old, ip>>) =
           IF new # Absent THEN new ELSE IF mid # Absent THEN mid ELSE IF old # Absent THEN old ELSE ip
  BY FirstOfFour
<1>10. c.codeAudit = IF c.role = "tee" THEN FirstSet(<<enabled, scan, first, "on">>) ELSE "off"
  BY <1>3, <1>4, <1>8
<1>11. p.engine = "semgrep" <=> c.role = "tee" /\ deployment.rules /\ engine # "regex"
  <2>1. p.engine = "semgrep" <=> c.engine = "semgrep" /\ deployment.rules
    BY <1>1 DEF ScanEngine
  <2>2. c.engine = "semgrep" <=> c.role = "tee" /\ engine # "regex"
    BY <1>2, <1>3, <1>4 DEF Absent
  <2> QED  BY <2>1, <2>2
<1>12. c.role # "tee" => c.llm = "off" /\ c.resultCheck = "off" /\ c.binaryAudit = "off"
  BY <1>3, <1>4
<1>13. c.role = "fhe" => c.fhe.present /\ c.addr # "noport"
  BY <1>1, <1>2
<1>14. c.platformIP = IF c.role = "fhe" /\ ip # Absent THEN ip ELSE set("platformIP")
  BY <1>3, <1>5, <1>7 DEF FheIdentityOverride
<1>15. c.platformIP = IF c.role = "fhe" THEN FirstSet(<<ip, new, mid, old>>)
                      ELSE FirstSet(<<new, mid, old, ip>>)
  <2>1. set("platformIP") = IF new # Absent THEN new ELSE IF mid # Absent THEN mid
                            ELSE IF old # Absent THEN old ELSE ip
    BY <1>4, <1>5
  <2> QED  BY <1>9, <1>14, <2>1 DEF Absent
<1>16. /\ contract # Absent => contract \in DOMAIN ContractTypeServerTypes
       /\ c.role = IF contract # Absent THEN ContractTypeServerTypes[contract]
                   ELSE FirstSet(<<type, "tee">>)
  BY <1>3, <1>6, <1>8
<1> QED  BY <1>10, <1>11, <1>12, <1>13, <1>15, <1>16
         DEF ServedAsDeployed, file, env, contract, ip, enabled, scan, first, engine, type, new, mid, old

(***************************************************************************)
(* Whatever a deployment's template and environment hold and however often *)
(* it was restarted, moved or damaged, the service that runs has the role, *)
(* the audit, the engine and the platform address the sources that win say *)
(* it has (config.Load, applyServerType, buildSecurityConfig).             *)
(***************************************************************************)
THEOREM ServedCorrect == Spec => []ServedAsDeployed
<1>1. Init => CfgSound
  BY DEF Init, CfgSound
<1>2. DirInv /\ PlatInv /\ CfgSound /\ [Next]_vars => CfgSound'
  BY CfgStep DEF DirInv, PlatInv
<1>3. DirInv /\ PlatInv /\ [Next]_vars => PlatInv'
  BY SecretStep, RecoveredStep, ReportStep, RecordStep DEF DirInv, PlatInv
<1> QED  BY <1>1, <1>2, <1>3, PlatInit, ServedSound, DirCorrect, PTL DEF Spec

=============================================================================
