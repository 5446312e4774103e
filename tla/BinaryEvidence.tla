--------------------------- MODULE BinaryEvidence ---------------------------
(***************************************************************************)
(* CollectEvidence (internal/codeaudit/binary_evidence.go): how much of a  *)
(* binary file the channel reads under its budgets, and whether it says so *)
(* when it does not read it all.  Sizes are in blocks; what a block holds  *)
(* matters only for pickles, whose stream is PickleScan's.                 *)
(*                                                                         *)
(* A part is an executable or other section of an ELF file, or a member of *)
(* an archive; it declares a size and may be shorter, or unreadable.       *)
(***************************************************************************)
EXTENDS PickleScan

CONSTANTS MaxSize,            \* bound: size of a file, in blocks
          PartLists,          \* the lists of sections or members files may have
          Chunk,              \* evidenceReadChunk
          MaxFullScan, HeadTail, MaxStream, MaxMembers, MaxMemberBytes

ASSUME EvidenceAssumption ==
    /\ Chunk \in Nat \ {0} /\ HeadTail \in Nat \ {0}
    /\ MaxFullScan \in Nat \ {0} /\ MaxStream \in Nat \ {0}
    /\ MaxMembers \in Nat \ {0} /\ MaxMemberBytes \in Nat \ {0}

VARIABLES file,   \* kind, size, parts
          ev      \* the evidence set and the collector's position

vars == <<file, ev, pickleVars>>

Kinds == {"elf", "archive", "gzip", "raw", "pickle"}

Init ==
    /\ \E kind \in Kinds, size \in 1..MaxSize, parts \in PartLists :
         /\ kind \in {"gzip", "raw", "pickle"} => parts = <<>>
         /\ kind = "pickle" => size = 1
         /\ file = [kind |-> kind, size |-> size, parts |-> parts]
    /\ ev = [at |-> "stream", read |-> 0, seen |-> {}, part |-> 1, budget |-> MaxStream,
             spent |-> 0, whole |-> {}, structural |-> FALSE, err |-> FALSE]
    /\ PickleInit /\ (file.kind = "pickle") = (family # NoStream)
-----------------------------------------------------------------------------
Bound(e) == [e EXCEPT !.structural = TRUE]

(* The byte budget of the stream: a decompressed stream has the members' budget. *)
StreamBudget == IF file.kind = "gzip" THEN MaxMemberBytes ELSE MaxStream

(* streamWithSizeSwitch: large files are read at both ends.  Archives always are,
   since their members are read one by one. *)
HeadAndTail == file.kind = "archive" \/ (file.kind # "gzip" /\ file.size > MaxFullScan)

AfterStream == CASE file.kind = "elf" -> "sections"
                 [] file.kind = "archive" -> "members"
                 [] OTHER -> "done"

TooLarge == file.size > 2 * HeadTail

StreamEnds ==
    /\ file.kind # "pickle" /\ ev.at = "stream" /\ HeadAndTail
    /\ LET tail == IF file.size > HeadTail THEN file.size - HeadTail ELSE 0
           e == [ev EXCEPT !.seen = {b \in 1..file.size : b <= HeadTail \/ b > tail},
                           !.at = AfterStream]
       IN  ev' = IF file.kind # "archive" /\ TooLarge THEN Bound(e) ELSE e
    /\ UNCHANGED <<file, pickleVars>>

(* streamReaderEvidence: one read, possibly short, within the budget. *)
ReadChunk(n) ==
    /\ file.kind # "pickle" /\ ev.at = "stream" /\ ~HeadAndTail
    /\ ev.read < file.size
    /\ n <= Chunk /\ n <= StreamBudget - ev.read /\ n <= file.size - ev.read
    /\ ev' = [ev EXCEPT !.read = @ + n, !.seen = @ \cup (ev.read + 1)..(ev.read + n)]
    /\ UNCHANGED <<file, pickleVars>>

(* At the budget one more byte is asked for; the file's own size is looked at first,
   but a decompressed stream has none. *)
StreamDone(e) ==
    LET d == [e EXCEPT !.at = AfterStream]
    IN  IF e.read = StreamBudget /\ e.read < file.size THEN Bound(d) ELSE d

EndStream ==
    /\ file.kind # "pickle" /\ ev.at = "stream" /\ ~HeadAndTail
    /\ ev.read = file.size \/ ev.read = StreamBudget
    /\ ev' = StreamDone(ev)
    /\ UNCHANGED <<file, pickleVars>>

(* Any open, read or parse of the file itself may fail: CollectEvidence keeps the
   error. *)
CollectFails ==
    /\ file.kind # "pickle" /\ ev.at # "done"
    /\ ev' = [ev EXCEPT !.err = TRUE, !.at = "done"]
    /\ UNCHANGED <<file, pickleVars>>
-----------------------------------------------------------------------------
(* countSection and the section loop of collectELFReader: one budget for the file. *)
Smaller(a, b) == IF a < b THEN a ELSE b

Readable(s) == IF s.broken THEN 0 ELSE s.actual

MutMeasured(e, s) ==
    IF ~s.exec \/ s.size = 0 THEN e
    ELSE [e EXCEPT !.budget = IF @ > Readable(s) THEN @ - Readable(s) ELSE 0,
                   !.whole = IF Smaller(e.budget, Readable(s)) < s.size THEN @
                             ELSE @ \cup {e.part}]

Measured(e, s) ==
    CASE ~s.exec \/ s.size = 0 -> e
      [] s.exec /\ s.size > 0 /\ e.budget = 0 -> Bound(e)
      [] OTHER ->
           LET n == Smaller(e.budget, Readable(s))
               r == [e EXCEPT !.budget = @ - n]
           IN  IF s.broken \/ n < s.size THEN Bound(r)
               ELSE [r EXCEPT !.whole = @ \cup {e.part}]

Section ==
    /\ ev.at = "sections" /\ ev.part <= Len(file.parts)
    /\ ev' = [Measured(ev, file.parts[ev.part]) EXCEPT !.part = @ + 1]
    /\ UNCHANGED <<file, pickleVars>>

(* No section table at all: nothing could be measured. *)
EndSections ==
    /\ ev.at = "sections" /\ ev.part > Len(file.parts)
    /\ ev' = [(IF file.parts = <<>> THEN Bound(ev) ELSE ev) EXCEPT !.at = "done"]
    /\ UNCHANGED <<file, pickleVars>>
-----------------------------------------------------------------------------
(* collectArchive: the member ceiling, the head of every member, the byte budget, and
   only ELF and pickle members are read further. *)
MemberStep(e, s) ==
    CASE s.broken -> Bound(e)
      [] ~s.broken /\ ~s.exec -> e
      [] ~s.broken /\ s.exec /\ e.spent + s.size > MaxMemberBytes ->
           [Bound(e) EXCEPT !.at = "done"]
      [] OTHER ->
           LET r == [e EXCEPT !.spent = @ + s.size]
           IN  IF s.actual # s.size THEN Bound(r)   \* the archive's own size check fails
               ELSE [r EXCEPT !.whole = @ \cup {e.part},
                              !.structural = @ \/ s.size >= MaxMemberBytes]

Member ==
    /\ ev.at = "members" /\ ev.part <= Len(file.parts)
    /\ ev' = IF ev.part > MaxMembers THEN [Bound(ev) EXCEPT !.at = "done"]
             ELSE [MemberStep(ev, file.parts[ev.part]) EXCEPT !.part = @ + 1]
    /\ UNCHANGED <<file, pickleVars>>

EndMembers ==
    /\ ev.at = "members" /\ ev.part > Len(file.parts)
    /\ ev' = [ev EXCEPT !.at = "done"]
    /\ UNCHANGED <<file, pickleVars>>

(* The stream of a pickle is interpreted as it is read. *)
Interpret ==
    /\ file.kind = "pickle"
    /\ PickleNext
    /\ UNCHANGED <<file, ev>>

Next ==
    \/ StreamEnds \/ (\E n \in 1..Chunk : ReadChunk(n)) \/ EndStream \/ CollectFails
    \/ Section \/ EndSections \/ Member \/ EndMembers \/ Interpret

Spec == Init /\ [][Next]_vars
-----------------------------------------------------------------------------
(* Evidence that claims neither an error nor a structural bound comes from a file that
   was read whole: every block of its stream (an archive's is its members), every
   executable section, every member that can execute.  It is what lets ProvesCleanScan
   read an empty listing as evidence of absence. *)
NoSilentGap ==
    (ev.at = "done" /\ ~ev.err /\ ~ev.structural) =>
        /\ file.kind # "archive" => ev.seen = 1..file.size
        /\ \A i \in DOMAIN file.parts :
             file.parts[i].exec /\ file.parts[i].size > 0 => i \in ev.whole
=============================================================================
