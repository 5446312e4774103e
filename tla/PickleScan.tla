----------------------------- MODULE PickleScan -----------------------------
(***************************************************************************)
(* The pickle interpreter of the binary channel (pickleScanner in          *)
(* internal/codeaudit/binary_evidence.go).  It is fed a stream in chunks   *)
(* of any size and lists the import targets the stream would resolve,      *)
(* without executing it; what it cannot follow it records as a bound.      *)
(*                                                                         *)
(* It is run against the unpickler it stands in for: ref is Python's own   *)
(* machine, which executes each opcode once, whatever the chunks are.      *)
(* Opcodes with the same operand layout and stack effect share one byte,   *)
(* and the unpickler does of them what reaches most: a TUPLE may be an OBJ,*)
(* and what a call or a look-up returns may be a string.                   *)
(***************************************************************************)
EXTENDS Naturals, Sequences, FiniteSets

CONSTANTS
    Families,        \* bound: the encoded opcodes each place of a stream may hold
    MaxOperand,      \* pickleMaxOperandBytes
    MaxStack, MaxMemo,   \* pickleMaxStackSlots, pickleMaxMemoSlots
    MaxLines         \* EvidenceSet.maxLines

ASSUME PickleAssumption ==
    /\ MaxOperand \in Nat /\ MaxStack \in Nat /\ MaxMemo \in Nat
    /\ MaxLines \in Nat
    /\ \A f \in Families : \A i \in DOMAIN f : \A o \in f[i] : Len(o) > 0

VARIABLES
    p,        \* the pickleScanner and the EvidenceSet it writes to
    pending,  \* bytes of the current opcode the reader has not delivered
    reading,  \* the reader: "open", or why it stopped ("eof", "budget", "head")
    flushed,
    ref,      \* the unpickler: frames, memo, alive, the targets it resolved
    family,   \* what this stream is made of
    ops       \* opcodes of the stream so far

pickleVars == <<p, pending, reading, flushed, ref, family, ops>>

Value(b) == CASE b = "0" -> 0 [] b = "1" -> 1 [] b = "5" -> 5 [] OTHER -> 9

Plain == [mark |-> FALSE, str |-> FALSE, unresolved |-> FALSE, value |-> <<>>]
Marker == [Plain EXCEPT !.mark = TRUE]
Unresolved == [Plain EXCEPT !.unresolved = TRUE]

NewScanner ==
    [phase |-> "op", op |-> "", arg |-> <<>>, need |-> 0, sizing |-> FALSE, keep |-> TRUE,
     linesLeft |-> 0, stack |-> <<>>, memo |-> <<>>, stopped |-> FALSE, hitStop |-> FALSE,
     trailing |-> FALSE, moved |-> FALSE,
     lines |-> {}, structural |-> FALSE, listing |-> FALSE]

(* A file that is no pickle has no such stream. *)
NoStream == <<>>

PickleInit ==
    /\ family \in Families \cup {NoStream}
    /\ p = NewScanner /\ pending = <<>> /\ reading = "open" /\ flushed = FALSE
    /\ ref = [frames |-> << <<>> >>, memo |-> <<>>, alive |-> TRUE, resolved |-> {}]
    /\ ops = 0
-----------------------------------------------------------------------------
(***************************************************************************)
(* The evidence set: markStructural, add with its line cap.                *)
(***************************************************************************)
MarkStructural(s) == [s EXCEPT !.structural = TRUE]

Add(s, target) ==
    IF target \in s.lines THEN s
    ELSE IF Cardinality(s.lines) >= MaxLines THEN [s EXCEPT !.listing = TRUE]
    ELSE [s EXCEPT !.lines = @ \cup {target}]

(***************************************************************************)
(* The value stack and the memo.  A memo is a function over the indexes in *)
(* use.                                                                    *)
(***************************************************************************)
Overflow(s) == [MarkStructural(s) EXCEPT !.stopped = TRUE]

Push(s, slot) ==
    IF Len(s.stack) >= MaxStack THEN Overflow(s)
    ELSE [s EXCEPT !.stack = Append(@, slot)]

Pop(s, n) ==
    LET k == IF n > Len(s.stack) THEN Len(s.stack) ELSE n
    IN  [s EXCEPT !.stack = SubSeq(@, 1, Len(@) - k)]

PopToMark(s) ==
    LET marks == {i \in DOMAIN s.stack : s.stack[i].mark}
        last == CHOOSE i \in marks : \A j \in marks : j <= i
    IN  [s EXCEPT !.stack = IF marks = {} THEN <<>> ELSE SubSeq(@, 1, last - 1)]

Top(s) == s.stack[Len(s.stack)]

Put(s, i) ==
    IF Cardinality(DOMAIN s.memo) >= MaxMemo THEN Overflow(s)
    ELSE [s EXCEPT !.memo = [j \in DOMAIN @ \cup {i} |->
             IF j # i THEN s.memo[j] ELSE IF s.stack = <<>> THEN Plain ELSE Top(s)]]

(* recordTarget: the two lines of GLOBAL and INST. *)
LineEnd(a) == CHOOSE i \in DOMAIN a : a[i] = "\n" /\ \A j \in 1..(i - 1) : a[j] # "\n"

RecordTarget(s) ==
    IF ~s.keep THEN s
    ELSE LET i == LineEnd(s.arg)
             mod == SubSeq(s.arg, 1, i - 1)
             name == SubSeq(s.arg, i + 1, Len(s.arg) - 1)
         IN  IF mod = <<>> \/ name = <<>> THEN s ELSE Add(s, <<mod, name>>)


StackGlobal(s) ==
    IF Len(s.stack) < 2 THEN Push(s, Plain)
    ELSE LET name == Top(s)
             mod == s.stack[Len(s.stack) - 1]
             r == Pop(s, 2)
         IN  Push(CASE mod.unresolved \/ name.unresolved -> MarkStructural(r)
                    [] mod.str /\ name.str -> Add(r, <<mod.value, name.value>>)
                    [] OTHER -> r, Plain)

(***************************************************************************)
(* exec: one opcode, its operand collected in s.arg.                       *)
(***************************************************************************)
Exec(s) ==
    CASE s.op = "(" -> Push(s, Marker)
      [] s.op = "0" -> Pop(s, 1)
      [] s.op = "s" -> Pop(s, 2)
      [] s.op = "e" -> PopToMark(s)
      [] s.op = "t" -> Push(PopToMark(s), Plain)
      [] s.op = "i" -> Push(PopToMark(RecordTarget(s)), Plain)
      [] s.op = "2" -> IF s.stack = <<>> THEN s ELSE Push(s, Top(s))
      [] s.op = "." -> [s EXCEPT !.stopped = TRUE, !.hitStop = TRUE]
      [] s.op = "P" -> s
      [] s.op = "N" -> Push(s, Plain)
      [] s.op = "Q" -> Push(Pop(s, 1), Plain)
      [] s.op = "R" -> Push(Pop(s, 2), Plain)
      [] s.op = "T" -> Push(Pop(s, 3), Plain)
      [] s.op = "X" -> Push(s, Plain)
      [] s.op = "U" -> Push(s, [Plain EXCEPT !.str = s.keep, !.unresolved = ~s.keep,
                                             !.value = s.arg])
      [] s.op = "c" -> Push(RecordTarget(IF s.keep THEN s ELSE MarkStructural(s)), Plain)
      [] s.op = "h" -> LET i == Value(s.arg[1])
                       IN  Push(s, IF i \in DOMAIN s.memo THEN s.memo[i] ELSE Unresolved)
      [] s.op = "q" -> Put(s, Value(s.arg[1]))
      [] s.op = "m" -> Put(s, Cardinality(DOMAIN s.memo))
      [] s.op = "g" -> StackGlobal(s)

(* operandOf *)
Layout == [none |-> {"(", "0", "s", "e", "t", "2", ".", "N", "Q", "R", "T", "m",
                     "g"},
           fixed1 |-> {"P", "X", "h", "q"}, twoLines |-> {"c", "i"}, counted1 |-> {"U"}]

(***************************************************************************)
(* step: consumes a prefix of b and returns the scanner and its length.    *)
(***************************************************************************)
Took(s, n) == [s |-> s, n |-> n]

BeginOp(s, op) ==
    LET r == [s EXCEPT !.op = op, !.arg = <<>>, !.keep = TRUE, !.sizing = FALSE]
    IN  CASE op \in Layout.none -> Exec(r)
          [] op \in Layout.fixed1 -> [r EXCEPT !.phase = "fixed", !.need = 1]
          [] op \in Layout.twoLines -> [r EXCEPT !.phase = "line", !.linesLeft = 2]
          [] op \in Layout.counted1 ->
               [r EXCEPT !.phase = "fixed", !.need = 1, !.sizing = TRUE]
          [] OTHER -> Overflow(s)

AppendArg(s, b) ==
    IF ~s.keep THEN s
    ELSE IF Len(s.arg) + Len(b) > MaxOperand THEN [s EXCEPT !.keep = FALSE, !.arg = <<>>]
    ELSE [s EXCEPT !.arg = @ \o b]

Finish(s) == Exec([s EXCEPT !.phase = "op"])

LineStep(s, b) ==
    IF \A i \in DOMAIN b : b[i] # "\n" THEN Took(AppendArg(s, b), Len(b))
    ELSE LET n == LineEnd(b)
             r == [AppendArg(s, SubSeq(b, 1, n)) EXCEPT !.linesLeft = @ - 1]
         IN  Took(IF r.linesLeft > 0 THEN r ELSE Finish(r), n)

(* The length byte of a counted operand decides whether its payload is kept. *)
FixedStep(s, b) ==
    LET r == [s EXCEPT !.arg = Append(@, b[1]), !.need = 0]
    IN  IF ~s.sizing THEN Took(Finish(r), 1)
        ELSE Took([r EXCEPT !.arg = <<>>, !.need = Value(b[1]), !.phase = "payload",
                            !.keep = Value(b[1]) <= MaxOperand], 1)

(* A payload of length zero is executed with the byte after it. *)
PayloadStep(s, b) ==
    LET n == IF Len(b) > s.need THEN s.need ELSE Len(b)
        r == [s EXCEPT !.arg = IF s.keep THEN @ \o SubSeq(b, 1, n) ELSE @, !.need = @ - n]
    IN  CASE r.need > 0 -> Took(r, n)
          [] r.need = 0 /\ n > 0 -> Took(Finish(r), n)
          [] OTHER -> Took(BeginOp(Finish(r), b[1]), 1)

ScanStep(s, b) ==
    CASE s.phase = "op" -> Took(BeginOp(s, b[1]), 1)
      [] s.phase = "fixed" -> FixedStep(s, b)
      [] s.phase = "line" -> LineStep(s, b)
      [] s.phase = "payload" -> PayloadStep(s, b)

RECURSIVE Consume(_, _)
Consume(s, b) ==
    IF b = <<>> THEN s
    ELSE IF s.stopped THEN [s EXCEPT !.trailing = TRUE]
    ELSE LET t == ScanStep(s, b)
         IN  Consume([t.s EXCEPT !.moved = TRUE], SubSeq(b, t.n + 1, Len(b)))

Write(s, chunk) == Consume(s, chunk)

(* A stream that ends before STOP is a bound, wherever it ends. *)
Flush(s) == IF ~s.stopped /\ s.moved THEN MarkStructural(s) ELSE s
-----------------------------------------------------------------------------
(***************************************************************************)
(* Python's unpickler: a stack of frames, one per open mark.  Any misuse   *)
(* raises and ends it.  A value is a string of the stream, one the load    *)
(* computes, or something that is no string.                               *)
(***************************************************************************)
Frame(u) == u.frames[Len(u.frames)]
Raise(u) == [u EXCEPT !.alive = FALSE]
SetFrame(u, f) == [u EXCEPT !.frames[Len(u.frames)] = f]
RPush(u, v) == SetFrame(u, Append(Frame(u), v))
RPop(u, n) == SetFrame(u, SubSeq(Frame(u), 1, Len(Frame(u)) - n))
RPopMark(u) == [u EXCEPT !.frames = SubSeq(@, 1, Len(@) - 1)]
RTop(u) == Frame(u)[Len(Frame(u))]

NoStr == [str |-> FALSE, computed |-> FALSE, value |-> <<>>]
Literal(v) == [NoStr EXCEPT !.str = TRUE, !.value = v]
Computed == [NoStr EXCEPT !.str = TRUE, !.computed = TRUE]

(* find_class: how the target was spelt, its module and its name.  A name that is
   empty has no attribute, an empty module cannot be imported. *)
Resolve(u, how, mod, name) ==
    LET t == [how |-> how, mod |-> mod.value, name |-> name.value,
              computed |-> mod.computed \/ name.computed]
    IN  IF Literal(<<>>) \in {mod, name} THEN Raise(u)
        ELSE RPush([u EXCEPT !.resolved = @ \cup {t}], Computed)

(* What an opcode needs: values above the last mark, a mark, a memo entry. *)
Needs(u, o) ==
    LET enough(n) == Len(Frame(u)) >= n
        marked == Len(u.frames) > 1
    IN  CASE o[1] = "0" -> enough(1) \/ marked
          [] o[1] \in {"2", "q", "m", "Q"} -> enough(1)
          [] o[1] \in {"s", "R"} -> enough(2)
          [] o[1] = "T" -> enough(3)
          [] o[1] \in {"e", "t", "i"} -> marked
          [] o[1] = "g" -> enough(2) /\ RTop(u).str /\ Frame(u)[Len(Frame(u)) - 1].str
          [] o[1] = "h" -> Value(o[2]) \in DOMAIN u.memo
          [] o[1] \in {"(", "P", "N", "U", "c", "X"} -> TRUE
          [] OTHER -> FALSE     \* STOP, or an opcode Python does not know

(* EXT names a class by its number in the registry of the loading process. *)
Registered == Literal(<<"registered">>)
Execute(u, o) ==
    LET op == o[1]
        two == IF op \in {"c", "i"} THEN LineEnd(Tail(o)) ELSE 0
        mod == Literal(SubSeq(Tail(o), 1, two - 1))
        name == Literal(SubSeq(Tail(o), two + 1, Len(o) - 2))
        slot == IF op = "q" THEN Value(o[2]) ELSE Cardinality(DOMAIN u.memo)
    IN  CASE op = "(" -> [u EXCEPT !.frames = Append(@, <<>>)]
          [] op = "0" -> IF Frame(u) = <<>> THEN RPopMark(u) ELSE RPop(u, 1)
          [] op = "s" -> RPop(u, 2)
          [] op = "e" -> RPopMark(u)
          [] op = "t" -> RPush(RPopMark(u), Computed)
          [] op = "i" -> Resolve(RPopMark(u), "inst", mod, name)
          [] op = "2" -> RPush(u, RTop(u))
          [] op = "P" -> u
          [] op = "N" -> RPush(u, NoStr)
          [] op = "Q" -> RPush(RPop(u, 1), Computed)
          [] op = "R" -> RPush(RPop(u, 2), Computed)
          [] op = "T" -> RPush(RPop(u, 3), Computed)
          [] op = "X" -> Resolve(u, "ext", Registered, Registered)
          [] op = "U" -> RPush(u, Literal(SubSeq(o, 3, Len(o))))
          [] op = "c" -> Resolve(u, "global", mod, name)
          [] op = "h" -> RPush(u, u.memo[Value(o[2])])
          [] op \in {"q", "m"} ->
               [u EXCEPT !.memo = [j \in DOMAIN @ \cup {slot} |->
                                     IF j = slot THEN RTop(u) ELSE u.memo[j]]]
          [] op = "g" -> Resolve(RPop(u, 2), "stack", Frame(u)[Len(Frame(u)) - 1], RTop(u))

Unpickle(u, o) ==
    IF ~u.alive THEN u ELSE IF Needs(u, o) THEN Execute(u, o) ELSE Raise(u)
-----------------------------------------------------------------------------
(* The stream goes on by one more opcode; the unpickler executes it. *)
NextOp(o) ==
    /\ ops < Len(family) /\ o \in family[ops + 1]
    /\ reading # "eof" /\ (pending = <<>> \/ reading # "open")
    /\ ops' = ops + 1
    /\ ref' = Unpickle(ref, o)
    /\ pending' = IF reading = "open" THEN o ELSE pending
    /\ UNCHANGED <<p, reading, flushed, family>>

(* streamReaderEvidence: the reader hands over the next n bytes. *)
Deliver(n) ==
    /\ reading = "open" /\ n <= Len(pending)
    /\ p' = Write(p, SubSeq(pending, 1, n))
    /\ pending' = SubSeq(pending, n + 1, Len(pending))
    /\ UNCHANGED <<reading, flushed, ref, family, ops>>

(* The end of the file; its budget, with a byte past it; or the head window of a
   large file, whose tail is not for the pickle interpreter. *)
StopReading(why) ==
    /\ reading = "open"
    /\ why = "eof" => pending = <<>>
    /\ why = "budget" => pending # <<>>
    /\ why = "head" => p.moved      \* HeadTailBytes > 0 (normalizeBinaryConfig)
    /\ reading' = why
    /\ p' = IF why = "budget" THEN MarkStructural(p) ELSE p
    /\ UNCHANGED <<pending, flushed, ref, family, ops>>

FlushScanner ==
    /\ reading # "open" /\ ~flushed
    /\ p' = Flush(p)
    /\ flushed' = TRUE
    /\ UNCHANGED <<pending, reading, ref, family, ops>>

PickleNext ==
    \/ \E o \in UNION {family[i] : i \in DOMAIN family} : NextOp(o)
    \/ \E n \in 1..7 : Deliver(n)
    \/ \E why \in {"eof", "budget", "head"} : StopReading(why)
    \/ FlushScanner

PickleSpec == PickleInit /\ [][PickleNext]_pickleVars
-----------------------------------------------------------------------------
(* The targets the code passes over in silence.  EXT names none in the stream; a
   module or a name the load computes is no value the interpreter has, and unlike one
   it could not read it is not marked as unresolved; and an INST whose two lines are
   past the operand cap marks no bound, where a GLOBAL does, although the comment on
   pickleMaxOperandBytes promises one. *)
PassedOver(t) ==
    \/ t.how = "ext" \/ t.computed
    \/ t.how = "inst" /\ Len(t.mod) + Len(t.name) + 2 > MaxOperand

=============================================================================
