----------------------------- MODULE MCEvidence -----------------------------
EXTENDS BinaryEvidence

Bare == {<<op>> : op \in {"(", "0", "s", "e", "t", "2", ".", "N", "?", "Q", "R", "T", "g", "m"}}
Short == <<"U", "1", "a">>
Inst == <<"i", "a", "\n", "a", "\n">>
LongInst == <<"i", "a", "a", "\n", "a", "a", "\n">>
Global == <<"c", "a", "\n", "b", "\n">>

AllOps == Bare \cup
    { <<"P", "1">>, <<"X", "1">>, <<"q", "1">>, <<"h", "0">>, <<"h", "1">>,
      Short, <<"U", "0">>, <<"U", "5", "a", "a", "a", "a", "a">>,
      Global, <<"c", "a", "a", "\n", "b", "\n">>, <<"c", "\n", "b", "\n">>, Inst, LongInst }

TargetOps == {Short, Global, Inst, LongInst, <<"X", "1">>, <<"(">>, <<"R">>, <<"g">>, <<".">>}

(* Two names that go through the memo to a STACK_GLOBAL. *)
Puts == {<<"m">>, <<"q", "0">>, <<"q", "1">>}
Gets == {<<"h", "0">>, <<"h", "1">>}
ByMemo == << {Short}, Puts, {<<"0">>, <<"P", "1">>}, {<<"U", "1", "b">>}, Puts, {<<"0">>, <<"g">>},
             Gets, Gets \cup {<<"2">>, Short}, {<<"g">>}, {<<".">>} >>

MCFamilies == {[i \in 1..4 |-> AllOps], [i \in 1..5 |-> TargetOps] \o <<{<<".">>}>>, ByMemo}

Parts == {r \in [exec : BOOLEAN, broken : BOOLEAN, size : 0..3, actual : 0..3] :
            r.actual <= r.size}
MCPartLists == {<<>>} \cup UNION {[1..n -> Parts] : n \in 1..2}
                \cup {<<[exec |-> FALSE, broken |-> FALSE, size |-> 0, actual |-> 0], x, y>> :
                        x \in Parts, y \in Parts}
=============================================================================
