----------------------------- MODULE TaintFlow -----------------------------
(***************************************************************************)
(* The graph pass of internal/codeaudit: FindViolations walks the graph of *)
(* PropertyGraph from every taint source (cpg/taint_engine.go), the slicer *)
(* shortens a flow to the evidence a prompt can hold (cpg/slicer.go), and  *)
(* enrichFindingsWithCPG folds the flows that leave a file or a service    *)
(* into the findings of the Tier 1 engine (cpg_analysis.go).               *)
(*                                                                         *)
(* A step of a flow carries the node it stands at in place of the code     *)
(* excerpt the report shows.                                               *)
(***************************************************************************)
EXTENDS PropertyGraph

CONSTANTS MaxHops,     \* taintDefaultMaxHops
          LiftDepth,   \* taintLiftMaxDepth
          MaxSteps     \* taintTrajectoryMaxSteps

ASSUME TaintAssumption == FileCap \in Nat /\ MaxHops \in Nat /\ LiftDepth \in Nat /\ MaxSteps \in Nat

VARIABLES queue,       \* the worklist
          head,        \* the next item of it
          visited,     \* <<node, source>> pairs
          violations,  \* in the order they are found
          findings     \* the report's findings

taintVars == <<queue, head, visited, violations, findings>>
vars == <<graphVars, taintVars>>

(* ----------------------- sources, sinks, sanitizers ------------------- *)
EnvCalls == {<<"os", "getenv">>, <<"os", "environ", "get">>}
FileCalls == {<<"open">>}
RawDataCalls == {<<"np", "load">>}
CommandCalls == {<<"os", "system">>, <<"eval">>}
NetworkHeads == {"requests", "httpx", "socket"}
SanitizerCalls == {<<"hashlib", "sha256">>, <<"hmac", "new">>}

SourceFamilyOfName(name) ==
  CASE name \in EnvCalls -> "ENV_001"
    [] name \in FileCalls -> "FIL_001"
    [] name \in RawDataCalls -> "RAW_DATA"
    [] OTHER -> ""

SourceFamilyOfAST(n) ==
  CASE n.cls = "Call" -> SourceFamilyOfName(n.name)
    [] n.cls = "Subscript" /\ n.name = <<"os", "environ">> -> "ENV_001"
    [] OTHER -> ""

\* The highest-ranking family of the node's subtree; a parameter has no
\* subtree and goes by its name.
SourceFamily(n) ==
  LET found == IF n.ast = 0 THEN {SourceFamilyOfName(n.sym)}
               ELSE {SourceFamilyOfAST(Tree(n.file)[i]) : i \in Subtree(n.file, n.ast)}
  IN CASE "ENV_001" \in found -> "ENV_001"
       [] "FIL_001" \in found -> "FIL_001"
       [] "RAW_DATA" \in found -> "RAW_DATA"
       [] OTHER -> ""

CollectSources == SelectSeq(nodes, LAMBDA n : SourceFamily(n) # "")

\* Only the node itself: a call by its callee, anything else by its symbol.
SinkCategory(n) ==
  CASE n.sym \in CommandCalls -> "command"
    [] Len(n.sym) > 1 /\ n.sym[1] \in NetworkHeads -> "network"
    [] OTHER -> ""

SinkFamilyFor(n, family) ==
  CASE SinkCategory(n) = "command" -> "CMD_001"
    [] SinkCategory(n) = "network" ->
         IF family \in {"ENV_001", "FIL_001"} THEN "EXF_001" ELSE "NET_001"
    [] OTHER -> ""

IsSanitizer(n) ==
  IF n.ast = 0 THEN n.sym \in SanitizerCalls
  ELSE \E i \in Subtree(n.file, n.ast) :
         Tree(n.file)[i].cls = "Call" /\ Tree(n.file)[i].name \in SanitizerCalls

(* ------------------------------ traversal ----------------------------- *)
TraversalEdges == {"DFG_DEF_USE", "CALL_ARG", "CALL_RET", "CALL"}
BoundaryTypes == {"MICROSERVICE_PAYLOAD", "MICROSERVICE_HTTP", "MICROSERVICE_RESPONSE"}

Successors(id) ==
  SelectSeq(edges, LAMBDA e : e.src = id /\ e.type \in TraversalEdges \cup BoundaryTypes)

Binds(n) == n.type = "AST_ASSIGN" \/ SinkCategory(n) # ""

\* The nearest node above, level by level, that stores the payload or
\* consumes it; None when there is none within LiftDepth levels.
BoundaryLift(id) ==
  LET parents(level, seen) ==
        SelectSeq(edges, LAMBDA e : e.type = "AST_CHILD" /\ e.dst \in level /\ e.src \notin seen)
      rise[d \in 0 .. LiftDepth] ==
        IF d = 0 THEN [level |-> {id}, seen |-> {id}, hit |-> None]
        ELSE LET r == rise[d - 1]
                 up == parents(r.level, r.seen)
                 ids == {up[k].src : k \in DOMAIN up}
                 hits == SelectSeq(up, LAMBDA e : Binds(NodeAt(e.src)))
             IN IF r.hit # None THEN r
                ELSE [level |-> ids, seen |-> r.seen \cup ids,
                      hit |-> IF hits = <<>> THEN None ELSE hits[1].src]
  IN rise[LiftDepth].hit

\* The nodes one edge hands the value to.
Targets(e) ==
  IF e.type \in BoundaryTypes /\ BoundaryLift(e.dst) # None
    THEN <<e.dst, BoundaryLift(e.dst)>> ELSE <<e.dst>>

SourceStep(n) == [file |-> n.file, line |-> n.line, type |-> "SOURCE", edge |-> "", node |-> n.id]

TraversalStep(from, e, to) ==
  [file |-> to.file, line |-> to.line, edge |-> e.type, node |-> to.id,
   type |-> IF e.type = "DFG_DEF_USE" THEN "DFG_PROPAGATION"
            ELSE IF e.type \notin BoundaryTypes THEN "INTERPROC_CALL"
            ELSE IF to.file # from.file THEN "MICROSERVICE_EGRESS" ELSE "MICROSERVICE_INGRESS"]

Hops(item) == Len(item.steps) - 1

\* Mutant: a node is visited once, whatever source reaches it.
MutVisitKey(id, src) == <<id, None>>

VisitKey(id, src) == <<id, src>>

\* The first step that reaches each node not seen from this source yet.
Enqueued(item) ==
  LET n == NodeAt(item.node)
      out == Successors(item.node)
      all == FlattenSeq([k \in DOMAIN out |->
               [j \in DOMAIN Targets(out[k]) |-> <<Targets(out[k])[j], out[k]>>]])
      new == {k \in DOMAIN all :
                /\ VisitKey(all[k][1], item.src) \notin visited
                /\ \A j \in 1 .. k - 1 : all[j][1] # all[k][1]}
      next(t) == [item EXCEPT !.node = t[1],
                              !.steps = Append(@, TraversalStep(n, t[2], NodeAt(t[1])))]
  IN IF Hops(item) >= MaxHops \/ IsSanitizer(n) THEN <<>>
     ELSE [k \in 1 .. Cardinality(new) |-> next(all[InOrder(new)[k]])]

NewViolation(item, family) ==
  LET steps == [item.steps EXCEPT ![Len(item.steps)].type = "SINK"] IN
  [src |-> item.src, sink |-> item.node, srcFamily |-> item.family, sinkFamily |-> family,
   steps |-> steps,
   crossFile |-> \E k \in DOMAIN steps : steps[k].file # steps[1].file,
   acrossMicroservice |-> \E k \in DOMAIN steps : steps[k].edge \in BoundaryTypes]

Found(src, sink, family) ==
  \E k \in DOMAIN violations :
    <<violations[k].src, violations[k].sink, violations[k].sinkFamily>> = <<src, sink, family>>

\* The worklist starts with every source.
Prime ==
  /\ stage = "prime"
  /\ LET s == CollectSources IN
     /\ queue' = [k \in DOMAIN s |-> [node |-> s[k].id, src |-> s[k].id,
                                      family |-> SourceFamily(s[k]), steps |-> <<SourceStep(s[k])>>]]
     /\ visited' = {VisitKey(s[k].id, s[k].id) : k \in DOMAIN s}
  /\ stage' = "taint"
  /\ UNCHANGED <<prog, todo, nodes, edges, funcIndex, aliases, calls, head, violations, findings>>

\* One item: a sink closes a violation and does not cut the path.
Visit ==
  /\ stage = "taint" /\ head <= Len(queue)
  /\ LET item == queue[head]
         fam  == SinkFamilyFor(NodeAt(item.node), item.family)
         more == Enqueued(item)
     IN /\ violations' = IF fam = "" \/ Found(item.src, item.node, fam) THEN violations
                         ELSE Append(violations, NewViolation(item, fam))
        /\ queue' = queue \o more
        /\ visited' = visited \cup {VisitKey(more[k].node, item.src) : k \in DOMAIN more}
  /\ head' = head + 1
  /\ UNCHANGED <<graphVars, findings>>

(* ------------------------------- evidence ----------------------------- *)
\* Only the text of a call or of a function definition holds a "(".
ReferencesCall(s) == NodeAt(s.node).type \in {"AST_CALL", "AST_FUNC_DEF"}

\* Drops the steps that only rename a value in a file the flow already
\* enters through a call or a boundary.
PruneTrajectory(steps) ==
  LET covered == {steps[k].file : k \in {j \in DOMAIN steps :
                    steps[j].type \in {"INTERPROC_CALL", "MICROSERVICE_EGRESS", "MICROSERVICE_INGRESS"}}}
      plain(s) == s.type = "DFG_PROPAGATION" /\ s.file \in covered /\ ~ReferencesCall(s)
      kept == {k \in DOMAIN steps : k \in {1, Len(steps)} \/ ~plain(steps[k])}
  IN [k \in 1 .. Cardinality(kept) |-> steps[InOrder(kept)[k]]]

Clamp(lo, x, hi) == IF x < lo THEN lo ELSE IF x > hi THEN hi ELSE x

\* Mutant: the last step is not kept for its own sake.
MutKeptPositions(len) ==
  {0} \cup {Clamp(1, (i * (len - 1)) \div (MaxSteps - 1), len - 2) : i \in 1 .. MaxSteps - 2}

\* The ends and evenly spaced steps between them (positions count from 0,
\* as the code's do); the first dropped one becomes the marker.
KeptPositions(len) ==
  LET inner == MaxSteps - 2 IN
  {0, len - 1} \cup {Clamp(1, (i * (len - 1)) \div (inner + 1), len - 2) : i \in 1 .. inner}

CompressSteps(steps) ==
  LET len  == Len(steps)
      keep == KeptPositions(len)
      gone == (0 .. len - 1) \ keep
      marker == CHOOSE k \in gone : \A j \in gone : k <= j
      shown == keep \cup {marker}
      step(p) == IF p \in keep THEN steps[p + 1]
                 ELSE [steps[p + 1] EXCEPT !.type = "ELIDED", !.line = Cardinality(gone)]
  IN IF MaxSteps < 3 \/ len <= MaxSteps THEN steps
     ELSE [k \in 1 .. Cardinality(shown) |-> step(InOrder(shown)[k])]

FormatTrajectory(v) ==
  IF Len(v.steps) <= 1 THEN v.steps ELSE CompressSteps(PruneTrajectory(v.steps))

(* ------------------------------ enrichment ---------------------------- *)
\* A step that is passed through marks the findings of its line; the first
\* flow's evidence stays.
AttachEvidence(fs, v) ==
  [k \in DOMAIN fs |->
    IF \E s \in DOMAIN v.steps : v.steps[s].file = fs[k].file /\ v.steps[s].line = fs[k].line
      THEN [fs[k] EXCEPT !.evidence = IF @ = <<>> THEN FormatTrajectory(v) ELSE @,
                         !.crossFile = @ \/ v.crossFile,
                         !.microservice = @ \/ v.acrossMicroservice]
      ELSE fs[k]]

Synthesizes(v) == v.sinkFamily = "CMD_001" /\ v.srcFamily \in {"ENV_001", "FIL_001"}

CrossServiceFinding(v) ==
  LET sink == Last(v.steps) IN
  [file |-> sink.file, line |-> sink.line, rule |-> "taa-cross-service-rce", severity |-> "HIGH",
   crossFile |-> TRUE, microservice |-> TRUE, evidence |-> FormatTrajectory(v)]

\* Mutant: a sink is ticked off by the first flow that crosses a service,
\* reported or not.
MutFold(acc, v) ==
  LET old == SubSeq(acc.out, 1, acc.n)
      new == SubSeq(acc.out, acc.n + 1, Len(acc.out))
      with == AttachEvidence(old, v) \o new
  IN IF ~v.acrossMicroservice \/ v.sink \in acc.done THEN [acc EXCEPT !.out = with]
     ELSE [acc EXCEPT !.out = IF Synthesizes(v) THEN Append(with, CrossServiceFinding(v)) ELSE with,
                      !.done = @ \cup {v.sink}]

\* One flow: acc carries the findings and the sinks already reported.
\* Locations of findings are those the pass started with.
Fold(acc, v) ==
  LET old == SubSeq(acc.out, 1, acc.n)
      new == SubSeq(acc.out, acc.n + 1, Len(acc.out))
      with == AttachEvidence(old, v) \o new
  IN IF ~v.crossFile /\ ~v.acrossMicroservice THEN acc
     ELSE IF ~v.acrossMicroservice \/ v.sink \in acc.done \/ ~Synthesizes(v)
       THEN [acc EXCEPT !.out = with]
     ELSE [acc EXCEPT !.out = Append(with, CrossServiceFinding(v)), !.done = @ \cup {v.sink}]

\* Violations are sorted by source, sink and family: by their nodes' places.
Place(id) == id[1] * 10000 + id[2] * 100 + id[3]

Sorted(vs) ==
  SortSeq(vs, LAMBDA a, b : \/ Place(a.src) < Place(b.src)
                            \/ Place(a.src) = Place(b.src) /\ Place(a.sink) < Place(b.sink))

Enrich ==
  /\ stage = "taint" /\ head > Len(queue)
  /\ findings' = FoldLeft(Fold, [out |-> findings, n |-> Len(findings), done |-> {}],
                          Sorted(violations)).out
  /\ stage' = "done"
  /\ UNCHANGED <<prog, todo, nodes, edges, funcIndex, aliases, calls, queue, head, visited, violations>>

Tier1(loc) == [file |-> loc[1], line |-> loc[2], rule |-> "tier1", severity |-> "MEDIUM",
               crossFile |-> FALSE, microservice |-> FALSE, evidence |-> <<>>]

\* The pass runs on findings; without any it returns at once.
Init ==
  /\ GraphInit
  /\ queue = <<>> /\ head = 1 /\ visited = {} /\ violations = <<>>
  /\ findings = [k \in DOMAIN prog.tier1 |-> Tier1(prog.tier1[k])]

Next ==
  \/ BuildFile /\ UNCHANGED taintVars
  \/ BuildFails /\ UNCHANGED taintVars
  \/ Bridge /\ UNCHANGED taintVars
  \/ Prime
  \/ Visit
  \/ Enrich

Spec == Init /\ [][Next]_vars

(* ------------------------------ properties ---------------------------- *)
Ids == {nodes[k].id : k \in DOMAIN nodes}

\* The flow relation, for the reference: where one hop leads from a node.
Flow ==
  [a \in Ids |->
    IF IsSanitizer(NodeAt(a)) THEN {}
    ELSE UNION {Range(Targets(e)) : e \in Range(Successors(a))}]

Reached(src, flow) ==
  LET after[h \in 0 .. MaxHops] ==
        IF h = 0 THEN {src} ELSE after[h - 1] \cup UNION {flow[a] : a \in after[h - 1]}
  IN after[MaxHops]

WalkOver == stage = "taint" /\ head > Len(queue)

\* FindViolations against its definition: the walk, with its visited set and
\* its hop budget shared by all sources, reports exactly the pairs of a
\* source and a sink that some unsanitized path of at most MaxHops edges
\* joins, each once per sink family.
FlowsExact ==
  WalkOver =>
    LET flow == Flow
        sinks(s) == {t \in Reached(s.id, flow) : SinkFamilyFor(NodeAt(t), SourceFamily(s)) # ""}
        wanted == UNION {{<<s.id, t, SinkFamilyFor(NodeAt(t), SourceFamily(s))>> : t \in sinks(s)} :
                         s \in Range(CollectSources)}
        got == {<<v.src, v.sink, v.sinkFamily>> : v \in Range(violations)}
    IN wanted = got /\ Len(violations) = Cardinality(got)

\* The evidence of a flow is a flow: consecutive steps are joined in the
\* graph, and what the slicer leaves of it still starts at the source, ends
\* at the sink, keeps the order, fits the budget and says how many steps it
\* left out.
EvidenceSound ==
  WalkOver => LET flow == Flow IN \A v \in Range(violations) :
    LET t == FormatTrajectory(v)
        p == PruneTrajectory(v.steps)
        real == SelectSeq(t, LAMBDA s : s.type # "ELIDED")
    IN /\ v.steps[1].node = v.src /\ Last(v.steps).node = v.sink
       /\ \A k \in 1 .. Len(v.steps) - 1 : v.steps[k + 1].node \in flow[v.steps[k].node]
       /\ t[1] = v.steps[1] /\ Last(t) = Last(v.steps)
       /\ Len(t) <= MaxSteps + 1
       /\ \E at \in [DOMAIN real -> DOMAIN p] :
            /\ \A i, j \in DOMAIN real : i < j => at[i] < at[j]
            /\ \A i \in DOMAIN real : real[i] = p[at[i]]
       /\ \A s \in Range(t) : s.type = "ELIDED" => s.line = Len(p) - Len(real)

\* Enrichment explains findings and never costs one: the Tier 1 findings
\* keep their place, rule and severity, and every sink a sensitive value
\* reaches across services has exactly one finding of its own, whichever
\* flow to it comes first.
EnrichmentSound ==
  LET n == Len(prog.tier1)
      key(f) == <<f.file, f.line, f.rule, f.severity>>
      added == {k \in DOMAIN findings : k > n}
      due == {v.sink : v \in {w \in Range(violations) : w.acrossMicroservice /\ Synthesizes(w)}}
  IN /\ \A k \in 1 .. n : key(findings[k]) = key(Tier1(prog.tier1[k]))
     /\ stage = "done" /\ head > 1 =>
          /\ Cardinality(added) = Cardinality(due)
          /\ {<<findings[k].file, findings[k].line>> : k \in added} = {<<s[1], s[2]>> : s \in due}
          /\ \A k \in 1 .. n :
               findings[k].evidence # <<>> <=>
                 \E v \in Range(violations) : (v.crossFile \/ v.acrossMicroservice)
                   /\ \E s \in Range(v.steps) : <<s.file, s.line>> = prog.tier1[k]
=============================================================================
