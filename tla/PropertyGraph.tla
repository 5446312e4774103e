--------------------------- MODULE PropertyGraph ---------------------------
(***************************************************************************)
(* The code property graph of internal/codeaudit/cpg: what the builder     *)
(* makes of the Python files of a package (builder.go, resolver.go,        *)
(* models.go, ast_bridge.go) and the edges the microservice bridge adds    *)
(* between an HTTP client call and the handler it reaches                  *)
(* (microservice.go).                                                      *)
(*                                                                         *)
(* A file is a number, its rank in path order, which is the order the walk *)
(* hands the files to Build.  Its syntax tree is a sequence of nodes in    *)
(* document order; `up` is the index of the parent.  A dotted name is a    *)
(* sequence of identifiers.  Control flow edges are not built: no later    *)
(* step reads them.                                                        *)
(***************************************************************************)
EXTENDS Integers, Sequences, FiniteSets, SequencesExt

CONSTANTS Programs,    \* the packages to analyse
          FileCap,     \* cpgMaxFiles
          NodeBudget   \* cpgMaxNodes

VARIABLES prog,        \* the package
          stage,       \* build, bridge, taint, done
          todo,        \* files still to be converted
          nodes,       \* CodePropertyGraph.nodes, in insertion order
          edges,       \* CodePropertyGraph.adjOut, in insertion order
          funcIndex,   \* CPGBuilder.funcIndex, in insertion order
          aliases,     \* CPGBuilder.aliases: [file, local, target]
          calls        \* CPGBuilder.calls

graphVars == <<prog, stage, todo, nodes, edges, funcIndex, aliases, calls>>

None == <<>>

(* ---------------------------- syntax trees ---------------------------- *)
Tree(f) == prog.files[f]

\* An AST node with nothing but its class and its place.
ASTNode == [cls |-> "Expr", line |-> 0, col |-> 0, up |-> 0, name |-> None, reads |-> "",
            targets |-> <<>>, args |-> <<>>, kws |-> <<>>, params |-> <<>>,
            routes |-> <<>>, url |-> None, lit |-> "", binds |-> <<>>]

\* The nodes Walk visits at and below each node of a tree; a package carries
\* them with its trees.
Walk(tree) ==
  LET above[j \in 0 .. Len(tree)] == IF j = 0 THEN {} ELSE {j} \cup above[tree[j].up]
  IN [i \in 1 .. Len(tree) |-> {j \in 1 .. Len(tree) : i \in above[j]}]

Subtree(f, i) == prog.below[f][i]

BuilderNodeType(cls) ==
  CASE cls \in {"FunctionDef", "AsyncFunctionDef"} -> "AST_FUNC_DEF"
    [] cls = "ClassDef" -> "AST_CLASS_DEF"
    [] cls = "Call" -> "AST_CALL"
    [] cls \in {"Assign", "AnnAssign", "AugAssign"} -> "AST_ASSIGN"
    [] cls = "Return" -> "AST_RETURN"
    [] cls \in {"Import", "ImportFrom"} -> "AST_IMPORT"
    [] cls = "Module" -> "AST_MODULE"
    [] OTHER -> "AST_EXPR"

BuilderNodeID(f, line, col, type) == <<f, line, col, type>>

\* Two AST nodes of one place and type share the node of the first of them.
NodeOf(f, i) ==
  LET n == Tree(f)[i] IN BuilderNodeID(f, n.line, n.col, BuilderNodeType(n.cls))

Created(f) ==
  {i \in 1 .. Len(Tree(f)) : \A j \in 1 .. i - 1 : NodeOf(f, j) # NodeOf(f, i)}

\* A set of positions (from 0) in increasing order.
InOrder(S) ==
  IF S = {} THEN <<>>
  ELSE SelectSeq([k \in 1 .. Max(S) + 1 |-> k - 1], LAMBDA k : k \in S)

\* The scope a node is created in: the nearest definition above it.
ScopeOf(f, i) ==
  LET opens[j \in 0 .. Len(Tree(f))] ==
        IF j <= 1 \/ Tree(f)[j].cls \in {"FunctionDef", "AsyncFunctionDef", "ClassDef"}
          THEN j ELSE opens[Tree(f)[j].up]
      s == IF i = 1 THEN 1 ELSE opens[Tree(f)[i].up]
  IN NodeOf(f, s)

BuilderSymbolName(n) ==
  CASE n.cls \in {"Call", "FunctionDef", "AsyncFunctionDef", "ClassDef"} -> n.name
    [] n.cls \in {"Assign", "AnnAssign", "AugAssign"} /\ n.targets # <<>> -> <<n.targets[1]>>
    [] OTHER -> None

CreateNode(f, i) ==
  LET n == Tree(f)[i] IN
  [id |-> NodeOf(f, i), file |-> f, line |-> n.line, type |-> BuilderNodeType(n.cls),
   scope |-> ScopeOf(f, i), sym |-> BuilderSymbolName(n), targets |-> n.targets, ast |-> i]

\* Parameters carry no position of their own: the column counts them, and
\* they have no syntax tree.
BuildParams(f, i) ==
  LET n == Tree(f)[i] IN
  [k \in 1 .. Len(n.params) |->
    [id |-> BuilderNodeID(f, n.line, n.col + k - 1, "AST_PARAM"), file |-> f, line |-> n.line,
     type |-> "AST_PARAM", scope |-> NodeOf(f, i), sym |-> <<n.params[k]>>,
     targets |-> <<>>, ast |-> 0]]

FileNodes(f) ==
  FlattenSeq([k \in 1 .. Cardinality(Created(f)) |->
    LET i == InOrder(Created(f))[k] IN <<CreateNode(f, i)>> \o BuildParams(f, i)])

Edge(s, t, ty) == [src |-> s, dst |-> t, type |-> ty]

\* A child that shares its parent's node hangs from nothing.
BuildChildren(f) ==
  FlattenSeq([i \in 1 .. Len(Tree(f)) |->
    (IF i > 1 /\ NodeOf(f, Tree(f)[i].up) # NodeOf(f, i)
       THEN <<Edge(NodeOf(f, Tree(f)[i].up), NodeOf(f, i), "AST_CHILD")>> ELSE <<>>)
    \o [k \in 1 .. Len(BuildParams(f, i)) |->
          Edge(NodeOf(f, i), BuildParams(f, i)[k].id, "AST_CHILD")]])

BuilderLoadedNames(f, i) == {Tree(f)[j].reads : j \in Subtree(f, i)} \ {""}

\* Every assignment reaches the later nodes of its scope that read its name.
BuildDFG(f) ==
  LET used(i, j) == SelectSeq(Tree(f)[i].targets, LAMBDA x : x \in BuilderLoadedNames(f, j))
      to(i) == {j \in Created(f) : j > i /\ ScopeOf(f, j) = ScopeOf(f, i) /\ used(i, j) # <<>>}
      from == {i \in Created(f) : BuilderNodeType(Tree(f)[i].cls) = "AST_ASSIGN"}
      pair(i, j) == [k \in 1 .. Len(used(i, j)) |-> Edge(NodeOf(f, i), NodeOf(f, j), "DFG_DEF_USE")]
      row(i) == FlattenSeq([k \in 1 .. Cardinality(to(i)) |-> pair(i, InOrder(to(i))[k])])
  IN FlattenSeq([k \in 1 .. Cardinality(from) |-> row(InOrder(from)[k])])

(* ------------------------- symbols and imports ------------------------ *)
\* resolver.go: pkg/util.py is the module pkg.util, pkg/__init__.py is pkg.
ModulePath(f) ==
  IF prog.base[f] = "__init__" THEN prog.pkg[f] ELSE Append(prog.pkg[f], prog.base[f])

Registered(m) == m # None /\ \E f \in DOMAIN prog.files : ModulePath(f) = m

\* The module an import names; an import the workspace does not hold keeps
\* the text that was written.
ResolveImport(f, module, level) ==
  LET parts == prog.pkg[f]
      based == SubSeq(parts, 1, Len(parts) - (level - 1)) \o module
      found == IF level <= 0 THEN module
               ELSE IF level - 1 > Len(parts) THEN None ELSE based
  IN IF Registered(found) THEN found ELSE module

CollectAliases(f) ==
  LET bound(n, b) ==
        IF n.cls = "Import"
          THEN IF b.as # "" THEN {[file |-> f, local |-> b.as, target |-> b.module]}
               ELSE {[file |-> f, local |-> Head(b.module), target |-> <<Head(b.module)>>]}
          ELSE LET base == ResolveImport(f, b.module, b.level) IN
               IF base = None \/ b.name = "*" THEN {}
               ELSE {[file |-> f, local |-> IF b.as # "" THEN b.as ELSE b.name,
                      target |-> Append(base, b.name)]}
  IN UNION {UNION {bound(Tree(f)[i], Tree(f)[i].binds[k]) : k \in DOMAIN Tree(f)[i].binds} :
            i \in Created(f)}

CollectFunctions(f) ==
  LET defs == {i \in Created(f) : BuilderNodeType(Tree(f)[i].cls) = "AST_FUNC_DEF"}
      rets(i) == {j \in Created(f) : Tree(f)[j].cls = "Return" /\ ScopeOf(f, j) = NodeOf(f, i)}
      info(i) == [file |-> f, name |-> Tree(f)[i].name[1], def |-> NodeOf(f, i),
                  fqn |-> ModulePath(f) \o Tree(f)[i].name, params |-> BuildParams(f, i),
                  returns |-> [k \in 1 .. Cardinality(rets(i)) |-> NodeOf(f, InOrder(rets(i))[k])]]
  IN [k \in 1 .. Cardinality(defs) |-> info(InOrder(defs)[k])]

RecordCallSites(f) ==
  LET refs == {i \in Created(f) : Tree(f)[i].cls = "Call" /\ Tree(f)[i].name # None}
      site(i) == [call |-> NodeOf(f, i), file |-> f, callee |-> Tree(f)[i].name,
                  pos |-> [k \in DOMAIN Tree(f)[i].args |-> NodeOf(f, Tree(f)[i].args[k])],
                  kw |-> [k \in DOMAIN Tree(f)[i].kws |->
                            <<Tree(f)[i].kws[k][1], NodeOf(f, Tree(f)[i].kws[k][2])>>],
                  bound |-> None]
  IN [k \in 1 .. Cardinality(refs) |-> site(InOrder(refs)[k])]

\* The imports of one file bind distinct names.  The dotted callee with
\* its head expanded through the file's imports.
QualifiedCallee(site, als) ==
  LET own == {a \in als : a.file = site.file /\ a.local = Head(site.callee)} IN
  IF Len(site.callee) < 2 THEN None
  ELSE IF own # {} THEN (CHOOSE a \in own : TRUE).target \o Tail(site.callee)
  ELSE site.callee

\* A definition of the same file, then the qualified name, then the only
\* definition of that simple name.
MatchCallee(site, index, als) ==
  LET named == SelectSeq(index, LAMBDA c : c.name = Last(site.callee))
      here  == SelectSeq(named, LAMBDA c : c.file = site.file)
      fqn   == QualifiedCallee(site, als)
      full  == SelectSeq(named, LAMBDA c : fqn # None /\ c.fqn = fqn)
  IN IF here # <<>> THEN here[1] ELSE IF full # <<>> THEN full[1]
     ELSE IF Len(named) = 1 THEN named[1] ELSE None

EmitCallEdges(site, c) ==
  LET passed == SelectSeq([k \in DOMAIN site.pos |-> k], LAMBDA k : k <= Len(c.params))
      named  == SelectSeq(site.kw, LAMBDA a : \E p \in DOMAIN c.params : c.params[p].sym = <<a[1]>>)
      param(x) == c.params[CHOOSE p \in DOMAIN c.params :
                             /\ c.params[p].sym = <<x>>
                             /\ \A q \in 1 .. p - 1 : c.params[q].sym # <<x>>].id
  IN <<Edge(site.call, c.def, "CALL")>>
     \o [k \in DOMAIN passed |-> Edge(site.pos[passed[k]], c.params[passed[k]].id, "CALL_ARG")]
     \o [k \in DOMAIN named |-> Edge(named[k][2], param(named[k][1]), "CALL_ARG")]
     \o [k \in DOMAIN c.returns |-> Edge(c.returns[k], site.call, "CALL_RET")]

\* resolveCallSites: what is bound once is never looked up again.
Resolve(sites, index, als) ==
  [k \in DOMAIN sites |->
    LET c == MatchCallee(sites[k], index, als) IN
    IF sites[k].bound # None \/ c = None THEN sites[k] ELSE [sites[k] EXCEPT !.bound = c]]

ResolvedEdges(sites, index, als) ==
  FlattenSeq([k \in DOMAIN sites |->
    LET c == MatchCallee(sites[k], index, als) IN
    IF sites[k].bound # None \/ c = None THEN <<>> ELSE EmitCallEdges(sites[k], c)])

\* BuildFile converts one file and binds the call sites known so far.
BuildFile ==
  /\ stage = "build" /\ todo # <<>> /\ Head(todo) \notin prog.bad
  /\ LET f     == Head(todo)
         sites == calls \o RecordCallSites(f)
         index == funcIndex \o CollectFunctions(f)
         als   == aliases \cup CollectAliases(f)
     IN /\ nodes' = nodes \o FileNodes(f)
        /\ funcIndex' = index
        /\ aliases' = als
        /\ calls' = Resolve(sites, index, als)
        /\ edges' = edges \o BuildChildren(f) \o BuildDFG(f) \o ResolvedEdges(sites, index, als)
  /\ todo' = Tail(todo)
  /\ UNCHANGED <<prog, stage>>

\* ExtractAST fails or times out on one file: Build returns the error and
\* the whole pass is given up.
BuildFails ==
  /\ stage = "build" /\ todo # <<>> /\ Head(todo) \in prog.bad
  /\ stage' = "done"
  /\ UNCHANGED <<prog, todo, nodes, edges, funcIndex, aliases, calls>>

(* ------------------------ microservice boundaries --------------------- *)
NodeAt(id) == nodes[CHOOSE k \in DOMAIN nodes : nodes[k].id = id]

AstOf(n) == Tree(n.file)[n.ast]

\* The node made from this very AST node, else the first one of its line.
NodeAtLine(f, i) ==
  LET at == SelectSeq(nodes, LAMBDA n : n.file = f /\ n.line = Tree(f)[i].line)
      same == SelectSeq(at, LAMBDA n : n.ast = i)
  IN IF same # <<>> THEN same[1] ELSE at[1]

\* Endpoints are sequences of path segments.  A raw URL is what stands
\* before the first slash, then the segments; placeholders become :param,
\* the query and trailing slashes go.
StripSlashes(p) ==
  LET used == {k \in DOMAIN p : p[k] # ""} IN
  SubSeq(p, 1, IF used = {} THEN 0 ELSE CHOOSE k \in used : \A j \in used : j <= k)

NormalizeEndpoint(raw) ==
  LET path == IF Len(raw.segs) = 1 THEN raw.segs ELSE Tail(raw.segs)
      seg(s) == IF s \in {"<id>", "{id}"} THEN ":param" ELSE s
  IN IF raw.segs = <<>> THEN None
     ELSE <<"/">> \o StripSlashes([k \in DOMAIN path |-> seg(path[k])])

PathsMatch(a, b) ==
  /\ a # None /\ b # None
  /\ Len(a) = Len(b)
  /\ \A k \in DOMAIN a : a[k] = b[k] \/ ":param" \in {a[k], b[k]}

\* The HTTP method of a call: by its callee, or for request(METHOD, url) by
\* its first argument, when that is a literal.
ResolveClientMethod(n) ==
  CASE n.name = <<"requests", "get">> -> "GET"
    [] n.name = <<"requests", "post">> -> "POST"
    [] n.name = <<"requests", "request">> -> n.lit
    [] OTHER -> ""

ExtractClientCalls ==
  LET clients == SelectSeq(nodes, LAMBDA n :
                   n.type = "AST_CALL" /\ ResolveClientMethod(AstOf(n)) # "")
      body(n) == SelectSeq(AstOf(n).kws, LAMBDA a : a[1] \in {"json", "data", "params"})
  IN [k \in DOMAIN clients |->
       LET n == clients[k] IN
       [node |-> n, method |-> ResolveClientMethod(AstOf(n)),
        endpoint |-> NormalizeEndpoint(AstOf(n).url),
        payload |-> IF body(n) = <<>> THEN n ELSE NodeAtLine(n.file, body(n)[1][2])]]

BodyAccess == {<<"request", "json">>, <<"request", "get_json">>}

\* Where the handler reads the request: the first access of every line,
\* else the parameters of that name in the file, else the handler itself.
BodyAccessNodes(fn) ==
  LET f == fn.file
      reads == {i \in Subtree(f, fn.ast) :
                  Tree(f)[i].cls \in {"Call", "Attribute"} /\ Tree(f)[i].name \in BodyAccess}
      first == {i \in reads : \A j \in reads : Tree(f)[j].line = Tree(f)[i].line => i <= j}
      wanted == Range(AstOf(fn).params) \ {"self", "cls"}
      params == SelectSeq(nodes, LAMBDA n :
                  n.type = "AST_PARAM" /\ n.file = f /\ n.sym[1] \in wanted)
  IN IF first # {} THEN [k \in 1 .. Cardinality(first) |-> NodeAtLine(f, InOrder(first)[k])]
     ELSE IF params # <<>> THEN params ELSE <<fn>>

\* @app.route(path, methods=[...]) or @app.post(path).
RouteFromDecorator(fn, d) ==
  [func |-> fn, endpoint |-> NormalizeEndpoint(d.pattern), body |-> BodyAccessNodes(fn),
   methods |-> IF d.verb # "route" THEN {d.verb}
               ELSE IF d.methods = {} THEN {"GET", "POST"} ELSE d.methods]

ExtractServerRoutes ==
  LET defs == SelectSeq(nodes, LAMBDA n : n.type = "AST_FUNC_DEF")
  IN FlattenSeq([k \in DOMAIN defs |->
       [j \in DOMAIN AstOf(defs[k]).routes |->
          RouteFromDecorator(defs[k], AstOf(defs[k]).routes[j])]])

ReturnNodes(route) ==
  LET f == route.func.file
      rets == {i \in Subtree(f, route.func.ast) : Tree(f)[i].cls = "Return"}
  IN [k \in 1 .. Cardinality(rets) |-> NodeAtLine(f, InOrder(rets)[k])]

BoundaryEdges(c, r) ==
  <<Edge(c.node.id, r.func.id, "MICROSERVICE_HTTP")>>
  \o [k \in DOMAIN r.body |-> Edge(c.payload.id, r.body[k].id, "MICROSERVICE_PAYLOAD")]
  \o [k \in DOMAIN ReturnNodes(r) |->
        Edge(ReturnNodes(r)[k].id, c.node.id, "MICROSERVICE_RESPONSE")]

BridgeBoundaries ==
  LET clients == ExtractClientCalls
      routes  == ExtractServerRoutes
      link(c, r) == IF c.method \in r.methods /\ PathsMatch(c.endpoint, r.endpoint)
                      THEN BoundaryEdges(c, r) ELSE <<>>
  IN FlattenSeq([k \in DOMAIN clients |->
       FlattenSeq([j \in DOMAIN routes |-> link(clients[k], routes[j])])])

\* All files are in: the pass goes on unless the graph is over its budget.
\* Build's own last resolveCallSites finds nothing new to bind.
Bridge ==
  /\ stage = "build" /\ todo = <<>>
  /\ IF nodes = <<>> \/ Len(nodes) > NodeBudget
       THEN stage' = "done" /\ UNCHANGED edges
       ELSE stage' = "prime" /\ edges' = edges \o BridgeBoundaries
  /\ UNCHANGED <<prog, todo, nodes, funcIndex, aliases, calls>>

\* The files the graph is built of; the resolver registers every file.
PythonTargets(files) == SelectSeq([k \in 1 .. Len(files) |-> k], LAMBDA k : k <= FileCap)

GraphInit ==
  /\ prog \in Programs
  /\ stage = "build"
  /\ todo = PythonTargets(prog.files)
  /\ nodes = <<>> /\ edges = <<>> /\ funcIndex = <<>> /\ aliases = {} /\ calls = <<>>

(* ------------------------------ properties ---------------------------- *)
\* "Call edge resolution runs once all files have been converted, so calls
\* crossing file boundaries are bound regardless of the input order"
\* (builder.go): once every file is in, each call site is bound to what the
\* complete index gives for it.
CallsBoundByWholeIndex ==
  stage # "build" /\ todo = <<>> =>
    \A k \in DOMAIN calls : calls[k].bound = MatchCallee(calls[k], funcIndex, aliases)
=============================================================================
