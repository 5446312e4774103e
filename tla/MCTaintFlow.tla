---------------------------- MODULE MCTaintFlow ----------------------------
(***************************************************************************)
(* Small packages for TaintFlow: a client, a service and a helper module,  *)
(* with every combination of what the client reads, whether it hashes it,  *)
(* how it hands it on, how the handler takes it and where the Tier 1       *)
(* engine reported something.                                              *)
(***************************************************************************)
EXTENDS TaintFlow

N(cls, line, col, up) == [ASTNode EXCEPT !.cls = cls, !.line = line, !.col = col, !.up = up]

Named(cls, line, col, up, name) == [N(cls, line, col, up) EXCEPT !.name = name]

Var(line, col, up, x) == [N("Name", line, col, up) EXCEPT !.reads = x]

Set(line, col, up, x) == [N("Assign", line, col, up) EXCEPT !.targets = <<x>>]

Url(segs) == [segs |-> segs]

\* import util as u
\* x = <source>(...) ; y = x or y = sha256(x) ; z: str = y
\* r = requests.post(url, json=z) | r = requests.post(url) |
\* r = requests.request("POST", url, json=z) | r = u.send(z)
\* os.system(r)
Client(c) ==
  LET call == [Named("Call", 5, 4, 9, CASE c.via = "helper" -> <<"u", "send">>
                                        [] c.via = "generic" -> <<"requests", "request">>
                                        [] OTHER -> <<"requests", "post">>)
               EXCEPT !.url = Url(IF c.via = "helper" THEN <<>> ELSE <<"svc:80", "run", c.seg, "">>),
                      !.lit = "POST",
                      !.args = IF c.via = "helper" THEN <<11>> ELSE <<>>,
                      !.kws = IF c.via \in {"json", "generic"} THEN << <<"json", 11>> >> ELSE <<>>]
  IN << N("Module", 1, 0, 0),
        [N("Import", 1, 0, 1) EXCEPT !.binds = << [module |-> <<"util">>, as |-> "u", level |-> 0, name |-> ""] >>],
        Set(2, 0, 1, "x"),
        Named("Call", 2, 4, 3, c.source),
        Set(3, 0, 1, "y"),
        IF c.hashed THEN [Named("Call", 3, 4, 5, <<"hashlib", "sha256">>) EXCEPT !.reads = "x"]
                    ELSE Var(3, 4, 5, "x"),
        [Set(4, 0, 1, "z") EXCEPT !.cls = "AnnAssign"],
        Var(4, 4, 7, "y"),
        Set(5, 0, 1, "r"),
        call,
        Var(5, 20, 10, IF c.via = "bare" THEN "" ELSE "z"),
        N("Expr", 6, 0, 1),
        Named("Call", 6, 0, 12, <<"os", "system">>),
        Var(6, 0, 13, ""),
        Var(6, 10, 13, "r") >>

\* @app.route("/run/<id>") def handler(p): d = request.json ; os.system(d) ; return d
\* The handler may also read its own secret, pass the request straight to
\* the sink, take it as a parameter, or be the service's own send().
Service(c) ==
  LET reads == c.takes IN
  << N("Module", 1, 0, 0),
     [Named("FunctionDef", 1, 0, 1, IF c.via = "helper" THEN <<"send">> ELSE <<"handler">>) EXCEPT
        !.params = IF reads = "param" THEN <<"self", "p">> ELSE <<>>,
        !.routes = << [verb |-> c.verb, methods |-> {}, pattern |-> Url(<<"", "run", "<id>">>)] >>],
     Set(2, 4, 2, "d"),
     CASE reads = "own"   -> Named("Call", 2, 8, 3, <<"os", "getenv">>)
       [] reads = "body"  -> Named("Attribute", 2, 8, 3, <<"request", "json">>)
       [] OTHER -> Var(2, 8, 3, "p"),
     N("Expr", 3, 4, 2),
     Named("Call", 3, 4, 5, <<"os", "system">>),
     IF reads = "direct" THEN Named("Attribute", 3, 14, 6, <<"request", "json">>)
                         ELSE Var(3, 14, 6, "d"),
     N("Return", 4, 4, 2),
     Var(4, 11, 8, "d") >>

\* def send(v): w = open(...) ; return w, or the same under the name post, which
\* a call of requests.post is taken for when no other post is defined.
Helper(name) ==
  << N("Module", 1, 0, 0),
     [Named("FunctionDef", 1, 0, 1, <<name>>) EXCEPT !.params = <<"v">>],
     Set(2, 4, 2, "w"),
     Named("Call", 2, 8, 3, <<"open">>),
     N("Return", 3, 4, 2),
     Var(3, 11, 5, "w") >>

Variants ==
  [source : {<<"os", "getenv">>, <<"np", "load">>, <<"len">>}, hashed : BOOLEAN,
   via : {"json", "generic", "bare", "helper"}, seg : {"7", "{id}"},
   takes : {"body", "direct", "param", "own"}, verb : {"route", "GET"},
   tier1 : {<< <<1, 6>> >>, << <<2, 3>>, <<1, 2>> >>}, helper : {"absent", "send", "post", "broken", "beyond"}]

\* "beyond": a fourth file, over the cap, defines a second send and cannot be parsed.
Package(c) ==
  LET helpers == CASE c.helper = "absent" -> <<>>
                   [] c.helper = "beyond" -> <<Helper("send"), Helper("send")>>
                   [] OTHER -> <<Helper(c.helper)>>
      trees == <<Client(c), Service(c)>> \o helpers IN
  [files |-> trees, below |-> [k \in DOMAIN trees |-> Walk(trees[k])],
   pkg |-> << <<>>, <<"svc">>, <<>>, <<>> >>, base |-> <<"client", "app", "util", "zzz">>,
   bad |-> CASE c.helper = "broken" -> {3} [] c.helper = "beyond" -> {4} [] OTHER -> {}, tier1 |-> c.tier1]

MCPrograms == {Package(c) : c \in Variants}
=============================================================================
