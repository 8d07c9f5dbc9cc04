------------------------------- MODULE MCScan -------------------------------
(***************************************************************************)
(* ScanPipeline on small repositories: each family varies one part and     *)
(* keeps the others at their least. Only two families, of SQL candidates   *)
(* and of records to merge, are scanned by a user who may interrupt: the   *)
(* signal is read where nothing of the other parts has happened yet.       *)
(***************************************************************************)
EXTENDS ScanPipeline

UpTo(S, n) == UNION {[1..i -> S] : i \in 0..n}

\* --- the least of each part
NoProgram == [parameters |-> {}, patterns |-> {}, declared |-> [f |-> 1], calls |-> <<>>,
              sinks |-> <<>>, maxCallDepth |-> 2]
NoWiring == [imports |-> {}, provides |-> {}, applications |-> {}, emitters |-> {}, clients |-> {},
             listeners |-> {}, sites |-> {}, fanOut |-> 2]
NoLocking == [roles |-> {}, callable |-> {}, usings |-> {}, calls |-> {}]
NoPersistence == [entities |-> <<>>, members |-> <<>>, body |-> <<>>]
NoCodebase == [classes |-> <<>>, sites |-> {}]
NoHttp == [calls |-> <<>>, members |-> <<>>, route |-> FALSE, changed |-> FALSE,
           service |-> [declared |-> "service", form |-> "parameter", token |-> FALSE, others |-> {}, role |-> TRUE],
           instance |-> [constant |-> TRUE, behaviour |-> TRUE, base |-> NoExpr, method |-> "none"]]
NoNest == [classes |-> {}, modules |-> <<>>, bootstraps |-> {}]
NoEndpoints == [endpoints |-> <<>>, wrappers |-> <<>>, keys |-> {}, symbols |-> <<>>, relationships |-> {}]
Least == [program |-> NoProgram, wiring |-> NoWiring, nest |-> NoNest, controls |-> NoEndpoints, locking |-> NoLocking, codebase |-> NoCodebase, traffic |-> NoHttp, persistence |-> NoPersistence, candidates |-> <<>>,
          dialect |-> "none", contributions |-> <<>>, regions |-> {}, facts |-> 1, severity |-> "none",
          interrupted |-> FALSE]

\* --- request provenance: three methods, a DTO and an id parameter
Op(kind) == [kind |-> kind, name |-> "f"]
E(kinds, leaves) == [ops |-> [i \in DOMAIN kinds |-> Op(kinds[i])], leaves |-> leaves]
Whole == E(<<>>, {1})
Field == E(<<"access">>, {1})
Identifier == E(<<>>, {2})
Values == {Whole, Field, E(<<"derive">>, {1, 2}), E(<<"access">>, {2}), E(<<"alias", "binding">>, {1}),
           E(<<"mix">>, {1}), E(<<"mutated">>, {1}), E(<<"lost">>, {1}), E(<<"group", "group", "access", "group">>, {1})}
Call(from, to, arguments, form, target) ==
    [from |-> from, to |-> to, arguments |-> arguments, form |-> form, target |-> target]
Sink(method, shape, boundary, column, value) ==
    [method |-> method, shape |-> shape, boundary |-> boundary, column |-> column, value |-> value]
Parameters == {[method |-> 1, index |-> 1, literal |-> FALSE], [method |-> 1, index |-> 2, literal |-> TRUE]}
Program(calls, sinks, patterns, declared) ==
    [NoProgram EXCEPT !.parameters = Parameters, !.calls = calls, !.sinks = sinks,
                      !.patterns = patterns, !.declared = [f |-> declared]]

PlainCalls ==
    {Call(f, t, <<v>>, "plain", "plain") : f \in 1..3, t \in 1..3, v \in {Whole, Field}}
    \cup {Call(1, 2, <<Field, Identifier>>, "plain", "plain"), Call(2, 3, <<Identifier>>, "plain", "plain")}
CallGraphs ==
    {Program(calls, <<Sink(3, "inline", FALSE, "column", v)>>, {}, 1) :
        calls \in UpTo(PlainCalls, 2), v \in {Whole, Field}}
Forks ==
    {[Program(<<Call(1, 2, <<Field>>, "plain", "plain"), Call(1, 2, <<a>>, "plain", "plain"),
                Call(2, 3, <<b>>, "plain", "plain"), Call(f, t, <<Whole>>, "plain", "plain")>>,
              <<Sink(3, "inline", FALSE, "column", v)>>, {}, 1) EXCEPT !.maxCallDepth = depth] :
        a, b, v \in {Whole, Field, Identifier}, f \in 1..3, t \in 1..3, depth \in 1..2}
Expressions ==
    {Program(<<Call(1, 2, <<v>>, "plain", "plain")>>, <<Sink(m, "inline", FALSE, "column", w)>>, {}, d) :
        v \in Values, w \in Values, m \in 1..2, d \in 0..2}
Writes ==
    {Program(<<Call(1, 2, <<v>>, form[1], form[2])>>, <<Sink(m, shape, boundary, column, w)>>, patterns, 1) :
        v, w \in {Whole, Field, E(<<"alias">>, {1, 2})}, m \in 1..2,
        form \in {<<"plain", "plain">>, <<"ambiguous", "plain">>, <<"spread", "plain">>, <<"plain", "rest">>,
                  <<"plain", "bodyless">>},
        shape \in {"inline", "spread", "whole"}, boundary \in BOOLEAN, column \in {"column", "none", "disabled"},
        patterns \in {{}, {<<2, 1>>}}}
\* A handler that is called by a handler: both extractors look at its writes.
Twice ==
    {[Program(<<Call(1, 2, <<Field>>, "plain", "plain")>>, <<Sink(2, "inline", boundary, column, Field)>>, {}, 1)
        EXCEPT !.parameters = @ \cup {[method |-> 2, index |-> 1, literal |-> FALSE]}] :
        boundary \in BOOLEAN, column \in {"column", "none"}}

WithProgram(programs) == {[Least EXCEPT !.program = p] : p \in programs}
WithWiring(wirings) == {[Least EXCEPT !.wiring = w] : w \in wirings}

\* --- events: two applications over three modules, two classes
Http(id, root) == [id |-> id, kind |-> "http", root |-> root, transport |-> "none"]
Listener(name, timing) == [channel |-> "event", class |-> "C", name |-> name, timing |-> timing]
Emission(name, method) ==
    [channel |-> "event", class |-> "D", call |-> 1, receiver |-> "resolved", name |-> name, method |-> method]
EventWiring(provides, emitters, listeners, emission) ==
    [NoWiring EXCEPT !.imports = {<<1, 3>>}, !.provides = provides, !.emitters = emitters,
                     !.applications = {Http(1, 1), Http(2, 2)}, !.listeners = listeners, !.sites = {emission}]
Provided == {<<"C", 1>>, <<"C", 2>>, <<"D", 3>>, <<"D", 2>>}
Emitters == {[module |-> m, configuration |-> c] : m \in {2, 3}, c \in {"exact", "wildcard", "dynamic"}}
FewEmitters == {S \in SUBSET Emitters : Cardinality(S) <= 2}
Names == {<<"a">>, <<"a", "b">>, <<"a", "*">>, <<"**">>, <<"**", "b">>, <<"a", "a*">>, Dynamic}
Contexts ==
    {EventWiring(provides, emitters, {Listener(name, "synchronous")}, Emission(<<"a", "b">>, "emit")) :
        provides \in SUBSET Provided, emitters \in FewEmitters, name \in {<<"a", "b">>, <<"a", "*">>, <<"b">>}}
Patterns ==
    {EventWiring(Provided, {[module |-> m, configuration |-> c] : m \in {2, 3}}, {Listener(l, timing)}, Emission(e, method)) :
        c \in {"exact", "wildcard"}, l \in Names, e \in Names, timing \in {"synchronous", "unknown"},
        method \in {"emit", "emitAsync"}}
FanOuts ==
    {[EventWiring(Provided, {[module |-> m, configuration |-> "wildcard"] : m \in {2, 3}},
                  {Listener(l, "synchronous") : l \in ls}, Emission(<<"a", "b">>, "emit"))
        EXCEPT !.fanOut = n] :
        ls \in SUBSET {<<"a", "b">>, <<"a", "*">>, <<"**">>}, n \in 1..2}
Roots ==
    {[EventWiring({<<"C", 1>>, <<"D", 1>>}, {[module |-> 1, configuration |-> "exact"]},
                  {Listener(<<"a">>, "synchronous")}, [Emission(<<"a">>, "emit") EXCEPT !.receiver = r])
        EXCEPT !.applications = apps] :
        r \in {"resolved", "ambiguous"}, apps \in {{}, {Http(1, 0)}, {Http(1, 1), Http(2, 0)}, {Http(1, 2)}}}

\* --- messages: two microservices over two modules
Service(id, root, transport) == [id |-> id, kind |-> "microservice", root |-> root, transport |-> transport]
Handler(evidence, name, mode, transport, controller) ==
    [channel |-> "message", class |-> "C", evidence |-> evidence, name |-> name, mode |-> mode,
     transport |-> transport, controller |-> controller]
Sent(name, mode, token, activation) ==
    [channel |-> "message", class |-> "D", call |-> 1, receiver |-> "resolved", name |-> name, mode |-> mode,
     token |-> token, activation |-> activation]
Clients == {[module |-> 1, token |-> <<"t">>, transport |-> t] : t \in {"tcp", "redis", "none"}}
MessageWiring(apps, provides, clients, listeners, site) ==
    [NoWiring EXCEPT !.applications = apps, !.provides = provides, !.clients = clients,
                     !.listeners = listeners, !.sites = {site}]
Together == {<<"C", 1>>, <<"D", 1>>}
Services ==
    {MessageWiring(apps, provides, clients, {Handler(1, <<"a">>, mode, transport, TRUE)},
                   Sent(<<"a">>, "event", <<"t">>, "eager")) :
        apps \in {{}, {Service(1, 1, "tcp")}, {Service(1, 1, "none")}, {Service(1, 1, "tcp"), Service(2, 2, "redis")}},
        provides \in SUBSET {<<"C", 1>>, <<"C", 2>>, <<"D", 1>>, <<"D", 2>>}, clients \in SUBSET Clients,
        mode \in {"event"}, transport \in {"none", "redis"}}
Requests ==
    {[MessageWiring({Service(1, 1, "tcp")}, Together, {[module |-> 1, token |-> <<"t">>, transport |-> "tcp"]},
                    {Handler(i, names[i], mode, transports[i], controller) : i \in 1..2},
                    Sent(sent, "request_response", token, activation)) EXCEPT !.fanOut = n] :
        names \in [1..2 -> {<<"a">>, <<"b">>, Dynamic}], mode \in {"event", "request_response"},
        transports \in [1..2 -> {"none", "redis"}], controller \in BOOLEAN, sent \in {<<"a">>, Dynamic},
        token \in {<<"t">>, Dynamic}, activation \in {"proven_activated", "unknown"}, n \in 1..2}

\* --- jobs: the bodies of one processor
Processor(class, queue, body) == [channel |-> "job", class |-> class, queue |-> queue, body |-> body]
Added(queue, job) ==
    [channel |-> "job", class |-> "D", call |-> 1, receiver |-> "resolved", queue |-> queue, job |-> job]
Plain == [form |-> "none", prelude |-> FALSE, clauses |-> <<>>, rest |-> FALSE, finally |-> FALSE, mutated |-> FALSE]
Queues ==
    {[NoWiring EXCEPT !.provides = provides, !.fanOut = n,
                      !.listeners = {Processor("C", q, Plain), Processor("E", <<"q">>, Plain)},
                      !.sites = {Added(s, j)}] :
        provides \in SUBSET {<<"C", 1>>, <<"E", 1>>}, n \in 1..2, q \in {<<"q">>, <<"r">>, Dynamic},
        s \in {<<"q">>, <<"r">>, Dynamic}, j \in {<<"x">>, Dynamic}}
CaseClauses == [label : {"x", "y", "default"}, ends : {"empty", "break", "return", "none"}, early : {FALSE}]
    \cup {[label |-> "?", ends |-> "return", early |-> FALSE], [label |-> "x", ends |-> "return", early |-> TRUE]}
Switches == [form : {"switch"}, prelude : {TRUE}, clauses : UpTo(CaseClauses, 3), rest : {TRUE},
             finally : {TRUE}, mutated : {FALSE}]
IfClauses == [label : {"x", "y", "?"}, ends : {"return", "none"}, early : BOOLEAN]
IfChains == [form : {"ifs"}, prelude : BOOLEAN, clauses : UpTo(IfClauses, 2) \ {<<>>}, rest : BOOLEAN,
             finally : {FALSE}, mutated : BOOLEAN]
Others == [form : {"other"}, prelude : {TRUE}, clauses : {<<>>}, rest : {TRUE}, finally : {FALSE}, mutated : {FALSE}]
Processors(bodies) ==
    {[NoWiring EXCEPT !.provides = {<<"C", 1>>}, !.listeners = {Processor("C", <<"q">>, body)}] : body \in bodies}

\* --- raw SQL: up to three statements
Table(name) == [name |-> name, qualified |-> FALSE]
Statement(parent, name, kind, tables) ==
    [parent |-> parent, name |-> name, kind |-> kind, into |-> FALSE, target |-> Table("u"), odd |-> FALSE,
     tables |-> IF kind = "insert" THEN {} ELSE tables]    \* an INSERT has no FROM
Tables == {{}, {Table("t")}, {Table("u"), [name |-> "t", qualified |-> TRUE]}}
Trees ==
    {<<Statement(0, "none", k, a), Statement(1, n, j, b), Statement(p, m, "select", c)>> :
        k \in {"select", "insert"}, j \in {"select", "delete"}, n \in {"none", "t", "u"}, m \in {"none", "t"},
        p \in 0..2, a, b, c \in Tables}
OddTrees ==
    {<<Statement(0, "none", kind, {Table("t")}), [Statement(1, "none", "select", {Table("u")}) EXCEPT !.into = into, !.odd = odd]>> :
        kind \in {"select", "other"}, into, odd \in BOOLEAN}
Query(tree) == [method |-> "m", receiver |-> "resolved", source |-> "resolved", tooLong |-> FALSE,
                malformed |-> FALSE, version |-> TRUE, statements |-> tree]
Simple == Query(<<Statement(0, "none", "select", {Table("t")})>>)
Candidates1 ==
    {[Simple EXCEPT !.receiver = r] : r \in {"ignored", "ambiguous"}}
    \cup {[Simple EXCEPT !.source = "unsupported"], [Simple EXCEPT !.tooLong = TRUE], [Simple EXCEPT !.malformed = TRUE],
          [Simple EXCEPT !.version = FALSE], [Simple EXCEPT !.statements = <<>>],
          Query([i \in 1..4 |-> Statement(0, "none", "select", {Table("t"), Table("u")})])}
    \cup {Simple}
WithTree(trees) == {[Least EXCEPT !.candidates = <<Query(tree)>>, !.dialect = "postgresql-18"] : tree \in trees}
CandidateLists ==
    {[Least EXCEPT !.candidates = s, !.dialect = d, !.interrupted = TRUE] : s \in UpTo(Candidates1, 2), d \in {"postgresql-18", "none"}}

\* --- critical sections: a lock in method 1, wrappers 2 to 4
Using(method, invokes, resources) ==
    [at |-> method, method |-> method, nested |-> FALSE, inline |-> TRUE, listed |-> TRUE,
     resources |-> resources, invokes |-> invokes]
Hand(at, from, to, arguments) ==
    [at |-> at, method |-> from, nested |-> FALSE, candidates |-> to, optional |-> FALSE, spread |-> FALSE,
     arguments |-> arguments]
Locking(usings, calls) ==
    [NoLocking EXCEPT !.roles = 1..4, !.callable = (1..4) \X (1..2), !.usings = usings, !.calls = calls]
WithLocking(lockings) == {[Least EXCEPT !.locking = l] : l \in lockings}
OneLock == {Using(1, {1}, <<"a">>)}
Arguments == {<<1>>, <<Inline>>, <<Other>>, <<2, 1>>, <<1, Inline>>}
\* any three calls between four methods, without the variants of a call
Chains ==
    {Locking(OneLock, {Hand(5, f[1], {t[1]}, a[1]), Hand(6, f[2], {t[2]}, a[2]), Hand(7, f[3], {t[3]}, a[3])}) :
        f \in [1..3 -> 2..4], t \in [1..3 -> 1..3], a \in [1..3 -> {<<1>>, <<1, Inline>>}]}
Loops ==
    {Locking(OneLock \cup {Using(2, {1, 2}, <<"a">>)},
             {Hand(5, 2, {1}, <<1>>), Hand(6, 3, {2}, a), Hand(7, f, {t}, b), Hand(8, 4, {3}, c)}) :
        f \in 1..4, t \in 1..4, a, b, c \in Arguments}
\* one hop more than is allowed
Longest ==
    {[Locking(OneLock, {Hand(5, 2, {1}, a), Hand(6, 3, {2}, b), Hand(7, 4, {3}, <<1>>), Hand(8, 5, {4}, c)})
        EXCEPT !.roles = roles] :
        a, b, c \in Arguments, roles \in {1..5, {1, 2, 3, 5}}}
\* one wrapper, one caller, every variant of a call
Variants ==
    {[Locking(OneLock,
         {[Hand(5, 2, {1}, a) EXCEPT !.nested = n, !.optional = o, !.spread = s],
          [Hand(6, 3, to, b) EXCEPT !.optional = p, !.spread = s]}) EXCEPT !.roles = roles, !.callable = callable] :
        a, b \in Arguments, n, o, p, s \in BOOLEAN, to \in {{2}, {1, 2}, {1, 2, 4}}, roles \in {1..4, {1, 3}},
        callable \in {(1..4) \X (1..2), {<<1, 1>>, <<2, 2>>}}}
Resources == UpTo({"a", "b", "dynamic"}, 2) \cup {<<"a", "b", "c">>}
Usings ==
    {[Locking({[Using(1, {1}, r) EXCEPT !.inline = i, !.nested = n, !.listed = l], Using(2, {1}, <<"a">>)},
              {Hand(5, 3, {1}, a)}) EXCEPT !.roles = roles] :
        r \in Resources, i, n, l \in BOOLEAN, a \in Arguments, roles \in {1..4, {2, 3}}}

\* --- tables: one method over two injected repositories and a data source
To(form, names) == [form |-> form, names |-> names]
NoTarget == To("none", {})
Do(name, target) == [name |-> name, target |-> target]
Member(bound, injected, types, entities) ==
    [bound |-> bound, injected |-> injected, types |-> types, entities |-> entities]
Members == [users   |-> Member(TRUE, {"A"}, {"repository"}, {"A"}),
            either  |-> Member(TRUE, {"A", "B"}, {"repository"}, {"A", "B"}),
            swapped |-> Member(TRUE, {"A"}, {"repository"}, {"B"}),
            nowhere |-> Member(TRUE, {"C"}, {"repository"}, {"C"}),
            foreign |-> Member(TRUE, {}, {"repository"}, {}),
            lost    |-> Member(FALSE, {"A"}, {"repository"}, {"A"}),
            typed   |-> Member(TRUE, {"no"}, {"repository"}, {"A"}),
            outside |-> Member(TRUE, {"no"}, {"repository"}, {}),
            source  |-> Member(TRUE, {"no"}, {"data_source"}, {}),
            mixed   |-> Member(TRUE, {"no"}, {"data_source", "other"}, {})]
Root(name, target) == [form |-> "root", name |-> name, target |-> target, value |-> FALSE]
On(form, name) == [form |-> form, name |-> name, target |-> NoTarget, value |-> FALSE]
Says(on, calls, terminal) ==
    [into |-> "none", on |-> on, calls |-> calls, terminal |-> terminal, maybe |-> FALSE, nested |-> "no"]
Body(statements) ==
    [entities |-> [A |-> "a", B |-> "b", C |-> "none", D |-> "a"], members |-> Members, body |-> statements]
SomeTargets == {To("entity", {"A"}), To("entity", {"A", "B"}), To("entity", {"B", "C"}), To("entity", {"C"}),
                To("text", {"a"}), To("callback", {}), To("dynamic", {})}
Joins == {Do("innerJoin", t) : t \in SomeTargets \cup {To("relation", {"r"})}}
SomeCalls == Joins \cup {Do(n, t) : n \in {"from", "update"}, t \in SomeTargets}
    \cup {Do(n, NoTarget) : n \in {"where", "insert", "delete", "update", "cte"}}
\* only select builders join, and only they and deletions have a from
Legal(calls) == \A i, j \in DOMAIN calls : i < j =>
    /\ calls[j].name \in {"innerJoin", "cte", "insert", "update", "delete"} => calls[i].name \notin {"insert", "update", "delete"}
    /\ calls[j].name = "from" => calls[i].name \notin {"insert", "update"}
FewCalls == {Do("innerJoin", To("entity", {"B"})), Do("innerJoin", To("entity", {"A", "B"})), Do("delete", NoTarget),
             Do("from", To("dynamic", {})), Do("where", NoTarget)}
Fluents ==
    {Body(<<Says(Root(name, NoTarget), calls, terminal)>>) :
        name \in {"users", "source"}, terminal \in {"getMany", "execute"},
        calls \in {s \in UpTo(SomeCalls, 1) \cup (SomeCalls \X FewCalls) : Legal(s)}}
OddRoots ==
    {Body(<<[Says(Root(name, target), calls, terminal) EXCEPT !.nested = nested]>>) :
        name \in DOMAIN Members,
        target \in {NoTarget, To("entity", {"A", "B"}), To("entity", {"C"}), To("text", {"a"}), To("dynamic", {})},
        calls \in {<<>>, <<Do("innerJoin", To("entity", {"B"}))>>},
        terminal \in {"getMany", "getSql", "getOneOrFail", "none"}, nested \in {"no", "arrow"}}
Onto == {To("entity", {"B"}), To("text", {"a"}), To("dynamic", {})}
Begins ==
    {<<Do("insert", NoTarget), Do("into", t)>> : t \in Onto} \cup {<<Do("delete", NoTarget), Do("from", t)>> : t \in Onto}
    \cup {<<Do("where", NoTarget), Do(n, t)>> : n \in {"from", "addFrom"}, t \in Onto}
    \cup {<<Do("update", t), Do("where", NoTarget)>> : t \in Onto \cup {NoTarget, To("entity", {"D"})}}
    \cup {<<Do("insert", NoTarget)>>, <<Do("insert", NoTarget), Do("update", To("entity", {"D"}))>>}
ObjectCall(begin) ==
    CASE \E c \in ToSet(begin) : c.name = "update" -> "set"
      [] Head(begin).name = "insert" -> "values"
      [] OTHER -> "where"
BuilderWrites ==
    {Body(<<Says(Root(name, NoTarget), Append(begin, Do(ObjectCall(begin), NoTarget)), terminal)>>) :
        name \in {"users", "either", "source"}, begin \in Begins, terminal \in {"execute", "getMany"}}
Q == On("var", "q")
JoinB == Do("innerJoin", To("entity", {"B"}))
JoinAny == Do("innerJoin", To("entity", {"A", "B"}))
Where == Do("where", NoTarget)
UsesOfQ ==
    {Says(Q, <<c>>, "none") : c \in {JoinB, JoinAny, Do("insert", NoTarget), Do("update", To("entity", {"B"}))}}
    \cup {Says(Q, <<Where, JoinB>>, "none"), Says(Q, <<Do("delete", NoTarget), Do("from", To("entity", {"B"}))>>, "none"),
          Says(On("pass", "q"), <<>>, "none"), Says(On("assign", "q"), <<>>, "none"),
          [Says(Q, <<>>, "none") EXCEPT !.into = "r"], [Says(Q, <<Where>>, "none") EXCEPT !.into = "r"]}
    \cup {Says(Q, <<>>, t) : t \in {"getMany", "execute", "getSql", "getOneOrFail"}}
    \cup {Says(Q, <<JoinB>>, "getMany"), Says(Q, <<JoinAny>>, "getMany"), Says(Q, <<Do("values", NoTarget)>>, "execute")}
UsesOfR == {Says(On("var", "r"), <<JoinB>>, "none"), Says(On("var", "r"), <<>>, "getMany")}
Let(name) == [Says(Root(name, NoTarget), <<>>, "none") EXCEPT !.into = "q"]
Changes(statement) == \E c \in ToSet(statement.calls) : c.name \in {"insert", "update", "delete"}
LocalBuilders ==
    {b \in {Body(<<Let("users"), [first EXCEPT !.maybe = first.into = "none" /\ second.terminal = "none"], second, third>>) :
        first, second \in UsesOfQ,
        third \in {u \in UsesOfQ : u.terminal # "none"} \cup {Says(On("pass", "q"), <<>>, "none")}} :
        Cardinality({i \in 1..4 : Changes(b.body[i])}) <= 1}
Renamed ==
    {Body(<<Let("users"), alias, second, third, last>>) :
        alias \in {u \in UsesOfQ : u.into = "r"}, second \in UsesOfQ \ {u \in UsesOfQ : u.into = "r"},
        third \in UsesOfR, last \in UsesOfR \cup {Says(Q, <<>>, "getMany")}}
    \cup {Body(<<Let("users"), [Says(Q, <<Do("delete", NoTarget)>>, "none") EXCEPT !.into = "r"],
                 Says(On("var", "r"), <<Do("from", To("entity", {"B"}))>>, "none"), Says(On("var", v), <<>>, "execute")>>) :
            v \in {"q", "r"}}
RepositoryCalls ==
    {Body(<<[Says([On("op", name) EXCEPT !.value = value], <<>>, op) EXCEPT !.nested = nested],
            Says([On("op", "either") EXCEPT !.value = TRUE], <<>>, other)>>) :
        name \in {"users", "either", "nowhere", "foreign", "lost", "typed"}, value \in BOOLEAN,
        op \in {"find", "save", "insert", "update", "upsert"}, other \in {"find", "insert", "upsert"},
        nested \in {"no", "function"}}
WithBodies(bodies) == {[Least EXCEPT !.persistence = b] : b \in bodies}

\* --- modules: M1 imports M2; a guard G and a provider P
Element(form, name) == [form |-> form, name |-> name, token |-> "none", strategy |-> "none"]
ProviderObject(token, strategy, name) == [form |-> "object", name |-> name, token |-> token, strategy |-> strategy]
AsClass(name) == Element("class", name)
GuardByClass == ProviderObject("app_guard", "class", "G")
Part(elements) ==
    [spread |-> FALSE, static |-> TRUE, mutated |-> "no", far |-> FALSE, elements |-> elements, hidden |-> {}]
InPlace(elements) == [named |-> FALSE, parts |-> IF elements = {} THEN <<>> ELSE <<Part(elements)>>]
ModuleOf(imports, providers) ==
    [literal |-> TRUE, odd |-> FALSE, imports |-> InPlace(imports), providers |-> InPlace(providers),
     exports |-> InPlace({}), controllers |-> InPlace({})]
NestOf(first, second, bootstraps) ==
    [classes |-> {"M1", "M2", "G", "P"}, modules |-> [M1 |-> first, M2 |-> second], bootstraps |-> bootstraps]
ProviderElements ==
    {AsClass("G"), AsClass("P"), AsClass("X"), GuardByClass, ProviderObject("app_guard", "class", "X"),
     ProviderObject("app_guard", "existing", "G"), ProviderObject("app_guard", "existing", "P"),
     ProviderObject("app_guard", "other", "G"), ProviderObject("aliased", "class", "G"),
     ProviderObject("twice", "class", "G"), ProviderObject("local", "class", "P"), ProviderObject("local", "other", "P"),
     ProviderObject("none", "class", "P"), Element("other", "X"),
     [ProviderObject("app_guard", "class", "G") EXCEPT !.form = "odd"]}
ModuleProviders ==
    {NestOf(ModuleOf({AsClass("M2")}, {a, b}), ModuleOf({}, {c}), {}) :
        a, b \in ProviderElements, c \in {AsClass("P"), GuardByClass, ProviderObject("app_guard", "existing", "P")}}
ImportElements == {AsClass("M2"), AsClass("P"), AsClass("X"), Element("forward", "M2"), Element("emitter", "X"), Element("other", "X")}
SomeParts ==
    {[Part(elements) EXCEPT !.spread = spread, !.static = static, !.mutated = mutated, !.far = far,
                            !.hidden = IF mutated = "no" THEN {} ELSE hidden] :
        spread, static, far \in BOOLEAN, mutated \in {"no", "seen", "alias", "elsewhere"},
        elements \in {{AsClass("P")}}, hidden \in {{GuardByClass, AsClass("G")}}}
Heads == {p \in SomeParts : ~p.spread}
Written == {p \in Heads : p.static /\ p.mutated = "no" /\ ~p.far}
ArrayParts(named) ==
    LET heads == IF named THEN Heads ELSE Written
    IN  UpTo(heads, 1) \cup (heads \X SomeParts)
ProviderArrays ==
    {NestOf([ModuleOf({AsClass("M2")}, {}) EXCEPT !.providers = [named |-> named, parts |-> parts]],
            ModuleOf({}, {}), {}) :
        <<named, parts>> \in UNION {{b} \X ArrayParts(b) : b \in BOOLEAN}}
ChangedImports ==
    {NestOf([ModuleOf({}, {GuardByClass}) EXCEPT !.imports = [named |-> TRUE, parts |-> <<[part EXCEPT !.elements = {}, !.hidden = {AsClass("M2")}]>>]],
            ModuleOf({}, {}), {}) : part \in {p \in Heads : p.mutated # "no"}}
ModuleArrays ==
    ChangedImports \cup
    {NestOf([ModuleOf({}, {GuardByClass}) EXCEPT !.imports = InPlace({a, b}), !.odd = odd, !.literal = literal,
                                                 !.exports = InPlace({c}), !.controllers = InPlace({d})],
            ModuleOf({}, {}), {}) :
        a, b \in ImportElements, c \in ImportElements, d \in {AsClass("P"), AsClass("X")}, odd, literal \in BOOLEAN}
GuardCalls == [where : {"plain", "statement", "operator"}, guards : {{"G"}, {"G", "X"}, {}}]
Applications ==
    {NestOf(ModuleOf({AsClass("M2")}, providers), ModuleOf({}, {}),
            {[root |-> root, bound |-> bound, calls |-> calls, escapes |-> escapes,
              hidden |-> IF escapes THEN {"G"} ELSE {}], second}) :
        providers \in {{}, {GuardByClass}}, root \in {"M1", "X"}, bound, escapes \in BOOLEAN,
        calls \in {S \in SUBSET GuardCalls : Cardinality(S) <= 2},
        second \in {[root |-> "M2", bound |-> b, calls |-> {[where |-> "plain", guards |-> {"P"}]}, escapes |-> FALSE, hidden |-> {}] :
                      b \in BOOLEAN}}
WithNest(nests) == {[Least EXCEPT !.nest = n] : n \in nests}

\* --- authorization: an endpoint of the class P, guards G and H, the key "roles"
Guard(form, name) == [form |-> form, name |-> name]
UseGuards(call, guards) == [form |-> "guards", call |-> call, guards |-> guards]
Scalar(kind) == [kind |-> kind, items |-> <<>>]
Spread == Scalar("spread")
ArrayOf(values) == [kind |-> "array", items |-> values]
SetRoles(static, key, value) == [form |-> "metadata", static |-> static, key |-> key, value |-> value]
RolesOf(value) == SetRoles(TRUE, "roles", value)
Decorator(name, call, arguments) == [form |-> "wrapper", name |-> name, call |-> call, arguments |-> arguments]
GuardsPart(inPlace, guards) == [kind |-> "guards", inPlace |-> inPlace, guards |-> guards]
MetadataPart(inPlace, static, key, value, parameter, rest) ==
    [kind |-> "metadata", inPlace |-> inPlace, static |-> static, key |-> key, value |-> value, parameter |-> parameter, rest |-> rest]
PlainPart(key) == MetadataPart(TRUE, TRUE, key, Scalar("string"), 0, FALSE)
WrapperOf(form, parts) == [form |-> form, parts |-> parts, replaced |-> FALSE]
Endpoint(controller, method) == [controller |-> "P", decorators |-> [controller |-> controller, method |-> method]]
ControlsOf(endpoint, wrapper, symbols, relationships) ==
    [endpoints |-> [x |-> endpoint], wrappers |-> [w |-> wrapper], keys |-> {"roles"}, symbols |-> symbols,
     relationships |-> relationships]
WithControls(settings) ==
    {[Least EXCEPT !.controls = c, !.nest = [NoNest EXCEPT !.classes = {"G", "H", "P"}]] : c \in settings}

GuardSets == {{}, {Guard("class", "G")}, {Guard("other", "G")}, {Guard("class", "X")}, {Guard("class", "G"), Guard("other", "H")}}
Secured == WrapperOf("expression", <<PlainPart("secret"), GuardsPart(TRUE, {Guard("class", "H")})>>)
SomeDecorators ==
    {UseGuards(call, guards) : call \in BOOLEAN, guards \in GuardSets}
    \cup {SetRoles(static, key, v) : static \in BOOLEAN, key \in {"roles", "secret"}, v \in {Scalar("string"), Scalar("dynamic")}}
    \cup {Decorator("w", TRUE, <<>>)}
Decorations ==
    {ControlsOf(Endpoint({a}, {b, c}), Secured, <<>>, related) :
        a \in {UseGuards(TRUE, {Guard("class", "G")}), UseGuards(FALSE, {}), RolesOf(Scalar("null")), Decorator("w", TRUE, <<>>)},
        b, c \in SomeDecorators, related \in {{}, {<<"roles", "G">>, <<"secret", "H">>}}}
SomeValues ==
    {Scalar(k) : k \in {"string", "number", "boolean", "null", "dynamic"}}
    \cup {ArrayOf(values) : values \in UpTo({Scalar("string"), Scalar("number"), Spread, Scalar("dynamic")}, 2)}
    \cup {[kind |-> "object", items |-> keys] : keys \in UpTo({"k", "computed"}, 2)}
ParameterParts == {MetadataPart(TRUE, TRUE, key, Scalar("dynamic"), parameter, rest) : key \in {"roles", "secret"}, parameter \in 1..2, rest \in BOOLEAN}
ShapesKept ==
    {ControlsOf(Endpoint({}, {RolesOf(v)}), Secured, <<>>, {}) : v \in SomeValues}
    \cup {ControlsOf(Endpoint({}, {Decorator("w", call, arguments)}), WrapperOf("expression", <<part>>), symbols, {}) :
            call \in BOOLEAN, symbols \in {<<>>, <<[name |-> "w", key |-> "tenant"]>>},
            part \in ParameterParts \cup {MetadataPart(TRUE, TRUE, "roles", v, 0, FALSE) : v \in SomeValues},
            arguments \in UpTo({Scalar("string"), ArrayOf(<<Spread>>), Spread, Scalar("dynamic")}, 2)}
SomeWrapperParts ==
    {GuardsPart(inPlace, guards) : inPlace \in BOOLEAN, guards \in GuardSets}
    \cup {[PlainPart(key) EXCEPT !.inPlace = inPlace, !.static = static] : inPlace, static \in BOOLEAN, key \in {"roles", "secret"}}
WrappedIn(form, replaced, parts, symbols, others) ==
    ControlsOf(Endpoint({}, {Decorator("w", form # "constant", <<>>)} \cup others), [WrapperOf(form, parts) EXCEPT !.replaced = replaced],
               symbols, {<<"roles", "G">>})
WhatConfigured == {<<>>, <<[name |-> "w", key |-> "tenant"]>>}
BesideG == {{}, {UseGuards(TRUE, {Guard("class", "G")})}}
OnePart == UpTo(SomeWrapperParts, 1) \cup {<<GuardsPart(TRUE, {Guard("class", "G")}), PlainPart("roles")>>}
Wrapped ==
    {WrappedIn("expression", FALSE, parts, symbols, others) :
        parts \in UpTo(SomeWrapperParts, 2), symbols \in WhatConfigured, others \in BesideG}
    \cup {WrappedIn(form, replaced, parts, symbols, others) :
        form \in {"expression", "statements", "constant", "overloaded", "outside"}, replaced \in BOOLEAN,
        parts \in OnePart, symbols \in WhatConfigured, others \in BesideG}

\* --- applications: P in M1 or M2, a guard registered somewhere
ControllersOf(module, controllers) == [module EXCEPT !.controllers = InPlace(controllers)]
Boot(root, bound, guards, hidden) ==
    [root |-> root, bound |-> bound, calls |-> {[where |-> "plain", guards |-> guards]}, escapes |-> hidden # {}, hidden |-> hidden]
GuardedApplications ==
    {[Least EXCEPT
        !.controls = ControlsOf(Endpoint({}, {RolesOf(Scalar("string"))}), Secured, <<>>, {<<"roles", "G">>}),
        !.nest = NestOf(ControllersOf(ModuleOf(imports, first), c1), ControllersOf(ModuleOf(back, second), c2), boots)] :
        imports \in {{}, {AsClass("M2")}, {Element("other", "M2")}}, back \in {{}, {Element("forward", "M1")}},
        first \in {{}, {GuardByClass}}, second \in {{}, {GuardByClass}, {ProviderObject("aliased", "class", "G")}},
        c1, c2 \in {{}, {AsClass("P")}},
        boots \in {B \in SUBSET {Boot("M1", TRUE, {}, {}), Boot("M2", TRUE, {}, {}), Boot("M1", TRUE, {"G"}, {}), Boot("M1", FALSE, {}, {}),
                                Boot("M2", FALSE, {"G"}, {}), Boot("M2", TRUE, {}, {"G"})} : Cardinality(B) <= 2}}

\* --- calls: a class C with a parameter p, classes A, S and B to inject
ClassOf(extends, declares) ==
    [role |-> "provider", abstract |-> FALSE, extends |-> extends, declares |-> declares, members |-> <<>>,
     invokes |-> [m \in DOMAIN declares |-> "no"], constructor |-> [parameters |-> <<>>, assignments |-> <<>>]]
Declares(name, n) == [m \in (IF n = 0 THEN {} ELSE {name}) |-> n]
SiteOf(member, name) ==
    [at |-> "site", class |-> "C", method |-> "entry", member |-> member, name |-> name, nested |-> "no", callback |-> NoCallback]
Typed(kind, property, classes) == [kind |-> kind, property |-> property, classes |-> classes]
Owner(parameter, assignments, declared) ==
    [ClassOf("none", [entry |-> 1]) EXCEPT
        !.members = [m |-> declared, n |-> "A"],
        !.constructor = [parameters |-> [p |-> parameter], assignments |-> assignments]]
Assign(member, parameter, direct) == [member |-> member, parameter |-> parameter, direct |-> direct]
InjectedParameters ==
    {Typed("class", property, classes) : property \in {"none", "m"}, classes \in {{}, {"A"}, {"A", "B"}}}
    \cup {Typed(kind, property, {"A"}) : kind \in {"token", "repository", "external"}, property \in {"none", "m"}}
ConstructorBodies == UpTo({Assign("m", "p", TRUE), Assign("m", "p", FALSE), Assign("m", "other", TRUE), Assign("n", "p", TRUE)}, 2)
\* a second parameter makes the class one that has something injected
Beside == [q |-> Typed("class", "q", {"B"})]
MemberCalls ==
    {[classes |-> [C |-> [Owner(p, body, declared) EXCEPT !.role = who[1], !.constructor.parameters = @ @@ who[2]], A |-> ClassOf("S", Declares("run", n)),
                   S |-> ClassOf("none", Declares("run", 1)), B |-> ClassOf("none", Declares("run", 1))],
      sites |-> {SiteOf("m", "run")}] :
        p \in InjectedParameters, body \in ConstructorBodies, declared \in {"A", "S", "none"}, n \in 0..1,
        who \in {<<"controller", <<>>>>, <<"controller", Beside>>, <<"none", Beside>>}}
Bound1 == Typed("class", "m", {"A"})
WithMethod(class, declares, invokes) == [class EXCEPT !.declares = declares, !.invokes = invokes]
OwnMethods(n) == [m \in {"entry"} \cup DOMAIN Declares("help", n) |-> IF m = "entry" THEN 1 ELSE n]
OwnCalls ==
    {[classes |-> [C |-> [WithMethod(Owner(p, <<>>, "A"), OwnMethods(n), [m \in {"entry", "help"} |-> invokes])
                            EXCEPT !.extends = "S"],
                   D |-> ClassOf("C", Declares("help", d)),
                   S |-> WithMethod(ClassOf("none", Declares("help", 1)), Declares("help", 1), [help |-> invokes]),
                   A |-> [ClassOf("none", Declares("run", r)) EXCEPT !.abstract = abstract], B |-> ClassOf("A", Declares("run", 1))],
      sites |-> {[SiteOf("this", "help") EXCEPT !.nested = nested, !.callback = callback]}] :
        p \in {Bound1, Typed("external", "m", {})}, n \in 0..2, d \in 0..1, r \in 0..2,
        invokes \in {"calls", "nested", "no"}, abstract \in BOOLEAN, nested \in {"no", "function", "section"},
        callback \in {NoCallback, [member |-> "m", name |-> "run"], [member |-> "n", name |-> "run"]}}
WithClasses(codebases) == {[Least EXCEPT !.codebase = c] : c \in codebases}

\* --- HTTP requests of one method
Text(words) == [is |-> "text", words |-> words]
Value(is, name) == [is |-> is, name |-> name]
Const(e) == [is |-> "const", of |-> e]
Setting(e) == [is |-> "config", of |-> e]
Sum(left, right) == [is |-> "plus", left |-> left, right |-> right]
Template(head, spans) == [is |-> "template", head |-> head, spans |-> spans]
Span(e, words) == [of |-> e, words |-> words]
Hole == Value("hole", "$x")
Env == Value("env", "{env:A}")
Users == Text(<<"users">>)
Absolute == Text(<<"http://a", "users">>)
Atoms == {Absolute, Users, Text(<<"users", QueryStart>>), Text(<<>>), Hole, Value("call", "$call"), Env,
          Setting(Text(<<"{config:A}">>)), Setting(Const(Text(<<"{config:A}">>))), Setting(Hole), Value("member", "base")}
Composites ==
    {Const(a) : a \in Atoms \cup {Const(Users)}}
    \cup {Sum(a, b) : a \in Atoms, b \in {Users, Hole}}
    \cup {Template(head, <<Span(a, words)>>) : head \in {<<>>, <<"http://a">>}, a \in Atoms, words \in {<<>>, <<"users">>, <<QueryStart>>}}
Deeper ==
    {Const(Template(<<"http://a">>, <<Span(Const(Hole), <<"users">>)>>)), Const(Const(Const(Users))),
     Sum(Sum(Env, Users), Users), Sum(Sum(Absolute, Users), Users), Text(<<"http://a", "users", "users", "users">>),
     Template(<<>>, <<Span(Hole, <<"users">>), Span(Env, <<>>)>>),
     Template(<<"http://a">>, <<Span(Hole, <<>>), Span(Hole, <<>>), Span(Hole, <<>>)>>)}
UrlTexts == Atoms \cup Composites \cup Deeper
HttpRequest(via, receiver, callee, url) ==
    [via |-> via, receiver |-> receiver, callee |-> callee, verb |-> "POST", url |-> url, config |-> AbsentConfig,
     nested |-> "no", enclosing |-> <<>>]
Sending(calls) == [NoHttp EXCEPT !.calls = calls]
BaseMember(readonly, initial, assigned) == [base |-> [readonly |-> readonly, initial |-> initial, assigned |-> assigned]]
ConstantBase == BaseMember(TRUE, Text(<<"http://b">>), <<>>)
\* how a url is written, and how the member it may use is given its value
Urls ==
    {[Sending(<<HttpRequest(who[1], who[2], who[3], url)>>) EXCEPT !.members = ConstantBase] :
        who \in {<<"fetch", "global", "call">>, <<"axios", "import", "verb">>, <<"service", "member", "verb">>, <<"axiosRef", "member", "call">>},
        url \in UrlTexts}
AssignedBase == [of : {Text(<<"http://b">>), Value("member", "base")}, direct : BOOLEAN, compound : BOOLEAN]
MemberUrls ==
    {[Sending(<<HttpRequest("service", "member", "verb", Sum(Value("member", "base"), Users))>>) EXCEPT
        !.members = BaseMember(readonly, initial, assigned)] :
        readonly \in BOOLEAN, initial \in {NoExpr, Text(<<"http://a">>), Value("member", "base")}, assigned \in UpTo(AssignedBase, 2)}
\* what the client is, and how it is called
Configurations ==
    {AbsentConfig} \cup
    {[form |-> form, behaviour |-> odd = "behaviour", url |-> url, baseURL |-> base, method |-> method, params |-> odd] :
        form \in {"literal", "other"}, odd \in {"none", "odd", "behaviour"}, url \in {NoExpr, Users},
        base \in {NoExpr, Text(<<"http://b">>), Hole}, method \in {NoExpr, Text(<<"GET">>), Text(<<"POST">>), Hole}}
WithUrl(callee) == callee \in {"verb", "call", "computed", "other"}
\* a client is called with an url or a configuration; the service is no function
Callees(via, config) ==
    {"verb"} \cup (IF config.form = "absent" THEN {} ELSE {"request"})
    \cup (IF via = "service" THEN {} ELSE {"call"} \cup (IF config.form = "absent" THEN {} ELSE {"config"}))
HttpCallers ==
    (UNION {{Sending(<<[HttpRequest(who[1], who[2], callee, IF WithUrl(callee) THEN Users ELSE NoExpr) EXCEPT !.config = config]>>) :
        callee \in Callees(who[1], config)} :
        who \in {<<"axios", "import">>, <<"axios", "typed">>, <<"service", "member">>, <<"axiosRef", "member">>}, config \in Configurations})
    \cup {Sending(<<[HttpRequest("fetch", "global", "call", Users) EXCEPT !.config = [config EXCEPT !.baseURL = NoExpr, !.url = NoExpr]]>>) :
            config \in Configurations}
ClientBases == {NoExpr, Text(<<"http://b">>), Hole, Text(<<"http://b", QueryStart>>), Template(<<"http://b">>, <<Span(Hole, <<>>)>>)}
ClientUrls == {Users, Absolute, Hole, Template(<<>>, <<Span(Hole, <<"users">>)>>),
               Template(<<>>, <<Span(Const(Text(<<"http://a">>)), <<"users">>)>>)}
HttpClients ==
    {[Sending(<<HttpRequest("axios", "instance", callee, url)>>) EXCEPT
        !.instance = [constant |-> constant, behaviour |-> behaviour, base |-> base, method |-> method], !.changed = changed] :
        callee \in {"verb", "call", "computed"}, url \in ClientUrls, constant, behaviour, changed \in BOOLEAN,
        base \in ClientBases, method \in {"none", "POST"}}
    \cup {[Sending(<<HttpRequest("axios", receiver, callee, url), HttpRequest("fetch", other, "call", url)>>) EXCEPT !.changed = changed] :
            receiver \in {"import", "typed", "loose"}, callee \in {"verb", "call", "computed", "other"}, url \in ClientUrls,
            other \in {"global", "alias"}, changed \in BOOLEAN}
    \cup {Sending(<<[HttpRequest(via, "member", "verb", url) EXCEPT
                !.config = [AbsentConfig EXCEPT !.form = "literal", !.baseURL = base]]>>) :
            via \in {"service", "axiosRef"}, url \in ClientUrls \cup {Env}, base \in ClientBases}
ServiceBindings ==
    {[Sending(<<[HttpRequest(via, receiver, callee, Users) EXCEPT !.nested = nested]>>) EXCEPT
        !.service = [declared |-> declared, form |-> form, token |-> token, others |-> others, role |-> role]] :
        via \in {"service", "axiosRef"}, receiver \in {"member", "alias"}, callee \in {"verb", "computed", "other"}, nested \in {"no", "function"},
        declared \in {"service", "union"}, form \in {"parameter", "assigned", "inherited", "property"},
        token, role \in BOOLEAN, others \in {{}, {"constructor"}, {"method"}}}
AroundCalls == {"pipe", "subscribe", "first", "await", "call", "hold", "choice", "new"}
Surroundings == UpTo(AroundCalls, 2) \cup {n \o <<"data">> : n \in UpTo(AroundCalls, 1)}
Activations ==
    {[Sending(<<[HttpRequest("service", "member", "verb", Users) EXCEPT !.enclosing = enclosing \o returned, !.nested = nested]>>)
        EXCEPT !.route = route] :
        enclosing \in Surroundings, returned \in {<<>>, <<"return">>}, nested \in {"no", "section"}, route \in BOOLEAN}
\* every expression above, with what it is made of
WithOperands(expressions) == UNION {{e} \cup Operands(e) : e \in expressions}
MCUrlExpressions ==
    WithOperands(WithOperands(WithOperands(
        (UrlTexts \cup ClientUrls \cup ClientBases \cup {Text(<<w>>) : w \in Verbs \cup {"http://a"}}
         \cup {Value("hole", "$config"), Sum(Value("member", "base"), Users)}) \ {NoExpr})))
WithHttp(traffics) == {[Least EXCEPT !.traffic = t] : t \in traffics}

\* --- merging and the result state
Assertion(id, subject, status, sites) ==
    [id |-> id, subject |-> subject, object |-> "t", status |-> status, sites |-> sites]
Contributed ==
    {{}} \cup {{Assertion("A", 1, status, sites)} : status \in {"resolved", "unresolved"}, sites \in SUBSET {1, 10}}
    \cup {{Assertion("A", 1, "resolved", {10}), Assertion("B", 1, "ambiguous", {2})}}
Merges ==
    {[Least EXCEPT !.contributions = c, !.regions = {[method |-> 1, from |-> 1, to |-> 3]},
                   !.locking = [NoLocking EXCEPT !.roles = {1}, !.usings = {Using(1, {}, <<"a">>)}],
                   !.facts = f, !.severity = s, !.interrupted = TRUE] :
        c \in UpTo(Contributed, 2), f \in 0..1, s \in {"none", "warning", "error"}}
BothProxies ==
    {[Least EXCEPT !.wiring = [NoWiring EXCEPT !.sites =
        {[Emission(<<"a">>, "emit") EXCEPT !.receiver = r],
         [Sent(<<"a">>, "event", <<"t">>, "eager") EXCEPT !.receiver = q]}]] : r, q \in {"resolved", "ambiguous"}}

MCRepositories ==
    {WithProgram(CallGraphs), WithProgram(Forks), WithProgram(Expressions), WithProgram(Writes), WithProgram(Twice),
     WithWiring(Contexts), WithWiring(Patterns), WithWiring(FanOuts), WithWiring(Roots),
     WithWiring(Services), WithWiring(Requests),
     WithWiring(Queues), WithWiring(Processors(Switches)), WithWiring(Processors(IfChains)), WithWiring(Processors(Others)),
     WithTree(Trees), WithTree(OddTrees), CandidateLists,
     WithLocking(Chains), WithLocking(Loops), WithLocking(Longest), WithLocking(Variants), WithLocking(Usings),
     WithBodies(Fluents), WithBodies(OddRoots), WithBodies(BuilderWrites), WithBodies(LocalBuilders), WithBodies(Renamed),
     WithBodies(RepositoryCalls), WithNest(ModuleProviders), WithNest(ProviderArrays), WithNest(ModuleArrays), WithNest(Applications),
     WithControls(Decorations), WithControls(ShapesKept), WithControls(Wrapped), GuardedApplications,
     WithClasses(MemberCalls), WithClasses(OwnCalls),
     WithHttp(Urls), WithHttp(MemberUrls), WithHttp(HttpCallers), WithHttp(HttpClients), WithHttp(ServiceBindings), WithHttp(Activations), Merges, BothProxies}

=============================================================================
