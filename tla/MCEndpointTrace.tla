--------------------------- MODULE MCEndpointTrace ---------------------------
(***************************************************************************)
(* Small families of documents for EndpointTrace, HandlerTrace, Impact,    *)
(* Policy and GraphReport.                                                 *)
(***************************************************************************)
EXTENDS GraphReport

CONSTANT MaxFacts   \* how many loose facts a document has at most

Job(from, to, region, job) ==
    [from |-> from, channel |-> "queue", to |-> to, region |-> region, job |-> job,
     status |-> "resolved"]

Fact(from, channel, to, region) == [Job(from, to, region, "generate") EXCEPT !.channel = channel]

Ambiguous(f) == [f EXCEPT !.status = "ambiguous"]

\* Every method touches a table in its body.
BodyTables == [m \in 1..3 |-> Fact(m, "table", <<>>, "body")]

Roomy == [depth |-> 3, hops |-> 2, fanOut |-> 50, states |-> 1000]
Tight1 == [Roomy EXCEPT !.depth = 1]
Tight == [depth |-> 1, hops |-> 1, fanOut |-> 1, states |-> 3]

AllSynchronous == [m \in Methods |-> "sync"]

\* Calls and events among three methods, with roomy and with tight limits.
Walks ==
    [loose |-> {Fact(m, "call", <<n>>, "body") : m \in 1..3, n \in 1..3}
               \cup {Fact(m, "async", to, "body") : m \in 1..3, to \in {<<1>>, <<2>>, <<3, 2>>}}
               \cup {Fact(m, "sync", <<n>>, "body") : m \in 1..2, n \in 2..3},
     fixed |-> BodyTables, count |-> MaxFacts,
     configurations |-> {Roomy, Tight}, implementations |-> {<<1>>},
     candidates |-> {{}}, dispatches |-> {{}}, timings |-> {AllSynchronous}, diagnosed |-> {{}},
     resultStates |-> {"complete"}, matchings |-> {1}, roots |-> {"endpoint"}, asked |-> {"trace"}]

\* Critical sections and job-queue branches among two methods.
Regions ==
    [Walks EXCEPT
        !.loose = {Fact(1, "call", <<n>>, r) : n \in 1..2, r \in {"body", "section"}}
                  \cup {Fact(2, "call", <<n>>, "generate") : n \in 1..2}
                  \cup {Fact(2, "call", <<3>>, "body")}
                  \cup {Fact(1, c, <<2>>, r) : c \in {"async", "queue"}, r \in {"body", "section"}}
                  \cup {Fact(2, "async", <<1>>, r) : r \in {"body", "section", "generate"}}
                  \cup {Fact(m, "table", <<>>, "section") : m \in 1..2}
                  \cup {Fact(2, "table", <<>>, "generate")},
        !.configurations = {Roomy}, !.implementations = {<<1>>, <<2, 1>>},
        !.candidates = {{}, {1}}, !.dispatches = {{}, {2}}]

\* The ways a trace is refused, and diagnostics the document carries.
Others ==
    [Walks EXCEPT
        !.loose = {Fact(1, "call", <<2>>, "body")}, !.count = 1,
        !.configurations = {Roomy, [Roomy EXCEPT !.depth = 4]},
        !.diagnosed = {{}, {2}, {3}},
        !.resultStates = {"failed", "canceled", "partial"}, !.matchings = 0..2]

\* The same walks from a handler of each channel.
Handlers ==
    [Regions EXCEPT !.count = 2, !.configurations = {Roomy, Tight}, !.implementations = {<<1>>},
                    !.roots = {"sync", "async", "queue"}, !.matchings = {0, 1},
                    !.resultStates = {"partial", "failed"}]

\* Listeners of every timing, reached from an endpoint and from handlers.
Untimed ==
    [Walks EXCEPT
        !.loose = {Fact(1, c, <<3, 2>>, r) : c \in {"sync", "async"}, r \in {"body", "section"}}
                  \cup {Fact(2, "sync", <<3>>, "body"), Fact(3, "call", <<2>>, "body"),
                        Fact(1, "call", <<3>>, "body"), Fact(1, "queue", <<2>>, "body")},
        !.count = 2, !.configurations = {Roomy}, !.diagnosed = {{}, {2}},
        !.timings = {[AllSynchronous EXCEPT ![2] = t, ![3] = u] : t \in Timings, u \in Timings}]
UntimedHandlers == [Untimed EXCEPT !.implementations = {<<2>>, <<1>>}, !.roots = {"unknown"}]

\* What is compared: calls, events and jobs among four methods, the table
\* accesses of which are not fixed.
Histories ==
    [Walks EXCEPT
        !.loose = {Fact(2, "call", <<3>>, "body"),
                   Ambiguous(Fact(1, "call", <<3>>, "body")), Fact(3, "call", <<4>>, "body"),
                   Fact(2, "async", <<3>>, "body"), Fact(1, "sync", <<3, 2>>, "body"),
                   Fact(3, "table", <<>>, "body"), Fact(2, "table", <<>>, "body")},
        !.fixed = <<Fact(1, "call", <<2>>, "body")>>, !.count = 3,
        !.configurations = {Tight1, Roomy}, !.diagnosed = {{}, {3}},
        !.candidates = {{}, {3}}, !.asked = {"impact"}]

\* What is compared behind the branches of a processor.
Branches ==
    [Histories EXCEPT
        !.loose = {Job(1, <<2>>, "body", j) : j \in Jobs} \cup {Job(2, <<3>>, j, "generate") : j \in Jobs}
                  \cup {Fact(2, "call", <<3>>, j) : j \in Jobs}
                  \cup {Fact(m, "table", <<>>, j) : m \in 2..3, j \in Jobs}
                  \cup {Fact(1, "call", <<2>>, "body"), Fact(2, "call", <<3>>, "body"),
                        Fact(3, "call", <<4>>, "cleanup")},
        !.fixed = <<>>, !.count = 3, !.configurations = {Roomy}, !.diagnosed = {{}}, !.candidates = {{}},
        !.dispatches = {{2}, {3}, {2, 3}}]

\* What policies judge: writes in, behind and beside a call of either status.
Judged ==
    [Walks EXCEPT
        !.loose = (UNION {{f, Ambiguous(f)} : f \in {Fact(1, "call", <<2>>, "body"),
                                                     Fact(1, "table", <<>>, "section")}
                                                    \cup {Fact(m, "table", <<>>, "body") : m \in 1..3}})
                  \cup {Fact(1, "sync", <<3>>, "body")},
        !.fixed = <<Fact(2, "call", <<3>>, "body")>>, !.count = 2, !.configurations = {Roomy, Tight1},
        !.asked = {"policy"}]
JudgedOtherwise ==
    [Judged EXCEPT !.count = 1, !.configurations = {Roomy, [Roomy EXCEPT !.depth = 4]},
                   !.matchings = 0..2, !.resultStates = {"complete", "failed"}]

\* A program of which the rules have nothing to say, and what may be added.
Quiet ==
    [controllers |-> 1, repository |-> {}, unsupportedOperation |-> FALSE, repositoryDiagnosed |-> FALSE,
     sameKey |-> TRUE, guards |-> {}, globalGuardState |-> "none_proven", firstSchema |-> FALSE,
     writeMethod |-> TRUE, unresolved |-> {}, gaps |-> {}, authorizationKnown |-> TRUE, requirements |-> {},
     baseline |-> [supplied |-> FALSE, new |-> {}, ambiguous |-> FALSE], minimumSeverity |-> "warning",
     interactions |-> {}, interactionsComplete |-> TRUE,
     rules |-> {"guard", "complete_trace"}, severity |-> "error", onUnknown |-> "error"]

Guard(scope, status) == [scope |-> scope, status |-> status]
GuardSets == {{}, {Guard("method", "resolved")}, {Guard("method", "ambiguous"), Guard("controller", "unresolved")},
              {Guard("application_global", "unresolved")}}
Guarded ==
    {[Quiet EXCEPT !.guards = guards, !.globalGuardState = state, !.onUnknown = onUnknown] :
        guards \in GuardSets, state \in {"none_proven", "unknown"}, onUnknown \in {"warn", "error"}}
    \cup {[Quiet EXCEPT !.firstSchema = TRUE, !.sameKey = FALSE]}
Uncertain ==
    {[Quiet EXCEPT !.unresolved = unresolved, !.gaps = gaps, !.writeMethod = write, !.rules = rules] :
        unresolved \in {{}, {2}, {3}}, gaps \in {{}, {3}}, write \in BOOLEAN,
        rules \in {{"guard", "complete_trace"}, {"guard"}}}

Event(target, activation, matches) ==
    [kind |-> "event", target |-> target, activation |-> activation, matches |-> matches]
Request(target, activation) == [Event(target, activation, {}) EXCEPT !.kind = "request"]
Interacting ==
    {[Quiet EXCEPT !.interactions = is, !.interactionsComplete = complete, !.rules = {rule}] :
        is \in {{}} \cup {{Event(t, "eager", m)} : t \in {"static", "dynamic"}, m \in SUBSET {"resolved", "ambiguous"}}
              \cup {{Event("static", "eager", {"ambiguous"}), Request(t, a)} :
                       t \in {"static", "dynamic", "unknown"}, a \in {"eager", "proven_activated", "constructed_cold", "unknown"}},
        complete \in BOOLEAN, rule \in {"dynamic_target", "activation", "local_handler"}}
Baselines == [supplied : BOOLEAN, new : {{}, {"info"}, {"warning"}}, ambiguous : BOOLEAN]
Declared ==
    {[Quiet EXCEPT !.controllers = n, !.repository = repository, !.unsupportedOperation = operation,
                   !.repositoryDiagnosed = diagnosed, !.rules = {"repository"}, !.severity = severity] :
        n \in 0..2, repository \in SUBSET {"resolved", "ambiguous", "unresolved"}, operation \in BOOLEAN,
        diagnosed \in BOOLEAN, severity \in {"warn", "error"}}
    \cup {[Quiet EXCEPT !.baseline = b, !.minimumSeverity = s, !.rules = {"diagnostics"}] :
             b \in Baselines, s \in {"info", "warning", "error"}}
    \cup {[Quiet EXCEPT !.authorizationKnown = known, !.requirements = requirements, !.rules = {"authorization"}] :
             known \in BOOLEAN, requirements \in SUBSET {"proven_enforced", "configured_relationship", "enforcement_unknown"}}

MCPolicyFacts == Guarded \cup Uncertain \cup Interacting \cup Declared

\* What is drawn: sections, branches, handlers and doubts behind calls.
Shown ==
    [Walks EXCEPT
        !.loose = {Fact(1, "call", <<2>>, r) : r \in {"body", "section"}}
                  \cup {Ambiguous(Fact(1, "call", <<2>>, "body")), Ambiguous(Fact(2, "table", <<>>, "body"))}
                  \cup {Fact(2, "call", <<3>>, r) : r \in {"body", "section", "generate"}}
                  \cup {Fact(m, "table", <<>>, r) : m \in 2..3, r \in {"section", "generate"}}
                  \cup {Fact(1, c, <<2>>, "body") : c \in {"sync", "queue"}}
                  \cup {Fact(2, "async", <<3, 2>>, "body"), Fact(2, "queue", <<3>>, "section")},
        !.fixed = <<Fact(3, "table", <<>>, "body")>>, !.count = 2, !.configurations = {Roomy, Tight},
        !.dispatches = {{}, {2}}, !.candidates = {{}, {3}}, !.asked = {"graph"}]
ShownUntimed ==
    [Shown EXCEPT !.loose = {Fact(1, "sync", <<2>>, "body"), Fact(1, "call", <<2>>, "body"),
                             Fact(2, "call", <<3>>, "body"), Fact(1, "sync", <<3, 2>>, "section")},
                  !.configurations = {Roomy}, !.dispatches = {{}},
                  !.timings = {[AllSynchronous EXCEPT ![2] = "unknown"]}]
ShownFromHandlers == [Shown EXCEPT !.implementations = {<<2>>}, !.roots = {"async", "queue"}]
ShownOtherwise ==
    [Shown EXCEPT !.count = 1, !.configurations = {Roomy, [Roomy EXCEPT !.depth = 4]},
                  !.implementations = {<<>>, <<1>>, <<1, 2>>}, !.dispatches = {{}}, !.candidates = {{}},
                  !.matchings = {1, 2}, !.resultStates = {"complete", "failed"}]

\* How it is drawn.
Plain == [guards |-> {}, influences |-> <<>>, maxNodes |-> 120, maxEdges |-> 180, backwards |-> FALSE,
          policyOf |-> "none", impactOf |-> "none"]
Flow(m, parameter, origin, column) ==
    [method |-> m, parameter |-> parameter, origin |-> origin, column |-> column]
Flows == {Flow(1, 1, 1, 1), Flow(1, 2, 2, 1), Flow(2, 3, 3, 1)}
MCGraphInputs ==
    {[Plain EXCEPT !.guards = {"controller", "global"}, !.influences = i] :
        i \in {<<>>, <<Flow(1, 1, 1, 1)>>, <<Flow(1, 1, 1, 1), Flow(1, 2, 2, 1)>>,
               <<Flow(1, 1, 1, 1), Flow(1, 1, 2, 2)>>, <<Flow(2, 3, 3, 1), Flow(1, 1, 1, 1)>>}}
    \cup {[Plain EXCEPT !.maxNodes = 10, !.maxEdges = e, !.backwards = b, !.guards = {"controller"},
                        !.influences = <<Flow(1, 1, 1, 1)>>] : e \in {10, 180}, b \in BOOLEAN}
    \cup {[Plain EXCEPT !.policyOf = p] : p \in {"this", "other"}}

MCFamilies == {Walks, Regions, Others, Handlers, Untimed, UntimedHandlers, Histories, Branches, Judged, JudgedOtherwise,
               Shown, ShownUntimed, ShownFromHandlers, ShownOtherwise}


\* Calls and asynchronous events alone, without limits that matter.
Events ==
    [Walks EXCEPT
        !.loose = {Fact(m, c, <<n>>, "body") : m \in 1..3, n \in 1..3, c \in {"call", "async"}},
        !.configurations = {Roomy}]

EventFamilies == {Events}

GraphFamilies == {Shown, ShownFromHandlers, ShownOtherwise}

=============================================================================
