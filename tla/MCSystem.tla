------------------------------ MODULE MCSystem ------------------------------
(***************************************************************************)
(* Small systems for SystemReport: up to three services.                   *)
(***************************************************************************)
EXTENDS SystemReport

Job(form, queue, job) == [kind |-> "job_queue", form |-> form, address |-> queue, job |-> job]
Message(mode, pattern) ==
    [kind |-> "microservice_message", form |-> mode, address |-> pattern, job |-> None]

X == Job("bullmq", "q", "x")
Worker == Job("bullmq", "q", None)
Request == Message("request_response", "m")
Event == Message("event", "m")

NoTrace == [built |-> FALSE, ambiguous |-> FALSE, diagnosed |-> FALSE, effects |-> {}]
CleanTrace == [NoTrace EXCEPT !.built = TRUE, !.effects = {"t"}]
CleanRoot ==
    [endpoint |-> 1, shared |-> FALSE, initiation |-> {"resolved"}, others |-> {"resolved"},
     diagnosed |-> FALSE]

Source(role, contract, transport, state, roots, trace) ==
    [role |-> role, contract |-> contract, transport |-> transport, state |-> state,
     roots |-> roots, trace |-> trace]

Sends(contract) == Source("producer", contract, None, "eager", {CleanRoot}, NoTrace)
Takes(contract) == Source("consumer", contract, None, "proven_registered", {}, CleanTrace)

Service(name, records) ==
    [name |-> name, schema |-> "interactions", result |-> "completed", interactions |-> "complete",
     kinds |-> Correlated \cup {"in_process_event"}, records |-> records]

Realm(alias, technology, transport, queue) ==
    [alias |-> alias, technology |-> technology, transport |-> transport, queue |-> queue]

BullRealm(alias) == Realm(alias, "bullmq", "bullmq", "q")
RmqRealm(alias) == Realm(alias, "nest_microservices", "rmq", None)

Bind(service, role, contract, alias) ==
    [service |-> service, role |-> role, contract |-> contract, record |-> AnyRecord,
     alias |-> alias]

NoTopology == [system |-> None, realms |-> <<>>, bindings |-> <<>>]

Declaring(realms, bindings) == [system |-> "sys", realms |-> realms, bindings |-> bindings]

Given(services, topology) ==
    [name |-> None, services |-> services, topology |-> topology, graph |-> TRUE]

MCIdentifiers == {DefaultName, "sys", "a", "b", "c"}

Long(length) == Job("bullmq", "q", length)
MCLongTexts == {Long("long text")}
MCLongKeys == MCLongTexts \cup {Long("long key")}

\* Which contracts meet, and which records take part: two services without a
\* manifest.
Senders ==
    {<<Sends(c)>> : c \in {X, Job("bullmq", "q", "y"), Worker, Job("bull", "q", "x"), Request, Event,
                           Message("event", None)}}
    \cup {<<[Sends(X) EXCEPT !.state = "cold"]>>, <<[Sends(X) EXCEPT !.contract.kind = "in_process_event"]>>,
          <<Sends(X), Sends(X)>>, <<Sends(X), Takes(X)>>, <<>>}

Takers ==
    {<<Takes(c)>> : c \in {X, Worker, Job("bullmq", None, None), Job("bull", "q", "x"), Request, Event}}
    \cup {<<[Takes(c) EXCEPT !.state = "registration_unknown"]>> : c \in {X, Event}}
    \cup {<<Takes(X), Takes(Worker)>>, <<Takes(Request), Takes(Request)>>,
          <<Takes(Event), Takes(Event)>>, <<Sends(Request), Takes(Request)>>, <<>>}

Contracts ==
    {Given(s, NoTopology) : s \in {<<Service("a", r), Service("b", t)>> : r \in Senders, t \in Takers}
                                  \cup {<<Service("b", t), Service("a", r)>> : r \in Senders, t \in Takers}}

\* One sender and two takers in three services, each bound to one of two
\* realms, or to none.
Bindings(bound) == FlattenSeq([i \in DOMAIN bound |-> IF bound[i].alias = None THEN <<>> ELSE <<bound[i]>>])

Shapes == {<<X, X, X>>, <<X, X, Worker>>, <<Request, Request, Request>>, <<Event, Event, Event>>}

Bound3(shape, aliases) ==
    Declaring(IF IsJob(shape[1]) THEN <<BullRealm("A"), BullRealm("B")>>
              ELSE <<RmqRealm("A"), Realm("B", "nest_microservices", "kafka", None)>>,
              Bindings(<<Bind("a", "producer", shape[1], aliases[1]),
                         Bind("b", "consumer", shape[2], aliases[2]),
                         Bind("c", "consumer", shape[3], aliases[3])>>))

Transported(record, transport) == [record EXCEPT !.transport = transport]

Realms ==
    {Given(<<Service("a", <<Transported(Sends(shape[1]), IF IsJob(shape[1]) THEN None ELSE transport)>>),
             Service("b", <<Takes(shape[2])>>), Service("c", third)>>, Bound3(shape, aliases)) :
        shape \in Shapes, transport \in {None, "rmq"},
        aliases \in [1..3 -> {"A", "B", None}],
        third \in {<<Takes(shape[3])>> : shape \in Shapes} \cup {<<>>}}

\* What is refused: services, manifests, and bindings that select too much.
One == Service("a", <<Sends(X), Sends(X), Takes(Worker)>>)
BoundX == Bind("a", "producer", X, "A")

Refusals ==
    {Given(s, NoTopology) :
        s \in {<<>>, <<One, One>>, <<[One EXCEPT !.schema = "old"]>>, <<[One EXCEPT !.result = "failed"]>>,
               <<[One EXCEPT !.interactions = "not_run"]>>, <<[One EXCEPT !.name = "Shop A"]>>,
               <<[One EXCEPT !.interactions = "incomplete", !.result = "completed_with_gaps"]>>,
               <<[One EXCEPT !.kinds = {"job_queue"}]>>}}
    \cup {Given(<<One>>, t) :
        t \in {Declaring(<<BullRealm("A"), BullRealm("A")>>, <<BoundX>>),
               Declaring(<<Realm("A", "bullmq", "bullmq", None)>>, <<>>),
               Declaring(<<Realm("A", "nest_microservices", "bullmq", None)>>, <<>>),
               Declaring(<<>>, <<BoundX>>), Declaring(<<BullRealm("A")>>, <<BoundX, BoundX>>),
               Declaring(<<Realm("A", "bullmq", "bullmq", "r")>>, <<BoundX>>),
               Declaring(<<RmqRealm("A")>>, <<BoundX>>),
               Declaring(<<BullRealm("A")>>, <<Bind("a", "producer", Worker, "A")>>),
               Declaring(<<BullRealm("A")>>, <<Bind("a", "producer", Request, "A")>>),
               Declaring(<<BullRealm("A")>>, <<BoundX, [BoundX EXCEPT !.record = 1]>>),
               Declaring(<<BullRealm("A")>>, <<[BoundX EXCEPT !.record = 1]>>),
               Declaring(<<BullRealm("A"), BullRealm("B")>>,
                         <<[BoundX EXCEPT !.record = 1], [BoundX EXCEPT !.record = 2, !.alias = "B"],
                           Bind("a", "consumer", Worker, "A")>>),
               Declaring(<<BullRealm("A")>>, <<BoundX, Bind("a", "consumer", Worker, "A")>>)}}

\* What the system is called, with a manifest and without, and contracts that are too
\* long for the system document: the manifest's schema is asked only for its own texts.
Names ==
    {[Given(<<One>>, t) EXCEPT !.name = name] :
        name \in {None, "sys", "a", "My System"},
        t \in {NoTopology} \cup {[Declaring(<<BullRealm("A")>>, <<BoundX>>) EXCEPT !.system = system] :
                                    system \in {"sys", "My System"}}}
    \cup {Given(<<Service("a", <<Takes(long), Sends(contract)>>)>>, t) :
            long \in MCLongKeys, contract \in {X, Long("long key")},
            t \in {NoTopology} \cup {Declaring(<<BullRealm("A")>>, <<Bind("a", "consumer", c, "A")>>) :
                                        c \in MCLongKeys}}
    \cup {Given(<<Service("a", <<[Takes(long) EXCEPT !.contract.kind = "in_process_event"]>>)>>,
                NoTopology) : long \in MCLongKeys}

\* Declared candidates: what the traces on both sides are worth.
Roots ==
    {{}, {CleanRoot}, {[CleanRoot EXCEPT !.initiation = {"ambiguous", "resolved"}]},
     {[CleanRoot EXCEPT !.others = {"ambiguous", "resolved"}]},
     {[CleanRoot EXCEPT !.initiation = {"ambiguous"}, !.others = {"ambiguous"}]},
     {[CleanRoot EXCEPT !.diagnosed = TRUE]}, {[CleanRoot EXCEPT !.shared = TRUE]},
     {CleanRoot, [CleanRoot EXCEPT !.endpoint = 2, !.diagnosed = TRUE]}}

Traces ==
    {NoTrace, CleanTrace, [CleanTrace EXCEPT !.ambiguous = TRUE], [CleanTrace EXCEPT !.diagnosed = TRUE],
     [CleanTrace EXCEPT !.effects = {}]}

Reports ==
    {[Given(<<Service("a", <<[Sends(shape[1]) EXCEPT !.roots = roots]>>),
              [Service("b", <<[Takes(shape[2]) EXCEPT !.trace = trace]>>) EXCEPT !.result = "completed_with_gaps"],
              Service("c", third)>>,
            Bound3(shape, <<"A", "A", IF third = <<>> THEN None ELSE "A">>)) EXCEPT !.graph = graph] :
        shape \in {<<X, Worker, X>>, <<Event, Event, Event>>}, roots \in Roots, trace \in Traces,
        third \in {<<>>, <<Takes(Event)>>}, graph \in {TRUE}}
    \cup {[Given(<<One>>, NoTopology) EXCEPT !.graph = FALSE]}

MCInputs == Contracts \cup Realms \cup Refusals \cup Names \cup Reports

=============================================================================
