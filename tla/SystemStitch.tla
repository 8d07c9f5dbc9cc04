---------------------------- MODULE SystemStitch ----------------------------
(***************************************************************************)
(* The correlation of several analyses: stitchSystemAnalyses               *)
(* (src/src/system-analysis/stitch.ts), with the manifest it is given      *)
(* (topology.ts) and the validation its result has to pass (validate.ts).  *)
(*                                                                         *)
(* Every queued job or message that a service sends is a producer, every   *)
(* handler of one a consumer. A producer is correlated with all consumers  *)
(* of a compatible contract, and becomes a candidate for a conditional     *)
(* edge only if the manifest binds all of them to one broker realm.        *)
(*                                                                         *)
(* Identifiers are what they are hashed from: an endpoint is its service   *)
(* and the number of its record, a realm its alias. Of the name of the     *)
(* system and of the contracts only what decides is kept: whether a name   *)
(* is an identifier, and whether a contract is too long for its key. The   *)
(* other names and labels, and the canonical order of the result are left  *)
(* out.                                                                    *)
(***************************************************************************)
EXTENDS Naturals, Sequences, FiniteSets, SequencesExt

CONSTANTS
    Inputs,         \* what the command may be given: [name, services, topology, graph]
    Identifiers,    \* the names of the pattern that schemas.ts calls identifier
    LongTexts,      \* contracts with a queue, job or pattern of more than 512 characters
    LongKeys        \* contracts of more than 512 characters when written out as a key

VARIABLES
    input,          \* one of Inputs
    pc,             \* where the command is, or how it ended
    cursor,         \* the place in the loop it is in
    endpoints,      \* projected: the endpoints, in order
    usedBindings,   \* usedBindingIndexes
    consumed,       \* the consumers offered to some producer
    correlations    \* a sequence: producers first, then consumers

stitchVars == <<input, pc, cursor, endpoints, usedBindings, consumed, correlations>>

None == "none"
AnyRecord == 0
NoEndpoint == <<None, 0>>

-----------------------------------------------------------------------------
(***************************************************************************)
(* What the schemas of the analyses and of the manifest let through.       *)
(***************************************************************************)
ContractRecord == [kind : STRING, form : STRING, address : STRING, job : STRING]

\* The steps of an endpoint's trace, each resolved or ambiguous: those that initiate
\* the interaction, and the others.
RootRecord ==
    [endpoint : Nat, shared : BOOLEAN, initiation : (SUBSET {"resolved", "ambiguous"}) \ {{}},
     others : SUBSET {"resolved", "ambiguous"}, diagnosed : BOOLEAN]

TraceRecord == [built : BOOLEAN, ambiguous : BOOLEAN, diagnosed : BOOLEAN, effects : SUBSET STRING]

SourceRecord ==
    [role : {"producer", "consumer"}, contract : ContractRecord, transport : STRING,
     state : STRING, roots : SUBSET RootRecord, trace : TraceRecord]

ServiceRecord ==
    [name : STRING, schema : STRING, result : STRING, interactions : STRING,
     kinds : SUBSET STRING, records : Seq(SourceRecord)]

RealmRecord == [alias : STRING \ {None}, technology : STRING, transport : STRING, queue : STRING]

BindingRecord ==
    [service : STRING, role : STRING, contract : ContractRecord, record : Nat, alias : STRING]

\* name is that of --name, system that of the manifest; both may be missing.
InputRecord ==
    [name : STRING, services : Seq(ServiceRecord), graph : BOOLEAN,
     topology : [system : STRING, realms : Seq(RealmRecord), bindings : Seq(BindingRecord)]]

-----------------------------------------------------------------------------
(***************************************************************************)
(* Contracts: a queue of a technology with a job, or a message of a mode   *)
(* with a pattern. What is not exact is None.                              *)
(***************************************************************************)
IsJob(c) == c.kind = "job_queue"

ExactContract(c) == c.address # None /\ (IsJob(c) => c.job # None)

\* A consumer without a job takes every job of its queue.
ContractsCompatible(producer, consumer) ==
    IF IsJob(producer) /\ IsJob(consumer)
    THEN /\ producer.form = consumer.form
         /\ producer.address # None /\ producer.address = consumer.address
         /\ consumer.job \in {None, producer.job}
    ELSE producer = consumer

\* Wrong: a request is taken for an event.
SingleJobConsumer(c) == IsJob(c)

\* The shapes one consumer answers.
SingleConsumer(c) == IsJob(c) \/ c.form = "request_response"

DefaultName == "api-intel-system"

\* No message of an application goes through the transport of the job queues.
ASSUME InputsAssumption ==
    /\ DefaultName \in Identifiers /\ LongTexts \subseteq LongKeys
    /\ \A i \in Inputs :
        /\ i \in InputRecord
        /\ i.topology.system = None => i.topology.realms = <<>> /\ i.topology.bindings = <<>>
        /\ \A s \in ToSet(i.services) : \A source \in ToSet(s.records) :
               IsJob(source.contract) \/ source.transport # "bullmq"

-----------------------------------------------------------------------------
(***************************************************************************)
(* The manifest: the name of its system, realms [alias, technology,        *)
(* transport, queue], and bindings [service, role, contract, record,       *)
(* alias].                                                                 *)
(***************************************************************************)
RealmCompatible(r) ==
    IF r.technology = "bullmq" THEN r.transport = "bullmq" /\ r.queue # None
    ELSE r.transport # "bullmq"

RealmsOf(topology, alias) == {r \in ToSet(topology.realms) : r.alias = alias}

BindingCompatible(b, r) ==
    IF IsJob(b.contract)
    THEN /\ r.technology = "bullmq" /\ RealmCompatible(r)
         /\ b.contract.address # None /\ b.contract.address = r.queue
         /\ b.role = "producer" => b.contract.job # None
    ELSE r.technology # "bullmq" /\ r.transport # "bullmq" /\ b.contract.address # None

SelectsTheSame(b, c) ==
    <<b.service, b.role, b.contract, b.record>> = <<c.service, c.role, c.contract, c.record>>

\* The schema of the manifest, and validateSystemTopologyManifest.
TopologyAccepted(t) ==
    /\ t.system \in {None} \cup Identifiers
    /\ \A b \in ToSet(t.bindings) : b.contract \notin LongTexts
    /\ \A i, j \in DOMAIN t.realms : t.realms[i].alias = t.realms[j].alias => i = j
    /\ \A r \in ToSet(t.realms) : RealmCompatible(r)
    /\ \A i, j \in DOMAIN t.bindings : SelectsTheSame(t.bindings[i], t.bindings[j]) => i = j
    /\ \A b \in ToSet(t.bindings) : \E r \in RealmsOf(t, b.alias) : BindingCompatible(b, r)

-----------------------------------------------------------------------------
(***************************************************************************)
(* Services: [name, schema, result, interactions, kinds, records], the     *)
(* interactions before the handlers.                                       *)
(***************************************************************************)
Correlated == {"job_queue", "microservice_message"}

\* analysisCapabilities
Capable(s) ==
    /\ s.schema = "interactions"
    /\ s.result \in {"completed", "completed_with_gaps"}
    /\ s.interactions # "not_run"

\* --name, or else the name the manifest gives, or else a name of the program's own.
SystemName ==
    IF input.name # None THEN input.name
    ELSE IF input.topology.system # None THEN input.topology.system ELSE DefaultName

\* Only a manifest is asked what the system is called.
NameAccepted == input.topology.system \in {None, SystemName}

\* makeServices
ServicesAccepted(services) ==
    /\ services # <<>> /\ \A s \in ToSet(services) : s.name \in Identifiers
    /\ \A i, j \in DOMAIN services : services[i].name = services[j].name => i = j
    /\ \A s \in ToSet(services) : Capable(s)

\* SYSTEM_SOURCE_ANALYSIS_INCOMPLETE
IncompleteServices ==
    {s.name : s \in {s \in ToSet(input.services) :
        s.interactions = "incomplete" \/ ~ Correlated \subseteq s.kinds}}

RecordsOf(s) ==
    [i \in DOMAIN s.records |-> [service |-> s.name, number |-> i, source |-> s.records[i]]]

\* The records of all services, in the order in which they are read.
Records == FlattenSeq([i \in DOMAIN input.services |-> RecordsOf(input.services[i])])

BindingMatches(b, r) ==
    /\ b.service = r.service /\ b.role = r.source.role /\ b.contract = r.source.contract
    /\ b.record \in {AnyRecord, r.number}

Matches(r) == {i \in DOMAIN input.topology.bindings : BindingMatches(input.topology.bindings[i], r)}

RealmFor(r) ==
    IF Matches(r) = {} THEN None
    ELSE input.topology.bindings[CHOOSE i \in Matches(r) : TRUE].alias

SourceTransport(source) ==
    IF ~ IsJob(source.contract) THEN source.transport
    ELSE IF source.contract.form = "bullmq" THEN "bullmq" ELSE None

Eligible(source) ==
    LET c == source.contract
    IN  /\ IsJob(c) => c.form = "bullmq"
        /\ IF source.role = "producer"
           THEN ExactContract(c) /\ source.state \in {"eager", "proven_activated"}
           ELSE c.address # None /\ source.state = "proven_registered"

Contradicted(r) ==
    \E realm \in RealmsOf(input.topology, RealmFor(r)) :
        SourceTransport(r.source) \notin {None, realm.transport}

Refused(r) == Cardinality(Matches(r)) > 1 \/ Contradicted(r)

Endpoint(r) ==
    [id |-> <<r.service, r.number>>, role |-> r.source.role, contract |-> r.source.contract,
     transport |-> SourceTransport(r.source), realm |-> RealmFor(r),
     eligible |-> Eligible(r.source)]

Producers == {e \in ToSet(endpoints) : e.role = "producer"}
Consumers == {e \in ToSet(endpoints) : e.role = "consumer"}

-----------------------------------------------------------------------------
(***************************************************************************)
(* The correlation of one producer.                                        *)
(***************************************************************************)
EligibleConsumers(p) ==
    {c \in Consumers : c.eligible /\ c.contract.kind = p.contract.kind}

Candidates(p) == {c \in EligibleConsumers(p) : ContractsCompatible(p.contract, c.contract)}

Ids(members) == {e.id : e \in members}

ExplicitRealms(members) == {e.realm : e \in members} \ {None}

\* sharedRealmId: of all members, or none.
SharedRealm(members) ==
    IF {e.realm : e \in members} = ExplicitRealms(members) /\ Cardinality(ExplicitRealms(members)) = 1
    THEN CHOOSE realm \in ExplicitRealms(members) : TRUE
    ELSE None

\* A correlation. What has no diagnostic is a declared candidate.
Correlation(state, reason, p, consumers, realm) ==
    [state |-> state, reason |-> reason, producer |-> p.id, contract |-> p.contract,
     consumers |-> consumers, realm |-> realm, diagnosed |-> state # "declared_realm_candidate"]

CorrelationOf(p) ==
    LET candidates == Candidates(p)
        members == {p} \cup candidates
        Seed(state, reason, realm) == Correlation(state, reason, p, Ids(candidates), realm)
    IN  CASE ~ p.eligible ->
                 Correlation("unmatched", "unsupported_identity", p, {}, p.realm)
          [] p.eligible /\ EligibleConsumers(p) = {} -> Seed("unmatched", "producer_only", p.realm)
          [] p.eligible /\ EligibleConsumers(p) # {} /\ candidates = {} ->
                 Seed("unmatched", "target_mismatch", p.realm)
          [] OTHER ->
                 IF Cardinality(ExplicitRealms(members)) > 1
                 THEN Seed("unmatched", "realm_mismatch", None)
                 ELSE IF Cardinality(candidates) > 1 /\ SingleConsumer(p.contract)
                 THEN Seed("ambiguous", IF IsJob(p.contract) THEN "multiple_job_consumers"
                                        ELSE "multiple_request_consumers", SharedRealm(members))
                 ELSE IF SharedRealm(members) # None
                 THEN Seed("declared_realm_candidate", None, SharedRealm(members))
                 ELSE Seed("target_only_candidate", None, None)

\* Wrong: only what the producer may reach counts as offered.
OfferedTo(p) == IF CorrelationOf(p).state = "unmatched" THEN {} ELSE CorrelationOf(p).consumers

Offered(p) == CorrelationOf(p).consumers

Alone(c) ==
    [state |-> "unmatched", reason |-> IF c.eligible THEN "consumer_only" ELSE "unsupported_identity",
     producer |-> NoEndpoint, contract |-> c.contract, consumers |-> {c.id}, realm |-> c.realm,
     diagnosed |-> TRUE]

-----------------------------------------------------------------------------
(***************************************************************************)
(* assertValidSystemAnalysisDocument, and what the schema asks of the name *)
(* of the system, of the contracts' texts and keys, and of the numbers of  *)
(* consumers and diagnostics.                                              *)
(***************************************************************************)
EndpointOf(id) == CHOOSE e \in ToSet(endpoints) : e.id = id
Members(c) == {e \in ToSet(endpoints) : e.id \in {c.producer} \cup c.consumers}

ValidEndpoint(e) ==
    /\ e.contract \notin LongKeys
    /\ IF IsJob(e.contract)
       THEN e.transport = (IF e.contract.form = "bullmq" THEN "bullmq" ELSE None)
       ELSE e.transport # "bullmq"
    /\ e.realm # None =>
           \E r \in RealmsOf(input.topology, e.realm) :
               IF IsJob(e.contract)
               THEN r.technology = "bullmq" /\ e.contract.address # None /\ e.contract.address = r.queue
               ELSE r.technology # "bullmq" /\ e.transport \in {None, r.transport}

ValidMembers(c) ==
    /\ \A id \in c.consumers : EndpointOf(id).role = "consumer"
    /\ c.producer # NoEndpoint =>
           /\ EndpointOf(c.producer).role = "producer"
           /\ \A id \in c.consumers : ContractsCompatible(c.contract, EndpointOf(id).contract)

ValidState(c) ==
    LET realms == {e.realm : e \in Members(c)}
    IN  CASE c.state = "declared_realm_candidate" ->
                 /\ realms = {c.realm} /\ c.consumers # {} /\ ExactContract(c.contract)
                 /\ Cardinality(c.consumers) > 1 =>
                        ~ IsJob(c.contract) /\ c.contract.form # "request_response"
          [] c.state = "target_only_candidate" ->
                 c.consumers # {} /\ (Cardinality(realms) = 1 => realms = {None})
          [] c.state = "ambiguous" ->
                 /\ Cardinality(c.consumers) > 1
                 /\ \/ c.reason = "multiple_job_consumers" /\ IsJob(c.contract)
                    \/ c.reason = "conflicting_realms" /\ Cardinality(realms \ {None}) > 1
                    \/ /\ c.reason = "multiple_request_consumers"
                       /\ ~ IsJob(c.contract) /\ c.contract.form = "request_response"
          [] OTHER ->
                 CASE c.reason \in {"producer_only", "target_mismatch"} ->
                          c.producer # NoEndpoint /\ c.consumers = {}
                   [] c.reason = "consumer_only" -> c.producer = NoEndpoint /\ c.consumers # {}
                   [] c.reason = "realm_mismatch" ->
                          /\ c.producer # NoEndpoint /\ c.consumers # {}
                          /\ Cardinality(realms \ {None}) > 1
                   [] OTHER -> c.producer # NoEndpoint \/ c.consumers # {}

ValidSystem ==
    /\ SystemName \in Identifiers
    /\ IsInjective([i \in DOMAIN endpoints |-> endpoints[i].id])
    /\ IsInjective(correlations)
    /\ \A e \in ToSet(endpoints) : ValidEndpoint(e)
    /\ \A c \in ToSet(correlations) :
           /\ ValidMembers(c) /\ ValidState(c)
           /\ c.state # "declared_realm_candidate" => c.diagnosed

-----------------------------------------------------------------------------
(***************************************************************************)
(* The steps of stitchSystemAnalyses, one for every turn of a loop.        *)
(***************************************************************************)
StitchInit ==
    /\ input \in Inputs
    /\ pc = "topology" /\ cursor = 1
    /\ endpoints = <<>> /\ usedBindings = {} /\ consumed = {} /\ correlations = <<>>

Phase(from, to) == pc = from /\ pc' = to

\* The manifest is read and validated before any analysis is loaded.
LoadTopology ==
    /\ Phase("topology", IF TopologyAccepted(input.topology) THEN "services" ELSE "refused")
    /\ UNCHANGED <<input, cursor, endpoints, usedBindings, consumed, correlations>>

MakeServices ==
    /\ Phase("services", IF NameAccepted /\ ServicesAccepted(input.services) THEN "project"
                         ELSE "refused")
    /\ UNCHANGED <<input, cursor, endpoints, usedBindings, consumed, correlations>>

SkipRecord ==
    /\ pc = "project" /\ cursor <= Len(Records)
    /\ Records[cursor].source.contract.kind \notin Correlated
    /\ cursor' = cursor + 1
    /\ UNCHANGED <<input, pc, endpoints, usedBindings, consumed, correlations>>

ProjectEndpoint ==
    /\ pc = "project" /\ cursor <= Len(Records)
    /\ Records[cursor].source.contract.kind \in Correlated
    /\ LET r == Records[cursor]
       IN  IF Refused(r)
           THEN pc' = "refused" /\ UNCHANGED <<cursor, endpoints, usedBindings>>
           ELSE /\ endpoints' = Append(endpoints, Endpoint(r))
                /\ usedBindings' = usedBindings \cup Matches(r)
                /\ cursor' = cursor + 1
                /\ UNCHANGED pc
    /\ UNCHANGED <<input, consumed, correlations>>

\* A binding that selected nothing refuses the input.
EndProjection ==
    /\ cursor > Len(Records)
    /\ Phase("project", IF usedBindings = DOMAIN input.topology.bindings THEN "producers"
                        ELSE "refused")
    /\ cursor' = 1
    /\ UNCHANGED <<input, endpoints, usedBindings, consumed, correlations>>

\* The producers and the consumers are filtered out of the endpoints: the loop over
\* the producers passes over the other endpoints ...
CorrelateProducer ==
    /\ pc = "producers" /\ cursor <= Len(endpoints)
    /\ LET p == endpoints[cursor]
       IN  IF p.role = "producer"
           THEN /\ correlations' = Append(correlations, CorrelationOf(p))
                /\ consumed' = consumed \cup Offered(p)
           ELSE UNCHANGED <<consumed, correlations>>
    /\ cursor' = cursor + 1
    /\ UNCHANGED <<input, pc, endpoints, usedBindings>>

EndProducers ==
    /\ cursor > Len(endpoints) /\ Phase("producers", "consumers")
    /\ cursor' = 1
    /\ UNCHANGED <<input, endpoints, usedBindings, consumed, correlations>>

\* ... and the one over the consumers over those some producer was offered.
CorrelateConsumer ==
    /\ pc = "consumers" /\ cursor <= Len(endpoints)
    /\ LET c == endpoints[cursor]
       IN  correlations' = IF c.role = "consumer" /\ c.id \notin consumed
                           THEN Append(correlations, Alone(c))
                           ELSE correlations
    /\ cursor' = cursor + 1
    /\ UNCHANGED <<input, pc, endpoints, usedBindings, consumed>>

EndConsumers ==
    /\ cursor > Len(endpoints)
    /\ Phase("consumers", IF ValidSystem THEN "write_analysis" ELSE "invalid")
    /\ cursor' = 1
    /\ UNCHANGED <<input, endpoints, usedBindings, consumed, correlations>>

Stitch ==
    \/ LoadTopology \/ MakeServices \/ SkipRecord \/ ProjectEndpoint \/ EndProjection
    \/ CorrelateProducer \/ EndProducers \/ CorrelateConsumer \/ EndConsumers

=============================================================================
