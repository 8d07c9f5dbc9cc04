---------------------------- MODULE SystemReport ----------------------------
(***************************************************************************)
(* The stitch command (src/src/cli/commands/stitch.ts) behind the          *)
(* correlation of SystemStitch: it publishes the system analysis, builds   *)
(* the system report from it (buildSystemReportDocument of                 *)
(* src/src/system-report/project.ts) and publishes that as a second batch. *)
(*                                                                         *)
(* The report takes the endpoint and handler traces of the services as     *)
(* they are: a producer has the HTTP roots which reach it, a consumer the  *)
(* trace of its handler. A root [endpoint, shared, initiation, others,     *)
(* diagnosed] is shared if another endpoint has its method and path, so    *)
(* that the trace is refused as ambiguous; initiation are the states of    *)
(* the steps which initiate the interaction, others those of all other     *)
(* steps of the trace. A trace is [built, ambiguous, diagnosed, effects].  *)
(* Labels and the bound on their length, diagnostics' texts, the summary   *)
(* and the rendering are left out. Of the two limits on what is displayed  *)
(* the options ask for 10 at least, which small systems never reach.       *)
(***************************************************************************)
EXTENDS SystemStitch

CONSTANTS
    MaxNodes,   \* maxNodes: how many nodes are displayed
    MaxEdges    \* maxEdges

VARIABLES
    report,    \* the report document, once it is built
    aborted,   \* the abort signal
    disk       \* the files of this run that are in place

vars == <<stitchVars, report, aborted, disk>>

NoReport == [nodes |-> {}, edges |-> {}, paths |-> {}, shownNodes |-> {}, shownEdges |-> {},
             passed |-> {}, failed |-> {}]

-----------------------------------------------------------------------------
(***************************************************************************)
(* Nodes, from all their contributions. A node is as certain as the least  *)
(* certain of them.                                                        *)
(***************************************************************************)
Declared == {c \in ToSet(correlations) : c.state = "declared_realm_candidate"}

ServiceNode(name) == <<"service", name>>
RealmNode(alias) == <<"realm", alias>>
DestinationNode(alias) == <<"destination", alias>>
EndpointNode(id) == <<"endpoint", id[1], id[2]>>
RootNode(service, r) == <<"root", service, r.endpoint>>
EffectNode(id, effect) == <<"effect", id[1], id[2], effect>>

SourceOf(id) ==
    (CHOOSE r \in ToSet(Records) : <<r.service, r.number>> = id).source

\* rootsByInteraction: an endpoint whose trace is refused is no root.
RootsOf(id) == {r \in SourceOf(id).roots : ~ r.shared}

\* Wrong: an ambiguous initiation is taken for a resolved one.
InitiationTakenForResolved(r) == "resolved"

\* The other steps are not looked at.
Initiation(r) == IF "ambiguous" \in r.initiation THEN "ambiguous" ELSE "resolved"

TraceOf(id) == SourceOf(id).trace

\* Without a trace the steps count as ambiguous.
TraceAmbiguous(t) == t.built => t.ambiguous

EffectsOf(id) == IF TraceOf(id).built THEN TraceOf(id).effects ELSE {}

Certainties == <<"resolved", "conditional_candidate", "ambiguous", "unknown">>
CertaintyRank(certainty) == CHOOSE i \in DOMAIN Certainties : Certainties[i] = certainty

Contribution(id, parent, certainty) == [id |-> id, parent |-> parent, certainty |-> certainty]

Inventory ==
    {Contribution(ServiceNode(s.name), {}, IF s.result = "completed" THEN "resolved" ELSE "unknown") :
        s \in ToSet(input.services)}
    \cup {Contribution(RealmNode(r.alias), {}, "resolved") : r \in ToSet(input.topology.realms)}
    \cup {Contribution(DestinationNode(r.alias), {RealmNode(r.alias)}, "resolved") :
             r \in ToSet(input.topology.realms)}
    \cup {Contribution(EndpointNode(e.id), {ServiceNode(e.id[1])},
                       IF e.realm = None THEN "unknown" ELSE "conditional_candidate") :
             e \in ToSet(endpoints)}

Drawn(c) ==
    LET Conditional(id) == Contribution(EndpointNode(id), {ServiceNode(id[1])}, "conditional_candidate")
    IN  {Conditional(id) : id \in {c.producer} \cup c.consumers}
        \cup {Contribution(RootNode(c.producer[1], r), {ServiceNode(c.producer[1])}, Initiation(r)) :
                 r \in RootsOf(c.producer)}
        \cup UNION {{Contribution(EffectNode(id, f), {ServiceNode(id[1])},
                                  IF TraceAmbiguous(TraceOf(id)) THEN "ambiguous"
                                  ELSE "conditional_candidate") :
                        f \in EffectsOf(id)} : id \in c.consumers}

Nodes ==
    LET contributions == Inventory \cup UNION {Drawn(c) : c \in Declared}
        LeastCertain(x) == \A y \in contributions :
            y.id = x.id => CertaintyRank(y.certainty) <= CertaintyRank(x.certainty)
    IN  {x \in contributions : LeastCertain(x)}

Edge(kind, source, target, c) ==
    [kind |-> kind, source |-> source, target |-> target, correlation |-> c]

EdgesOf(c) ==
    LET destination == DestinationNode(c.realm)
    IN  {Edge("conditional_route", EndpointNode(c.producer), destination, c)}
        \cup {Edge("initiates", RootNode(c.producer[1], r), EndpointNode(c.producer), c) :
                 r \in RootsOf(c.producer)}
        \cup {Edge("conditional_candidate", destination, EndpointNode(id), c) : id \in c.consumers}
        \cup UNION {{Edge("conditional_effect", EndpointNode(id), EffectNode(id, f), c) :
                        f \in EffectsOf(id)} : id \in c.consumers}

-----------------------------------------------------------------------------
(***************************************************************************)
(* Paths: one for every root, or one without a root, and every consumer.   *)
(***************************************************************************)
PathOf(c, id, roots) ==
    LET t == TraceOf(id)
    IN  [correlation |-> c, roots |-> roots, consumer |-> id,
         effects |-> EffectsOf(id),
         complete |-> /\ t.built /\ ~ TraceAmbiguous(t) /\ ~ t.diagnosed
                      /\ \A r \in roots : Initiation(r) # "ambiguous" /\ ~ r.diagnosed]

RootVariants(id) == IF RootsOf(id) = {} THEN {{}} ELSE {{r} : r \in RootsOf(id)}

PathsOf(c) == {PathOf(c, id, roots) : id \in c.consumers, roots \in RootVariants(c.producer)}

OnPath(p) ==
    LET c == p.correlation
    IN  {RootNode(c.producer[1], r) : r \in p.roots}
        \cup {EndpointNode(c.producer), DestinationNode(c.realm), EndpointNode(p.consumer)}
        \cup {EffectNode(p.consumer, f) : f \in p.effects}
        \cup {ServiceNode(c.producer[1]), ServiceNode(p.consumer[1]), RealmNode(c.realm)}

\* nodePriority
NodePriority(x, onPaths) ==
    IF x.id \in onPaths THEN (IF x.parent = {} THEN 0 ELSE 1)
    ELSE IF x.parent = {} THEN 2 ELSE IF x.id[1] = "destination" THEN 3 ELSE 4

\* The first n of a set sorted by priority, and then by hashed identifiers.
FirstOf(S, n, priority) ==
    {T \in SUBSET S :
        /\ Cardinality(T) = IF Cardinality(S) < n THEN Cardinality(S) ELSE n
        /\ \A x \in T, y \in S \ T : priority[x] <= priority[y]}

\* evaluateSystemPolicies: the outcomes of require-declared-realm-candidate ...
RealmOutcome(c) ==
    CASE c.producer = NoEndpoint -> "not_applicable"
      [] c.producer # NoEndpoint /\ c.state = "declared_realm_candidate" -> "pass"
      [] c.state = "ambiguous" -> "unknown"
      [] OTHER -> IF c.reason = "unsupported_identity" THEN "unknown" ELSE "fail"

\* ... and of forbid-ambiguous-system-correlation.
AmbiguityOutcome(c) ==
    IF c.producer = NoEndpoint THEN "not_applicable"
    ELSE IF c.state = "ambiguous" THEN "fail" ELSE "pass"

Outcomes(outcome) ==
    {<<"require-declared-realm-candidate", c>> :
        c \in {c \in ToSet(correlations) : RealmOutcome(c) = outcome}}
    \cup {<<"forbid-ambiguous-system-correlation", c>> :
        c \in {c \in ToSet(correlations) : AmbiguityOutcome(c) = outcome}}

BuildReport ==
    /\ pc = "report"
    /\ LET paths == UNION {PathsOf(c) : c \in Declared}
           onPaths == UNION {OnPath(p) : p \in paths}
           edges == UNION {EdgesOf(c) : c \in Declared}
       IN  \E selected \in FirstOf(Nodes, MaxNodes, [x \in Nodes |-> NodePriority(x, onPaths)]) :
               LET shown == {x \in selected : x.parent \subseteq {y.id : y \in selected}}
                   Displayed(id) == \E x \in shown : x.id = id
                   eligible == {e \in edges : Displayed(e.source) /\ Displayed(e.target)}
               IN  \E drawn \in FirstOf(eligible, MaxEdges, [e \in eligible |-> 0]) :
                       report' = [nodes |-> Nodes, edges |-> edges, paths |-> paths,
                                  shownNodes |-> shown, shownEdges |-> drawn,
                                  passed |-> Outcomes("pass"), failed |-> Outcomes("fail")]
    /\ pc' = "write_report"
    /\ UNCHANGED <<input, cursor, endpoints, usedBindings, consumed, correlations, aborted, disk>>

-----------------------------------------------------------------------------
(***************************************************************************)
(* The two batches. Each is written by writeTextFilesAtomically: nothing   *)
(* before its last check of the signal, then file after file in order.     *)
(***************************************************************************)
AnalysisFiles == <<"system-analysis.md", "system-analysis.json">>
ReportFiles == <<"system-report.json", "system-report.md", "api-intel-system-graph.html">>

Batch == IF pc \in {"write_analysis", "commit_analysis"} THEN AnalysisFiles ELSE ReportFiles

\* A signal that comes while the inputs are read leaves only their end or Cancel.
StitchStep ==
    /\ aborted => pc = "topology" /\ pc' = "services"
    /\ Stitch
    /\ UNCHANGED <<report, aborted, disk>>

Unchanged == UNCHANGED <<input, endpoints, usedBindings, consumed, correlations, report>>

BeginCommit ==
    /\ \/ Phase("write_analysis", "commit_analysis")
       \/ Phase("write_report", "commit_report")
    /\ ~ aborted
    /\ cursor' = 1
    /\ Unchanged /\ UNCHANGED <<aborted, disk>>

PlaceFile ==
    /\ pc \in {"commit_analysis", "commit_report"} /\ cursor <= Len(Batch)
    /\ disk' = disk \cup {Batch[cursor]}
    /\ cursor' = cursor + 1
    /\ Unchanged /\ UNCHANGED <<pc, aborted>>

\* Wrong: nobody waits for the first batch.
ContinueUnawaited ==
    /\ \/ Phase("commit_analysis", IF input.graph THEN "report" ELSE "success")
       \/ Phase("commit_report", "success")
    /\ cursor' = 1
    /\ Unchanged /\ UNCHANGED <<aborted, disk>>

Continue ==
    /\ cursor > Len(Batch)
    /\ \/ Phase("commit_analysis", IF input.graph THEN "report" ELSE "success")
       \/ Phase("commit_report", "success")
    /\ cursor' = 1
    /\ Unchanged /\ UNCHANGED <<aborted, disk>>

\* A failure after the signal counts as a cancellation.
WriteFails ==
    /\ pc \in {"write_analysis", "commit_analysis", "write_report", "commit_report"}
    /\ cursor <= Len(Batch)
    /\ pc' = IF aborted THEN "canceled" ELSE "failed"
    /\ Unchanged /\ UNCHANGED <<cursor, aborted, disk>>

\* The signal is looked at by every read, behind the reads, and by the writer.
Cancel ==
    /\ aborted /\ pc \in {"topology", "services", "write_analysis", "write_report"}
    /\ pc' = "canceled"
    /\ Unchanged /\ UNCHANGED <<cursor, aborted, disk>>

\* A signal is delivered while the command waits.
Signal ==
    /\ ~ aborted
    /\ pc \in {"topology", "services", "write_analysis", "commit_analysis",
               "write_report", "commit_report"}
    /\ aborted' = TRUE
    /\ Unchanged /\ UNCHANGED <<pc, cursor, disk>>

Init == StitchInit /\ report = NoReport /\ aborted = FALSE /\ disk = {}

Next == StitchStep \/ BuildReport \/ BeginCommit \/ PlaceFile \/ Continue \/ WriteFails
        \/ Cancel \/ Signal

Spec == Init /\ [][Next]_vars

-----------------------------------------------------------------------------
\* What validateSystemReportDocument asks of a report, but for the length of labels.
ValidReport ==
    LET ids == {x.id : x \in report.shownNodes}
    IN  /\ \A x, y \in report.nodes : x.id = y.id => x = y
        /\ \A x \in report.shownNodes : x.parent \subseteq ids
        /\ \A e \in report.shownEdges :
               /\ e.source \in ids /\ e.target \in ids
               /\ e.correlation \in Declared
        /\ \A p \in report.paths : p.correlation \in Declared

\* Without a manifest nothing asks of --name to be an identifier.
NameUnchecked == input.topology.system = None /\ input.name \notin {None} \cup Identifiers

\* Nothing asks of an analysis to have short texts, nor of short ones that the key
\* they make up is short.
ContractUnchecked ==
    \E r \in ToSet(Records) :
        r.source.contract.kind \in Correlated /\ r.source.contract \in LongKeys

(***************************************************************************)
(* Input that is accepted is stitched: the system document is thrown out   *)
(* by its own validation only for a name that was given without a manifest *)
(* and is no identifier, or for a contract that is too long; and nothing   *)
(* the report relates is missing in it.                                    *)
(***************************************************************************)
DocumentsAreValid ==
    /\ pc = "invalid" => NameUnchecked \/ ContractUnchecked
    /\ pc = "write_report" => ValidReport

Projected == pc \notin {"topology", "services", "project", "producers", "consumers", "refused"}
             /\ endpoints # <<>>

Of(id) == {c \in ToSet(correlations) : c.producer = id \/ id \in c.consumers}

\* Another service can take what a producer sends.
Reaches(p, c) == p.eligible /\ c.eligible /\ ContractsCompatible(p.contract, c.contract)

(***************************************************************************)
(* No endpoint is lost and none is counted twice: a producer has one       *)
(* correlation, with all consumers that can take what it sends; a consumer *)
(* is reported alone exactly if no producer reaches it; and a system       *)
(* without a diagnostic has only complete services, and endpoints that are *)
(* all declared candidates.                                                *)
(***************************************************************************)
EveryEndpointIsCorrelated ==
    Projected /\ pc = "write_analysis" =>
        /\ \A p \in Producers :
               /\ Cardinality(Of(p.id)) = 1
               /\ \A c \in Of(p.id) :
                      c.consumers = {d.id : d \in {d \in Consumers : Reaches(p, d)}}
        /\ \A d \in Consumers :
               (\E c \in Of(d.id) : c.producer = NoEndpoint)
                   <=> ~ \E p \in Producers : Reaches(p, d)
        /\ (IncompleteServices = {} /\ \A c \in ToSet(correlations) : ~ c.diagnosed) =>
               \A e \in ToSet(endpoints) : Of(e.id) # {} /\ Of(e.id) \subseteq Declared

\* The manifest binds an endpoint to a realm of its own queue or transport.
Bound(id, alias) ==
    \E b \in ToSet(input.topology.bindings), r \in RealmsOf(input.topology, alias) :
        /\ b.alias = alias
        /\ <<b.service, b.role, b.contract>> = <<id[1], SourceOf(id).role, SourceOf(id).contract>>
        /\ b.record \in {AnyRecord, id[2]}
        /\ SourceTransport(SourceOf(id)) \in {None, r.transport}

\* The way to the producer has an ambiguous step which does not initiate anything there.
AmbiguousOnTheWay(p) ==
    \E r \in p.roots : "ambiguous" \in r.others /\ "ambiguous" \notin r.initiation

\* An endpoint of the producer's service reaches the producer, and is no root
\* because another one has its method and path.
HiddenBySharedRoute(p) == \E r \in SourceOf(p.correlation.producer).roots : r.shared

(***************************************************************************)
(* A conditional path joins endpoints which the manifest binds to one      *)
(* realm, to the only consumer where there may be one only. It is complete *)
(* only if all of it is: no step on either side is ambiguous, unless it is *)
(* one on the way to the producer (AmbiguousOnTheWay), none is diagnosed,  *)
(* and a path without a root has no endpoint that initiates it. Every      *)
(* consumer and every root of a candidate has its path, the realm rule     *)
(* passes exactly the producers that have one, and nothing else is         *)
(* displayed while a node of a path is not.                                *)
(***************************************************************************)
PathsAreHonest ==
    pc = "write_report" =>
        /\ \A p \in report.paths :
               LET c == p.correlation
                   source == SourceOf(c.producer)
                   t == SourceOf(p.consumer).trace
               IN  /\ Bound(c.producer, c.realm) /\ Bound(p.consumer, c.realm)
                   /\ SourceOf(p.consumer).state = "proven_registered"
                   /\ SingleConsumer(source.contract) =>
                          \A d \in Consumers : Reaches(EndpointOf(c.producer), d)
                                                          => d.id = p.consumer
                   /\ p.complete =>
                          /\ t.built /\ ~ t.ambiguous /\ ~ t.diagnosed
                          /\ \A r \in p.roots : ~ r.diagnosed
                          /\ \/ \A r \in p.roots : "ambiguous" \notin r.initiation \cup r.others
                             \/ AmbiguousOnTheWay(p)
                          /\ p.roots = {} => source.roots = {} \/ HiddenBySharedRoute(p)
        /\ \A c \in Declared : \A id \in c.consumers, r \in SourceOf(c.producer).roots :
               r.shared \/ \E p \in report.paths :
                               p.correlation = c /\ p.consumer = id /\ p.roots = {r}
        /\ \A c \in ToSet(correlations) :
               <<"require-declared-realm-candidate", c>> \in report.passed
                      <=> \E p \in report.paths : p.correlation = c
        /\ LET shown == {x.id : x \in report.shownNodes}
               onPaths == UNION {OnPath(p) : p \in report.paths}
           IN  onPaths \subseteq shown \/ shown \subseteq onPaths

(***************************************************************************)
(* The report describes the analysis beside it: a file of the report is in *)
(* place only when the whole analysis is, whatever fails or is interrupted *)
(* between the two batches, a command that succeeds has placed all it was  *)
(* asked for, and one that refuses its input nothing.                      *)
(***************************************************************************)
ReportsFollowTheirAnalysis ==
    /\ disk \cap ToSet(ReportFiles) # {} => ToSet(AnalysisFiles) \subseteq disk
    /\ pc = "success" => disk = ToSet(AnalysisFiles)
                                \cup (IF input.graph THEN ToSet(ReportFiles) ELSE {})
    /\ pc \in {"refused", "invalid"} => disk = {}

=============================================================================
