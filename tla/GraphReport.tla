----------------------------- MODULE GraphReport -----------------------------
(***************************************************************************)
(* The graph command: buildGraphReportDocument                             *)
(* (src/src/graph-report/project.ts) draws the trace of an endpoint or of  *)
(* a handler as a scene, and buildArchitectureOverview                     *)
(* (src/src/architecture/overview.ts) counts what the roots reach. The     *)
(* document is validated before it is written                              *)
(* (src/src/graph-report/validate.ts), and a single issue in a single      *)
(* scene fails the whole command.                                          *)
(*                                                                         *)
(* A node is the kind and the name of what it stands for; an edge has the  *)
(* id the code gives it. Labels, uncertainty, the impact overlay and the   *)
(* evidence of nodes and edges, which always fits (the limit exceeds that  *)
(* of nodes and edges by 100), are left out. The ids that decide the order *)
(* of the edges are hashes: one order and its reverse are tried.           *)
(***************************************************************************)
EXTENDS Policy

CONSTANT GraphInputs   \* limits, guards and request flows, see MCEndpointTrace

\* The limits leave room for the root; an origin is a field of one parameter
\* (requestParameterId), which is declared by one method.
ASSUME GraphInputsAssumption ==
    \A x \in GraphInputs :
        /\ IsFiniteSet(x.guards) /\ x.influences \in Seq(ToSet(x.influences))
        /\ x.maxNodes \in Nat \ {0} /\ x.maxEdges \in Nat /\ x.backwards \in BOOLEAN
        /\ \A i, j \in ToSet(x.influences) :
              /\ i.origin = j.origin => i.parameter = j.parameter
              /\ i.parameter = j.parameter => i.method = j.method

VARIABLES
    drawing,   \* the input the graph is drawn from, once it is
    report     \* [state, ...]: the refusal, or the scene and what is reached

graphVars == <<policyVars, drawing, report>>

NotDrawn == [state |-> "none"]

-----------------------------------------------------------------------------
(***************************************************************************)
(* The steps of a trace.                                                   *)
(***************************************************************************)
Root == IF doc.root = "endpoint" THEN <<"endpoint">> ELSE <<"handler", doc.implementations[1]>>

Step(id, source, target, status) ==
    [id |-> id, source |-> source, target |-> target, status |-> status]

Implements(source, m) == Step(<<"implemented", source, m>>, source, <<"method", m>>, "resolved")

TargetOf(f) ==
    CASE f.channel = "call"  -> <<"method", f.to[1]>>
      [] f.channel = "table" -> <<"table">>
      [] OTHER               -> <<"interaction", f>>

\* What a traced fact adds: its own step, then those to its handlers.
StepsOf(f) ==
    {Step(<<"fact", f>>, <<"method", f.from>>, TargetOf(f), f.status)}
    \cup IF IsInteraction(f)
         THEN UNION {{Step(<<"matches", f, m>>, <<"interaction", f>>, <<"handler", m>>, "resolved"),
                      Implements(<<"handler", m>>, m)} : m \in ToSet(Matches(f))}
         ELSE {}

\* The lock of a section is accessed in the body of its method.
LockSteps ==
    {Step(<<"locks", m>>, <<"method", m>>, <<"lock", m>>, "resolved") :
        m \in {queue[i].methodId : i \in {i \in DOMAIN queue : HasSection(queue[i])}}}

Steps ==
    {Implements(Root, m) : m \in ToSet(doc.implementations)}
    \cup (UNION {UNION {StepsOf(f) : f \in Recorded(queue[i])} : i \in DOMAIN queue})
    \cup LockSteps

-----------------------------------------------------------------------------
(***************************************************************************)
(* The edges of a scene.                                                   *)
(***************************************************************************)
Edge(id, kind, source, target) == [id |-> id, kind |-> kind, source |-> source, target |-> target]

\* scopedAssertionSource: an effect of a critical section starts there, and
\* the section is drawn with it.
InSection(s) == s.id[1] = "fact" /\ s.id[2].region = "section"

Scopes(s) ==
    IF InSection(s)
    THEN LET m == s.id[2].from
         IN  {Edge(<<"scope", m>>, "assertion", <<"method", m>>, <<"section", m>>),
              Edge(<<"bounds", m>>, "assertion", <<"lock", m>>, <<"section", m>>)}
    ELSE {}

\* Wrong: every effect starts at its method.
SourceUnscoped(s) == s.source

SourceOf(s) == IF InSection(s) THEN <<"section", s.id[2].from>> ELSE s.source

\* interactionPresentationElements
Presentation(s) ==
    IF s.target[1] # "interaction" THEN {}
    ELSE LET f == s.target[2]
         IN  {Edge(<<"dispatches", f>>, "interaction", s.target, <<"boundary", f>>)}
             \cup {Edge(<<"targets", f>>, "interaction", <<"boundary", f>>, <<"external", f>>) :
                      c \in {"queue"} \cap {f.channel}}

Drawn(s) == {Edge(s.id, "assertion", SourceOf(s), s.target)} \cup Scopes(s) \cup Presentation(s)

GuardEdges(x) ==
    {Edge(<<"guard", g>>, "guard", Root, <<"guard", g>>) :
        g \in {g \in x.guards : doc.root = "endpoint"}}

\* A handler with a dispatch shows its branches and what they do.
BranchEdges ==
    IF doc.root # "queue" THEN {}
    ELSE LET effects == {f \in ToSet(doc.facts) : f.from \in doc.dispatches \cap {doc.implementations[1]}
                                                  /\ f.region \in Jobs}
         IN  {Edge(<<"branch", job>>, "interaction", Root, <<"branch", job>>) :
                 job \in {f.region : f \in effects}}
             \cup {Edge(<<"effect", f>>, "interaction", <<"branch", f.region>>, TargetOf(f)) : f \in effects}

\* buildEndpointCatalogue: what is not resolved has no trace in the report.
Selection ==
    IF doc.implementations = <<>> THEN "unresolved"
    ELSE IF doc.root = "endpoint" /\ doc.matching > 1 THEN "ambiguous"
    ELSE "resolved"

TraceEdges(x) ==
    IF Selection = "resolved" THEN (UNION {Drawn(s) : s \in Steps}) \cup GuardEdges(x) \cup BranchEdges
    ELSE {}

-----------------------------------------------------------------------------
(***************************************************************************)
(* provenanceElements: for every influence of a request parameter of the   *)
(* handler method on a column, the assertions that lead to it. Their nodes *)
(* are added, but the handler method is left to the trace.                 *)
(***************************************************************************)
FlowsOf(x) ==
    {i \in DOMAIN x.influences : /\ doc.root = "endpoint" /\ doc.implementations # <<>>
                                 /\ x.influences[i].method = Last(doc.implementations)}

FlowNodes(i) == {<<"parameter", i.parameter>>, <<"origin", i.origin>>, <<"column", i.column>>}

FlowEdges(i) ==
    <<Edge(<<"declares", i.parameter>>, "provenance", <<"method", i.method>>, <<"parameter", i.parameter>>),
      Edge(<<"originates", i.origin>>, "provenance", <<"parameter", i.parameter>>, <<"origin", i.origin>>),
      Edge(<<"flows", i>>, "provenance", <<"origin", i.origin>>, <<"column", i.column>>)>>

-----------------------------------------------------------------------------
(***************************************************************************)
(* selectScene: edges in the order of their kinds and ids, up to the       *)
(* limits; an edge whose ends do not fit any more is left out.             *)
(***************************************************************************)
Listed(S) == FoldSet(LAMBDA e, listed : Append(listed, e), <<>>, S)

\* An influence has three edges.
FlowCandidates(x) ==
    LET places == Listed(FlowsOf(x) \X (1..3))
    IN  [n \in DOMAIN places |-> FlowEdges(x.influences[places[n][1]])[places[n][2]]]

Candidates(x) ==
    LET InTurn(edges) == IF x.backwards THEN Reverse(edges) ELSE edges
        OfKind(kind) == InTurn(Listed({e \in TraceEdges(x) : e.kind = kind}))
    IN  OfKind("assertion") \o OfKind("interaction") \o OfKind("guard") \o InTurn(FlowCandidates(x))

KnownNodes(x) ==
    {Root} \cup (UNION {{e.source, e.target} : e \in TraceEdges(x)})
           \cup UNION {FlowNodes(x.influences[i]) : i \in FlowsOf(x)}

Chosen(scene, e, x) ==
    LET nodes == scene.nodes \cup {e.source, e.target}
    IN  IF Len(scene.edges) >= x.maxEdges \/ Cardinality(nodes) > x.maxNodes THEN scene
        ELSE [nodes |-> nodes, edges |-> Append(scene.edges, e)]

Selected(x, root, candidates) ==
    FoldLeft(LAMBDA scene, e : Chosen(scene, e, x), [nodes |-> {root}, edges |-> <<>>], candidates)

\* An end that is no known node is named by the edge, and not shown.
Scene(x) ==
    LET chosen == Selected(x, Root, Candidates(x))
        shown == chosen.nodes \cap KnownNodes(x)
    IN  [nodes |-> shown, edges |-> chosen.edges,
         omitted |-> [nodes |-> Cardinality(KnownNodes(x)) - Cardinality(shown),
                      edges |-> Len(Candidates(x)) - Len(chosen.edges)]]

\* assertValidGraphReportDocument, of one scene.
ValidScene(scene, x) ==
    /\ IsInjective([i \in DOMAIN scene.edges |-> scene.edges[i].id])
    /\ Root \in scene.nodes
    /\ \A e \in ToSet(scene.edges) : {e.source, e.target} \subseteq scene.nodes
    /\ Cardinality(scene.nodes) <= x.maxNodes /\ Len(scene.edges) <= x.maxEdges

-----------------------------------------------------------------------------
(***************************************************************************)
(* buildArchitectureOverview: resolvedReachableIds over the steps of the   *)
(* trace. What it finds counts as reached from a supported root.           *)
(***************************************************************************)
\* Wrong: what is ambiguous is followed as well.
ResolvedStepsOrNot(S) == S

ResolvedSteps(S) == {s \in S : s.status = "resolved"}

ClosureFrom(root, S) ==
    LET reach[n \in 0..Cardinality(S)] ==
            IF n = 0 THEN {root}
            ELSE LET before == reach[n - 1]
                 IN  before \cup {s.target : s \in {s \in S : s.source \in before}}
    IN  reach[Cardinality(S)]

Closure(S) == ClosureFrom(Root, S)

ReachedRecords == IF Selection = "resolved" THEN Closure(ResolvedSteps(Steps)) ELSE {}

-----------------------------------------------------------------------------
\* The graph command: what it refuses, and what it publishes.
Refused(x) ==
    \/ doc.resultState \in {"failed", "canceled"}
    \/ x.policyOf = "other" \/ x.impactOf = "other"

Drawing(x) ==
    IF Refused(x) THEN [state |-> "refused"]
    ELSE IF pc = "range_error" THEN [state |-> "failed"]
    ELSE IF ~ValidScene(Scene(x), x) THEN [state |-> "invalid"]
    ELSE [state |-> "published", scene |-> Scene(x), reached |-> ReachedRecords]

DrawGraph ==
    /\ doc.asked = "graph" /\ pc \in {"done"} \cup Refusals /\ report = NotDrawn
    /\ \E x \in GraphInputs : drawing' = x /\ report' = Drawing(x)
    /\ UNCHANGED policyVars

GraphInit == PolicyInit /\ drawing = NotDrawn /\ report = NotDrawn

GraphNext == (PolicyNext /\ UNCHANGED <<drawing, report>>) \/ DrawGraph

GraphSpec == GraphInit /\ [][GraphNext]_graphVars

-----------------------------------------------------------------------------
(***************************************************************************)
(* Properties.                                                             *)
(***************************************************************************)
Linked == Closure(ToSet(report.scene.edges))

Entered == Reached \cup UNION {UNION {ToSet(Matches(f)) : f \in {f \in Recorded(queue[i]) : IsInteraction(f)}} : i \in DOMAIN queue}

\* Two fields of one parameter that reach a column each, or a route shared by
\* two endpoints with a flow from the handler: see ReportsAreValid.
RepeatsDeclaration ==
    \E i, j \in FlowsOf(drawing) : i # j /\ drawing.influences[i].parameter = drawing.influences[j].parameter

FlowsWithoutHandler == Selection # "resolved" /\ FlowsOf(drawing) # {}

(***************************************************************************)
(* The graph tells the story of the trace: unless a request parameter is   *)
(* drawn twice or without its method, the report is published; and a scene *)
(* that leaves out no edge leads from its root to every method the trace   *)
(* has entered and to every table access, through the section it is in.    *)
(***************************************************************************)
GraphsTellTheTrace ==
    /\ report.state = "invalid" => RepeatsDeclaration \/ FlowsWithoutHandler
    /\ report.state = "published" /\ Selection = "resolved" /\ report.scene.omitted.edges = 0 =>
          /\ report.scene.omitted.nodes = 0
          /\ {<<"method", m>> : m \in Entered} \subseteq Linked
          /\ \A i \in DOMAIN queue : \A f \in TableAccesses(queue[i]) :
                \E e \in ToSet(report.scene.edges) :
                    /\ e.target = <<"table">> /\ e.source \in Linked
                    /\ e.source = <<IF f.region = "section" THEN "section" ELSE "method", f.from>>

(***************************************************************************)
(* "reach the record through an entirely resolved path"                    *)
(* (docs/architecture-overview.md): what counts as reached is on a walk of *)
(* resolved facts, or is the method of a handler matched there; and a      *)
(* complete trace counts all of it, unless it passed over a listener of    *)
(* unknown timing. The steps of a method are merged whatever the way it is *)
(* entered: one that the trace also walks in another branch, and a handler *)
(* that is not registered but is walked for another reason, count with all *)
(* of them.                                                                *)
(***************************************************************************)
Resolved(F) == {f \in F : f.status = "resolved"}

EnteredInTwoWays(places) == \E i \in DOMAIN queue : \E p \in places :
    /\ queue[i].methodId = p.methodId
    /\ queue[i].filter # p.filter /\ {queue[i].filter, p.filter} \cap Jobs # {}

ReachIsCertain ==
    report.state = "published" /\ Selection = "resolved" =>
        LET F == Resolved(ToSet(doc.facts))
            certain == Places(F)
            made == UNION {FactsAt(F, p) : p \in certain}
            methods == {m \in Methods : <<"method", m>> \in report.reached}
        IN  /\ ~EnteredInTwoWays(certain) /\ doc.candidates \cap Reached = {} =>
                   /\ methods \subseteq {p.methodId : p \in certain}
                                        \cup UNION {ToSet(f.to) : f \in made}
                   /\ <<"table">> \in report.reached => \E f \in made : f.channel = "table"
            /\ PublishedComplete /\ BranchesAreDispatched /\ ~SomePassedOver =>
                   /\ {p.methodId : p \in certain} \subseteq methods
                   /\ (\E f \in made : f.channel = "table") => <<"table">> \in report.reached

\* "has an edge with a missing node", "repeats a graph edge ID": the report
\* is built from a valid analysis, so the validation never fails
\* (assertValidGraphReportDocument, src/src/graph-report/validate.ts).
ReportsAreValid == report.state # "invalid"

=============================================================================
