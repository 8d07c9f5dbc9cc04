------------------------------- MODULE Impact -------------------------------
(***************************************************************************)
(* Potential impact: analyzePotentialImpact (src/src/impact/analyze.ts)    *)
(* compares an earlier analysis with a later one and reports which changes *)
(* an endpoint may feel. It walks the facts backwards, from what changed   *)
(* to the endpoint (pathsFromEndpoints of src/src/impact/graph.ts), with   *)
(* limits and branch selectors of its own, while the trace of the same     *)
(* endpoint walks them forwards: the two have to agree.                    *)
(*                                                                         *)
(* The later document is the one traced. The earlier one differs in its    *)
(* facts, its diagnosed methods, its dispatches and candidates, in the     *)
(* files whose content has another hash (one per method, and that of the   *)
(* entity mapped to the table which all accesses are to),                  *)
(* and in what the comparison says of the endpoint. A path is its facts,   *)
(* from the endpoint on, and the methods they pass. Evidence, summaries,   *)
(* the sorting and the schema of the result are left out; assertions whose *)
(* key is contested are no part of the documents.                          *)
(***************************************************************************)
EXTENDS HandlerTrace

VARIABLES
    earlier,   \* the earlier document, once there is a comparison
    impact     \* the impact document: [reasons, unreachable]

impactVars == <<vars, earlier, impact>>

NoImpact == [reasons |-> {}, unreachable |-> {}]
NotCompared == [facts |-> <<>>, changed |-> {}]

-----------------------------------------------------------------------------
(***************************************************************************)
(* Walking backwards. A state is at a method, with what follows it there.  *)
(***************************************************************************)
IsInteraction(f) == f.channel \in {"sync", "async", "queue"}

\* branchIdsByAssertionId: the branches a fact belongs to.
BranchesOf(d, f) == IF f.from \in d.dispatches THEN {f.region} \cap Jobs ELSE {}

At(m) == [method |-> m, calls |-> 0, hops |-> 0, visited |-> {m}, entered |-> {},
          branches |-> {}, steps |-> <<>>]

\* The producers of a handler are left out if every selector carried so far
\* excludes their job.
\* Wrong: the selectors are not looked at.
AppliesToEveryProducer(s, f) == TRUE

AppliesToProducer(s, f) ==
    f.channel = "queue" /\ s.branches # {} => f.job \in s.branches

CallsBefore(s, f) == IF f.channel = "call" THEN s.calls + 1 ELSE s.calls
HopsBefore(s, f) == IF IsInteraction(f) THEN s.hops + 1 ELSE s.hops

Before(d, s, f) ==
    [method |-> f.from, calls |-> CallsBefore(s, f), hops |-> HopsBefore(s, f),
     visited |-> s.visited \cup {f.from},
     entered |-> s.entered \cup {m \in {s.method} : IsInteraction(f)},
     branches |-> s.branches \cup BranchesOf(d, f),
     steps |-> <<f>> \o s.steps]

Callers(d, s) ==
    {f \in ToSet(d.facts) : f.channel = "call" /\ s.method = f.to[1] /\ f.from \notin s.visited}

Producers(d, s) ==
    {f \in ToSet(d.facts) :
        /\ IsInteraction(f) /\ s.method \in ToSet(f.to)
        /\ f.from \notin s.visited /\ s.method \notin s.entered
        /\ AppliesToProducer(s, f)}

Incoming(d, s) ==
    {f \in Callers(d, s) \cup Producers(d, s) :
        /\ CallsBefore(s, f) <= d.configuration.depth
        /\ HopsBefore(s, f) <= d.configuration.hops}

\* Everything the walk reaches: a step visits a new method.
Backwards(d, starts) ==
    LET walk[n \in 0..Cardinality(Methods)] ==
            IF n = 0 THEN starts
            ELSE LET before == walk[n - 1]
                 IN  before \cup UNION {{Before(d, s, f) : f \in Incoming(d, s)} : s \in before}
    IN  walk[Cardinality(Methods)]

\* pathsFromEndpoints, for a target that is a method ...
PathsFrom(d, starts) == {s \in Backwards(d, starts) : s.method \in ToSet(d.implementations)}

ToMethod(d, m) == PathsFrom(d, {At(m)})

\* ... the table, which the first step leads to from its accesses ...
Ending(d, f) == [At(f.from) EXCEPT !.branches = BranchesOf(d, f), !.steps = <<f>>]

ToTable(d) == PathsFrom(d, {Ending(d, f) : f \in {f \in ToSet(d.facts) : f.channel = "table"}})

\* ... an interaction, or the handler of a method.
ToInteraction(d, f) == PathsFrom(d, {Ending(d, f)})

ToHandler(d, m) ==
    LET handler == [At(m) EXCEPT !.visited = {}]
        producers == {f \in Incoming(d, handler) : IsInteraction(f)}
    IN  PathsFrom(d, {Before(d, handler, f) : f \in producers})

\* appendAssertionToPaths
Appended(paths, f) ==
    {[s EXCEPT !.steps = Append(@, f), !.visited = @ \cup ToSet(f.to)] : s \in paths}

\* pathHasIncompleteTrace
Incomplete(d, s) ==
    \/ \E i \in DOMAIN s.steps : s.steps[i].status # "resolved"
    \/ s.visited \cap d.diagnosed # {}

-----------------------------------------------------------------------------
(***************************************************************************)
(* Changes, and the reasons they give on one side.                         *)
(***************************************************************************)
Sides == {"before", "after"}

File(m) == <<"file", m>>
EntityFile == <<"entity", 0>>
Subject(f) == <<"fact", f>>

Side(side, e) ==
    IF side = "after" THEN doc
    ELSE [doc EXCEPT !.facts = e.facts, !.diagnosed = e.diagnosed,
                     !.dispatches = e.dispatches, !.candidates = e.candidates]

\* addReason: one for every path, and another one if the path is uncertain.
Reasons(side, d, category, subject, paths) ==
    {[category |-> category, subject |-> subject, side |-> side, path |-> s] : s \in paths}
    \cup {[category |-> "unknown_due_to_incomplete_trace", subject |-> subject, side |-> side,
           path |-> s] : s \in {s \in paths : Incomplete(d, s)}}

\* processDirectEndpointChanges
DirectReasons(side, d, e) ==
    IF ~e.endpointModified THEN {}
    ELSE Reasons(side, d, "direct_endpoint_change", <<"endpoint", 0>>,
                 {At(m) : m \in ToSet(d.implementations)})

PathsToFile(d, file) == IF file = EntityFile THEN ToTable(d) ELSE ToMethod(d, file[2])

WithoutCalls(paths) == {s \in paths : \A i \in DOMAIN s.steps : s.steps[i].channel # "call"}

\* processSourceSide, for one changed file.
FileReasons(side, d, file) ==
    IF file = EntityFile
    THEN Reasons(side, d, "entity_declaration_file_change", file, ToTable(d))
    ELSE LET paths == ToMethod(d, file[2])
         IN  Reasons(side, d, "direct_endpoint_change", file, WithoutCalls(paths))
             \cup Reasons(side, d, "reachable_method_file_change", file,
                          paths \ WithoutCalls(paths))

\* Facts are the same fact when only their status differs.
Named(f) == [f EXCEPT !.status = "any"]
FactsNamed(d) == {Named(f) : f \in ToSet(d.facts)}

OnOneSide(f, e) == (Named(f) \in FactsNamed(doc)) # (Named(f) \in FactsNamed(Side("before", e)))

StatusChanged(f, e) ==
    ~OnOneSide(f, e) /\ (f \in ToSet(doc.facts)) # (f \in ToSet(e.facts))

\* processTableAccessChanges
TableReasons(side, d, e) ==
    UNION {Reasons(side, d, "table_access_fact_change", Subject(f),
                   Appended(ToMethod(d, f.from), f)) :
        f \in {f \in ToSet(d.facts) :
            f.channel = "table" /\ (OnOneSide(f, e) \/ StatusChanged(f, e))}}

\* processResolutionChanges: of the other facts, only calls lead to paths.
ResolutionReasons(side, d, e) ==
    UNION {Reasons(side, d, "diagnostic_or_resolution_change", Subject(f),
                   Appended(ToMethod(d, f.from), f)) :
        f \in {f \in ToSet(d.facts) : f.channel = "call" /\ StatusChanged(f, e)}}

\* processDiagnosticChanges
DiagnosticReasons(side, d, e) ==
    UNION {Reasons(side, d, "diagnostic_or_resolution_change", <<"diagnostic", m>>,
                   ToMethod(d, m)) :
        m \in d.diagnosed \ (doc.diagnosed \cap e.diagnosed)}

\* processInteractionChanges: interactions, handlers and dispatches, and the
\* effects of branches.
ToTarget(d, f) ==
    CASE f.channel = "call"  -> ToMethod(d, f.to[1])
      [] f.channel = "table" -> ToTable(d)
      [] OTHER               -> ToInteraction(d, f)

InteractionReasons(side, d, e) ==
    LET changed == {f \in ToSet(d.facts) : OnOneSide(f, e) \/ StatusChanged(f, e)}
        handlers == (doc.candidates \ e.candidates) \cup (e.candidates \ doc.candidates)
                    \cup (d.dispatches \ (doc.dispatches \cap e.dispatches))
        Due(subject, paths) == Reasons(side, d, "diagnostic_or_resolution_change", subject, paths)
    IN  (UNION {Due(Subject(f), ToInteraction(d, f)) : f \in {f \in changed : IsInteraction(f)}})
        \cup (UNION {Due(<<"handler", m>>, ToHandler(d, m)) : m \in handlers})
        \cup UNION {Due(Subject(f), ToTarget(d, f)) : f \in {f \in changed : BranchesOf(d, f) # {}}}

ReasonsOf(side, e) ==
    LET d == Side(side, e)
    IN  DirectReasons(side, d, e) \cup (UNION {FileReasons(side, d, file) : file \in e.changed})
        \cup TableReasons(side, d, e) \cup ResolutionReasons(side, d, e)
        \cup DiagnosticReasons(side, d, e) \cup InteractionReasons(side, d, e)

\* buildUnreachableSourceChanges: a diagnostic in the file qualifies it.
Unreachable(e) ==
    {[file |-> file, qualified |-> file[2] \in doc.diagnosed \cup e.diagnosed] :
        file \in {file \in e.changed :
            \A side \in Sides : PathsToFile(Side(side, e), file) = {}}}

-----------------------------------------------------------------------------
(***************************************************************************)
(* The earlier documents: the same, without one fact, with a fact of       *)
(* another status, or with other diagnostics, dispatches or candidates.    *)
(***************************************************************************)
Same == [facts |-> doc.facts, diagnosed |-> doc.diagnosed, dispatches |-> doc.dispatches,
         candidates |-> doc.candidates, endpointModified |-> FALSE,
         changed |-> {File(m) : m \in Methods} \cup {EntityFile}]

Earlier ==
    {Same, [Same EXCEPT !.endpointModified = TRUE], [Same EXCEPT !.diagnosed = {}],
     [Same EXCEPT !.candidates = {}, !.dispatches = {}, !.changed = {}]}
    \cup {[Same EXCEPT !.facts = RemoveAt(@, i), !.changed = {}] : i \in DOMAIN doc.facts}
    \cup {[Same EXCEPT !.facts[i].status = "ambiguous", !.changed = {}] : i \in DOMAIN doc.facts}

ImpactInit == Init /\ earlier = NotCompared /\ impact = NoImpact

Trace == TracesNext /\ UNCHANGED <<earlier, impact>>

AnalyzeImpact ==
    /\ pc = "done" /\ doc.asked = "impact" /\ doc.root = "endpoint" /\ earlier = NotCompared
    /\ \E e \in Earlier :
          /\ earlier' = e
          /\ impact' = [reasons |-> UNION {ReasonsOf(side, e) : side \in Sides},
                        unreachable |-> Unreachable(e)]
    /\ UNCHANGED vars

ImpactNext == Trace \/ AnalyzeImpact

ImpactSpec == ImpactInit /\ [][ImpactNext]_impactVars

-----------------------------------------------------------------------------
Compared == earlier # NotCompared

\* The calls on the way to a state, behind every interaction it crossed.
CallsTo(s) == Cardinality(s.path) - 1 - s.hop

\* A selector is carried beyond the producers of its own handler, so that
\* jobs of two names hide each other.
OneJob == \A f, g \in ToSet(doc.facts) : f.channel = "queue" /\ g.channel = "queue" => f.job = g.job

\* Behind a method with branches that is called, a selector is carried that no
\* job has chosen.
OnlyJobsRunBranches ==
    \A f \in ToSet(doc.facts) : f.channel # "queue" => ToSet(f.to) \cap doc.dispatches = {}

(***************************************************************************)
(* What the trace of the endpoint passes, the impact reports: a file that  *)
(* changed and a table access that is new, for every state of the walk     *)
(* forwards that takes no more calls in all than the walk backwards counts *)
(* (the trace starts a new count behind every interaction), in documents   *)
(* with one job name, the branches of which only jobs run.                 *)
(***************************************************************************)
TracedChangesAreReported ==
    Compared /\ OneJob /\ OnlyJobsRunBranches =>
        \A i \in {i \in DOMAIN queue : CallsTo(queue[i]) <= Limits.depth} :
            LET Reported(subject) ==
                    \E r \in impact.reasons : r.side = "after" /\ r.subject = subject
            IN  /\ File(queue[i].methodId) \in earlier.changed => Reported(File(queue[i].methodId))
                /\ \A f \in TableAccesses(queue[i]) :
                      OnOneSide(f, earlier) => Reported(Subject(f))

\* A call or table access inside a branch that is itself what changed is
\* reported for every producer of the handler: its path starts at the method,
\* and carries no selector.
ReportedForEveryProducer(r) ==
    \E f \in ToSet(r.path.steps) :
        r.subject = Subject(f) /\ ~IsInteraction(f) /\ BranchesOf(doc, f) # {}

\* What lies outside the branches of a handler has no selector, and the trace
\* does not follow it behind a job.
OutsideTheBranches(r) ==
    \E f \in ToSet(r.path.steps) : f.from \in doc.dispatches /\ BranchesOf(doc, f) = {}

(***************************************************************************)
(* What the impact reports, the program can do: the method where a path    *)
(* ends is reached from the endpoint, and by a job whose branch makes the  *)
(* first call or interaction behind the handler. Two handlers with         *)
(* branches on one path vouch for each other, and are left out.            *)
(***************************************************************************)
ReportedPathsAreReal ==
    Compared /\ doc.candidates = {} /\ (\A m, n \in doc.dispatches : m = n) =>
        LET performed == UNION {FactsAt(ToSet(doc.facts), p) : p \in Places(ToSet(doc.facts))}
        IN  \A r \in impact.reasons :
                r.side = "after" /\ ~ReportedForEveryProducer(r) /\ ~OutsideTheBranches(r) =>
                    ToSet(r.path.steps) \subseteq performed

\* What changed behind an endpoint is reported, and what is reported can be
\* reached.
ImpactIsHonest == TracedChangesAreReported /\ ReportedPathsAreReal

=============================================================================
