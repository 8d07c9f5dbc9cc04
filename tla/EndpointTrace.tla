---------------------------- MODULE EndpointTrace ----------------------------
(***************************************************************************)
(* buildEndpointTrace (src/src/tracing/endpoint-trace.ts): the breadth-    *)
(* first walk from an endpoint over the facts of an analysis document. The *)
(* walk follows calls (up to maxCallDepth), crosses interactions to their  *)
(* local handlers (up to maxInteractionHops), enters critical sections,    *)
(* and records every table access it meets with the causal class under     *)
(* which it was met. What it leaves out it must report as a diagnostic: a  *)
(* trace without diagnostics is published as "complete".                   *)
(*                                                                         *)
(* A document is the data the walk reads; assertions are sorted by id, so  *)
(* the facts are a sequence.  A fact has                                   *)
(*   from      the method that makes it,                                   *)
(*   channel   "call", "table", or for an interaction "sync", "async",     *)
(*             "queue" (job queue or microservice message),                *)
(*   to        the callee, or the methods of the matched handlers in order,*)
(*   region    "body", "section" (inside a critical section of the method) *)
(*             or a job (inside the job-queue branch of that job),         *)
(*   job       the job of a queue interaction,                             *)
(*   status    "resolved" or "ambiguous"; others are not traversable and   *)
(*             not listed.                                                 *)
(* A handler is the method it is implemented by. One that listens to an    *)
(* in-process event (channel "sync" for emit(), "async" for emitAsync())   *)
(* has a timing of its own, "unknown" when the options of its decorator    *)
(* are dynamic. The root of the walk is an endpoint, or a handler (see     *)
(* HandlerTrace). An access is of a table or of a resource: both take the  *)
(* same route, and a terminal is kept for either.                          *)
(***************************************************************************)
EXTENDS Integers, FiniteSets, SequencesExt

CONSTANTS
    Methods,    \* the methods of the analysed program
    Families    \* the families of analysis documents the walk is started on

\* Methods are numbered in the order of their ids.
ASSUME MethodsAssumption == Methods \subseteq Nat /\ IsFiniteSet(Methods)

VARIABLES
    doc,          \* the document being traced
    pc,           \* "select", "walk", "done", or the refusal that was returned
    queue,        \* queue: the states in the order they were enqueued
    cursor,       \* the index of the next state to visit
    seenStates,   \* the keys of the enqueued states
    terminals,    \* the terminals by key: <<method, what is accessed, causal class>>
    diagnostics   \* generatedDiagnostics, then the diagnostics of the trace

vars == <<doc, pc, queue, cursor, seenStates, terminals, diagnostics>>

LocalClasses == {"local_interaction_synchronous", "local_interaction_asynchronous"}
Classes == LocalClasses \cup
    {"synchronous", "critical_section_conditional", "distributed_conditional"}
NoClass == "none"   \* null: the rule of a handler names no timing
AccessKinds == {"table", "resource"}
Timings == {"sync", "async", "unknown"}
Jobs == {"generate", "cleanup"}
Filters == {"*", "section"} \cup Jobs
Refusals == {"analysis_failure", "not_found", "ambiguous", "range_error"}

Assertions ==
    [from : Methods, channel : {"call", "table", "sync", "async", "queue"}, to : Seq(Methods),
     region : {"body", "section"} \cup Jobs, job : Jobs, status : {"resolved", "ambiguous"}]

Configurations == [depth : Nat, hops : Nat, fanOut : Nat, states : Nat]

\* Documents are valid: a fact names methods of the document, and a call its
\* callee (evidence/validate.ts).
ASSUME FamiliesAssumption ==
    \A family \in Families :
        /\ family.fixed \in Seq(Assertions) /\ family.loose \subseteq Assertions
        /\ \A f \in ToSet(family.fixed) \cup family.loose : f.channel = "call" => f.to # <<>>
        /\ family.count \in Nat
        /\ family.configurations \subseteq Configurations
        /\ family.implementations \subseteq Seq(Methods)
        /\ family.timings \subseteq [Methods -> Timings]
        /\ family.roots \subseteq {"endpoint", "queue"} \cup Timings

-----------------------------------------------------------------------------
(***************************************************************************)
(* Reading the document.                                                   *)
(***************************************************************************)
Limits == doc.configuration

FactsOf(m) == {f \in ToSet(doc.facts) : f.from = m}

\* A filter names the facts of the method a state is restricted to; "*" is
\* the null filter, which hides only the effects of critical sections.
Applies(f, filter) == IF filter = "*" THEN f.region # "section" ELSE f.region = filter

Direct(s) == {f \in FactsOf(s.methodId) : Applies(f, s.filter)}

Interactions(s) == {f \in Direct(s) : f.channel \in {"sync", "async", "queue"}}
Calls(s) == {f \in Direct(s) : f.channel = "call"}
TableAccesses(s) == {f \in Direct(s) : f.channel = "table"}

\* The lock of a critical section is taken in the body of its method, which a
\* filtered state does not cover.
HasSection(s) ==
    /\ s.filter = "*"
    /\ \E f \in FactsOf(s.methodId) : f.region = "section"

-----------------------------------------------------------------------------
(***************************************************************************)
(* The accumulator of one visit: what enqueue and the diagnostics change.  *)
(***************************************************************************)
Accumulator == [queue |-> queue, seen |-> seenStates, diagnostics |-> diagnostics]

Diagnose(acc, code, subject, reason) ==
    [acc EXCEPT !.diagnostics = @ \cup {<<code, subject, reason>>}]

\* enqueue: the path is not part of the key.
Key(s) == <<s.methodId, s.depth, s.hop, s.class, s.filter>>

StateLimitReported(acc) == \E d \in acc.diagnostics : d[3] = "states"

\* Wrong: the states beyond the limit are dropped without a diagnostic.
EnqueueSilentlyFull(acc, s) ==
    IF Key(s) \in acc.seen \/ Cardinality(acc.seen) >= Limits.states THEN acc
    ELSE [acc EXCEPT !.queue = Append(@, s), !.seen = @ \cup {Key(s)}]

Enqueue(acc, s) ==
    CASE Key(s) \in acc.seen -> acc
      [] Key(s) \notin acc.seen /\ Cardinality(acc.seen) >= Limits.states ->
            IF StateLimitReported(acc) THEN acc
            ELSE Diagnose(acc, "INTERACTION_TRACE_LIMIT_REACHED", s.methodId, "states")
      [] OTHER -> [acc EXCEPT !.queue = Append(@, s), !.seen = @ \cup {Key(s)}]

\* What decides the class behind the handler m: emitAsync() is asynchronous
\* for every listener, emit() leaves it to the listener.
TimingOf(f, m) == IF f.channel = "sync" THEN doc.timings[m] ELSE f.channel

\* Wrong: an interaction leaves the critical section it was made in.
NextClassForgetsLock(class, timing) ==
    CASE timing = "queue" \/ class = "distributed_conditional" -> "distributed_conditional"
      [] timing = "async"   -> "local_interaction_asynchronous"
      [] timing = "sync"    -> "local_interaction_synchronous"
      [] timing = "unknown" -> NoClass

\* The causal class behind an interaction, none if nothing tells it.
NextClass(class, timing) ==
    IF timing = "queue" \/ class = "distributed_conditional" THEN "distributed_conditional"
    ELSE IF class = "critical_section_conditional" THEN class
    ELSE CASE timing = "async"   -> "local_interaction_asynchronous"
           [] timing = "sync"    -> "local_interaction_synchronous"
           [] timing = "unknown" -> NoClass

SectionClass(class) ==
    IF class = "distributed_conditional" THEN class ELSE "critical_section_conditional"

\* A handler with a dispatch is entered in the branch its producer selects.
BranchFilter(f, m) ==
    IF doc.root = "endpoint" /\ f.channel = "queue" /\ m \in doc.dispatches THEN f.job ELSE "*"

EnterSection(acc, s) ==
    IF HasSection(s)
    THEN Enqueue(acc, [s EXCEPT !.class = SectionClass(@), !.filter = "section"])
    ELSE acc

\* An endpoint's trace does not enter a handler of no class, and says nothing.
PassedOver(s, f, m) == doc.root = "endpoint" /\ NextClass(s.class, TimingOf(f, m)) = NoClass

\* One matched handler m of the interaction f.
Deliver(acc, s, f, m) ==
    IF m \in doc.candidates THEN acc
    ELSE IF m \in s.path THEN Diagnose(acc, "INTERACTION_CYCLE_TRUNCATED", m, "cycle")
    ELSE IF s.hop >= Limits.hops
    THEN Diagnose(acc, "INTERACTION_TRACE_LIMIT_REACHED", f.from, "hops")
    ELSE IF PassedOver(s, f, m) THEN acc
    ELSE Enqueue(acc, [methodId |-> m, depth |-> 0, hop |-> s.hop + 1,
                       class |-> NextClass(s.class, TimingOf(f, m)),
                       filter |-> BranchFilter(f, m), path |-> s.path \cup {m}])

Matches(f) == SubSeq(f.to, 1, IF Len(f.to) <= Limits.fanOut THEN Len(f.to) ELSE Limits.fanOut)

\* An interaction: the first handlers up to the fan-out limit, in order.
Interact(acc, s, f) ==
    FoldLeft(LAMBDA a, m : Deliver(a, s, f, m),
             IF Len(f.to) > Limits.fanOut
             THEN Diagnose(acc, "INTERACTION_TRACE_LIMIT_REACHED", f.from, "fan-out")
             ELSE acc,
             Matches(f))

\* The interactions of the state, in the order of the document.
Cross(acc, s) ==
    LET interactions == Interactions(s)
    IN  FoldLeft(LAMBDA a, f : IF f \in interactions THEN Interact(a, s, f) ELSE a, acc, doc.facts)

Follow(acc, s, f) ==
    IF f.to[1] \in s.path THEN acc
    ELSE Enqueue(acc, [s EXCEPT !.methodId = f.to[1], !.depth = @ + 1,
                                !.filter = "*", !.path = @ \cup {f.to[1]}])

\* The calls of the state: none at the depth limit, which is reported.
FollowCalls(acc, s) ==
    LET calls == Calls(s)
    IN
    IF s.depth < Limits.depth
    THEN FoldLeft(LAMBDA a, f : IF f \in calls THEN Follow(a, s, f) ELSE a, acc, doc.facts)
    ELSE IF calls # {} THEN Diagnose(acc, "CALL_DEPTH_LIMIT", s.methodId, "depth")
    ELSE acc

Commit(acc) ==
    /\ queue' = acc.queue
    /\ seenStates' = acc.seen
    /\ diagnostics' = acc.diagnostics

-----------------------------------------------------------------------------
\* A family fixes everything of a document but the order and the choice of
\* at most `count` of its `loose` facts.
Documents(family, chosen) ==
    [facts : {family.fixed \o chosen}, configuration : family.configurations,
     implementations : family.implementations, candidates : family.candidates,
     dispatches : family.dispatches, timings : family.timings, diagnosed : family.diagnosed,
     resultState : family.resultStates, matching : family.matchings, root : family.roots,
     asked : family.asked]

Init ==
    /\ \E family \in Families : \E n \in 0..family.count :
          \E chosen \in [1..n -> family.loose] :
             /\ IsInjective(chosen)
             /\ doc \in Documents(family, chosen)
    /\ pc = "select"
    /\ queue = <<>>
    /\ cursor = 1
    /\ seenStates = {}
    /\ terminals = {}
    /\ diagnostics = {}

\* The selection of the endpoint and the checks before the walk.
Verdict ==
    IF doc.resultState \in {"failed", "canceled"} THEN "analysis_failure"
    ELSE IF doc.matching = 0 THEN "not_found"
    ELSE IF doc.matching > 1 THEN "ambiguous"
    ELSE IF doc.configuration.depth \notin 1..3 THEN "range_error"
    ELSE "walk"

Refuse ==
    /\ pc = "select"
    /\ doc.root = "endpoint"
    /\ Verdict # "walk"
    /\ pc' = Verdict
    /\ UNCHANGED <<doc, queue, cursor, seenStates, terminals, diagnostics>>

Entry(m) == [methodId |-> m, depth |-> 0, hop |-> 0, class |-> "synchronous",
             filter |-> "*", path |-> {m}]

\* The queue in the order of its methods; the entries have one each.
Sorted(q) ==
    {t \in [DOMAIN q -> ToSet(q)] :
        /\ ToSet(t) = ToSet(q)
        /\ \A i, j \in DOMAIN q : i < j => t[i].methodId <= t[j].methodId}

\* The implementations of the endpoint are enqueued in the order of their
\* ids, then the queue is sorted by method.
Start ==
    /\ pc = "select"
    /\ doc.root = "endpoint"
    /\ Verdict = "walk"
    /\ LET acc == FoldLeft(LAMBDA a, m : Enqueue(a, Entry(m)), Accumulator, doc.implementations)
       IN  \E sorted \in Sorted(acc.queue) : Commit([acc EXCEPT !.queue = sorted])
    /\ pc' = "walk"
    /\ UNCHANGED <<doc, cursor, terminals>>

\* One turn of the cursor loop: sections, interactions, terminals, calls.
Visit ==
    /\ pc = "walk"
    /\ doc.root = "endpoint"
    /\ cursor <= Len(queue)
    /\ LET s == queue[cursor]
       IN  /\ Commit(FollowCalls(Cross(EnterSection(Accumulator, s), s), s))
           /\ terminals' = terminals \cup
                              {<<s.methodId, kind, s.class>> : f \in TableAccesses(s), kind \in AccessKinds}
    /\ cursor' = cursor + 1
    /\ UNCHANGED <<doc, pc>>

Reached == {queue[i].methodId : i \in DOMAIN queue}

\* The end of the walk: the document's own diagnostics on what was reached
\* join the generated ones.
Finish ==
    /\ pc = "walk"
    /\ cursor > Len(queue)
    /\ pc' = "done"
    /\ diagnostics' = diagnostics \cup
           {<<"document", m, "document">> : m \in doc.diagnosed \cap Reached}
    /\ UNCHANGED <<doc, queue, cursor, seenStates, terminals>>

Next == Refuse \/ Start \/ Visit \/ Finish

Spec == Init /\ [][Next]_vars

-----------------------------------------------------------------------------
(***************************************************************************)
(* What the trace is about: the walks of the program the facts describe,   *)
(* with no limit, no path and no order.  A place is a method entered under *)
(* a filter, and what the walk there has crossed.                          *)
(***************************************************************************)
RootPlace(m) ==
    [methodId |-> m, filter |-> "*", queued |-> doc.root = "queue", locked |-> FALSE,
     timing |-> IF doc.root \in Timings THEN doc.root ELSE "none"]

RegionsOf(filter) ==
    IF filter = "*" THEN {"body"} \cup Jobs ELSE {filter}

FactsAt(F, p) == {f \in F : f.from = p.methodId /\ f.region \in RegionsOf(p.filter)}

ArrowsFrom(F, p) ==
    LET facts == FactsAt(F, p)
        called == {[p EXCEPT !.methodId = f.to[1], !.filter = "*"] :
                       f \in {g \in facts : g.channel = "call"}}
        entered == {[p EXCEPT !.filter = "section", !.locked = TRUE] :
                        f \in {g \in F : /\ g.from = p.methodId
                                         /\ g.region = "section"
                                         /\ p.filter = "*"}}
        crossed == UNION {{[p EXCEPT !.methodId = m, !.filter = BranchFilter(f, m),
                                     !.queued = @ \/ f.channel = "queue",
                                     !.timing = TimingOf(f, m)] :
                               m \in ToSet(f.to) \ doc.candidates} :
                          f \in {g \in facts : g.channel \in {"sync", "async", "queue"}}}
    IN  called \cup entered \cup crossed

\* The places reached over the facts F; MaxArrows bounds the walks.
MaxArrows == 4 * Cardinality(Methods)

Places(F) ==
    LET within[n \in 0..MaxArrows] ==
            IF n = 0 THEN {RootPlace(m) : m \in ToSet(doc.implementations)}
            ELSE LET before == within[n - 1]
                 IN  before \cup UNION {ArrowsFrom(F, p) : p \in before}
    IN  within[MaxArrows]

ClassOf(p) ==
    IF p.queued THEN "distributed_conditional"
    ELSE IF p.locked THEN "critical_section_conditional"
    ELSE CASE p.timing = "none"  -> "synchronous"
           [] p.timing = "sync"  -> "local_interaction_synchronous"
           [] p.timing = "async" -> "local_interaction_asynchronous"
           [] p.timing = "unknown" -> NoClass

EffectsOf(places) ==
    {<<p.methodId, kind, ClassOf(p)>> : kind \in AccessKinds,
        p \in {q \in places : \E f \in FactsAt(ToSet(doc.facts), q) : f.channel = "table"}}

PublishedComplete == pc = "done" /\ diagnostics = {}

\* A method with branches is only entered as a handler: the trace drops a call
\* back to one that it has entered in a branch.
BranchesAreDispatched ==
    \A f \in ToSet(doc.facts) : f.channel = "call" => f.to[1] \notin doc.dispatches

-----------------------------------------------------------------------------
(***************************************************************************)
(* Properties.                                                             *)
(***************************************************************************)

\* From a listener, a resource met without a class is published as met
\* synchronously; a table is published without a class.
AssumedSynchronous(effects) ==
    {<<e[1], "resource", "local_interaction_synchronous">> :
        e \in {e \in effects : doc.root \in Timings /\ e[3] = NoClass}}

\* The trace never claims an effect, or a causal class for an effect, that
\* no walk of the program has: an effect met behind a queue is distributed,
\* one met in a critical section is conditional on the lock, whatever order
\* the walk crosses them in, one behind a listener of unknown timing has no
\* class, and a handler branch that the producer does not select contributes
\* nothing (appliesDirectly and nextCausalClass).
EffectsAreReal ==
    pc = "done" =>
        LET effects == EffectsOf(Places(ToSet(doc.facts)))
        IN  terminals \subseteq effects \cup AssumedSynchronous(effects)

\* A registered handler that the walk stood before and did not enter.
SomePassedOver ==
    \E i \in DOMAIN queue : \E f \in Interactions(queue[i]) :
        \E m \in ToSet(f.to) \ doc.candidates : PassedOver(queue[i], f, m)

\* A trace published as complete hides nothing but what is behind a listener
\* of unknown timing that it stood before: short of that it has reached every
\* method that some walk of the program reaches, so limits and cycles that
\* hide one are reported; and it has crossed every interaction of every state
\* it visited, to every other registered handler, with the class of the
\* crossing, so deduplication drops no crossing that was not already made.
CompleteTraceHidesNothing ==
    PublishedComplete =>
        /\ BranchesAreDispatched /\ ~SomePassedOver =>
               {p.methodId : p \in Places(ToSet(doc.facts))} \subseteq Reached
        /\ \A i \in DOMAIN queue : \A f \in Interactions(queue[i]) :
              \A m \in ToSet(f.to) \ doc.candidates :
                  \/ PassedOver(queue[i], f, m)
                  \/ \E j \in DOMAIN queue :
                        /\ queue[j].methodId = m
                        /\ queue[j].depth = 0
                        /\ queue[j].hop = queue[i].hop + 1
                        /\ queue[j].class = NextClass(queue[i].class, TimingOf(f, m))

\* "causalSummary ... carries explicit completeness diagnostics" and
\* "Path-aware cycles stop with INTERACTION_CYCLE_TRUNCATED"
\* (docs/in-process-events.md): a trace without diagnostics has every effect
\* with every causal class under which the program performs it.
CompleteTraceHasEveryEffect ==
    PublishedComplete => EffectsOf(Places(ToSet(doc.facts))) \subseteq terminals

=============================================================================
