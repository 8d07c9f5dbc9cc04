--------------------------- MODULE CriticalSections ---------------------------
(***************************************************************************)
(* The callbacks that run while a Redlock lock is held:                    *)
(* src/src/extractors/redlock-critical-sections.ts for the using() calls   *)
(* of a method, and critical-section-wrapper-flow.ts for the methods that  *)
(* hand a callback parameter on to one, through a bounded number of other  *)
(* methods.                                                                *)
(*                                                                         *)
(* What the extractor reads is one record, the locking:                    *)
(*   roles     the methods (numbers, in the order of the sources) whose    *)
(*             class is a controller, a provider or a processor,           *)
(*   callable  the pairs <<method, position>> of the parameters that are   *)
(*             plain, without default and of a callable type,              *)
(*   usings    the calls [at, method, nested, inline, listed, resources,  *)
(*             invokes] of using(): inline when the last argument is a     *)
(*             function, which calls the parameters in invokes; listed     *)
(*             when the resources are a constant array without spread,     *)
(*   calls     the method calls [at, method, nested, candidates, optional, *)
(*             spread, arguments]: an argument is a number when it is that *)
(*             parameter of the caller, else Inline or Other.              *)
(* A call is nested when it is inside a function of the method's body.     *)
(***************************************************************************)
EXTENDS Integers, Sequences, FiniteSets, SequencesExt, FiniteSetsExt

CONSTANTS
    MaxForwardingHops,      \* DEFAULT_CRITICAL_SECTION_WRAPPER_MAX_FORWARDING_HOPS
    MaxFlowStates,          \* DEFAULT_CRITICAL_SECTION_WRAPPER_MAX_FLOW_STATES
    MaxTargetCandidates,    \* DEFAULT_CRITICAL_SECTION_WRAPPER_MAX_TARGET_CANDIDATES
    MaxLockResources        \* MAX_LOCK_RESOURCES

ASSUME LockLimitsAssumption ==
    /\ MaxForwardingHops \in Nat
    /\ {MaxFlowStates, MaxTargetCandidates, MaxLockResources} \subseteq Nat \ {0}

\* What the parser makes of the code: finitely many calls, each at a place of
\* its own. 0 is the target of a call that is known to reach no one method.
LockingIsTyped(l) ==
    /\ IsFiniteSet(l.usings) /\ IsFiniteSet(l.calls)
    /\ l.callable \subseteq (Nat \ {0}) \X (Nat \ {0})
    /\ \A u \in l.usings :
          /\ {u.at, u.method} \subseteq Nat \ {0} /\ IsFiniteSet(u.invokes)
          /\ \A v \in l.usings : u.at = v.at => u = v
    /\ \A c \in l.calls :
          /\ {c.at, c.method} \subseteq Nat \ {0} /\ IsFiniteSet(c.candidates) /\ c.candidates \subseteq Nat \ {0}
          /\ c.arguments \in Seq(Int) /\ {c.optional, c.spread, c.nested} \subseteq BOOLEAN
          /\ \A d \in l.calls : c.at = d.at => c = d

VARIABLES
    locking,        \* what is read
    lockState,      \* "terminals", "propagating", "sites" or "extracted"
    summaries,      \* which parameters reach which using() call, and how
    lockIssues,     \* of the propagation: [kind, method, parameter, call]
    lockFacts       \* what extractRedlockCriticalSections returned

lockVars == <<locking, lockState, summaries, lockIssues, lockFacts>>

Inline == 0
Other == -1

NoSections == [sections |-> {}, diagnostics |-> {}]

-----------------------------------------------------------------------------
(***************************************************************************)
(* The using() calls.                                                      *)
(***************************************************************************)
Terminals == {u \in locking.usings : u.method \in locking.roles /\ ~u.nested}

LockIssue(using) ==
    IF ~using.listed \/ using.resources = <<>> THEN "CRITICAL_SECTION_TARGET_DYNAMIC"
    ELSE IF Len(using.resources) > MaxLockResources THEN "CRITICAL_SECTION_TARGET_LIMIT_EXCEEDED"
    ELSE "none"

\* Where the function is that is an argument of the call (0: the last one).
Spot(at, position) == 10 * at + position

\* The keys of the lock resources. All templates of one shape have one key.
LockTargets(using) == IF LockIssue(using) = "none" THEN using.resources ELSE <<"dynamic">>

DirectSection(using) ==
    [method |-> using.method, callback |-> Spot(using.at, 0), locks |-> LockTargets(using)]

DirectDiagnostics(using) ==
    IF ~using.inline THEN {<<"CRITICAL_SECTION_CALLBACK_UNSUPPORTED", using.method, using.at>>}
    ELSE {<<code, using.method, using.at>> : code \in {LockIssue(using)} \ {"none"}}
         \cup {<<"RESOURCE_ACCESS_TARGET_DYNAMIC", using.method, using.at>> :
                    key \in Range(LockTargets(using)) \cap (IF LockIssue(using) = "none" THEN {"dynamic"} ELSE {})}

-----------------------------------------------------------------------------
(***************************************************************************)
(* Summaries: [method, parameter, terminal, flow]. The flow is the path    *)
(* <<method, parameter, call>> of the parameter, its last step with call 0 *)
(* is the method of the using() call. One summary is kept per key, the     *)
(* least one by hops and then by path.                                     *)
(***************************************************************************)
Before(s, t) ==
    \E n \in DOMAIN s \cap DOMAIN t : s[n] < t[n] /\ \A m \in 1..(n - 1) : s[m] = t[m]

\* SetToSortSeq would enumerate the permutations.
InOrder(S, Less(_, _)) ==
    [n \in 1..Cardinality(S) |-> CHOOSE x \in S : Cardinality({y \in S : Less(y, x)}) = n - 1]

Key(summary) == <<summary.method, summary.parameter, summary.terminal>>

Hops(summary) == Len(summary.flow) - 1

Path(summary) == FlattenSeq(summary.flow)

\* compareFlowSummaries, for summaries of one key.
Better(a, b) == Before(<<Hops(a)>> \o Path(a), <<Hops(b)>> \o Path(b))

DirectSummaries ==
    UNION {{[method |-> u.method, parameter |-> p, terminal |-> u.at, flow |-> <<<<u.method, p, 0>>>>] :
                p \in {p \in u.invokes : <<u.method, p>> \in locking.callable}} :
        u \in {u \in Terminals : u.inline}}

Limited(issues) == \E issue \in issues : issue.kind = "state_limit"

SeedOrder(a, b) == Before(<<a.method, a.terminal, a.parameter>>, <<b.method, b.terminal, b.parameter>>)

\* The limit holds for the first summaries too: what is behind it is cut.
FindTerminals ==
    /\ lockState = "terminals"
    /\ LET found == InOrder(DirectSummaries, SeedOrder)
           cut == Len(found) > MaxFlowStates
       IN  /\ summaries' = Range(SubSeq(found, 1, IF cut THEN MaxFlowStates ELSE Len(found)))
           /\ lockIssues' = IF ~cut THEN {}
                            ELSE {[kind |-> "state_limit", method |-> found[MaxFlowStates + 1].method,
                                   parameter |-> found[MaxFlowStates + 1].parameter,
                                   call |-> found[MaxFlowStates + 1].terminal]}
           /\ lockState' = IF found = <<>> \/ cut THEN "sites" ELSE "propagating"
    /\ UNCHANGED <<locking, lockFacts>>

-----------------------------------------------------------------------------
(***************************************************************************)
(* The propagation from the callee to its callers.                         *)
(***************************************************************************)
VisibleCalls == {c \in locking.calls : ~c.nested}

\* exactRepositoryMethodTarget: 0 stands for none.
Target(call) ==
    IF ~call.optional /\ Cardinality(call.candidates) = 1 THEN CHOOSE m \in call.candidates : TRUE
    ELSE 0

ForwardingEdges ==
    UNION {{[method |-> c.method, parameter |-> c.arguments[i], call |-> c.at, target |-> Target(c), position |-> i] :
                i \in {i \in DOMAIN c.arguments : /\ <<c.method, c.arguments[i]>> \in locking.callable
                                                  /\ <<Target(c), i>> \in locking.callable}} :
        c \in {c \in VisibleCalls : Target(c) # 0 /\ ~c.spread}}

\* The matching pairs of an edge and a summary of the last pass, in order.
Pairs ==
    LET matching == {pair \in ForwardingEdges \X summaries :
                        pair[2].method = pair[1].target /\ pair[2].parameter = pair[1].position}
    IN  InOrder(matching,
            LAMBDA p, q : Before(<<p[1].method, p[1].parameter, p[1].call, p[1].position, p[2].terminal>>,
                                 <<q[1].method, q[1].parameter, q[1].call, q[1].position, q[2].terminal>>))

OnPath(edge, summary) == \E n \in DOMAIN summary.flow :
    summary.flow[n][1] = edge.method /\ summary.flow[n][2] = edge.parameter

Extended(edge, summary) ==
    [method |-> edge.method, parameter |-> edge.parameter, terminal |-> summary.terminal,
     flow |-> <<<<edge.method, edge.parameter, edge.call>>>> \o summary.flow]

IssueOf(kind, edge) ==
    [kind |-> kind, method |-> edge.method, parameter |-> edge.parameter, call |-> edge.call]

SameKey(known, candidate) == {s \in known : Key(s) = Key(candidate)}

\* Wrong: a longer flow is dropped without a word.
FollowSilently(pass, pair) ==
    IF Hops(pair[2]) >= MaxForwardingHops THEN pass
    ELSE LET candidate == Extended(pair[1], pair[2])
         IN  IF SameKey(pass.summaries, candidate) # {} THEN pass
             ELSE [pass EXCEPT !.summaries = @ \cup {candidate}]

\* One round of the two loops over [summaries, issues].
Follow(pass, pair) ==
    LET candidate == Extended(pair[1], pair[2])
        existing == SameKey(pass.summaries, candidate)
        With(kind) == [pass EXCEPT !.issues = @ \cup {IssueOf(kind, pair[1])}]
    IN  IF Limited(pass.issues) THEN pass
        ELSE IF OnPath(pair[1], pair[2]) THEN With("cycle")
        ELSE IF Hops(pair[2]) >= MaxForwardingHops THEN With("hop_limit")
        ELSE IF \E s \in existing : ~Better(candidate, s) THEN pass
        ELSE IF existing = {} /\ Cardinality(pass.summaries) >= MaxFlowStates THEN With("state_limit")
        ELSE [pass EXCEPT !.summaries = (@ \ existing) \cup {candidate}]

\* One turn of the while loop; it ends when a turn changes nothing.
Propagate ==
    /\ lockState = "propagating"
    /\ LET pass == FoldLeft(Follow, [summaries |-> summaries, issues |-> lockIssues], Pairs)
       IN  /\ summaries' = pass.summaries /\ lockIssues' = pass.issues
           /\ lockState' = IF pass.summaries = summaries \/ Limited(pass.issues) THEN "sites" ELSE "propagating"
    /\ UNCHANGED <<locking, lockFacts>>

-----------------------------------------------------------------------------
(***************************************************************************)
(* The calls that hand a callback to a wrapper.                            *)
(***************************************************************************)
SummarizedParameters(method) == {s.parameter : s \in {s \in summaries : s.method = method}}

CandidateParameters(call) == UNION {SummarizedParameters(m) : m \in call.candidates}

SiteCalls == {c \in VisibleCalls : c.method \in locking.roles}

IsInline(call, position) == ~call.spread /\ position \in DOMAIN call.arguments /\ call.arguments[position] = Inline

Site(call, position) == [call |-> call, position |-> position]

ProjectedSites ==
    UNION {{Site(c, p) : p \in {p \in SummarizedParameters(Target(c)) : IsInline(c, p)}} :
        c \in {c \in SiteCalls : Target(c) # 0}}

UnprovenSites ==
    (UNION {{Site(c, p) : p \in {p \in SummarizedParameters(Target(c)) : ~IsInline(c, p)}} :
        c \in {c \in SiteCalls : Target(c) # 0}})
    \cup {Site(c, Min(CandidateParameters(c))) :
        c \in {c \in SiteCalls : c.optional /\ Cardinality(c.candidates) = 1 /\ CandidateParameters(c) # {}}}

AmbiguousCalls(limited) ==
    {c \in SiteCalls :
        /\ Cardinality(c.candidates) > 1 /\ CandidateParameters(c) # {}
        /\ limited <=> Cardinality(c.candidates) > MaxTargetCandidates}

\* A call on the path of a kept summary is no call with an unproven callback.
ProvenForwardingCalls == UNION {{s.flow[n][3] : n \in DOMAIN s.flow} : s \in summaries}

SiteDiagnostics ==
    {<<"CRITICAL_SECTION_CALLBACK_FLOW_UNPROVEN", site.call.method, site.call.at>> :
        site \in {site \in UnprovenSites : site.call.at \notin ProvenForwardingCalls}}
    \cup {<<"CRITICAL_SECTION_WRAPPER_TARGET_AMBIGUOUS", c.method, c.at>> : c \in AmbiguousCalls(FALSE)}
    \cup {<<"CRITICAL_SECTION_WRAPPER_LIMIT_REACHED", c.method, c.at>> : c \in AmbiguousCalls(TRUE)}

\* The issues of the propagation, those in a class with a role only.
FlowDiagnostics ==
    {<<IF issue.kind = "cycle" THEN "CRITICAL_SECTION_WRAPPER_CYCLE_TRUNCATED"
       ELSE "CRITICAL_SECTION_WRAPPER_LIMIT_REACHED", issue.method, issue.call>> :
        issue \in {issue \in lockIssues : issue.method \in locking.roles}}

WrapperSection(site) ==
    [method |-> site.call.method, callback |-> Spot(site.call.at, site.position), locks |-> <<"dynamic">>]

ProjectSites ==
    /\ lockState = "sites"
    /\ lockFacts' = [sections |-> {DirectSection(u) : u \in {u \in Terminals : u.inline}}
                                  \cup {WrapperSection(site) : site \in ProjectedSites},
                     diagnostics |-> (UNION {DirectDiagnostics(u) : u \in Terminals})
                                     \cup FlowDiagnostics \cup SiteDiagnostics]
    /\ lockState' = "extracted"
    /\ UNCHANGED <<locking, summaries, lockIssues>>

ExtractLocks == FindTerminals \/ Propagate \/ ProjectSites

\* The arguments <<call, position>>.
PassedArguments == UNION {{<<c, i>> : i \in DOMAIN c.arguments} : c \in locking.calls}

\* The functions that the other extractors do not look into.
ClosedCallbacks ==
    ({Spot(u.at, 0) : u \in {u \in locking.usings : u.inline}}
     \cup {Spot(a[1].at, a[2]) : a \in {a \in PassedArguments : a[1].arguments[a[2]] = Inline}})
    \ {section.callback : section \in lockFacts.sections}

\* Two resources of one lock with one key have one id.
RepeatedLocks == {section \in lockFacts.sections : ~IsInjective(section.locks)}

-----------------------------------------------------------------------------
(***************************************************************************)
(* Which callbacks do run under a lock: those handed to a parameter that a *)
(* using() callback calls, or that is itself handed to such a parameter,   *)
(* by a call that may reach it. In a class without a role only the exact   *)
(* forwarding of a callable parameter counts: the rest is not reported.    *)
(***************************************************************************)
MayHand(call, position, pairs) ==
    \E pair \in pairs : pair[1] \in call.candidates /\ (call.spread \/ pair[2] = position)

Handing(pairs) ==
    {h \in PassedArguments :
        /\ h[1] \in VisibleCalls /\ MayHand(h[1], h[2], pairs)
        /\ h[1].method \in locking.roles \/ \E e \in ForwardingEdges : e.call = h[1].at /\ e.position = h[2]}

LockedParameters ==
    LET direct == {<<s.method, s.parameter>> : s \in DirectSummaries}
        step(pairs) == pairs \cup {<<h[1].method, h[1].arguments[h[2]]>> : h \in
                                     {h \in Handing(pairs) : h[1].arguments[h[2]] > 0}}
        locked[n \in 0..Cardinality(PassedArguments)] == IF n = 0 THEN direct ELSE step(locked[n - 1])
    IN  locked[Cardinality(PassedArguments)]

HandedToLock == {h \in Handing(LockedParameters) : h[1].method \in locking.roles}

\* A limit or a cycle met in a class without role is not reported.
OutsideNest == \E issue \in lockIssues : issue.method \notin locking.roles

\* An argument next to one that is forwarded has no diagnostic.
BesideForwarding ==
    \E site \in UnprovenSites :
        /\ site.call.at \in ProvenForwardingCalls
        /\ site.position \notin DOMAIN site.call.arguments
           \/ <<site.call.method, site.call.arguments[site.position]>> \notin locking.callable

(***************************************************************************)
(* The critical sections are those of the code: every callback that is     *)
(* projected is handed to a lock, and when no diagnostic says that the     *)
(* analysis is incomplete, every argument that may be handed to a lock is  *)
(* a projected callback or a forwarded parameter.                          *)
(***************************************************************************)
LocksAreHonest ==
    lockState = "extracted" =>
        /\ \A site \in ProjectedSites : <<site.call, site.position>> \in HandedToLock
        /\ \/ lockFacts.diagnostics # {} \/ OutsideNest \/ BesideForwarding
           \/ \A h \in HandedToLock :
                 \/ Site(h[1], h[2]) \in ProjectedSites
                 \/ h[1].arguments[h[2]] > 0 /\ h[1].at \in ProvenForwardingCalls

=============================================================================
