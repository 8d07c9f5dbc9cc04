------------------------------- MODULE Policy -------------------------------
(***************************************************************************)
(* Policies: evaluatePolicies (src/src/policy/evaluate.ts) judges an       *)
(* analysis by eight rules, for the exit code of the check command. A rule *)
(* says pass, fail, unknown or not_applicable of each subject, and an      *)
(* uncertain fact has to lead to unknown. The rules on writes read the     *)
(* terminal facts of a third walk (buildTerminalFacts of                   *)
(* src/src/comparison/projection.ts) beside the trace of the endpoint.     *)
(*                                                                         *)
(* The subjects are one controller, the endpoint of doc, and a set of      *)
(* interactions; what the walks do not read is one of PolicyFacts.         *)
(* Every table access of doc is a write to one table. Messages, evidence,  *)
(* canonical ids and the markdown are left out; all rules of a             *)
(* configuration have one severity and one onUnknown.                      *)
(***************************************************************************)
EXTENDS Impact

CONSTANT PolicyFacts   \* facts and configurations, see MCEndpointTrace

RuleIds == {"repository", "guard", "complete_trace", "diagnostics", "dynamic_target",
            "activation", "local_handler", "authorization"}

Statuses == {"resolved", "ambiguous", "unresolved", "unsupported"}
Severities == {"info", "warning", "error"}

\* Of the interactions only messages can have a target that is not known.
JudgedInteractions ==
    [kind : {"event", "request"}, target : {"static", "dynamic", "unknown"},
     activation : {"eager", "proven_activated", "constructed_cold", "unknown"},
     matches : SUBSET Statuses]

PolicyInputs ==
    [controllers : Nat, repository : SUBSET Statuses, unsupportedOperation : BOOLEAN,
     repositoryDiagnosed : BOOLEAN, sameKey : BOOLEAN,
     guards : SUBSET [scope : {"application_global", "controller", "method"}, status : Statuses],
     globalGuardState : {"none_proven", "declared", "unknown"}, firstSchema : BOOLEAN,
     writeMethod : BOOLEAN, unresolved : SUBSET Methods, gaps : SUBSET Methods,
     authorizationKnown : BOOLEAN,
     requirements : SUBSET {"proven_enforced", "configured_relationship", "enforcement_unknown"},
     baseline : [supplied : BOOLEAN, new : SUBSET Severities, ambiguous : BOOLEAN],
     minimumSeverity : Severities, interactions : SUBSET JudgedInteractions,
     interactionsComplete : BOOLEAN, rules : SUBSET RuleIds,
     severity : {"warn", "error"}, onUnknown : {"warn", "error"}]

ASSUME PolicyFactsAssumption ==
    /\ PolicyFacts \subseteq PolicyInputs
    /\ \A x \in PolicyFacts : \A i \in x.interactions : i.kind = "event" => i.target # "unknown"

VARIABLES
    facts,     \* the facts and the configuration, once they are evaluated
    results    \* [outcomes, exit]: what every rule said, and the exit code

policyVars == <<impactVars, facts, results>>

NotEvaluated == [exit |-> "none"]

-----------------------------------------------------------------------------
(***************************************************************************)
(* buildTerminalFacts: along calls only, and through every region.         *)
(***************************************************************************)
Called(s, f) == [method |-> f.to[1], sure |-> s.sure /\ f.status = "resolved"]

Onward(F, states) ==
    UNION {{Called(s, f) : f \in {f \in F : f.channel = "call" /\ f.from = s.method}} : s \in states}

\* Wrong: one call more than the analysis allows.
ProjectedTooFar(F) ==
    LET walk[n \in 0..(Limits.depth + 1)] ==
            IF n = 0 THEN {[method |-> m, sure |-> TRUE] : m \in ToSet(doc.implementations)}
            ELSE walk[n - 1] \cup Onward(F, walk[n - 1])
    IN  walk[Limits.depth + 1]

Projected(F) ==
    LET walk[n \in 0..Limits.depth] ==
            IF n = 0 THEN {[method |-> m, sure |-> TRUE] : m \in ToSet(doc.implementations)}
            ELSE walk[n - 1] \cup Onward(F, walk[n - 1])
    IN  walk[Limits.depth]

\* The writes that contribute, and whether all on the walk to them is resolved.
Contributors(F) ==
    UNION {{[method |-> s.method, sure |-> s.sure /\ f.status = "resolved"] :
               f \in {f \in F : f.channel = "table" /\ f.from = s.method}} : s \in Projected(F)}

-----------------------------------------------------------------------------
(***************************************************************************)
(* assessTrace: the gaps of the trace of the endpoint.                     *)
(***************************************************************************)
\* The steps of a state; past the depth limit no call becomes one.
Recorded(s) ==
    Interactions(s) \cup TableAccesses(s)
    \cup {f \in Calls(s) : s.depth < Limits.depth}

StepSubjects ==
    Reached \cup UNION {UNION {ToSet(Matches(f)) : f \in Recorded(queue[i])} : i \in DOMAIN queue}

Stops(s, x) == s.methodId \in x.unresolved /\ s.filter = "*" /\ s.depth < Limits.depth

HasGap(x) ==
    \/ pc # "done"
    \/ \E i \in DOMAIN queue :
          Stops(queue[i], x) \/ \E f \in Recorded(queue[i]) : f.status # "resolved"
    \/ x.gaps \cap StepSubjects # {}

-----------------------------------------------------------------------------
(***************************************************************************)
(* The rules. F are the facts of the document, x the others.               *)
(***************************************************************************)
RepositoryRule(x) ==
    IF x.controllers = 0 THEN "not_applicable"
    ELSE IF x.controllers > 1 THEN "unknown"
    ELSE IF "resolved" \in x.repository \/ x.unsupportedOperation THEN "fail"
    ELSE IF x.repository # {} \/ x.repositoryDiagnosed THEN "unknown"
    ELSE "pass"

\* endpointGroups: the endpoints with one key, that of their handler.
Snapshots(x) == IF doc.matching > 1 /\ ~x.sameKey THEN 1 ELSE doc.matching

\* buildEffectiveEndpointGuards: the first schema knows no global guards.
EffectiveGuards(x) == {g \in x.guards : x.firstSchema => g.scope # "application_global"}

GlobalGuardState(x) == IF x.firstSchema THEN "unknown" ELSE x.globalGuardState

\* Wrong: an endpoint without a guard counts as unguarded, whatever is global.
GuardStateOfEndpoint(x) ==
    IF EffectiveGuards(x) # {} THEN "guard_declared" ELSE "no_supported_guard_proven"

EffectiveGuardState(x) ==
    IF EffectiveGuards(x) # {} THEN "guard_declared"
    ELSE IF GlobalGuardState(x) = "none_proven" THEN "no_supported_guard_proven"
    ELSE "unknown"

GuardRule(F, x) ==
    LET statuses == {g.status : g \in EffectiveGuards(x)}
    IN  IF Snapshots(x) > 1 THEN "unknown"
        ELSE IF Snapshots(x) = 0 \/ Contributors(F) = {} THEN "not_applicable"
        ELSE IF \A c \in Contributors(F) : ~c.sure THEN "unknown"
        ELSE IF "resolved" \in statuses THEN "pass"
        ELSE IF statuses # {} \/ EffectiveGuardState(x) = "unknown" THEN "unknown"
        ELSE "fail"

CompleteTraceRule(F, x) ==
    LET resolved == \E c \in Contributors(F) : c.sure
    IN  IF Snapshots(x) > 1 THEN "unknown"
        ELSE IF Snapshots(x) = 0 THEN "not_applicable"
        ELSE IF resolved THEN IF HasGap(x) THEN "fail" ELSE "pass"
        ELSE IF Contributors(F) # {} \/ (x.writeMethod /\ HasGap(x)) THEN "unknown"
        ELSE "not_applicable"

AuthorizationRule(x) ==
    IF Snapshots(x) = 0 THEN "not_applicable"
    ELSE IF Snapshots(x) > 1 \/ ~x.authorizationKnown THEN "unknown"
    ELSE IF x.requirements = {} THEN "not_applicable"
    ELSE IF x.requirements = {"proven_enforced"} THEN "pass"
    ELSE "unknown"

SeverityRank == [info |-> 0, warning |-> 1, error |-> 2]

DiagnosticRule(x) ==
    IF ~x.baseline.supplied THEN "not_applicable"
    ELSE IF \E s \in x.baseline.new : SeverityRank[s] >= SeverityRank[x.minimumSeverity] THEN "fail"
    ELSE IF x.baseline.ambiguous THEN "unknown"
    ELSE "pass"

DynamicTargetRule(i) ==
    CASE i.target = "static" -> "pass" [] i.target = "dynamic" -> "fail" [] OTHER -> "unknown"

ActivationRule(i) ==
    CASE i.activation \in {"eager", "proven_activated"} -> "pass"
      [] i.activation = "constructed_cold" -> "fail"
      [] OTHER -> "unknown"

LocalHandlerRule(i, x) ==
    IF "resolved" \in i.matches THEN "pass"
    ELSE IF i.target = "dynamic" \/ ~x.interactionsComplete \/ i.matches # {} THEN "unknown"
    ELSE "fail"

\* One outcome for each subject, or one for the analysis without a subject.
PerSubject(outcomes) == IF outcomes = {} THEN {"not_applicable"} ELSE outcomes

Outcomes(rule, F, x) ==
    CASE rule = "repository"     -> {RepositoryRule(x)}
      [] rule = "guard"          -> {GuardRule(F, x)}
      [] rule = "complete_trace" -> {CompleteTraceRule(F, x)}
      [] rule = "diagnostics"    -> {DiagnosticRule(x)}
      [] rule = "dynamic_target" -> PerSubject({DynamicTargetRule(i) : i \in x.interactions})
      [] rule = "activation"     -> PerSubject({ActivationRule(i) : i \in x.interactions})
      [] rule = "local_handler"  -> PerSubject({LocalHandlerRule(i, x) :
                                                i \in {j \in x.interactions : j.kind = "event"}})
      [] rule = "authorization"  -> {AuthorizationRule(x)}

-----------------------------------------------------------------------------
\* policyResult: the findings that block.
Blocks(outcome, x) ==
    \/ outcome = "fail" /\ x.severity = "error"
    \/ outcome = "unknown" /\ x.onUnknown = "error"

\* check: what is evaluated is published, and decides on the exit code.
Evaluated(x) ==
    LET outcomes == [rule \in x.rules |-> Outcomes(rule, ToSet(doc.facts), x)]
    IN  [outcomes |-> outcomes,
         exit |-> IF \E rule \in x.rules : \E o \in outcomes[rule] : Blocks(o, x)
                  THEN "policy_violation" ELSE "success"]

\* The trace throws on a depth it does not support, when a rule asks for it.
Failed(x) ==
    \/ doc.resultState \in {"failed", "canceled"}
    \/ pc = "range_error" /\ "complete_trace" \in x.rules /\ Snapshots(x) = 1

CheckPolicies ==
    /\ doc.asked = "policy" /\ pc \in {"done"} \cup Refusals /\ results = NotEvaluated
    /\ \E x \in PolicyFacts :
          /\ facts' = x
          /\ results' = IF Failed(x) THEN [outcomes |-> <<>>, exit |-> "failure"] ELSE Evaluated(x)
    /\ UNCHANGED impactVars

PolicyInit == ImpactInit /\ facts = NotEvaluated /\ results = NotEvaluated

PolicyNext == (ImpactNext /\ UNCHANGED <<facts, results>>) \/ CheckPolicies

PolicySpec == PolicyInit /\ [][PolicyNext]_policyVars

-----------------------------------------------------------------------------
(***************************************************************************)
(* Properties.                                                             *)
(***************************************************************************)

(***************************************************************************)
(* The walk the policies and the comparison read and the trace that is     *)
(* published find the same writes on the way along calls: different        *)
(* queues, keys, regions and cycle rules, unless the trace reports that it *)
(* was cut at its limit of states.                                         *)
(***************************************************************************)
TerminalFactsAgreeWithTheTrace ==
    pc = "done" /\ doc.root = "endpoint" /\ ~StateLimitReported(Accumulator) =>
        {c.method : c \in Contributors(ToSet(doc.facts))}
            = {queue[i].methodId : i \in {i \in DOMAIN queue :
                  queue[i].hop = 0 /\ TableAccesses(queue[i]) # {}}}

(***************************************************************************)
(* Completions: what the code may turn out to do where the analysis is     *)
(* uncertain. An ambiguous fact is there or is not, an unresolved call has *)
(* a target, a diagnosed method writes.                                    *)
(***************************************************************************)
Completed(statuses) ==
    {(statuses \cap {"resolved"}) \cup T :
        T \in SUBSET {"resolved" : s \in statuses \ {"resolved"}}}

CompletedFacts(F, x) ==
    LET certain == {f \in F : f.status = "resolved"}
        added == {[f EXCEPT !.status = "resolved"] : f \in F \ certain}
                 \cup {[from |-> m, channel |-> "call", to |-> <<n>>, region |-> "body",
                        job |-> "generate", status |-> "resolved"] : m \in x.unresolved, n \in Methods}
                 \cup {[from |-> m, channel |-> "table", to |-> <<>>, region |-> "body",
                        job |-> "generate", status |-> "resolved"] : m \in x.gaps}
    IN  {certain \cup G : G \in SUBSET added}

CompletedAs(i, target, activation, matches) ==
    [i EXCEPT !.target = target, !.activation = activation, !.matches = matches]

CompletedInteraction(i, x) ==
    {CompletedAs(i, t, a, m) :
        t \in IF i.target = "unknown" THEN {"static", "dynamic"} ELSE {i.target},
        a \in IF i.activation = "unknown" THEN {"eager", "constructed_cold"} ELSE {i.activation},
        m \in Completed(i.matches) \cup
              IF i.target = "dynamic" \/ ~x.interactionsComplete THEN {{"resolved"}} ELSE {}}

GuardedBy(x, added) ==
    [x EXCEPT !.guards = {g \in @ : g.status = "resolved"} \cup added,
              !.globalGuardState = "none_proven", !.firstSchema = FALSE]

CompletedGuards(x) ==
    LET added == {[g EXCEPT !.status = "resolved"] : g \in x.guards}
                 \cup {[scope |-> "application_global", status |-> "resolved"] :
                          s \in {GlobalGuardState(x)} \cap {"unknown"}}
    IN  {GuardedBy(x, G) : G \in SUBSET added}

\* One completion of each of the interactions.
CompletedTurns(x) ==
    {turn \in [x.interactions -> UNION {CompletedInteraction(i, x) : i \in x.interactions}] :
        \A i \in x.interactions : turn[i] \in CompletedInteraction(i, x)}

CompletedWith(x, repository, turn, new) ==
    [x EXCEPT !.repository = repository, !.repositoryDiagnosed = FALSE,
              !.interactions = {turn[i] : i \in @}, !.interactionsComplete = TRUE,
              !.baseline = [x.baseline EXCEPT !.new = new, !.ambiguous = FALSE]]

CompletedInputs(x) ==
    {CompletedWith(x, repository, turn, new) :
        repository \in Completed(x.repository)
                       \cup IF x.repositoryDiagnosed THEN {{"resolved"}} ELSE {},
        turn \in CompletedTurns(x),
        new \in {x.baseline.new} \cup IF x.baseline.ambiguous THEN {{"error"}} ELSE {}}

\* What a rule says of the completions, each as a set of outcomes.
CompletedOutcomes(rule, F, x) ==
    IF rule = "guard"
    THEN {{GuardRule(G, y)} : G \in CompletedFacts(F, x), y \in CompletedGuards(x)}
    ELSE {Outcomes(rule, F, y) : y \in CompletedInputs(x)}

\* The guard rule says nothing of an endpoint that is not known to write:
\* that is for the trace rule, and for endpoints whose method writes.
Covered(x) == "guard" \in x.rules => "complete_trace" \in x.rules /\ x.writeMethod

(***************************************************************************)
(* "Unknown is never changed into pass or fail" (docs/policy-engine.md):   *)
(* with onUnknown "error", a program the policies let pass violates no     *)
(* rule, however its uncertain facts turn out; and a rule that fails fails *)
(* however they turn out, but for the trace rule, which fails because of   *)
(* the uncertainty itself. An endpoint whose route is ambiguous is left    *)
(* out, and one the trace of which was cut at its limit of states, which   *)
(* is no gap to the rules.                                                 *)
(***************************************************************************)
GatesAreSound ==
    results # NotEvaluated /\ results.exit # "failure" /\ pc = "done"
    /\ ~StateLimitReported(Accumulator) =>
        \A rule \in facts.rules \ {"complete_trace"} :
            LET completed == CompletedOutcomes(rule, ToSet(doc.facts), facts)
            IN  /\ "fail" \in results.outcomes[rule] => \A o \in completed : "fail" \in o
                /\ /\ results.exit = "success" /\ Covered(facts)
                   /\ facts.severity = "error" /\ facts.onUnknown = "error"
                   => \A o \in completed : "fail" \notin o

=============================================================================
