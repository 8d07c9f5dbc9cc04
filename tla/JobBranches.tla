---------------------------- MODULE JobBranches ----------------------------
(***************************************************************************)
(* How a BullMQ processor divides its jobs: the regions of its process     *)
(* method by job name, extractBullMqHandlerBranches of                     *)
(* src/src/extractors/bullmq-branches.ts. Pure: no state.                  *)
(*                                                                         *)
(* A method body is [form, prelude, clauses, rest, finally, mutated]: its  *)
(* form is "switch" (a switch over the job name, at the top or in a try    *)
(* without catch), "ifs" or "other"; prelude, rest and finally say whether *)
(* there are statements before, after and in the finally block; mutated    *)
(* that the job name is assigned. A clause of a switch is [label, ends,    *)
(* early]: the label a job, "default" or "?", ends "empty", "break",       *)
(* "return" or "none" by its last statement, and early tells of a nested   *)
(* break before it. A clause of an if chain is [label, ends, early], early *)
(* telling of an else part.                                                *)
(***************************************************************************)
EXTENDS Integers, FiniteSets, SequencesExt

AllJobs == [kind |-> "all_jobs", jobs |-> {}]
Exact(jobs) == [kind |-> "exact_jobs", jobs |-> jobs]
Unmatched(excluded) == [kind |-> "unmatched_jobs", jobs |-> excluded]
Unknown == [kind |-> "unknown", jobs |-> {}]

\* The regions of a body.
Prelude == <<"prelude", 0>>
Clause(i) == <<"clause", i>>
Rest == <<"rest", 0>>
Finally == <<"finally", 0>>

Draft(selector, regions, continues) ==
    [selector |-> selector, regions |-> regions, continues |-> continues]

\* What the syntax of a method body is like.
BodyIsTyped(body) ==
    /\ body.clauses \in Seq(ToSet(body.clauses))
    /\ \A i \in DOMAIN body.clauses : body.clauses[i].ends \in {"empty", "break", "return", "none"}
    /\ body.form = "ifs" => ~body.finally

PreludeDraft(body) == IF body.prelude THEN <<Draft(AllJobs, {Prelude}, FALSE)>> ELSE <<>>

IsUnknown(draft) == draft.selector = Unknown

-----------------------------------------------------------------------------
(***************************************************************************)
(* switchDrafts. The clauses are taken in groups: empty ones wait for the  *)
(* next with statements; one that falls through with statements spoils all *)
(* up to the next that ends.                                               *)
(***************************************************************************)
\* The last clause of the group that starts at i.
GroupEnd(clauses, i) ==
    LET full == {j \in i..Len(clauses) : clauses[j].ends # "empty"}
        first == CHOOSE j \in full : \A k \in full : j <= k
        ended == {j \in (first + 1)..Len(clauses) : clauses[j].ends \in {"break", "return"}}
    IN  IF full = {} THEN Len(clauses)
        ELSE IF clauses[first].ends # "none" \/ first = Len(clauses) THEN first
        ELSE IF ended = {} THEN Len(clauses)
        ELSE CHOOSE j \in ended : \A k \in ended : j <= k

FallsThrough(clauses, i, j) == \E k \in i..(j - 1) : clauses[k].ends # "empty"

Jobs(clauses, i, j) == {clauses[k].label : k \in i..j} \ {"default", "?"}

\* Wrong: only a break leads behind the switch.
ContinuesAfterBreak(ends) == ends = "break"

ContinuesAfterSwitch(ends) == ends \in {"break", "none", "empty"}

GroupDraft(clauses, i, j) ==
    LET labels == {clauses[k].label : k \in i..j}
        regions == {Clause(k) : k \in i..j}
        allEmpty == clauses[j].ends = "empty"
        supported == "?" \notin labels /\ ("default" \in labels => labels = {"default"} /\ ~allEmpty)
    IN  IF FallsThrough(clauses, i, j) THEN Draft(Unknown, regions, FALSE)
        ELSE IF ~supported THEN Draft(Unknown, regions, allEmpty)
        ELSE Draft(IF "default" \in labels THEN Unmatched({}) ELSE Exact(labels), regions,
                   ContinuesAfterSwitch(clauses[j].ends))

GroupDrafts(clauses) ==
    LET from[i \in 1..(Len(clauses) + 1)] ==
            IF i > Len(clauses) THEN <<>>
            ELSE LET j == GroupEnd(clauses, i)
                 IN  <<GroupDraft(clauses, i, j)>> \o from[j + 1]
    IN  from[1]

\* The jobs of every group that was not spoilt, supported or not.
ExactJobs(clauses) ==
    LET from[i \in 1..(Len(clauses) + 1)] ==
            IF i > Len(clauses) THEN {}
            ELSE LET j == GroupEnd(clauses, i)
                 IN  (IF FallsThrough(clauses, i, j) THEN {} ELSE Jobs(clauses, i, j)) \cup from[j + 1]
    IN  from[1]

\* The jobs that no group names.
Excluding(selector, groups) ==
    [i \in DOMAIN groups |->
        IF groups[i].selector.kind = "unmatched_jobs" THEN [groups[i] EXCEPT !.selector = selector]
        ELSE groups[i]]

\* Without a default, and nothing unknown, they pass the switch by.
Completed(selector, groups) ==
    IF \A i \in DOMAIN groups : groups[i].selector.kind = "exact_jobs"
    THEN Append(groups, Draft(selector, {}, TRUE)) ELSE groups

Continued(body, drafts) ==
    [i \in DOMAIN drafts |->
        IF body.rest /\ drafts[i].continues THEN [drafts[i] EXCEPT !.regions = @ \cup {Rest}]
        ELSE drafts[i]]

SwitchDrafts(body) ==
    LET excluded == Unmatched(ExactJobs(body.clauses))
    IN  PreludeDraft(body)
        \o Continued(body, Completed(excluded, Excluding(excluded, GroupDrafts(body.clauses))))
        \o (IF body.finally THEN <<Draft(AllJobs, {Finally}, FALSE)>> ELSE <<>>)

-----------------------------------------------------------------------------
(***************************************************************************)
(* ifDrafts: a run of ifs, each for one job and ending it; the first that  *)
(* is anything else makes itself and all that follows unknown.             *)
(***************************************************************************)
Supported(clause) == clause.label \notin {"?", "default"} /\ clause.ends = "return" /\ ~clause.early

IfDrafts(body) ==
    LET n == Len(body.clauses)
        odd == {i \in 1..n : ~Supported(body.clauses[i])}
        first == IF odd = {} THEN n + 1 ELSE CHOOSE i \in odd : \A k \in odd : i <= k
        after == {Clause(k) : k \in (first + 1)..n} \cup (IF body.rest THEN {Rest} ELSE {})
    IN  PreludeDraft(body)
        \o [i \in 1..(first - 1) |-> Draft(Exact({body.clauses[i].label}), {Clause(i)}, FALSE)]
        \o (IF odd = {} THEN <<Draft(Unmatched({body.clauses[i].label : i \in 1..n}),
                                   \* with nothing behind them: the first if itself
                                   IF after = {} THEN {Clause(1)} ELSE after, FALSE)>>
            ELSE <<Draft(Unknown, {Clause(first)} \cup after, FALSE)>>)

(***************************************************************************)
(* extractBullMqHandlerBranches                                            *)
(***************************************************************************)
Drafts(body) ==
    CASE body.form = "switch" -> SwitchDrafts(body)
      [] body.form = "ifs" -> IfDrafts(body)
      [] OTHER -> <<>>

OrUnsupported(body, drafts) ==
    IF drafts = <<>> \/ body.mutated THEN <<Draft(Unknown, {Prelude, Rest}, FALSE)>> ELSE drafts

Branches(body) == OrUnsupported(body, Drafts(body))

StateOf(branches) ==
    IF \A i \in DOMAIN branches : ~IsUnknown(branches[i]) THEN "complete"
    ELSE IF \A i \in DOMAIN branches : IsUnknown(branches[i]) THEN "unsupported"
    ELSE "partial"

DispatchState(body) == StateOf(Branches(body))

-----------------------------------------------------------------------------
(***************************************************************************)
(* What runs for a job, as JavaScript runs it.                             *)
(***************************************************************************)
FirstClause(body, job) ==
    LET of(label) == {i \in DOMAIN body.clauses : body.clauses[i].label = label}
        first(S) == CHOOSE i \in S : \A k \in S : i <= k
    IN  IF of(job) # {} THEN first(of(job))
        ELSE IF of("default") # {} /\ body.form = "switch" THEN first(of("default"))
        ELSE 0

\* The last clause run once clause i is entered.
LastClause(body, i) ==
    LET ended == {j \in i..Len(body.clauses) : body.clauses[j].ends \in {"break", "return"}}
    IN  IF ended = {} THEN Len(body.clauses) ELSE CHOOSE j \in ended : \A k \in ended : j <= k

Runs(body, job) ==
    LET i == FirstClause(body, job)
        j == IF body.form = "ifs" THEN i ELSE LastClause(body, i)
        returns == i # 0 /\ body.clauses[j].ends = "return"
    IN  {region \in {Prelude} : body.prelude}
        \cup (IF i = 0 THEN {} ELSE {Clause(k) : k \in {k \in i..j : body.clauses[k].ends # "empty"}})
        \cup {region \in {Rest} : body.rest /\ ~returns}
        \cup {region \in {Finally} : body.finally}

Selects(selector, job) ==
    CASE selector.kind = "all_jobs" -> TRUE
      [] selector.kind = "exact_jobs" -> job \in selector.jobs
      [] selector.kind = "unmatched_jobs" -> job \notin selector.jobs
      [] OTHER -> FALSE

RegionsFor(body, job) ==
    UNION {draft.regions : draft \in {draft \in Range(Branches(body)) : Selects(draft.selector, job)}}

\* A clause left early by a nested break runs what is behind the switch,
\* although its last statement returns.
LeftEarly(body) == \E i \in DOMAIN body.clauses : body.clauses[i].early /\ body.clauses[i].ends = "return"

Repeats(body) == \E i, j \in DOMAIN body.clauses : i # j /\ body.clauses[i].label = body.clauses[j].label

Attributed(body, job) ==
    {region \in RegionsFor(body, job) : region[1] = "clause" => body.clauses[region[2]].ends # "empty"}

\* Ifs with nothing behind them: the unmatched jobs are given the first if.
NothingBehind(body) == body.form = "ifs" /\ ~body.rest

(***************************************************************************)
(* A dispatch called complete gives a job the regions that run for it:     *)
(* none is missing, and with distinct labels none is from another job.     *)
(***************************************************************************)
BranchesAreWhatRuns(body, jobs) ==
    DispatchState(body) = "complete" /\ ~LeftEarly(body) =>
        \A job \in jobs :
            /\ Runs(body, job) \subseteq Attributed(body, job)
            /\ ~Repeats(body) /\ ~NothingBehind(body) => Attributed(body, job) = Runs(body, job)

=============================================================================
