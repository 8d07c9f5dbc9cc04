---------------------------- MODULE ScanPipeline ----------------------------
(***************************************************************************)
(* One scan of a repository: scanRepository                                *)
(* (src/src/analysis/scan-repository.ts) from its first await to the       *)
(* document it returns. It runs the extractors of NestModules,             *)
(* Authorization, CriticalSections, ClassRelationships, OutboundHttp,      *)
(* Interactions, TypeOrm, Provenance and RawSql in the code's order; the   *)
(* others contribute records to be merged (merge-records.ts), counted      *)
(* facts and diagnostics. The merged records are projected into critical sections    *)
(* and job branches (critical-section-effects.ts,                          *)
(* job-queue-branch-effects.ts), the result state is derived               *)
(* (result-state.ts), and the document is validated.                       *)
(*                                                                         *)
(* The contributions are, in the order they are merged, one set of         *)
(* assertions per extractor: [id, subject, object, status, sites], where   *)
(* sites are the positions of its call sites in the file, and the regions  *)
(* of the job branches: [method, from, to].                                *)
(***************************************************************************)
EXTENDS Provenance, Interactions, RawSql, CriticalSections, TypeOrm, ClassRelationships,
        OutboundHttp, Authorization

CONSTANTS
    Repositories    \* families of [program, wiring, nest, controls, locking, codebase, traffic, persistence, candidates, dialect, contributions, regions, facts, severity, interrupted]

\* What the extractors read has the shape that the compiler, the parser and
\* the schema of the configuration give it.
ASSUME RepositoriesAssumption ==
    \A family \in Repositories : \A r \in family :
        /\ QueriesAreTyped(r.candidates)
        /\ WiringIsTyped(r.wiring)
        /\ LockingIsTyped(r.locking)
        /\ CodebaseIsTyped(r.codebase)
        /\ r.contributions \in Seq(ToSet(r.contributions))

VARIABLES
    step,           \* where scanRepository is
    awaits,         \* how many of its first awaits have ended
    repository,     \* the contributions of the other extractors
    outcome,        \* "none", "document", "canceled" or "failed"
    analysis        \* the document, once it is assembled

scanVars == <<provenanceVars, interactionVars, moduleVars, controlVars, lockVars, callVars, httpVars, tableVars, sqlVars, step, awaits, repository, outcome, analysis>>

NoAnalysis == [resultState |-> "none"]

-----------------------------------------------------------------------------
(***************************************************************************)
(* Merging the records of several extractors.                              *)
(***************************************************************************)
Flat(collections) == UNION Range(collections)

\* mergeAssertionRecords throws on records of one id that differ in more
\* than their evidence.
Unequal(collections) ==
    \E a, b \in Flat(collections) :
        a.id = b.id /\ [a EXCEPT !.sites = {}] # [b EXCEPT !.sites = {}]

\* Wrong: the record that came first is kept as it is.
FirstSites(collections, id) ==
    LET holders == {i \in DOMAIN collections : \E a \in collections[i] : a.id = id}
        first == CHOOSE i \in holders : \A j \in holders : i <= j
    IN  UNION {a.sites : a \in {a \in collections[first] : a.id = id}}

MergedSites(collections, id) == UNION {a.sites : a \in {a \in Flat(collections) : a.id = id}}

MergeAssertions(collections) ==
    {[a EXCEPT !.sites = MergedSites(collections, a.id)] : a \in Flat(collections)}

-----------------------------------------------------------------------------
(***************************************************************************)
(* The projections of assertions into regions of the source.               *)
(***************************************************************************)
Inside(a, region) == {site \in a.sites : region.from <= site /\ site <= region.to}

\* No extractor sees a call in a function that is no critical section.
Seen(collection) ==
    {[a EXCEPT !.sites = @ \ ClosedCallbacks] : a \in
        {a \in collection : a.sites = {} \/ ~(a.sites \subseteq ClosedCallbacks)}}

Contributions == [i \in DOMAIN repository.contributions |-> Seen(repository.contributions[i])]

\* A critical section lists the effects of its method with a call site inside.
SectionEffects(assertions, section) ==
    {a.id : a \in {a \in assertions : a.subject = section.method /\ section.callback \in a.sites}}

\* A job branch lists resolved and ambiguous ones only, with those sites.
BranchEffects(assertions, region) ==
    {[target |-> a.object, source |-> a.id, status |-> a.status, sites |-> Inside(a, region)] :
        a \in {a \in assertions :
            /\ a.subject = region.method /\ a.status \in {"resolved", "ambiguous"}
            /\ a.object # "none" /\ Inside(a, region) # {}}}

-----------------------------------------------------------------------------
(***************************************************************************)
(* Result state and validation.                                            *)
(***************************************************************************)
InteractionDiagnostics == httpFacts.diagnostics \cup eventFacts.diagnostics \cup jobFacts.diagnostics \cup messageFacts.diagnostics

\* AUTH_GLOBAL_POLICY_UNKNOWN: there are endpoints, and not all guards are known.
GlobalPolicyUnknown == DOMAIN controls.endpoints # {} /\ moduleFacts.state = "unknown"

AllDiagnosticsEmpty ==
    /\ flowDiagnostics = {} /\ InteractionDiagnostics = {} /\ sqlDiagnostics = {}
    /\ ~moduleFacts.diagnosed /\ ~GlobalPolicyUnknown /\ controlFacts.diagnostics = {} /\ lockFacts.diagnostics = {} /\ callFacts.diagnostics = {} /\ tableFacts.diagnostics = {}
    /\ repository.severity = "none"

TrustedFactCount ==
    repository.facts + Cardinality(Flat(Contributions)) + Cardinality(influences)
    + Cardinality(DOMAIN nest.modules) + Cardinality(moduleFacts.registrations)
    + Cardinality(DOMAIN controls.endpoints) + Cardinality(controlFacts.guards) + Cardinality(controlFacts.metadata) + Cardinality(controlFacts.enforcements)
    + Cardinality(lockFacts.sections) + Cardinality(callFacts.injections) + Cardinality(callFacts.calls)
    + Cardinality(tableFacts.accesses) + Cardinality(tableFacts.bindings) + Cardinality(DOMAIN persistence.entities)
    + Cardinality(sqlAccesses)
    + Cardinality(httpFacts.interactions)
    + Cardinality(eventFacts.interactions) + Cardinality(eventFacts.handlers)
    + Cardinality(jobFacts.interactions) + Cardinality(jobFacts.handlers)
    + Cardinality(messageFacts.interactions) + Cardinality(messageFacts.handlers)

\* deriveAnalysisResultState: the extractors modelled here only warn.
ResultState ==
    CASE TrustedFactCount = 0 /\ repository.severity = "error" -> "failed"
      [] AllDiagnosticsEmpty -> "completed"
      [] OTHER -> "completed_with_gaps"

InteractionState == IF InteractionDiagnostics = {} THEN "complete" ELSE "incomplete"

\* Diagnostics of two extractors with one id: code, subject and evidence.
SameId(d, e) == d[1] # e[1] /\ Tail(d) = Tail(e)

CollidingDiagnostics ==
    \/ \E d, e \in flowDiagnostics : SameId(d, e)
    \/ \E s, t \in wiring.sites :
          /\ s.channel = "event" /\ t.channel = "message" /\ s.call = t.call
          /\ s.receiver = "ambiguous" /\ t.receiver = "ambiguous"

Assembled ==
    LET assertions == MergeAssertions(Contributions)
    IN  [resultState |-> ResultState, interactionState |-> InteractionState,
         assertions |-> assertions,
         sections |-> {[section |-> s, effects |-> SectionEffects(assertions, s)] : s \in lockFacts.sections},
         branches |-> {[region |-> r, effects |-> BranchEffects(assertions, r)] : r \in repository.regions}]

-----------------------------------------------------------------------------
ScanInit ==
    /\ \E family \in Repositories : \E r \in family :
        /\ program = r.program /\ wiring = r.wiring /\ candidates = r.candidates
        /\ dialect = r.dialect /\ locking = r.locking /\ persistence = r.persistence /\ tableFacts = NoTables
        /\ nest = r.nest /\ moduleFacts = NoModules /\ controls = r.controls /\ controlFacts = NoControls
        /\ codebase = r.codebase /\ callFacts = NoCalls
        /\ traffic = r.traffic /\ httpFacts = NoRequests
        /\ repository = [contributions |-> r.contributions, regions |-> r.regions,
                         facts |-> r.facts, severity |-> r.severity, interrupted |-> r.interrupted]
    /\ frames = <<>> /\ visitedFrames = {} /\ influences = {} /\ flowDiagnostics = {}
    /\ eventFacts = NoFacts /\ jobFacts = NoFacts /\ messageFacts = NoFacts
    /\ lockState = "terminals" /\ summaries = {} /\ lockIssues = {} /\ lockFacts = NoSections
    /\ cursor = 1 /\ sqlState = "idle" /\ signal = FALSE /\ sqlAccesses = {} /\ sqlDiagnostics = {}
    /\ step = "loading" /\ awaits = 0 /\ outcome = "none" /\ analysis = NoAnalysis

Elsewhere == UNCHANGED <<awaits, repository, outcome, analysis>>

\* A signal is handled only while the scan awaits: the revision, the
\* inventory, the project, or a parse.
Signal ==
    /\ outcome = "none" /\ ~signal /\ repository.interrupted
    /\ step = "loading" \/ sqlState = "parsing"
    /\ signal' = TRUE
    /\ UNCHANGED <<provenanceVars, interactionVars, moduleVars, controlVars, lockVars, callVars, httpVars, tableVars, candidates, dialect, cursor, sqlState, sqlAccesses,
                   sqlDiagnostics, step>>
    /\ Elsewhere

Cancel ==
    /\ outcome' = "canceled" /\ step' = "ended"
    /\ UNCHANGED <<provenanceVars, interactionVars, moduleVars, controlVars, lockVars, callVars, httpVars, tableVars, sqlVars, awaits, repository, analysis>>

AfterAwaits == IF awaits = 2 THEN "modules" ELSE "loading"

\* One of the first awaits ends, and the signal is checked.
Load ==
    /\ step = "loading"
    /\ IF signal THEN Cancel
       ELSE /\ awaits' = awaits + 1 /\ step' = AfterAwaits
            /\ UNCHANGED <<provenanceVars, interactionVars, moduleVars, controlVars, lockVars, callVars, httpVars, tableVars, sqlVars, repository, outcome, analysis>>

Extract(from, to, Extractor) ==
    /\ step = from /\ Extractor /\ step' = to
    /\ UNCHANGED sqlVars /\ Elsewhere

\* Evidence outside its file is a RangeError that ends the scan.
ModulesThrow ==
    /\ step = "modules" /\ MisplacedEvidence /\ outcome' = "failed" /\ step' = "ended"
    /\ UNCHANGED <<provenanceVars, interactionVars, moduleVars, controlVars, lockVars, callVars, httpVars, tableVars, sqlVars, awaits, repository, analysis>>

ModuleMetadata ==
    /\ ~MisplacedEvidence
    /\ Extract("modules", "guards", ExtractModules /\ UNCHANGED <<controlVars, lockVars, callVars, httpVars, interactionVars, provenanceVars, tableVars>>)

Controls(from, to, Extractor) ==
    Extract(from, to, Extractor /\ UNCHANGED <<lockVars, callVars, httpVars, interactionVars, provenanceVars, tableVars>>)

Guards == Controls("guards", "authorization", ExtractGuards)
AuthorizationMetadata == Controls("authorization", "locks", ExtractAuthorization)

Locks == Extract("locks", "locks", ExtractLocks /\ UNCHANGED <<moduleVars, controlVars, callVars, httpVars, interactionVars, provenanceVars, tableVars>>)

Interaction(from, to, Extractor) ==
    Extract(from, to, Extractor /\ UNCHANGED <<moduleVars, controlVars, lockVars, callVars, httpVars, tableVars, provenanceVars>>)

\* The first extractor behind the critical sections.
Relationships ==
    /\ lockState = "extracted"
    /\ Extract("locks", "outbound", ExtractCalls /\ UNCHANGED <<moduleVars, controlVars, lockVars, httpVars, tableVars, interactionVars, provenanceVars>>)

HttpRequests(from, to, Extractor) ==
    Extract(from, to, Extractor /\ UNCHANGED <<moduleVars, controlVars, lockVars, callVars, tableVars, interactionVars, provenanceVars>>)

EagerRequests == HttpRequests("outbound", "services", ExtractOutbound)
ServiceRequests == HttpRequests("services", "events", ExtractServices)

Events == Interaction("events", "jobs", ExtractEvents)
JobQueues == Interaction("jobs", "messages", ExtractJobs)
Messages == Interaction("messages", "tables", ExtractMessages)
Persistence == Extract("tables", "handlers", ExtractTables /\ UNCHANGED <<moduleVars, controlVars, lockVars, callVars, httpVars, interactionVars, provenanceVars>>)

Flow(from, to, Extractor) == Extract(from, to, Extractor /\ UNCHANGED <<moduleVars, controlVars, lockVars, callVars, httpVars, tableVars, interactionVars>>)

SameMethod == Flow("handlers", "calls", TraceHandlers)
InterMethod == Flow("calls", "calls", FollowCalls)

StartRawSql ==
    /\ step = "calls" /\ frames = <<>> /\ StartSql /\ step' = "sql"
    /\ UNCHANGED <<provenanceVars, interactionVars, moduleVars, controlVars, lockVars, callVars, httpVars, tableVars>> /\ Elsewhere

RawSqlStep ==
    /\ step = "sql" /\ ExtractSql
    /\ UNCHANGED <<provenanceVars, interactionVars, moduleVars, controlVars, lockVars, callVars, httpVars, tableVars, step>> /\ Elsewhere

RawSqlThrew == step = "sql" /\ sqlState = "canceled" /\ Cancel

Ended == UNCHANGED <<provenanceVars, interactionVars, moduleVars, controlVars, lockVars, callVars, httpVars, tableVars, sqlVars, awaits, repository>>

\* From the concatenation of the diagnostics to the return: no await.
Assemble ==
    /\ step = "sql" /\ sqlState = "done"
    /\ step' = "ended" /\ Ended
    /\ IF Unequal(Contributions) \/ CollidingDiagnostics \/ RepeatedLocks # {}
       THEN outcome' = "failed" /\ UNCHANGED analysis
       ELSE outcome' = "document" /\ analysis' = Assembled

Next ==
    \/ Signal \/ Load \/ ModulesThrow \/ ModuleMetadata \/ Guards \/ AuthorizationMetadata \/ Locks \/ Relationships
    \/ EagerRequests \/ ServiceRequests \/ Events \/ JobQueues \/ Messages \/ Persistence \/ SameMethod \/ InterMethod
    \/ StartRawSql \/ RawSqlStep \/ RawSqlThrew \/ Assemble

Spec == ScanInit /\ [][Next]_scanVars

-----------------------------------------------------------------------------
\* Right behind the step that reads the modules, no global guard is missed by
\* an answer called complete, nor any import or provider of a module; and
\* behind the two that read the endpoints, no guard of an endpoint is missed,
\* none is made up, and metadata is enforced by whom it is said to be.
GuardsAreHonest ==
    ModulesAreRead(step = "guards") /\ ControlsAreReal(step = "locks" /\ lockState = "terminals")

\* Right behind the step that finds them, the recorded calls account for all
\* calls of injected members and of the class itself, and claim no more.
CallsAreHonest == CallsAreReal(step = "outbound")

\* Right behind the steps that find them, the HTTP requests and diagnostics
\* account for all a method sends; a published target, method or activation
\* is the one the program has.
RequestsAreHonest == RequestsAreReal(step = "events")

\* Right behind the step that finds them, the table facts and diagnostics
\* account for all the method may do through TypeORM, and claim no more.
TablesAreHonest == QueriesAreHonest(step = "handlers")

\* In a scan that is not canceled no flow into a column is dropped without
\* a diagnostic, and no influence is made up.
FlowsAreHonest ==
    LET extracted == step = "ended" /\ outcome # "canceled"
    IN  NoFlowIsSilentlyDropped(extracted) /\ NoInfluenceIsMadeUp(extracted)

\* No handler of an interaction is missed without a diagnostic, and none is
\* matched that cannot be run by it.
MatchingIsHonest == NoHandlerIsSilentlyMissed /\ MatchesAreReal

(***************************************************************************)
(* What a scan returns: a scan whose signal was raised returns no          *)
(* document, a document called completed has no gap in any part, and the   *)
(* document does not depend on the order the extractors' records are       *)
(* merged in.                                                              *)
(***************************************************************************)
OutcomeIsHonest ==
    /\ outcome = "document" => ~signal
    /\ outcome = "canceled" => signal /\ analysis = NoAnalysis
    /\ analysis.resultState = "completed" =>
          AllDiagnosticsEmpty /\ analysis.interactionState = "complete"
    /\ outcome = "document" =>
          analysis.assertions = MergeAssertions(Reverse(Contributions))

=============================================================================
