# A formal model of api-intel

`api-intel` is a static analyzer for NestJS services: it indexes a TypeScript
project with the compiler, runs a pipeline of extractors over it, merges what they
found into one immutable *analysis document*, and derives reports, traces,
comparisons, policies and graphs from it. It is a command-line program, mostly
sequential. What is hard sits in five places: publishing several files as if they
were one; extractors that read a program from its text and must say so wherever they
do not understand it; walking cyclic graphs under limits while still telling the
truth about what was left out; several walks over the same facts that must tell one
story; and cancellation that can arrive at every await.

This directory holds TLA+ modules of those parts, TLC configurations that check them
on small instances, and TLAPS proofs about the batch writer, the publishing
commands, the traces, the policies, the comparison, the system analysis and its
report, and module visibility. `PROJECT.json` maps every definition to the source lines it models. Paths below are relative to the root of
the repository unless they start with `docs/` or `test/`, which are in `src/` beside
the implementation.

## 1. The system

### 1.1 Components

| Component | State it keeps | Operations | What makes it correct |
| --- | --- | --- | --- |
| Batch writer `src/src/output/atomic-files.ts` | temporaries prepared so far, destinations seen, the abort signal | stage, rename, clean up | all destinations whole; in plan order; nothing after a refusal; no stray temporaries |
| Artifact plan and bundle `artifact-plan.ts`, `scan-bundle.ts` | none (pure) | order artifacts, check collisions, build and validate the manifest, append the marker | the marker comes last and lists exactly what is published |
| Trace manifest `report-manifest.ts` | the hidden manifest file on disk | read the old one, compute stale traces, publish, remove stale traces | no trace of an earlier selection survives, none of the present one is removed |
| Command line `src/src/cli/**` | the abort controller, the exit code | scan, report, exports, stitch, compare, policy ... | success means published; failure before the commit means untouched |
| Scan pipeline `src/src/analysis/scan-repository.ts`, `merge-records.ts`, `result-state.ts` | records and diagnostics so far, progress | stages in a fixed order, cancellation checks, merge, result state | equal records merge to one; the result state reflects every failure |
| Extractors `src/src/extractors/**` | worklists, flow states and seen keys of one pass | one pass each, bounded fixed points | what is found is in the program, what is not found is diagnosed |
| TypeScript index, scanner `src/src/ts-index`, `src/src/scanner` | compiler objects, visited paths | load, resolve, classify | reads only |
| SQL access `src/src/sql/**` | the parse promise, a timer, an abort listener | parse with a deadline, visit the tree | one winner of the race, no leftover timer, every table of the tree |
| Analysis model `src/src/model/**`, `evidence/**` | none | schemas, canonical order, referential validation | references resolve, order canonical |
| Endpoint traces `src/src/tracing/endpoint-trace.ts` | queue, seen keys, terminals, diagnostics | breadth-first walk | a "complete" trace hides nothing |
| Handler traces `interaction-handler-trace*.ts` | the same, rooted at a handler | the same | the same |
| Module visibility `src/src/modules/visibility.ts` | exported sets, memo, recursion stack | re-export loop, completeness search | least fixed point; answers independent of the order |
| Effective guards, policy `src/src/policy/**` | none | tri-state evaluation, exceptions | unknown is never turned into pass |
| Comparison `src/src/comparison/**` | blocked ids, used ids, ambiguities by identity | match endpoints in two passes, compare fact families, validate | matches are one to one; nothing is lost between changes and ambiguities |
| Impact `src/src/impact/**` | reverse edges, reverse states | reach endpoints from changes | no endpoint is missed, none is made up |
| System analysis and report `src/src/system-analysis/**`, `system-report/**` | correlation indexes; bounded paths | bind, correlate, join traces, publish twice | nothing matched by guess; a report describes the analysis beside it |
| Graph report, overview `src/src/graph-report/**`, `architecture/**` | bounded scenes | project a trace, select within limits, validate | the graph tells what the trace tells |
| Structured exports, reporting | none | render | bounds are reported |
| Configuration, diagnostics, authorization | none | parse, look up, project | total and deterministic |

`PROJECT.json` gives the files of each, and its status.

### 1.2 How they interact

* The CLI installs a once-only SIGINT handler (`cli/cancellation.ts`) which aborts
  an `AbortSignal`. The signal is passed down to the pipeline, the SQL parser and
  the batch writer, each of which looks at it at its own points. A second SIGINT
  finds no handler and kills the process.
* `scan` runs the pipeline, then reads the trace manifest on disk, builds the
  artifact plan, calls the batch writer once, and removes stale traces. `report`
  does the same from a saved analysis without the bundle manifest. The exports
  publish one artifact; `stitch` publishes two batches, one after the other.
* The commands share the output directory and nothing else. There is no lock and no
  log: a later command learns about an earlier one from the hidden trace manifest
  only.
* Within a scan every extractor takes the facts of those before it: calls feed the
  critical sections' projection and the request flows, module metadata feeds the
  matching of events, jobs and messages. What one of them silently leaves out, none
  behind it can notice.
* The trace of an endpoint, that of a handler, the terminal facts that policies and
  the comparison read, the reverse walk of impact, and what the overview counts as
  reached are five walks over the same facts, each with queues, keys and limits of
  its own.
* The walks, the visibility view and the comparison read immutable documents and
  return a value. Their state is local, and what they share with the rest is the
  claim of completeness that they return.

### 1.3 What is hard

* *Partial failure and crash*: a plan of n files is n renames, and any of them may
  fail or be the last thing the process does. Nothing can be rolled back, so what
  protects the reader is the order (the marker last).
* *Concurrency*: the `rm` calls of a catch block and of the trace clean-up run
  together under `Promise.all`, which rejects on the first failure while the others
  go on; two processes may rename over the same destinations; a parse, its deadline
  and the abort listener race.
* *Cancellation*: the signal is polled, so it is at any time either about to be
  noticed or never noticed again.
* *Stale state*: the list of stale traces is computed before a publication and used
  after it; a memoized answer is computed while a cycle is being visited; a
  deduplication key leaves out the path on which it was reached; the initializer of
  a member or a constant is read while it may be changed elsewhere.
* *Reading a program from its text*: a query builder is mutable and has several
  names, an observable sends nothing until it is subscribed to, a switch falls
  through, a callback is handed from method to method until one takes a lock. The
  extractor replays what it sees, and has to report what it does not.
* *Limits*: depth, hops, fan-out, states, expression depth, origins, frames, target
  parts, nodes and edges are cut at different points, and each cut must be reported.

Every hazard is in `PROJECT.json` under `hazards`, at the line where it bites, with
the properties that watch it.

## 2. The modules

```
 AtomicPublication            abstract: what a batch promises
        ^ implements
    AtomicFiles  <---- AtomicFilesProofs
        ^ INSTANCE            ^ INSTANCE
    Publication  <---- PublicationProofs
        | INSTANCE
        v
    ArtifactPlan (pure operators)

    ModuleVisibility <---- ModuleVisibilityProofs
    Comparison       <---- ComparisonProofs

    ScanPipeline ----> Authorization (-> NestModules), CriticalSections,
          ^            ClassRelationships, OutboundHttp,
     ScanProofs        Interactions (-> JobBranches), TypeOrm, Provenance, RawSql

    EndpointTrace <- HandlerTrace <- Impact <- Policy <- GraphReport
                          ^                      ^
                     TraceProofs   <-------- PolicyProofs

    SystemStitch <- SystemReport <- SystemReportProofs
```

`ScanPipeline` extends the modules of the extractors, and in the two last groups each
module extends the one to its left. The extractors are modules of their own, with
the part of the repository they read as a record and what they return as a variable,
and `ScanPipeline` composes them in the code's order. The walks
and what is made of them are one chain because the impact of a change, a policy
verdict and a graph are computed for the *same* document as a trace, and the
properties compare them with it. The modules whose name ends in `Proofs` hold the
theorems, see section 5.

Each `MC*` module fixes the constants of the module it is named after. An operator
whose comment starts with "Wrong:" is a plausible bug of the definition below it. It
is used by no specification: `PROJECT.json` pairs it, under `mutants`, with the
property that notices it, so that each property is known to depend on the code and
not on the shape of the model.

### AtomicFiles, AtomicPublication

`writeTextFilesAtomically`, one action per await and per early exit. `temps[p]` is
the array `prepared` of process `p` (an entry exists from the `push`, before the
write), `call[p].pc` the place in the function, `disk` the destinations. The catch
block is `Fail` followed by `RemoveTemp`, `RemoveTempFails` and `Throw` in any order
`Promise.all` allows: a removal may settle after the call has thrown. `Interrupt` is
SIGINT, `Crash` a kill at any point. The content of file `i` of process `p` is the
pair `<<p, i>>`, so that every file on disk tells who wrote it.

`AtomicPublication` is the promise with staging left out: give up without a trace,
or commit to a plan without repetitions and place it one file after the other. The
refinement maps everything up to the last abort check to "open".

### ArtifactPlan, Publication

`ArtifactPlan` translates the order in which `scan.ts` collects artifacts, the
collision checks, the manifest schema and the publication order. `Publication`
composes it with `AtomicFiles`: a process runs one command, whose plan comes from
`ArtifactPlan` and whose writing *is* `AtomicFiles` (the variables `disk`, `temps`,
`call` are shared through `INSTANCE`). `cmd[p]` is the state of the command around
the writer: the manifest read, the collision checks, the removal of stale traces,
the exit.

Abstractions: a path is its artifact kind, or the trace; contents, hashes and sizes
are not modelled; commands run one after the other (`Begin` requires that no
process is alive; two overlapping commands are not modelled beyond their batch
writers). A command whose exit code is set is not over yet: `cli/index.ts:132-147`
sets `process.exitCode`, which lets the `rm` calls still in flight settle before the
process ends, so a process is alive as long as it has one. The order in which a process's own temporaries are removed is fixed,
because `AtomicFiles` has every order and no other process sees them. The different
non-zero exit codes are "error".

### ScanPipeline

`scanRepository` from its first await to the document it returns: `Signal` is
SIGINT, handled only while the scan awaits, `Load` the first awaits with their
cancellation checks, then one action per extractor, the asynchronous raw SQL loop,
and `Assemble`, everything from the concatenation of the diagnostics to the return:
merging, the projections into critical sections and job branches, the result state,
the refusal of colliding diagnostics and of repeated lock records.

Abstractions: extractors that are not modelled contribute sets of assertions and a
number of trusted facts; of the merges only that of assertions is modelled; of the
validation only the two refusals above, which code that is modelled can run into.
What an extractor reads from syntax trees is the record it is given, whose fields
keep apart what the code branches on. Every extractor module has, beside the
translation, a definition of what the program *does* (`Runs`, `ExecutedCalls`,
`HandedToLock`, `ReallyAccessed`, ...), and its property relates the two.

### NestModules

`extractNestModules`: metadata arrays, constants and spreads, `forwardRef`,
`APP_GUARD` providers, bootstraps with `useGlobalGuards`, and whether the scan of
global guards is complete. `RealGuards` are the guards the applications run with.
Left out: the order of the registrations; providers of modules no application
imports count as declared, as in the code.

### Authorization

`extractNestGuards` and `extractNestAuthorization`: `UseGuards` and `SetMetadata` on
controllers and methods, repository wrappers of one expression with their composite
guards, configured decorators, the redacted shape of a value, and the enforcement of
each metadata record: proven by a guard of the same decorator, configured with a
guard of the endpoint or of an application that shares a root with it, or unknown.
It reads the relations and registrations of `NestModules`. `RealGlobals` are the
guards of the applications that serve an endpoint. Left out: identities of
decorators, evidence, and which of several related guards is recorded.

### CriticalSections

Both Redlock extractors: the `using()` calls of a method, and the worklist of
`critical-section-wrapper-flow.ts`, which hands callback parameters backwards
through bounded numbers of methods, candidates and locks (`Propagate` is one turn of
the worklist, with every issue it raises). `HandedToLock` follows the parameters
forwards, without bounds. Not distinguished: callbacks of type `any` or optional
ones, `cb?.()` and nested `using` calls, which the code ignores.

### ClassRelationships

Constructor members, injections and method calls. `Lookup` stands for the type
checker, an external part; `ExecutedCalls` takes the objects a constructor may leave
in a member, and the method of the class they are of. Methods are plain ones:
accessors, arrow properties and the bodies of constructors are no methods to the
code either.

### OutboundHttp

`fetch` and axios (`ExtractOutbound`), `HttpService` with its observables
(`ExtractServices`). An expression is a small tree, a text a sequence of words that
are absolute, relative or the start of a query. `RealTargets` and `RealMethods` say
what a call sends in some run, `SubscribedTo` whether its observable is subscribed
to. Left out: the names of query keys, user info in URLs, slashes, and configuration
fields other than `url`, `baseURL`, `method` and `params`.

### Interactions, JobBranches

The three extractors of interactions with their registries, and the matching of
emissions to handlers (`model/interactions.ts`), which is shared by all three.
`JobBranches` divides a BullMQ `process` method into the regions of its jobs; `Runs`
executes a body for a job. The shape of syntax trees is the data described at the
head of the module.

### TypeOrm, RawSql

`TypeOrm` replays the calls on a query builder in text order, as
`typeorm-query-builder.ts` does, and the repository operations; `Done` executes the
body, with every choice of its optional statements, on a mutable builder. Left out:
columns and evidence, loops, a second change of kind of one builder. TypeORM itself
is external.

`RawSql` is the loop over the candidates of `typeorm-raw-sql.ts`. A parse, its
deadline and the abort listener race (`ParserWins`, `ParserRejects`, `DeadlineWins`,
`AbortWins`), and the visitor walks the statements with their CTE scopes under the
node limit. The parser is an external oracle that accepts or rejects.

### Provenance

Which request parameter may be written to which column: the expression tracer, the
writes of a handler itself (`TraceHandlers`), and the worklist of frames over the
calls (`FollowCalls`, one frame per step, with `visitedFrames` as in the code).
`Carriers` follows the values along every call path, without memo or limit.

### EndpointTrace, HandlerTrace

`buildEndpointTrace`: `Refuse` and `Start` are the checks and the seeding, `Visit`
is one turn of the cursor loop with everything it enqueues and reports, `Finish`
adds the diagnostics that apply to the methods met and ends. The accumulator record
stands for the local variables one turn changes. `Key` is the key of `enqueue`,
without the path, as in the code. `HandlerTrace` is the second implementation of the
walk, rooted at a handler, with what differs in it.

The document is data: a sequence of facts, each a call, a table access or an
interaction from a method, in the body, in a critical section or in a job-queue
branch. Abstractions: an access stands for one of a table and one of a resource, which
take the same route, and each has its terminal; the lock of a section is taken in the body of its method; steps,
guards and the canonical order of the result are left out; only traversable facts
(resolved or ambiguous) are listed. The facts are a sequence because their order
decides what a limit cuts: `Cross` and `FollowCalls` fold over it, and the entries
are sorted by method by any permutation that does it (`Sorted`).

What class the walk has behind an emission is decided by the emission and by the
listener. `emitAsync()` is asynchronous for every listener; behind `emit()` the rule
of the listener decides, which names no mode when the options of `@OnEvent` are
dynamic (`nest-event-emitter.ts:488`). `timings` gives each listener its mode, and
`NextClass` is then `NoClass`, the `null` of `nextCausalClass`. The two walks part
there: the one of an endpoint goes on without a word (`PassedOver`), the one of a
handler enters the listener without a class, and publishes its table accesses without
one but its resource accesses with that of a synchronous listener (`PublishedClass`).

### Impact, Policy, GraphReport

`Impact` compares the document with an earlier one: every pass of
`analyzePotentialImpact` that gives a reason, and the reverse walk of `graph.ts`
with its selectors and limits. `Policy` has the eight rules of `policy/evaluate.ts`
with the effective guards, the terminal facts (a third walk), exceptions, blocking
and the exit code; what the rules read besides the document is one of `PolicyInputs`. `GraphReport` projects the trace into a scene, selects within the
limits and validates, and has the reached records of the architecture overview. Left
out: texts, evidence, summaries, schemas, HTML; one severity and one `onUnknown` for
all rules; the impact overlay of the graph; the ids that decide the order of edges
are hashes, and one order and its reverse are tried.

### SystemStitch, SystemReport

`SystemStitch` is `stitchSystemAnalyses`: the manifest and its refusals, the
projection of endpoints, correlation, the consumers nobody reaches, and
`validate.ts`. `SystemReport` goes on as the `stitch` command does: the first batch,
the report with its nodes, edges and conditional paths within limits, the two system
policies, and the second batch, with failures and SIGINT in between. The loops pass
over the records of other kinds (`SkipRecord`) and over the endpoints of the other
role, one per step; the record sets of `SystemStitch` are the shapes the schemas let
through. Of texts only what a refusal depends on is kept: which names are identifiers
(`Identifiers`), and which contracts have a text or a key over 512 characters
(`LongTexts`, `LongKeys`). `SystemName` is that of `--name`, of the manifest, or the
default. The traces of the services are data here: a root has the states of the steps
that initiate the interaction and those of its other steps. Left out: labels and the
bound on their length, diagnostics as texts, the summary, HTML.

### Comparison

`compareAnalysisDocuments`, one action per pass: the collisions of the projections
(`ReportCollisions`), the route slots and identities that block endpoints
(`CheckSlots`, `CheckIdentities`), the two matching passes (`MatchExact`,
`MatchRoutes`), the changes of endpoints and of the other families
(`CompareEndpoints`, `CompareFacts`), and `assertValidDiffDocument` (`Validate`).
`blocked` is `blockedEndpointIds`, one set for the ids of both documents, as in the
code. The used ids are those of `matched`. `ambiguities` is `ambiguityByKey` with
the merge of `addAmbiguity`.

A record carries what its semantic key is made of and what may change without
changing the key, so that the two keys of a handler (the registered one with its
registration state, which its dispatches inherit, and the compared one) stay apart.
Abstractions: the fact families of one endpoint are one value with one reason; the
attributes of one record that are compared are two, its state and its rule; the
input checks, counts, order, JSON schema and Markdown are left out.

### ModuleVisibility

`buildModuleVisibility`: the `while (changed)` loop over the re-exports, one
inclusion per step, and then `moduleComplete` with its memo table and its recursion
as an explicit stack. Frames hold the imports that `every` has still to ask. The
provider lists of an entry are unions of what is modelled and are left out.

## 3. The runs

Deadlock checking is off in every run because the systems modelled stop: calls
return, walks end, a scan has its outcome.

| Run | Instance | Size | Shows |
| --- | --- | --- | --- |
| `batch_writer` | 2 processes, plans `<<f1,f2>>`, `<<f2,f1>>`, `<<f1,f1>>` | 428,001 states | types, four safety properties, the refinement, and that a commit runs to its end |
| `publication` | 2 commands of any kind, 2 traces, graph and openapi reporters, the OpenAPI input possibly at the marker's path, 1 fault | 1,158,793 states (up to symmetry) | what the marker and the exit code vouch for |
| `scan` | one scan over forty-seven families of small repositories, each varying what one extractor reads; two families with SIGINT at every await | 1,280,390 states | flows, matching, job regions, locks, calls, requests, guards, tables and queries are found or reported, nothing is made up, and the document says what it lacks |
| `endpoint_trace` | eleven families of documents over up to 4 methods with up to 3 loose facts, with the earlier documents, policies and graph inputs that go with them | 805,166 states | limits are reported, no effect is made up, a complete trace hides nothing but what lies behind listeners it passed over, the five walks agree, no verdict rests on what is uncertain, the graph tells the trace |
| `system_stitch` | systems of up to three services and two realms, in families for contracts, realms, refusals, names and reports | 73,044 states | correlation, conditional paths, validation, the two publications |
| `module_visibility` | every import graph with every set of incomplete modules, and every re-export graph, over 3 modules | 323,655 states | least fixed point, justified incompleteness, completeness right without cycles, both loops end |
| `comparison` | every pair of documents of each of nine families: up to two endpoints in two route slots with two methods, of the same or of another revision; one or two handler chains; one or two assertions, diagnostics or interactions; schema versions 1 to 5 | 550,860 states | matching, completeness of the diff, and its own validation |
| `traces_orphaned`, `effect_lost`, `graph_duplicates`, `visibility_cycle`, `unavailable_as_empty` | as small as the case allows | stop at the violation | five statements the code does not keep, see section 4 |

### Properties

Batch writer. `WholeFilesOnly`: no destination is ever torn. `EarlierFilesFirst`: a
later file of a plan on disk implies the earlier ones, or another process has
replaced them. `RefusedCallsPublishNothing`: cancellation and repeated destinations
leave nothing. `NoStrayTemps`: temporaries do not outlive the call, unless an `rm`
failed. `ImplementsAtomicPublication`: the refinement. `CommitRunsToTheEnd`: after
the last abort check only an I/O error or a kill prevents the end.

Publication. `LatestBundleIntact`: from the moment a scan's marker is in place until
another command starts, every artifact it lists is there as that scan wrote it,
whatever was interrupted (what a later report may remove is in section 4).
`ExitsAreHonest`: what an exit code says. A command that ends before its first
rename changed nothing; exit 0 means that everything asked for is in place and,
unless an earlier command failed, no trace but the selected ones. `InputSurvives`: a scan does not overwrite the document
it enriches.

Scan. Each property below compares what an extractor returns with what the program
does, in both directions: whatever happens is published or has a diagnostic, and
what is published happens. They are checked right behind the step.

* `GuardsAreHonest`: no global guard is missed by an answer called complete, nor an
  import or provider of a module. Every guard on an endpoint is asserted or
  diagnosed, no other is; a shape fits every value the decorator may be given; and
  the enforcement of metadata is proven, configured or unknown only when the guards
  that protect the endpoint say so.
* `LocksAreHonest`: a projected callback runs under a lock, and without a diagnostic
  every argument handed to a lock, over any number of methods, is projected.
* `CallsAreHonest`: every executed call of an injected member, of `this` or through
  a bound callback is recorded with its target; a resolved call has no other.
* `RequestsAreHonest`: every request has an interaction or an issue; the published
  target, method and activation are those of every run.
* `MatchingIsHonest`: no handler an emission runs is missed without a diagnostic,
  and none is matched in another application or under another name.
* `JobsKeepTheirRegions`: in a dispatch called complete each job has exactly the
  regions that run for it.
* `TablesAreHonest`: every table access and every written object of some execution
  is published or diagnosed at its root; a resolved one happens in some execution.
* `FlowsAreHonest`: no flow from a parameter to a column is dropped without a
  diagnostic although frames are memoized without their path, and no influence is
  made up.
* `EveryQueryIsExplained`: each raw query has one diagnostic or all its accesses,
  whoever wins the race; unparsable is said only of what is.
* `OutcomeIsHonest`: a raised signal leaves no document; a completed document has no
  gap; the document does not depend on the order in which records are merged.

Traces. `EffectsAreReal`: every terminal lies on a path of the document under the
causal class that path gives, none included; only a resource that a listener's trace
meets without a class has one assumed (`AssumedSynchronous`).
`CompleteTraceHidesNothing`: without diagnostics, all reachable methods and crossings
are there, although the seen key ignores the path, except a listener of unknown timing
(`PassedOver`) and, where there is one, what only it leads to (`SomePassedOver`).
`ImpactIsHonest`: a change of something the trace reaches is reported within common
limits, and what is reported can be reached, up to the named conditions of section 4. `TerminalFactsAgreeWithTheTrace`: the
walk of the policies and the trace find the same writes. `GatesAreSound`: no verdict
changes when uncertain facts turn out one way or the other; the definition completes
the document in every way it may turn out (`CompletedOutcomes`).
`GraphsTellTheTrace`: the scene leads from its root to everything the trace has met.
`ReachIsCertain`: what the overview counts as reached is on a walk of resolved
facts, and a complete trace that passed no listener over counts all of it; section 4
names the merged steps it leaves aside. The second halves of `CompleteTraceHidesNothing` and `ReachIsCertain`
leave aside documents in which a method with branches is called
(`BranchesAreDispatched`): the trace treats a call back to it as a cycle, whatever
branch it has entered.

Systems. `DocumentsAreValid`: the validation of the result rejects accepted input
only for a `--name` given without a manifest that is no identifier (`NameUnchecked`)
or for a contract that is too long (`ContractUnchecked`); it is the correlation, not
these, that a mutant breaks. `EveryEndpointIsCorrelated`: no endpoint is lost or
counted twice. `PathsAreHonest`: a conditional path joins endpoints of one declared
realm, and is complete only if nothing on it is diagnosed or ambiguous, except a step
on the way to the producer (`AmbiguousOnTheWay`). `ReportsFollowTheirAnalysis`: a report is on disk
only with its analysis, whatever fails between the batches.

Comparison. `MatchedAreTheSoleOnes`: the two passes and the shared set of blocked
ids come to one sentence, in both directions. `EveryEndpointIsAccountedFor`: matched
once, or reported with a reason a reader can see. `DiffReproducesTheLaterDocument`:
applying the changes to the earlier document gives the later one, ambiguous keys
apart. `SharedKeysAreNeverResolved`: duplicates are candidates on their side and in
no change. `DiffIsValid`: the comparison does not throw at its own diff.

Module visibility. `ExportsAreLeastFixpoint`, `IncompleteIsJustified`,
`CompleteIsRightWithoutCycles`, `ViewIsBuilt`, as in the table.

### What the properties of the scan except

An extractor that reads text misses something somewhere. Where it does so silently,
the property names the case in a definition of its own, excludes it, and holds for
everything else. Each exception is needed: without it TLC finds the case. They are
listed with the code in section 4.

* `GuardsAreHonest` (`UnseenGuard`, `ChangedUnseen`): a constant changed under
  another name or in another file, an `APP_GUARD` token under another name, an
  application not bound to a variable. Of endpoints: `Unread`, `UnreadKey`,
  `Replaced`, `SpreadAhead`, `RootIsImported`; and unknown enforcement is compared
  with global guards only where `AllIsRead`.
* `LocksAreHonest`: `OutsideNest`, `BesideForwarding`.
* `CallsAreHonest`: `NothingInjected`, `Inherited`, `Dispatched`, `Unforwarded`,
  `UnboundMember`, `DeclaredWider`, `NoReceiver`.
* `RequestsAreHonest`: `UnseenRequest`; `BaseSetElsewhere`, `MayBeAbsolute`,
  `QueryInBase`, `ChangedByOperator` for targets; `MethodExcused`;
  `ActivationExcused`.
* `TablesAreHonest`: `LostCalls`, `SecondName`, `BranchedKind`, `UnknownTerminal`,
  `Revalidated`, `InjectedOther`, `OutsideEntity`, and roots the code never visits
  (`Unseen`).
* `JobsKeepTheirRegions`: `LeftEarly`, `NothingBehind`. `EveryQueryIsExplained`:
  `Shadowed`.
* `FlowsAreHonest`: flows into destructured parameters (`Named`) and through expression
  forms the tracer does not know (`Transparent`).

### Bounds

* Two processes and two destinations: every property of the writer is about one
  call, or about a pair of calls and a pair of files, and two plans in opposite
  order already produce every interleaving of renames over each other. The theorems
  remove the bound.
* `MaxFaults = 1` in `publication` bounds I/O errors and kills over both commands.
  It is not a bound on cancellation, which may come at any time in either. Two
  commands suffice for the hazards listed, which are about what one command leaves
  and the next one finds.
* `scan`: each limit of the code is a constant, set just above what makes it cut one
  family and not another: expression depth 3, 2 origins per value and frame, 4 call
  frames; 3 statements and 9 nodes of a query; 2 forwarding hops, 3 flow states, 2
  target candidates, 2 locks; 3 words, 2 substitutions, symbolic depth 2 and 5 parts
  of a target. Programs have 3 methods for flows (a cycle, a join of two paths of
  different length), up to 5 methods and 4 calls for locks, at most 3 clauses of a
  switch, at most 5 statements of a builder's body, one class with up to 2
  parameters and 2 assignments for calls, one or two requests for HTTP, 2
  applications and 3 modules for matching, 2 modules with up to 2 elements and parts
  for metadata. The families vary one extractor each, because extractors meet only
  in the merge, the result state and validation, for which the families `Merges` and
  `CandidateLists` are; only those two are interrupted.
* `endpoint_trace`: 4 methods and three loose facts beside those fixed by a family,
  with a roomy and a tight configuration: enough for a cycle of three, two facts of
  one method competing for a limit, a fan-out above its limit, a section inside a
  branch, and the states limit cut in the middle of a visit. Policies have one
  controller, one endpoint and two interactions at most. Graph limits are below the
  least value the options accept (10), so that small scenes are cut.
* `system_stitch`: three services, so that a third may contest a pair; two realms.
  `MaxNodes = 6` and `MaxEdges = 3` are again below the options' minimum.
* Three modules: the smallest number for a cycle with a module hanging off it, and
  for a re-export chain that needs two passes.
* Two endpoints per document and two slots: a contested slot on either side or both,
  one endpoint left over by the exact pass, and ids shared by the documents. The
  theorems on matching remove the bound. Two records of a kind give every collision
  of one key; a third would be one more candidate. Chains have one dispatch, branch
  and effect per handler, because the keys of a family only look up one parent.

### Fairness

* `AtomicFiles!FairSpec`: weak fairness of each call's own steps. Every await of a
  live Node process settles; errors, signals and kills are under no fairness. The
  disjuncts of `Step` exclude a lasting choice between two of them that could starve
  one.
* `ModuleVisibility!FairSpec`: weak fairness of `Next`; one synchronous function
  that nothing abandons.
* All other specifications have safety properties only. The loops of the scan and of
  the walks are bounded by the limits above or by finite input, and TLC explores
  them to the end.

## 4. Where the code and what is said of it differ

### Checked

Five runs end in a violation. Each checks a sentence of the documentation as an
invariant.

* `traces_orphaned` - `scan` publishes a manifest without the stale traces and
  removes them afterwards; killed in between, it leaves traces that no later command
  removes. `report` publishes `pendingContents` and does not have the problem
  (`scan.ts:336`).
* `effect_lost` - a handler that calls a method already on its path is skipped
  without a diagnostic; the effects of that method under the causal class of the
  event are missing from a trace called complete (`endpoint-trace.ts:451`).
* `graph_duplicates` - two columns fed from one request parameter repeat the edge
  that declares it, and the graph command fails its own validation
  (`graph-report/project.ts:586`).
* `visibility_cycle` - `moduleComplete` caches answers that rest on a provisional
  `true` for a module that is being visited; with an import cycle a module may be
  called complete while it imports an incomplete one (`visibility.ts:98`).
* `unavailable_as_empty` - a document whose schema has no handlers or branches is
  compared as one that has none: every handler or branch of the other document is
  reported as added or removed (`compare.ts:598`, `676`).

### Named by an exception of a property

These are excluded from passing properties, most by a definition named here or in
section 3, without which the property fails; the others are listed at the end of the
section. Most are silent gaps of a static analysis rather than mistakes.

* The scan ends with an error, not a document: when two provenance extractors, or a
  client ambiguous between events and messages, give diagnostics one id
  (`CollidingDiagnostics`; `scan-repository.ts:393`); when `using([a, b])` names two
  locks of one structural key (`RepeatedLocks`; `redlock-critical-sections.ts:346`);
  when metadata of another file is located behind the end of the module's file
  (`MisplacedEvidence`; `evidence/locations.ts:13`). A shorter file gives a wrong
  location instead.
* Modules: `const` arrays changed under another name or in another file are taken as
  written and the scan of global guards is still called complete
  (`nest-modules.ts:159`; `docs/nest-modules-and-global-guards.md`); an `APP_GUARD`
  token under another name, and an application outside a variable declaration, are
  missed (`ChangedUnseen`, `UnseenGuard`).
* Authorization: a guard registered with `useGlobalGuards` belongs to the root module
  of its application, and is credited to the endpoints of any application that
  imports that module (`RootIsImported`; `nest-authorization.ts:626`), while
  `docs/authorization-metadata.md:56-57` says that it "is never credited to the
  endpoint" from "a separate application root". A wrapper is read as written although its variable may be given
  another value (`Replaced`); a spread ahead of the parameter that is the value gives
  a definite shape of the wrong argument (`SpreadAhead`;
  `nest-authorization.ts:304`); guards in a wrapper that has no `SetMetadata`, or
  two, and guards behind a nested wrapper, are neither asserted nor diagnosed
  (`Unread`).
* Locks: issues met in classes without a Nest role are dropped (`OutsideNest`), and
  a call with one proven forwarding has no issue for its other arguments
  (`BesideForwarding`).
* Calls: a class without a bound injected member is skipped with its `this` calls
  (`class-relationships.ts:414`; `docs/supported-patterns.md:298`); inherited
  methods called on `this` are missed; a member declared with a base class publishes
  the method of the base class as resolved (`DeclaredWider`, `Dispatched`); and a
  call is resolved from the declared types alone, also where no object of them has
  the method, because the class is abstract and nothing extends it or because a
  function in a property takes its place (`NoReceiver`).
* Requests (`docs/outbound-http.md`, `docs/nest-http-service.md`): a base URL is
  joined to a target whose leading substitution may be absolute
  (`outbound-http.ts:306`); a query in a base URL is cut before joining;
  `axios.get(url, {method})` publishes the method of the configuration; later
  `defaults.baseURL` and `HttpModule.register({baseURL})` are not considered; a
  member changed by `+=` is taken as unchanged (`nest-http-service.ts:204`); an
  observable returned inside an object or array of a route counts as activated, and
  one passed to `new` as not (`nest-http-service.ts:646`).
* Tables (`docs/typeorm-query-builder.md`): calls chained behind the first one of a
  statement on a local builder are not seen (`typeorm-query-builder.ts:617`), nor
  those through a second name; a join with an ambiguous entity makes a builder valid
  again (line 529); `@InjectRepository(A)` on a `Repository<B>` publishes B.
* Job branches: a nested `break` before a final `return` loses the statements behind
  the switch in a dispatch called complete; the branch of unmatched jobs is given
  the first `if` when nothing follows the chain (`bullmq-branches.ts:387`).
* SQL: a CTE named like the table it reads gives neither access nor diagnostic
  (`Shadowed`; `docs/postgresql-raw-sql.md:57-59`).
* Provenance: destructured parameters, values built by `new` and extra arguments of a call drop
  the flow without a word.
* Impact: `processTableAccessChanges` starts paths without the branch of the
  assertion (`ReportedForEveryProducer`; `docs/impact-analysis.md:87-88`), and
  selectors are carried beyond the producer of their handler
  (`impact/graph.ts:163`). The depth is counted along the whole path while the trace
  starts anew behind an interaction (`graph.ts:212`), so `ImpactIsHonest` compares
  them within one count.
* Impact behind branches: a selector is carried through every method before the
  branch (`impact/graph.ts:184`). Where a method with branches is entered by a call
  or an event, a queue further up is judged by a job that does not feed it, and a
  change the trace passes is lost (`OnlyJobsRunBranches`; with two job names,
  `OneJob`). A fact of a dispatching method that lies in no job's region carries no
  selector: the impact reports it for every producer, while the trace does not follow
  it behind a job (`OutsideTheBranches`). The documents of the run include both.
* Traces: a listener whose `@OnEvent` options are dynamic keeps an unknown mode and a
  diagnostic (`docs/in-process-events.md:65-68`), but not where it is matched: the
  trace of an endpoint that emits to it with `emit()` does not enter it, raises
  nothing, and may be called complete although "causalSummary" is to carry "explicit
  completeness diagnostics" (`PassedOver`, `SomePassedOver`; `endpoint-trace.ts:368`).
  The listener's own trace publishes its resource accesses as
  `local_interaction_synchronous`, which `docs/in-process-events.md:108` keeps for "a
  proven synchronous local listener path", while its table accesses have no class
  (`AssumedSynchronous`; `interaction-handler-trace.ts:230`).
* Policy: neither policies nor impact see that a trace was cut by depth or states
  (`docs/policy-engine.md:109-113`), nor does `require-guard-on-write-endpoint` see
  writes behind an unresolved call (`Covered`).
* Overview: the steps of a method are merged whatever the way it was entered. Where
  a walk of resolved facts enters it in one branch and the trace in another, or
  whole (`EnteredInTwoWays`), and where a handler that is not registered is walked
  for another reason, what counts as reached is more than any such walk does.
* System report: two endpoints of one method and path make the trace ambiguous, so
  that neither is a root and the path without a root may be complete
  (`HiddenBySharedRoute`; `docs/system-report.md:46-48`). "A path is `incomplete`
  when a local step is ambiguous" (`docs/system-report.md:70-72`), but on the
  producer's side completeness looks only at the steps that initiate the interaction:
  a root that comes to the producer over an ambiguous call has a complete path
  (`AmbiguousOnTheWay`; `project.ts:178`). On the consumer's side every step counts.
* System name: with a manifest, `--name` must be the manifest's, which is an
  identifier. Without one nothing asks what it is: `stitch --name "My System"` reads
  and correlates all it is given, and is then thrown out by the schema of its own
  document (`NameUnchecked`; `cli/commands/stitch.ts:90`, `stitch.ts:622`,
  `system-analysis/schemas.ts:22`, `:170`). Likewise a queue, job or pattern may be
  longer in an analysis than the 512 characters the system document allows, and parts
  that are short enough may make up a key that is not (`ContractUnchecked`;
  `schemas.ts:27`, `:98`). Nothing is written in either case.

### Outside every property

These are modelled as the code has them, or lie in an abstraction, and no property is
about them:

* A report after a scan removes traces that `bundle.json` still lists as complete
  (`report-artifacts.ts:51`; `docs/selected-scan-bundles.md:48-53`).
  `LatestBundleIntact` speaks of a bundle until another command starts.
* `flag && app.useGlobalGuards()` counts as unconditional (`NestModules`).
* Of two configured keys of one decorator only the first is recorded, and a composite
  is proven by the guards that resolve while `docs/authorization-metadata.md:25-26`
  asks that all do (`Authorization`).
* Of the position of a call on a query builder (`typeorm-query-builder.ts:629`) only
  the order of the statements is kept: two uses of a builder in one statement are not
  told apart.
* A trace manifest that cannot be parsed is taken as none (`report-manifest.ts:34`);
  the model reads what a command has written.

### Met while reading, not modelled

* Two service bindings, one for all records and one for a record, of the same
  endpoint are accepted by the manifest and make the stitch throw.
* `policy/config.ts:52` accepts versions 1 and 2, `docs/policy-engine.md:28-31`
  names 3 and 4.
* `mergeEvidenceRecords` (`merge-records.ts:101`) throws when evidence of one id
  comes with and without a snippet; spreading one provider object constant twice
  repeats a registration id.
* With `maxFanOutPerInteraction` 1 and two request handlers, the retained one is
  called resolved (`docs/nest-microservices.md:65`).
* A changed event or queue handler reached without a call is labelled
  `direct_endpoint_change` (`docs/impact-analysis.md:50-51`).
* A producer with an exact candidate in a shared realm fails
  `require-declared-realm-candidate` when another consumer is elsewhere
  (`system-report/policy.ts:64`).

## 5. The proofs

The modules named `*Proofs` are checked by TLAPS to the last step: `AtomicFilesProofs`,
`PublicationProofs`, `ModuleVisibilityProofs`, `ComparisonProofs`,
`SystemReportProofs`, `TraceProofs`, `PolicyProofs` and `ScanProofs`. Their theorems are about every state the specifications reach, for
any set of processes, paths, plans, modules, methods, services, any documents,
repositories, order and limits, under these named assumptions, which TLC evaluates in the runs.

| Assumption | Says | Why |
| --- | --- | --- |
| `AtomicFiles!PlansAssumption` | plans are sequences of paths | the argument is an array of destinations |
| `MarkersAssumption` (writer, `Publication`) | the markers `Absent` and `Torn` are no contents | they only encode "no file" and "cut short" |
| `Publication!CommandAssumption`, `TracesAssumption`, `SelectionsAssumption` | commands are of the three kinds and select finitely many traces, whose files are in a directory of their own | `artifact-plan.ts`; an analysis has finitely many endpoints |
| `ModuleVisibility!OrderAssumption`, `FamiliesAssumption` | `Order` lists every module; a family is made of lists of modules and sets of classes | the shape of the document |
| `Comparison!FamiliesAssumption` | ids are unique in a document, for endpoints and within each kind of record; endpoints of two documents with one id have one route | `evidence/validate.ts:262-275`; an id is a hash over revision, route and method (`model/ids.ts:154`) |
| `EndpointTrace!MethodsAssumption`, `FamiliesAssumption` | methods are numbered by their order and finitely many; a fact names methods of the document, and a call its callee; a listener has one of three modes | documents are validated before a trace is built |
| `SystemStitch!InputsAssumption` | services and manifest have the shapes of their schemas, and no manifest declares nothing; no message goes through the transport `bullmq`; the default name is an identifier; a contract with a long text has a long key | the schemas; `NEST_MICROSERVICE_TRANSPORTS` (`model/interactions.ts:17`) has no such member; a key holds the texts of its contract (`model.ts:133`) |
| `Policy!PolicyFactsAssumption` | what the rules read has the values of its types; only messages have a target that is not known | `policy/evaluate.ts:732-755`: only a message without a transport is `unknown` |
| `GraphReport!GraphInputsAssumption` | guards are finitely many and influences in a list; the limits leave room for the root; an origin is a field of one parameter, a parameter is declared by one method | `normalizeLimit` (`graph-report/project.ts:68`) refuses a limit below 1; an origin is hashed over its parameter, a parameter over its method (`model/ids.ts:218`, `:250`) |
| `ScanPipeline!RepositoriesAssumption` | raw SQL calls, assertions and the clauses of a processor are in lists; a receiver is one of three kinds, the end of a clause one of four; listeners and applications are finitely many, and applications have ids of their own, none of them 0 | syntax trees are finite; 0 stands for "no application" where the code has `null`; a chain of ifs has no `finally` (`JobBranches`) |
| the same, `LockingIsTyped` and `CodebaseIsTyped` | the calls of a scan are finitely many, each at a place of its own; methods and positions are numbered from 1; what a class extends has no cycle, and members, parameters and calls name classes and parameters that are there | syntax trees are finite, a node has one place; a class that extends itself is refused by the compiler, and names are resolved by its checker |
| `OutboundHttp!ExpressionsAssumption` | what an expression is made of is an expression | syntax trees |

A note on form. A loop of the code is an action per turn, a `for` without an await a
fold (`FoldLeft`) or a recursive function over an index. None of the installed
provers can instantiate the library's induction theorems, so an induction is written
out by its least counterexample (`LeastNumber`, `CountingUp`): the set of numbers for
which a claim fails has a least member, which is not the first and whose predecessor
is no counterexample. The function that a recursive definition or a fold *chooses*
is first shown to exist in the same way (`FoldExists`, `WithinRuns`, `CallsRun`).
Updates of nested records are written as nested `EXCEPT`s, which the SMT backend
translates faithfully where it does not for two updates below one index.

### AtomicFilesProofs

None of the properties is inductive: that no destination is torn needs that only
whole temporaries are renamed, which needs to know at which place of the function
the call is. `WriterInv` is `CallInv(p)` for each process, which ties `pc` to the
state of every temporary (all but the last whole while staging, exactly the first
`renamed` gone while committing, what is still to be removed while cleaning) with
distinct destinations so far, plus `DiskInv` (every content on disk was renamed
there by its process). It is kept by every step of a writer whatever else happens
around it, which is why `Publication` can use it. `OrderInv` (the earlier files of a
committing or ended call are in place, or overwritten by another process) needs
every change of the disk to be a rename. Each action has a lemma per part. From the
two follow `Typing`, `WholeFiles`, `RefusedCalls`, `PlanOrder` and `TempsRemoved`;
`Implementation` maps each step of the writer to a step of `AtomicPublication` or to
a stutter.

### PublicationProofs

`IInv` is the writer's `WriterInv`, taken over through `INSTANCE` with its lemmas,
and for each process where its call stands in each phase of its command
(`PhaseInv`), what it has read and still removes (`CommandInv`), and that the batch
it hands over is the accepted plan of the command (`PlanInv`). Of the command started
last, `StandsInv` says what is on disk: the files it renamed and nothing else of its
own. That needs `TurnInv`, one command alive at a time. The markers are last because
plans are: `CompletePlan` gives the positions of the artifacts in the plan that
`ArtifactPlan` builds, for any set of traces and reporters. `TrackedInv` is what
`ExitsAreHonest` needs of *earlier* commands: without a fault, the trace manifest
names every trace on disk, except between the first rename of a command and its exit
(`TrackedAtRest`), so that no trace escapes the next clean-up. Results:
`InputIsSafe`, `BundleIsIntact`, `ExitsTellTheDisk`.

### ModuleVisibilityProofs

`ExportsInv` keeps the re-export loop below every assignment that respects the
exports, and says which re-exports are known to be respected: those visited in this
pass unless something changed. At the end of a pass without a change that is all of
them (`LeastFixpoint`). `StackInv` says the stack is a chain of imports without
repetition (so a cycle cannot make the recursion endless) and which imports of each
frame have been answered. `JustifiedInv` carries "no" answers back along imports
(`Justified`). `GoodInv` carries "yes" answers, where the provisional `true` is the
difficulty: `NeverMeetsItself` shows that without cycles the search never asks for a
module on its own stack (`RightWithoutCycles`). Reachability is stated by closed
sets rather than by a recursive closure, which keeps every proof first-order.

### ComparisonProofs

`IInv` describes what each pass has left for the next: `BlockedSoFar` gives the
blocked ids phase by phase (those of contested slots, then those of ambiguous
identities of one document, then of both), `MatchedSoFar` the pairs (none, those
with equal exact keys, all counterparts). The difficulty is that ids are compared
across documents: an id blocked on account of one document blocks its namesake in
the other. Equal ids have equal routes, so a namesake is in the slot that was
contested, or is no counterpart of anything else. From it follow `TypesAreRight`,
`MatchingIsRight`, `ContestedKeysNeverArise` (two endpoints with one exact key share
a slot, and are blocked before the exact pass) and `MatchingIsOneToOne`.
`NoEndpointIsLost` adds `AccountInv`: contested slots and ambiguous endpoints stay
covered by an ambiguity whatever is merged into it later, and the changes of
endpoints stay what `CompareEndpoints` made them.

`FactInv` is the same for the records behind the endpoints: `addAmbiguity` merges
into what is there, so ambiguities stay well formed with one for each identity, and
each shared key stays explained by one (`SharedKeysStayAmbiguous`); the changes of
records are those of the keys that are *not* contested (`FactsListed`), each of which
has at most one record on either side. Key by key, applying the change to what is
there gives what is there later (`DiffsReproduce`). Both together are what the
validation asks for, so that it never refuses (`DiffsAreValid`).

### SystemReportProofs

`StitchInv` says what each loop of `stitchSystemAnalyses` has done at its cursor:
`ProjectedInv` that an endpoint in the list is of a record the loop has passed, so
that none is there twice; `CorrelationsInv` that there is one correlation for each
producer passed and each lonely consumer passed, and that the consumers remembered
are those offered to the producers. `EndpointsAreCorrelated` reads it off at the end.
`BatchesInv` says which files of the two batches are on disk in each phase
(`ReportsFollow`). `ReportInv` is the hard one: a report that is about to be written
is valid and honest. Every path node is a node of the graph because the nodes of
paths are the first that are added and `FirstOf` cuts a sequence at its end
(`NodesKnown`), every edge of a path has its two nodes, and every candidate called
declared has its realm in the manifest (`DeclaredKnown`, `SourceKnown`). From it
follows `PathsHonest`. `AcceptedInputIsStitched` rests on `StitchedIsValid`: what the
loops have built meets every relation that `validate.ts` asks for, so that only the
name and the length of a contract are left for the schema to refuse; that the name of
a manifest is never refused comes from the two checks the input has passed
(`TopologyAccepted`, `NameAccepted`).

### TraceProofs

`TraceInv` speaks of the accumulator that every step of a turn takes and returns, so
that it can be carried through the folds: each operation is shown to keep what the
accumulator has (`Grows`), to stay coherent (each key seen has its state in the
queue), and to lead *onward* (`Onwards`): every state added is one of `RealStates`,
every diagnostic one of the walk's. A visited state has been followed
(`Visited`): each arrow from it leads to a state of the queue with that key, or was
reported.

*Nothing is made up* (`EffectsReal`): a real state stands at a place which the
program reaches in at most 2·|path| arrows, because a state with a section filter
comes right behind the one it was entered from. The paths of states have no
repetition, so this is at most `MaxArrows`, where `Places` stops. *Nothing is hidden*
(`CompleteHidesNothing`): a trace without diagnostics was cut by no limit and no
cycle, so an induction over the arrows finds a state at each place reached
(`PlacesAreCovered`). A state may stand for less than its place only where a method
with branches is called, which is why that part of the property excludes such
documents. A listener that is passed over ends the walk there: no state is owed for it
(`Admitted`), and an arrow through it breaks the induction, so the part about methods
is about walks without one. A terminal without a class is published by a handler's
trace only, and `AssumedIsPublished` says with which.

Two conjuncts of `TraceInv` are there for its readers. `Connected`: every set that
has the roots, and with a method all that its recorded facts lead to, has all
methods of the queue; it is how a property of a report, which knows recorded facts
and no path, can speak of everything the trace has met. `Spread`, of a visited
state: what it matched is in the queue or reported, with its depth and its share of
the fan-out. A third, `Derived`, is the induction over the queue for those who know
what a step of the trace does: every state that is no root comes from an earlier one
by following a fact, so that what the roots have and such a step keeps, all states
have (`StatesAreDerived`).

### PolicyProofs

`buildTerminalFacts` walks in states of a method and a certainty, the trace in
states of five fields with a path. `CallsWithin[n]` is the set of methods within `n`
calls of the implementations: the projection reaches those within `Limits.depth`
(`ProjectedIs`), and so do the states of the trace that no interaction led to, by
`OnCalls`, which `TraceInv` carries, and `CallsAreFollowed`. The latter has to show
that a method which is skipped as it is on the path of a state was entered with
fewer calls. Both read the same table accesses there (`TerminalFactsAgree`).

`GatesSound` compares a verdict with the verdicts on all completions. `PolicyInv`
says that an evaluation stays that of its facts, so that the rest is about one
state. A rule over facts that are not walked is compared case by case
(`RepositoryIsSound`, ..., `HandlersAreSound`). The guard rule reads the walk: a
contributor on resolved calls contributes in every completion (`SureStays`), so that
a failure persists; and if none contributes and the trace has no gap, then nothing a
completion may add is behind any of the methods within the calls (`NothingIsAdded`),
because a state at such a method would have stopped at an unresolved call, or
stepped on a diagnosed method. This is where the rule on traces has to stand beside
the rule on guards (`Covered`), and where a trace cut at its limit of states would
break the argument.

`GraphsTell` is carried by `GraphInv`: a report is the one that `DrawGraph` makes of
the final trace, so the rest is about one state. The lists of edges have each edge
of their set (`Listed`, by counting), and an id determines its edge (`NamedById`),
but for the three edges of an influence, which are why a repeated id names two
influences of one parameter. The selection keeps to known ends and, below its
limits, leaves nothing out. `ClosureFrom` stops after as many rounds as there are
edges; that this is enough (`ClosureIs`) follows from `StepsSettle`: where each round
keeps what it has, as many rounds as there are things to add end in a set to which
one more adds nothing. The closure has the root and what its edges lead to, so by
`Connected` it has every method of the queue.

`ReachCertain` compares the steps of the trace, which know methods only, with
`Places` of the resolved facts. A place is a method, a filter and three more fields;
what it leads to depends on the first two (`LikeArrows`), so that by `StepsSettle`
the `MaxArrows` of `Places` are enough for every station, a method and a filter
(`PlacesSettle`). For the first half, the counted records are the least set with the
root that the resolved steps lead out of nowhere (`ClosureIsLeast`), and those that
such a walk makes (`Fits`) are closed under the steps (`StepsFit`). For the second,
each place has a state of the queue at it that counts (`StoodAt`), by an induction
over the arrows in which a trace without diagnostics has followed, and spread to,
everything (`CertainAreCounted`).

`ImpactHonest` joins two walks in opposite directions. By `ImpactInv` every reason is
one that `ReasonsOf` gives, so the rest is about the walk backwards (`RetracingRuns`),
which is written as rounds of a set of states. *What the trace passes is reported*:
for a state of the trace the states of the walk backwards that start at its changed
file or fact are followed towards the root, against the derivation of that state
(`StatesReturn`). `Meets` says that such a backward state stands at the method of a
forward one, that their paths have nothing else in common and together take no more
calls than the limit, and that its selector, if it has one, allows every job; each
step of the trace, taken back, keeps it (`MeetingGoesOn`). Here the conditions are
needed: one job name, and branches that are entered by a job or at a root (`Regular`).
*What is reported can happen*: a path that was carried back is a chain of recorded
facts (`Carried`), and once it has arrived at the endpoint it is walked forwards,
place by place, with the filter its selector gives (`Shown`, `PathsArePerformed`);
`PlacesSettle` says that `Places` has them however long the path.

### ScanProofs

The theorems are about `Spec` of `ScanPipeline`, so about a scan in which all
extractors take part.

`OutcomeInv` ties the outcome to the signal, to the place in the scan and to the
state of the SQL loop (done only while the signal is not raised, canceled only when
it is); what is merged is a union, so the order of the lists makes no difference
(`FlatReverse`, `MergeReverse`). From both follows `OutcomesAreHonest`. `SqlInv` is about the calls before the cursor: each was
looked at, has at most one diagnostic, and every access is found in one of them
without a diagnostic, through all ways the race of parser, deadline and signal may
end (`QueriesAreExplained`). CTE scopes are chains of enclosing statements, and what
is visible is compared with what is in scope, statement by statement.

`JobsKeepRegions` is about the branches of a processor. `switchDrafts` takes the
clauses group by group, which the model writes as a recursion over the first clause
of a group. `GroupWalk` shows that it lists groups only, and `GroupsCover` that every
clause is in one of them; where a dispatch is complete no group was spoilt by a fall
through, so that the clause a job enters, the first with its label or else the
default wherever that stands, runs with the last clause of its group and, unless that
returns, with what is behind the switch (`SwitchEntered`, `SwitchPassed`). The chain
of ifs is one case for each branch (`IfRuns`).

`HandlersAreMatched` needs `MatchesInv`: what each of the three extractors has
returned is what its definitions give for the wiring, which never changes. Names
with stars are matched by a table filled from its end; `Covers` asks instead for a
way to share the segments out. `Shares` walks through both, and the table is shown to
be its only solution, by induction from the last cell (`SegmentsShare`,
`CoversShares`). What remains is that no diagnostic means that no list was cut
(`SubsetOfSize`, `RetainedIs`) and that a class with one application was matched in
that one, whatever contexts were collapsed.

`CallsHonest` compares the calls of the compiler's types with those of the objects.
A method is looked up along the classes a class extends, and the classes an object of
a declared type may have are found the other way, so both recursions are first shown
to exist, as least fixed points, and what they give is shown class by class: among
any classes for which a claim fails there is one that extends none of the others
(`CodebaseIsTyped`). The extractor reads one assignment of a constructor where the
execution keeps the last, which is the same where the member counts as bound. What is
then left of a call that is not recorded, or of a recorded call that is not made, is
one of the cases of section 4.

`LocksHonest` needs `LocksInv`, on the worklist from the using() calls back to the
callers. The summaries that are kept have distinct keys, follow edges of the calls,
and are about parameters in `LockedParameters`, the least set that is closed under
handing on. As long as there is no issue, each first summary has one of its key among
them, and when a turn has changed nothing everything one could
follow has been followed (`AllFollowed`). A turn is a fold over pairs in an order
(`Ordered`: the list has each member of its set once), so what one `Follow` keeps, the
turn keeps (`FollowKeeps`, `TurnKeeps`). That the iteration behind `LockedParameters`
has reached its least fixed point is shown by counting: each round that is not the
last one adds a parameter that some call passes on.

The proofs changed the model where it could not be reasoned about, or was wrong:

* guards of a `CASE` that overlap leave it open in TLA+ which arm is taken, while the
  code takes the first (eight modules now say `IF`, `ELSE IF`);
* the expressions of `OutboundHttp` were `RECURSIVE` operators;
* that a chain of ifs has no `finally` was said only by the inputs of the run, and is
  now part of an assumption;
* `LockedParameters` was iterated once for each call; a call that passes several
  parameters on may need a round for each, so the bound is now the number of the
  arguments passed;
* the objects behind a member were those of its class and of the classes that extend
  that one directly; they are now those of all that extend it, however far;
* without `NoReceiver`, `CallsAreHonest` does not hold of every codebase, though it
  held of those of the run;
* `ReachIsCertain` excused only a trace that enters a method in two ways; the two
  ways may be those of the trace and of the walk of resolved facts, and a handler
  that is not registered needs the same excuse;
* `CompleteTraceHidesNothing` was silent on all documents with branches; it now is
  on those in which a method with branches is called;
* `ImpactIsHonest` held of documents in which jobs alone enter branches and every fact
  of a processor is in a job's region; it now names both conditions, and the family of
  branches has documents beyond them. An impact is that of an endpoint: the model had
  also compared the traces of handlers;
* TLC reads `UNION A \cup B` as `(UNION A) \cup B` and TLAPS as `UNION (A \cup B)`.
  The modules have parentheses wherever the two would differ.

### Only model-checked

* Liveness (`CommitRunsToTheEnd`, `ViewIsBuilt`), which the provers do not do.
* Of the scan, `TablesAreHonest`, `RequestsAreHonest`, `GuardsAreHonest` and
  `FlowsAreHonest`. Each compares a walk over bodies, or folds over options and
  spreads, with what the program does, over finite inputs; a proof needs the
  induction over the shapes of bodies written out for each, as `ScanProofs` does for
  those that are proved, and conditions on the inputs that today only the families of
  the run meet.

## 6. Not modelled, and what comes next

Left out for good: the matching of syntax trees inside the extractors (its outcome
is the data of the models), the compiler index and the scanner, HTML and Markdown
rendering, parsing of options and of configuration files. They have no state that
outlives a call, and their hard part is an external oracle.

Not modelled: endpoint, contract and resource-access
extractors (one pass over decorators each; they contribute records to the merge);
the schemas and the referential validation of the analysis document, but for what
the modelled extractors can violate; structured exports and their bounded reports,
whose one stateful part, the OpenAPI document as input and output, is in
`Publication`; two commands at the same time in one directory, but for their batch
writers; the impact overlay of the graph, the fan counts and heat bands of the
overview.

Planned, in this order:

1. Theorems: what `TypeOrm` and `OutboundHttp` publish.
2. The other extractors of the scan, one by one, in `ScanProofs`.
3. The referential validation of `evidence/validate.ts` against what the extractors
   return together.
