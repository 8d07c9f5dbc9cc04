---------------------------- MODULE Interactions ----------------------------
(***************************************************************************)
(* Who may be called by whom without a call: the in-process events         *)
(* (src/src/extractors/nest-event-emitter.ts), the queued jobs             *)
(* (nest-bullmq.ts) and the messages between services                      *)
(* (nest-microservices.ts), and how each matches an emission to a handler  *)
(* (model/interactions.ts).                                                *)
(*                                                                         *)
(* What the extractors read is one record, the wiring:                     *)
(*   imports, provides  the resolved module assertions,                    *)
(*   applications  [id, kind, root, transport]: kind is "http",            *)
(*                 "microservice" or "hybrid", an unknown root is 0 and an *)
(*                 unknown transport is "none",                            *)
(*   emitters      [module, configuration] of each forRoot(): "exact",     *)
(*                 "wildcard" or "dynamic",                                *)
(*   clients       [module, token, transport] of each ClientsModule entry, *)
(*   listeners     the decorated methods, and sites, the emitting calls in *)
(*                 classes with a role, each on the channel that sees it,  *)
(*   fanOut        maxFanOutPerInteraction.                                *)
(* A name is a sequence of segments, or Dynamic when it is not static; a   *)
(* processor has a body (JobBranches), of form "none" without branching on *)
(* the job name.                                                           *)
(***************************************************************************)
EXTENDS JobBranches

\* What the sources and the options are like.
WiringIsTyped(w) ==
    /\ IsFiniteSet(w.listeners) /\ IsFiniteSet(w.applications) /\ w.fanOut \in Nat
    /\ \A a \in w.applications : a.id # 0 /\ \A b \in w.applications : a.id = b.id => a = b
    /\ \A l \in w.listeners :
          /\ l.channel = "event" => l.name \in Seq(ToSet(l.name))
          /\ l.channel = "job" => BodyIsTyped(l.body)
    /\ \A s \in w.sites : s.channel = "event" => s.name \in Seq(ToSet(s.name))

CONSTANT Wirings       \* the wirings the extraction is run on

VARIABLES
    wiring,            \* the wiring being analysed
    eventFacts,        \* what extractNestEventEmitter returned
    jobFacts,          \* what extractNestBullMq returned
    messageFacts       \* what extractNestMicroservices returned

interactionVars == <<wiring, eventFacts, jobFacts, messageFacts>>

Dynamic == <<"?">>

NoFacts == [handlers |-> {}, interactions |-> {}, matches |-> {}, diagnostics |-> {}, dispatches |-> {}]

-----------------------------------------------------------------------------
(***************************************************************************)
(* Applications and the modules they reach.                                *)
(***************************************************************************)
ReachableModules(application) ==
    LET step(S) == S \cup {pair[2] : pair \in {pair \in wiring.imports : pair[1] \in S}}
        reached[n \in 0..Cardinality(wiring.imports)] ==
            IF n = 0 THEN {application.root} \ {0} ELSE step(reached[n - 1])
    IN  reached[Cardinality(wiring.imports)]

ModulesOf(class) == {pair[2] : pair \in {pair \in wiring.provides : pair[1] = class}}

\* Each extractor knows the applications of its own kinds only.
EventApplications == {a \in wiring.applications : a.kind = "http"}
MessageApplications == {a \in wiring.applications : a.kind # "http"}

ApplicationsForClass(class, applications) ==
    {a \in applications : ReachableModules(a) \cap ModulesOf(class) # {}}

\* The application of a class that is in one, else 0.
TheOnly(applications) ==
    IF Cardinality(applications) = 1 THEN (CHOOSE a \in applications : TRUE).id ELSE 0

\* Wrong: the first of several will do.
TheFirst(applications) ==
    IF applications # {} THEN (CHOOSE a \in applications : TRUE).id ELSE 0

\* Wrong: any application of the class.
ContextOfFirst(class, applications) == TheFirst(ApplicationsForClass(class, applications))

ContextForClass(class, applications) == TheOnly(ApplicationsForClass(class, applications))

Of(kind, S) == {x \in S : x.channel = kind}

\* The sort by id before the cut: any fixed order.
Retained(candidates) ==
    IF Cardinality(candidates) <= wiring.fanOut THEN candidates
    ELSE CHOOSE kept \in SUBSET candidates : Cardinality(kept) = wiring.fanOut

FanOutDiagnostics(interaction, candidates) ==
    IF Cardinality(candidates) > wiring.fanOut
    THEN {<<"INTERACTION_TRACE_LIMIT_REACHED", interaction>>} ELSE {}

ReceiverDiagnostics(kind) ==
    {<<"INTERACTION_RECEIVER_AMBIGUOUS", s>> :
        s \in {s \in Of(kind, wiring.sites) : s.receiver = "ambiguous"}}

Resolved(kind) == {s \in Of(kind, wiring.sites) : s.receiver = "resolved"}

-----------------------------------------------------------------------------
(***************************************************************************)
(* In-process events.                                                      *)
(***************************************************************************)
WildcardShaped(name) == \E i \in DOMAIN name : name[i] \in {"*", "**", "a*"}

\* validInProcessEventPattern: "a*" stands for a segment with a star inside.
ValidPattern(name) == (\E i \in DOMAIN name : name[i] \in {"*", "**"}) /\ "a*" \notin Range(name)

Registrations(application) ==
    {e.configuration : e \in {e \in wiring.emitters : e.module \in ReachableModules(application)}}

\* configurationForApplication: several different ones are as good as none.
ConfigurationOf(application) ==
    LET found == Registrations(application)
    IN  CASE found = {} -> "absent"
          [] "dynamic" \in found \/ Cardinality(found) > 1 -> "unknown"
          [] OTHER -> CHOOSE configuration \in found : TRUE

ConfigurationKnown(application) == ConfigurationOf(application) \in {"exact", "wildcard"}

RegistrationState(candidates) ==
    IF \E a \in candidates : ConfigurationKnown(a) THEN "proven_registered"
    ELSE IF \/ \E a \in candidates : ConfigurationOf(a) = "unknown"
            \/ EventApplications = {}
            \/ \E a \in EventApplications : a.root = 0
    THEN "registration_unknown"
    ELSE "declared_candidate"

\* A listener of a name with stars needs one configuration, known in every
\* application of its class; the stars then match segments, or only themselves.
EventTarget(listener, candidates) ==
    LET configurations == {ConfigurationOf(a) : a \in candidates}
        literal == [name |-> listener.name, pattern |-> FALSE]
        dynamic == [name |-> Dynamic, pattern |-> FALSE]
    IN  IF ~WildcardShaped(listener.name) THEN literal
        ELSE IF configurations = {"wildcard"} /\ ValidPattern(listener.name)
        THEN [name |-> listener.name, pattern |-> TRUE]
        ELSE IF configurations = {"exact"} THEN literal
        ELSE dynamic

EventHandler(listener) ==
    LET candidates == ApplicationsForClass(listener.class, EventApplications)
        proven == {a \in candidates : ConfigurationKnown(a)}
        target == EventTarget(listener, candidates)
    IN  [listener |-> listener, target |-> target,
         registrationState |->
            IF target.name = Dynamic /\ WildcardShaped(listener.name)
                /\ candidates # {}
                /\ {ConfigurationOf(a) : a \in candidates} # {"wildcard"}
            THEN "registration_unknown" ELSE RegistrationState(candidates),
         application |->
            IF Cardinality(proven) = 1 THEN TheOnly(proven)
            ELSE ContextForClass(listener.class, EventApplications)]

EventInteraction(site) ==
    [site |-> site, application |-> ContextForClass(site.class, EventApplications),
     target |-> IF WildcardShaped(site.name) THEN Dynamic ELSE site.name]

\* inProcessEventTargetsMatch: with stars, segment by segment.
SegmentsMatch(pattern, event) ==
    LET match[cell \in (1..(Len(pattern) + 1)) \X (1..(Len(event) + 1))] ==
            LET i == cell[1]
                j == cell[2]
            IN  IF i > Len(pattern) THEN j > Len(event)
                ELSE IF pattern[i] = "**"
                THEN match[<<i + 1, j>>] \/ (j <= Len(event) /\ match[<<i, j + 1>>])
                ELSE j <= Len(event) /\ pattern[i] \in {"*", event[j]} /\ match[<<i + 1, j + 1>>]
    IN  match[<<1, 1>>]

EventTargetsMatch(name, target) ==
    /\ name # Dynamic /\ target.name # Dynamic
    /\ IF target.pattern THEN SegmentsMatch(target.name, name) ELSE name = target.name

EventFacts ==
    LET handlers == {EventHandler(l) : l \in Of("event", wiring.listeners)}
        interactions == {EventInteraction(s) : s \in Resolved("event")}
        Candidates(i) == {h \in handlers :
            /\ EventTargetsMatch(i.target, h.target)
            /\ i.application = 0 \/ h.application = 0 \/ i.application = h.application}
        \* emit() is synchronous as far as its retained handlers are.
        Timing(i) ==
            IF i.site.method = "emitAsync" THEN "asynchronous"
            ELSE IF \E h \in Retained(Candidates(i)) : h.listener.timing # "synchronous" THEN "unknown"
            ELSE "synchronous"
    IN  [handlers |-> handlers,
         interactions |-> {[site |-> i.site, timing |-> Timing(i)] : i \in interactions},
         matches |-> UNION {{<<i.site, h.listener, "resolved">> : h \in Retained(Candidates(i))} : i \in interactions},
         diagnostics |->
            {<<"EVENT_EMITTER_CONFIGURATION_UNKNOWN", e>> :
                e \in {e \in wiring.emitters : e.configuration = "dynamic"}}
            \cup {<<"EVENT_EMITTER_CONFIGURATION_UNKNOWN", l>> :
                l \in {l \in Of("event", wiring.listeners) : l.timing = "unknown"}}
            \cup {<<"INTERACTION_TARGET_DYNAMIC", x>> :
                x \in {h \in handlers : h.target.name = Dynamic} \cup {i \in interactions : i.target = Dynamic}}
            \cup {<<"EVENT_HANDLER_REGISTRATION_UNKNOWN", h>> :
                h \in {h \in handlers : h.registrationState = "registration_unknown"}}
            \cup ReceiverDiagnostics("event")
            \cup UNION {FanOutDiagnostics(i.site, Candidates(i)) : i \in interactions}]

-----------------------------------------------------------------------------
(***************************************************************************)
(* Queued jobs: a processor takes every job of its queue.                  *)
(***************************************************************************)
JobFacts ==
    LET listeners == Of("job", wiring.listeners)
        sites == Resolved("job")
        Candidates(s) == {l \in listeners : s.queue # Dynamic /\ l.queue = s.queue}
    IN  [handlers |-> {[listener |-> l, registrationState |->
                            IF ModulesOf(l.class) # {} THEN "proven_registered" ELSE "registration_unknown"] :
                          l \in listeners},
         dispatches |-> {[listener |-> l, state |-> DispatchState(l.body), branches |-> Branches(l.body)] :
                            l \in {l \in listeners : l.body.form # "none"}},
         interactions |-> {[site |-> s, boundary |->
                            IF Candidates(s) # {} THEN "broker_or_worker_boundary"
                            ELSE IF s.queue = Dynamic THEN "unknown"
                            ELSE "external_or_unobserved"] : s \in sites},
         matches |-> UNION {{<<s, l, "resolved">> : l \in Retained(Candidates(s))} : s \in sites},
         diagnostics |->
            {<<"INTERACTION_TARGET_DYNAMIC", x>> :
                x \in {l \in listeners : l.queue = Dynamic}
                    \cup {s \in sites : Dynamic \in {s.queue, s.job}}}
            \cup {<<"JOB_QUEUE_HANDLER_REGISTRATION_UNKNOWN", l>> :
                l \in {l \in listeners : ModulesOf(l.class) = {}}}
            \cup {<<"JOB_QUEUE_FILTER", l>> : l \in {l \in listeners :
                l.body.form # "none" /\ DispatchState(l.body) # "complete"}}
            \cup ReceiverDiagnostics("job")
            \cup UNION {FanOutDiagnostics(s, Candidates(s)) : s \in sites}]

-----------------------------------------------------------------------------
(***************************************************************************)
(* Messages between services.                                              *)
(***************************************************************************)
MessageApplication(class) == ContextForClass(class, MessageApplications)

TransportOf(id) ==
    IF id = 0 THEN "none" ELSE (CHOOSE a \in MessageApplications : a.id = id).transport

MessageHandler(listener) ==
    LET application == MessageApplication(listener.class)
    IN  [listener |-> listener, application |-> application,
         transport |-> IF listener.transport # "none" THEN listener.transport ELSE TransportOf(application),
         registrationState |->
            IF listener.controller /\ application # 0 /\ TransportOf(application) # "none" THEN "proven_registered"
            ELSE IF listener.controller /\ MessageApplications # {} THEN "declared_candidate"
            ELSE "registration_unknown"]

\* clientContextForClass: the entries for the token in the modules of the class.
ClientsFor(site) ==
    {c \in wiring.clients : c.module \in ModulesOf(site.class) /\ site.token # Dynamic /\ c.token = site.token}

ClientTransports(site) == {c.transport : c \in ClientsFor(site)} \ {"none"}

ClientTransport(site) ==
    IF Cardinality(ClientTransports(site)) = 1 THEN CHOOSE t \in ClientTransports(site) : TRUE ELSE "none"

\* microserviceMessageTargetsMatch, in the same application.
PatternCompatible(site, h) ==
    /\ h.listener.mode = site.mode /\ site.name # Dynamic /\ h.listener.name = site.name
    /\ h.application = MessageApplication(site.class)

TransportsMatch(site, h) == ClientTransport(site) # "none" /\ h.transport = ClientTransport(site)

\* A request that several handlers may answer is ambiguous.
RequestAmbiguous(site, retained) == site.mode = "request_response" /\ Cardinality(retained) > 1

MessageFacts ==
    LET handlers == {MessageHandler(l) : l \in Of("message", wiring.listeners)}
        sites == Resolved("message")
        matched == {s \in sites : s.name # Dynamic /\ s.token # Dynamic /\ MessageApplication(s.class) # 0}
        Compatible(s) == {h \in handlers : PatternCompatible(s, h)}
        Candidates(s) == {h \in Compatible(s) : TransportsMatch(s, h)}
        Status(s) == IF RequestAmbiguous(s, Retained(Candidates(s))) THEN "ambiguous" ELSE "resolved"
    IN  [handlers |-> handlers,
         interactions |-> {[site |-> s, boundary |->
                IF s \in matched /\ Candidates(s) # {} THEN "broker_or_worker_boundary"
                ELSE IF Dynamic \in {s.name, s.token} \/ ClientTransport(s) = "none" THEN "unknown"
                ELSE "external_or_unobserved"] : s \in sites},
         matches |-> UNION {{<<s, h.listener, Status(s)>> : h \in Retained(Candidates(s))} : s \in matched},
         diagnostics |->
            {<<"MICROSERVICE_TRANSPORT_UNKNOWN", x>> :
                x \in {a \in MessageApplications : a.transport = "none"}
                    \cup {h \in handlers : h.transport = "none"}
                    \cup {s \in sites : Cardinality(ClientsFor(s)) # 1 \/ ClientTransport(s) = "none"}}
            \cup {<<"INTERACTION_TARGET_DYNAMIC", x>> :
                x \in {h \in handlers : h.listener.name = Dynamic}
                    \cup {s \in sites : Dynamic \in {s.name, s.token}}}
            \cup {<<"MICROSERVICE_HANDLER_REGISTRATION_UNKNOWN", h>> :
                h \in {h \in handlers : h.registrationState = "registration_unknown"}}
            \cup {<<"MICROSERVICE_ACTIVATION_UNKNOWN", s>> :
                s \in {s \in sites : s.mode = "request_response" /\ s.activation = "unknown"}}
            \cup {<<"MICROSERVICE_TRANSPORT_MISMATCH", s>> : s \in {s \in matched :
                /\ Candidates(s) = {}
                /\ \E h \in Compatible(s) :
                      /\ "none" \notin {ClientTransport(s), h.transport}
                      /\ h.transport # ClientTransport(s)}}
            \cup {<<"MICROSERVICE_REQUEST_HANDLER_AMBIGUOUS", s>> :
                s \in {s \in matched : RequestAmbiguous(s, Retained(Candidates(s)))}}
            \cup ReceiverDiagnostics("message")
            \cup UNION {FanOutDiagnostics(s, Candidates(s)) : s \in matched}]

-----------------------------------------------------------------------------
InteractionInit ==
    /\ wiring \in Wirings
    /\ eventFacts = NoFacts /\ jobFacts = NoFacts /\ messageFacts = NoFacts

\* extractNestEventEmitter, then extractNestBullMq, then extractNestMicroservices.
ExtractEvents == eventFacts' = EventFacts /\ UNCHANGED <<wiring, jobFacts, messageFacts>>
ExtractJobs == jobFacts' = JobFacts /\ UNCHANGED <<wiring, eventFacts, messageFacts>>
ExtractMessages == messageFacts' = MessageFacts /\ UNCHANGED <<wiring, eventFacts, jobFacts>>

-----------------------------------------------------------------------------
(***************************************************************************)
(* What the matches mean, read off the wiring.                             *)
(***************************************************************************)
\* A name with stars, by the segments each star stands for.
Covers(pattern, event) ==
    \E taken \in [DOMAIN pattern -> 0..Len(event)] :
        LET start[i \in 1..(Len(pattern) + 1)] ==
                IF i = 1 THEN 1 ELSE start[i - 1] + taken[i - 1]
        IN  /\ start[Len(pattern) + 1] = Len(event) + 1
            /\ \A i \in DOMAIN pattern : pattern[i] # "**" =>
                  /\ taken[i] = 1 /\ start[i] <= Len(event)
                  /\ pattern[i] \in {"*", event[start[i]]}

\* The listener would be run by the emission.
RunsEvent(site, listener) ==
    \E a \in EventApplications :
        /\ a \in ApplicationsForClass(site.class, EventApplications)
        /\ a \in ApplicationsForClass(listener.class, EventApplications)
        /\ \/ ConfigurationOf(a) = "exact" /\ listener.name = site.name
           \/ ConfigurationOf(a) = "wildcard" /\ Covers(listener.name, site.name)

RunsMessage(site, listener) ==
    /\ listener.mode = site.mode /\ listener.name = site.name
    /\ MessageApplication(site.class) # 0
    /\ MessageApplication(listener.class) = MessageApplication(site.class)
    /\ MessageHandler(listener).transport = ClientTransport(site)

(***************************************************************************)
(* An extraction without a diagnostic misses no handler: every listener    *)
(* that an emission runs in some application they share, each processor of *)
(* the queue, each handler of the pattern behind the same transport, is    *)
(* matched, although contexts are collapsed to one application or none and *)
(* matches are cut at a limit. An emission called synchronous runs only    *)
(* synchronous listeners, and a request called resolved has one handler.   *)
(***************************************************************************)
NoHandlerIsSilentlyMissed ==
    /\ eventFacts.diagnostics = {} =>
        \A i \in eventFacts.interactions, l \in Of("event", wiring.listeners) :
            RunsEvent(i.site, l) =>
                /\ <<i.site, l, "resolved">> \in eventFacts.matches
                /\ i.timing = "synchronous" => l.timing = "synchronous"
    /\ jobFacts.diagnostics = {} =>
        \A i \in jobFacts.interactions, l \in Of("job", wiring.listeners) :
            l.queue = i.site.queue => <<i.site, l, "resolved">> \in jobFacts.matches
    /\ messageFacts.diagnostics = {} =>
        \A i \in messageFacts.interactions :
            LET run == {l \in Of("message", wiring.listeners) : RunsMessage(i.site, l)}
            IN  /\ \A l \in run : <<i.site, l, "resolved">> \in messageFacts.matches
                /\ i.site.mode = "request_response" => Cardinality(run) <= 1

(***************************************************************************)
(* The regions of a processor: see JobBranches.                            *)
(***************************************************************************)
JobsOf(dispatch) ==
    {dispatch.listener.body.clauses[i].label : i \in DOMAIN dispatch.listener.body.clauses} \cup {"other job"}

JobsKeepTheirRegions ==
    \A dispatch \in jobFacts.dispatches :
        BranchesAreWhatRuns(dispatch.listener.body, JobsOf(dispatch) \ {"?", "default"})

(***************************************************************************)
(* No match is made up: names agree, star by star, and the two classes are *)
(* not in two different applications.                                      *)
(***************************************************************************)
Apart(x, y, applications) ==
    LET one == ApplicationsForClass(x.class, applications)
        other == ApplicationsForClass(y.class, applications)
    IN  Cardinality(one) = 1 /\ Cardinality(other) = 1 /\ one # other

MatchesAreReal ==
    /\ \A match \in eventFacts.matches :
        /\ Covers(match[2].name, match[1].name)
        /\ ~Apart(match[1], match[2], EventApplications)
    /\ \A match \in jobFacts.matches : match[1].queue = match[2].queue /\ match[1].queue # Dynamic
    /\ \A match \in messageFacts.matches :
        /\ RunsMessage(match[1], match[2])
        /\ ~Apart(match[1], match[2], MessageApplications)

=============================================================================
