----------------------------- MODULE Provenance -----------------------------
(***************************************************************************)
(* Which request parameter may be written to which column:                 *)
(* extractRequestProvenance for the writes of a handler itself             *)
(* (src/src/extractors/request-provenance.ts) and                          *)
(* extractInterMethodRequestProvenance for the writes of the methods it    *)
(* calls (src/src/extractors/inter-method-provenance.ts), both on top of   *)
(* the expression tracer of provenance-expression.ts.                      *)
(*                                                                         *)
(* The program is what the extractors before them found:                   *)
(*   parameters  [method, index, literal]: the decorated parameters, with  *)
(*               or without a literal selector,                            *)
(*   patterns    <<method, index>> declared by a destructuring pattern,    *)
(*   declared    for a field name, how many DTO fields it may be (0..2),   *)
(*   calls       [from, to, arguments, form, target]: form is "plain",     *)
(*               "ambiguous", "spread" or "callback", target is "plain",   *)
(*               "rest" or "bodyless",                                     *)
(*   sinks       [method, shape, boundary, column, value]: the written     *)
(*               property is "inline", "spread", "computed" or the whole   *)
(*               object is one expression ("whole"); its column is         *)
(*               "column", "disabled" or "none",                           *)
(*   maxCallDepth.                                                         *)
(* An expression is [ops, leaves]: the operations from the outermost in,   *)
(* applied to parameters of the method.                                    *)
(***************************************************************************)
EXTENDS Integers, FiniteSets, SequencesExt

CONSTANTS
    Programs,             \* the programs the analysis is run on
    MaxExpressionDepth,   \* MAX_PROVENANCE_EXPRESSION_DEPTH
    MaxOriginsPerValue,   \* MAX_PROVENANCE_ORIGINS_PER_VALUE
    MaxOriginsPerFrame,   \* MAX_ORIGINS_PER_FRAME
    MaxCallFrames         \* MAX_CALL_FRAMES

VARIABLES
    program,           \* the program being analysed
    frames,            \* queue: call frames still to be taken
    visitedFrames,     \* visitedFrames: the keys of the frames analysed
    influences,        \* columnInfluences of both extractors
    flowDiagnostics    \* their diagnostics: <<extractor, code, method, evidence>>

provenanceVars == <<program, frames, visitedFrames, influences, flowDiagnostics>>

-----------------------------------------------------------------------------
(***************************************************************************)
(* Tracing one expression.                                                 *)
(***************************************************************************)
Rank(state) == CASE state = "direct" -> 0 [] state = "derived" -> 1 [] OTHER -> 2

Downgraded(o, state) ==
    [o EXCEPT !.state = IF Rank(@) >= Rank(state) THEN @ ELSE state]

Resolution(parameter, path) ==
    IF parameter.literal THEN "resolved"
    ELSE IF path = <<>> \/ program.declared[path[1]] = 0 THEN "unknown"
    ELSE IF program.declared[path[1]] = 1 THEN "resolved"
    ELSE "ambiguous"

ParameterOrigin(parameter) ==
    LET path == IF parameter.literal THEN <<"selector">> ELSE <<>>
    IN  [parameter |-> parameter, path |-> path, state |-> "direct",
         resolution |-> Resolution(parameter, path)]

\* Only one selection is followed: a second one leaves the path alone.
Selected(o, name) ==
    IF o.path # <<>> THEN [o EXCEPT !.state = "unknown"]
    ELSE LET resolution == Resolution(o.parameter, <<name>>)
         IN  [o EXCEPT !.path = <<name>>, !.resolution = resolution,
                       !.state = IF resolution = "unknown" THEN "unknown" ELSE @]

\* The local variables between the outermost operation and the i-th.
AliasHops(ops, i) == Cardinality({j \in 1..(i - 1) : ops[j].kind \in {"alias", "mutated", "binding"}})

ThroughAlias(o, hops) == IF hops >= 1 THEN Downgraded(o, "unknown") ELSE o

\* What one operation does to an origin: "group" stands for parentheses, casts
\* and await, "derive" for string methods, operators and templates, "mix" for
\* arbitrary calls, conditionals, computed access and nested literals.
Operated(op, hops, o) ==
    CASE op.kind = "group" -> o
      [] op.kind = "access" -> Selected(o, op.name)
      [] op.kind = "binding" -> ThroughAlias(Selected(o, op.name), hops)
      [] op.kind = "alias" -> ThroughAlias(o, hops)
      [] op.kind = "derive" -> Downgraded(o, "derived")
      [] op.kind \in {"mutated", "mix"} -> Downgraded(o, "unknown")

\* What an expression carries after its outermost i - 1 operations are
\* removed; an expression of another form ("lost") carries nothing.
Origins(e, i, known) ==
    LET carried[j \in i..(Len(e.ops) + 1)] ==
            CASE j > MaxExpressionDepth + 1 -> {}
              [] j <= MaxExpressionDepth + 1 /\ j = Len(e.ops) + 1 ->
                    UNION {known[leaf] : leaf \in e.leaves \cap DOMAIN known}
              [] j <= MaxExpressionDepth + 1 /\ j <= Len(e.ops) ->
                    IF e.ops[j].kind = "lost" THEN {}
                    ELSE {Operated(e.ops[j], AliasHops(e.ops, j), o) : o \in carried[j + 1]}
    IN  carried[i]

Trace(e, known) == Origins(e, 1, known)

\* The tracer looks below an operation until it meets one it does not know.
Reached(e, i) == \A j \in 1..(i - 1) : e.ops[j].kind # "lost"

\* Its own diagnostics: <<code, position>>.
TraceDiagnostics(e, known, unsupported) ==
    {<<unsupported, i>> : i \in {i \in 1..Len(e.ops) :
        /\ Reached(e, i) /\ i <= MaxExpressionDepth + 1
        /\ \/ e.ops[i].kind = "mutated"
           \/ e.ops[i].kind = "mix" /\ Origins(e, i, known) # {}}}
    \cup {<<"LIMIT_EXCEEDED", i>> : i \in {i \in {MaxExpressionDepth + 2} :
        i <= Len(e.ops) + 1 /\ Reached(e, i)}}

-----------------------------------------------------------------------------
(***************************************************************************)
(* One write, in a frame that knows the origins of the parameters. A frame *)
(* is [method, origins, path, visited]: origins pairs a parameter index    *)
(* with an origin, path lists the calls that lead to the method.           *)
(***************************************************************************)
Known(frame) == [i \in {pair[1] : pair \in frame.origins} |->
    {pair[2] : pair \in {pair \in frame.origins : pair[1] = i}}]

\* Where the nodes of a write are; the operation stands for its evidence.
Node(k, position) == <<"sink", k, position>>
Operation(k) == <<"operation", k>>
Boundary(k) == <<"boundary", k>>
Property(k) == <<"property", k>>

\* createDiagnostic: the evidence is sorted, and the message is not part of
\* the id.
Diagnostic(extractor, code, method, evidence) == <<extractor, code, method, evidence>>

\* At most MaxOriginsPerValue origins of a value are kept.
Kept(origins) ==
    IF Cardinality(origins) <= MaxOriginsPerValue THEN origins
    ELSE CHOOSE kept \in SUBSET origins : Cardinality(kept) = MaxOriginsPerValue

\* What the write of sink k does with the origins of its value.
WrittenOrigins(frame, k) ==
    LET sink == program.sinks[k]
        origins == Kept(Trace(sink.value, Known(frame)))
    IN  IF sink.boundary THEN {Downgraded(o, "unknown") : o \in origins} ELSE origins

SinkInfluences(frame, k) ==
    IF program.sinks[k].shape # "inline" \/ program.sinks[k].column # "column" THEN {}
    ELSE {[sink |-> k, parameter |-> o.parameter, name |-> o.path[1],
           state |-> o.state, path |-> frame.path] :
            o \in {o \in WrittenOrigins(frame, k) : Len(o.path) = 1}}

SinkDiagnostics(extractor, frame, k) ==
    LET sink == program.sinks[k]
        origins == Trace(sink.value, Known(frame))
        D(code, evidence) ==
            Diagnostic(extractor, code, frame.method, evidence \cup {Operation(k)})
        Unsupported(holds, evidence) ==
            IF holds THEN {D("UNSUPPORTED", evidence)} ELSE {}
    IN  {D(d[1], {Node(k, d[2])}) :
            d \in TraceDiagnostics(sink.value, Known(frame), "UNSUPPORTED")}
        \cup Unsupported(sink.shape # "inline" /\ origins # {}, {Property(k)})
        \* the same-method extractor reports the boundary even without origins
        \cup Unsupported(sink.boundary /\ sink.shape # "whole"
                /\ (extractor = "same" \/ (sink.shape = "inline" /\ origins # {})), {Boundary(k)})
        \cup (IF sink.shape = "inline" /\ Cardinality(origins) > MaxOriginsPerValue
              THEN {D("LIMIT_EXCEEDED", {Node(k, 1)})} ELSE {})
        \cup Unsupported(sink.shape = "inline" /\ origins # {} /\ sink.column = "none", {Property(k)})
        \cup (IF sink.shape = "inline" /\ sink.column # "none"
              THEN {D("UNSUPPORTED", {Property(k), <<"whole", o, frame.path>>}) :
                      o \in {o \in WrittenOrigins(frame, k) : Len(o.path) # 1}}
              ELSE {})

SinksOf(method) == {k \in DOMAIN program.sinks : program.sinks[k].method = method}

\* The frame of a handler: its decorated parameters, those declared by a
\* pattern excepted, which have no symbol.
HandlerFrame(method) ==
    [method |-> method, path |-> <<>>, visited |-> {method},
     origins |-> {<<p.index, ParameterOrigin(p)>> : p \in {p \in program.parameters :
        p.method = method /\ <<method, p.index>> \notin program.patterns}}]

Handlers == {p.method : p \in program.parameters}

-----------------------------------------------------------------------------
(***************************************************************************)
(* One call, in a frame.                                                   *)
(***************************************************************************)
Argument(c, i, position) == <<"argument", c, i, position>>
CallNode(c) == <<"call", c>>
CallsOf(method) == SetToSortSeq({c \in DOMAIN program.calls : program.calls[c].from = method}, <)

ArgumentOrigins(frame, c) ==
    [i \in DOMAIN program.calls[c].arguments |-> Trace(program.calls[c].arguments[i], Known(frame))]

\* Arguments without a named parameter at their position are left out.
CalleeOrigins(frame, c) ==
    UNION {{<<i, o>> : o \in ArgumentOrigins(frame, c)[i]} :
        i \in {i \in DOMAIN program.calls[c].arguments :
                    <<program.calls[c].to, i>> \notin program.patterns}}

TooDeep(frame) == Len(frame.path) >= program.maxCallDepth

\* The checks on a call, in order: <<when it stops, what is reported>>, where
\* a report is a code and its evidence, or nothing.
CallChecks(frame, c) ==
    LET call == program.calls[c]
        at == {CallNode(c)}
        path == {CallNode(d) : d \in Range(frame.path)}
        carried == Cardinality(CalleeOrigins(frame, c))
    IN  << <<\A i \in DOMAIN call.arguments : ArgumentOrigins(frame, c)[i] = {}, <<>> >>,
           <<call.form = "ambiguous", <<"INTER_METHOD_UNSUPPORTED", at \cup {<<"resolution", c>>}>> >>,
           <<call.form \in {"spread", "callback"}, <<"INTER_METHOD_UNSUPPORTED", at>> >>,
           <<TooDeep(frame), <<"CALL_DEPTH_LIMIT", at \cup path>> >>,
           <<call.to \in frame.visited, <<"INTER_METHOD_UNSUPPORTED", at \cup path>> >>,
           <<call.target = "rest", <<"INTER_METHOD_UNSUPPORTED", at>> >>,
           <<carried = 0, <<>> >>,
           <<carried > MaxOriginsPerFrame, <<"LIMIT_EXCEEDED", at>> >>,
           <<call.target = "bodyless", <<"INTER_METHOD_UNSUPPORTED", at>> >> >>

Stops(frame, c) == SelectSeq(CallChecks(frame, c), LAMBDA check : check[1])

CallDiagnostics(frame, c) ==
    LET call == program.calls[c]
        stops == Stops(frame, c)
    IN  {Diagnostic("inter", d[2][1], frame.method,
            {Argument(c, d[1], d[2][2]), CallNode(c), <<"resolution", c>>}) :
            d \in UNION {{<<i, e>> : e \in TraceDiagnostics(call.arguments[i], Known(frame),
                                                    "INTER_METHOD_UNSUPPORTED")} :
                         i \in DOMAIN call.arguments}}
        \cup (IF stops = <<>> \/ stops[1][2] = <<>> THEN {}
              ELSE {Diagnostic("inter", stops[1][2][1], frame.method, stops[1][2][2])})

CalleeFrame(frame, c) ==
    [method |-> program.calls[c].to, origins |-> CalleeOrigins(frame, c),
     path |-> Append(frame.path, c), visited |-> frame.visited \cup {program.calls[c].to}]

CalleeFrames(frame) ==
    LET taken == SelectSeq(CallsOf(frame.method), LAMBDA c : Stops(frame, c) = <<>>)
    IN  [i \in DOMAIN taken |-> CalleeFrame(frame, taken[i])]

-----------------------------------------------------------------------------
(***************************************************************************)
(* The two extractors. The first one is a loop over the writes of the      *)
(* handlers; the second one a breadth-first walk over call frames, which   *)
(* looks only at the writes of methods it reached through a call.          *)
(***************************************************************************)
HandlerSinks == {k \in DOMAIN program.sinks : program.sinks[k].method \in Handlers}

SameMethodInfluences ==
    UNION {SinkInfluences(HandlerFrame(program.sinks[k].method), k) : k \in HandlerSinks}

SameMethodDiagnostics ==
    UNION {SinkDiagnostics("same", HandlerFrame(program.sinks[k].method), k) : k \in HandlerSinks}

\* Only methods that a call or a write mentions have a location.
Located ==
    {c.from : c \in Range(program.calls)} \cup {c.to : c \in Range(program.calls)}
    \cup {k.method : k \in Range(program.sinks)}

InitialFrames ==
    LET methods == SetToSortSeq({m \in Handlers \cap Located : HandlerFrame(m).origins # {}}, <)
    IN  [i \in DOMAIN methods |-> HandlerFrame(methods[i])]

\* Wrong: a method is analysed once.
FrameKeyOfMethod(frame) == <<frame.method, {}>>

\* frameKey: the method and the shape of its origins, not the path to it.
FrameKey(frame) ==
    <<frame.method, {<<pair[1], pair[2].parameter, pair[2].path, pair[2].state>> :
                        pair \in frame.origins}>>

ProvenanceInit ==
    /\ program \in Programs
    /\ frames = <<>> /\ visitedFrames = {}
    /\ influences = {} /\ flowDiagnostics = {}

\* extractRequestProvenance, and the start of the walk.
TraceHandlers ==
    /\ influences' = SameMethodInfluences
    /\ flowDiagnostics' = SameMethodDiagnostics
    /\ frames' = InitialFrames
    /\ UNCHANGED <<program, visitedFrames>>

SkipFrame ==
    /\ frames # <<>> /\ FrameKey(Head(frames)) \in visitedFrames
    /\ frames' = Tail(frames)
    /\ UNCHANGED <<program, visitedFrames, influences, flowDiagnostics>>

StopAtFrameLimit ==
    /\ frames # <<>> /\ FrameKey(Head(frames)) \notin visitedFrames
    /\ Cardinality(visitedFrames) >= MaxCallFrames
    /\ flowDiagnostics' = flowDiagnostics \cup
        {Diagnostic("inter", "LIMIT_EXCEEDED", Head(frames).method,
                    {CallNode(c) : c \in Range(Head(frames).path)})}
    /\ frames' = <<>>
    /\ UNCHANGED <<program, visitedFrames, influences>>

AnalyzeFrame ==
    /\ frames # <<>> /\ FrameKey(Head(frames)) \notin visitedFrames
    /\ Cardinality(visitedFrames) < MaxCallFrames
    /\ LET frame == Head(frames)
           sinks == IF frame.path = <<>> THEN {} ELSE SinksOf(frame.method)
       IN  /\ visitedFrames' = visitedFrames \cup {FrameKey(frame)}
           /\ influences' = influences \cup UNION {SinkInfluences(frame, k) : k \in sinks}
           /\ flowDiagnostics' = flowDiagnostics
                \cup (UNION {SinkDiagnostics("inter", frame, k) : k \in sinks})
                \cup UNION {CallDiagnostics(frame, c) : c \in Range(CallsOf(frame.method))}
           /\ frames' = Tail(frames) \o CalleeFrames(frame)
    /\ UNCHANGED program

FollowCalls == SkipFrame \/ StopAtFrameLimit \/ AnalyzeFrame

-----------------------------------------------------------------------------
(***************************************************************************)
(* What the influences mean, without frames: a request parameter is        *)
(* carried by a parameter of a method if an argument uses it there.        *)
(***************************************************************************)
Transparent(e) == \A i \in DOMAIN e.ops : e.ops[i].kind # "lost"

Verbatim(e) == \A i \in DOMAIN e.ops : e.ops[i].kind \in {"group", "access", "binding", "alias"}

\* Counted up to 2, which stands for every value that is no single field.
Selections(e, before) ==
    LET n == before + Cardinality({i \in DOMAIN e.ops : e.ops[i].kind \in {"access", "binding"}})
    IN  IF n > 2 THEN 2 ELSE n

\* <<method, index, request parameter, fields selected so far>>: closed under
\* the calls whose arguments Passes accepts.
Carriers(Passes(_)) ==
    LET limit == 2 * Cardinality(Located \cup Handlers)
        Named(m, i) == <<m, i>> \notin program.patterns
        carriers[n \in 0..limit] ==
            IF n = 0 THEN {<<p.method, p.index, p, IF p.literal THEN 1 ELSE 0>> :
                              p \in {p \in program.parameters : Named(p.method, p.index)}}
            ELSE carriers[n - 1] \cup UNION {UNION {
                    {<<c.to, i, carrier[3], Selections(c.arguments[i], carrier[4])>> :
                        i \in {i \in DOMAIN c.arguments :
                            /\ Named(c.to, i) /\ Passes(c.arguments[i])
                            /\ carrier[2] \in c.arguments[i].leaves}} :
                    carrier \in {carrier \in carriers[n - 1] : carrier[1] = c.from}} :
                    c \in Range(program.calls)}
    IN  carriers[limit]

\* The request parameters that reach a write, and how many fields deep.
Arriving(k, Passes(_)) ==
    IF ~Passes(program.sinks[k].value) THEN {}
    ELSE {<<carrier[3], Selections(program.sinks[k].value, carrier[4])>> :
            carrier \in {carrier \in Carriers(Passes) :
                carrier[1] = program.sinks[k].method /\ carrier[2] \in program.sinks[k].value.leaves}}

(***************************************************************************)
(* An analysis without a diagnostic misses no flow: whatever the calls     *)
(* look like, a request parameter whose value reaches a written column has *)
(* an influence there. The frames are memoized without the path to them,   *)
(* cut at four limits and at cycles; each cut must leave a diagnostic. The *)
(* flows through forms the tracer does not know, and into parameters       *)
(* without a name, are not counted: those are dropped without a word.      *)
(***************************************************************************)
NoFlowIsSilentlyDropped(finished) ==
    finished /\ flowDiagnostics = {} =>
        \A k \in DOMAIN program.sinks :
            program.sinks[k].column # "disabled" =>
                \A arriving \in Arriving(k, Transparent) :
                    \E influence \in influences :
                        influence.sink = k /\ influence.parameter = arriving[1]

(***************************************************************************)
(* No influence is made up: its parameter does reach the write, through    *)
(* the calls the influence lists, and one that is called "direct" passes   *)
(* only copies, selecting one field in all.                                *)
(***************************************************************************)
NoInfluenceIsMadeUp(finished) == finished =>
    \A influence \in influences :
        LET k == influence.sink
            ends == <<influence.parameter.method>> \o [i \in DOMAIN influence.path |-> program.calls[influence.path[i]].to]
        IN  /\ \E arriving \in Arriving(k, Transparent) : arriving[1] = influence.parameter
            /\ \A i \in DOMAIN influence.path : program.calls[influence.path[i]].from = ends[i]
            /\ Last(ends) = program.sinks[k].method
            /\ influence.state = "direct" =>
                  /\ <<influence.parameter, 1>> \in Arriving(k, Verbatim)
                  /\ ~program.sinks[k].boundary

=============================================================================
