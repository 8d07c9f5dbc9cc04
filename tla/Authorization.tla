---------------------------- MODULE Authorization ----------------------------
(***************************************************************************)
(* The guards and the authorization metadata of endpoints:                 *)
(* extractNestGuards (src/src/extractors/nest-guards.ts) and, behind it,   *)
(* extractNestAuthorization (src/src/extractors/nest-authorization.ts),    *)
(* over the modules and applications of NestModules.                       *)
(*                                                                         *)
(* controls: [endpoints, wrappers, keys, symbols, relationships]           *)
(*   endpoints   endpoint -> [controller, decorators]: its class, and the  *)
(*               decorators of the "controller" and of the "method"        *)
(*   decorator   [form, ...]: "guards" is UseGuards [call, guards];        *)
(*               "metadata" is SetMetadata [static, key, value]; "wrapper" *)
(*               is any other [name, call, arguments]                      *)
(*   guard       [form, name]: a "class", or "other": new, a call, a name  *)
(*               that leads elsewhere                                      *)
(*   wrappers    name -> [form, parts, replaced]: an "expression", or      *)
(*               "statements", a "constant", "overloaded" or "outside" the *)
(*               repository; replaced when the name gets another value     *)
(*   part        [kind, inPlace, ...]: "guards" [guards] or "metadata"     *)
(*               [static, key, value, parameter, rest], where parameter is *)
(*               the position of the parameter that is the value, or 0; in *)
(*               place, or behind a wrapper, a condition or a spread       *)
(*   value       [kind, items]: a scalar type, "array" of values, "object" *)
(*               of keys, "spread" or "dynamic"                            *)
(*   keys, symbols, relationships   the configuration: metadata keys,      *)
(*               [name, key] of decorators, <<key, guard>>                 *)
(***************************************************************************)
EXTENDS NestModules, SequencesExt

VARIABLES
    controls,
    controlFacts    \* [guards, metadata, enforcements, diagnostics]

controlVars == <<controls, controlFacts>>

NoControls == [guards |-> {}, metadata |-> {}, enforcements |-> {}, diagnostics |-> {}]

Decorated ==
    UNION {{<<e, scope, d>> : d \in controls.endpoints[e].decorators[scope]} :
        e \in DOMAIN controls.endpoints, scope \in {"controller", "method"}}

-----------------------------------------------------------------------------
(***************************************************************************)
(* What is kept of a value: its shape.                                     *)
(***************************************************************************)
Scalars == {"string", "number", "boolean", "null"}
UnknownShape == [kind |-> "unknown", items |-> {}, count |-> 0, dynamic |-> TRUE]
KindsOf(values) == [i \in DOMAIN values |-> values[i].kind]

ArrayShape(values) ==
    LET kinds == ToSet(KindsOf(values))
    IN  [kind |-> "array", items |-> kinds \cap Scalars, count |-> Len(values), dynamic |-> ~(kinds \subseteq Scalars)]

ValueShape(x) ==
    CASE x.kind \in Scalars -> [kind |-> "scalar", items |-> {x.kind}, count |-> 1, dynamic |-> FALSE]
      [] x.kind = "array"   -> ArrayShape(x.items)
      [] x.kind = "object"  -> [kind |-> "object", items |-> ToSet(x.items) \ {"computed"}, count |-> 0,
                                dynamic |-> "computed" \in ToSet(x.items)]
      [] OTHER -> UnknownShape

-----------------------------------------------------------------------------
(***************************************************************************)
(* Repository wrappers: one expression, with one call of SetMetadata.      *)
(***************************************************************************)
Wrapper(d) == controls.wrappers[d.name]
InPlaceParts(w, kind) == {i \in DOMAIN w.parts : w.parts[i].kind = kind /\ w.parts[i].inPlace}
MetadataParts(w) == {i \in InPlaceParts(w, "metadata") : w.parts[i].static}

Described(w) == w.form = "expression" /\ Cardinality(MetadataParts(w)) = 1
MetadataOf(w) == w.parts[CHOOSE i \in MetadataParts(w) : TRUE]
GuardsIn(w) == UNION {w.parts[i].guards : i \in InPlaceParts(w, "guards")}

ConfiguredFor(d) == SelectSeq(controls.symbols, LAMBDA symbol : symbol.name = d.name)

\* A composite needs no configuration; nor does its key.
KnownWrapper(w) == Described(w) /\ (GuardsIn(w) # {} \/ MetadataOf(w).key \in controls.keys)

SourceOf(d) ==
    CASE d.form = "metadata" /\ d.static /\ d.key \in controls.keys -> "direct"
      [] d.form = "wrapper" /\ KnownWrapper(Wrapper(d))              -> "wrapper"
      [] d.form = "wrapper" /\ ~KnownWrapper(Wrapper(d)) /\ ConfiguredFor(d) # <<>> -> "configured"
      [] OTHER -> "none"

KeyOf(d) ==
    CASE SourceOf(d) = "direct"  -> d.key
      [] SourceOf(d) = "wrapper" -> MetadataOf(Wrapper(d)).key
      [] OTHER -> Head(ConfiguredFor(d)).key

\* Of a parameter, the argument in its place; a rest parameter takes all behind.
ArgumentShape(part, arguments) ==
    IF part.rest THEN ArrayShape(SubSeq(arguments, part.parameter, Len(arguments)))
    ELSE IF part.parameter \in DOMAIN arguments THEN ValueShape(arguments[part.parameter])
    ELSE UnknownShape

InvocationShape(d) ==
    CASE d.form = "metadata" -> ValueShape(d.value)
      [] d.form = "wrapper" /\ ~d.call -> UnknownShape
      [] d.form = "wrapper" /\ d.call /\ ~Described(Wrapper(d)) -> ArrayShape(d.arguments)
      [] OTHER -> LET part == MetadataOf(Wrapper(d))
                  IN  IF part.parameter = 0 THEN ValueShape(part.value) ELSE ArgumentShape(part, d.arguments)

-----------------------------------------------------------------------------
(***************************************************************************)
(* The guards of an endpoint.                                              *)
(***************************************************************************)
ResolvedGuard(x) == x.form = "class" /\ x.name \in nest.classes

DirectGuards ==
    UNION {{[endpoint |-> u[1], scope |-> u[2], guard |-> x.name, rule |-> "direct"] :
                x \in {x \in u[3].guards : u[3].call /\ ResolvedGuard(x)}} :
        u \in {u \in Decorated : u[3].form = "guards"}}

\* No guard in it, or one that is not a class of the repository.
UnresolvedGuards(d) == ~d.call \/ d.guards = {} \/ \E x \in d.guards : ~ResolvedGuard(x)

ExtractGuards ==
    /\ controlFacts' = [controlFacts EXCEPT
          !.guards = DirectGuards,
          !.diagnostics = {<<"guard_unresolved", u[1]>> :
                              u \in {u \in Decorated : u[3].form = "guards" /\ UnresolvedGuards(u[3])}}]
    /\ UNCHANGED <<controls, moduleVars>>

-----------------------------------------------------------------------------
(***************************************************************************)
(* The metadata, and what is known of its enforcement.                     *)
(***************************************************************************)
Metadata ==
    {[endpoint |-> u[1], scope |-> u[2], decorator |-> u[3], key |-> KeyOf(u[3]),
      source |-> SourceOf(u[3]), shape |-> InvocationShape(u[3])] :
        u \in {u \in Decorated : SourceOf(u[3]) # "none"}}

CompositeGuards(m) == IF m.source = "wrapper" THEN GuardsIn(Wrapper(m.decorator)) ELSE {}
ProvenGuards(m) == {x.name : x \in {x \in CompositeGuards(m) : ResolvedGuard(x)}}

ModulesUnder(root) ==
    LET under[n \in 0..Cardinality(Modules)] ==
            IF n = 0 THEN {root}
            ELSE under[n - 1] \cup {r[3] : r \in {r \in moduleFacts.relations : r[2] = "imports" /\ r[1] \in under[n - 1]}}
    IN  under[Cardinality(Modules)]

ModulesDeclaring(e) ==
    {r[1] : r \in {r \in moduleFacts.relations : r[2] = "controls" /\ r[3] = controls.endpoints[e].controller}}

\* Wrong: every application counts.
AnyApplication(e, module) == TRUE

SharesApplication(e, module) ==
    \E b \in Bootstraps : module \in ModulesUnder(b.root) /\ ModulesDeclaring(e) \cap ModulesUnder(b.root) # {}

GlobalGuardsFor(e) ==
    {r.guard : r \in {r \in moduleFacts.registrations :
        r.module \in ModulesDeclaring(e) \/ SharesApplication(e, r.module)}}

RelatedTo(m, guards) == {g \in guards : <<m.key, g>> \in controls.relationships}

\* A configured relationship is recorded with one guard, the first in an
\* order that is left out: all that could be are kept.
EnforcementsOf(m, asserted) ==
    LET own == {a.guard : a \in {a \in asserted : a.endpoint = m.endpoint}}
        related == RelatedTo(m, own \cup GlobalGuardsFor(m.endpoint))
    IN  IF ProvenGuards(m) # {} THEN {[metadata |-> m, state |-> "proven", guards |-> {g}] : g \in ProvenGuards(m)}
        ELSE IF related # {} THEN {[metadata |-> m, state |-> "configured", guards |-> related]}
        ELSE {[metadata |-> m, state |-> "unknown", guards |-> {}]}

ExtractAuthorization ==
    LET composite == UNION {{[endpoint |-> m.endpoint, scope |-> m.scope, guard |-> g, rule |-> "composite"] :
                                g \in ProvenGuards(m)} : m \in Metadata}
        asserted == controlFacts.guards \cup composite
        enforcements == UNION {EnforcementsOf(m, asserted) : m \in Metadata}
    IN  /\ controlFacts' =
              [guards |-> asserted, metadata |-> Metadata, enforcements |-> enforcements,
               diagnostics |-> controlFacts.diagnostics
                   \cup {<<"guard_unresolved", m.endpoint>> : m \in {m \in Metadata : \E x \in CompositeGuards(m) : ~ResolvedGuard(x)}}
                   \cup {<<"value_dynamic", m>> : m \in {m \in Metadata : m.shape.kind = "unknown"}}
                   \cup {<<"enforcement_unknown", x.metadata>> : x \in {x \in enforcements : x.state = "unknown"}}]
        /\ UNCHANGED <<controls, moduleVars>>

-----------------------------------------------------------------------------
(***************************************************************************)
(* What the program does: a replaced wrapper does nothing that is written. *)
(***************************************************************************)
WrapperParts(d) ==
    IF d.form = "wrapper" /\ ~Wrapper(d).replaced THEN {Wrapper(d).parts[i] : i \in DOMAIN Wrapper(d).parts} ELSE {}

AppliedGuards(d) ==
    IF d.form = "guards" /\ d.call THEN d.guards
    ELSE UNION {p.guards : p \in {p \in WrapperParts(d) : p.kind = "guards"}}

MetadataSet(d) ==
    IF d.form = "metadata" THEN {d.key} ELSE {p.key : p \in {p \in WrapperParts(d) : p.kind = "metadata"}}

OwnGuards(e) == {x.name : x \in UNION {AppliedGuards(u[3]) : u \in {u \in Decorated : u[1] = e}}}

\* A spread stands for any number of values.
SomeSpreads == {<<>>} \cup {<<[kind |-> k, items |-> <<>>]>> : k \in {"string", "number"}}
    \cup {[i \in 1..2 |-> [kind |-> "string", items |-> <<>>]]}

Expansions(values) ==
    FoldLeft(LAMBDA ways, x : {way \o piece : way \in ways, piece \in IF x.kind = "spread" THEN SomeSpreads ELSE {<<x>>}},
             {<<>>}, values)

FitsArray(shape, values) ==
    LET kinds == ToSet(KindsOf(values))
    IN  /\ shape.kind = "array" /\ shape.items \subseteq kinds
        /\ ~shape.dynamic => shape.count = Len(values) /\ shape.items = kinds

Fits(shape, x) ==
    CASE shape.kind = "scalar" -> shape.items = {x.kind}
      [] shape.kind = "array"  -> x.kind = "array" /\ \A values \in Expansions(x.items) : FitsArray(shape, values)
      [] OTHER -> /\ x.kind = "object" /\ shape.items \subseteq ToSet(x.items)
                  /\ ~shape.dynamic => shape.items = ToSet(x.items)

\* What the value of m may be, of all that the arguments may be.
ShapeFits(m) ==
    LET d == m.decorator
    IN  IF d.form = "metadata" THEN Fits(m.shape, d.value)
        ELSE \A given \in Expansions(d.arguments) :
                IF ~Described(Wrapper(d)) THEN FitsArray(m.shape, given)
                ELSE LET p == MetadataOf(Wrapper(d))
                     IN  IF p.parameter = 0 THEN Fits(m.shape, p.value)
                         ELSE IF p.rest THEN FitsArray(m.shape, SubSeq(given, p.parameter, Len(given)))
                         ELSE p.parameter \in DOMAIN given /\ Fits(m.shape, given[p.parameter])

\* A spread ahead of a parameter moves the arguments.
SpreadAhead(d) ==
    /\ d.form = "wrapper" /\ Described(Wrapper(d))
    /\ \E i \in DOMAIN d.arguments : i < MetadataOf(Wrapper(d)).parameter /\ d.arguments[i].kind = "spread"

RealModulesUnder(root) ==
    LET under[n \in 0..Cardinality(Modules)] ==
            IF n = 0 THEN {root} \cap Modules
            ELSE under[n - 1] \cup (Modules \cap UNION {ImportsOf(m) : m \in under[n - 1]})
    IN  under[Cardinality(Modules)]

ControlledBy(m) == {x.name : x \in Given(m, "controllers")}
Serves(b, e) == \E m \in RealModulesUnder(b.root) : controls.endpoints[e].controller \in ControlledBy(m)

\* Guards of an application that serves e; of a module that is in none, its
\* own are those it brings to any.
RealGlobals(e) ==
    (UNION {BootstrapGuards(b) \cup UNION {TokenGuards(m) : m \in RealModulesUnder(b.root)} : b \in {b \in nest.bootstraps : Serves(b, e)}})
    \cup UNION {TokenGuards(m) : m \in {m \in Modules : controls.endpoints[e].controller \in ControlledBy(m)}}

\* A guard of one application is taken for one of its root module, which
\* another application imports.
RootIsImported(e, g) ==
    \E b, c \in nest.bootstraps : g \in BootstrapGuards(b) /\ Serves(c, e) /\ b.root \in RealModulesUnder(c.root)

\* Nothing about modules and applications is hidden from the extractor.
AllIsRead ==
    /\ moduleFacts.complete /\ \A b \in nest.bootstraps : b.bound
    /\ \A m \in Modules, field \in Fields : ~ChangedUnseen(m, field)

\* A guard that the extractors do not see at d: behind a wrapper that is not
\* one expression in the repository with one SetMetadata, or not in place.
Unread(d, x) == d.form = "wrapper" /\ (~Described(Wrapper(d)) \/ x \notin GuardsIn(Wrapper(d)))
UnreadKey(d, key) ==
    IF d.form = "wrapper" THEN ~Described(Wrapper(d)) \/ key # MetadataOf(Wrapper(d)).key ELSE ~d.static

Replaced(d) == d.form = "wrapper" /\ Wrapper(d).replaced
DecoratorsOf(e) == {u[3] : u \in {u \in Decorated : u[1] = e}}

GuardsAreSeen ==
    /\ \A u \in Decorated : \A x \in AppliedGuards(u[3]) :
          IF Unread(u[3], x) THEN TRUE
          ELSE IF ResolvedGuard(x)
          THEN \E a \in controlFacts.guards : <<a.endpoint, a.scope, a.guard>> = <<u[1], u[2], x.name>>
          ELSE <<"guard_unresolved", u[1]>> \in controlFacts.diagnostics
    /\ \A a \in controlFacts.guards :
          \E u \in Decorated :
              /\ <<u[1], u[2]>> = <<a.endpoint, a.scope>>
              /\ Replaced(u[3]) \/ \E x \in AppliedGuards(u[3]) : x.name = a.guard

MetadataIsSeen ==
    /\ \A u \in Decorated : \A key \in MetadataSet(u[3]) \cap controls.keys :
          \/ \E m \in controlFacts.metadata : <<m.endpoint, m.scope, m.decorator, m.key>> = <<u[1], u[2], u[3], key>>
          \/ UnreadKey(u[3], key)
    /\ \A m \in controlFacts.metadata :
          /\ m.source = "configured" \/ Replaced(m.decorator) \/ m.key \in MetadataSet(m.decorator)
          /\ \/ m.shape.kind = "unknown" /\ <<"value_dynamic", m>> \in controlFacts.diagnostics
             \/ ShapeFits(m) \/ SpreadAhead(m.decorator)

\* x is what is said of the enforcement of x.metadata.
EnforcementIsReal(x) ==
    LET m == x.metadata
        e == m.endpoint
    IN  CASE x.state = "proven" ->
                Replaced(m.decorator) \/ x.guards \subseteq {g.name : g \in AppliedGuards(m.decorator)}
          [] x.state = "configured" ->
                \A g \in x.guards :
                    \/ g \in OwnGuards(e) \cup RealGlobals(e) \/ RootIsImported(e, g)
                    \/ \E d \in DecoratorsOf(e) : Replaced(d)
          [] OTHER ->
                /\ \A d \in DecoratorsOf(e) : \A g \in AppliedGuards(d) :
                      RelatedTo(m, {g.name}) = {} \/ Unread(d, g) \/ ~ResolvedGuard(g)
                /\ AllIsRead => \A g \in RelatedTo(m, RealGlobals(e)) : \E n \in Modules : UnseenGuard(n, g)

(***************************************************************************)
(* Every guard on an endpoint that is written as its class is asserted,    *)
(* every other is diagnosed, and no other is asserted. Metadata of a       *)
(* configured key is recorded as what it is. Its enforcement is proven     *)
(* only by a guard of the same decorator, configured only with a guard     *)
(* that protects the endpoint by itself or through an application that     *)
(* serves it, and unknown only when no related guard does.                 *)
(***************************************************************************)
ControlsAreReal(extracted) == extracted =>
    /\ GuardsAreSeen /\ MetadataIsSeen
    /\ \A m \in controlFacts.metadata : \E x \in controlFacts.enforcements : x.metadata = m
    /\ \A x \in controlFacts.enforcements : EnforcementIsReal(x)

=============================================================================
