----------------------------- MODULE NestModules -----------------------------
(***************************************************************************)
(* The modules of a repository and the guards registered for a whole       *)
(* application: extractNestModules (src/src/extractors/nest-modules.ts).   *)
(*                                                                         *)
(* nest: [classes, modules, bootstraps]                                    *)
(*   classes     the classes of the repository                             *)
(*   modules     module -> [literal, odd, imports, providers, exports,     *)
(*                 controllers]: whether its metadata is an object         *)
(*                 literal, whether that has computed or spread properties,*)
(*                 and four arrays                                         *)
(*   array       [named, parts]: written in place or named by a constant,  *)
(*                 the literal elements first and spreads behind           *)
(*   part        [spread, static, mutated, far, elements, hidden]: static  *)
(*                 when it leads to the literal of a constant; changed not *)
(*                 at all ("no"), where the code looks ("seen"), through   *)
(*                 another name ("alias") or in another file               *)
(*                 ("elsewhere"), by adding the hidden elements; far: in   *)
(*                 another file, behind the length of the module's file    *)
(*   element     [form, name, token, strategy]: a "class", a "forward"     *)
(*                 reference, the event "emitter", an "object" or "odd"    *)
(*                 object, or "other"; an object has a token ("app_guard", *)
(*                 "aliased" or "local", "twice" when given twice, "none") *)
(*                 and a strategy ("class", "existing", "other")           *)
(*   bootstraps  [root, bound, calls, escapes, hidden]: an application of  *)
(*                 the root, bound to a constant or not; its calls of      *)
(*                 useGlobalGuards, [where, guards]: "plain", in a         *)
(*                 "statement", or behind a short-cut "operator"; guards   *)
(*                 that an escaped application gets elsewhere              *)
(***************************************************************************)
EXTENDS Integers, FiniteSets

VARIABLES
    nest,
    moduleFacts     \* [relations, incomplete, registrations, complete, diagnosed, state]

moduleVars == <<nest, moduleFacts>>

NoModules == [relations |-> {}, incomplete |-> {}, registrations |-> {}, complete |-> FALSE, diagnosed |-> FALSE, state |-> "unknown"]

Modules == DOMAIN nest.modules
Array(m, field) == nest.modules[m][field]

-----------------------------------------------------------------------------
(***************************************************************************)
(* Reading an array: one hop through a constant that is not changed.       *)
(***************************************************************************)
Readable(part) == part.static /\ part.mutated # "seen"

\* Wrong: changes of a constant are not looked for.
ReadPartsAnyway(a) == {i \in DOMAIN a.parts : a.parts[i].static /\ ~(a.named /\ a.parts[i].spread)}

\* resolveStaticArray.
ReadParts(a) ==
    {i \in DOMAIN a.parts :
        Readable(a.parts[i]) /\ (a.named => ~a.parts[i].spread /\ Readable(a.parts[1]))}

ReadWholly(a) == ReadParts(a) = DOMAIN a.parts
ElementsRead(m, field) == UNION {Array(m, field).parts[i].elements : i \in ReadParts(Array(m, field))}

IsClass(e) == e.form = "class" /\ e.name \in nest.classes
IsModule(e) == e.form \in {"class", "forward"} /\ e.name \in Modules
UsesClass(e) == e.form = "object" /\ e.token \in {"local", "aliased"} /\ e.strategy = "class" /\ e.name \in nest.classes

ImportsIn(m) == {<<m, "imports", e.name>> : e \in {e \in ElementsRead(m, "imports") : IsModule(e)}}
ProvidesIn(m) == {<<m, "provides", e.name>> : e \in {e \in ElementsRead(m, "providers") : IsClass(e) \/ UsesClass(e)}}
ExportsIn(m) == {<<m, "exports", e.name>> : e \in {e \in ElementsRead(m, "exports") : IsModule(e) \/ IsClass(e)}}
ControlsIn(m) == {<<m, "controls", e.name>> : e \in {e \in ElementsRead(m, "controllers") : IsClass(e)}}
Relations(m) == ImportsIn(m) \cup ProvidesIn(m) \cup ExportsIn(m) \cup ControlsIn(m)

-----------------------------------------------------------------------------
(***************************************************************************)
(* The guards.                                                             *)
(***************************************************************************)
IsGuard(e) == e.form = "object" /\ e.token = "app_guard"

\* useExisting names a class that the same module provides as a class.
Registered(m, e) ==
    /\ IsGuard(e) /\ e.name \in nest.classes
    /\ \/ e.strategy = "class"
       \/ e.strategy = "existing" /\ \E p \in ElementsRead(m, "providers") : IsClass(p) /\ p.name = e.name

GuardsOfModule(m) ==
    {[module |-> m, guard |-> e.name, kind |-> e.strategy] : e \in {e \in ElementsRead(m, "providers") : Registered(m, e)}}

Bootstraps == {b \in nest.bootstraps : b.bound /\ b.root \in Modules}
Unconditional(b) == {call \in b.calls : call.where # "statement"}

GuardsOfBootstrap(b) ==
    {[module |-> b.root, guard |-> g, kind |-> "bootstrap"] :
        g \in UNION {call.guards \cap nest.classes : call \in Unconditional(b)}}

-----------------------------------------------------------------------------
(***************************************************************************)
(* What is not understood makes the module, and the global guards,         *)
(* incomplete.                                                             *)
(***************************************************************************)
NotUnderstood(m, field, e) ==
    CASE field = "imports"     -> ~IsModule(e) /\ e.form # "emitter"
      [] field = "exports"     -> ~IsModule(e) /\ ~IsClass(e)
      [] field = "controllers" -> ~IsClass(e)
      [] OTHER -> \/ e.form # "object" /\ ~IsClass(e)
                  \/ e.form = "object" /\ e.token = "twice"
                  \/ IsGuard(e) /\ ~Registered(m, e)

Fields == {"imports", "providers", "exports", "controllers"}

IncompleteModule(m) ==
    \/ ~nest.modules[m].literal \/ nest.modules[m].odd
    \/ \E field \in Fields :
          ~ReadWholly(Array(m, field)) \/ \E e \in ElementsRead(m, field) : NotUnderstood(m, field, e)

IncompleteBootstrap(b) ==
    \/ b.bound /\ b.root \notin Modules
    \/ b \in Bootstraps /\ (b.escapes \/ \E call \in b.calls : call.where = "statement" \/ ~(call.guards \subseteq nest.classes))

\* Every diagnostic makes the scan of the guards incomplete.
ModulesDiagnosed == (\E m \in Modules : IncompleteModule(m)) \/ (\E b \in nest.bootstraps : IncompleteBootstrap(b))
GlobalComplete == Modules # {} /\ ~ModulesDiagnosed

Literal == {m \in Modules : nest.modules[m].literal}
GuardRegistrations == (UNION {GuardsOfModule(m) : m \in Literal}) \cup UNION {GuardsOfBootstrap(b) : b \in Bootstraps}

\* Evidence of an element is taken in the module's file: an element that
\* stands further down in another file is outside it.
Evidenced(field, e) ==
    CASE field = "imports" -> e.form # "emitter"
      [] field = "providers" /\ e.form = "object" -> IsGuard(e) \/ UsesClass(e) \/ e.token = "twice"
      [] OTHER -> TRUE

MisplacedEvidence ==
    \E m \in Literal, field \in Fields : \E i \in ReadParts(Array(m, field)) :
        Array(m, field).parts[i].far /\ \E e \in Array(m, field).parts[i].elements : Evidenced(field, e)

ExtractModules ==
    /\ moduleFacts' =
          [relations |-> UNION {Relations(m) : m \in Literal},
           incomplete |-> {m \in Modules : IncompleteModule(m)},
           registrations |-> GuardRegistrations, complete |-> GlobalComplete, diagnosed |-> ModulesDiagnosed,
           state |-> IF GuardRegistrations # {} THEN "declared" ELSE IF GlobalComplete THEN "none_proven" ELSE "unknown"]
    /\ UNCHANGED nest

-----------------------------------------------------------------------------
(***************************************************************************)
(* What Nest is given: the arrays as they are when the module is loaded.   *)
(***************************************************************************)
Given(m, field) ==
    UNION {p.elements \cup p.hidden : p \in {Array(m, field).parts[i] : i \in DOMAIN Array(m, field).parts}}

TokenGuards(m) ==
    {e.name : e \in {e \in Given(m, "providers") : e.form \in {"object", "odd"} /\ e.token \in {"app_guard", "aliased", "twice"}}}

BootstrapGuards(b) == b.hidden \cup UNION {call.guards : call \in b.calls}

RealGuards ==
    (UNION {{m} \X TokenGuards(m) : m \in Modules}) \cup UNION {{b.root} \X BootstrapGuards(b) : b \in nest.bootstraps}

\* Constants changed under another name or from another file are taken as
\* they are written.
ChangedUnseen(m, field) ==
    \E i \in DOMAIN Array(m, field).parts : Array(m, field).parts[i].mutated \in {"alias", "elsewhere"}

\* A guard under another name of the token, or of an application that is
\* not bound to a constant.
UnseenGuard(m, g) ==
    \/ m \in Modules /\ ChangedUnseen(m, "providers")
    \/ m \in Modules /\ \E e \in Given(m, "providers") : e.token = "aliased" /\ e.name = g
    \/ \E b \in nest.bootstraps : ~b.bound /\ b.root = m /\ g \in BootstrapGuards(b)

ImportsOf(m) == {e.name : e \in {e \in Given(m, "imports") : e.form # "emitter"}}
ProvidedBy(m) == {e.name : e \in {e \in Given(m, "providers") : IsClass(e) \/ UsesClass(e)}}

(***************************************************************************)
(* When the scan of global guards is called complete every guard that any  *)
(* module or application registers is in it, and every registration is     *)
(* made; and a module that is called complete has all its imports and all  *)
(* the classes it provides as such.                                        *)
(***************************************************************************)
ModulesAreRead(extracted) == extracted =>
    /\ moduleFacts.complete =>
          \A pair \in RealGuards :
              \/ \E r \in moduleFacts.registrations : <<r.module, r.guard>> = pair
              \/ UnseenGuard(pair[1], pair[2])
    /\ \A r \in moduleFacts.registrations : <<r.module, r.guard>> \in RealGuards
    /\ \A m \in Modules \ moduleFacts.incomplete :
          /\ ~ChangedUnseen(m, "imports") => \A n \in ImportsOf(m) : <<m, "imports", n>> \in moduleFacts.relations
          /\ ~ChangedUnseen(m, "providers") => \A c \in ProvidedBy(m) : <<m, "provides", c>> \in moduleFacts.relations

=============================================================================
