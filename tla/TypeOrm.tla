------------------------------- MODULE TypeOrm -------------------------------
(***************************************************************************)
(* The table accesses of one method through TypeORM:                       *)
(* extractTypeOrmPersistence (src/src/extractors/typeorm-persistence.ts)   *)
(* for repositories, and the flow of query builders it hands each method   *)
(* body to (src/src/extractors/typeorm-query-builder.ts).                  *)
(*                                                                         *)
(* A builder is a mutable object: every call on it, through whatever name, *)
(* changes what its terminal does. The extractor replays the calls it      *)
(* finds in the text; Runs below executes them.                            *)
(*                                                                         *)
(* persistence: [entities, members, body]                                  *)
(*   entities  entity class -> its table, or "none" when not resolved      *)
(*   members   member -> [bound, injected, types, entities]: bound by this *)
(*             constructor; the entities of @InjectRepository's argument   *)
(*             or "no"; the types of the member, "other" for one that is   *)
(*             not TypeORM's; the entities of its type argument            *)
(*   body      the statements in the order of the text:                    *)
(*             [into, on, calls, terminal, maybe, nested]                  *)
(*   on        [form, name, target, value]: a "root" (name is the member), *)
(*             the builder in a "var", "pass" it on, "assign" it anew, or  *)
(*             an "op" on a repository (terminal is the operation)         *)
(*   calls     [name, target]                                              *)
(*   target    [form, names]: "entity", "text", "relation", "callback",    *)
(*             "dynamic" or "none"                                         *)
(***************************************************************************)
EXTENDS Integers, FiniteSets, SequencesExt

VARIABLES
    persistence,
    tableFacts      \* [accesses, sinks, diagnostics, bindings]

tableVars == <<persistence, tableFacts>>

NoTables == [accesses |-> {}, sinks |-> {}, diagnostics |-> {}, bindings |-> {}]

Lines == DOMAIN persistence.body
Line(i) == persistence.body[i]
MemberOf(i) == persistence.members[Line(i).on.name]

ReadTerminals == {"getMany"}
InspectionTerminals == {"getSql"}
SupportedTerminals == ReadTerminals \cup InspectionTerminals \cup {"execute"}
JoinOperations == {"innerJoin"}
PassthroughOperations == {"where", "values", "set"}

-----------------------------------------------------------------------------
(***************************************************************************)
(* Entities, repository members and table targets.                         *)
(***************************************************************************)
MappedTables(entities) ==
    {[name |-> persistence.entities[e], literal |-> FALSE] :
        e \in {x \in entities : persistence.entities[x] # "none"}}

StatusOf(entities) == IF Cardinality(entities) = 1 THEN "resolved" ELSE "ambiguous"

Targets(tables, status) == {[table |-> t, status |-> status] : t \in tables}

\* targetResolutionFor.
ResolveTarget(target) ==
    CASE target.form = "callback" -> [status |-> "unsupported", targets |-> {}, entity |-> FALSE]
      [] target.form = "entity" /\ MappedTables(target.names) # {} ->
            [status |-> StatusOf(target.names), entity |-> TRUE,
             targets |-> Targets(MappedTables(target.names), StatusOf(target.names))]
      [] target.form \in {"text", "relation"} ->
            [status |-> "resolved", entity |-> FALSE,
             targets |-> Targets({[name |-> n, literal |-> TRUE] : n \in target.names}, "resolved")]
      [] OTHER -> [status |-> "unresolved", targets |-> {}, entity |-> FALSE]

TypeOrmTypes(m) == m.types \ {"other"}

\* resolveRootReceiver: a repository counts only as a member this
\* constructor binds.
Receiver(m) ==
    IF TypeOrmTypes(m) = {} THEN "ignored"
    ELSE IF "other" \in m.types \/ Cardinality(TypeOrmTypes(m)) # 1 THEN "ambiguous"
    ELSE IF TypeOrmTypes(m) = {"repository"} /\ ~m.bound THEN "ignored"
    ELSE "resolved"

-----------------------------------------------------------------------------
(***************************************************************************)
(* The state of a builder, as the extractor sees it, with the diagnostics  *)
(* of its evaluation: each carries the evidence of the root.               *)
(***************************************************************************)
NoState == [root |-> 0]

AddTables(existing, targets, rule) ==
    LET Before(t) == {e \in existing : e.table = t.table}
        Joined(t) ==
            [table |-> t.table,
             status |-> IF "resolved" \in {e.status : e \in Before(t) \cup {t}} THEN "resolved" ELSE "ambiguous",
             rule |-> IF Before(t) = {} THEN rule ELSE (CHOOSE e \in Before(t) : TRUE).rule]
    IN  {e \in existing : \A t \in targets : t.table # e.table} \cup {Joined(t) : t \in targets}

Say(s, code) == [s EXCEPT !.said = @ \cup {[code |-> code, root |-> s.root]}]
Invalid(s, code) == [Say(s, code) EXCEPT !.invalid = TRUE]

CodeOf(status) ==
    CASE status = "ambiguous" -> "STATE_AMBIGUOUS"
      [] status = "unresolved" -> "TABLE_UNRESOLVED"
      [] OTHER -> "FLOW_UNSUPPORTED"

\* The state behind createQueryBuilder.
RootState(i) ==
    LET m == MemberOf(i)
        target == Line(i).on.target
        found == ResolveTarget(target)
        owned == IF TypeOrmTypes(m) = {"repository"}
                 THEN Targets(MappedTables(m.entities), IF Cardinality(m.entities) > 1 THEN "ambiguous" ELSE "resolved")
                 ELSE {}
        Fresh(tables) ==
            [root |-> i, kind |-> "select", main |-> AddTables({}, tables, "select"),
             reads |-> AddTables({}, tables, "select"), writes |-> {}, objects |-> {}, said |-> {}, invalid |-> FALSE]
    IN  CASE Receiver(m) = "ignored"   -> NoState
          [] Receiver(m) = "ambiguous" -> Invalid(Fresh({}), "STATE_AMBIGUOUS")
          [] TypeOrmTypes(m) = {"repository"} \/ target.form = "none" ->
                IF \E t \in owned : t.status = "ambiguous" THEN Say(Fresh(owned), "STATE_AMBIGUOUS") ELSE Fresh(owned)
          [] OTHER ->
                CASE found.status = "resolved"  -> Fresh(found.targets)
                  [] found.status = "ambiguous" -> Say(Fresh(found.targets), "STATE_AMBIGUOUS")
                  [] OTHER -> Invalid(Fresh({}), CodeOf(found.status))

\* resolveRequiredTarget.
Required(s, target, field, rule) ==
    LET found == ResolveTarget(target)
        known == [s EXCEPT ![field] = AddTables(@, found.targets, rule)]
    IN  CASE found.status = "resolved"  -> known
          [] found.status = "ambiguous" -> Say(known, "STATE_AMBIGUOUS")
          [] OTHER -> Invalid(s, CodeOf(found.status))

Begin(s, kind) == [s EXCEPT !.kind = kind, !.writes = AddTables({}, s.main, kind)]

\* A join may only name an entity; one that may name several loses the
\* invalidity of the state (line 529).
Join(s, target) ==
    LET found == ResolveTarget(target)
    IN  IF target.form \in {"none", "relation"} THEN Say(s, "FLOW_UNSUPPORTED")
        ELSE IF found.status = "resolved" /\ found.entity
        THEN [s EXCEPT !.reads = AddTables(@, found.targets, "join")]
        ELSE [Say(s, CodeOf(found.status)) EXCEPT !.invalid = found.status # "ambiguous"]

\* applyTransition.
Transition(s, call, at) ==
    CASE \/ call.name = "values" /\ s.kind = "insert"
         \/ call.name = "set" /\ s.kind = "update" -> [s EXCEPT !.objects = @ \cup {[kind |-> s.kind, at |-> at]}]
      [] call.name \in {"insert", "delete"} -> Begin(s, call.name)
      [] call.name = "update" ->
            IF call.target.form = "none" THEN Begin(s, "update")
            ELSE Required([Begin(s, "update") EXCEPT !.writes = {}], call.target, "writes", "update")
      [] call.name = "into" -> Required([s EXCEPT !.writes = {}], call.target, "writes", s.kind)
      [] call.name = "from" /\ s.kind = "delete" -> Required([s EXCEPT !.writes = {}], call.target, "writes", "delete")
      [] call.name \in {"from", "addFrom"} /\ ~(call.name = "from" /\ s.kind = "delete") ->
            Required(s, call.target, "reads", "select")
      [] call.name \in JoinOperations -> Join(s, call.target)
      [] call.name \in PassthroughOperations /\ ~(call.name = "values" /\ s.kind = "insert")
                                             /\ ~(call.name = "set" /\ s.kind = "update") -> s
      [] OTHER -> Invalid(s, "FLOW_UNSUPPORTED")

Replay(s, calls, at) ==
    IF s = NoState THEN NoState ELSE FoldLeft(LAMBDA t, c : Transition(t, c, at), s, calls)

-----------------------------------------------------------------------------
(***************************************************************************)
(* Evaluating the receiver of a terminal.                                  *)
(***************************************************************************)
Declaration(v) == {i \in Lines : Line(i).into = v}
Mentions(v, form) == {i \in Lines : Line(i).on.form = form /\ Line(i).on.name = v}

\* A name that is passed on or aliased before the terminal.
Escapes(v, k) ==
    {i \in Mentions(v, "pass") \cup Mentions(v, "var") :
        /\ i < k
        /\ Line(i).on.form = "pass" \/ (Line(i).calls = <<>> /\ Line(i).terminal = "none")}

\* Only the call that is made on the name itself is found, and no terminal.
DirectCall(i) ==
    IF Line(i).calls # <<>> THEN <<Head(Line(i).calls)>>
    ELSE IF Line(i).terminal \notin SupportedTerminals \cup {"none"}
    THEN <<[name |-> Line(i).terminal, target |-> [form |-> "none", names |-> {}]]>>
    ELSE <<>>

\* Wrong: calls behind the terminal are replayed as well.
AllTransitions(v, k) == [i \in Lines |-> IF i \in Mentions(v, "var") \ {k} THEN DirectCall(i) ELSE <<>>]

Transitions(v, k) == [i \in Lines |-> IF i \in Mentions(v, "var") /\ i < k THEN DirectCall(i) ELSE <<>>]

\* evaluateLocalVariable, from the state of the initializer.
Local(v, k, s) ==
    LET escaped == IF Escapes(v, k) = {} THEN s ELSE Invalid(s, "FLOW_UNSUPPORTED")
        found == Transitions(v, k)
    IN  IF s = NoState THEN NoState
        ELSE IF Mentions(v, "assign") # {} THEN Invalid(s, "STATE_AMBIGUOUS")
        ELSE FoldLeft(LAMBDA t, i : Replay(t, found[i], i), escaped, [i \in Lines |-> i])

\* evaluateExpression: the state of line i for the terminal of line k.
Evaluated(k) ==
    LET state[i \in Lines] ==
            Replay(CASE Line(i).on.form = "root" -> RootState(i)
                     [] Line(i).on.form = "var" /\ Declaration(Line(i).on.name) # {} ->
                           Local(Line(i).on.name, k, state[CHOOSE d \in Declaration(Line(i).on.name) : TRUE])
                     [] OTHER -> NoState,
                   Line(i).calls, i)
    IN  state[k]


\* What the walk over the calls sees: nothing in a nested function.
Visited(i) == Line(i).nested = "no" /\ Line(i).on.form \in {"root", "var"}

Replayed == {k \in Lines : Visited(k) /\ Line(k).terminal \in SupportedTerminals /\ Evaluated(k) # NoState}

-----------------------------------------------------------------------------
(***************************************************************************)
(* What is published for the terminals, the roots and the operations.      *)
(***************************************************************************)
Direction(terminal) == IF terminal \in ReadTerminals THEN "read" ELSE "write"

TablesAt(k, s) ==
    IF s.invalid \/ Line(k).terminal \in InspectionTerminals THEN {}
    ELSE IF Line(k).terminal \in ReadTerminals THEN IF s.kind = "select" THEN s.reads ELSE {}
    ELSE IF s.kind = "select" THEN {} ELSE s.writes

TerminalAccesses(k, s) ==
    {[direction |-> Direction(Line(k).terminal), table |-> t.table, status |-> t.status,
      rule |-> IF Line(k).terminal \in ReadTerminals THEN t.rule ELSE s.kind] : t \in TablesAt(k, s)}

BuilderSink(at, t, kinds) ==
    LET mapped == {e \in DOMAIN persistence.entities : ~t.table.literal /\ persistence.entities[e] = t.table.name}
    IN  [at |-> at, kind |-> kinds, table |-> t.table,
         entities |-> {[entity |-> e, status |-> IF Cardinality(mapped) = 1 THEN t.status ELSE "ambiguous"] : e \in mapped}]

TerminalSinks(k, s) ==
    {BuilderSink(o.at, t, s.kind) : o \in {o \in s.objects : o.kind = s.kind /\ Line(k).terminal = "execute"}, t \in TablesAt(k, s)}

TerminalDiagnostics(k, s) ==
    s.said \cup
    IF Line(k).terminal \in InspectionTerminals THEN {[code |-> "TERMINAL_MISSING", root |-> s.root]}
    ELSE IF ~s.invalid /\ TablesAt(k, s) = {} THEN {[code |-> "TABLE_UNRESOLVED", root |-> s.root]}
    ELSE {}

FoundRoots == {i \in Lines : Visited(i) /\ Line(i).on.form = "root" /\ RootState(i) # NoState}

RootDiagnostics(i) ==
    RootState(i).said \cup
    IF RootState(i).invalid \/ \E k \in Replayed : Evaluated(k).root = i THEN {}
    ELSE {[code |-> "TERMINAL_MISSING", root |-> i]}

\* Repositories of @InjectRepository: their members, and their operations.
ReadOperations == {"find"}
WriteOperations == {"save", "insert", "update"}

Injected == {name \in DOMAIN persistence.members : persistence.members[name].injected # {"no"}}
Bound == {name \in Injected : persistence.members[name].bound}

Bindings ==
    {[member |-> name, entities |-> persistence.members[name].injected,
      status |-> IF persistence.members[name].injected = {} THEN "unresolved"
                 ELSE StatusOf(persistence.members[name].injected)] : name \in Bound}

MemberDiagnostics ==
    {[code |-> "ENTITY_UNRESOLVED", member |-> name] :
        name \in {n \in Injected : n \notin Bound \/ persistence.members[n].injected = {}}}

EntityDiagnostics ==
    {[code |-> "ENTITY_UNRESOLVED", entity |-> e] :
        e \in {e \in DOMAIN persistence.entities : persistence.entities[e] = "none"}}

Operations == {i \in Lines : Line(i).on.form = "op" /\ Line(i).on.name \in Bound /\ Line(i).nested # "function"}

OperationTargets(i) == Targets(MappedTables(MemberOf(i).injected), StatusOf(MemberOf(i).injected))

OperationAccesses(i) ==
    {[direction |-> IF Line(i).terminal \in ReadOperations THEN "read" ELSE "write",
      table |-> t.table, status |-> t.status, rule |-> Line(i).terminal] :
        t \in {t \in OperationTargets(i) : Line(i).terminal \in ReadOperations \cup WriteOperations}}

\* A sink of a repository names the entities of the binding.
OperationSinks(i) ==
    IF Line(i).terminal \notin {"insert", "update"} \/ ~Line(i).on.value THEN {}
    ELSE {[at |-> i, kind |-> Line(i).terminal, table |-> t.table,
           entities |-> {[entity |-> e, status |-> t.status] :
               e \in {e \in MemberOf(i).injected : persistence.entities[e] = t.table.name}}] : t \in OperationTargets(i)}

OperationDiagnostics(i) ==
    CASE Line(i).terminal \notin ReadOperations \cup WriteOperations -> {[code |-> "OPERATION_UNSUPPORTED", root |-> i]}
      [] Line(i).terminal = "save" /\ OperationTargets(i) # {} -> {[code |-> "SAVE_COLUMNS_UNKNOWN", root |-> i]}
      [] OTHER -> {}

\* addAssertion: an ambiguous access makes the assertion ambiguous.
Merged(accesses) ==
    {a \in accesses : a.status = "ambiguous" \/ [a EXCEPT !.status = "ambiguous"] \notin accesses}

ExtractTables ==
    /\ tableFacts' =
          [accesses |-> Merged((UNION {TerminalAccesses(k, Evaluated(k)) : k \in Replayed})
                               \cup UNION {OperationAccesses(i) : i \in Operations}),
           sinks |-> (UNION {TerminalSinks(k, Evaluated(k)) : k \in Replayed})
                     \cup UNION {OperationSinks(i) : i \in Operations},
           diagnostics |-> (UNION {TerminalDiagnostics(k, Evaluated(k)) : k \in Replayed})
                           \cup (UNION {RootDiagnostics(i) : i \in FoundRoots})
                           \cup (UNION {OperationDiagnostics(i) : i \in Operations})
                           \cup MemberDiagnostics \cup EntityDiagnostics,
           bindings |-> Bindings]
    /\ UNCHANGED persistence

-----------------------------------------------------------------------------
(***************************************************************************)
(* Executing the body: each optional statement runs or does not. A builder *)
(* is known by the line of its root; its tables are those it may name, and *)
(* are certain when there is one.                                          *)
(***************************************************************************)
Some(tables) == {[table |-> t, certain |-> Cardinality(tables) = 1] : t \in tables}
Unmapped == [name |-> "unmapped", literal |-> FALSE]
Hidden == [name |-> "hidden", literal |-> FALSE]
TableOf(e) == IF persistence.entities[e] = "none" THEN Unmapped ELSE [name |-> persistence.entities[e], literal |-> FALSE]

Named(target) ==
    CASE target.form = "entity" -> Some({TableOf(e) : e \in target.names})
      [] target.form = "text"   -> Some({[name |-> n, literal |-> TRUE] : n \in target.names})
      [] target.form = "none"   -> {}
      [] OTHER -> Some({Hidden})

Owned(m) ==
    IF m.types # {"repository"} THEN Some({Hidden})
    ELSE IF m.injected \notin {{}, {"no"}} THEN Some({TableOf(e) : e \in m.injected})
    ELSE IF m.entities = {} THEN Some({Hidden}) ELSE Some({TableOf(e) : e \in m.entities})

NewBuilder(i) ==
    LET main == IF MemberOf(i).types \in {{"data_source"}, {"entity_manager"}} THEN Named(Line(i).on.target)
                ELSE Owned(MemberOf(i))
    IN  [kind |-> "select", main |-> main, joined |-> {}, objects |-> {}]

\* One call on a builder.
Called(b, call, at) ==
    CASE call.name \in {"insert", "delete"} -> [b EXCEPT !.kind = call.name]
      [] call.name = "update" ->
            [b EXCEPT !.kind = "update", !.main = IF call.target.form = "none" THEN @ ELSE Named(call.target)]
      [] call.name \in {"into", "from"} /\ b.kind # "select" -> [b EXCEPT !.main = Named(call.target)]
      [] <<call.name, b.kind>> \in {<<"values", "insert">>, <<"set", "update">>} ->
            [b EXCEPT !.objects = @ \cup {<<b.kind, at>>}]
      [] /\ call.name \in {"where", "values", "set"}
         /\ <<call.name, b.kind>> \notin {<<"values", "insert">>, <<"set", "update">>} -> b
      [] call.name \in {"from", "addFrom", "innerJoin"} /\ ~(call.name = "from" /\ b.kind # "select") ->
            [b EXCEPT !.joined = @ \cup Named(call.target)]
      [] OTHER -> [b EXCEPT !.joined = @ \cup Some({Hidden})]

\* What a terminal does: [root, at, direction, table, certain, object].
Performed(b, root, k) ==
    LET Access(direction, t, object) ==
            [root |-> root, at |-> k, direction |-> direction, table |-> t.table, certain |-> t.certain, object |-> object]
    IN  IF Line(k).terminal \in {"none", "getSql"} THEN {}
        ELSE IF b.kind = "select" THEN {Access("read", t, 0) : t \in b.main \cup b.joined}
        ELSE IF Line(k).terminal = "execute"
        THEN {Access("write", t, o) : t \in b.main, o \in {0} \cup {o[2] : o \in {o \in b.objects : o[1] = b.kind}}}
        ELSE {}

\* A method that has the builder may join more; a new one reads elsewhere.
Ran(run, i) ==
    LET root == IF Line(i).on.form = "root" THEN i ELSE run.names[Line(i).on.name]
        b == IF Line(i).on.form = "root" THEN NewBuilder(i) ELSE run.builders[root]
        after == CASE Line(i).on.form = "pass"   -> [b EXCEPT !.joined = @ \cup Some({Hidden})]
                   [] Line(i).on.form = "assign" -> [b EXCEPT !.main = Some({Hidden}), !.joined = {}]
                   [] OTHER -> FoldLeft(LAMBDA x, c : Called(x, c, i), b, Line(i).calls)
    IN  IF Line(i).on.form = "op" THEN run
        ELSE [names |-> IF Line(i).into = "none" THEN run.names ELSE [run.names EXCEPT ![Line(i).into] = root],
              builders |-> [run.builders EXCEPT ![root] = after],
              done |-> run.done \cup Performed(after, root, i)]

Run(skipped) ==
    FoldLeft(LAMBDA run, i : IF i \in skipped THEN run ELSE Ran(run, i),
             [names |-> [v \in {Line(i).into : i \in Lines} |-> 0],
              builders |-> [i \in Lines |-> [kind |-> "none", main |-> {}, joined |-> {}, objects |-> {}]], done |-> {}],
             [i \in Lines |-> i])

Optional == {i \in Lines : Line(i).maybe}

IsOperation(i) == Line(i).on.form = "op"

ObjectsOf(i) == IF Line(i).on.value /\ Line(i).terminal \in {"insert", "update"} THEN {0, i} ELSE {0}

OperationDone(i) ==
    {[root |-> i, at |-> i, direction |-> IF Line(i).terminal = "find" THEN "read" ELSE "write",
      table |-> t.table, certain |-> t.certain, object |-> o] : t \in Owned(MemberOf(i)), o \in ObjectsOf(i)}

Done ==
    (UNION {OperationDone(i) : i \in {i \in Lines : IsOperation(i)}}) \cup UNION {Run(skipped).done : skipped \in SUBSET Optional}

-----------------------------------------------------------------------------
(***************************************************************************)
(* What the extractor is known not to see, for the builder of a root.      *)
(***************************************************************************)
RootLine ==
    LET root[i \in Lines] ==
            CASE Line(i).on.form \in {"root", "op"} -> i
              [] OTHER -> root[CHOOSE d \in Declaration(Line(i).on.name) : TRUE]
    IN  root

Uses(root) == {i \in Lines : RootLine[i] = root /\ Line(i).on.form # "op"}
UsesOfName(root) == {i \in Uses(root) : Line(i).on.form = "var"}

\* Calls chained behind the first call of a statement on the variable.
LostCalls(root) == \E i \in UsesOfName(root) : Len(Line(i).calls) > 1

\* A second name, given to what a call on the first one returns.
SecondName(root) == \E i \in UsesOfName(root) : Line(i).into # "none"

\* An optional statement decides what kind of query it is, or of which table.
BranchedKind(root) ==
    \E i \in Uses(root) : Line(i).maybe /\
        \E c \in ToSet(Line(i).calls) : c.name \in {"insert", "update", "delete", "into", "from"}

\* A terminal the extractor does not know, next to one that it knows.
UnknownTerminal(root) ==
    \E i, j \in Uses(root) : Line(i).terminal \in SupportedTerminals /\
        Line(j).terminal \notin SupportedTerminals \cup {"none"}

\* A builder that was given up and is taken up again by an ambiguous join.
Revalidated(root) ==
    /\ \E i \in Uses(root) : Line(i).on.form \in {"pass", "assign"}
    /\ \E i \in Uses(root) : \E c \in ToSet(Line(i).calls) :
          c.name \in JoinOperations /\ c.target.form = "entity" /\ Cardinality(c.target.names) > 1

\* A repository of an entity outside the repository that only its type names.
OutsideEntity(a) == a.table = Hidden /\ MemberOf(a.root).injected = {"no"} /\ MemberOf(a.root).types = {"repository"}

InjectedOther(m) == m.injected \notin {{"no"}, {}} /\ m.injected # m.entities

Unseen(a) ==
    IF Line(a.root).on.form = "op" THEN Line(a.root).nested = "function" \/ MemberOf(a.root).injected = {"no"}
    ELSE \/ ~Visited(a.root) \/ ~Visited(a.at) \/ Receiver(MemberOf(a.root)) = "ignored"
         \/ LostCalls(a.root) \/ SecondName(a.root) \/ BranchedKind(a.root) \/ UnknownTerminal(a.root)
         \/ InjectedOther(MemberOf(a.root)) \/ OutsideEntity(a)

Published(a) ==
    IF a.object = 0 THEN \E p \in tableFacts.accesses : p.direction = a.direction /\ p.table = a.table
    ELSE \E s \in tableFacts.sinks : s.at = a.object /\ s.table = a.table

Diagnosed(a) ==
    \/ \E d \in tableFacts.diagnostics : "root" \in DOMAIN d /\ d.root = a.root /\ d.code # "SAVE_COLUMNS_UNKNOWN"
    \/ a.table = Unmapped /\ EntityDiagnostics \subseteq tableFacts.diagnostics /\ EntityDiagnostics # {}
    \/ /\ Line(a.root).on.form = "op" \/ a.table = Hidden
       /\ [code |-> "ENTITY_UNRESOLVED", member |-> Line(a.root).on.name] \in tableFacts.diagnostics

MayMislead == \E i \in Lines : Line(i).on.form = "root" /\
    (LostCalls(i) \/ SecondName(i) \/ Revalidated(i) \/ InjectedOther(MemberOf(i)))

(***************************************************************************)
(* Everything the body may do to a table, and every object it may write    *)
(* there, is published or has a diagnostic at its root, up to what is      *)
(* named above; and what is published as resolved is done, with this table *)
(* and no other, in some execution.                                        *)
(***************************************************************************)
QueriesAreHonest(extracted) == extracted =>
    /\ \A a \in Done : Published(a) \/ Diagnosed(a) \/ Unseen(a)
    /\ MayMislead \/
          /\ \A p \in {p \in tableFacts.accesses : p.status = "resolved"} :
                \E a \in Done : a.certain /\ a.object = 0 /\ a.direction = p.direction /\ a.table = p.table
          /\ \A s \in tableFacts.sinks : \A e \in {e \in s.entities : e.status = "resolved"} :
                \E a \in Done : a.certain /\ a.object = s.at /\ a.table = s.table

=============================================================================
