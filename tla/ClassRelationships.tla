-------------------------- MODULE ClassRelationships --------------------------
(***************************************************************************)
(* Which class injects which and which method calls which:                 *)
(* extractClassRelationships (src/src/extractors/class-relationships.ts)   *)
(* with the members a constructor binds (constructor-members.ts).          *)
(*                                                                         *)
(* A call is resolved through the type checker, to the declarations of the *)
(* static type of its receiver; Lookup stands for the checker. Executing   *)
(* the call takes the method of the object that is there.                  *)
(*                                                                         *)
(* codebase: [classes, sites]                                              *)
(*   classes  class -> [role, abstract, extends, declares, members,        *)
(*              invokes, constructor]                                      *)
(*     declares     method -> number of its declarations (overloads)       *)
(*     members      member -> the class it is declared with, or "none"     *)
(*     invokes      method -> what it does with its first parameter:       *)
(*                  "calls" it, calls it in a "nested" function, or "no"   *)
(*     constructor  [parameters, assignments]                              *)
(*     parameters   parameter -> [kind, property, classes]: a "class", a   *)
(*                  "token", a "repository" or an "external" type; the     *)
(*                  member it declares or "none"; the classes of its type  *)
(*     assignments  sequence of [member, parameter, direct]: an assignment *)
(*                  of the constructor, of a parameter or of "other", as a *)
(*                  statement of its own or inside one                     *)
(*   sites    [at, class, method, member, name, nested, callback]: a call  *)
(*            of name on a member, or on "this", in a "function" or not    *)
(*            ("no"); callback [member, name] is bound as first argument,  *)
(*            or NoCallback                                                *)
(***************************************************************************)
EXTENDS Integers, FiniteSets, Sequences

\* What the compiler makes of the classes: a class has its own classes as
\* bases, none of them twice, and what a call or an assignment names is there.
CodebaseIsTyped(base) ==
    LET classes == DOMAIN base.classes
    IN  /\ "none" \notin classes
        /\ \A S \in SUBSET classes : S # {} => \E c \in S : base.classes[c].extends \notin S
        /\ \A c \in classes :
              LET class == base.classes[c]
                  parameters == class.constructor.parameters
              IN  /\ class.extends \in classes \cup {"none"}
                  /\ \A m \in DOMAIN class.members : m # "this" /\ class.members[m] \in classes \cup {"none"}
                  /\ \A p \in DOMAIN parameters : parameters[p].property # "this"
                  /\ \A i \in DOMAIN class.constructor.assignments :
                        LET assignment == class.constructor.assignments[i]
                        IN  /\ assignment.member # "this"
                            /\ assignment.parameter \in DOMAIN parameters \cup {"other"}
        /\ \A s \in base.sites :
              /\ s.class \in classes
              /\ s.member # "this" => s.member \in DOMAIN base.classes[s.class].members
              /\ s.callback # [member |-> "none", name |-> "none"] =>
                    s.callback.member \in DOMAIN base.classes[s.class].members

VARIABLES
    codebase,
    callFacts       \* [injections, calls, observations, diagnostics]

callVars == <<codebase, callFacts>>

NoCalls == [injections |-> {}, calls |-> {}, observations |-> {}, diagnostics |-> {}]
NoCallback == [member |-> "none", name |-> "none"]

Classes == DOMAIN codebase.classes
Class(c) == codebase.classes[c]
ParametersOf(c) == DOMAIN Class(c).constructor.parameters
Parameter(c, p) == Class(c).constructor.parameters[p]
Assignments(c) == Class(c).constructor.assignments

\* The declarations of a method in a class, or in the nearest base class.
Lookup(c, name) ==
    LET found[k \in Classes \cup {"none"}] ==
            IF k = "none" THEN {}
            ELSE IF name \in DOMAIN Class(k).declares
            THEN {[class |-> k, name |-> name, overload |-> i] : i \in 1..Class(k).declares[name]}
            ELSE found[Class(k).extends]
    IN  found[c]

CallStatus(targets) == IF Cardinality(targets) = 1 THEN "resolved" ELSE "ambiguous"

\* addAssertion: an id is the two ends and the rule; ambiguous wins.
MergedCalls(facts) == {f \in facts : f.status = "ambiguous" \/ [f EXCEPT !.status = "ambiguous"] \notin facts}

RecognizedOwners == {c \in Classes : Class(c).role # "none"}

-----------------------------------------------------------------------------
(***************************************************************************)
(* The members of a constructor.                                           *)
(***************************************************************************)
Assigning(c, m) == {i \in DOMAIN Assignments(c) : Assignments(c)[i].member = m}
Direct(c, p) == {i \in DOMAIN Assignments(c) : Assignments(c)[i].parameter = p /\ Assignments(c)[i].direct}

\* explicitParameterMemberAssignments.
ExplicitAssignment(c, p) ==
    {Assignments(c)[i].member :
        i \in {i \in Direct(c, p) : Direct(c, p) = {i} /\ Assigning(c, Assignments(c)[i].member) = {i}}}

\* memberBindingForParameter.
MembersOf(c, p) == IF Parameter(c, p).property # "none" THEN {Parameter(c, p).property} ELSE ExplicitAssignment(c, p)

Injecting(c) == {p \in ParametersOf(c) : Parameter(c, p).kind = "class" /\ Parameter(c, p).classes # {}}

InjectionsOf(c) ==
    UNION {{[from |-> c, to |-> k, status |-> CallStatus(Parameter(c, p).classes)] : k \in Parameter(c, p).classes} :
        p \in Injecting(c)}

Injections == UNION {InjectionsOf(c) : c \in RecognizedOwners}

TokenDiagnosticsOf(c) ==
    {[code |-> "DI_TOKEN_UNSUPPORTED", class |-> c, of |-> p] :
        p \in {p \in ParametersOf(c) \ Injecting(c) : Parameter(c, p).kind \in {"class", "token"}}}

TokenDiagnostics == UNION {TokenDiagnosticsOf(c) : c \in RecognizedOwners}

BoundMembers(c) == UNION {MembersOf(c, p) : p \in Injecting(c)}

-----------------------------------------------------------------------------
(***************************************************************************)
(* The calls of the methods of an owner that has a bound member.           *)
(***************************************************************************)
SearchedSites ==
    {s \in codebase.sites : s.class \in RecognizedOwners /\ BoundMembers(s.class) # {} /\ s.nested # "function"}

\* A call on this counts when the method is declared in this very class.
LocalTargets(s) == {t \in Lookup(s.class, s.name) : t.class = s.class}
MemberTargets(c, m, name) == Lookup(Class(c).members[m], name)

Calls(s, targets, rule) ==
    {[from |-> <<s.class, s.method>>, to |-> <<t.class, t.name, t.overload>>, rule |-> rule, status |-> CallStatus(targets)] :
        t \in targets}

\* Wrong: whatever the method does with its parameter.
ForwardedAnyway(s) ==
    IF /\ s.member = "this" /\ s.callback # NoCallback /\ s.callback.member \in BoundMembers(s.class)
       /\ LocalTargets(s) # {}
    THEN MemberTargets(s.class, s.callback.member, s.callback.name)
    ELSE {}

\* A callback is forwarded to a method that calls its parameter itself.
Forwarded(s) ==
    IF /\ s.member = "this" /\ s.callback # NoCallback /\ s.callback.member \in BoundMembers(s.class)
       /\ LocalTargets(s) # {} /\ Class(s.class).invokes[s.name] = "calls"
    THEN MemberTargets(s.class, s.callback.member, s.callback.name)
    ELSE {}

OnMembers == {s \in SearchedSites : s.member \in BoundMembers(s.class)}
OnThis == {s \in SearchedSites : s.member = "this"}

CallsOnThis ==
    UNION {Calls(s, LocalTargets(s), "same_class") \cup Calls(s, Forwarded(s), "bound_callback") : s \in OnThis}
CallsOnMembers == UNION {Calls(s, MemberTargets(s.class, s.member, s.name), "injected_member") : s \in OnMembers}
CallsOfSites == CallsOnThis \cup CallsOnMembers

\* What the inter-method provenance walks over: no forwarded callbacks.
Observed(s, targets) == {[at |-> s.at, to |-> <<t.class, t.name, t.overload>>, status |-> CallStatus(targets)] : t \in targets}
Observations ==
    (UNION {Observed(s, LocalTargets(s)) : s \in OnThis})
    \cup UNION {Observed(s, MemberTargets(s.class, s.member, s.name)) : s \in OnMembers}

TargetDiagnostics ==
    {[code |-> "CALL_TARGET_UNRESOLVED", class |-> s.class, of |-> s.at] :
        s \in {s \in OnMembers : MemberTargets(s.class, s.member, s.name) = {}}}

ExtractCalls ==
    /\ callFacts' = [injections |-> MergedCalls(Injections), calls |-> MergedCalls(CallsOfSites),
                     observations |-> Observations, diagnostics |-> TokenDiagnostics \cup TargetDiagnostics]
    /\ UNCHANGED codebase

-----------------------------------------------------------------------------
(***************************************************************************)
(* Executing the calls: a member holds what the constructor left in it, an *)
(* object of a class of the parameter's type or of one that extends it,    *)
(* however far; "this" is of the class or of one that extends it.          *)
(***************************************************************************)
Bases(c) ==
    LET bases[k \in Classes \cup {"none"}] == IF k = "none" THEN {} ELSE {k} \cup bases[Class(k).extends]
    IN  bases[c]

Extending(k) == {c \in Classes : k \in Bases(c)}
ObjectsOfClass(k) == {c \in Extending(k) : ~Class(c).abstract}

\* The values a member may have after the constructor: an assignment inside
\* a statement may be skipped.
LastAssignments(c, m) ==
    {i \in Assigning(c, m) : \A j \in Assigning(c, m) : j > i => ~Assignments(c)[j].direct}

Holding(c, m) ==
    {Assignments(c)[i].parameter : i \in LastAssignments(c, m)}
    \cup IF \E i \in Assigning(c, m) : Assignments(c)[i].direct THEN {}
         ELSE {p \in ParametersOf(c) : Parameter(c, p).property = m}

ClassesHeld(c, m) ==
    (UNION {Parameter(c, p).classes : p \in Holding(c, m) \ {"other"}})
    \cup IF "other" \in Holding(c, m) THEN {Class(c).members[m]} \ {"none"} ELSE {}

Objects(c, m) == UNION {ObjectsOfClass(k) : k \in ClassesHeld(c, m)}

Implementation(c, name) == {<<t.class, t.name>> : t \in Lookup(c, name)}

Executed(s, static, object, name) ==
    {[site |-> s, static |-> static, target |-> t] : t \in Implementation(object, name)}

OnMember(s) == UNION {Executed(s, Class(s.class).members[s.member], o, s.name) : o \in Objects(s.class, s.member)}
OnItself(s) == UNION {Executed(s, s.class, o, s.name) : o \in ObjectsOfClass(s.class)}
ByCallback(s) ==
    UNION {Executed(s, Class(s.class).members[s.callback.member], o, s.callback.name) :
        o \in Objects(s.class, s.callback.member)}

CallsBack(s) == s.callback # NoCallback /\ \E t \in Lookup(s.class, s.name) : Class(t.class).invokes[s.name] # "no"

ExecutedAt(s) ==
    IF s.member # "this" THEN OnMember(s)
    ELSE OnItself(s) \cup (IF CallsBack(s) THEN ByCallback(s) ELSE {})

ExecutedCalls == UNION {ExecutedAt(s) : s \in codebase.sites}

-----------------------------------------------------------------------------
(***************************************************************************)
(* What the extractor is known not to see.                                 *)
(***************************************************************************)
\* A call of a class without an injected member is not looked at, not even
\* one on this.
NothingInjected(s) == BoundMembers(s.class) = {}

IsCallback(x) == x.site.callback # NoCallback /\ x.target[2] = x.site.callback.name

\* A method of a base class, called on this.
Inherited(x) == x.site.member = "this" /\ LocalTargets(x.site) = {}

\* The object is of another class than the receiver is declared with.
Dispatched(x) == x.target \notin Implementation(x.static, x.target[2]) /\ Implementation(x.static, x.target[2]) # {}

\* A wrapper that does not call the callback itself, or is not from this class.
Unforwarded(x) == IsCallback(x) /\ Forwarded(x.site) = {}

\* A member the constructor binds in no simple way, or with a custom
\* repository that is a class of this repository: only tokens are reported.
UnboundMember(c, m) ==
    m \notin BoundMembers(c) /\ \A p \in Holding(c, m) \ {"other"} : Parameter(c, p).kind # "token"

UnseenCall(x) ==
    \/ x.site.class \notin RecognizedOwners \/ NothingInjected(x.site) \/ x.site.nested = "function"
    \/ Inherited(x) \/ Dispatched(x) \/ Unforwarded(x)
    \/ x.site.member # "this" /\ UnboundMember(x.site.class, x.site.member)

PublishedCall(x) ==
    \E f \in callFacts.calls : f.from = <<x.site.class, x.site.method>> /\ <<f.to[1], f.to[2]>> = x.target

DiagnosedCall(x) ==
    \/ [code |-> "CALL_TARGET_UNRESOLVED", class |-> x.site.class, of |-> x.site.at] \in callFacts.diagnostics
    \/ \E p \in Holding(x.site.class, x.site.member) :
          [code |-> "DI_TOKEN_UNSUPPORTED", class |-> x.site.class, of |-> p] \in callFacts.diagnostics

\* A member is declared with a class its object only extends.
DeclaredWider(c, name) == \E x \in ExecutedCalls : x.site.class = c /\ Dispatched(x) /\ x.target[2] = name

\* At the call there is no object with such a method: the class is abstract
\* and nothing in the repository extends it, or the object has a function in
\* a property instead.
CalledName(s, rule) == IF rule = "bound_callback" THEN s.callback.name ELSE s.name
Receivers(s, rule) ==
    IF rule = "same_class" THEN ObjectsOfClass(s.class)
    ELSE Objects(s.class, IF rule = "injected_member" THEN s.member ELSE s.callback.member)

NoReceiver(f) ==
    \E s \in codebase.sites :
        /\ f.from = <<s.class, s.method>> /\ f.to[2] = CalledName(s, f.rule)
        /\ f.rule = "injected_member" <=> s.member # "this"
        /\ \A o \in Receivers(s, f.rule) : Lookup(o, f.to[2]) = {}

(***************************************************************************)
(* Every call a method may make on an injected member or on itself is      *)
(* recorded, or has a diagnostic, up to what is named above; and a call    *)
(* that is recorded as resolved is made, in some execution.                *)
(***************************************************************************)
CallsAreReal(extracted) == extracted =>
    /\ \A x \in ExecutedCalls : PublishedCall(x) \/ DiagnosedCall(x) \/ UnseenCall(x)
    /\ \A f \in {f \in callFacts.calls : f.status = "resolved"} :
          \/ \E x \in ExecutedCalls : <<x.site.class, x.site.method>> = f.from /\ x.target = <<f.to[1], f.to[2]>>
          \/ DeclaredWider(f.from[1], f.to[2]) \/ NoReceiver(f)

=============================================================================
