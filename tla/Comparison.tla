------------------------------ MODULE Comparison ------------------------------
(***************************************************************************)
(* compareAnalysisDocuments (src/src/comparison): the diff of two analysis *)
(* documents. Canonical ids mean nothing across documents, so records are  *)
(* matched by semantic keys; records that share a key are reported as an   *)
(* ambiguity with their ids and are not matched. Endpoints are matched     *)
(* twice: by exact key (route and handler), then by what is left of each   *)
(* route slot. The diff is validated before it is returned.                *)
(*                                                                         *)
(* A document has a schema version, endpoints and records:                 *)
(*   endpoint  [id, route, handlers, facts], where a handler is            *)
(*             [method |-> the ids of at most one method, status] and      *)
(*             facts stands for guards, terminals, authorization and       *)
(*             resource accesses;                                          *)
(*   record    [id, kind, parent, own, place, state, rule], where parent   *)
(*             is the record it belongs to, own its own part of the key,   *)
(*             place its evidence locations, and state what can change     *)
(*             (status, severity, registration state, activation...).      *)
(* Ids and keys are tuples of strings. Order in the diff is layout.        *)
(***************************************************************************)
EXTENDS Naturals, Sequences

CONSTANT Families   \* the families of documents that are compared with each other

Sides == {"before", "after"}

\* The endpoints of the documents a family has on one side.
EndpointsOf(family, side) == UNION {d.endpoints : d \in family[side]}

\* Canonical documents: ids are unique, and the id of an endpoint is a hash of
\* its revision, route and method (evidence/validate.ts, makeEndpointId).
ASSUME FamiliesAssumption ==
    \A f \in Families :
        /\ \A side \in Sides : \A d \in f[side] :
            /\ \A x, y \in d.endpoints : x.id = y.id => x = y
            /\ \A r, q \in d.records : r.kind = q.kind /\ r.id = q.id => r = q
        /\ \A x \in EndpointsOf(f, "before"), y \in EndpointsOf(f, "after") :
                x.id = y.id => x.route = y.route

VARIABLES
    docs,         \* the two documents
    phase,        \* the next pass of the comparison, or its outcome
    blocked,      \* blockedEndpointIds: one set for the ids of both documents
    matched,      \* the matched pairs of endpoints
    ambiguities,  \* ambiguityByKey
    changes       \* the change lists of the diff, together

vars == <<docs, phase, blocked, matched, ambiguities, changes>>

Outcomes == {"done", "rejected"}
Phases == {"collisions", "slots", "before", "after", "exact", "routes",
           "endpoints", "facts", "validate"} \cup Outcomes

BranchKinds == {"interaction_handler_dispatch", "interaction_handler_branch",
                "interaction_handler_branch_effect"}
InteractionKinds == {"interaction", "interaction_handler"}
ComparedKinds == {"assertion", "diagnostic"} \cup InteractionKinds \cup BranchKinds

\* The first schema version that has a kind of records.
Since(kind) ==
    IF kind \in BranchKinds THEN 4 ELSE IF kind \in InteractionKinds THEN 3 ELSE 1

Several(S) == \E x, y \in S : x # y

-----------------------------------------------------------------------------
(***************************************************************************)
(* buildAnalysisSemanticProjection: keys, collisions, endpoint identity.   *)
(***************************************************************************)
InteractionKey(r) == <<r.own, r.state, r.place>>
HandlerKey(r) == <<r.own, r.state>>
DispatchKey(r) == Append(HandlerKey(r.parent), r.rule)
BranchKey(r) == Append(DispatchKey(r.parent), r.own)
EffectKey(r) == Append(BranchKey(r.parent), r.own)
AssertionKey(r) == <<r.own, r.rule>>
DiagnosticKey(r) == <<r.own, r.place>>

\* The key a record is registered under.
RegisteredKey(r) ==
    CASE r.kind = "interaction" -> InteractionKey(r)
      [] r.kind = "interaction_handler" -> HandlerKey(r)
      [] r.kind = "interaction_handler_dispatch" -> DispatchKey(r)
      [] r.kind = "interaction_handler_branch" -> BranchKey(r)
      [] r.kind = "interaction_handler_branch_effect" -> EffectKey(r)
      [] r.kind = "assertion" -> AssertionKey(r)
      [] r.kind = "diagnostic" -> DiagnosticKey(r)
      [] OTHER -> <<r.own>>

\* The key a record is compared by: interactions and handlers have another.
ComparedKey(r) == IF r.kind \in InteractionKinds THEN <<r.own>> ELSE RegisteredKey(r)

Colliding(side, r) ==
    {q \in docs[side].records : q.kind = r.kind /\ RegisteredKey(q) = RegisteredKey(r)}

Methods(side, h) ==
    {r \in docs[side].records : r.kind = "method" /\ r.id \in h.method}

MethodKeys(side, h) == {RegisteredKey(r) : r \in Methods(side, h)}

IdentityStatus(side, e) ==
    IF \/ Several(e.handlers)
       \/ \E h \in e.handlers :
            \/ h.status = "ambiguous"
            \/ \E r \in Methods(side, h) : Several(Colliding(side, r))
    THEN "ambiguous"
    ELSE IF \E h \in e.handlers : h.status = "resolved" /\ MethodKeys(side, h) # {}
         THEN "resolved" ELSE "unresolved"

\* What a handler contributes to the comparison of two matched endpoints.
HandlerProjection(side, e) == {<<MethodKeys(side, h), h.status>> : h \in e.handlers}

ExactKey(side, e) == <<e.route, UNION {MethodKeys(side, h) : h \in e.handlers}>>

-----------------------------------------------------------------------------
(***************************************************************************)
(* addAmbiguity: what is reported under one identity is merged.            *)
(***************************************************************************)
Identity(a) == <<a.kind, a.of, a.key>>

\* Wrong: the sides are merged and the candidates overwritten.
MergedKeepsLast(same, a) == [a EXCEPT !.sides = UNION {x.sides : x \in same}]

Merged(same, a) ==
    [kind |-> a.kind, of |-> a.of, key |-> a.key,
     sides |-> UNION {x.sides : x \in same},
     candidates |-> [s \in Sides |-> UNION {x.candidates[s] : x \in same}]]

AddAmbiguities(index, new) ==
    {Merged({x \in index \cup new : Identity(x) = Identity(a)}, a) : a \in index \cup new}

\* The ambiguity of a key under which each side has a group of records.
GroupAmbiguity(kind, of, key, group) ==
    [kind |-> kind, of |-> of, key |-> key,
     sides |-> {s \in Sides : Several(group[s])},
     candidates |-> [s \in Sides |-> {x.id : x \in group[s]}]]

AmbiguityOfOne(kind, of, key, side, ids) ==
    [kind |-> kind, of |-> of, key |-> key, sides |-> {side},
     candidates |-> [s \in Sides |-> IF s = side THEN ids ELSE {}]]

-----------------------------------------------------------------------------
(***************************************************************************)
(* The passes.                                                             *)
(***************************************************************************)
\* addProjectionCollisions: three kinds are left to their own comparison.
ReportCollisions ==
    /\ phase = "collisions"
    /\ phase' = "slots"
    /\ ambiguities' = AddAmbiguities(ambiguities,
            UNION {{AmbiguityOfOne("semantic_key", r.kind, RegisteredKey(r), side,
                                   {q.id : q \in Colliding(side, r)}) :
                        r \in {r \in docs[side].records :
                                    /\ r.kind \notin {"assertion", "diagnostic"}
                                    /\ Several(Colliding(side, r))}} :
                   side \in Sides})
    /\ UNCHANGED <<docs, blocked, matched, changes>>

Slot(side, route) == {e \in docs[side].endpoints : e.route = route}

SlotGroup(route) == [side \in Sides |-> Slot(side, route)]

\* Wrong: only the earlier document is looked at.
ContestedBefore(route) == Several(Slot("before", route))

Contested(route) == \E side \in Sides : Several(Slot(side, route))

Endpoints == UNION {docs[side].endpoints : side \in Sides}

CheckSlots ==
    /\ phase = "slots"
    /\ phase' = "before"
    /\ blocked' = {e.id : e \in {e \in Endpoints : Contested(e.route)}}
    /\ ambiguities' = AddAmbiguities(ambiguities,
            {GroupAmbiguity("endpoint_route_slot", "endpoint", <<e.route>>, SlotGroup(e.route)) :
                e \in {e \in Endpoints : Contested(e.route)}})
    /\ UNCHANGED <<docs, matched, changes>>

\* The endpoints of one document whose identity is ambiguous.
CheckIdentities(side) ==
    LET ambiguous == {e \in docs[side].endpoints :
                        IdentityStatus(side, e) = "ambiguous" /\ e.id \notin blocked}
    IN
    /\ phase = side
    /\ phase' = IF side = "before" THEN "after" ELSE "exact"
    /\ blocked' = blocked \cup {e.id : e \in ambiguous}
    /\ ambiguities' = AddAmbiguities(ambiguities,
            {AmbiguityOfOne("endpoint_exact_key", "endpoint", <<e.route>>, side, {e.id}) :
                e \in ambiguous})
    /\ UNCHANGED <<docs, matched, changes>>

Available(side) == {e \in docs[side].endpoints : e.id \notin blocked}

\* The available endpoints with the exact key of e, an endpoint of from.
ExactGroup(from, e) ==
    [side \in Sides |-> {x \in Available(side) :
        IdentityStatus(side, x) = "resolved" /\ ExactKey(side, x) = ExactKey(from, e)}]

ContestedKey(from, e) == \E s \in Sides : Several(ExactGroup(from, e)[s])

Exact(side) == {e \in Available(side) : IdentityStatus(side, e) = "resolved"}

MatchExact ==
    LET contested(side) == {e \in Exact(side) : ContestedKey(side, e)}
    IN
    /\ phase = "exact"
    /\ phase' = "routes"
    /\ blocked' = blocked \cup UNION {{e.id : e \in contested(side)} : side \in Sides}
    /\ ambiguities' = AddAmbiguities(ambiguities,
            UNION {{GroupAmbiguity("endpoint_exact_key", "endpoint", ExactKey(side, e),
                                   ExactGroup(side, e)) : e \in contested(side)} :
                   side \in Sides})
    /\ matched' = {p \in Exact("before") \X Exact("after") :
                    /\ ExactKey("before", p[1]) = ExactKey("after", p[2])
                    /\ ~ContestedKey("before", p[1])}
    /\ UNCHANGED <<docs, changes>>

\* Wrong: one set of used ids serves both documents.
UsedBefore(side) == {p[1].id : p \in matched}

Used(side) == {IF side = "before" THEN p[1].id ELSE p[2].id : p \in matched}

Remaining(side) == {e \in Available(side) : e.id \notin Used(side)}

RemainingIn(side, route) == {e \in Remaining(side) : e.route = route}

MatchRoutes ==
    /\ phase = "routes"
    /\ phase' = "endpoints"
    /\ matched' = matched \cup {p \in Remaining("before") \X Remaining("after") :
                    /\ p[1].route = p[2].route
                    /\ \A side \in Sides : ~Several(RemainingIn(side, p[1].route))}
    /\ UNCHANGED <<docs, blocked, ambiguities, changes>>

-----------------------------------------------------------------------------
(***************************************************************************)
(* The changes. A change names the record of each side by its id.          *)
(***************************************************************************)
Change(of, key, before, after, reasons) ==
    [of |-> of, key |-> key, reasons |-> reasons,
     before |-> {r.id : r \in before}, after |-> {r.id : r \in after},
     change |-> IF before = {} THEN "added" ELSE IF after = {} THEN "removed" ELSE "modified"]

EndpointReasons(b, a) ==
    (IF /\ IdentityStatus("before", b) = IdentityStatus("after", a)
        /\ HandlerProjection("before", b) = HandlerProjection("after", a)
     THEN {} ELSE {"handler"})
    \cup (IF b.facts = a.facts THEN {} ELSE {"facts"})

Unused(side) == {e \in docs[side].endpoints : e.id \notin Used(side)}

CompareEndpoints ==
    /\ phase = "endpoints"
    /\ phase' = "facts"
    /\ changes' =
            {Change("endpoint", <<p[1].route>>, {p[1]}, {p[2]}, EndpointReasons(p[1], p[2])) :
                p \in {p \in matched : EndpointReasons(p[1], p[2]) # {}}}
            \cup {Change("endpoint", <<e.route>>, {e}, {}, {"endpoint_removed"}) :
                    e \in Unused("before")}
            \cup {Change("endpoint", <<e.route>>, {}, {e}, {"endpoint_added"}) :
                    e \in Unused("after")}
    /\ UNCHANGED <<docs, blocked, matched, ambiguities>>

\* modifiedReasons: a branch has no state of its own, an assertion and a
\* diagnostic no rule that is not in their key.
Detail(r) ==
    <<IF r.kind = "interaction_handler_branch" THEN "" ELSE r.state,
      IF r.kind \in {"assertion", "diagnostic"} THEN "" ELSE r.rule>>

FactGroup(kind, key) ==
    [side \in Sides |-> {r \in docs[side].records : r.kind = kind /\ ComparedKey(r) = key}]

Keys(kind) ==
    UNION {{ComparedKey(r) : r \in {r \in docs[side].records : r.kind = kind}} : side \in Sides}

\* Wrong: only the earlier document is looked at.
ContestedFactBefore(kind, key) == Several(FactGroup(kind, key)["before"])

ContestedFact(kind, key) == \E side \in Sides : Several(FactGroup(kind, key)[side])

\* Wrong: a change of rule is not compared.
FactReasonsOfState(before, after) ==
    IF before = {} THEN {"record_added"} ELSE IF after = {} THEN {"record_removed"}
    ELSE {"state" : r \in {r \in before \X after : Detail(r[1])[1] # Detail(r[2])[1]}}

FactReasons(before, after) ==
    IF before = {} THEN {"record_added"} ELSE IF after = {} THEN {"record_removed"}
    ELSE UNION {{<<"state", "rule">>[i] : i \in {i \in 1..2 : Detail(b)[i] # Detail(a)[i]}} :
                    b \in before, a \in after}

\* Of an assertion only the status of a pair is compared.
FactChanges(kind, key) ==
    LET before == FactGroup(kind, key)["before"]
        after == FactGroup(kind, key)["after"]
    IN  IF \/ FactReasons(before, after) = {}
           \/ kind = "assertion" /\ (before = {} \/ after = {})
        THEN {} ELSE {Change(kind, key, before, after, FactReasons(before, after))}

AmbiguityKind(kind) ==
    CASE kind = "assertion" -> "assertion_key"
      [] kind = "diagnostic" -> "diagnostic_key"
      [] OTHER -> "semantic_key"

CompareFacts ==
    /\ phase = "facts"
    /\ phase' = "validate"
    /\ ambiguities' = AddAmbiguities(ambiguities,
            UNION {{GroupAmbiguity(AmbiguityKind(kind), kind, key, FactGroup(kind, key)) :
                        key \in {key \in Keys(kind) : ContestedFact(kind, key)}} :
                   kind \in ComparedKinds})
    /\ changes' = changes \cup
            UNION {UNION {FactChanges(kind, key) :
                        key \in {key \in Keys(kind) : ~ContestedFact(kind, key)}} :
                   kind \in ComparedKinds}
    /\ UNCHANGED <<docs, blocked, matched>>

\* validateDiffDocument: the shape of changes and ambiguities, no duplicates.
KeepsItsKey(c) ==
    \A side \in Sides :
        IF c.of = "endpoint"
        THEN \A e \in docs[side].endpoints : e.id \in c[side] => <<e.route>> = c.key
        ELSE \A r \in docs[side].records :
                r.kind = c.of /\ r.id \in c[side] => ComparedKey(r) = c.key

SameChange(c, d) ==
    /\ c.of = d.of /\ c.change = d.change /\ c.key = d.key
    /\ c.of = "endpoint" => c.before = d.before /\ c.after = d.after

ValidDiff ==
    /\ \A c \in changes :
        /\ c.change = "added" <=> c.before = {}
        /\ c.change = "removed" <=> c.after = {}
        /\ KeepsItsKey(c)
        /\ \A d \in changes : SameChange(c, d) => c = d
    /\ \A a \in ambiguities :
        /\ a.sides # {}
        /\ \A side \in a.sides : a.candidates[side] # {}
        /\ \A b \in ambiguities : Identity(a) = Identity(b) => a = b

Validate ==
    /\ phase = "validate"
    /\ phase' = IF ValidDiff THEN "done" ELSE "rejected"
    /\ UNCHANGED <<docs, blocked, matched, ambiguities, changes>>

-----------------------------------------------------------------------------
Init ==
    /\ \E f \in Families : \E b \in f["before"], a \in f["after"] :
            docs = [before |-> b, after |-> a]
    /\ phase = "collisions"
    /\ blocked = {} /\ matched = {} /\ ambiguities = {} /\ changes = {}

Next ==
    \/ ReportCollisions
    \/ CheckSlots
    \/ \E side \in Sides : CheckIdentities(side)
    \/ MatchExact
    \/ MatchRoutes
    \/ CompareEndpoints
    \/ CompareFacts
    \/ Validate

Spec == Init /\ [][Next]_vars

-----------------------------------------------------------------------------
(***************************************************************************)
(* Properties.                                                             *)
(***************************************************************************)
\* The variables have their types: matched pairs join endpoints of the two
\* documents that no pass has blocked, blocked ids are ids of endpoints, and
\* nothing is a change before its pass.
TypeOK ==
    /\ \E f \in Families : \A side \in Sides : docs[side] \in f[side]
    /\ phase \in Phases
    /\ blocked \subseteq {e.id : e \in Endpoints}
    /\ matched \subseteq docs["before"].endpoints \X docs["after"].endpoints
    /\ \A p \in matched : p[1].id \notin blocked /\ p[2].id \notin blocked
    /\ \A a \in ambiguities : a.sides \in SUBSET Sides
    /\ phase \in {"collisions", "slots", "before", "after", "exact"} => matched = {}
    /\ phase \in {"exact", "routes", "endpoints"} => changes = {}

Sole(side, e) == Slot(side, e.route) = {e}

Clear(side, e) == IdentityStatus(side, e) # "ambiguous"

Counterparts ==
    {p \in docs["before"].endpoints \X docs["after"].endpoints :
        /\ p[1].route = p[2].route
        /\ Sole("before", p[1]) /\ Sole("after", p[2])
        /\ Clear("before", p[1]) /\ Clear("after", p[2])}

\* Two endpoints are matched exactly when each is alone in the same route slot
\* of its document and neither has an ambiguous identity: what the two passes
\* with the shared set of blocked ids come to, whatever ids the documents share
\* (docs/comparison.md, "Identity and matching").
MatchedAreTheSoleOnes ==
    phase \in {"endpoints", "facts", "validate", "done"} => matched = Counterparts

\* No exact key is ever contested: the branch of MatchExact that reports one
\* never runs, because such endpoints share a route slot and are blocked before.
ExactKeysAreNeverContested ==
    phase = "exact" => \A side \in Sides : \A e \in Exact(side) : ~ContestedKey(side, e)

OtherSide(side) == IF side = "before" THEN "after" ELSE "before"

\* An endpoint is reported as added or removed only if the other document has
\* nothing in its route slot or the slot is reported as ambiguous; any other
\* endpoint is in exactly one matched pair.
EveryEndpointIsAccountedFor ==
    phase = "done" =>
        \A side \in Sides : \A e \in docs[side].endpoints :
            IF \E c \in changes : c.of = "endpoint" /\ c.change # "modified" /\ e.id \in c[side]
            THEN \/ Slot(OtherSide(side), e.route) = {}
                 \/ \E a \in ambiguities : a.of = "endpoint" /\ a.key = <<e.route>>
            ELSE \E p \in matched : e \in {p[1], p[2]} /\ \A q \in matched :
                    p[1].route = q[1].route => p = q

\* What a reader of the diff sees of the records of a kind: no ids.
View(side, kind) ==
    {<<ComparedKey(r), Detail(r)>> : r \in {r \in docs[side].records : r.kind = kind}}

Reported(side, kind) ==
    {<<ComparedKey(r), Detail(r)>> :
        r \in {r \in docs[side].records : r.kind = kind /\
                  \E c \in changes : c.of = kind /\ r.id \in c[side]}}

AmbiguousKeys(kind) == {a.key : a \in {a \in ambiguities : a.of = kind}}

Settled(kind, view) == {v \in view : v[1] \notin AmbiguousKeys(kind)}

\* Taking what the diff removes or modifies from the earlier document and adding
\* what it adds or modifies gives the later one, for every key that is not
\* ambiguous (assertions are not reported when they appear or disappear).
DiffReproducesTheLaterDocument ==
    phase = "done" =>
        \A kind \in ComparedKinds \ {"assertion"} :
            Settled(kind, (View("before", kind) \ Reported("before", kind))
                            \cup Reported("after", kind))
            = Settled(kind, View("after", kind))

\* A record that shares its key with another of its document is a candidate of
\* an ambiguity on its side, and is in no change (docs/comparison.md:58-59).
SharedKeysAreNeverResolved ==
    phase = "done" =>
        \A side \in Sides : \A r, q \in docs[side].records :
            r # q /\ r.kind = q.kind /\ r.kind \in ComparedKinds /\ ComparedKey(r) = ComparedKey(q)
            => /\ \E a \in ambiguities :
                    a.of = r.kind /\ side \in a.sides /\ {r.id, q.id} \subseteq a.candidates[side]
               /\ \A c \in changes : c.of = r.kind => r.id \notin c[side]

\* The validation at the end never rejects a diff the comparison has built.
DiffIsValid == phase # "rejected"

\* docs/comparison.md:92-93: the diff "never treats unavailable as an empty
\* proven set". A record of a kind the schema of the earlier document does not
\* have is nevertheless reported as added.
UnavailableIsNotEmpty ==
    phase = "done" =>
        \A c \in changes : c.change = "added" => docs["before"].version >= Since(c.of)

=============================================================================
