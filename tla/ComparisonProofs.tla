--------------------------- MODULE ComparisonProofs ---------------------------
(***************************************************************************)
(* The comparison, for any documents. First the matching of endpoints: the *)
(* two passes over a shared set of blocked ids match exactly the endpoints *)
(* that are alone in their slot on both sides and whose identities are not *)
(* ambiguous. Then the records of the fact families: those that share a key*)
(* stay ambiguous, the other changes lead from one document to the other,  *)
(* and the diff passes its own validation.                                 *)
(***************************************************************************)
EXTENDS Comparison, TLAPS

\* What canonical documents guarantee about the two that are compared.
Canonical ==
    /\ \A side \in Sides : \A x, y \in docs[side].endpoints : x.id = y.id => x = y
    /\ \A x \in docs["before"].endpoints, y \in docs["after"].endpoints :
            x.id = y.id => x.route = y.route

ContestedIds == {e.id : e \in {e \in Endpoints : Contested(e.route)}}

AmbiguousIds(side) ==
    {e.id : e \in {e \in docs[side].endpoints : IdentityStatus(side, e) = "ambiguous"}}

AllBlocked == ContestedIds \cup AmbiguousIds("before") \cup AmbiguousIds("after")

ExactPair(p) ==
    /\ IdentityStatus("before", p[1]) = "resolved"
    /\ IdentityStatus("after", p[2]) = "resolved"
    /\ ExactKey("before", p[1]) = ExactKey("after", p[2])

ExactPairs == {p \in Counterparts : ExactPair(p)}

\* The blocked ids and the matched pairs, pass by pass.
BlockedSoFar ==
    /\ phase \in {"collisions", "slots"} => blocked = {}
    /\ phase = "before" => blocked = ContestedIds
    /\ phase = "after" => blocked = ContestedIds \cup AmbiguousIds("before")
    /\ phase \in {"exact", "routes", "endpoints", "facts", "validate", "done", "rejected"}
            => blocked = AllBlocked

MatchedSoFar ==
    /\ phase \in {"collisions", "slots", "before", "after", "exact"} => matched = {}
    /\ phase = "routes" => matched = ExactPairs
    /\ phase \in {"endpoints", "facts", "validate", "done", "rejected"}
            => matched = Counterparts

FromOneFamily == \E f \in Families : \A side \in Sides : docs[side] \in f[side]

SidesOfAmbiguities == \A a \in ambiguities : a.sides \in SUBSET Sides

NoChangesYet ==
    phase \in {"collisions", "slots", "before", "after", "exact", "routes", "endpoints"}
        => changes = {}

IInv ==
    /\ phase \in Phases
    /\ FromOneFamily
    /\ Canonical
    /\ BlockedSoFar
    /\ MatchedSoFar

\* What the other variables hold.
ReportInv == SidesOfAmbiguities /\ NoChangesYet

-----------------------------------------------------------------------------
\* The sets the invariant speaks of depend on the documents alone.
LEMMA DocumentsDecide ==
    ASSUME docs' = docs
    PROVE  /\ Canonical' = Canonical
           /\ FromOneFamily' = FromOneFamily
           /\ ContestedIds' = ContestedIds
           /\ \A side : AmbiguousIds(side)' = AmbiguousIds(side)
           /\ AllBlocked' = AllBlocked
           /\ Counterparts' = Counterparts
           /\ ExactPairs' = ExactPairs
<1>1. Canonical' = Canonical /\ FromOneFamily' = FromOneFamily
  BY DEF Canonical, FromOneFamily
<1>2. ContestedIds' = ContestedIds
  BY DEF ContestedIds, Endpoints, Contested, Slot
<1>3. \A side, e : IdentityStatus(side, e)' = IdentityStatus(side, e)
  BY DEF IdentityStatus, Methods, Colliding, MethodKeys
<1>4. \A side : AmbiguousIds(side)' = AmbiguousIds(side)
  BY <1>3 DEF AmbiguousIds
<1>5. AllBlocked' = AllBlocked
  BY <1>2, <1>4 DEF AllBlocked
<1>6. Counterparts' = Counterparts
  BY <1>3 DEF Counterparts, Sole, Clear, Slot
<1>7. \A side, e : ExactKey(side, e)' = ExactKey(side, e)
  BY DEF ExactKey, MethodKeys, Methods
<1>8. ExactPairs' = ExactPairs
  BY <1>3, <1>6, <1>7 DEF ExactPairs, ExactPair
<1> QED
  BY <1>1, <1>2, <1>4, <1>5, <1>6, <1>8

\* An endpoint no pass has blocked is alone in its slot, and clear.
LEMMA AvailableIsSole ==
    ASSUME blocked = AllBlocked, NEW side \in Sides, NEW e \in Available(side)
    PROVE  Sole(side, e) /\ Clear(side, e) /\ ~Contested(e.route)
<1>1. e \in docs[side].endpoints /\ e.id \notin blocked
  BY DEF Available
<1>2. e \in Endpoints
  BY <1>1 DEF Endpoints
<1>3. ~Contested(e.route)
  BY <1>1, <1>2 DEF AllBlocked, ContestedIds
<1>4. Sole(side, e)
  BY <1>1, <1>3 DEF Contested, Several, Sole, Slot
<1>5. Clear(side, e)
  BY <1>1 DEF Sides, AllBlocked, AmbiguousIds, Clear
<1> QED
  BY <1>3, <1>4, <1>5

\* The endpoints of a counterpart pair are blocked by no pass: an endpoint with
\* the same id is in the same slot, so it is one of the two.
LEMMA CounterpartsAreAvailable ==
    ASSUME Canonical, blocked = AllBlocked, NEW p \in Counterparts
    PROVE  p[1] \in Available("before") /\ p[2] \in Available("after")
<1>1. /\ p[1] \in docs["before"].endpoints /\ p[2] \in docs["after"].endpoints
      /\ p[1].route = p[2].route
      /\ Slot("before", p[1].route) = {p[1]} /\ Slot("after", p[1].route) = {p[2]}
      /\ Clear("before", p[1]) /\ Clear("after", p[2])
  BY DEF Counterparts, Sole
<1>2. ASSUME NEW x \in Endpoints, x.id = p[1].id \/ x.id = p[2].id
      PROVE  x.route = p[1].route
  <2>1. CASE x \in docs["before"].endpoints
    BY <1>1, <1>2, <2>1 DEF Canonical, Sides
  <2>2. CASE x \in docs["after"].endpoints
    BY <1>1, <1>2, <2>2 DEF Canonical, Sides
  <2> QED
    BY <2>1, <2>2 DEF Endpoints, Sides
<1>3. ~Contested(p[1].route)
  BY <1>1 DEF Contested, Several, Sides
<1>4. p[1].id \notin ContestedIds /\ p[2].id \notin ContestedIds
  BY <1>2, <1>3 DEF ContestedIds
<1>5. ASSUME NEW side \in Sides, NEW x \in docs[side].endpoints,
             x.id = p[1].id \/ x.id = p[2].id
      PROVE  IdentityStatus(side, x) # "ambiguous"
  <2>1. x.route = p[1].route
    BY <1>2, <1>5 DEF Endpoints
  <2>2. x \in Slot(side, p[1].route)
    BY <2>1 DEF Slot
  <2>3. CASE side = "before"
    BY <1>1, <2>2, <2>3 DEF Clear
  <2>4. CASE side = "after"
    BY <1>1, <2>2, <2>4 DEF Clear
  <2> QED
    BY <2>3, <2>4 DEF Sides
<1>6. /\ \A side \in Sides : p[1].id \notin AmbiguousIds(side)
      /\ \A side \in Sides : p[2].id \notin AmbiguousIds(side)
  BY <1>5 DEF AmbiguousIds
<1>7. p[1].id \notin blocked /\ p[2].id \notin blocked
  BY <1>4, <1>6 DEF AllBlocked, Sides
<1> QED
  BY <1>1, <1>7 DEF Available

\* So the available pairs with one route are the counterparts.
LEMMA AvailablePairsAreCounterparts ==
    ASSUME blocked = AllBlocked,
           NEW b \in Available("before"), NEW a \in Available("after"), b.route = a.route
    PROVE  <<b, a>> \in Counterparts
<1>1. Sole("before", b) /\ Clear("before", b) /\ Sole("after", a) /\ Clear("after", a)
  BY AvailableIsSole DEF Sides
<1>2. b \in docs["before"].endpoints /\ a \in docs["after"].endpoints
  BY DEF Available
<1> QED
  BY <1>1, <1>2 DEF Counterparts

\* No available endpoint shares its exact key with another of its document.
LEMMA NoContestedKeys ==
    ASSUME blocked = AllBlocked, NEW from \in Sides, NEW e \in Exact(from)
    PROVE  ~ContestedKey(from, e)
<1> SUFFICES ASSUME NEW side \in Sides,
                    NEW x \in ExactGroup(from, e)[side], NEW y \in ExactGroup(from, e)[side]
             PROVE  x = y
  BY DEF ContestedKey, Several
<1>1. /\ x \in Available(side) /\ y \in Available(side)
      /\ ExactKey(side, x) = ExactKey(from, e) /\ ExactKey(side, y) = ExactKey(from, e)
  BY DEF ExactGroup
<1>2. x.route = y.route
  BY <1>1 DEF ExactKey
<1>3. Sole(side, x) /\ Sole(side, y)
  BY <1>1, AvailableIsSole
<1> QED
  BY <1>2, <1>3 DEF Sole

-----------------------------------------------------------------------------
\* Merging ambiguities keeps their sides among the two.
LEMMA MergingKeepsSides ==
    ASSUME NEW index, NEW new,
           \A a \in index \cup new : a.sides \in SUBSET Sides
    PROVE  \A a \in AddAmbiguities(index, new) : a.sides \in SUBSET Sides
<1> TAKE m \in AddAmbiguities(index, new)
<1>1. PICK a \in index \cup new :
            m = Merged({x \in index \cup new : Identity(x) = Identity(a)}, a)
  BY DEF AddAmbiguities
<1> DEFINE same == {x \in index \cup new : Identity(x) = Identity(a)}
<1>2. UNION {x.sides : x \in same} \in SUBSET Sides
  OBVIOUS
<1>3. m.sides = UNION {x.sides : x \in same}
  BY <1>1 DEF Merged
<1> QED
  BY <1>2, <1>3

LEMMA ReportsKeepSides ==
    ASSUME SidesOfAmbiguities, NEW new, \A a \in new : a.sides \in SUBSET Sides,
           ambiguities' = AddAmbiguities(ambiguities, new)
    PROVE  SidesOfAmbiguities'
BY MergingKeepsSides DEF SidesOfAmbiguities

LEMMA MatchExactFinds ==
    ASSUME Canonical, blocked = AllBlocked, MatchExact
    PROVE  blocked' = blocked /\ matched' = ExactPairs
<1>1. \A side \in Sides : \A e \in Exact(side) : ~ContestedKey(side, e)
  BY NoContestedKeys
<1>2. blocked' = blocked
  BY <1>1 DEF MatchExact
<1>3. ASSUME NEW p \in matched'
      PROVE  p \in ExactPairs
  <2>1. /\ p \in Exact("before") \X Exact("after")
        /\ ExactKey("before", p[1]) = ExactKey("after", p[2])
    BY <1>3 DEF MatchExact
  <2>2. p[1] \in Available("before") /\ p[2] \in Available("after") /\ p = <<p[1], p[2]>>
    BY <2>1 DEF Exact
  <2>3. p[1].route = p[2].route
    BY <2>1 DEF ExactKey
  <2>4. p \in Counterparts
    BY <2>2, <2>3, AvailablePairsAreCounterparts
  <2> QED
    BY <2>1, <2>4 DEF ExactPairs, ExactPair, Exact
<1>4. ASSUME NEW p \in ExactPairs
      PROVE  p \in matched'
  <2>1. p \in Counterparts /\ ExactPair(p)
    BY DEF ExactPairs
  <2>2. p[1] \in Available("before") /\ p[2] \in Available("after")
    BY <2>1, CounterpartsAreAvailable
  <2>3. p = <<p[1], p[2]>>
    BY <2>1 DEF Counterparts
  <2>4. p[1] \in Exact("before") /\ p[2] \in Exact("after")
    BY <2>1, <2>2 DEF Exact, ExactPair
  <2> QED
    BY <1>1, <2>1, <2>3, <2>4 DEF MatchExact, ExactPair, Sides
<1> QED
  BY <1>2, <1>3, <1>4

LEMMA MatchRoutesFinds ==
    ASSUME Canonical, blocked = AllBlocked, matched = ExactPairs, MatchRoutes
    PROVE  matched' = Counterparts
<1>1. matched \subseteq Counterparts
  BY DEF ExactPairs
<1>2. ASSUME NEW p \in matched'
      PROVE  p \in Counterparts
  <2>1. CASE p \in matched
    BY <1>1, <2>1
  <2>2. CASE p \notin matched
    <3>1. p \in Remaining("before") \X Remaining("after") /\ p[1].route = p[2].route
      BY <1>2, <2>2 DEF MatchRoutes
    <3>2. p[1] \in Available("before") /\ p[2] \in Available("after") /\ p = <<p[1], p[2]>>
      BY <3>1 DEF Remaining
    <3> QED
      BY <3>1, <3>2, AvailablePairsAreCounterparts
  <2> QED
    BY <2>1, <2>2
<1>3. ASSUME NEW p \in Counterparts, p \notin matched
      PROVE  p \in matched'
  <2>1. /\ p = <<p[1], p[2]>> /\ p[1].route = p[2].route
        /\ p[1] \in docs["before"].endpoints /\ p[2] \in docs["after"].endpoints
        /\ Slot("before", p[1].route) = {p[1]} /\ Slot("after", p[1].route) = {p[2]}
    BY DEF Counterparts, Sole
  <2>2. p[1] \in Available("before") /\ p[2] \in Available("after")
    BY CounterpartsAreAvailable
  <2>3. ASSUME NEW q \in matched, q[1].id = p[1].id \/ q[2].id = p[2].id
        PROVE  FALSE
    <3>1. /\ q = <<q[1], q[2]>> /\ q[1].route = q[2].route
          /\ q[1] \in docs["before"].endpoints /\ q[2] \in docs["after"].endpoints
      BY <1>1 DEF Counterparts
    <3>2. q[1] = p[1] \/ q[2] = p[2]
      BY <2>1, <2>3, <3>1 DEF Canonical, Sides
    <3>3. q[1] \in Slot("before", p[1].route) /\ q[2] \in Slot("after", p[1].route)
      BY <2>1, <3>1, <3>2 DEF Slot
    <3>4. q[1] = p[1] /\ q[2] = p[2]
      BY <2>1, <3>3
    <3> QED
      BY <1>3, <2>1, <3>1, <3>4
  <2>4. p[1].id \notin Used("before") /\ p[2].id \notin Used("after")
    BY <2>3 DEF Used
  <2>5. p[1] \in Remaining("before") /\ p[2] \in Remaining("after")
    BY <2>2, <2>4 DEF Remaining
  <2>6. \A side \in Sides : RemainingIn(side, p[1].route) \subseteq Slot(side, p[1].route)
    BY DEF RemainingIn, Remaining, Available, Slot
  <2>7. \A side \in Sides : ~Several(RemainingIn(side, p[1].route))
    BY <2>1, <2>6 DEF Several, Sides
  <2> QED
    BY <2>1, <2>5, <2>7 DEF MatchRoutes
<1>4. matched \subseteq matched'
  BY DEF MatchRoutes
<1> QED
  BY <1>1, <1>2, <1>3, <1>4

-----------------------------------------------------------------------------
LEMMA InitIInv == Init => IInv
<1> SUFFICES ASSUME Init PROVE IInv
  OBVIOUS
<1>1. PICK f \in Families : \E b \in f["before"], a \in f["after"] :
            docs = [before |-> b, after |-> a]
  BY DEF Init
<1>2. PICK b \in f["before"], a \in f["after"] : docs = [before |-> b, after |-> a]
  BY <1>1
<1>3. docs["before"] \in f["before"] /\ docs["after"] \in f["after"]
  BY <1>2
<1>4. \A side \in Sides : docs[side] \in f[side]
  BY <1>3 DEF Sides
<1>5. \A side \in Sides : \A x \in docs[side].endpoints : x \in EndpointsOf(f, side)
  BY <1>4 DEF EndpointsOf
<1>6. Canonical
  BY <1>4, <1>5, FamiliesAssumption DEF Canonical, Sides
<1>7. phase = "collisions"
  BY DEF Init
<1>8. FromOneFamily
  BY <1>4 DEF FromOneFamily
<1> QED
  BY <1>6, <1>7, <1>8 DEF Init, IInv, Phases, BlockedSoFar, MatchedSoFar

LEMMA NextIInv == IInv /\ [Next]_vars => IInv'
<1> SUFFICES ASSUME IInv, [Next]_vars PROVE IInv'
  OBVIOUS
<1>1. docs' = docs
  BY DEF Next, vars, ReportCollisions, CheckSlots, CheckIdentities, MatchExact,
         MatchRoutes, CompareEndpoints, CompareFacts, Validate
<1>2. /\ Canonical' = Canonical /\ FromOneFamily' = FromOneFamily
      /\ ContestedIds' = ContestedIds
      /\ \A side : AmbiguousIds(side)' = AmbiguousIds(side)
      /\ AllBlocked' = AllBlocked
      /\ Counterparts' = Counterparts
      /\ ExactPairs' = ExactPairs
  BY <1>1, DocumentsDecide
<1>3. CASE ReportCollisions
  BY <1>2, <1>3 DEF IInv, ReportCollisions, Phases, BlockedSoFar, MatchedSoFar
<1>4. CASE CheckSlots
  BY <1>2, <1>4 DEF IInv, CheckSlots, Phases, BlockedSoFar, MatchedSoFar, ContestedIds
<1>5. ASSUME NEW side \in Sides, CheckIdentities(side) PROVE IInv'
  <2>1. blocked' = blocked \cup AmbiguousIds(side)
    BY <1>5 DEF CheckIdentities, AmbiguousIds
  <2>2. CASE side = "before"
    <3>1. phase = "before" /\ phase' = "after" /\ matched' = matched
      BY <1>5, <2>2 DEF CheckIdentities
    <3>2. blocked' = ContestedIds \cup AmbiguousIds("before")
      BY <2>1, <2>2, <3>1 DEF IInv, BlockedSoFar
    <3> QED
      BY <1>2, <3>1, <3>2 DEF IInv, Phases, BlockedSoFar, MatchedSoFar
  <2>3. CASE side = "after"
    <3>1. phase = "after" /\ phase' = "exact" /\ matched' = matched
      BY <1>5, <2>3 DEF CheckIdentities
    <3>2. blocked' = AllBlocked
      BY <2>1, <2>3, <3>1 DEF IInv, BlockedSoFar, AllBlocked
    <3> QED
      BY <1>2, <3>1, <3>2 DEF IInv, Phases, BlockedSoFar, MatchedSoFar
  <2> QED
    BY <2>2, <2>3 DEF Sides
<1>6. CASE MatchExact
  <2>1. phase = "exact" /\ phase' = "routes"
    BY <1>6 DEF MatchExact
  <2>2. blocked' = AllBlocked /\ matched' = ExactPairs
    BY <1>6, <2>1, MatchExactFinds DEF IInv, BlockedSoFar
  <2> QED
    BY <1>2, <2>1, <2>2 DEF IInv, Phases, BlockedSoFar, MatchedSoFar
<1>7. CASE MatchRoutes
  <2>1. phase = "routes" /\ phase' = "endpoints" /\ blocked' = blocked
    BY <1>7 DEF MatchRoutes
  <2>2. blocked = AllBlocked /\ matched = ExactPairs /\ Canonical
    BY <2>1 DEF IInv, BlockedSoFar, MatchedSoFar
  <2>3. matched' = Counterparts
    BY <1>7, <2>2, MatchRoutesFinds
  <2> QED
    BY <1>2, <2>1, <2>2, <2>3 DEF IInv, Phases, BlockedSoFar, MatchedSoFar
<1>8. CASE CompareEndpoints
  BY <1>2, <1>8 DEF IInv, CompareEndpoints, Phases, BlockedSoFar, MatchedSoFar
<1>9. CASE CompareFacts
  BY <1>2, <1>9 DEF IInv, CompareFacts, Phases, BlockedSoFar, MatchedSoFar
<1>10. CASE Validate
  BY <1>2, <1>10 DEF IInv, Validate, Phases, Outcomes, BlockedSoFar, MatchedSoFar
<1>11. CASE UNCHANGED vars
  BY <1>2, <1>11 DEF IInv, vars, BlockedSoFar, MatchedSoFar
<1> QED
  BY <1>3, <1>4, <1>5, <1>6, <1>7, <1>8, <1>9, <1>10, <1>11 DEF Next

LEMMA ReportInvHolds == IInv /\ ReportInv /\ [Next]_vars => ReportInv'
<1> SUFFICES ASSUME ReportInv, [Next]_vars PROVE ReportInv'
  OBVIOUS
<1> USE DEF ReportInv
<1>0. /\ \A kind, of, key, group : GroupAmbiguity(kind, of, key, group).sides \in SUBSET Sides
      /\ \A kind, of, key, ids : \A side \in Sides :
            AmbiguityOfOne(kind, of, key, side, ids).sides \in SUBSET Sides
  BY DEF GroupAmbiguity, AmbiguityOfOne
<1>1. CASE ReportCollisions
  <2>1. SidesOfAmbiguities'
    <3> DEFINE new == 
            UNION {{AmbiguityOfOne("semantic_key", r.kind, RegisteredKey(r), side,
                                   {q.id : q \in Colliding(side, r)}) :
                        r \in {r \in docs[side].records :
                                    /\ r.kind \notin {"assertion", "diagnostic"}
                                    /\ Several(Colliding(side, r))}} :
                   side \in Sides}
    <3>1. ambiguities' = AddAmbiguities(ambiguities, new)
      BY <1>1 DEF ReportCollisions
    <3>2. \A a \in new : a.sides \in SUBSET Sides
      <4> TAKE a \in new
      <4>1. PICK side \in Sides : \E kind, key, ids :
                a = AmbiguityOfOne("semantic_key", kind, key, side, ids)
        OBVIOUS
      <4> QED
        BY <1>0, <4>1
    <3> HIDE DEF new
    <3> QED
      BY <3>1, <3>2, ReportsKeepSides
  <2> QED
    BY <1>1, <2>1 DEF ReportCollisions, NoChangesYet
<1>2. CASE CheckSlots
  <2>1. SidesOfAmbiguities'
    <3> DEFINE new == 
            {GroupAmbiguity("endpoint_route_slot", "endpoint", <<e.route>>, SlotGroup(e.route)) :
                e \in {e \in Endpoints : Contested(e.route)}}
    <3>1. ambiguities' = AddAmbiguities(ambiguities, new)
      BY <1>2 DEF CheckSlots
    <3>2. \A a \in new : a.sides \in SUBSET Sides
      BY <1>0
    <3> HIDE DEF new
    <3> QED
      BY <3>1, <3>2, ReportsKeepSides
  <2> QED
    BY <1>2, <2>1 DEF CheckSlots, NoChangesYet
<1>3. ASSUME NEW side \in Sides, CheckIdentities(side) PROVE ReportInv'
  <2>1. SidesOfAmbiguities'
    <3> DEFINE new == {AmbiguityOfOne("endpoint_exact_key", "endpoint", <<e.route>>, side, {e.id}) :
                e \in {e \in docs[side].endpoints :
                        IdentityStatus(side, e) = "ambiguous" /\ e.id \notin blocked}}
    <3>1. ambiguities' = AddAmbiguities(ambiguities, new)
      BY <1>3 DEF CheckIdentities
    <3>2. \A a \in new : a.sides \in SUBSET Sides
      BY <1>0
    <3> HIDE DEF new
    <3> QED
      BY <3>1, <3>2, ReportsKeepSides
  <2> QED
    BY <1>3, <2>1 DEF CheckIdentities, NoChangesYet, Sides
<1>4. CASE MatchExact
  <2>1. SidesOfAmbiguities'
    <3> DEFINE new == 
            UNION {{GroupAmbiguity("endpoint_exact_key", "endpoint", ExactKey(side, e),
                                   ExactGroup(side, e)) :
                        e \in {e \in Exact(side) : ContestedKey(side, e)}} :
                   side \in Sides}
    <3>1. ambiguities' = AddAmbiguities(ambiguities, new)
      BY <1>4 DEF MatchExact
    <3>2. \A a \in new : a.sides \in SUBSET Sides
      BY <1>0
    <3> HIDE DEF new
    <3> QED
      BY <3>1, <3>2, ReportsKeepSides
  <2> QED
    BY <1>4, <2>1 DEF MatchExact, NoChangesYet
<1>5. CASE MatchRoutes
  BY <1>5 DEF MatchRoutes, SidesOfAmbiguities, NoChangesYet
<1>6. CASE CompareEndpoints
  BY <1>6 DEF CompareEndpoints, SidesOfAmbiguities, NoChangesYet
<1>7. CASE CompareFacts
  <2>1. SidesOfAmbiguities'
    <3> DEFINE new == 
            UNION {{GroupAmbiguity(AmbiguityKind(kind), kind, key, FactGroup(kind, key)) :
                        key \in {key \in Keys(kind) : ContestedFact(kind, key)}} :
                   kind \in ComparedKinds}
    <3>1. ambiguities' = AddAmbiguities(ambiguities, new)
      BY <1>7 DEF CompareFacts
    <3>2. \A a \in new : a.sides \in SUBSET Sides
      BY <1>0
    <3> HIDE DEF new
    <3> QED
      BY <3>1, <3>2, ReportsKeepSides
  <2> QED
    BY <1>7, <2>1 DEF CompareFacts, NoChangesYet
<1>8. CASE Validate
  BY <1>8 DEF Validate, SidesOfAmbiguities, NoChangesYet
<1>9. CASE UNCHANGED vars
  BY <1>9 DEF vars, SidesOfAmbiguities, NoChangesYet
<1> QED
  BY <1>1, <1>2, <1>3, <1>4, <1>5, <1>6, <1>7, <1>8, <1>9 DEF Next

LEMMA TypesFollow == IInv /\ ReportInv => TypeOK
<1> SUFFICES ASSUME IInv, ReportInv PROVE TypeOK
  OBVIOUS
<1> USE DEF IInv, ReportInv
<1>1. blocked \subseteq {e.id : e \in Endpoints}
  <2>1. ContestedIds \subseteq {e.id : e \in Endpoints}
    BY DEF ContestedIds
  <2>2. \A side \in Sides : AmbiguousIds(side) \subseteq {e.id : e \in Endpoints}
    BY DEF AmbiguousIds, Endpoints
  <2>3. AllBlocked \subseteq {e.id : e \in Endpoints}
    BY <2>1, <2>2 DEF AllBlocked, Sides
  <2>4. ContestedIds \cup AmbiguousIds("before") \subseteq {e.id : e \in Endpoints}
    BY <2>1, <2>2 DEF Sides
  <2> QED
    BY <2>1, <2>3, <2>4 DEF BlockedSoFar, Phases, Outcomes
<1>2. matched \subseteq Counterparts
  BY DEF MatchedSoFar, Phases, Outcomes, ExactPairs
<1>3. matched # {} => blocked = AllBlocked
  BY DEF MatchedSoFar, BlockedSoFar, Phases, Outcomes
<1>4. \A p \in matched : p[1].id \notin blocked /\ p[2].id \notin blocked
  BY <1>2, <1>3, CounterpartsAreAvailable DEF Available
<1>5. matched \subseteq docs["before"].endpoints \X docs["after"].endpoints
  BY <1>2 DEF Counterparts
<1> QED
  BY <1>1, <1>4, <1>5 DEF TypeOK, FromOneFamily, SidesOfAmbiguities, NoChangesYet, MatchedSoFar

\* The variables have their types, for any documents.
THEOREM TypesAreRight == Spec => []TypeOK
<1>1. Init => ReportInv
  BY DEF Init, ReportInv, SidesOfAmbiguities, NoChangesYet
<1> QED
  BY <1>1, InitIInv, NextIInv, ReportInvHolds, TypesFollow, PTL DEF Spec

\* For every pair of canonical documents, the pairs the comparison matches are
\* the counterparts: alone in one slot on both sides, with clear identities.
THEOREM MatchingIsRight == Spec => []MatchedAreTheSoleOnes
<1>1. IInv => MatchedAreTheSoleOnes
  BY DEF IInv, MatchedSoFar, MatchedAreTheSoleOnes
<1> QED
  BY <1>1, InitIInv, NextIInv, PTL DEF Spec

\* The report of a contested exact key in MatchExact is never reached: blocking
\* contested slots first leaves no two endpoints with one exact key.
THEOREM ContestedKeysNeverArise == Spec => []ExactKeysAreNeverContested
<1>1. IInv => ExactKeysAreNeverContested
  BY NoContestedKeys DEF IInv, BlockedSoFar, ExactKeysAreNeverContested
<1> QED
  BY <1>1, InitIInv, NextIInv, PTL DEF Spec

\* No endpoint is ever in two matched pairs.
OneToOne == \A p, q \in matched : p[1] = q[1] <=> p[2] = q[2]

\* The pairs the diff is made of are one-to-one.
THEOREM MatchingIsOneToOne ==
    Spec => [](phase \in {"endpoints", "facts", "validate", "done"} => OneToOne)
<1>1. IInv => (phase \in {"endpoints", "facts", "validate", "done"} => OneToOne)
  <2> SUFFICES ASSUME matched = Counterparts PROVE OneToOne
    BY DEF IInv, MatchedSoFar
  <2> QED
    BY DEF OneToOne, Counterparts, Sole, Slot
<1> QED
  BY <1>1, InitIInv, NextIInv, PTL DEF Spec

-----------------------------------------------------------------------------
(***************************************************************************)
(* No endpoint is lost: what is reported as added or removed has nothing   *)
(* to be matched with, or its route slot is reported as ambiguous.         *)
(***************************************************************************)
Covered(route) == \E a \in ambiguities : a.of = "endpoint" /\ a.key = <<route>>

\* The ambiguities that explain blocked endpoints, pass by pass.
ContestedAreCovered ==
    phase \notin {"collisions", "slots"} =>
        \A e \in Endpoints : Contested(e.route) => Covered(e.route)

AmbiguousAreCovered ==
    /\ phase \notin {"collisions", "slots", "before"} =>
        \A e \in docs["before"].endpoints : ~Clear("before", e) => Covered(e.route)
    /\ phase \notin {"collisions", "slots", "before", "after"} =>
        \A e \in docs["after"].endpoints : ~Clear("after", e) => Covered(e.route)

Modified == {Change("endpoint", <<p[1].route>>, {p[1]}, {p[2]}, EndpointReasons(p[1], p[2])) :
                p \in {p \in matched : EndpointReasons(p[1], p[2]) # {}}}
Removed == {Change("endpoint", <<e.route>>, {e}, {}, {"endpoint_removed"}) : e \in Unused("before")}
Added == {Change("endpoint", <<e.route>>, {}, {e}, {"endpoint_added"}) : e \in Unused("after")}

ListedSoFar ==
    phase \in {"facts", "validate", "done"} =>
        {c \in changes : c.of = "endpoint"} = Modified \cup Removed \cup Added

AccountInv == ContestedAreCovered /\ AmbiguousAreCovered /\ ListedSoFar

\* An ambiguity, once reported, stays reported under its key.
LEMMA AmbiguitiesStay ==
    ASSUME NEW new, NEW a \in ambiguities \cup new,
           ambiguities' = AddAmbiguities(ambiguities, new)
    PROVE  \E m \in ambiguities' : m.of = a.of /\ m.key = a.key
<1> DEFINE m == Merged({x \in ambiguities \cup new : Identity(x) = Identity(a)}, a)
<1>1. m \in ambiguities'
  BY DEF AddAmbiguities
<1>2. m.of = a.of /\ m.key = a.key
  BY DEF Merged
<1> QED
  BY <1>1, <1>2

LEMMA CoverStays ==
    ASSUME [Next]_vars, NEW route, Covered(route)
    PROVE  Covered(route)'
<1>1. PICK a \in ambiguities : a.of = "endpoint" /\ a.key = <<route>>
  BY DEF Covered
<1>2. (\E new : ambiguities' = AddAmbiguities(ambiguities, new)) \/ ambiguities' = ambiguities
  BY Zenon DEF Next, vars, ReportCollisions, CheckSlots, CheckIdentities, MatchExact,
         MatchRoutes, CompareEndpoints, CompareFacts, Validate
<1>3. CASE ambiguities' = ambiguities
  BY <1>1, <1>3 DEF Covered
<1>4. ASSUME NEW new, ambiguities' = AddAmbiguities(ambiguities, new) PROVE Covered(route)'
  <2>1. \E m \in ambiguities' : m.of = a.of /\ m.key = a.key
    BY <1>4, AmbiguitiesStay
  <2> QED
    BY <1>1, <2>1 DEF Covered
<1> QED
  BY <1>2, <1>3, <1>4

\* What the documents say of their endpoints does not change.
LEMMA EndpointsStay ==
    ASSUME [Next]_vars
    PROVE  /\ docs' = docs
           /\ Endpoints' = Endpoints
           /\ \A route : Contested(route)' = Contested(route)
           /\ \A side, e : Clear(side, e)' = Clear(side, e)
           /\ \A b, a : EndpointReasons(b, a)' = EndpointReasons(b, a)
<1>1. docs' = docs
  BY DEF Next, vars, ReportCollisions, CheckSlots, CheckIdentities, MatchExact,
         MatchRoutes, CompareEndpoints, CompareFacts, Validate
<1>2. \A side, e : IdentityStatus(side, e)' = IdentityStatus(side, e)
  BY <1>1 DEF IdentityStatus, Methods, Colliding, MethodKeys
<1>3. \A side, e : HandlerProjection(side, e)' = HandlerProjection(side, e)
  BY <1>1 DEF HandlerProjection, MethodKeys, Methods
<1>4. \A b, a : EndpointReasons(b, a)' = EndpointReasons(b, a)
  BY <1>2, <1>3 DEF EndpointReasons
<1>5. Endpoints' = Endpoints /\ (\A route : Contested(route)' = Contested(route))
  BY <1>1 DEF Endpoints, Contested, Slot
<1> QED
  BY <1>1, <1>2, <1>4, <1>5 DEF Clear

LEMMA SlotsCover == ContestedAreCovered /\ phase \in Phases /\ [Next]_vars => ContestedAreCovered'
<1> SUFFICES ASSUME ContestedAreCovered, phase \in Phases, [Next]_vars,
                    phase' \notin {"collisions", "slots"},
                    NEW e \in Endpoints, Contested(e.route)
             PROVE  Covered(e.route)'
  BY EndpointsStay DEF ContestedAreCovered
<1>1. CASE phase \notin {"collisions", "slots"}
  BY <1>1, CoverStays DEF ContestedAreCovered
<1>2. CASE phase \in {"collisions", "slots"}
  <2>1. CheckSlots
    BY <1>2 DEF Next, vars, Sides, ReportCollisions, CheckSlots, CheckIdentities, MatchExact,
         MatchRoutes, CompareEndpoints, CompareFacts, Validate
  <2> DEFINE new == {GroupAmbiguity("endpoint_route_slot", "endpoint", <<x.route>>, SlotGroup(x.route)) :
                        x \in {x \in Endpoints : Contested(x.route)}}
             a == GroupAmbiguity("endpoint_route_slot", "endpoint", <<e.route>>, SlotGroup(e.route))
  <2>2. ambiguities' = AddAmbiguities(ambiguities, new) /\ a \in new
    BY <2>1 DEF CheckSlots
  <2>3. a.of = "endpoint" /\ a.key = <<e.route>>
    BY DEF GroupAmbiguity
  <2> HIDE DEF new, a
  <2>4. \E m \in ambiguities' : m.of = a.of /\ m.key = a.key
    BY <2>2, AmbiguitiesStay
  <2> QED
    BY <2>3, <2>4 DEF Covered
<1> QED
  BY <1>1, <1>2

\* CheckIdentities reports every ambiguous endpoint of its document, or finds
\* its id blocked by an endpoint of the same slot, which was reported.
LEMMA IdentitiesCover ==
    ASSUME IInv, ContestedAreCovered, AmbiguousAreCovered,
           NEW side \in Sides, CheckIdentities(side),
           NEW e \in docs[side].endpoints, ~Clear(side, e)
    PROVE  Covered(e.route)'
<1>0. [Next]_vars
  BY DEF Next
<1>1. CASE e.id \notin blocked
  <2> DEFINE new == {AmbiguityOfOne("endpoint_exact_key", "endpoint", <<x.route>>, side, {x.id}) :
                x \in {x \in docs[side].endpoints :
                        IdentityStatus(side, x) = "ambiguous" /\ x.id \notin blocked}}
             a == AmbiguityOfOne("endpoint_exact_key", "endpoint", <<e.route>>, side, {e.id})
  <2>1. ambiguities' = AddAmbiguities(ambiguities, new)
    BY DEF CheckIdentities
  <2>2. a \in new
    BY <1>1 DEF Clear
  <2>3. a.of = "endpoint" /\ a.key = <<e.route>>
    BY DEF AmbiguityOfOne
  <2> HIDE DEF new, a
  <2>4. \E m \in ambiguities' : m.of = a.of /\ m.key = a.key
    BY <2>1, <2>2, AmbiguitiesStay
  <2> QED
    BY <2>3, <2>4 DEF Covered
<1>2. CASE e.id \in blocked
  <2>1. phase = side
    BY DEF CheckIdentities
  <2>2. blocked \subseteq ContestedIds \cup (IF side = "before" THEN {} ELSE AmbiguousIds("before"))
    BY <2>1 DEF IInv, BlockedSoFar, Sides
  <2>3. CASE e.id \in ContestedIds
    <3>1. PICK x \in Endpoints : Contested(x.route) /\ x.id = e.id
      BY <2>3 DEF ContestedIds
    <3>2. PICK other \in Sides : x \in docs[other].endpoints
      BY <3>1 DEF Endpoints
    <3>3. x.route = e.route
      BY <3>1, <3>2 DEF IInv, Canonical, Sides
    <3>4. Covered(e.route)
      BY <2>1, <3>1, <3>3 DEF ContestedAreCovered, Sides
    <3> QED
      BY <1>0, <3>4, CoverStays
  <2>4. CASE side = "after" /\ e.id \in AmbiguousIds("before")
    <3>1. PICK x \in docs["before"].endpoints : ~Clear("before", x) /\ x.id = e.id
      BY <2>4 DEF AmbiguousIds, Clear
    <3>2. x.route = e.route
      BY <2>4, <3>1 DEF IInv, Canonical
    <3>3. Covered(e.route)
      BY <2>1, <2>4, <3>1, <3>2 DEF AmbiguousAreCovered
    <3> QED
      BY <1>0, <3>3, CoverStays
  <2> QED
    BY <1>2, <2>2, <2>3, <2>4 DEF Sides
<1> QED
  BY <1>1, <1>2

LEMMA AmbiguousStayCovered ==
    IInv /\ ContestedAreCovered /\ AmbiguousAreCovered /\ [Next]_vars => AmbiguousAreCovered'
<1> SUFFICES ASSUME IInv, ContestedAreCovered, AmbiguousAreCovered, [Next]_vars
             PROVE  AmbiguousAreCovered'
  OBVIOUS
<1>1. \A side, e : Clear(side, e)' = Clear(side, e)
  BY EndpointsStay
<1>2. docs' = docs
  BY EndpointsStay
<1>3. ASSUME phase' = phase \/ (phase \notin {"before", "after"}
                                /\ (phase = "collisions" => phase' = "slots")
                                /\ (phase = "slots" => phase' = "before"))
      PROVE AmbiguousAreCovered'
  BY <1>1, <1>2, <1>3, CoverStays DEF AmbiguousAreCovered
<1>4. CASE \E side \in Sides : CheckIdentities(side)
  <2>1. PICK side \in Sides : CheckIdentities(side)
    BY <1>4
  <2>2. phase = side /\ phase' = IF side = "before" THEN "after" ELSE "exact"
    BY <2>1 DEF CheckIdentities
  <2>3. \A e \in docs[side].endpoints : ~Clear(side, e) => Covered(e.route)'
    BY <2>1, IdentitiesCover
  <2>4. CASE side = "before"
    BY <1>1, <1>2, <2>2, <2>3, <2>4 DEF AmbiguousAreCovered
  <2>5. CASE side = "after"
    BY <1>1, <1>2, <2>2, <2>3, <2>5, CoverStays DEF AmbiguousAreCovered
  <2> QED
    BY <2>4, <2>5 DEF Sides
<1>5. CASE ReportCollisions \/ CheckSlots \/ MatchExact \/ MatchRoutes \/ CompareEndpoints
           \/ CompareFacts \/ Validate \/ UNCHANGED vars
  BY <1>3, <1>5 DEF ReportCollisions, CheckSlots, MatchExact, MatchRoutes,
         CompareEndpoints, CompareFacts, Validate, vars
<1> QED
  BY <1>4, <1>5 DEF Next

LEMMA ListStays == ListedSoFar /\ [Next]_vars => ListedSoFar'
<1> SUFFICES ASSUME ListedSoFar, [Next]_vars PROVE ListedSoFar'
  OBVIOUS
<1>1. docs' = docs /\ (\A b, a : EndpointReasons(b, a)' = EndpointReasons(b, a))
  BY EndpointsStay
<1>2. matched' = matched =>
        Modified' = Modified /\ Removed' = Removed /\ Added' = Added
  BY <1>1 DEF Modified, Removed, Added, Unused, Used
<1>3. CASE CompareEndpoints
  <2>1. changes' = Modified \cup Removed \cup Added /\ matched' = matched
    BY <1>3 DEF CompareEndpoints, Modified, Removed, Added
  <2>2. \A c \in changes' : c.of = "endpoint"
    BY <2>1 DEF Modified, Removed, Added, Change
  <2> QED
    BY <1>2, <2>1, <2>2 DEF ListedSoFar
<1>4. CASE CompareFacts
  <2> DEFINE new == UNION {UNION {FactChanges(kind, key) :
                        key \in {key \in Keys(kind) : ~ContestedFact(kind, key)}} :
                   kind \in ComparedKinds}
  <2>1. /\ changes' = changes \cup new /\ matched' = matched
        /\ phase = "facts"
    BY <1>4 DEF CompareFacts
  <2>2. \A c \in new : c.of # "endpoint"
    <3> TAKE c \in new
    <3>1. PICK kind \in ComparedKinds : \E key : c \in FactChanges(kind, key)
      OBVIOUS
    <3>2. c.of = kind
      BY <3>1 DEF FactChanges, Change
    <3> QED
      BY <3>1, <3>2 DEF ComparedKinds, InteractionKinds, BranchKinds
  <2> HIDE DEF new
  <2> QED
    BY <1>2, <2>1, <2>2 DEF ListedSoFar
<1>5. CASE Validate \/ UNCHANGED vars
  BY <1>2, <1>5 DEF Validate, vars, ListedSoFar
<1>6. CASE ReportCollisions \/ CheckSlots \/ (\E side \in Sides : CheckIdentities(side))
           \/ MatchExact \/ MatchRoutes
  BY <1>6 DEF ReportCollisions, CheckSlots, CheckIdentities, MatchExact, MatchRoutes, ListedSoFar
<1> QED
  BY <1>3, <1>4, <1>5, <1>6 DEF Next

\* An endpoint that is reported as added or removed was not matched.
LEMMA ReportedIsUnused ==
    ASSUME IInv, ListedSoFar, phase = "done", NEW side \in Sides,
           NEW e \in docs[side].endpoints,
           NEW c \in changes, c.of = "endpoint", c.change # "modified", e.id \in c[side]
    PROVE  e.id \notin Used(side)
<1>1. c \in Modified \cup Removed \cup Added
  BY DEF ListedSoFar
<1>2. CASE c \in Modified
  BY <1>2 DEF Modified, Change
<1>3. CASE c \in Removed
  <2>1. PICK x \in Unused("before") :
            c = Change("endpoint", <<x.route>>, {x}, {}, {"endpoint_removed"})
    BY <1>3 DEF Removed
  <2>2. c.before = {x.id} /\ c.after = {}
    BY <2>1 DEF Change
  <2>3. side = "before" /\ e.id = x.id
    BY <2>2 DEF Sides
  <2> QED
    BY <2>1, <2>3 DEF Unused
<1>4. CASE c \in Added
  <2>1. PICK x \in Unused("after") :
            c = Change("endpoint", <<x.route>>, {}, {x}, {"endpoint_added"})
    BY <1>4 DEF Added
  <2>2. c.before = {} /\ c.after = {x.id}
    BY <2>1 DEF Change
  <2>3. side = "after" /\ e.id = x.id
    BY <2>2 DEF Sides
  <2> QED
    BY <2>1, <2>3 DEF Unused
<1> QED
  BY <1>1, <1>2, <1>3, <1>4

LEMMA UnusedIsReported ==
    ASSUME ListedSoFar, phase = "done", NEW side \in Sides,
           NEW e \in docs[side].endpoints, e.id \notin Used(side)
    PROVE  \E c \in changes : c.of = "endpoint" /\ c.change # "modified" /\ e.id \in c[side]
<1>1. CASE side = "before"
  <2> DEFINE c == Change("endpoint", <<e.route>>, {e}, {}, {"endpoint_removed"})
  <2>1. c \in changes
    BY <1>1 DEF ListedSoFar, Removed, Unused
  <2>2. c.of = "endpoint" /\ c.change # "modified" /\ e.id \in c.before
    BY DEF Change
  <2> QED
    BY <1>1, <2>1, <2>2
<1>2. CASE side = "after"
  <2> DEFINE c == Change("endpoint", <<e.route>>, {}, {e}, {"endpoint_added"})
  <2>1. c \in changes
    BY <1>2 DEF ListedSoFar, Added, Unused
  <2>2. c.of = "endpoint" /\ c.change # "modified" /\ e.id \in c.after
    BY DEF Change
  <2> QED
    BY <1>2, <2>1, <2>2
<1> QED
  BY <1>1, <1>2 DEF Sides

LEMMA AccountFollows == IInv /\ AccountInv => EveryEndpointIsAccountedFor
<1> SUFFICES ASSUME IInv, AccountInv, phase = "done",
                    NEW side \in Sides, NEW e \in docs[side].endpoints
             PROVE  IF \E c \in changes : c.of = "endpoint" /\ c.change # "modified"
                                            /\ e.id \in c[side]
                    THEN Slot(OtherSide(side), e.route) = {} \/ Covered(e.route)
                    ELSE \E p \in matched : e \in {p[1], p[2]} /\ \A q \in matched :
                            p[1].route = q[1].route => p = q
  BY DEF EveryEndpointIsAccountedFor, Covered
<1>0. matched = Counterparts
  BY DEF IInv, MatchedSoFar
<1>1. CASE e.id \in Used(side)
  <2>1. PICK p \in matched : e.id = IF side = "before" THEN p[1].id ELSE p[2].id
    BY <1>1 DEF Used
  <2>2. /\ p = <<p[1], p[2]>> /\ p[1].route = p[2].route
        /\ p[1] \in docs["before"].endpoints /\ p[2] \in docs["after"].endpoints
        /\ Slot("before", p[1].route) = {p[1]} /\ Slot("after", p[1].route) = {p[2]}
    BY <1>0 DEF Counterparts, Sole
  <2>3. e \in {p[1], p[2]}
    BY <2>1, <2>2 DEF IInv, Canonical, Sides
  <2>4. \A q \in matched : p[1].route = q[1].route => p = q
    <3> TAKE q \in matched
    <3> HAVE p[1].route = q[1].route
    <3>1. /\ q = <<q[1], q[2]>> /\ q[1].route = q[2].route
          /\ q[1] \in docs["before"].endpoints /\ q[2] \in docs["after"].endpoints
      BY <1>0 DEF Counterparts
    <3>2. q[1] \in Slot("before", p[1].route) /\ q[2] \in Slot("after", p[1].route)
      BY <3>1 DEF Slot
    <3>3. q[1] = p[1] /\ q[2] = p[2]
      BY <2>2, <3>2
    <3> QED
      BY <2>2, <3>1, <3>3
  <2>5. ~\E c \in changes : c.of = "endpoint" /\ c.change # "modified" /\ e.id \in c[side]
    BY <1>1, ReportedIsUnused DEF AccountInv
  <2> QED
    BY <2>3, <2>4, <2>5
<1>2. CASE e.id \notin Used(side)
  <2>1. \E c \in changes : c.of = "endpoint" /\ c.change # "modified" /\ e.id \in c[side]
    BY <1>2, UnusedIsReported DEF AccountInv
  <2>2. ASSUME NEW x \in Slot(OtherSide(side), e.route), ~Covered(e.route) PROVE FALSE
    <3>0. x \in docs[OtherSide(side)].endpoints /\ x.route = e.route /\ OtherSide(side) \in Sides
      BY <2>2 DEF Slot, OtherSide, Sides
    <3>1. ~Contested(e.route)
      BY <2>2 DEF AccountInv, ContestedAreCovered, Endpoints
    <3>2. Slot(side, e.route) = {e} /\ Slot(OtherSide(side), e.route) = {x}
      BY <2>2, <3>0, <3>1 DEF Contested, Several, Slot
    <3>3. Clear(side, e) /\ Clear(OtherSide(side), x)
      BY <2>2, <3>0 DEF AccountInv, AmbiguousAreCovered, Sides
    <3>4. CASE side = "before"
      <4>1. <<e, x>> \in matched
        BY <1>0, <3>0, <3>2, <3>3, <3>4 DEF Counterparts, Sole, OtherSide
      <4> QED
        BY <1>2, <3>4, <4>1 DEF Used
    <3>5. CASE side = "after"
      <4>1. <<x, e>> \in matched
        BY <1>0, <3>0, <3>2, <3>3, <3>5 DEF Counterparts, Sole, OtherSide
      <4> QED
        BY <1>2, <3>5, <4>1 DEF Used
    <3> QED
      BY <3>4, <3>5 DEF Sides
  <2> QED
    BY <2>1, <2>2
<1> QED
  BY <1>1, <1>2

\* For every pair of canonical documents, an endpoint of the diff is matched
\* once, or has nothing to be matched with, or its slot is called ambiguous.
THEOREM NoEndpointIsLost == Spec => []EveryEndpointIsAccountedFor
<1>1. Init => AccountInv
  BY DEF Init, AccountInv, ContestedAreCovered, AmbiguousAreCovered, ListedSoFar
<1>2. IInv /\ AccountInv /\ [Next]_vars => AccountInv'
  BY SlotsCover, AmbiguousStayCovered, ListStays DEF IInv, AccountInv
<1> QED
  BY <1>1, <1>2, InitIInv, NextIInv, AccountFollows, PTL DEF Spec


-----------------------------------------------------------------------------
(***************************************************************************)
(* The records: what the diff says of their changes and ambiguities.       *)
(***************************************************************************)
\* Within a kind, a record of a document is known by its id.
RecordsAreUnique ==
    \A side \in Sides : \A r, q \in docs[side].records :
        r.kind = q.kind /\ r.id = q.id => r = q

AllFactChanges ==
    UNION {UNION {FactChanges(kind, key) : key \in {key \in Keys(kind) : ~ContestedFact(kind, key)}} :
           kind \in ComparedKinds}

\* The changes of records are those of the keys that are not contested.
FactsListed ==
    /\ phase = "facts" => \A c \in changes : c.of = "endpoint"
    /\ phase \in {"validate", "done"} => {c \in changes : c.of # "endpoint"} = AllFactChanges

\* An ambiguity that names every record of the sides on which a key is shared.
Explains(a, kind, key) ==
    /\ a.of = kind /\ a.key = key
    /\ \A side \in Sides : Several(FactGroup(kind, key)[side]) =>
        side \in a.sides /\ {r.id : r \in FactGroup(kind, key)[side]} \subseteq a.candidates[side]

SharedAreExplained ==
    phase \in {"validate", "done"} =>
        \A kind \in ComparedKinds : \A key \in Keys(kind) :
            ContestedFact(kind, key) => \E a \in ambiguities : Explains(a, kind, key)

\* What the schema asks of an ambiguity, and that no two have one identity.
WellFormed(a) ==
    /\ a.sides \in SUBSET Sides /\ a.sides # {}
    /\ \A side \in a.sides : a.candidates[side] # {}

OnePerIdentity == \A a, b \in ambiguities : Identity(a) = Identity(b) => a = b

AmbiguitiesAreSound == (\A a \in ambiguities : WellFormed(a)) /\ OnePerIdentity

FactInv == RecordsAreUnique /\ FactsListed /\ SharedAreExplained /\ AmbiguitiesAreSound

\* What the documents say of their records does not change.
LEMMA RecordsStay ==
    ASSUME docs' = docs
    PROVE  /\ RecordsAreUnique' = RecordsAreUnique
           /\ \A kind, key : FactGroup(kind, key)' = FactGroup(kind, key)
           /\ \A kind : Keys(kind)' = Keys(kind)
           /\ \A kind, key : ContestedFact(kind, key)' = ContestedFact(kind, key)
           /\ AllFactChanges' = AllFactChanges
           /\ \A a, kind, key : Explains(a, kind, key)' = Explains(a, kind, key)
<1>1. RecordsAreUnique' = RecordsAreUnique
  BY DEF RecordsAreUnique
<1>2. \A kind, key : FactGroup(kind, key)' = FactGroup(kind, key)
  BY DEF FactGroup
<1>3. \A kind : Keys(kind)' = Keys(kind)
  BY DEF Keys
<1>4. \A kind, key : ContestedFact(kind, key)' = ContestedFact(kind, key)
  BY <1>2 DEF ContestedFact
<1>5. \A kind, key : FactChanges(kind, key)' = FactChanges(kind, key)
  BY <1>2 DEF FactChanges
<1>6. AllFactChanges' = AllFactChanges
  BY <1>3, <1>4, <1>5 DEF AllFactChanges
<1>7. \A a, kind, key : Explains(a, kind, key)' = Explains(a, kind, key)
  BY <1>2 DEF Explains
<1> QED
  BY <1>1, <1>2, <1>3, <1>4, <1>6, <1>7

-----------------------------------------------------------------------------
\* Merging keeps ambiguities well formed, and leaves one for an identity.
LEMMA MergingIsSound ==
    ASSUME NEW index, NEW new, \A a \in index \cup new : WellFormed(a)
    PROVE  /\ \A m \in AddAmbiguities(index, new) : WellFormed(m)
           /\ \A m, n \in AddAmbiguities(index, new) : Identity(m) = Identity(n) => m = n
<1> DEFINE all == index \cup new
           same(a) == {x \in all : Identity(x) = Identity(a)}
<1>1. ASSUME NEW m \in AddAmbiguities(index, new)
      PROVE  \E a \in all : m = Merged(same(a), a) /\ Identity(m) = Identity(a)
  BY DEF AddAmbiguities, Merged, Identity
<1>2. ASSUME NEW m \in AddAmbiguities(index, new)
      PROVE  WellFormed(m)
  <2>1. PICK a \in all : m = Merged(same(a), a)
    BY <1>1
  <2>2. /\ m.sides = UNION {x.sides : x \in same(a)}
        /\ \A side \in Sides : m.candidates[side] = UNION {x.candidates[side] : x \in same(a)}
    BY <2>1 DEF Merged
  <2>3. a \in same(a) /\ (\A x \in same(a) : WellFormed(x))
    OBVIOUS
  <2>4. m.sides \in SUBSET Sides /\ m.sides # {}
    BY <2>2, <2>3 DEF WellFormed
  <2>5. ASSUME NEW side \in m.sides
        PROVE  m.candidates[side] # {}
    <3>1. PICK x \in same(a) : side \in x.sides
      BY <2>2
    <3>2. PICK id : id \in x.candidates[side]
      BY <2>3, <3>1 DEF WellFormed
    <3>3. side \in Sides
      BY <2>4
    <3> QED
      BY <2>2, <3>2, <3>3
  <2> QED
    BY <2>4, <2>5 DEF WellFormed
<1>3. ASSUME NEW m \in AddAmbiguities(index, new), NEW n \in AddAmbiguities(index, new),
             Identity(m) = Identity(n)
      PROVE  m = n
  <2>1. PICK a \in all : m = Merged(same(a), a) /\ Identity(m) = Identity(a)
    BY <1>1
  <2>2. PICK b \in all : n = Merged(same(b), b) /\ Identity(n) = Identity(b)
    BY <1>1
  <2>3. Identity(a) = Identity(b)
    BY <1>3, <2>1, <2>2
  <2>4. same(a) = same(b)
    BY <2>3
  <2>5. a.kind = b.kind /\ a.of = b.of /\ a.key = b.key
    BY <2>3 DEF Identity
  <2> QED
    BY <2>1, <2>2, <2>4, <2>5 DEF Merged
<1> QED
  BY <1>2, <1>3

LEMMA ReportsAreSound ==
    ASSUME AmbiguitiesAreSound, NEW new, \A a \in new : WellFormed(a),
           ambiguities' = AddAmbiguities(ambiguities, new)
    PROVE  AmbiguitiesAreSound'
<1>1. \A a \in ambiguities \cup new : WellFormed(a)
  BY DEF AmbiguitiesAreSound
<1>2. /\ \A m \in ambiguities' : WellFormed(m)
      /\ \A m, n \in ambiguities' : Identity(m) = Identity(n) => m = n
  BY <1>1, MergingIsSound
<1> QED
  BY <1>2 DEF AmbiguitiesAreSound, OnePerIdentity, WellFormed, Identity

\* A group that is contested on some side makes a well-formed ambiguity.
LEMMA ContestedGroupIsWellFormed ==
    ASSUME NEW kind, NEW of, NEW key, NEW group, \E side \in Sides : Several(group[side])
    PROVE  WellFormed(GroupAmbiguity(kind, of, key, group))
<1> DEFINE a == GroupAmbiguity(kind, of, key, group)
<1>1. /\ a.sides = {s \in Sides : Several(group[s])}
      /\ \A s \in Sides : a.candidates[s] = {x.id : x \in group[s]}
  BY DEF GroupAmbiguity
<1>2. \A s \in a.sides : \E x \in group[s] : x.id \in a.candidates[s]
  BY <1>1 DEF Several
<1> QED
  BY <1>1, <1>2 DEF WellFormed

LEMMA OneIsWellFormed ==
    ASSUME NEW kind, NEW of, NEW key, NEW side \in Sides, NEW ids, ids # {}
    PROVE  WellFormed(AmbiguityOfOne(kind, of, key, side, ids))
<1> DEFINE a == AmbiguityOfOne(kind, of, key, side, ids)
<1>1. a.sides = {side} /\ a.candidates[side] = ids
  BY DEF AmbiguityOfOne
<1> QED
  BY <1>1 DEF WellFormed

\* Every pass reports well-formed ambiguities.
LEMMA AmbiguitiesStaySound == IInv /\ AmbiguitiesAreSound /\ [Next]_vars => AmbiguitiesAreSound'
<1> SUFFICES ASSUME IInv, AmbiguitiesAreSound, [Next]_vars PROVE AmbiguitiesAreSound'
  OBVIOUS
<1>1. CASE ReportCollisions
  <2> DEFINE new ==
            UNION {{AmbiguityOfOne("semantic_key", r.kind, RegisteredKey(r), side,
                                   {q.id : q \in Colliding(side, r)}) :
                        r \in {r \in docs[side].records :
                                    /\ r.kind \notin {"assertion", "diagnostic"}
                                    /\ Several(Colliding(side, r))}} :
                   side \in Sides}
  <2>1. ambiguities' = AddAmbiguities(ambiguities, new)
    BY <1>1 DEF ReportCollisions
  <2>2. \A a \in new : WellFormed(a)
    <3> TAKE a \in new
    <3>1. PICK side \in Sides : \E r \in docs[side].records :
            /\ Several(Colliding(side, r))
            /\ a = AmbiguityOfOne("semantic_key", r.kind, RegisteredKey(r), side,
                                  {q.id : q \in Colliding(side, r)})
      OBVIOUS
    <3>2. PICK r \in docs[side].records :
            /\ Several(Colliding(side, r))
            /\ a = AmbiguityOfOne("semantic_key", r.kind, RegisteredKey(r), side,
                                  {q.id : q \in Colliding(side, r)})
      BY <3>1
    <3>3. {q.id : q \in Colliding(side, r)} # {}
      BY <3>2 DEF Several
    <3> QED
      BY <3>2, <3>3, OneIsWellFormed
  <2> HIDE DEF new
  <2> QED
    BY <2>1, <2>2, ReportsAreSound
<1>2. CASE CheckSlots
  <2> DEFINE new ==
            {GroupAmbiguity("endpoint_route_slot", "endpoint", <<e.route>>, SlotGroup(e.route)) :
                e \in {e \in Endpoints : Contested(e.route)}}
  <2>1. ambiguities' = AddAmbiguities(ambiguities, new)
    BY <1>2 DEF CheckSlots
  <2>2. \A a \in new : WellFormed(a)
    <3> TAKE a \in new
    <3>1. PICK e \in Endpoints :
            /\ Contested(e.route)
            /\ a = GroupAmbiguity("endpoint_route_slot", "endpoint", <<e.route>>, SlotGroup(e.route))
      OBVIOUS
    <3>2. \E side \in Sides : Several(SlotGroup(e.route)[side])
      BY <3>1 DEF Contested, SlotGroup
    <3> QED
      BY <3>1, <3>2, ContestedGroupIsWellFormed
  <2> HIDE DEF new
  <2> QED
    BY <2>1, <2>2, ReportsAreSound
<1>3. ASSUME NEW side \in Sides, CheckIdentities(side) PROVE AmbiguitiesAreSound'
  <2> DEFINE new ==
            {AmbiguityOfOne("endpoint_exact_key", "endpoint", <<e.route>>, side, {e.id}) :
                e \in {e \in docs[side].endpoints :
                        IdentityStatus(side, e) = "ambiguous" /\ e.id \notin blocked}}
  <2>1. ambiguities' = AddAmbiguities(ambiguities, new)
    BY <1>3 DEF CheckIdentities
  <2>2. \A a \in new : WellFormed(a)
    <3> TAKE a \in new
    <3>1. PICK e \in docs[side].endpoints :
            a = AmbiguityOfOne("endpoint_exact_key", "endpoint", <<e.route>>, side, {e.id})
      OBVIOUS
    <3> QED
      BY <3>1, OneIsWellFormed
  <2> HIDE DEF new
  <2> QED
    BY <2>1, <2>2, ReportsAreSound
<1>4. CASE MatchExact
  <2>1. blocked = AllBlocked
    BY <1>4 DEF MatchExact, IInv, BlockedSoFar
  <2>2. \A side \in Sides : {e \in Exact(side) : ContestedKey(side, e)} = {}
    BY <2>1, NoContestedKeys
  <2> DEFINE new ==
            UNION {{GroupAmbiguity("endpoint_exact_key", "endpoint", ExactKey(side, e),
                                   ExactGroup(side, e)) :
                        e \in {e \in Exact(side) : ContestedKey(side, e)}} :
                   side \in Sides}
  <2>3. ambiguities' = AddAmbiguities(ambiguities, new)
    BY <1>4 DEF MatchExact
  <2>4. \A a \in new : WellFormed(a)
    BY <2>2
  <2> HIDE DEF new
  <2> QED
    BY <2>3, <2>4, ReportsAreSound
<1>5. CASE CompareFacts
  <2> DEFINE new ==
            UNION {{GroupAmbiguity(AmbiguityKind(kind), kind, key, FactGroup(kind, key)) :
                        key \in {key \in Keys(kind) : ContestedFact(kind, key)}} :
                   kind \in ComparedKinds}
  <2>1. ambiguities' = AddAmbiguities(ambiguities, new)
    BY <1>5 DEF CompareFacts
  <2>2. \A a \in new : WellFormed(a)
    <3> TAKE a \in new
    <3>1. PICK kind \in ComparedKinds : \E key \in Keys(kind) :
            /\ ContestedFact(kind, key)
            /\ a = GroupAmbiguity(AmbiguityKind(kind), kind, key, FactGroup(kind, key))
      OBVIOUS
    <3>2. PICK key \in Keys(kind) :
            /\ ContestedFact(kind, key)
            /\ a = GroupAmbiguity(AmbiguityKind(kind), kind, key, FactGroup(kind, key))
      BY <3>1
    <3> QED
      BY <3>2, ContestedGroupIsWellFormed DEF ContestedFact
  <2> HIDE DEF new
  <2> QED
    BY <2>1, <2>2, ReportsAreSound
<1>6. CASE MatchRoutes \/ CompareEndpoints \/ Validate \/ UNCHANGED vars
  <2>1. ambiguities' = ambiguities
    BY <1>6 DEF MatchRoutes, CompareEndpoints, Validate, vars
  <2> QED
    BY <2>1 DEF AmbiguitiesAreSound, OnePerIdentity, WellFormed, Identity
<1> QED
  BY <1>1, <1>2, <1>3, <1>4, <1>5, <1>6 DEF Next

\* An ambiguity is merged into one that has all its sides and candidates.
LEMMA MergingLosesNothing ==
    ASSUME NEW index, NEW new, NEW a \in index \cup new
    PROVE  \E m \in AddAmbiguities(index, new) :
                /\ m.of = a.of /\ m.key = a.key /\ a.sides \subseteq m.sides
                /\ \A side \in Sides : a.candidates[side] \subseteq m.candidates[side]
<1> DEFINE same == {x \in index \cup new : Identity(x) = Identity(a)}
           m == Merged(same, a)
<1>1. m \in AddAmbiguities(index, new)
  BY DEF AddAmbiguities
<1>2. /\ m.of = a.of /\ m.key = a.key
      /\ m.sides = UNION {x.sides : x \in same}
      /\ \A side \in Sides : m.candidates[side] = UNION {x.candidates[side] : x \in same}
  BY DEF Merged
<1>3. a \in same
  OBVIOUS
<1> HIDE DEF m, same
<1> QED
  BY <1>1, <1>2, <1>3

\* CompareFacts explains every key that is shared.
LEMMA FactsAreCompared ==
    ASSUME CompareFacts, FactsListed
    PROVE  (FactsListed /\ SharedAreExplained)'
<1>1. docs' = docs
  BY DEF CompareFacts
<1>2. {c \in changes' : c.of # "endpoint"} = AllFactChanges
  <2>1. changes' = changes \cup AllFactChanges
    BY DEF CompareFacts, AllFactChanges
  <2>2. \A c \in changes : c.of = "endpoint"
    BY DEF CompareFacts, FactsListed
  <2>3. \A c \in AllFactChanges : c.of # "endpoint"
    <3> TAKE c \in AllFactChanges
    <3>1. PICK kind \in ComparedKinds : \E key : c \in FactChanges(kind, key)
      BY DEF AllFactChanges
    <3>2. c.of = kind
      BY <3>1 DEF FactChanges, Change
    <3> QED
      BY <3>1, <3>2 DEF ComparedKinds, InteractionKinds, BranchKinds
  <2> QED
    BY <2>1, <2>2, <2>3
<1>3. ASSUME NEW kind \in ComparedKinds, NEW key \in Keys(kind), ContestedFact(kind, key)
      PROVE  \E m \in ambiguities' : Explains(m, kind, key)
  <2> DEFINE new ==
            UNION {{GroupAmbiguity(AmbiguityKind(k), k, y, FactGroup(k, y)) :
                        y \in {y \in Keys(k) : ContestedFact(k, y)}} :
                   k \in ComparedKinds}
             a == GroupAmbiguity(AmbiguityKind(kind), kind, key, FactGroup(kind, key))
  <2>1. ambiguities' = AddAmbiguities(ambiguities, new)
    BY DEF CompareFacts
  <2>2. a \in new
    BY <1>3
  <2>3. /\ a.of = kind /\ a.key = key
        /\ a.sides = {s \in Sides : Several(FactGroup(kind, key)[s])}
        /\ \A s \in Sides : a.candidates[s] = {x.id : x \in FactGroup(kind, key)[s]}
    BY DEF GroupAmbiguity
  <2> HIDE DEF new, a
  <2>4. PICK m \in ambiguities' :
                /\ m.of = a.of /\ m.key = a.key /\ a.sides \subseteq m.sides
                /\ \A side \in Sides : a.candidates[side] \subseteq m.candidates[side]
    BY <2>1, <2>2, MergingLosesNothing
  <2>5. Explains(m, kind, key)
    BY <2>3, <2>4 DEF Explains
  <2> QED
    BY <2>5
<1>4. phase' = "validate"
  BY DEF CompareFacts
<1>5. FactsListed'
  BY <1>1, <1>2, <1>4, RecordsStay DEF FactsListed
<1>6. /\ \A kind : Keys(kind)' = Keys(kind)
      /\ \A kind, key : ContestedFact(kind, key)' = ContestedFact(kind, key)
      /\ \A a, kind, key : Explains(a, kind, key)' = Explains(a, kind, key)
  BY <1>1, RecordsStay
<1>7. SharedAreExplained'
  BY <1>3, <1>6 DEF SharedAreExplained
<1> QED
  BY <1>5, <1>7

LEMMA FactInvHolds == IInv /\ ReportInv /\ AccountInv /\ FactInv /\ [Next]_vars => FactInv'
<1> SUFFICES ASSUME IInv, ReportInv, AccountInv, FactInv, [Next]_vars PROVE FactInv'
  OBVIOUS
<1>1. docs' = docs
  BY EndpointsStay
<1>2. AmbiguitiesAreSound'
  BY AmbiguitiesStaySound DEF FactInv
<1>3. RecordsAreUnique'
  BY <1>1, RecordsStay DEF FactInv
<1>4. FactsListed' /\ SharedAreExplained'
  <2>1. CASE CompareFacts
    BY <2>1, FactsAreCompared DEF FactInv
  <2>2. CASE Validate \/ UNCHANGED vars
    <3>1. /\ ambiguities' = ambiguities /\ changes' = changes
          /\ phase' \in {"validate", "done"} => phase \in {"validate", "done"}
          /\ phase' = "facts" => phase = "facts"
      BY <2>2 DEF Validate, vars
    <3> QED
      BY <1>1, <3>1, RecordsStay DEF FactInv, FactsListed, SharedAreExplained
  <2>3. CASE CompareEndpoints
    <3>1. phase' = "facts" /\ changes' = Modified \cup Removed \cup Added
      BY <2>3 DEF CompareEndpoints, Modified, Removed, Added
    <3>2. \A c \in changes' : c.of = "endpoint"
      BY <3>1 DEF Modified, Removed, Added, Change
    <3> QED
      BY <3>1, <3>2 DEF FactsListed, SharedAreExplained
  <2>4. CASE phase' \notin {"facts", "validate", "done"}
    BY <2>4 DEF FactsListed, SharedAreExplained
  <2>5. \/ phase' \notin {"facts", "validate", "done"}
        \/ CompareEndpoints \/ CompareFacts \/ Validate \/ UNCHANGED vars
    BY DEF Next, vars, ReportCollisions, CheckSlots, CheckIdentities, MatchExact,
         MatchRoutes, CompareEndpoints, CompareFacts, Validate
  <2> QED
    BY <2>1, <2>2, <2>3, <2>4, <2>5
<1> QED
  BY <1>2, <1>3, <1>4 DEF FactInv

-----------------------------------------------------------------------------
\* A change of records of a kind comes from one key of that kind, which no side
\* shares, and the records it names are those of the key.
LEMMA ChangeOfFacts ==
    ASSUME FactsListed, phase \in {"validate", "done"},
           NEW c \in changes, c.of # "endpoint"
    PROVE  \E kind \in ComparedKinds : \E key \in Keys(kind) :
                ~ContestedFact(kind, key) /\ c \in FactChanges(kind, key)
<1>1. c \in AllFactChanges
  BY DEF FactsListed
<1>2. PICK kind \in ComparedKinds : \E key \in Keys(kind) :
                ~ContestedFact(kind, key) /\ c \in FactChanges(kind, key)
  BY <1>1 DEF AllFactChanges
<1> QED
  BY <1>2

\* What a change of the records of a key is.
LEMMA FactChangeShape ==
    ASSUME NEW kind, NEW key, NEW c \in FactChanges(kind, key)
    PROVE  /\ c.of = kind /\ c.key = key
           /\ c.before = {r.id : r \in FactGroup(kind, key)["before"]}
           /\ c.after = {r.id : r \in FactGroup(kind, key)["after"]}
           /\ \A side \in Sides : c[side] = {r.id : r \in FactGroup(kind, key)[side]}
           /\ c.change = IF FactGroup(kind, key)["before"] = {} THEN "added"
                         ELSE IF FactGroup(kind, key)["after"] = {} THEN "removed" ELSE "modified"
           /\ \A d \in FactChanges(kind, key) : d = c
<1> DEFINE before == FactGroup(kind, key)["before"]
           after == FactGroup(kind, key)["after"]
<1>1. FactChanges(kind, key) \subseteq {Change(kind, key, before, after, FactReasons(before, after))}
  BY DEF FactChanges
<1>2. c = Change(kind, key, before, after, FactReasons(before, after))
  BY <1>1
<1> HIDE DEF before, after
<1>3. /\ c.of = kind /\ c.key = key
      /\ c.before = {r.id : r \in before} /\ c.after = {r.id : r \in after}
      /\ c.change = IF before = {} THEN "added" ELSE IF after = {} THEN "removed" ELSE "modified"
  BY <1>2 DEF Change
<1>4. \A side \in Sides : c[side] = {r.id : r \in FactGroup(kind, key)[side]}
  BY <1>3 DEF Sides, before, after
<1>5. \A d \in FactChanges(kind, key) : d = c
  BY <1>1, <1>2
<1> QED
  BY <1>3, <1>4, <1>5 DEF before, after

\* A record named by a change of its kind has the key of the change.
LEMMA NamedHasTheKey ==
    ASSUME RecordsAreUnique, NEW kind, NEW key, NEW side \in Sides,
           NEW r \in docs[side].records, r.kind = kind,
           r.id \in {q.id : q \in FactGroup(kind, key)[side]}
    PROVE  ComparedKey(r) = key
<1>1. PICK q \in FactGroup(kind, key)[side] : q.id = r.id
  OBVIOUS
<1>2. q \in docs[side].records /\ q.kind = kind /\ ComparedKey(q) = key
  BY <1>1 DEF FactGroup
<1> QED
  BY <1>1, <1>2 DEF RecordsAreUnique

LEMMA RecordIsInItsGroup ==
    ASSUME NEW side \in Sides, NEW r \in docs[side].records
    PROVE  r \in FactGroup(r.kind, ComparedKey(r))[side] /\ ComparedKey(r) \in Keys(r.kind)
BY DEF FactGroup, Keys

\* For every pair of canonical documents, records that share a key are reported
\* together as an ambiguity of their side, and no change names one of them.
LEMMA SharedFollow == FactInv => SharedKeysAreNeverResolved
<1> SUFFICES ASSUME FactInv, phase = "done", NEW side \in Sides,
                    NEW r \in docs[side].records, NEW q \in docs[side].records,
                    r # q, r.kind = q.kind, r.kind \in ComparedKinds,
                    ComparedKey(r) = ComparedKey(q)
             PROVE  /\ \E a \in ambiguities :
                        a.of = r.kind /\ side \in a.sides /\ {r.id, q.id} \subseteq a.candidates[side]
                    /\ \A c \in changes : c.of = r.kind => r.id \notin c[side]
  BY DEF SharedKeysAreNeverResolved
<1> DEFINE key == ComparedKey(r)
           group == FactGroup(r.kind, key)[side]
<1>1. r \in group /\ q \in group /\ key \in Keys(r.kind)
  BY RecordIsInItsGroup
<1>2. Several(group) /\ ContestedFact(r.kind, key)
  BY <1>1 DEF ContestedFact, Several
<1>3. PICK a \in ambiguities : Explains(a, r.kind, key)
  BY <1>1, <1>2 DEF FactInv, SharedAreExplained
<1>4. a.of = r.kind /\ side \in a.sides /\ {x.id : x \in group} \subseteq a.candidates[side]
  BY <1>2, <1>3 DEF Explains
<1>5. ASSUME NEW c \in changes, c.of = r.kind, r.id \in c[side] PROVE FALSE
  <2>1. c.of # "endpoint"
    BY <1>5 DEF ComparedKinds, InteractionKinds, BranchKinds
  <2>2. PICK kind \in ComparedKinds : \E y \in Keys(kind) :
                ~ContestedFact(kind, y) /\ c \in FactChanges(kind, y)
    BY <1>5, <2>1, ChangeOfFacts DEF FactInv
  <2>3. PICK y \in Keys(kind) : ~ContestedFact(kind, y) /\ c \in FactChanges(kind, y)
    BY <2>2
  <2>4. kind = r.kind /\ r.id \in {x.id : x \in FactGroup(kind, y)[side]}
    BY <1>5, <2>3, FactChangeShape
  <2>5. y = key
    BY <2>4, NamedHasTheKey DEF FactInv
  <2> QED
    BY <1>2, <2>3, <2>4, <2>5
<1>6. {r.id, q.id} \subseteq a.candidates[side]
  BY <1>1, <1>4
<1> QED
  BY <1>4, <1>5, <1>6

-----------------------------------------------------------------------------
\* The reasons of a change of records: none exactly when both sides have the
\* key and no detail differs.
LEMMA NoReasons ==
    ASSUME NEW b, NEW a
    PROVE  FactReasons({b}, {a}) = {} <=> Detail(b) = Detail(a)
<1> DEFINE word(i) == <<"state", "rule">>[i]
           Differing(x, y) == {word(i) : i \in {i \in 1..2 : Detail(x)[i] # Detail(y)[i]}}
           All == {Differing(x, y) : x \in {b}, y \in {a}}
<1>1. FactReasons({b}, {a}) = UNION All
  BY DEF FactReasons
<1>2. FactReasons({b}, {a}) = Differing(b, a)
  <2> HIDE DEF Differing
  <2>1. \A S : S \in All <=> \E x \in {b}, y \in {a} : S = Differing(x, y)
    OBVIOUS
  <2>2. \A S : S \in All <=> S = Differing(b, a)
    BY <2>1
  <2> HIDE DEF All
  <2>3. All = {Differing(b, a)}
    BY <2>2
  <2>4. UNION All = Differing(b, a)
    BY <2>3
  <2> QED
    BY <1>1, <2>4
<1> HIDE DEF word
<1>3. (Differing(b, a) = {}) <=> (\A i \in 1..2 : Detail(b)[i] = Detail(a)[i])
  <2>1. \A i \in 1..2 : Detail(b)[i] # Detail(a)[i] => word(i) \in Differing(b, a)
    OBVIOUS
  <2>2. (\A i \in 1..2 : Detail(b)[i] = Detail(a)[i])
            => {i \in 1..2 : Detail(b)[i] # Detail(a)[i]} = {}
    OBVIOUS
  <2> QED
    BY <2>1, <2>2
<1>4. (\A i \in 1..2 : Detail(b)[i] = Detail(a)[i])
        <=> (Detail(b)[1] = Detail(a)[1] /\ Detail(b)[2] = Detail(a)[2])
  BY SMT
<1>5. (Detail(b)[1] = Detail(a)[1] /\ Detail(b)[2] = Detail(a)[2]) <=> Detail(b) = Detail(a)
  BY DEF Detail
<1> HIDE DEF Differing
<1> QED
  BY <1>2, <1>3, <1>4, <1>5

\* A key no side shares has at most one record on each side.
LEMMA AtMostOneRecord ==
    ASSUME NEW kind, NEW key, ~ContestedFact(kind, key), NEW side \in Sides
    PROVE  FactGroup(kind, key)[side] = {} \/ \E r : FactGroup(kind, key)[side] = {r}
BY DEF ContestedFact, Several

\* What the reader of the diff sees under a key, on one side.
LEMMA ViewOfAKey ==
    ASSUME NEW side \in Sides, NEW kind, NEW key, NEW detail
    PROVE  <<key, detail>> \in View(side, kind)
                <=> \E r \in FactGroup(kind, key)[side] : detail = Detail(r)
BY DEF View, FactGroup

\* Under a key that no side shares, the diff reports all of a side or nothing.
LEMMA ReportedOfAKey ==
    ASSUME FactInv, phase = "done", NEW side \in Sides, NEW kind \in ComparedKinds,
           NEW key, ~ContestedFact(kind, key), NEW detail
    PROVE  <<key, detail>> \in Reported(side, kind)
                <=> FactChanges(kind, key) # {} /\ <<key, detail>> \in View(side, kind)
<1>0. kind # "endpoint"
  BY DEF ComparedKinds, InteractionKinds, BranchKinds
<1>1. ASSUME <<key, detail>> \in Reported(side, kind)
      PROVE  FactChanges(kind, key) # {} /\ <<key, detail>> \in View(side, kind)
  <2>1. PICK r \in docs[side].records :
            /\ r.kind = kind /\ key = ComparedKey(r) /\ detail = Detail(r)
            /\ \E c \in changes : c.of = kind /\ r.id \in c[side]
    BY <1>1 DEF Reported
  <2>2. PICK c \in changes : c.of = kind /\ r.id \in c[side]
    BY <2>1
  <2>3. PICK k \in ComparedKinds : \E y \in Keys(k) :
                ~ContestedFact(k, y) /\ c \in FactChanges(k, y)
    BY <1>0, <2>2, ChangeOfFacts DEF FactInv
  <2>4. PICK y \in Keys(k) : ~ContestedFact(k, y) /\ c \in FactChanges(k, y)
    BY <2>3
  <2>5. k = kind /\ r.id \in {x.id : x \in FactGroup(k, y)[side]}
    BY <2>2, <2>4, FactChangeShape
  <2>6. y = key
    BY <2>1, <2>5, NamedHasTheKey DEF FactInv
  <2>7. <<key, detail>> \in View(side, kind)
    BY <2>1 DEF View
  <2> QED
    BY <2>4, <2>5, <2>6, <2>7
<1>2. ASSUME FactChanges(kind, key) # {}, <<key, detail>> \in View(side, kind)
      PROVE  <<key, detail>> \in Reported(side, kind)
  <2>1. PICK r \in FactGroup(kind, key)[side] : detail = Detail(r)
    BY <1>2, ViewOfAKey
  <2>2. r \in docs[side].records /\ r.kind = kind /\ ComparedKey(r) = key
    BY <2>1 DEF FactGroup
  <2>3. PICK c : c \in FactChanges(kind, key)
    BY <1>2
  <2>4. c.of = kind /\ r.id \in c[side]
    BY <2>1, <2>3, FactChangeShape
  <2>5. key \in Keys(kind)
    BY <2>2 DEF Keys
  <2>6. c \in AllFactChanges
    BY <2>3, <2>5 DEF AllFactChanges
  <2>7. c \in changes
    BY <2>6 DEF FactInv, FactsListed
  <2> QED
    BY <2>1, <2>2, <2>4, <2>7 DEF Reported
<1> QED
  BY <1>1, <1>2

\* Without a change under a key that no side shares, both sides show the same.
LEMMA UnchangedShowsTheSame ==
    ASSUME NEW kind \in ComparedKinds, kind # "assertion",
           NEW key, ~ContestedFact(kind, key), FactChanges(kind, key) = {}, NEW detail
    PROVE  <<key, detail>> \in View("before", kind) <=> <<key, detail>> \in View("after", kind)
<1> DEFINE before == FactGroup(kind, key)["before"]
           after == FactGroup(kind, key)["after"]
<1>1. FactReasons(before, after) = {}
  BY DEF FactChanges
<1>2. before # {} /\ after # {}
  BY <1>1 DEF FactReasons
<1>3. PICK b : before = {b}
  BY <1>2, AtMostOneRecord DEF Sides
<1>4. PICK a : after = {a}
  BY <1>2, AtMostOneRecord DEF Sides
<1>5. Detail(b) = Detail(a)
  BY <1>1, <1>3, <1>4, NoReasons
<1> QED
  BY <1>3, <1>4, <1>5, ViewOfAKey DEF Sides

LEMMA DiffFollows == FactInv => DiffReproducesTheLaterDocument
<1> SUFFICES ASSUME FactInv, phase = "done",
                    NEW kind \in ComparedKinds \ {"assertion"}
             PROVE  Settled(kind, (View("before", kind) \ Reported("before", kind))
                                    \cup Reported("after", kind))
                    = Settled(kind, View("after", kind))
  BY DEF DiffReproducesTheLaterDocument
<1> DEFINE told == (View("before", kind) \ Reported("before", kind)) \cup Reported("after", kind)
<1>1. ASSUME NEW key, NEW detail, key \notin AmbiguousKeys(kind)
      PROVE  <<key, detail>> \in told <=> <<key, detail>> \in View("after", kind)
  <2>1. ~ContestedFact(kind, key)
    <3> SUFFICES ASSUME ContestedFact(kind, key) PROVE FALSE
      OBVIOUS
    <3>1. PICK side \in Sides : Several(FactGroup(kind, key)[side])
      BY DEF ContestedFact
    <3>2. PICK r : r \in FactGroup(kind, key)[side]
      BY <3>1 DEF Several
    <3>3. key \in Keys(kind)
      BY <3>2 DEF FactGroup, Keys
    <3>4. PICK a \in ambiguities : Explains(a, kind, key)
      BY <3>3 DEF FactInv, SharedAreExplained
    <3> QED
      BY <1>1, <3>4 DEF Explains, AmbiguousKeys
  <2>2. \A side \in Sides : <<key, detail>> \in Reported(side, kind)
                <=> FactChanges(kind, key) # {} /\ <<key, detail>> \in View(side, kind)
    BY <2>1, ReportedOfAKey
  <2>3. CASE FactChanges(kind, key) = {}
    BY <2>1, <2>2, <2>3, UnchangedShowsTheSame DEF Sides
  <2>4. CASE FactChanges(kind, key) # {}
    BY <2>2, <2>4 DEF Sides
  <2> QED
    BY <2>3, <2>4
<1>2. \A v \in told \cup View("after", kind) : v = <<v[1], v[2]>>
  BY DEF View, Reported
<1>3. \A v \in told \cup View("after", kind) :
        v[1] \notin AmbiguousKeys(kind) => (v \in told <=> v \in View("after", kind))
  BY <1>1, <1>2
<1> HIDE DEF told
<1>4. Settled(kind, told) = Settled(kind, View("after", kind))
  BY <1>3 DEF Settled
<1> QED
  BY <1>4 DEF told

-----------------------------------------------------------------------------
\* The diff that is validated is valid: its endpoint changes.
EndpointChanges == Modified \cup Removed \cup Added

LEMMA EndpointChangeShape ==
    ASSUME NEW c \in EndpointChanges
    PROVE  \/ /\ c \in Modified
              /\ \E p \in matched : c = Change("endpoint", <<p[1].route>>, {p[1]}, {p[2]},
                                              EndpointReasons(p[1], p[2]))
                                    /\ c.of = "endpoint" /\ c.key = <<p[1].route>>
                                    /\ c.before = {p[1].id} /\ c.after = {p[2].id}
                                    /\ c.change = "modified"
           \/ /\ c \in Removed
              /\ \E e \in Unused("before") :
                    c = Change("endpoint", <<e.route>>, {e}, {}, {"endpoint_removed"})
                    /\ c.of = "endpoint" /\ c.key = <<e.route>>
                    /\ c.before = {e.id} /\ c.after = {} /\ c.change = "removed"
           \/ /\ c \in Added
              /\ \E e \in Unused("after") :
                    c = Change("endpoint", <<e.route>>, {}, {e}, {"endpoint_added"})
                    /\ c.of = "endpoint" /\ c.key = <<e.route>>
                    /\ c.before = {} /\ c.after = {e.id} /\ c.change = "added"
<1>1. CASE c \in Modified
  <2>1. PICK p \in matched : c = Change("endpoint", <<p[1].route>>, {p[1]}, {p[2]},
                                        EndpointReasons(p[1], p[2]))
    BY <1>1 DEF Modified
  <2>2. /\ c.of = "endpoint" /\ c.key = <<p[1].route>>
        /\ c.before = {p[1].id} /\ c.after = {p[2].id} /\ c.change = "modified"
    BY <2>1 DEF Change
  <2> QED
    BY <1>1, <2>1, <2>2
<1>2. CASE c \in Removed
  <2>1. PICK e \in Unused("before") :
            c = Change("endpoint", <<e.route>>, {e}, {}, {"endpoint_removed"})
    BY <1>2 DEF Removed
  <2>2. /\ c.of = "endpoint" /\ c.key = <<e.route>>
        /\ c.before = {e.id} /\ c.after = {} /\ c.change = "removed"
    BY <2>1 DEF Change
  <2> QED
    BY <1>2, <2>1, <2>2
<1>3. CASE c \in Added
  <2>1. PICK e \in Unused("after") :
            c = Change("endpoint", <<e.route>>, {}, {e}, {"endpoint_added"})
    BY <1>3 DEF Added
  <2>2. /\ c.of = "endpoint" /\ c.key = <<e.route>>
        /\ c.before = {} /\ c.after = {e.id} /\ c.change = "added"
    BY <2>1 DEF Change
  <2> QED
    BY <1>3, <2>1, <2>2
<1> QED
  BY <1>1, <1>2, <1>3 DEF EndpointChanges

\* A pair names endpoints of the two documents that share a route.
LEMMA MatchedPair ==
    ASSUME IInv, phase = "validate", NEW p \in matched
    PROVE  /\ p = <<p[1], p[2]>> /\ p[1].route = p[2].route
           /\ p[1] \in docs["before"].endpoints /\ p[2] \in docs["after"].endpoints
BY DEF IInv, MatchedSoFar, Counterparts

LEMMA EndpointChangesAreValid ==
    ASSUME IInv, phase = "validate", NEW c \in EndpointChanges
    PROVE  /\ (c.change = "added") <=> (c.before = {})
           /\ (c.change = "removed") <=> (c.after = {})
           /\ KeepsItsKey(c)
<1>0. \A side \in Sides : \A x, y \in docs[side].endpoints : x.id = y.id => x = y
  BY DEF IInv, Canonical
<1>1. ASSUME NEW p \in matched,
             c.of = "endpoint", c.key = <<p[1].route>>,
             c.before = {p[1].id}, c.after = {p[2].id}, c.change = "modified"
      PROVE  /\ (c.change = "added") <=> (c.before = {})
             /\ (c.change = "removed") <=> (c.after = {})
             /\ KeepsItsKey(c)
  <2>1. /\ p[1].route = p[2].route
        /\ p[1] \in docs["before"].endpoints /\ p[2] \in docs["after"].endpoints
    BY MatchedPair
  <2>2. ASSUME NEW side \in Sides, NEW e \in docs[side].endpoints, e.id \in c[side]
        PROVE  <<e.route>> = c.key
    <3>1. CASE side = "before"
      BY <1>0, <1>1, <2>1, <2>2, <3>1
    <3>2. CASE side = "after"
      BY <1>0, <1>1, <2>1, <2>2, <3>2
    <3> QED
      BY <3>1, <3>2 DEF Sides
  <2>3. KeepsItsKey(c)
    BY <1>1, <2>2 DEF KeepsItsKey
  <2> QED
    BY <1>1, <2>3
<1>2. ASSUME NEW x \in Unused("before"),
             c.of = "endpoint", c.key = <<x.route>>,
             c.before = {x.id}, c.after = {}, c.change = "removed"
      PROVE  /\ (c.change = "added") <=> (c.before = {})
             /\ (c.change = "removed") <=> (c.after = {})
             /\ KeepsItsKey(c)
  <2>1. x \in docs["before"].endpoints
    BY DEF Unused
  <2>2. ASSUME NEW side \in Sides, NEW e \in docs[side].endpoints, e.id \in c[side]
        PROVE  <<e.route>> = c.key
    <3>1. side = "before" /\ e.id = x.id
      BY <1>2, <2>2 DEF Sides
    <3> QED
      BY <1>0, <1>2, <2>1, <3>1
  <2>3. KeepsItsKey(c)
    BY <1>2, <2>2 DEF KeepsItsKey
  <2> QED
    BY <1>2, <2>3
<1>3. ASSUME NEW x \in Unused("after"),
             c.of = "endpoint", c.key = <<x.route>>,
             c.before = {}, c.after = {x.id}, c.change = "added"
      PROVE  /\ (c.change = "added") <=> (c.before = {})
             /\ (c.change = "removed") <=> (c.after = {})
             /\ KeepsItsKey(c)
  <2>1. x \in docs["after"].endpoints
    BY DEF Unused
  <2>2. ASSUME NEW side \in Sides, NEW e \in docs[side].endpoints, e.id \in c[side]
        PROVE  <<e.route>> = c.key
    <3>1. side = "after" /\ e.id = x.id
      BY <1>3, <2>2 DEF Sides
    <3> QED
      BY <1>0, <1>3, <2>1, <3>1
  <2>3. KeepsItsKey(c)
    BY <1>3, <2>2 DEF KeepsItsKey
  <2> QED
    BY <1>3, <2>3
<1> QED
  BY <1>1, <1>2, <1>3, EndpointChangeShape

\* Two endpoint changes of one sort that name the same endpoints are one.
LEMMA EndpointChangesAreUnique ==
    ASSUME IInv, phase = "validate", NEW c \in EndpointChanges, NEW d \in EndpointChanges,
           c.change = d.change, c.before = d.before, c.after = d.after
    PROVE  c = d
<1>0. \A side \in Sides : \A x, y \in docs[side].endpoints : x.id = y.id => x = y
  BY DEF IInv, Canonical
<1>1. CASE c.change = "modified"
  <2>1. PICK p \in matched : /\ c = Change("endpoint", <<p[1].route>>, {p[1]}, {p[2]},
                                           EndpointReasons(p[1], p[2]))
                             /\ c.before = {p[1].id} /\ c.after = {p[2].id}
    BY <1>1, EndpointChangeShape
  <2>2. PICK q \in matched : /\ d = Change("endpoint", <<q[1].route>>, {q[1]}, {q[2]},
                                           EndpointReasons(q[1], q[2]))
                             /\ d.before = {q[1].id} /\ d.after = {q[2].id}
    BY <1>1, EndpointChangeShape
  <2>3. p[1].id = q[1].id /\ p[2].id = q[2].id
    BY <2>1, <2>2
  <2>4. p[1] = q[1] /\ p[2] = q[2]
    BY <1>0, <2>3, MatchedPair DEF Sides
  <2> QED
    BY <2>1, <2>2, <2>4
<1>2. CASE c.change = "removed"
  <2>1. PICK x \in Unused("before") :
            /\ c = Change("endpoint", <<x.route>>, {x}, {}, {"endpoint_removed"})
            /\ c.before = {x.id}
    BY <1>2, EndpointChangeShape
  <2>2. PICK y \in Unused("before") :
            /\ d = Change("endpoint", <<y.route>>, {y}, {}, {"endpoint_removed"})
            /\ d.before = {y.id}
    BY <1>2, EndpointChangeShape
  <2>3. x.id = y.id
    BY <2>1, <2>2
  <2>4. x = y
    BY <1>0, <2>3 DEF Unused, Sides
  <2> QED
    BY <2>1, <2>2, <2>4
<1>3. CASE c.change = "added"
  <2>1. PICK x \in Unused("after") :
            /\ c = Change("endpoint", <<x.route>>, {}, {x}, {"endpoint_added"})
            /\ c.after = {x.id}
    BY <1>3, EndpointChangeShape
  <2>2. PICK y \in Unused("after") :
            /\ d = Change("endpoint", <<y.route>>, {}, {y}, {"endpoint_added"})
            /\ d.after = {y.id}
    BY <1>3, EndpointChangeShape
  <2>3. x.id = y.id
    BY <2>1, <2>2
  <2>4. x = y
    BY <1>0, <2>3 DEF Unused, Sides
  <2> QED
    BY <2>1, <2>2, <2>4
<1> QED
  BY <1>1, <1>2, <1>3, EndpointChangeShape

-----------------------------------------------------------------------------
\* The changes of records are valid too.
LEMMA FactChangesAreValid ==
    ASSUME RecordsAreUnique, NEW kind \in ComparedKinds, NEW key \in Keys(kind),
           NEW c \in FactChanges(kind, key)
    PROVE  /\ (c.change = "added") <=> (c.before = {})
           /\ (c.change = "removed") <=> (c.after = {})
           /\ KeepsItsKey(c)
<1> DEFINE before == FactGroup(kind, key)["before"]
           after == FactGroup(kind, key)["after"]
<1>1. /\ c.of = kind /\ c.key = key
      /\ c.before = {r.id : r \in before} /\ c.after = {r.id : r \in after}
      /\ c.change = IF before = {} THEN "added" ELSE IF after = {} THEN "removed" ELSE "modified"
      /\ \A side \in Sides : c[side] = {r.id : r \in FactGroup(kind, key)[side]}
  BY FactChangeShape
<1>2. before # {} \/ after # {}
  <2>1. PICK side \in Sides : \E r \in docs[side].records : r.kind = kind /\ ComparedKey(r) = key
    BY DEF Keys
  <2>2. FactGroup(kind, key)[side] # {}
    BY <2>1 DEF FactGroup
  <2> QED
    BY <2>2 DEF Sides
<1>3. (before = {} <=> c.before = {}) /\ (after = {} <=> c.after = {})
  <2> HIDE DEF before, after
  <2>1. \A S : ({r.id : r \in S} = {}) <=> (S = {})
    OBVIOUS
  <2> QED
    BY <1>1, <2>1
<1>4. kind # "endpoint"
  BY DEF ComparedKinds, InteractionKinds, BranchKinds
<1>5. KeepsItsKey(c)
  BY <1>1, <1>4, NamedHasTheKey DEF KeepsItsKey
<1> HIDE DEF before, after
<1> QED
  BY <1>1, <1>2, <1>3, <1>5

LEMMA TheDiffIsValid ==
    ASSUME IInv, ReportInv, AccountInv, FactInv, phase = "validate"
    PROVE  ValidDiff
<1>1. \A c \in changes : c.of = "endpoint" => c \in EndpointChanges
  BY DEF AccountInv, ListedSoFar, EndpointChanges
<1>2. \A c \in changes : c.of # "endpoint" => \E kind \in ComparedKinds : \E key \in Keys(kind) :
                ~ContestedFact(kind, key) /\ c \in FactChanges(kind, key)
  BY ChangeOfFacts DEF FactInv
<1>3. ASSUME NEW c \in changes
      PROVE  /\ (c.change = "added") <=> (c.before = {})
             /\ (c.change = "removed") <=> (c.after = {})
             /\ KeepsItsKey(c)
  <2>1. CASE c.of = "endpoint"
    BY <1>1, <2>1, EndpointChangesAreValid
  <2>2. CASE c.of # "endpoint"
    <3>1. PICK kind \in ComparedKinds : \E key \in Keys(kind) : c \in FactChanges(kind, key)
      BY <1>2, <2>2
    <3>2. PICK key \in Keys(kind) : c \in FactChanges(kind, key)
      BY <3>1
    <3>3. RecordsAreUnique
      BY DEF FactInv
    <3> QED
      BY <3>2, <3>3, FactChangesAreValid
  <2> QED
    BY <2>1, <2>2
<1>4. ASSUME NEW c \in changes, NEW d \in changes, SameChange(c, d)
      PROVE  c = d
  <2>1. c.of = d.of /\ c.change = d.change /\ c.key = d.key
    BY <1>4 DEF SameChange
  <2>2. CASE c.of = "endpoint"
    <3>1. c.before = d.before /\ c.after = d.after
      BY <1>4, <2>2 DEF SameChange
    <3> QED
      BY <1>1, <2>1, <2>2, <3>1, EndpointChangesAreUnique
  <2>3. CASE c.of # "endpoint"
    <3>1. PICK kind \in ComparedKinds : \E key \in Keys(kind) : c \in FactChanges(kind, key)
      BY <1>2, <2>3
    <3>2. PICK key \in Keys(kind) : c \in FactChanges(kind, key)
      BY <3>1
    <3>3. PICK k \in ComparedKinds : \E y \in Keys(k) : d \in FactChanges(k, y)
      BY <1>2, <2>1, <2>3
    <3>4. PICK y \in Keys(k) : d \in FactChanges(k, y)
      BY <3>3
    <3>5. c.of = kind /\ c.key = key
      BY <3>2, FactChangeShape
    <3>6. d.of = k /\ d.key = y
      BY <3>4, FactChangeShape
    <3>7. d \in FactChanges(kind, key)
      BY <2>1, <3>4, <3>5, <3>6
    <3> QED
      BY <3>2, <3>7, FactChangeShape
  <2> QED
    BY <2>2, <2>3
<1>5. \A a \in ambiguities :
        /\ a.sides # {}
        /\ \A side \in a.sides : a.candidates[side] # {}
        /\ \A b \in ambiguities : Identity(a) = Identity(b) => a = b
  BY DEF FactInv, AmbiguitiesAreSound, WellFormed, OnePerIdentity
<1> QED
  BY <1>3, <1>4, <1>5 DEF ValidDiff

\* The comparison so far is sound, and its result was not refused.
DiffInv == ReportInv /\ AccountInv /\ FactInv /\ phase # "rejected"

LEMMA DiffInvHolds == IInv /\ DiffInv /\ [Next]_vars => DiffInv'
<1> SUFFICES ASSUME IInv, DiffInv, [Next]_vars PROVE DiffInv'
  OBVIOUS
<1>1. ReportInv'
  BY ReportInvHolds DEF DiffInv
<1>2. AccountInv'
  BY SlotsCover, AmbiguousStayCovered, ListStays DEF IInv, DiffInv, AccountInv
<1>3. FactInv'
  BY FactInvHolds DEF DiffInv
<1>4. phase' # "rejected"
  <2>1. CASE Validate
    <3>1. phase = "validate" /\ phase' = IF ValidDiff THEN "done" ELSE "rejected"
      BY <2>1 DEF Validate
    <3> QED
      BY <3>1, TheDiffIsValid DEF DiffInv
  <2>2. CASE ~Validate
    BY <2>2 DEF DiffInv, Next, vars, ReportCollisions, CheckSlots, CheckIdentities, MatchExact,
         MatchRoutes, CompareEndpoints, CompareFacts
  <2> QED
    BY <2>1, <2>2
<1> QED
  BY <1>1, <1>2, <1>3, <1>4 DEF DiffInv

LEMMA InitDiffInv == Init => DiffInv
<1> SUFFICES ASSUME Init PROVE DiffInv
  OBVIOUS
<1>1. PICK f \in Families : \E b \in f["before"], a \in f["after"] :
            docs = [before |-> b, after |-> a]
  BY DEF Init
<1>2. PICK b \in f["before"], a \in f["after"] : docs = [before |-> b, after |-> a]
  BY <1>1
<1>3. RecordsAreUnique
  <2>1. \A side \in Sides : docs[side] \in f[side]
    BY <1>2 DEF Sides
  <2>2. \A side \in Sides : \A d \in f[side] : \A r, q \in d.records :
            r.kind = q.kind /\ r.id = q.id => r = q
    BY FamiliesAssumption
  <2> QED
    BY <2>1, <2>2 DEF RecordsAreUnique
<1>4. /\ phase = "collisions" /\ ambiguities = {} /\ changes = {}
  BY DEF Init
<1> QED
  BY <1>3, <1>4 DEF DiffInv, ReportInv, SidesOfAmbiguities, NoChangesYet, AccountInv,
         ContestedAreCovered, AmbiguousAreCovered, ListedSoFar, FactInv, FactsListed,
         SharedAreExplained, AmbiguitiesAreSound, OnePerIdentity

\* For every pair of canonical documents, a record that shares its key is a
\* candidate of an ambiguity of its side and is named by no change.
THEOREM SharedKeysStayAmbiguous == Spec => []SharedKeysAreNeverResolved
<1>1. DiffInv => SharedKeysAreNeverResolved
  BY SharedFollow DEF DiffInv
<1> QED
  BY <1>1, InitIInv, NextIInv, InitDiffInv, DiffInvHolds, PTL DEF Spec

\* For every pair of canonical documents, applying the diff to what a reader
\* sees of the earlier one gives what is seen of the later one, for every kind
\* of records but assertions and every key that is not ambiguous.
THEOREM DiffsReproduce == Spec => []DiffReproducesTheLaterDocument
<1>1. DiffInv => DiffReproducesTheLaterDocument
  BY DiffFollows DEF DiffInv
<1> QED
  BY <1>1, InitIInv, NextIInv, InitDiffInv, DiffInvHolds, PTL DEF Spec

\* For every pair of canonical documents, the diff passes its own validation.
THEOREM DiffsAreValid == Spec => []DiffIsValid
<1>1. DiffInv => DiffIsValid
  BY DEF DiffInv, DiffIsValid
<1> QED
  BY <1>1, InitIInv, NextIInv, InitDiffInv, DiffInvHolds, PTL DEF Spec

=============================================================================
