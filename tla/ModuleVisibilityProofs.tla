------------------------ MODULE ModuleVisibilityProofs ------------------------
(***************************************************************************)
(* Proofs about the module visibility view, for any set of modules, any    *)
(* documents and any document order.  The re-export loop and the search    *)
(* have invariants of their own: what one pass has established so far, and *)
(* what the frames on the stack, the memo and the last answer say together.*)
(***************************************************************************)
EXTENDS ModuleVisibility, SequenceTheorems, TLAPS

-----------------------------------------------------------------------------
(* The invariants.                                                         *)

(* Re-exports of modules before the position have been respected since the
   last change. *)
PassedBy(i, j) == i < position[1] \/ (i = position[1] /\ j < position[2])

ExportsInv ==
    /\ \A classes \in [Modules -> SUBSET Classes] :
          RespectsExports(classes) => \A m \in Modules : exported[m] \subseteq classes[m]
    /\ \A m \in Modules : doc.exportsClasses[m] \subseteq exported[m]
    /\ phase = "exports" /\ ~changed =>
          \A i \in 1 .. Len(Order) : \A j \in 1 .. Len(ReexportsOf(i)) :
              PassedBy(i, j) => exported[ReexportsOf(i)[j]] \subseteq exported[Order[i]]
    /\ phase # "exports" => RespectsExports(exported)

ImportsModule(m, k) == \E j \in 1 .. Len(doc.imports[m]) : doc.imports[m][j] = k

(* The i-th frame is for a module that is neither incomplete nor cached, its
   rest lists imports of it, and it imports the module of the next frame. *)
FrameInv(frames, i) ==
    /\ frames[i].id \notin doc.incomplete
    /\ memo[frames[i].id] = "none"
    /\ \A j \in 1 .. Len(frames[i].rest) : ImportsModule(frames[i].id, frames[i].rest[j])
    /\ i < Len(frames) => ImportsModule(frames[i].id, frames[i + 1].id)

(* The modules on the stack form a chain of imports that starts at the module
   asked for. *)
StackInv ==
    /\ stack # <<>> \/ answer # "none" =>
          phase = "completeness" /\ position[1] \in 1 .. Len(Order)
    /\ stack # <<>> => stack[1].id = Order[position[1]]
    /\ \A i \in 1 .. Len(stack) : FrameInv(stack, i)

(* Every negative answer is justified. *)
JustifiedInv ==
    /\ \A m \in Modules : memo[m] = "no" => ReachesIncomplete(m)
    /\ \A m \in Modules : complete[m] = "no" => ReachesIncomplete(m)
    /\ answer = "no" => ReachesIncomplete(IF stack = <<>> THEN Order[position[1]] ELSE Top.id)

Good == {m \in Modules : memo[m] = "yes"}

(* An import k of the i-th frame's module is good, or still to be asked for,
   or being asked for, or it has just been found incomplete. *)
Settled(i, k) ==
    \/ k \in Good
    \/ \E n \in 1 .. Len(stack[i].rest) : stack[i].rest[n] = k
    \/ i < Len(stack) /\ stack[i + 1].id = k
    \/ i = Len(stack) /\ answer = "no"

FrameSettled(i) ==
    \A j \in 1 .. Len(doc.imports[stack[i].id]) : Settled(i, doc.imports[stack[i].id][j])

(* Without cycles, what is cached as complete is closed under imports. *)
GoodInv ==
    Acyclic =>
        /\ Good \cap doc.incomplete = {}
        /\ \A m \in Good : \A j \in 1 .. Len(doc.imports[m]) : doc.imports[m][j] \in Good
        /\ \A i \in 1 .. Len(stack) : FrameSettled(i)
        /\ \A m \in Modules : complete[m] = "yes" => m \in Good
        /\ answer = "yes" /\ stack = <<>> => Order[position[1]] \in Good

-----------------------------------------------------------------------------
(* Sequences of frames.                                                    *)

(* The document order lists modules. *)
LEMMA OrderMember ==
    ASSUME NEW i \in 1 .. Len(Order)
    PROVE  Order[i] \in Modules
BY OrderAssumption, ElementOfSeq

(* The lists of a document. *)
LEMMA DocumentFacts ==
    ASSUME TypeOK, NEW m \in Modules
    PROVE  /\ doc.imports[m] \in Seq(Modules)
           /\ doc.exportsModules[m] \in Seq(Modules)
           /\ doc.exportsClasses[m] \in SUBSET Classes
           /\ doc.incomplete \in SUBSET Modules
BY DEF TypeOK, DocumentType

(* The stack whose top frame has asked for its next import. *)
Asked == Append(Below, [Top EXCEPT !.rest = Tail(@)])

(* The innermost frame. *)
LEMMA TopFacts ==
    ASSUME TypeOK, stack # <<>>
    PROVE  /\ Len(stack) \in Nat \ {0}
           /\ Top \in Frame
           /\ Top.id \in Modules
           /\ Top.rest \in Seq(Modules)
           /\ \A i \in 1 .. Len(stack) : stack[i] \in Frame
<1>1. stack \in Seq(Frame)
  BY DEF TypeOK
<1>2. Len(stack) \in Nat \ {0}
  BY <1>1, EmptySeq
<1>3. \A i \in 1 .. Len(stack) : stack[i] \in Frame
  BY <1>1, ElementOfSeq
<1> QED
  BY <1>2, <1>3 DEF Top, Frame

(* A sequence without its last element. *)
LEMMA FrontFacts ==
    ASSUME NEW S, NEW s \in Seq(S), NEW n \in Nat, Len(s) = n + 1
    PROVE  /\ SubSeq(s, 1, n) \in Seq(S)
           /\ Len(SubSeq(s, 1, n)) = n
           /\ \A i \in 1 .. n : SubSeq(s, 1, n)[i] = s[i]
<1>1. \A i \in 1 .. n : s[i] \in S
  BY ElementOfSeq
<1> DEFINE front == SubSeq(s, 1, n)
<1>2. /\ front \in Seq(S)
      /\ Len(front) = IF 1 <= n THEN n - 1 + 1 ELSE 0
      /\ \A i \in 1 .. n - 1 + 1 : front[i] = s[1 + i - 1]
  BY <1>1, SubSeqProperties
<1> HIDE DEF front
<1>3. Len(front) = n
  BY <1>2
<1>4. \A i \in 1 .. n : front[i] = s[i]
  BY <1>2
<1> QED
  BY <1>2, <1>3, <1>4 DEF front

(* The frames below the innermost one. *)
LEMMA BelowFacts ==
    ASSUME TypeOK, stack # <<>>
    PROVE  /\ Below \in Seq(Frame)
           /\ Len(Below) = Len(stack) - 1
           /\ \A i \in 1 .. Len(Below) : Below[i] = stack[i]
<1>1. stack \in Seq(Frame) /\ Len(stack) \in Nat \ {0}
  BY TopFacts DEF TypeOK
<1>2. PICK n \in Nat : Len(stack) = n + 1
  BY <1>1
<1>3. Below = SubSeq(stack, 1, n)
  BY <1>2 DEF Below
<1> QED
  BY <1>1, <1>2, <1>3, FrontFacts

(* The stack once the innermost frame has taken its next import. *)
LEMMA AskedFacts ==
    ASSUME TypeOK, stack # <<>>, Top.rest # <<>>
    PROVE  /\ Asked \in Seq(Frame)
           /\ Len(Asked) = Len(stack)
           /\ \A i \in 1 .. Len(stack) : Asked[i].id = stack[i].id
           /\ \A i \in 1 .. Len(stack) : i < Len(stack) => Asked[i] = stack[i]
           /\ Asked[Len(stack)].rest = Tail(Top.rest)
           /\ Head(Top.rest) = Top.rest[1]
           /\ Head(Top.rest) \in Modules
           /\ Len(Tail(Top.rest)) = Len(Top.rest) - 1
           /\ Len(Top.rest) \in Nat \ {0}
           /\ \A n \in 1 .. Len(Tail(Top.rest)) : Tail(Top.rest)[n] = Top.rest[n + 1]
<1>1. /\ Top.rest \in Seq(Modules)
      /\ Top \in Frame
      /\ Len(stack) \in Nat \ {0}
  BY TopFacts
<1>2. /\ Tail(Top.rest) \in Seq(Modules)
      /\ Head(Top.rest) = Top.rest[1]
      /\ Head(Top.rest) \in Modules
      /\ Len(Tail(Top.rest)) = Len(Top.rest) - 1
      /\ Len(Top.rest) \in Nat \ {0}
      /\ \A n \in 1 .. Len(Tail(Top.rest)) : Tail(Top.rest)[n] = Top.rest[n + 1]
  BY <1>1
<1> DEFINE f == [Top EXCEPT !.rest = Tail(@)]
<1>3. f \in Frame /\ f.id = Top.id /\ f.rest = Tail(Top.rest)
  BY <1>1, <1>2 DEF Frame
<1>4. /\ Below \in Seq(Frame)
      /\ Len(Below) = Len(stack) - 1
      /\ \A i \in 1 .. Len(Below) : Below[i] = stack[i]
  BY BelowFacts
<1>5. /\ Asked \in Seq(Frame)
      /\ Len(Asked) = Len(Below) + 1
      /\ \A i \in 1 .. Len(Below) : Asked[i] = Below[i]
      /\ Asked[Len(Below) + 1] = f
  BY <1>3, <1>4, AppendProperties DEF Asked
<1>6. /\ Len(Asked) = Len(stack)
      /\ Asked[Len(stack)] = f
      /\ \A i \in 1 .. Len(stack) : i < Len(stack) => Asked[i] = stack[i]
  BY <1>1, <1>4, <1>5
<1>7. ASSUME NEW i \in 1 .. Len(stack)
      PROVE  Asked[i].id = stack[i].id
  <2>1. CASE i = Len(stack)
    BY <2>1, <1>3, <1>6 DEF Top
  <2>2. CASE i # Len(stack)
    BY <2>2, <1>1, <1>6
  <2> QED
    BY <2>1, <2>2
<1> QED
  BY <1>2, <1>3, <1>5, <1>6, <1>7

(* The frame that a call for m opens. *)
NewFrame(m) == [id |-> m, rest |-> doc.imports[m]]

(* A call returns what is cached, or yes for a module on the stack, or no for
   an incomplete one, or it opens a frame. *)
LEMMA CallCases ==
    ASSUME NEW m, NEW frames, Call(m, frames)
    PROVE  \/ memo[m] # "none" /\ stack' = frames /\ answer' = memo[m]
           \/ memo[m] = "none" /\ m \in Visiting /\ stack' = frames /\ answer' = "yes"
           \/ m \in doc.incomplete /\ stack' = frames /\ answer' = "no"
           \/ /\ memo[m] = "none"
              /\ m \notin Visiting
              /\ m \notin doc.incomplete
              /\ stack' = Append(frames, NewFrame(m))
              /\ answer' = "none"
BY DEF Call, NewFrame

-----------------------------------------------------------------------------
(* Types.                                                                  *)

(* The types hold at the start, *)
LEMMA TypeInit == Init => TypeOK
<1> SUFFICES ASSUME Init PROVE TypeOK
  OBVIOUS
<1>1. doc \in DocumentType
  BY FamiliesAssumption, SMTT(20) DEF Init, DocumentType
<1>2. exported \in [Modules -> SUBSET Classes]
  BY <1>1 DEF Init, DocumentType
<1>3. stack \in Seq(Frame) /\ \A i, j \in 1 .. Len(stack) : stack[i].id = stack[j].id => i = j
  BY EmptySeq DEF Init
<1>4. memo \in [Modules -> Verdicts \cup {"none"}] /\ complete \in [Modules -> Verdicts \cup {"none"}]
  BY DEF Init
<1>5. position \in (1 .. (Len(Order) + 1)) \X (Nat \ {0})
  BY OrderAssumption, LenProperties DEF Init
<1> QED
  BY <1>1, <1>2, <1>3, <1>4, <1>5 DEF Init, TypeOK

(* The frames of a stack have different ids. *)
DistinctIds(st) == \A i, j \in 1 .. Len(st) : st[i].id = st[j].id => i = j

(* A call keeps the types of the search, given that it is made on a stack
   with the ids of the current one. *)
LEMMA CallTypes ==
    ASSUME TypeOK, NEW m \in Modules, NEW frames \in Seq(Frame),
           Len(frames) = Len(stack),
           \A i \in 1 .. Len(stack) : frames[i].id = stack[i].id,
           Call(m, frames)
    PROVE  /\ stack' \in Seq(Frame)
           /\ DistinctIds(stack')
           /\ answer' \in Verdicts \cup {"none"}
<1>1. /\ stack \in Seq(Frame) /\ Len(stack) \in Nat
      /\ DistinctIds(stack)
      /\ memo[m] \in Verdicts \cup {"none"}
  BY DEF TypeOK, DistinctIds
<1>2. DistinctIds(frames)
  BY <1>1 DEF DistinctIds
<1>3. CASE stack' = frames /\ answer' \in Verdicts
  BY <1>2, <1>3
<1>4. CASE /\ m \notin Visiting
           /\ stack' = Append(frames, NewFrame(m))
           /\ answer' = "none"
  <2>1. NewFrame(m) \in Frame /\ NewFrame(m).id = m
    BY DocumentFacts DEF NewFrame, Frame
  <2>2. /\ stack' \in Seq(Frame)
        /\ Len(stack') = Len(stack) + 1
        /\ \A i \in 1 .. Len(stack) : stack'[i] = frames[i]
        /\ stack'[Len(stack) + 1] = NewFrame(m)
    BY <1>4, <2>1, AppendProperties
  <2>3. \A i \in 1 .. Len(stack) : stack'[i].id # m
    BY <1>4, <2>2 DEF Visiting
  <2>4. DistinctIds(stack')
    <3> SUFFICES ASSUME NEW i \in 1 .. Len(stack'), NEW j \in 1 .. Len(stack'),
                        stack'[i].id = stack'[j].id
                 PROVE  i = j
      BY DEF DistinctIds
    <3>1. CASE i \in 1 .. Len(stack) /\ j \in 1 .. Len(stack)
      BY <3>1, <1>1, <1>2, <2>2 DEF DistinctIds
    <3>2. CASE ~(i \in 1 .. Len(stack) /\ j \in 1 .. Len(stack))
      BY <3>2, <1>1, <2>1, <2>2, <2>3
    <3> QED
      BY <3>1, <3>2
  <2> QED
    BY <1>4, <2>2, <2>4
<1> QED
  BY <1>1, <1>3, <1>4, CallCases DEF Verdicts

(* and every step keeps them. *)
LEMMA TypeStep == TypeOK /\ StackInv /\ [Next]_vars => TypeOK'
<1> SUFFICES ASSUME TypeOK, StackInv, [Next]_vars PROVE TypeOK'
  OBVIOUS
<1>1. Len(Order) \in Nat
  BY OrderAssumption, LenProperties
<1>2. /\ position[1] \in 1 .. (Len(Order) + 1)
      /\ position[2] \in Nat \ {0}
      /\ position = <<position[1], position[2]>>
  BY DEF TypeOK
<1>3. CASE Reexport
  <2> DEFINE m == Order[position[1]]
             gained == exported[ReexportsOf(position[1])[position[2]]]
  <2>1. position[1] \in 1 .. Len(Order) /\ m \in Modules
    BY <1>1, <1>2, <1>3, OrderMember DEF Reexport, InPass
  <2>2. ReexportsOf(position[1])[position[2]] \in Modules
    <3>1. ReexportsOf(position[1]) \in Seq(Modules)
      BY <2>1, DocumentFacts DEF ReexportsOf
    <3> QED
      BY <3>1, <1>2, <1>3, ElementOfSeq DEF Reexport
  <2>3. gained \in SUBSET Classes
    BY <2>2 DEF TypeOK
  <2>4. exported' = [exported EXCEPT ![m] = @ \cup gained] /\ changed' \in BOOLEAN
    BY <1>3 DEF Reexport, TypeOK
  <2>5. exported' \in [Modules -> SUBSET Classes]
    BY <2>1, <2>3, <2>4 DEF TypeOK
  <2>6. position' \in (1 .. (Len(Order) + 1)) \X (Nat \ {0})
    BY <1>2, <1>3 DEF Reexport
  <2> QED
    BY <1>3, <2>4, <2>5, <2>6 DEF Reexport, TypeOK, search
<1>4. CASE NextModule
  <2>1. position' \in (1 .. (Len(Order) + 1)) \X (Nat \ {0})
    BY <1>1, <1>2, <1>4 DEF NextModule, InPass
  <2> QED
    BY <1>4, <2>1 DEF NextModule, TypeOK, search
<1>5. CASE EndPass
  <2>1. position' \in (1 .. (Len(Order) + 1)) \X (Nat \ {0})
    BY <1>1, <1>5 DEF EndPass
  <2> QED
    BY <1>5, <2>1 DEF EndPass, TypeOK, search
<1>6. CASE AskModule
  <2>1. Order[position[1]] \in Modules /\ <<>> \in Seq(Frame) /\ Len(stack) = 0
    BY <1>1, <1>2, <1>6, OrderMember, EmptySeq DEF AskModule
  <2>2. /\ stack' \in Seq(Frame)
        /\ DistinctIds(stack')
        /\ answer' \in Verdicts \cup {"none"}
    BY <1>6, <2>1, CallTypes, EmptySeq DEF AskModule
  <2> QED
    BY <1>6, <2>2 DEF AskModule, TypeOK, DistinctIds, fixpoint
<1>7. CASE AskImport
  <2>1. /\ stack' \in Seq(Frame)
        /\ DistinctIds(stack')
        /\ answer' \in Verdicts \cup {"none"}
    BY <1>7, AskedFacts, CallTypes DEF AskImport, Asked
  <2> QED
    BY <1>7, <2>1 DEF AskImport, TypeOK, DistinctIds, fixpoint
<1>8. CASE Leave
  <2>1. /\ stack' \in Seq(Frame)
        /\ \A i, j \in 1 .. Len(stack') : stack'[i].id = stack'[j].id => i = j
    <3>1. stack # <<>> /\ stack' = Below
      BY <1>8 DEF Leave
    <3>2. /\ Below \in Seq(Frame)
          /\ Len(Below) = Len(stack) - 1
          /\ \A i \in 1 .. Len(Below) : Below[i] = stack[i]
          /\ Len(stack) \in Nat \ {0}
      BY <3>1, BelowFacts, TopFacts
    <3> QED
      BY <3>1, <3>2, SMTT(20) DEF TypeOK
  <2>2. answer' \in Verdicts
    BY <1>8 DEF Leave, Verdicts
  <2>3. memo' \in [Modules -> Verdicts \cup {"none"}]
    BY <1>8, <2>2, TopFacts DEF Leave, TypeOK
  <2> QED
    BY <1>8, <2>1, <2>2, <2>3 DEF Leave, TypeOK, fixpoint
<1>9. CASE SetComplete
  <2>1. position' \in (1 .. (Len(Order) + 1)) \X (Nat \ {0})
    BY <1>1, <1>2, <1>9 DEF SetComplete, StackInv
  <2>2. complete' \in [Modules -> Verdicts \cup {"none"}] /\ answer' = "none"
    BY <1>9 DEF SetComplete, TypeOK
  <2> QED
    BY <1>9, <2>1, <2>2 DEF SetComplete, TypeOK
<1>10. CASE Finish
  BY <1>10 DEF Finish, TypeOK, fixpoint, search
<1>11. CASE UNCHANGED vars
  BY <1>11 DEF vars, TypeOK, fixpoint, search
<1> QED
  BY <1>3, <1>4, <1>5, <1>6, <1>7, <1>8, <1>9, <1>10, <1>11 DEF Next

-----------------------------------------------------------------------------
(* The re-export loop.                                                     *)

(* At the start every module exports its own classes. *)
LEMMA ExportsInit == Init => ExportsInv
<1> SUFFICES ASSUME Init PROVE ExportsInv
  OBVIOUS
<1>1. phase = "exports" /\ exported = doc.exportsClasses /\ position = <<1, 1>>
  BY DEF Init
<1>2. \A classes \in [Modules -> SUBSET Classes] :
         RespectsExports(classes) => \A m \in Modules : exported[m] \subseteq classes[m]
  BY <1>1 DEF RespectsExports
<1>3. \A i \in 1 .. Len(Order) : \A j \in 1 .. Len(ReexportsOf(i)) : ~PassedBy(i, j)
  BY <1>1 DEF PassedBy
<1> QED
  BY <1>1, <1>2, <1>3 DEF ExportsInv

(* The parts of a step the search takes leave the loop alone. *)
LEMMA ExportsStep == TypeOK /\ ExportsInv /\ [Next]_vars => ExportsInv'
<1> SUFFICES ASSUME TypeOK, ExportsInv, [Next]_vars PROVE ExportsInv'
  OBVIOUS
<1>1. Len(Order) \in Nat
  BY OrderAssumption, LenProperties
<1>2. /\ position[1] \in 1 .. (Len(Order) + 1)
      /\ position[2] \in Nat \ {0}
  BY DEF TypeOK
<1>a. \A i \in 1 .. Len(Order) :
         /\ Order[i] \in Modules
         /\ ReexportsOf(i) \in Seq(Modules)
         /\ Len(ReexportsOf(i)) \in Nat
         /\ \A j \in 1 .. Len(ReexportsOf(i)) : ReexportsOf(i)[j] \in Modules
  BY OrderMember, DocumentFacts, ElementOfSeq, LenProperties DEF ReexportsOf
<1>3. CASE Reexport
  <2> DEFINE m == Order[position[1]]
             k == ReexportsOf(position[1])[position[2]]
  <2>1. /\ position[1] \in 1 .. Len(Order)
        /\ position[2] \in 1 .. Len(ReexportsOf(position[1]))
        /\ phase = "exports" /\ phase' = phase /\ doc' = doc
    BY <1>a, <1>1, <1>2, <1>3 DEF Reexport, InPass
  <2>2. m \in Modules /\ k \in Modules
    BY <2>1, <1>a
  <2>3. /\ exported' = [exported EXCEPT ![m] = @ \cup exported[k]]
        /\ changed' = (changed \/ ~(exported[k] \subseteq exported[m]))
        /\ position' = <<position[1], position[2] + 1>>
    BY <1>3 DEF Reexport
  <2>4. /\ \A n \in Modules : exported[n] \subseteq exported'[n]
        /\ \A n \in Modules \ {m} : exported'[n] = exported[n]
        /\ exported'[m] = exported[m] \cup exported[k]
    BY <2>2, <2>3 DEF TypeOK
  <2>5. ASSUME NEW classes \in [Modules -> SUBSET Classes], RespectsExports(classes)',
               NEW n \in Modules
        PROVE  exported'[n] \subseteq classes[n]
    <3>1. RespectsExports(classes)
      BY <2>1, <2>5 DEF RespectsExports
    <3>2. exported[n] \subseteq classes[n] /\ exported[k] \subseteq classes[k]
      BY <3>1, <2>2 DEF ExportsInv
    <3>3. m = n => classes[k] \subseteq classes[n]
      BY <2>1, <2>2, <3>1 DEF RespectsExports, ReexportsOf
    <3> QED
      BY <2>4, <3>2, <3>3
  <2>6. \A n \in Modules : doc'.exportsClasses[n] \subseteq exported'[n]
    BY <2>1, <2>4 DEF ExportsInv
  <2>7. ASSUME ~changed', NEW i \in 1 .. Len(Order), NEW j \in 1 .. Len(ReexportsOf(i)'),
               PassedBy(i, j)'
        PROVE  exported'[ReexportsOf(i)'[j]] \subseteq exported'[Order[i]]
    <3>1. ~changed /\ exported[k] \subseteq exported[m]
      BY <2>3, <2>7 DEF TypeOK
    <3>2. exported' = exported
      BY <2>2, <2>3, <3>1 DEF TypeOK
    <3>3. ReexportsOf(i)' = ReexportsOf(i)
      BY <2>1 DEF ReexportsOf
    <3>4. PassedBy(i, j) \/ (i = position[1] /\ j = position[2])
      BY <2>3, <2>7, <1>2, <3>3, <1>a DEF PassedBy
    <3> QED
      BY <2>1, <3>1, <3>2, <3>3, <3>4 DEF ExportsInv
  <2> QED
    BY <2>1, <2>5, <2>6, <2>7 DEF ExportsInv
<1>4. CASE NextModule
  <2>1. /\ phase = "exports" /\ phase' = phase /\ doc' = doc
        /\ exported' = exported /\ changed' = changed
        /\ position[1] \in 1 .. Len(Order)
        /\ position' = <<position[1] + 1, 1>>
        /\ position[2] > Len(ReexportsOf(position[1]))
    BY <1>1, <1>2, <1>4 DEF NextModule, InPass
  <2>2. ASSUME NEW i \in 1 .. Len(Order), NEW j \in 1 .. Len(ReexportsOf(i)), PassedBy(i, j)'
        PROVE  PassedBy(i, j)
    BY <1>a, <1>2, <2>1, <2>2 DEF PassedBy
  <2> QED
    BY <2>1, <2>2 DEF ExportsInv, RespectsExports, ReexportsOf
<1>5. CASE EndPass
  <2>1. /\ phase = "exports" /\ doc' = doc /\ exported' = exported
        /\ phase' # "exports" <=> ~changed
        /\ position[1] = Len(Order) + 1
        /\ position' = <<1, 1>>
    BY <1>1, <1>2, <1>5 DEF EndPass, InPass, TypeOK
  <2>2. \A i \in 1 .. Len(Order) : \A j \in 1 .. Len(ReexportsOf(i)) : PassedBy(i, j)
    BY <1>1, <2>1 DEF PassedBy
  <2>3. ~changed => RespectsExports(exported)
    <3> SUFFICES ASSUME ~changed, NEW n \in Modules,
                        NEW j \in 1 .. Len(doc.exportsModules[n])
                 PROVE  exported[doc.exportsModules[n][j]] \subseteq exported[n]
      BY DEF RespectsExports, ExportsInv
    <3>1. PICK i \in 1 .. Len(Order) : Order[i] = n
      BY OrderAssumption
    <3> QED
      BY <2>1, <2>2, <3>1 DEF ExportsInv, ReexportsOf
  <2>4. \A i \in 1 .. Len(Order) : \A j \in 1 .. Len(ReexportsOf(i)) : ~PassedBy(i, j)'
    BY <1>1, <2>1 DEF PassedBy
  <2>5. RespectsExports(exported)' <=> RespectsExports(exported)
    BY <2>1 DEF RespectsExports
  <2>6. \A i \in 1 .. Len(Order) : ReexportsOf(i)' = ReexportsOf(i)
    BY <2>1 DEF ReexportsOf
  <2>7. /\ \A n \in Modules : doc'.exportsClasses[n] \subseteq exported'[n]
        /\ \A classes \in [Modules -> SUBSET Classes] :
              RespectsExports(classes)' => \A n \in Modules : exported'[n] \subseteq classes[n]
    BY <2>1 DEF ExportsInv, RespectsExports
  <2> QED
    BY <2>1, <2>3, <2>4, <2>5, <2>6, <2>7 DEF ExportsInv
<1>6. CASE AskModule \/ AskImport \/ Leave \/ SetComplete \/ Finish \/ UNCHANGED vars
  <2>1. /\ doc' = doc /\ exported' = exported
        /\ \/ phase # "exports" /\ phase' # "exports"
           \/ phase' = phase /\ changed' = changed /\ position' = position
    BY <1>6 DEF AskModule, AskImport, Leave, SetComplete, Finish, vars, fixpoint
  <2> QED
    BY <2>1 DEF ExportsInv, RespectsExports, ReexportsOf, PassedBy
<1> QED
  BY <1>3, <1>4, <1>5, <1>6 DEF Next

-----------------------------------------------------------------------------
(* The search.                                                             *)

(* The stack is empty at the start, *)
LEMMA StackInit == Init => StackInv
BY EmptySeq DEF Init, StackInv

(* and every step keeps its frames a chain of imports. *)
LEMMA StackStep == TypeOK /\ StackInv /\ [Next]_vars => StackInv'
<1> SUFFICES ASSUME TypeOK, StackInv, [Next]_vars PROVE StackInv'
  OBVIOUS
<1>1. Len(Order) \in Nat
  BY OrderAssumption, LenProperties
<1>2. /\ position[1] \in 1 .. (Len(Order) + 1)
      /\ stack \in Seq(Frame) /\ Len(stack) \in Nat
  BY DEF TypeOK
<1>3. CASE Reexport \/ NextModule \/ EndPass
  <2>1. phase = "exports"
    BY <1>3 DEF Reexport, NextModule, EndPass, InPass
  <2>2. stack = <<>> /\ answer = "none" /\ stack' = stack /\ answer' = answer
    BY <1>3, <2>1 DEF Reexport, NextModule, EndPass, StackInv, search
  <2> QED
    BY <2>2, EmptySeq DEF StackInv
<1>4. CASE AskModule
  <2> DEFINE m == Order[position[1]]
  <2>1. /\ stack = <<>> /\ position[1] \in 1 .. Len(Order) /\ position' = position
        /\ phase = "completeness" /\ phase' = phase /\ doc' = doc /\ memo' = memo
        /\ Call(m, <<>>)
    BY <1>1, <1>2, <1>4 DEF AskModule, fixpoint
  <2>2. m \in Modules
    BY <2>1, OrderMember
  <2>3. CASE stack' = <<>>
    BY <2>1, <2>3, EmptySeq DEF StackInv
  <2>4. CASE /\ memo[m] = "none"
             /\ m \notin doc.incomplete
             /\ stack' = Append(<<>>, NewFrame(m))
    <3>1. /\ NewFrame(m) \in Frame
          /\ NewFrame(m).id = m
          /\ NewFrame(m).rest = doc.imports[m]
      BY <2>2, DocumentFacts DEF NewFrame, Frame
    <3>2. Len(stack') = 1 /\ stack'[1] = NewFrame(m)
      BY <2>4, <3>1, EmptySeq, AppendProperties
    <3>3. FrameInv(stack, 1)'
      BY <2>1, <2>4, <3>1, <3>2 DEF FrameInv, ImportsModule
    <3> QED
      BY <2>1, <3>1, <3>2, <3>3 DEF StackInv
  <2> QED
    BY <2>1, <2>3, <2>4, CallCases
<1>5. CASE AskImport
  <2> DEFINE m == Head(Top.rest)
             n == Len(stack)
  <2>1. /\ stack # <<>> /\ Top.rest # <<>> /\ position' = position
        /\ phase = "completeness" /\ phase' = phase /\ doc' = doc /\ memo' = memo
        /\ Call(m, Asked)
    BY <1>5 DEF AskImport, fixpoint, Asked
  <2>2. /\ Asked \in Seq(Frame)
        /\ Len(Asked) = n
        /\ \A i \in 1 .. n : Asked[i].id = stack[i].id
        /\ \A i \in 1 .. n : i < n => Asked[i] = stack[i]
        /\ Asked[n].rest = Tail(Top.rest)
        /\ m = Top.rest[1] /\ m \in Modules
        /\ Len(Tail(Top.rest)) = Len(Top.rest) - 1
        /\ Len(Top.rest) \in Nat \ {0}
        /\ \A j \in 1 .. Len(Tail(Top.rest)) : Tail(Top.rest)[j] = Top.rest[j + 1]
        /\ n \in Nat \ {0}
    BY <2>1, AskedFacts, TopFacts
  <2>3. ImportsModule(stack[n].id, m)
    BY <2>1, <2>2 DEF StackInv, FrameInv, Top
  <2>4. ASSUME NEW i \in 1 .. n
        PROVE  FrameInv(Asked, i)
    <3>1. FrameInv(stack, i)
      BY <2>4 DEF StackInv
    <3>2. CASE i = n
      <4>1. ASSUME NEW j \in 1 .. Len(Asked[n].rest)
            PROVE  ImportsModule(stack[n].id, Asked[n].rest[j])
        <5>1. Asked[n].rest[j] = Top.rest[j + 1] /\ j + 1 \in 1 .. Len(Top.rest)
          BY <2>2, <4>1
        <5> QED
          BY <3>1, <3>2, <5>1 DEF Top, FrameInv
      <4>2. Asked[n].id = stack[n].id /\ ~(n < Len(Asked))
        BY <2>2
      <4>3. stack[n].id \notin doc.incomplete /\ memo[stack[n].id] = "none"
        BY <3>1, <3>2 DEF FrameInv
      <4> QED
        BY <3>2, <4>1, <4>2, <4>3 DEF FrameInv
    <3>3. CASE i # n
      <4>1. /\ Asked[i] = stack[i] /\ i < n /\ i + 1 \in 1 .. n
            /\ Asked[i + 1].id = stack[i + 1].id
        BY <2>2, <3>3
      <4> QED
        BY <2>2, <3>1, <4>1 DEF FrameInv
    <3> QED
      BY <3>2, <3>3
  <2>5. Asked # <<>> /\ Asked[1].id = Order[position[1]] /\ position[1] \in 1 .. Len(Order)
    BY <2>1, <2>2, EmptySeq DEF StackInv
  <2>6. ASSUME NEW i, FrameInv(Asked, i), stack' = Asked
        PROVE  FrameInv(stack, i)'
    BY <2>1, <2>6 DEF FrameInv, ImportsModule
  <2>7. CASE stack' = Asked
    <3>1. \A i \in 1 .. Len(stack') : FrameInv(stack, i)'
      BY <2>2, <2>4, <2>6, <2>7
    <3> QED
      BY <2>1, <2>5, <2>7, <3>1 DEF StackInv
  <2>8. CASE /\ memo[m] = "none"
             /\ m \notin doc.incomplete
             /\ stack' = Append(Asked, NewFrame(m))
    <3>1. /\ NewFrame(m) \in Frame
          /\ NewFrame(m).id = m
          /\ NewFrame(m).rest = doc.imports[m]
      BY <2>2, DocumentFacts DEF NewFrame, Frame
    <3>2. /\ Len(stack') = n + 1
          /\ stack'[n + 1] = NewFrame(m)
          /\ \A i \in 1 .. n : stack'[i] = Asked[i]
      BY <2>2, <2>8, <3>1, AppendProperties
    <3>3. ASSUME NEW i \in 1 .. n + 1
          PROVE  FrameInv(stack, i)'
      <4>1. CASE i \in 1 .. n - 1
        <5>1. stack'[i] = Asked[i] /\ stack'[i + 1] = Asked[i + 1] /\ i \in 1 .. n /\ i < Len(Asked)
          BY <2>2, <3>2, <4>1
        <5>2. FrameInv(Asked, i)
          BY <2>4, <5>1
        <5> QED
          BY <2>1, <5>1, <5>2 DEF FrameInv, ImportsModule
      <4>2. CASE i = n
        <5>1. stack'[n] = Asked[n] /\ stack'[n + 1].id = m /\ Asked[n].id = stack[n].id
          BY <2>2, <3>1, <3>2
        <5>2. FrameInv(Asked, n)
          BY <2>2, <2>4
        <5> QED
          BY <2>1, <2>3, <4>2, <5>1, <5>2 DEF FrameInv, ImportsModule
      <4>3. CASE i = n + 1
        <5>1. stack'[i] = NewFrame(m) /\ ~(i < Len(stack'))
          BY <2>2, <3>2, <4>3
        <5> QED
          BY <2>1, <2>8, <3>1, <5>1 DEF FrameInv, ImportsModule
      <4> QED
        BY <2>2, <4>1, <4>2, <4>3
    <3>4. stack'[1].id = Order[position[1]]
      BY <2>2, <2>5, <3>2
    <3> QED
      BY <2>1, <2>5, <3>2, <3>3, <3>4 DEF StackInv
  <2> QED
    BY <2>1, <2>7, <2>8, CallCases
<1>6. CASE Leave
  <2>1. /\ stack # <<>> /\ position' = position
        /\ phase = "completeness" /\ phase' = phase /\ doc' = doc
        /\ memo' = [memo EXCEPT ![Top.id] = answer']
        /\ stack' = Below
    BY <1>6 DEF Leave, fixpoint
  <2>2. /\ Len(Below) = Len(stack) - 1
        /\ \A i \in 1 .. Len(Below) : Below[i] = stack[i]
        /\ Len(stack) \in Nat \ {0}
        /\ \A i \in 1 .. Len(stack) : stack[i].id \in Modules
        /\ Below \in Seq(Frame)
    BY <2>1, BelowFacts, TopFacts DEF Frame
  <2>3. ASSUME NEW i \in 1 .. Len(Below)
        PROVE  FrameInv(stack, i)'
    <3>1. FrameInv(stack, i) /\ stack'[i] = stack[i] /\ i \in 1 .. Len(stack)
      BY <2>1, <2>2, <2>3, SMTT(20) DEF StackInv
    <3>2. stack[i].id # Top.id
      BY <2>2, <2>3 DEF TypeOK, Top
    <3>3. memo'[stack[i].id] = memo[stack[i].id]
      BY <2>1, <2>2, <3>1, <3>2 DEF TypeOK
    <3>4. i < Len(Below) => stack'[i + 1] = stack[i + 1] /\ i < Len(stack)
      BY <2>1, <2>2, <2>3
    <3> QED
      BY <2>1, <3>1, <3>3, <3>4 DEF FrameInv, ImportsModule
  <2>4. position[1] \in 1 .. Len(Order)
    BY <2>1 DEF StackInv
  <2>5. Below # <<>> => Below[1].id = Order[position[1]]
    <3>1. Below # <<>> => 1 \in 1 .. Len(Below)
      BY <2>2, EmptySeq
    <3> QED
      BY <2>1, <2>2, <3>1 DEF StackInv
  <2> QED
    BY <2>1, <2>3, <2>4, <2>5 DEF StackInv
<1>7. CASE SetComplete
  BY <1>7, EmptySeq DEF SetComplete, StackInv
<1>8. CASE Finish
  BY <1>8, EmptySeq DEF Finish, StackInv, fixpoint, search
<1>9. CASE UNCHANGED vars
  BY <1>9 DEF vars, StackInv, FrameInv, fixpoint, search, ImportsModule
<1> QED
  BY <1>3, <1>4, <1>5, <1>6, <1>7, <1>8, <1>9 DEF Next

-----------------------------------------------------------------------------
(* Negative answers.                                                       *)

(* An incomplete module reaches one: itself. *)
LEMMA ReachesItself ==
    ASSUME NEW m \in Modules, m \in doc.incomplete
    PROVE  ReachesIncomplete(m)
BY DEF ReachesIncomplete

(* It is passed on to the modules that import the one that reaches it, *)
LEMMA ReachesThroughImport ==
    ASSUME NEW m \in Modules, NEW k, ImportsModule(m, k), ReachesIncomplete(k)
    PROVE  ReachesIncomplete(m)
<1> SUFFICES ASSUME NEW set \in SUBSET Modules, m \in set, HoldsImports(set)
             PROVE  set \cap doc.incomplete # {}
  BY DEF ReachesIncomplete
<1>1. k \in set
  BY DEF ImportsModule, HoldsImports
<1> QED
  BY <1>1 DEF ReachesIncomplete

(* and no step changes it. *)
LEMMA ReachesKept ==
    ASSUME doc' = doc, NEW m, ReachesIncomplete(m)
    PROVE  ReachesIncomplete(m)'
BY DEF ReachesIncomplete, HoldsImports

(* Nothing is answered at the start, *)
LEMMA JustifiedInit == Init => JustifiedInv
BY DEF Init, JustifiedInv

(* and every negative answer is justified by the one before it. *)
LEMMA JustifiedStep == TypeOK /\ StackInv /\ JustifiedInv /\ [Next]_vars => JustifiedInv'
<1> SUFFICES ASSUME TypeOK, StackInv, JustifiedInv, [Next]_vars PROVE JustifiedInv'
  OBVIOUS
<1>1. Len(Order) \in Nat
  BY OrderAssumption, LenProperties
<1>2. /\ position[1] \in 1 .. (Len(Order) + 1)
      /\ stack \in Seq(Frame) /\ Len(stack) \in Nat
  BY DEF TypeOK
<1>3. CASE Reexport \/ NextModule \/ EndPass
  <2>1. phase = "exports"
    BY <1>3 DEF Reexport, NextModule, EndPass, InPass
  <2>2. /\ answer = "none" /\ answer' = answer /\ doc' = doc
        /\ memo' = memo /\ complete' = complete
    BY <1>3, <2>1 DEF Reexport, NextModule, EndPass, StackInv, search
  <2> QED
    BY <2>2, ReachesKept DEF JustifiedInv
<1>4. CASE AskModule
  <2> DEFINE m == Order[position[1]]
  <2>1. /\ stack = <<>> /\ position[1] \in 1 .. Len(Order) /\ position' = position
        /\ doc' = doc /\ memo' = memo /\ complete' = complete
        /\ Call(m, <<>>)
    BY <1>1, <1>2, <1>4 DEF AskModule, fixpoint
  <2>2. m \in Modules
    BY <2>1, OrderMember
  <2>3. answer' = "no" => stack' = <<>> /\ ReachesIncomplete(m)
    BY <2>1, <2>2, CallCases, ReachesItself DEF JustifiedInv
  <2> QED
    BY <2>1, <2>3, ReachesKept DEF JustifiedInv
<1>5. CASE AskImport
  <2> DEFINE m == Head(Top.rest)
             n == Len(stack)
  <2>1. /\ stack # <<>> /\ Top.rest # <<>>
        /\ doc' = doc /\ memo' = memo /\ complete' = complete
        /\ Call(m, Asked)
    BY <1>5 DEF AskImport, Asked
  <2>2. /\ Asked # <<>> /\ Len(Asked) = n
        /\ Asked[n].id = Top.id /\ Top.id \in Modules
        /\ m = Top.rest[1] /\ m \in Modules /\ 1 \in 1 .. Len(Top.rest)
        /\ n \in 1 .. Len(stack)
    <3>1. /\ Len(Asked) = n /\ n \in Nat \ {0} /\ Asked[n].id = stack[n].id
          /\ Top.id \in Modules
          /\ m = Top.rest[1] /\ m \in Modules /\ Len(Top.rest) \in Nat \ {0}
      BY <2>1, AskedFacts, TopFacts
    <3> QED
      BY <3>1, EmptySeq DEF Top
  <2>3. ImportsModule(Top.id, m)
    BY <2>2 DEF StackInv, FrameInv, Top
  <2>4. answer' = "no" => stack' = Asked /\ ReachesIncomplete(Top.id)
    <3> SUFFICES ASSUME answer' = "no"
                 PROVE  stack' = Asked /\ ReachesIncomplete(m)
      BY <2>2, <2>3, ReachesThroughImport
    <3> QED
      BY <2>1, <2>2, CallCases, ReachesItself DEF JustifiedInv
  <2>5. answer' = "no" => stack' # <<>> /\ Top' = Asked[n]
    BY <2>2, <2>4 DEF Top
  <2> QED
    BY <2>1, <2>2, <2>4, <2>5, ReachesKept DEF JustifiedInv
<1>6. CASE Leave
  <2>1. /\ stack # <<>> /\ position' = position
        /\ doc' = doc /\ complete' = complete
        /\ answer' = IF answer = "no" THEN "no" ELSE "yes"
        /\ memo' = [memo EXCEPT ![Top.id] = answer']
        /\ stack' = Below
    BY <1>6 DEF Leave, fixpoint
  <2>2. /\ Len(Below) = Len(stack) - 1
        /\ \A i \in 1 .. Len(Below) : Below[i] = stack[i]
        /\ Len(stack) \in Nat \ {0}
        /\ \A i \in 1 .. Len(stack) : stack[i].id \in Modules
        /\ Below \in Seq(Frame)
        /\ Top.id \in Modules
    BY <2>1, BelowFacts, TopFacts DEF Frame
  <2>3. answer' = "no" => ReachesIncomplete(Top.id)
    BY <2>1 DEF JustifiedInv
  <2>4. \A m \in Modules : memo'[m] = "no" => ReachesIncomplete(m)
    BY <2>1, <2>2, <2>3 DEF JustifiedInv, TypeOK
  <2>5. CASE Below = <<>>
    <3>1. Len(stack) = 1
      BY <2>2, <2>5, EmptySeq
    <3>2. Top.id = Order[position[1]]
      BY <2>1, <3>1 DEF StackInv, Top
    <3> QED
      BY <2>1, <2>3, <2>4, <2>5, <3>2, ReachesKept DEF JustifiedInv
  <2>6. CASE Below # <<>>
    <3> DEFINE b == Len(Below)
    <3>1. b \in 1 .. Len(stack) /\ b < Len(stack) /\ Len(stack) = b + 1
      BY <2>2, <2>6, EmptySeq
    <3>2. stack'[b] = stack[b] /\ Top' = stack[b] /\ stack[b].id \in Modules
      BY <2>1, <2>2, <3>1 DEF Top
    <3>3. ImportsModule(stack[b].id, Top.id)
      BY <3>1 DEF StackInv, FrameInv, Top
    <3>4. answer' = "no" => ReachesIncomplete(stack[b].id)
      BY <2>3, <3>2, <3>3, ReachesThroughImport
    <3> QED
      BY <2>1, <2>4, <2>6, <3>2, <3>4, ReachesKept DEF JustifiedInv
  <2> QED
    BY <2>5, <2>6
<1>7. CASE SetComplete
  <2>1. /\ stack = <<>> /\ doc' = doc /\ memo' = memo /\ answer' = "none"
        /\ complete' = [complete EXCEPT ![Order[position[1]]] = answer]
    BY <1>7 DEF SetComplete
  <2>2. \A m \in Modules : complete'[m] = "no" => ReachesIncomplete(m)
    BY <2>1 DEF JustifiedInv, TypeOK
  <2> QED
    BY <2>1, <2>2, ReachesKept DEF JustifiedInv
<1>8. CASE Finish \/ UNCHANGED vars
  <2>1. doc' = doc /\ memo' = memo /\ complete' = complete
        /\ answer' = answer /\ stack' = stack /\ position' = position
    BY <1>8 DEF Finish, vars, fixpoint, search
  <2>2. Top' = Top
    BY <2>1 DEF Top
  <2> QED
    BY <2>1, <2>2, ReachesKept DEF JustifiedInv
<1> QED
  BY <1>3, <1>4, <1>5, <1>6, <1>7, <1>8 DEF Next

-----------------------------------------------------------------------------
(* Positive answers, without cycles.                                       *)

(* Nothing is cached as complete at the start, *)
LEMMA GoodInit == Init => GoodInv
BY EmptySeq DEF Init, GoodInv, Good

(* Without cycles the search never meets a module it is visiting. *)
LEMMA NeverMeetsItself ==
    ASSUME TypeOK, StackInv, Acyclic, stack # <<>>,
           NEW m \in Modules, ImportsModule(Top.id, m)
    PROVE  m \notin Visiting
<1> DEFINE n == Len(stack)
<1>1. /\ n \in Nat \ {0}
      /\ \A i \in 1 .. n : stack[i].id \in Modules
  BY TopFacts DEF Frame
<1> SUFFICES ASSUME NEW p \in 1 .. n, m = stack[p].id PROVE FALSE
  BY DEF Visiting
<1> DEFINE cycle == {stack[q].id : q \in p .. n}
<1>2. cycle \in (SUBSET Modules) \ {{}}
  <2>1. p .. n \subseteq 1 .. n /\ n \in p .. n
    BY <1>1
  <2>2. cycle \subseteq Modules
    BY <1>1, <2>1
  <2>3. stack[n].id \in cycle
    BY <2>1
  <2> QED
    BY <2>2, <2>3
<1>3. PICK q \in p .. n :
         \A j \in 1 .. Len(doc.imports[stack[q].id]) : doc.imports[stack[q].id][j] \notin cycle
  BY <1>2 DEF Acyclic
<1>4. CASE q = n
  BY <1>1, <1>3, <1>4 DEF ImportsModule, Top
<1>5. CASE q # n
  <2>1. q \in 1 .. n /\ q < n /\ q + 1 \in p .. n
    BY <1>1, <1>5
  <2>2. ImportsModule(stack[q].id, stack[q + 1].id)
    BY <2>1 DEF StackInv, FrameInv
  <2> QED
    BY <1>3, <2>1, <2>2 DEF ImportsModule
<1> QED
  BY <1>4, <1>5

(* and what is cached as complete stays closed under imports. *)
LEMMA GoodStep == TypeOK /\ StackInv /\ GoodInv /\ [Next]_vars => GoodInv'
<1> SUFFICES ASSUME TypeOK, StackInv, GoodInv, [Next]_vars, Acyclic' PROVE GoodInv'
  BY DEF GoodInv
<1>1. Len(Order) \in Nat
  BY OrderAssumption, LenProperties
<1>2. /\ position[1] \in 1 .. (Len(Order) + 1)
      /\ stack \in Seq(Frame) /\ Len(stack) \in Nat
  BY DEF TypeOK
<1>3. doc' = doc /\ Acyclic
  <2>1. doc' = doc
    BY DEF Next, Reexport, NextModule, EndPass, AskModule, AskImport, Leave, SetComplete,
           Finish, vars
  <2> QED
    BY <2>1 DEF Acyclic
<1>4. /\ Good \cap doc.incomplete = {}
      /\ \A m \in Good : \A j \in 1 .. Len(doc.imports[m]) : doc.imports[m][j] \in Good
      /\ \A i \in 1 .. Len(stack) : FrameSettled(i)
      /\ \A m \in Modules : complete[m] = "yes" => m \in Good
      /\ answer = "yes" /\ stack = <<>> => Order[position[1]] \in Good
  BY <1>3 DEF GoodInv
<1>5. CASE Reexport \/ NextModule \/ EndPass
  <2>1. phase = "exports"
    BY <1>5 DEF Reexport, NextModule, EndPass, InPass
  <2>2. /\ stack = <<>> /\ answer = "none" /\ answer' = answer /\ stack' = stack
        /\ memo' = memo /\ complete' = complete
    BY <1>5, <2>1 DEF Reexport, NextModule, EndPass, StackInv, search
  <2>3. Good' = Good
    BY <2>2 DEF Good
  <2> QED
    BY <1>3, <1>4, <2>2, <2>3, EmptySeq DEF GoodInv
<1>6. CASE AskModule
  <2> DEFINE m == Order[position[1]]
  <2>1. /\ stack = <<>> /\ position[1] \in 1 .. Len(Order) /\ position' = position
        /\ memo' = memo /\ complete' = complete
        /\ Call(m, <<>>)
    BY <1>1, <1>2, <1>6 DEF AskModule, fixpoint
  <2>2. m \in Modules /\ m \notin Visiting
    BY <2>1, OrderMember, EmptySeq DEF Visiting
  <2>3. Good' = Good
    BY <2>1 DEF Good
  <2>4. CASE stack' = <<>>
    <3>1. answer' = "yes" => m \in Good
      BY <2>1, <2>2, <2>4, CallCases DEF Good
    <3> QED
      BY <1>3, <1>4, <2>1, <2>3, <2>4, <3>1, EmptySeq DEF GoodInv
  <2>5. CASE stack' = Append(<<>>, NewFrame(m))
    <3>1. /\ NewFrame(m) \in Frame
          /\ NewFrame(m).id = m
          /\ NewFrame(m).rest = doc.imports[m]
      BY <2>2, DocumentFacts DEF NewFrame, Frame
    <3>2. Len(stack') = 1 /\ stack'[1] = NewFrame(m) /\ stack' # <<>>
      BY <2>5, <3>1, EmptySeq, AppendProperties
    <3>3. FrameSettled(1)'
      BY <1>3, <3>1, <3>2 DEF FrameSettled, Settled
    <3> QED
      BY <1>3, <1>4, <2>1, <2>3, <3>2, <3>3 DEF GoodInv
  <2> QED
    BY <2>1, <2>4, <2>5, CallCases
<1>7. CASE AskImport
  <2> DEFINE m == Head(Top.rest)
             n == Len(stack)
  <2>1. /\ stack # <<>> /\ Top.rest # <<>> /\ answer # "no"
        /\ memo' = memo /\ complete' = complete
        /\ Call(m, Asked)
    BY <1>7 DEF AskImport, Asked
  <2>2. /\ Asked \in Seq(Frame)
        /\ Len(Asked) = n
        /\ \A i \in 1 .. n : Asked[i].id = stack[i].id
        /\ \A i \in 1 .. n : i < n => Asked[i] = stack[i]
        /\ Asked[n].rest = Tail(Top.rest)
        /\ m = Top.rest[1] /\ m \in Modules
        /\ Len(Tail(Top.rest)) = Len(Top.rest) - 1
        /\ Len(Top.rest) \in Nat \ {0}
        /\ \A j \in 1 .. Len(Tail(Top.rest)) : Tail(Top.rest)[j] = Top.rest[j + 1]
        /\ n \in Nat \ {0}
    BY <2>1, AskedFacts, TopFacts
  <2>3. m \notin Visiting
    <3>1. ImportsModule(Top.id, m)
      BY <2>2 DEF StackInv, FrameInv, Top
    <3> QED
      BY <1>3, <2>1, <2>2, <3>1, NeverMeetsItself
  <2>4. Good' = Good
    BY <2>1 DEF Good
  <2>5. \/ stack' = Asked /\ (m \in Good \/ answer' = "no")
        \/ stack' = Append(Asked, NewFrame(m))
    BY <2>1, <2>2, <2>3, CallCases DEF Good, TypeOK, Verdicts
  <2>6. /\ NewFrame(m) \in Frame
        /\ NewFrame(m).id = m
        /\ NewFrame(m).rest = doc.imports[m]
    BY <2>2, DocumentFacts DEF NewFrame, Frame
  <2>7. /\ \A i \in 1 .. n : stack'[i] = Asked[i]
        /\ \/ Len(stack') = n /\ (m \in Good \/ answer' = "no")
           \/ Len(stack') = n + 1 /\ stack'[n + 1] = NewFrame(m)
        /\ stack' # <<>>
    <3>1. CASE stack' = Append(Asked, NewFrame(m))
      BY <2>2, <2>6, <3>1, AppendProperties
    <3>2. CASE stack' = Asked /\ (m \in Good \/ answer' = "no")
      BY <2>2, <3>2, EmptySeq
    <3> QED
      BY <2>5, <3>1, <3>2
  <2>8. ASSUME NEW i \in 1 .. n
        PROVE  FrameSettled(i)'
    <3>1. FrameSettled(i) /\ stack'[i].id = stack[i].id
      BY <1>4, <2>2, <2>7
    <3> SUFFICES ASSUME NEW k, Settled(i, k) PROVE Settled(i, k)'
      BY <1>3, <3>1 DEF FrameSettled
    <3>2. CASE i < n
      <4>1. /\ stack'[i] = stack[i] /\ stack'[i + 1].id = stack[i + 1].id
            /\ i < Len(stack') /\ i # n
        BY <2>2, <2>7, <3>2
      <4> QED
        BY <2>4, <3>2, <4>1 DEF Settled
    <3>3. CASE i = n
      <4>1. k = m => Settled(i, k)'
        BY <2>2, <2>4, <2>6, <2>7, <3>3 DEF Settled
      <4>2. k \in Good => Settled(i, k)'
        BY <2>4 DEF Settled
      <4>3. ASSUME NEW q \in 1 .. Len(Top.rest), Top.rest[q] = k, k # m
            PROVE  Settled(i, k)'
        <5>1. /\ q - 1 \in 1 .. Len(Tail(Top.rest))
              /\ Tail(Top.rest)[q - 1] = k
          BY <2>2, <4>3
        <5>2. stack'[i].rest = Tail(Top.rest)
          BY <2>2, <2>7, <3>3
        <5> QED
          BY <5>1, <5>2 DEF Settled
      <4> QED
        BY <2>1, <2>2, <3>3, <4>1, <4>2, <4>3 DEF Settled, Top
    <3> QED
      BY <2>2, <3>2, <3>3
  <2>9. ASSUME NEW i, i = n + 1, Len(stack') = n + 1
        PROVE  FrameSettled(i)'
    BY <1>3, <2>2, <2>6, <2>7, <2>9, SMTT(20) DEF FrameSettled, Settled
  <2>10. \A i \in 1 .. Len(stack') : FrameSettled(i)'
    BY <2>2, <2>7, <2>8, <2>9
  <2> QED
    BY <1>3, <1>4, <2>1, <2>4, <2>7, <2>10 DEF GoodInv
<1>8. CASE Leave
  <2> DEFINE t == Top.id
             n == Len(stack)
  <2>1. /\ stack # <<>> /\ position' = position /\ complete' = complete
        /\ answer = "no" \/ Top.rest = <<>>
        /\ answer' = IF answer = "no" THEN "no" ELSE "yes"
        /\ memo' = [memo EXCEPT ![t] = answer']
        /\ stack' = Below
    BY <1>8 DEF Leave, fixpoint
  <2>2. /\ Len(Below) = n - 1
        /\ \A i \in 1 .. n - 1 : Below[i] = stack[i]
        /\ n \in Nat \ {0}
        /\ Below \in Seq(Frame)
        /\ t \in Modules /\ t = stack[n].id
    BY <2>1, BelowFacts, TopFacts DEF Top
  <2>3. memo[t] = "none" /\ t \notin doc.incomplete
    BY <2>2 DEF StackInv, FrameInv
  <2>4. Good' = IF answer = "no" THEN Good ELSE Good \cup {t}
    BY <2>1, <2>2, <2>3 DEF Good, TypeOK
  <2>5. ASSUME answer # "no"
        PROVE  \A j \in 1 .. Len(doc.imports[t]) : doc.imports[t][j] \in Good
    <3>1. Len(stack[n].rest) = 0
      BY <2>1, <2>5, EmptySeq DEF Top
    <3>2. FrameSettled(n)
      BY <1>4, <2>2
    <3> QED
      BY <2>2, <2>5, <3>1, <3>2 DEF FrameSettled, Settled
  <2>6. ASSUME NEW i \in 1 .. n - 1
        PROVE  FrameSettled(i)'
    <3>1. FrameSettled(i) /\ stack'[i] = stack[i] /\ i < n /\ i # n
      BY <1>4, <2>1, <2>2
    <3> SUFFICES ASSUME NEW k, Settled(i, k) PROVE Settled(i, k)'
      BY <1>3, <3>1 DEF FrameSettled
    <3>2. CASE i = n - 1 /\ k = t
      BY <2>1, <2>2, <2>4, <3>2 DEF Settled
    <3>3. CASE ~(i = n - 1 /\ k = t)
      <4>1. stack[i + 1].id = k => i < n - 1 /\ stack'[i + 1].id = k
        BY <2>1, <2>2, <3>3
      <4> QED
        BY <2>1, <2>2, <2>4, <3>1, <4>1 DEF Settled
    <3> QED
      BY <3>2, <3>3
  <2>7. answer' = "yes" /\ Below = <<>> => Order[position[1]] \in Good'
    <3> SUFFICES ASSUME answer # "no", Below = <<>> PROVE Order[position[1]] = t
      BY <2>1, <2>4
    <3>1. n = 1
      BY <2>2, EmptySeq
    <3> QED
      BY <2>1, <2>2, <3>1 DEF StackInv
  <2>8. /\ Good' \cap doc.incomplete = {}
        /\ \A m \in Good' : \A j \in 1 .. Len(doc.imports[m]) : doc.imports[m][j] \in Good'
        /\ \A m \in Modules : complete[m] = "yes" => m \in Good'
    BY <1>4, <2>3, <2>4, <2>5
  <2>9. \A i \in 1 .. Len(stack') : FrameSettled(i)'
    BY <2>1, <2>2, <2>6
  <2> QED
    BY <1>3, <2>1, <2>7, <2>8, <2>9 DEF GoodInv
<1>9. CASE SetComplete
  <2>1. /\ stack = <<>> /\ stack' = stack /\ memo' = memo /\ answer' = "none"
        /\ complete' = [complete EXCEPT ![Order[position[1]]] = answer]
    BY <1>9 DEF SetComplete
  <2>2. Good' = Good
    BY <2>1 DEF Good
  <2>3. \A m \in Modules : complete'[m] = "yes" => m \in Good
    BY <1>4, <2>1 DEF TypeOK
  <2> QED
    BY <1>3, <1>4, <2>1, <2>2, <2>3, EmptySeq DEF GoodInv
<1>10. CASE Finish \/ UNCHANGED vars
  <2>1. memo' = memo /\ complete' = complete
        /\ answer' = answer /\ stack' = stack /\ position' = position
    BY <1>10 DEF Finish, vars, fixpoint, search
  <2>2. Good' = Good
    BY <2>1 DEF Good
  <2>3. \A i : FrameSettled(i) => FrameSettled(i)'
    BY <1>3, <2>1, <2>2 DEF FrameSettled, Settled
  <2> QED
    BY <1>3, <1>4, <2>1, <2>2, <2>3 DEF GoodInv
<1> QED
  BY <1>5, <1>6, <1>7, <1>8, <1>9, <1>10 DEF Next

-----------------------------------------------------------------------------
(* The theorems.                                                           *)

IInv == TypeOK /\ ExportsInv /\ StackInv /\ JustifiedInv /\ GoodInv

(* All the invariants together hold in every state the view passes through. *)
THEOREM Invariance == Spec => []IInv
<1>1. Init => IInv
  BY TypeInit, ExportsInit, StackInit, JustifiedInit, GoodInit DEF IInv
<1>2. IInv /\ [Next]_vars => IInv'
  BY TypeStep, ExportsStep, StackStep, JustifiedStep, GoodStep DEF IInv
<1> QED
  BY <1>1, <1>2, PTL DEF Spec

(* The view keeps its types, and no module is on the stack of moduleComplete
   twice, whatever cycles the imports have. *)
THEOREM Typing == Spec => []TypeOK
<1>1. IInv => TypeOK
  BY DEF IInv
<1> QED
  BY <1>1, Invariance, PTL

(* When the re-export loop is left, what each module exports respects every
   re-export and is the least assignment that does. *)
THEOREM LeastFixpoint == Spec => []ExportsAreLeastFixpoint
<1>1. IInv => ExportsAreLeastFixpoint
  BY DEF IInv, ExportsInv, ExportsAreLeastFixpoint
<1> QED
  BY <1>1, Invariance, PTL

(* A module the view calls incomplete is incomplete, or imports, however far,
   a module that is. *)
THEOREM Justified == Spec => []IncompleteIsJustified
<1>1. IInv => IncompleteIsJustified
  BY DEF IInv, JustifiedInv, IncompleteIsJustified
<1> QED
  BY <1>1, Invariance, PTL

(* Where imports have no cycle, a module the view calls complete imports,
   however far, only complete ones. *)
THEOREM RightWithoutCycles == Spec => []CompleteIsRightWithoutCycles
<1>1. IInv => CompleteIsRightWithoutCycles
  <2> SUFFICES ASSUME IInv, Acyclic, NEW m \in Modules, complete[m] = "yes"
               PROVE  ~ReachesIncomplete(m)
    BY DEF CompleteIsRightWithoutCycles
  <2>1. /\ m \in Good /\ Good \in SUBSET Modules
        /\ Good \cap doc.incomplete = {}
        /\ HoldsImports(Good)
    BY DEF IInv, GoodInv, HoldsImports, Good
  <2> QED
    BY <2>1 DEF ReachesIncomplete
<1> QED
  BY <1>1, Invariance, PTL
=============================================================================
