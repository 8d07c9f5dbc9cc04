------------------------------ MODULE PolicyProofs ------------------------------
(***************************************************************************)
(* What the readers of a trace say of it, for any program and any limits.  *)
(* The terminal facts the policies and the comparison read are those the   *)
(* trace of the endpoint finds along calls; an uncertain fact never lets a *)
(* program pass the gate, or fail it, that would not if the fact were      *)
(* known, whatever the facts the rules read; and the graph report draws    *)
(* edges the trace holds, between nodes it draws, leaves none out of a     *)
(* scene below its limits, and leads from the root to every node. The      *)
(* overview counts what walks of resolved facts reach, and the impact of a *)
(* change reports what the trace passes and nothing that cannot happen.    *)
(***************************************************************************)
EXTENDS GraphReport, TraceProofs

-----------------------------------------------------------------------------
(***************************************************************************)
(* The projection's walk, whose states are a method and whether all calls  *)
(* on the way to it are resolved, reaches the methods within the calls.    *)
(***************************************************************************)
Projections == [method : Methods, sure : BOOLEAN]

FirstProjections == {[method |-> m, sure |-> TRUE] : m \in ToSet(doc.implementations)}

Further(F, before) == before \cup Onward(F, before)

MethodsOf(states) == {s.method : s \in states}

\* Calls lead to methods.
Calling(F) == \A f \in F : f.channel = "call" => f.to[1] \in Methods

Walked(F, walk) ==
    /\ walk \in [0..Limits.depth -> SUBSET Projections]
    /\ walk[0] = FirstProjections
    /\ \A n \in 1..Limits.depth : walk[n] = Further(F, walk[n - 1])

LEMMA FurtherIs ==
    ASSUME NEW F, Calling(F), NEW before \in SUBSET Projections
    PROVE  /\ Further(F, before) \in SUBSET Projections
           /\ \A t : t \in Further(F, before) <=>
                 \/ t \in before
                 \/ \E s \in before : \E f \in F :
                       f.channel = "call" /\ f.from = s.method /\ t = Called(s, f)
<1> DEFINE calls(s) == {f \in F : f.channel = "call" /\ f.from = s.method}
           of(s) == {Called(s, f) : f \in calls(s)}
<1>1. Onward(F, before) = UNION {of(s) : s \in before}
  BY DEF Onward
<1>2. \A t : t \in Onward(F, before) <=> \E s \in before : \E f \in calls(s) : t = Called(s, f)
  <2>1. \A s, t : t \in of(s) <=> \E f \in calls(s) : t = Called(s, f)
    OBVIOUS
  <2> HIDE DEF of, calls
  <2> QED
    BY <1>1, <2>1
<1>3. ASSUME NEW s \in before, NEW f \in calls(s) PROVE Called(s, f) \in Projections
  <2>1. f.to[1] \in Methods
    BY DEF Calling
  <2> QED
    BY <2>1 DEF Called, Projections
<1>4. Further(F, before) \in SUBSET Projections
  <2> HIDE DEF calls
  <2> QED
    BY <1>2, <1>3 DEF Further
<1> QED
  BY <1>2, <1>4 DEF Further

LEMMA FirstProjectionsAre ==
    ASSUME ValidDocument
    PROVE  /\ FirstProjections \in SUBSET Projections
           /\ MethodsOf(FirstProjections) = ToSet(doc.implementations)
<1>1. \A m \in ToSet(doc.implementations) : m \in Methods
  BY RootsArePlaces
<1>2. \A m \in Methods : [method |-> m, sure |-> TRUE] \in Projections
  BY DEF Projections
<1>3. \A t \in FirstProjections : t \in Projections /\ t.method \in ToSet(doc.implementations)
  BY <1>1, <1>2 DEF FirstProjections
<1>4. ASSUME NEW m \in ToSet(doc.implementations) PROVE \E t \in FirstProjections : t.method = m
  <2> DEFINE t == [method |-> m, sure |-> TRUE]
  <2>1. t \in FirstProjections /\ t.method = m
    BY DEF FirstProjections
  <2> QED
    BY <2>1
<1> QED
  BY <1>3, <1>4 DEF MethodsOf

LEMMA ProjectedRuns ==
    ASSUME ValidDocument, NEW F, Calling(F)
    PROVE  \E walk : Walked(F, walk) /\ Projected(F) = walk[Limits.depth]
<1> DEFINE N == Limits.depth
           A == SUBSET Projections
           roots == {[method |-> m, sure |-> TRUE] : m \in ToSet(doc.implementations)}
           step == [n \in 1..N |-> [before \in A |-> Further(F, before)]]
           Runs(w) == w = [n \in 0..N |-> IF n = 0 THEN roots ELSE Further(F, w[n - 1])]
           walk == CHOOSE w : Runs(w)
<1>1. N \in Nat
  BY CallsRun
<1>2. roots \in A /\ roots = FirstProjections
  BY FirstProjectionsAre DEF FirstProjections
<1>3. \A before \in A : Further(F, before) \in A
  BY FurtherIs
<1>4. step \in [1..N -> [A -> A]]
  BY <1>3
<1>5. \A n \in 1..N : \A before \in A : step[n][before] = Further(F, before)
  OBVIOUS
<1>6. Projected(F) = walk[N]
  BY DEF Projected, Further
<1> HIDE DEF A, roots, step, N
<1>7. PICK after \in [0..N -> A] : Taken(N, roots, step, after)
  BY <1>1, <1>2, <1>4, StepsRun
<1>8. \A n \in 0..N : after[n] = IF n = 0 THEN roots ELSE Further(F, after[n - 1])
  <2> TAKE n \in 0..N
  <2>1. CASE n = 0
    BY <1>7, <2>1 DEF Taken
  <2>2. CASE n # 0
    <3>1. n \in 1..N /\ n - 1 \in 0..N
      BY <1>1, <2>2
    <3>2. after[n - 1] \in A /\ after[n] = step[n][after[n - 1]]
      BY <1>7, <3>1 DEF Taken
    <3> QED
      BY <1>5, <2>2, <3>1, <3>2
  <2> QED
    BY <2>1, <2>2
<1>9. Runs(after)
  BY <1>8
<1>10. Runs(walk)
  <2> HIDE DEF Runs
  <2> QED
    BY <1>9
<1> HIDE DEF walk
<1>11. \A n \in 0..N : walk[n] = IF n = 0 THEN roots ELSE Further(F, walk[n - 1])
  BY <1>10
<1>12. DOMAIN walk = 0..N /\ walk = [n \in 0..N |-> walk[n]]
  <2>1. walk = [n \in 0..N |-> IF n = 0 THEN roots ELSE Further(F, walk[n - 1])]
    BY <1>10
  <2> QED
    BY <1>11, <2>1
<1> HIDE DEF Runs
<1>13. walk[0] = roots
  BY <1>1, <1>11, 0 \in 0..N
<1>14. \A n \in 1..N : walk[n] = Further(F, walk[n - 1])
  <2> TAKE n \in 1..N
  <2>1. n \in 0..N /\ n # 0
    BY <1>1
  <2> QED
    BY <1>11, <2>1
<1>15. \A n \in 0..N : walk[n] \in A
  <2> DEFINE T == {n \in 0..N : walk[n] \in A}
  <2>1. 0 \in T
    BY <1>1, <1>2, <1>13, 0 \in 0..N
  <2>2. ASSUME NEW n \in 1..N, n - 1 \in T PROVE n \in T
    <3>1. n \in 0..N
      BY <1>1
    <3> QED
      BY <1>3, <1>14, <2>2, <3>1
  <2> HIDE DEF T
  <2>3. \A n \in 0..N : n \in T
    BY <1>1, <2>1, <2>2, CountingUp
  <2> QED
    BY <2>3 DEF T
<1>16. walk \in [0..N -> A]
  BY <1>12, <1>15
<1>17. Walked(F, walk)
  BY <1>2, <1>13, <1>14, <1>16 DEF Walked, N, A
<1> QED
  BY <1>6, <1>17 DEF N

LEMMA FactsCall ==
    ASSUME ValidDocument
    PROVE  Calling(Facts)
BY FactsAreTyped DEF Calling

LEMMA ProjectedIs ==
    ASSUME ValidDocument
    PROVE  MethodsOf(Projected(Facts)) = CallsWithin[Limits.depth]
<1> DEFINE N == Limits.depth
<1>1. N \in Nat
  BY CallsRun
<1>2. PICK walk : Walked(Facts, walk) /\ Projected(Facts) = walk[N]
  BY FactsCall, ProjectedRuns
<1> DEFINE T == {n \in 0..N : MethodsOf(walk[n]) = CallsWithin[n]}
<1>3. 0 \in T
  BY <1>1, <1>2, FirstProjectionsAre, CallsRun, 0 \in 0..N DEF Walked
<1>4. ASSUME NEW n \in 1..N, n - 1 \in T PROVE n \in T
  <2> DEFINE before == walk[n - 1]
  <2>1. n \in 0..N /\ n - 1 \in 0..N
    BY <1>1
  <2>2. before \in SUBSET Projections /\ MethodsOf(before) = CallsWithin[n - 1]
    BY <1>2, <1>4, <2>1 DEF Walked
  <2>3. walk[n] = Further(Facts, before) /\ CallsWithin[n] = WithCallees(MethodsOf(before))
    BY <1>2, <2>2, CallsRun DEF Walked
  <2> HIDE DEF before
  <2>4. \A t : t \in Further(Facts, before) <=>
            \/ t \in before
            \/ \E s \in before : \E f \in Facts :
                  f.channel = "call" /\ f.from = s.method /\ t = Called(s, f)
    BY <2>2, FactsCall, FurtherIs
  <2>5. ASSUME NEW t \in Further(Facts, before) PROVE t.method \in WithCallees(MethodsOf(before))
    <3>1. CASE t \in before
      BY <3>1 DEF MethodsOf, WithCallees
    <3>2. CASE t \notin before
      <4>1. PICK s \in before : \E f \in Facts :
                  f.channel = "call" /\ f.from = s.method /\ t = Called(s, f)
        BY <2>4, <2>5, <3>2
      <4>2. PICK f \in Facts : f.channel = "call" /\ f.from = s.method /\ t = Called(s, f)
        BY <4>1
      <4>3. t.method = f.to[1] /\ f.from \in MethodsOf(before)
        BY <4>2 DEF MethodsOf, Called
      <4> QED
        BY <4>2, <4>3 DEF WithCallees
    <3> QED
      BY <3>1, <3>2
  <2>6. ASSUME NEW m \in WithCallees(MethodsOf(before))
        PROVE  \E t \in Further(Facts, before) : t.method = m
    <3>1. CASE m \in MethodsOf(before)
      BY <3>1 DEF MethodsOf, Further
    <3>2. CASE m \notin MethodsOf(before)
      <4>1. PICK f \in Facts : f.channel = "call" /\ f.from \in MethodsOf(before) /\ m = f.to[1]
        BY <2>6, <3>2 DEF WithCallees
      <4>2. PICK s \in before : f.from = s.method
        BY <4>1 DEF MethodsOf
      <4>3. Called(s, f) \in Further(Facts, before) /\ Called(s, f).method = m
        BY <2>4, <4>1, <4>2 DEF Called
      <4> QED
        BY <4>3
    <3> QED
      BY <3>1, <3>2
  <2>7. MethodsOf(Further(Facts, before)) = WithCallees(MethodsOf(before))
    BY <2>5, <2>6 DEF MethodsOf
  <2> QED
    BY <2>1, <2>3, <2>7
<1> HIDE DEF T
<1>5. N \in T
  BY <1>1, <1>3, <1>4, CountingUp, N \in 0..N
<1> QED
  BY <1>2, <1>5 DEF T

LEMMA ContributorsAre ==
    ASSUME NEW F
    PROVE  \A c : c \in Contributors(F) <=>
              \E s \in Projected(F) : \E f \in F :
                  /\ f.channel = "table" /\ f.from = s.method
                  /\ c = [method |-> s.method, sure |-> s.sure /\ f.status = "resolved"]
<1> DEFINE of(s) == {[method |-> s.method, sure |-> s.sure /\ f.status = "resolved"] :
                        f \in {g \in F : g.channel = "table" /\ g.from = s.method}}
<1>1. Contributors(F) = UNION {of(s) : s \in Projected(F)}
  BY DEF Contributors
<1>2. \A s, c : c \in of(s) <=>
          \E f \in F : /\ f.channel = "table" /\ f.from = s.method
                       /\ c = [method |-> s.method, sure |-> s.sure /\ f.status = "resolved"]
  OBVIOUS
<1> HIDE DEF of
<1> QED
  BY <1>1, <1>2

-----------------------------------------------------------------------------
(***************************************************************************)
(* The trace's walk: without an interaction it reaches the same methods.   *)
(***************************************************************************)
\* A state at the method that no interaction led to, within n calls.
CalledAt(m, n) ==
    \E i \in 1..Len(queue) :
        /\ queue[i].methodId = m /\ queue[i].filter = "*"
        /\ queue[i].hop = 0 /\ queue[i].depth <= n

\* The walk is over, and was not cut at the limit of states.
NotCut == pc = "done" /\ ~StateLimitReported(Accumulator)

LEMMA QueueIsTyped ==
    ASSUME TraceInv
    PROVE  /\ Len(queue) \in Nat /\ DOMAIN queue = 1..Len(queue) /\ ValidDocument
           /\ Accumulator.queue = queue
           /\ \A i \in 1..Len(queue) : queue[i] \in RealStates /\ queue[i] \in States
<1>1. Accumulator.queue = queue /\ Accumulator \in Accumulators /\ Accumulator \in Onwards(Accumulator, RealStates)
  BY DEF TraceInv, Sound, Accumulator
<1>2. queue \in Seq(States)
  BY <1>1 DEF Accumulators
<1>3. \A i \in 1..Len(queue) : queue[i] \in RealStates
  BY <1>1 DEF Onwards
<1>4. \A i \in 1..Len(queue) : queue[i] \in States
  BY <1>3 DEF RealStates
<1>5. ValidDocument
  BY DEF TraceInv
<1> QED
  BY <1>1, <1>2, <1>3, <1>4, <1>5, LenProperties

\* What was to be enqueued is there.
LEMMA NothingIsCut ==
    ASSUME TraceInv, NotCut
    PROVE  /\ \A m \in ToSet(doc.implementations) : CalledAt(m, 0)
           /\ \A i \in 1..Len(queue) :
                 /\ HasSection(queue[i]) => \E j \in 1..Len(queue) : Key(queue[j]) = Key(LockedState(queue[i]))
                 /\ \A f \in Calls(queue[i]) :
                       \/ f.to[1] \in queue[i].path \/ ~(queue[i].depth < Limits.depth)
                       \/ \E j \in 1..Len(queue) : Key(queue[j]) = Key(CalledState(queue[i], f))
<1>1. pc = "done" /\ ~StateLimitReported(Accumulator)
  BY DEF NotCut
<1>2. Accumulator.queue = queue /\ Len(queue) \in Nat
  BY QueueIsTyped
<1>3. \A i \in 1..Len(queue) : Visited(Accumulator, queue[i])
  BY <1>1, <1>2 DEF TraceInv
<1>4. ASSUME NEW m \in ToSet(doc.implementations) PROVE CalledAt(m, 0)
  <2>1. Rooted(Accumulator, m)
    BY <1>1 DEF TraceInv
  <2>2. PICK j \in 1..Len(queue) :
           /\ queue[j].methodId = m /\ queue[j].filter = "*"
           /\ queue[j].depth = 0 /\ queue[j].hop = 0
    BY <1>1, <1>2, <2>1 DEF Rooted
  <2> QED
    BY <2>2 DEF CalledAt
<1>5. ASSUME NEW i \in 1..Len(queue), HasSection(queue[i])
      PROVE  \E j \in 1..Len(queue) : Key(queue[j]) = Key(LockedState(queue[i]))
  BY <1>1, <1>2, <1>3, <1>5 DEF Visited, Enqueued, Holds
<1>6. ASSUME NEW i \in 1..Len(queue), NEW f \in Calls(queue[i])
      PROVE  \/ f.to[1] \in queue[i].path \/ ~(queue[i].depth < Limits.depth)
             \/ \E j \in 1..Len(queue) : Key(queue[j]) = Key(CalledState(queue[i], f))
  BY <1>1, <1>2, <1>3 DEF Visited, Followed, Enqueued, Holds
<1> QED
  BY <1>4, <1>5, <1>6

\* A fact of a method with a state is one of that state, or of the one for
\* its section, which no interaction separates from it.
LEMMA FactsAreCovered ==
    ASSUME TraceInv, NotCut, NEW n \in Nat, NEW f \in Facts, CalledAt(f.from, n)
    PROVE  \E i \in 1..Len(queue) :
              /\ queue[i].methodId = f.from /\ f \in Direct(queue[i])
              /\ queue[i].hop = 0 /\ queue[i].depth <= n
<1>1. PICK i \in 1..Len(queue) :
         /\ queue[i].methodId = f.from /\ queue[i].filter = "*"
         /\ queue[i].hop = 0 /\ queue[i].depth <= n
  BY DEF CalledAt
<1>2. CASE f.region # "section"
  <2>1. f \in Direct(queue[i])
    BY <1>1, <1>2 DEF Direct, FactsOf, Facts, Applies
  <2> QED
    BY <1>1, <2>1
<1>3. CASE f.region = "section"
  <2>1. HasSection(queue[i])
    BY <1>1, <1>3 DEF HasSection, FactsOf, Facts
  <2>2. PICK j \in 1..Len(queue) : Key(queue[j]) = Key(LockedState(queue[i]))
    BY <2>1, NothingIsCut
  <2>3. queue[i] \in States
    BY QueueIsTyped
  <2>4. /\ LockedState(queue[i]).methodId = queue[i].methodId /\ LockedState(queue[i]).filter = "section"
        /\ LockedState(queue[i]).hop = queue[i].hop /\ LockedState(queue[i]).depth = queue[i].depth
    BY <2>3 DEF LockedState, States
  <2>5. /\ queue[j].methodId = f.from /\ queue[j].filter = "section"
        /\ queue[j].hop = 0 /\ queue[j].depth <= n
    BY <1>1, <2>2, <2>4 DEF Key
  <2>6. f \in Direct(queue[j])
    BY <1>3, <2>5 DEF Direct, FactsOf, Facts, Applies
  <2> QED
    BY <2>5, <2>6
<1> QED
  BY <1>2, <1>3

LEMMA CallsAreFollowed ==
    ASSUME TraceInv, NotCut
    PROVE  \A n \in 0..Limits.depth : \A m \in CallsWithin[n] : CalledAt(m, n)
<1> DEFINE N == Limits.depth
           T == {n \in 0..N : \A m \in CallsWithin[n] : CalledAt(m, n)}
<1>1. N \in Nat /\ ValidDocument
  BY CallsRun, QueueIsTyped
<1>2. 0 \in T
  BY <1>1, NothingIsCut, CallsRun, 0 \in 0..N
<1>3. ASSUME NEW n \in 1..N, n - 1 \in T PROVE n \in T
  <2>1. n \in 0..N /\ n - 1 \in 0..N /\ n \in Nat /\ n - 1 \in Nat
    BY <1>1
  <2>2. CallsWithin[n] = WithCallees(CallsWithin[n - 1])
    BY <1>1, CallsRun
  <2>3. ASSUME NEW m \in CallsWithin[n - 1] PROVE CalledAt(m, n)
    <3>1. PICK i \in 1..Len(queue) :
             /\ queue[i].methodId = m /\ queue[i].filter = "*"
             /\ queue[i].hop = 0 /\ queue[i].depth <= n - 1
      BY <1>3, <2>3 DEF CalledAt
    <3>2. queue[i].depth \in Nat
      BY QueueIsTyped DEF States
    <3>3. queue[i].depth <= n
      BY <2>1, <3>1, <3>2
    <3> QED
      BY <3>1, <3>3 DEF CalledAt
  <2>4. ASSUME NEW m \in CallsWithin[n], m \notin CallsWithin[n - 1] PROVE CalledAt(m, n)
    <3>1. PICK f \in Facts : f.channel = "call" /\ f.from \in CallsWithin[n - 1] /\ m = f.to[1]
      BY <2>2, <2>4 DEF WithCallees
    <3>2. CalledAt(f.from, n - 1)
      BY <1>3, <3>1
    <3>3. PICK i \in 1..Len(queue) :
             /\ queue[i].methodId = f.from /\ f \in Direct(queue[i])
             /\ queue[i].hop = 0 /\ queue[i].depth <= n - 1
      BY <2>1, <3>2, FactsAreCovered
    <3> DEFINE s == queue[i]
    <3>4. s \in RealStates /\ s \in States /\ f \in Calls(s)
      BY <3>1, <3>3, QueueIsTyped DEF Calls
    <3>5. s.depth \in 0..(n - 1) /\ n - 1 \in s.depth..N /\ s.depth \in 0..N /\ s.depth < N
      BY <1>1, <2>1, <3>3, <3>4 DEF States
    <3>6. m \notin s.path
      <4>1. s.path \subseteq CallsWithin[s.depth]
        BY <3>3, <3>4 DEF RealStates, OnCalls
      <4>2. CallsWithin[s.depth] \subseteq CallsWithin[n - 1]
        BY <1>1, <3>5, CallsGrow
      <4> QED
        BY <2>4, <4>1, <4>2
    <3>7. PICK j \in 1..Len(queue) : Key(queue[j]) = Key(CalledState(s, f))
      BY <3>1, <3>4, <3>5, <3>6, NothingIsCut
    <3>8. /\ CalledState(s, f).methodId = m /\ CalledState(s, f).filter = "*"
          /\ CalledState(s, f).hop = s.hop /\ CalledState(s, f).depth = s.depth + 1
      BY <3>1, <3>4 DEF CalledState, States
    <3>9. /\ queue[j].methodId = m /\ queue[j].filter = "*"
          /\ queue[j].hop = 0 /\ queue[j].depth = s.depth + 1
      BY <3>3, <3>7, <3>8 DEF Key
    <3>10. queue[j].depth <= n
      BY <2>1, <3>5, <3>9
    <3> QED
      BY <3>9, <3>10 DEF CalledAt
  <2> QED
    BY <2>1, <2>3, <2>4
<1> HIDE DEF T
<1>4. \A n \in 0..N : n \in T
  BY <1>1, <1>2, <1>3, CountingUp
<1> QED
  BY <1>4 DEF T

-----------------------------------------------------------------------------
\* The walk the policies read and the trace find the same writes along calls:
\* the projection, whose states know no depth, section or path, misses none
\* and adds none (buildTerminalFacts, buildEndpointTrace).
THEOREM TerminalFactsAgree == TracesSpec => []TerminalFactsAgreeWithTheTrace
<1>1. TraceInv => TerminalFactsAgreeWithTheTrace
  <2> SUFFICES ASSUME TraceInv, NotCut
               PROVE  {c.method : c \in Contributors(Facts)}
                        = {queue[i].methodId : i \in {i \in DOMAIN queue :
                              queue[i].hop = 0 /\ TableAccesses(queue[i]) # {}}}
    BY DEF TerminalFactsAgreeWithTheTrace, NotCut, Facts
  <2> DEFINE written == {f \in Facts : f.channel = "table"}
             traced == {queue[i].methodId : i \in {i \in DOMAIN queue :
                            queue[i].hop = 0 /\ TableAccesses(queue[i]) # {}}}
             of(s) == {[method |-> s.method, sure |-> s.sure /\ f.status = "resolved"] :
                           f \in {g \in Facts : g.channel = "table" /\ g.from = s.method}}
  <2>1. ValidDocument /\ DOMAIN queue = 1..Len(queue)
    BY QueueIsTyped
  <2>2. MethodsOf(Projected(Facts)) = CallsWithin[Limits.depth] /\ Limits.depth \in Nat
    BY <2>1, ProjectedIs, CallsRun
  <2>3. Contributors(Facts) = UNION {of(s) : s \in Projected(Facts)}
    BY DEF Contributors
  <2>4. \A m : m \in {c.method : c \in Contributors(Facts)} <=>
                  \E f \in written : m = f.from /\ m \in CallsWithin[Limits.depth]
    <3>1. \A s, c : c \in of(s) <=>
              \E f \in written : f.from = s.method
                  /\ c = [method |-> s.method, sure |-> s.sure /\ f.status = "resolved"]
      OBVIOUS
    <3>2. ASSUME NEW c \in Contributors(Facts)
          PROVE  \E f \in written : c.method = f.from /\ f.from \in MethodsOf(Projected(Facts))
      <4> HIDE DEF of, written
      <4>1. PICK s \in Projected(Facts) : c \in of(s)
        BY <2>3
      <4>2. PICK f \in written : f.from = s.method
                  /\ c = [method |-> s.method, sure |-> s.sure /\ f.status = "resolved"]
        BY <3>1, <4>1
      <4> QED
        BY <4>2 DEF MethodsOf
    <3>3. ASSUME NEW f \in written, f.from \in MethodsOf(Projected(Facts))
          PROVE  \E c \in Contributors(Facts) : c.method = f.from
      <4> HIDE DEF of, written
      <4>1. PICK s \in Projected(Facts) : f.from = s.method
        BY <3>3 DEF MethodsOf
      <4> DEFINE c == [method |-> s.method, sure |-> s.sure /\ f.status = "resolved"]
      <4>2. c \in of(s)
        BY <3>1, <4>1
      <4>3. c \in Contributors(Facts)
        BY <2>3, <4>1, <4>2
      <4> QED
        BY <4>1, <4>3
    <3> HIDE DEF of, written
    <3> QED
      BY <2>2, <3>2, <3>3
  <2>5. ASSUME NEW f \in written, f.from \in CallsWithin[Limits.depth]
        PROVE  f.from \in traced
    <3>1. CalledAt(f.from, Limits.depth)
      BY <2>2, <2>5, CallsAreFollowed, Limits.depth \in 0..Limits.depth
    <3>2. PICK i \in 1..Len(queue) :
             queue[i].methodId = f.from /\ f \in Direct(queue[i]) /\ queue[i].hop = 0
      BY <2>2, <3>1, FactsAreCovered
    <3>3. f \in TableAccesses(queue[i])
      BY <3>2 DEF TableAccesses
    <3> QED
      BY <2>1, <3>2, <3>3
  <2>6. ASSUME NEW m \in traced
        PROVE  \E f \in written : m = f.from /\ m \in CallsWithin[Limits.depth]
    <3>1. PICK i \in 1..Len(queue) :
             m = queue[i].methodId /\ queue[i].hop = 0 /\ TableAccesses(queue[i]) # {}
      BY <2>1
    <3>2. PICK f \in TableAccesses(queue[i]) : TRUE
      BY <3>1
    <3>3. f \in written /\ f.from = m
      BY <3>1, <3>2 DEF TableAccesses, Direct, FactsOf, Facts
    <3>4. /\ queue[i].depth \in Nat /\ queue[i].depth <= Limits.depth
          /\ m \in CallsWithin[queue[i].depth]
      BY <3>1, QueueIsTyped DEF RealStates, OnCalls, States
    <3>5. queue[i].depth \in 0..Limits.depth /\ Limits.depth \in queue[i].depth..Limits.depth
      BY <2>2, <3>4
    <3>6. m \in CallsWithin[Limits.depth]
      BY <2>1, <3>4, <3>5, CallsGrow
    <3> QED
      BY <3>3, <3>6
  <2> HIDE DEF traced, written
  <2>7. {c.method : c \in Contributors(Facts)} = traced
    BY <2>4, <2>5, <2>6
  <2> QED
    BY <2>7 DEF traced
<1> QED
  BY <1>1, WalkIsRight, PTL

-----------------------------------------------------------------------------
(***************************************************************************)
(* Completions of the facts.                                               *)
(***************************************************************************)
Certain == {f \in Facts : f.status = "resolved"}

\* A fact that a completion adds: one that was ambiguous, a call from a method
\* with an unresolved call, or a write of a diagnosed method.
Promoted(g) ==
    \E f \in Facts : g.from = f.from /\ g.channel = f.channel /\ g.to = f.to

Added(g, x) ==
    \/ g.channel = "call" /\ g.from \in x.unresolved /\ g.to[1] \in Methods
    \/ g.channel = "table" /\ g.from \in x.gaps

LEMMA CompletedFactsAre ==
    ASSUME ValidDocument, NEW x \in PolicyInputs, NEW G \in CompletedFacts(Facts, x)
    PROVE  /\ Certain \subseteq G
           /\ \A g \in G : Promoted(g) \/ Added(g, x)
           /\ Calling(G)
<1> DEFINE promoted == {[f EXCEPT !.status = "resolved"] : f \in Facts \ Certain}
           called == {[from |-> m, channel |-> "call", to |-> <<n>>, region |-> "body",
                       job |-> "generate", status |-> "resolved"] : m \in x.unresolved, n \in Methods}
           written == {[from |-> m, channel |-> "table", to |-> <<>>, region |-> "body",
                        job |-> "generate", status |-> "resolved"] : m \in x.gaps}
<1>1. CompletedFacts(Facts, x) = {Certain \cup H : H \in SUBSET (promoted \cup called \cup written)}
  BY DEF CompletedFacts, Certain
<1>2. ASSUME NEW g \in promoted PROVE Promoted(g)
  <2>1. PICK f \in Facts : g = [f EXCEPT !.status = "resolved"]
    BY <1>2
  <2>2. f \in Assertions
    BY FactsAreTyped
  <2>3. g.from = f.from /\ g.channel = f.channel /\ g.to = f.to
    BY <2>1, <2>2 DEF Assertions
  <2> QED
    BY <2>3 DEF Promoted
<1>3. \A g \in called : Added(g, x)
  BY DEF Added
<1>4. \A g \in written : Added(g, x)
  BY DEF Added
<1>5. \A g \in Certain : Promoted(g)
  BY DEF Certain, Promoted
<1> HIDE DEF promoted, called, written
<1>6. PICK H \in SUBSET (promoted \cup called \cup written) : G = Certain \cup H
  BY <1>1
<1>7. \A g \in G : Promoted(g) \/ Added(g, x)
  BY <1>2, <1>3, <1>4, <1>5, <1>6
<1>8. Calling(G)
  <2>1. ASSUME NEW g \in G, g.channel = "call" PROVE g.to[1] \in Methods
    <3>1. CASE Promoted(g)
      BY <2>1, <3>1, FactsAreTyped DEF Promoted
    <3>2. CASE Added(g, x)
      BY <2>1, <3>2 DEF Added
    <3> QED
      BY <1>7, <2>1, <3>1, <3>2
  <2> QED
    BY <2>1 DEF Calling
<1> QED
  BY <1>6, <1>7, <1>8

\* What contributes for sure does so in every completion.
LEMMA SureStays ==
    ASSUME ValidDocument, NEW x \in PolicyInputs, NEW G \in CompletedFacts(Facts, x)
    PROVE  \A c \in Contributors(Facts) : c.sure => c \in Contributors(G)
<1> DEFINE N == Limits.depth
<1>1. N \in Nat
  BY CallsRun
<1>2. PICK walk : Walked(Facts, walk) /\ Projected(Facts) = walk[N]
  BY FactsCall, ProjectedRuns
<1>3. PICK onward : Walked(G, onward) /\ Projected(G) = onward[N]
  BY CompletedFactsAre, ProjectedRuns
<1> DEFINE T == {n \in 0..N : \A s \in walk[n] : s.sure => s \in onward[n]}
<1>4. 0 \in T
  BY <1>1, <1>2, <1>3, 0 \in 0..N DEF Walked
<1>5. ASSUME NEW n \in 1..N, n - 1 \in T PROVE n \in T
  <2> DEFINE before == walk[n - 1]
             previous == onward[n - 1]
  <2>1. n \in 0..N /\ n - 1 \in 0..N
    BY <1>1
  <2>2. /\ before \in SUBSET Projections /\ previous \in SUBSET Projections
        /\ walk[n] = Further(Facts, before) /\ onward[n] = Further(G, previous)
        /\ \A s \in before : s.sure => s \in previous
    BY <1>2, <1>3, <1>5, <2>1 DEF Walked
  <2> HIDE DEF before, previous
  <2>3. ASSUME NEW t \in Further(Facts, before), t.sure PROVE t \in Further(G, previous)
    <3>1. CASE t \in before
      BY <2>2, <2>3, <3>1 DEF Further
    <3>2. CASE t \notin before
      <4>1. PICK s \in before : \E f \in Facts :
                  f.channel = "call" /\ f.from = s.method /\ t = Called(s, f)
        BY <2>2, <2>3, <3>2, FactsCall, FurtherIs
      <4>2. PICK f \in Facts : f.channel = "call" /\ f.from = s.method /\ t = Called(s, f)
        BY <4>1
      <4>3. s.sure /\ f.status = "resolved"
        BY <2>3, <4>2 DEF Called
      <4>4. f \in G /\ s \in previous
        BY <2>2, <4>3, CompletedFactsAre DEF Certain
      <4>5. Calling(G)
        BY CompletedFactsAre
      <4> QED
        BY <2>2, <4>2, <4>4, <4>5, FurtherIs
    <3> QED
      BY <3>1, <3>2
  <2> QED
    BY <2>1, <2>2, <2>3
<1>6. \A n \in 0..N : n \in T
  <2> HIDE DEF T
  <2> QED
    BY <1>1, <1>4, <1>5, CountingUp
<1>7. \A s \in Projected(Facts) : s.sure => s \in Projected(G)
  BY <1>1, <1>2, <1>3, <1>6, N \in 0..N
<1> HIDE DEF N, T
<1> SUFFICES ASSUME NEW c \in Contributors(Facts), c.sure PROVE c \in Contributors(G)
  OBVIOUS
<1>8. PICK s \in Projected(Facts) : \E f \in Facts :
         /\ f.channel = "table" /\ f.from = s.method
         /\ c = [method |-> s.method, sure |-> s.sure /\ f.status = "resolved"]
  BY ContributorsAre
<1>9. PICK f \in Facts :
         /\ f.channel = "table" /\ f.from = s.method
         /\ c = [method |-> s.method, sure |-> s.sure /\ f.status = "resolved"]
  BY <1>8
<1>10. s.sure /\ f.status = "resolved"
  BY <1>9
<1>11. s \in Projected(G) /\ f \in G
  BY <1>7, <1>10, CompletedFactsAre DEF Certain
<1> QED
  BY <1>9, <1>11, ContributorsAre

\* A program that no write is known of, and a trace of which has no gap, has
\* none however it is completed.
LEMMA NothingIsAdded ==
    ASSUME TraceInv, NotCut, NEW x \in PolicyInputs, ~HasGap(x), Contributors(Facts) = {},
           NEW G \in CompletedFacts(Facts, x)
    PROVE  Contributors(G) = {}
<1> DEFINE N == Limits.depth
<1>1. N \in Nat /\ ValidDocument
  BY CallsRun, QueueIsTyped
<1>2. PICK onward : Walked(G, onward) /\ Projected(G) = onward[N]
  BY <1>1, CompletedFactsAre, ProjectedRuns
<1> DEFINE T == {n \in 0..N : MethodsOf(onward[n]) \subseteq CallsWithin[n]}
<1>3. 0 \in T
  BY <1>1, <1>2, FirstProjectionsAre, CallsRun, 0 \in 0..N DEF Walked
<1>4. ASSUME NEW n \in 1..N, n - 1 \in T PROVE n \in T
  <2> DEFINE previous == onward[n - 1]
  <2>1. n \in 0..N /\ n - 1 \in 0..N
    BY <1>1
  <2>2. /\ previous \in SUBSET Projections /\ onward[n] = Further(G, previous)
        /\ MethodsOf(previous) \subseteq CallsWithin[n - 1]
        /\ CallsWithin[n] = WithCallees(CallsWithin[n - 1])
    BY <1>1, <1>2, <1>4, <2>1, CallsRun DEF Walked
  <2> HIDE DEF previous
  <2>3. ASSUME NEW t \in Further(G, previous) PROVE t.method \in CallsWithin[n]
    <3>1. CASE t \in previous
      BY <2>2, <3>1 DEF MethodsOf, WithCallees
    <3>2. CASE t \notin previous
      <4>1. PICK s \in previous : \E g \in G :
                  g.channel = "call" /\ g.from = s.method /\ t = Called(s, g)
        BY <1>1, <2>2, <2>3, <3>2, CompletedFactsAre, FurtherIs
      <4>2. PICK g \in G : g.channel = "call" /\ g.from = s.method /\ t = Called(s, g)
        BY <4>1
      <4>3. g.from \in CallsWithin[n - 1] /\ t.method = g.to[1]
        BY <2>2, <4>2 DEF MethodsOf, Called
      <4>4. CASE Promoted(g)
        <5>1. PICK f \in Facts : g.from = f.from /\ g.channel = f.channel /\ g.to = f.to
          BY <4>4 DEF Promoted
        <5> QED
          BY <2>2, <4>2, <4>3, <5>1 DEF WithCallees
      <4>5. CASE Added(g, x)
        <5>1. g.from \in x.unresolved
          BY <4>2, <4>5 DEF Added
        <5>2. PICK i \in 1..Len(queue) :
                 /\ queue[i].methodId = g.from /\ queue[i].filter = "*"
                 /\ queue[i].hop = 0 /\ queue[i].depth <= n - 1
          BY <2>1, <4>3, CallsAreFollowed DEF CalledAt
        <5>3. queue[i].depth < Limits.depth /\ i \in DOMAIN queue
          <6>1. queue[i].depth \in Nat /\ i \in DOMAIN queue
            BY QueueIsTyped DEF States
          <6> QED
            BY <1>1, <5>2, <6>1
        <5>4. Stops(queue[i], x)
          BY <5>1, <5>2, <5>3 DEF Stops
        <5> QED
          BY <5>3, <5>4 DEF HasGap
      <4> QED
        BY <1>1, <4>4, <4>5, CompletedFactsAre
    <3> QED
      BY <3>1, <3>2
  <2> QED
    BY <2>1, <2>2, <2>3 DEF MethodsOf
<1>5. N \in T
  <2> HIDE DEF T
  <2> QED
    BY <1>1, <1>3, <1>4, CountingUp, N \in 0..N
<1>6. MethodsOf(Projected(G)) \subseteq CallsWithin[N]
  BY <1>2, <1>5
<1> HIDE DEF T
<1> SUFFICES ASSUME NEW c \in Contributors(G) PROVE FALSE
  OBVIOUS
<1>7. PICK s \in Projected(G) : \E g \in G :
         /\ g.channel = "table" /\ g.from = s.method
         /\ c = [method |-> s.method, sure |-> s.sure /\ g.status = "resolved"]
  BY ContributorsAre
<1>8. PICK g \in G : g.channel = "table" /\ g.from = s.method
  BY <1>7
<1>9. g.from \in CallsWithin[N]
  BY <1>6, <1>8 DEF MethodsOf
<1>10. CASE Promoted(g)
  <2>1. PICK f \in Facts : g.from = f.from /\ g.channel = f.channel /\ g.to = f.to
    BY <1>10 DEF Promoted
  <2>2. PICK r \in Projected(Facts) : r.method = f.from
    BY <1>1, <1>9, <2>1, ProjectedIs DEF MethodsOf
  <2> DEFINE d == [method |-> r.method, sure |-> r.sure /\ f.status = "resolved"]
  <2>3. f.channel = "table" /\ f.from = r.method
    BY <1>8, <2>1, <2>2
  <2>4. d = [method |-> r.method, sure |-> r.sure /\ f.status = "resolved"]
    OBVIOUS
  <2> HIDE DEF d
  <2>5. d \in Contributors(Facts)
    <3>1. \A e : (\E s1 \in Projected(Facts) : \E f1 \in Facts :
                    /\ f1.channel = "table" /\ f1.from = s1.method
                    /\ e = [method |-> s1.method, sure |-> s1.sure /\ f1.status = "resolved"])
                 => e \in Contributors(Facts)
      BY ContributorsAre
    <3> QED
      BY <2>1, <2>2, <2>3, <2>4, <3>1
  <2> QED
    BY <2>5
<1>11. CASE Added(g, x)
  <2>1. g.from \in x.gaps
    BY <1>8, <1>11 DEF Added
  <2>2. PICK i \in 1..Len(queue) : queue[i].methodId = g.from
    BY <1>1, <1>9, CallsAreFollowed, N \in 0..N DEF CalledAt
  <2>3. g.from \in StepSubjects
    BY <2>2, QueueIsTyped DEF StepSubjects, Reached
  <2> QED
    BY <2>1, <2>3 DEF HasGap
<1> QED
  BY <1>1, <1>8, <1>10, <1>11, CompletedFactsAre

-----------------------------------------------------------------------------
(***************************************************************************)
(* The evaluation, once it is made, stays the one of its facts.            *)
(***************************************************************************)
LEMMA ContributorsStay ==
    ASSUME UNCHANGED vars
    PROVE  Contributors(Facts)' = Contributors(Facts)
<1>1. doc' = doc /\ Facts' = Facts
  BY TheDocumentStays DEF vars
<1>2. Projected(Facts)' = Projected(Facts)
  <2> DEFINE roots == {[method |-> m, sure |-> TRUE] : m \in ToSet(doc.implementations)}
             N == Limits.depth
             Runs(w) == w = [n \in 0..N |-> IF n = 0 THEN roots ELSE Further(Facts, w[n - 1])]
  <2>1. /\ Projected(Facts) = (CHOOSE w : Runs(w))[N]
        /\ Projected(Facts)' = (CHOOSE w : Runs(w)')[N']
    BY DEF Projected, Further
  <2>2. roots' = roots /\ N' = N
    BY <1>1 DEF Limits
  <2>3. \A before : Further(Facts, before)' = Further(Facts, before)
    BY <1>1 DEF Further, Onward
  <2> HIDE DEF roots, N
  <2>4. \A w : Runs(w)' <=> Runs(w)
    BY <2>2, <2>3
  <2> HIDE DEF Runs
  <2> QED
    BY <2>1, <2>2, <2>4
<1> QED
  BY <1>1, <1>2 DEF Contributors

LEMMA RulesStay ==
    ASSUME UNCHANGED vars, NEW x
    PROVE  \A rule \in RuleIds : Outcomes(rule, Facts, x)' = Outcomes(rule, Facts, x)
<1>1. doc' = doc /\ queue' = queue /\ pc' = pc
  BY DEF vars
<1>2. Snapshots(x)' = Snapshots(x) /\ AuthorizationRule(x)' = AuthorizationRule(x)
  BY <1>1 DEF Snapshots, AuthorizationRule
<1>3. HasGap(x)' <=> HasGap(x)
  <2>1. \A s : Direct(s)' = Direct(s)
    BY <1>1 DEF Direct, FactsOf
  <2>2. \A s : Recorded(s)' = Recorded(s)
    BY <1>1, <2>1 DEF Recorded, Interactions, TableAccesses, Calls, Limits
  <2>3. \A f : Matches(f)' = Matches(f)
    BY <1>1 DEF Matches, Limits
  <2>4. StepSubjects' = StepSubjects
    BY <1>1, <2>2, <2>3 DEF StepSubjects, Reached
  <2>5. \A s : Stops(s, x)' <=> Stops(s, x)
    BY <1>1 DEF Stops, Limits
  <2> QED
    BY <1>1, <2>2, <2>4, <2>5 DEF HasGap
<1>4. GuardRule(Facts, x)' = GuardRule(Facts, x)
  BY <1>2, ContributorsStay DEF GuardRule
<1>5. CompleteTraceRule(Facts, x)' = CompleteTraceRule(Facts, x)
  BY <1>2, <1>3, ContributorsStay DEF CompleteTraceRule
<1> QED
  BY <1>2, <1>4, <1>5 DEF Outcomes, RuleIds

LEMMA EvaluatedStays ==
    ASSUME UNCHANGED vars, NEW x \in PolicyInputs
    PROVE  Evaluated(x)' = Evaluated(x)
<1>1. \A rule \in x.rules : Outcomes(rule, Facts, x)' = Outcomes(rule, Facts, x)
  BY RulesStay DEF PolicyInputs
<1> QED
  BY <1>1 DEF Evaluated, Facts

-----------------------------------------------------------------------------
(***************************************************************************)
(* The rules, each under the completions of the facts and inputs it reads. *)
(***************************************************************************)
\* A status that was uncertain may turn out resolved; one that is, stays so.
LEMMA CompletedStatuses ==
    ASSUME NEW statuses, NEW after \in Completed(statuses)
    PROVE  /\ "resolved" \in statuses => "resolved" \in after
           /\ statuses = {} => after = {}
BY DEF Completed

\* What a completion of the inputs leaves as it was, and what it settles.
Completes(y, x) ==
    /\ y.controllers = x.controllers /\ y.unsupportedOperation = x.unsupportedOperation
    /\ y.sameKey = x.sameKey /\ y.authorizationKnown = x.authorizationKnown
    /\ y.requirements = x.requirements /\ y.minimumSeverity = x.minimumSeverity
    /\ \/ y.repository \in Completed(x.repository)
       \/ x.repositoryDiagnosed /\ y.repository = {"resolved"}
    /\ ~y.repositoryDiagnosed /\ y.interactionsComplete
    /\ y.baseline.supplied = x.baseline.supplied /\ ~y.baseline.ambiguous
    /\ \/ y.baseline.new = x.baseline.new
       \/ x.baseline.ambiguous /\ y.baseline.new = {"error"}

CompletesInteraction(j, i, x) ==
    /\ j.kind = i.kind
    /\ IF i.target = "unknown" THEN j.target \in {"static", "dynamic"} ELSE j.target = i.target
    /\ IF i.activation = "unknown" THEN j.activation \in {"eager", "constructed_cold"}
       ELSE j.activation = i.activation
    /\ \/ j.matches \in Completed(i.matches)
       \/ (i.target = "dynamic" \/ ~x.interactionsComplete) /\ j.matches = {"resolved"}

LEMMA CompletedInteractionIs ==
    ASSUME NEW x, NEW i \in JudgedInteractions, NEW j \in CompletedInteraction(i, x)
    PROVE  CompletesInteraction(j, i, x)
<1> DEFINE targets == IF i.target = "unknown" THEN {"static", "dynamic"} ELSE {i.target}
           activations == IF i.activation = "unknown" THEN {"eager", "constructed_cold"}
                          ELSE {i.activation}
           matches == Completed(i.matches) \cup
                      IF i.target = "dynamic" \/ ~x.interactionsComplete THEN {{"resolved"}} ELSE {}
<1>1. PICK t \in targets, a \in activations, m \in matches : j = CompletedAs(i, t, a, m)
  BY DEF CompletedInteraction
<1> HIDE DEF targets, activations, matches
<1>2. j.kind = i.kind /\ j.target = t /\ j.activation = a /\ j.matches = m
  BY <1>1 DEF CompletedAs, JudgedInteractions
<1> QED
  BY <1>1, <1>2 DEF CompletesInteraction, targets, activations, matches

LEMMA CompletedInputIs ==
    ASSUME NEW x \in PolicyInputs, NEW y \in CompletedInputs(x)
    PROVE  /\ Completes(y, x)
           /\ \A i \in x.interactions : \E j \in y.interactions : CompletesInteraction(j, i, x)
           /\ \A j \in y.interactions : \E i \in x.interactions : CompletesInteraction(j, i, x)
<1> DEFINE repositories == Completed(x.repository)
                           \cup IF x.repositoryDiagnosed THEN {{"resolved"}} ELSE {}
           news == {x.baseline.new} \cup IF x.baseline.ambiguous THEN {{"error"}} ELSE {}
           baseline(new) == [x.baseline EXCEPT !.new = new, !.ambiguous = FALSE]
           turned(turn) == {turn[i] : i \in x.interactions}
<1>1. PICK r \in repositories, turn \in CompletedTurns(x), n \in news :
         y = CompletedWith(x, r, turn, n)
  BY DEF CompletedInputs
<1>2. \A i \in x.interactions : CompletesInteraction(turn[i], i, x)
  <2>1. \A i \in x.interactions : turn[i] \in CompletedInteraction(i, x)
    BY <1>1 DEF CompletedTurns
  <2> QED
    BY <2>1, CompletedInteractionIs DEF PolicyInputs
<1>3. baseline(n).supplied = x.baseline.supplied /\ ~baseline(n).ambiguous /\ baseline(n).new = n
  BY DEF PolicyInputs
<1>4. y = [x EXCEPT !.repository = r, !.repositoryDiagnosed = FALSE,
                    !.interactions = turned(turn), !.interactionsComplete = TRUE,
                    !.baseline = baseline(n)]
  BY <1>1 DEF CompletedWith
<1> HIDE DEF baseline, turned, news, repositories
<1>5. /\ y.controllers = x.controllers /\ y.unsupportedOperation = x.unsupportedOperation
      /\ y.sameKey = x.sameKey
  BY <1>4 DEF PolicyInputs
<1>6. /\ y.authorizationKnown = x.authorizationKnown
      /\ y.requirements = x.requirements /\ y.minimumSeverity = x.minimumSeverity
  BY <1>4 DEF PolicyInputs
<1>7. y.repository = r /\ y.interactions = turned(turn)
  BY <1>4 DEF PolicyInputs
<1>8. y.repositoryDiagnosed = FALSE /\ y.interactionsComplete = TRUE
  BY <1>4 DEF PolicyInputs
<1>9. y.baseline = baseline(n)
  BY <1>4 DEF PolicyInputs
<1>10. r \in Completed(x.repository) \/ (x.repositoryDiagnosed /\ r = {"resolved"})
  BY <1>1 DEF repositories
<1>11. n = x.baseline.new \/ (x.baseline.ambiguous /\ n = {"error"})
  BY <1>1 DEF news
<1>12. Completes(y, x)
  BY <1>3, <1>5, <1>6, <1>7, <1>8, <1>9, <1>10, <1>11 DEF Completes
<1> QED
  BY <1>2, <1>7, <1>12 DEF turned

\* Whether the rules on guards and authorization find one endpoint.
LEMMA SnapshotsAre ==
    ASSUME NEW x, NEW y, y.sameKey = x.sameKey
    PROVE  Snapshots(y) = Snapshots(x)
BY DEF Snapshots

\* What GatesAreSound asks of a rule on whose outcomes the gate depends.
KeepsFailing(rule, x) ==
    "fail" \in Outcomes(rule, Facts, x) =>
        \A y \in CompletedInputs(x) : "fail" \in Outcomes(rule, Facts, y)

KeepsPassing(rule, x) ==
    Outcomes(rule, Facts, x) \cap {"fail", "unknown"} = {} =>
        \A y \in CompletedInputs(x) : "fail" \notin Outcomes(rule, Facts, y)

LEMMA RepositoryIsSound ==
    ASSUME NEW x \in PolicyInputs
    PROVE  KeepsFailing("repository", x) /\ KeepsPassing("repository", x)
<1>1. ASSUME NEW y \in CompletedInputs(x)
      PROVE  /\ RepositoryRule(x) = "fail" => RepositoryRule(y) = "fail"
             /\ RepositoryRule(x) \notin {"fail", "unknown"} => RepositoryRule(y) # "fail"
  <2>1. Completes(y, x) /\ x.controllers \in Nat
    BY CompletedInputIs DEF PolicyInputs
  <2>2. \A after \in Completed(x.repository) :
           /\ "resolved" \in x.repository => "resolved" \in after
           /\ x.repository = {} => after = {}
    BY CompletedStatuses
  <2> QED
    BY <2>1, <2>2 DEF Completes, RepositoryRule
<1> QED
  BY <1>1 DEF KeepsFailing, KeepsPassing, Outcomes

LEMMA DiagnosticsAreSound ==
    ASSUME NEW x \in PolicyInputs
    PROVE  KeepsFailing("diagnostics", x) /\ KeepsPassing("diagnostics", x)
<1>1. ASSUME NEW y \in CompletedInputs(x)
      PROVE  /\ DiagnosticRule(x) = "fail" => DiagnosticRule(y) = "fail"
             /\ DiagnosticRule(x) \notin {"fail", "unknown"} => DiagnosticRule(y) # "fail"
  <2>1. Completes(y, x) /\ x.minimumSeverity \in Severities
    BY CompletedInputIs DEF PolicyInputs
  <2>2. SeverityRank["error"] >= SeverityRank[x.minimumSeverity]
    BY <2>1 DEF SeverityRank, Severities
  <2> QED
    BY <2>1, <2>2 DEF Completes, DiagnosticRule
<1> QED
  BY <1>1 DEF KeepsFailing, KeepsPassing, Outcomes

LEMMA AuthorizationIsSound ==
    ASSUME NEW x \in PolicyInputs
    PROVE  KeepsFailing("authorization", x) /\ KeepsPassing("authorization", x)
<1>1. \A y : AuthorizationRule(y) # "fail"
  BY DEF AuthorizationRule
<1> QED
  BY <1>1 DEF KeepsFailing, KeepsPassing, Outcomes

LEMMA TargetsAreSound ==
    ASSUME NEW x \in PolicyInputs
    PROVE  KeepsFailing("dynamic_target", x) /\ KeepsPassing("dynamic_target", x)
<1>1. ASSUME NEW z
      PROVE  /\ "fail" \in Outcomes("dynamic_target", Facts, z)
                   <=> \E i \in z.interactions : DynamicTargetRule(i) = "fail"
             /\ "unknown" \in Outcomes("dynamic_target", Facts, z)
                   <=> \E i \in z.interactions : DynamicTargetRule(i) = "unknown"
  BY DEF Outcomes, PerSubject
<1>2. ASSUME NEW i, NEW j, CompletesInteraction(j, i, x)
      PROVE  /\ DynamicTargetRule(i) = "fail" => DynamicTargetRule(j) = "fail"
             /\ DynamicTargetRule(i) \notin {"fail", "unknown"} => DynamicTargetRule(j) # "fail"
  BY <1>2 DEF CompletesInteraction, DynamicTargetRule
<1> QED
  BY <1>1, <1>2, CompletedInputIs DEF KeepsFailing, KeepsPassing

LEMMA ActivationsAreSound ==
    ASSUME NEW x \in PolicyInputs
    PROVE  KeepsFailing("activation", x) /\ KeepsPassing("activation", x)
<1>1. ASSUME NEW z
      PROVE  /\ "fail" \in Outcomes("activation", Facts, z)
                   <=> \E i \in z.interactions : ActivationRule(i) = "fail"
             /\ "unknown" \in Outcomes("activation", Facts, z)
                   <=> \E i \in z.interactions : ActivationRule(i) = "unknown"
  BY DEF Outcomes, PerSubject
<1>2. ASSUME NEW i, NEW j, CompletesInteraction(j, i, x)
      PROVE  /\ ActivationRule(i) = "fail" => ActivationRule(j) = "fail"
             /\ ActivationRule(i) \notin {"fail", "unknown"} => ActivationRule(j) # "fail"
  BY <1>2 DEF CompletesInteraction, ActivationRule
<1> QED
  BY <1>1, <1>2, CompletedInputIs DEF KeepsFailing, KeepsPassing

\* Of the interactions only messages can have a target that is not known.
EventsAreKnown(x) == \A i \in x.interactions : i.kind = "event" => i.target # "unknown"

LEMMA HandlersAreSound ==
    ASSUME NEW x \in PolicyInputs, EventsAreKnown(x)
    PROVE  KeepsFailing("local_handler", x) /\ KeepsPassing("local_handler", x)
<1>1. ASSUME NEW z
      PROVE  /\ "fail" \in Outcomes("local_handler", Facts, z)
                   <=> \E i \in z.interactions : i.kind = "event" /\ LocalHandlerRule(i, z) = "fail"
             /\ "unknown" \in Outcomes("local_handler", Facts, z)
                   <=> \E i \in z.interactions : i.kind = "event" /\ LocalHandlerRule(i, z) = "unknown"
  BY DEF Outcomes, PerSubject
<1>2. ASSUME NEW y \in CompletedInputs(x), NEW i \in x.interactions, NEW j,
             i.kind = "event", CompletesInteraction(j, i, x)
      PROVE  /\ j.kind = "event"
             /\ LocalHandlerRule(i, x) = "fail" => LocalHandlerRule(j, y) = "fail"
             /\ LocalHandlerRule(i, x) \notin {"fail", "unknown"} => LocalHandlerRule(j, y) # "fail"
  <2>1. y.interactionsComplete
    BY CompletedInputIs DEF Completes
  <2>2. j.kind = i.kind /\ j.target = i.target
    BY <1>2 DEF CompletesInteraction, EventsAreKnown
  <2>3. \/ j.matches \in Completed(i.matches)
        \/ (i.target = "dynamic" \/ ~x.interactionsComplete) /\ j.matches = {"resolved"}
    BY <1>2 DEF CompletesInteraction
  <2>4. /\ "resolved" \in i.matches => "resolved" \in j.matches
        /\ i.matches = {} => j.matches = {} \/ i.target = "dynamic" \/ ~x.interactionsComplete
    BY <2>3, CompletedStatuses
  <2> QED
    BY <1>2, <2>1, <2>2, <2>4 DEF LocalHandlerRule
<1> QED
  <2>1. \A y \in CompletedInputs(x) : \A j \in y.interactions :
            \E i \in x.interactions : CompletesInteraction(j, i, x)
    BY CompletedInputIs
  <2>2. \A i, j : CompletesInteraction(j, i, x) => j.kind = i.kind
    BY DEF CompletesInteraction
  <2>3. KeepsFailing("local_handler", x)
    BY <1>1, <1>2, CompletedInputIs DEF KeepsFailing
  <2>4. KeepsPassing("local_handler", x)
    BY <1>1, <1>2, <2>1, <2>2 DEF KeepsPassing
  <2> QED
    BY <2>3, <2>4

\* A completion of the guards keeps those that are proven, and adds none to an
\* endpoint that is proven to have none.
LEMMA CompletedGuardsAre ==
    ASSUME NEW x \in PolicyInputs, NEW y \in CompletedGuards(x)
    PROVE  /\ y.sameKey = x.sameKey /\ GlobalGuardState(y) = "none_proven"
           /\ \A g \in EffectiveGuards(x) : g.status = "resolved" => g \in EffectiveGuards(y)
           /\ EffectiveGuards(x) = {} /\ GlobalGuardState(x) = "none_proven" =>
                 EffectiveGuards(y) = {}
<1> DEFINE promoted == {[g EXCEPT !.status = "resolved"] : g \in x.guards}
           global == {[scope |-> "application_global", status |-> "resolved"] :
                         s \in {GlobalGuardState(x)} \cap {"unknown"}}
           proven == {g \in x.guards : g.status = "resolved"}
<1>1. x.guards = {} => promoted = {} /\ proven = {}
  OBVIOUS
<1>2. GlobalGuardState(x) = "none_proven" => global = {}
  OBVIOUS
<1>3. PICK G \in SUBSET (promoted \cup global) : y = GuardedBy(x, G)
  BY DEF CompletedGuards
<1>4. y = [x EXCEPT !.guards = proven \cup G, !.globalGuardState = "none_proven",
                    !.firstSchema = FALSE]
  BY <1>3 DEF GuardedBy
<1>5. \A g : g \in proven <=> g \in x.guards /\ g.status = "resolved"
  OBVIOUS
<1> HIDE DEF promoted, global, proven
<1>6. /\ y.sameKey = x.sameKey /\ y.guards = proven \cup G
      /\ y.globalGuardState = "none_proven" /\ y.firstSchema = FALSE
  BY <1>4 DEF PolicyInputs
<1>7. EffectiveGuards(y) = proven \cup G /\ GlobalGuardState(y) = "none_proven"
  BY <1>6 DEF EffectiveGuards, GlobalGuardState
<1>8. \A g \in EffectiveGuards(x) : g \in x.guards
  BY DEF EffectiveGuards
<1>9. ASSUME EffectiveGuards(x) = {}, GlobalGuardState(x) = "none_proven"
      PROVE  EffectiveGuards(y) = {}
  <2>1. x.firstSchema = FALSE
    BY <1>9 DEF GlobalGuardState, PolicyInputs
  <2>2. x.guards = {}
    BY <1>9, <2>1 DEF EffectiveGuards
  <2> QED
    BY <1>1, <1>2, <1>3, <1>7, <1>9, <2>2
<1> QED
  BY <1>5, <1>6, <1>7, <1>8, <1>9

LEMMA GuardIsSound ==
    ASSUME ValidDocument, NEW x \in PolicyInputs
    PROVE  /\ GuardRule(Facts, x) = "fail" =>
                 \A G \in CompletedFacts(Facts, x) : \A y \in CompletedGuards(x) :
                    GuardRule(G, y) = "fail"
           /\ TraceInv /\ NotCut /\ x.writeMethod
              /\ GuardRule(Facts, x) \notin {"fail", "unknown"}
              /\ CompleteTraceRule(Facts, x) \notin {"fail", "unknown"} =>
                 \A G \in CompletedFacts(Facts, x) : \A y \in CompletedGuards(x) :
                    GuardRule(G, y) # "fail"
<1>1. ASSUME NEW y \in CompletedGuards(x)
      PROVE  Snapshots(y) = Snapshots(x)
  BY <1>1, CompletedGuardsAre, SnapshotsAre
<1>2. ASSUME GuardRule(Facts, x) = "fail", NEW G \in CompletedFacts(Facts, x),
             NEW y \in CompletedGuards(x)
      PROVE  GuardRule(G, y) = "fail"
  <2>1. /\ ~(Snapshots(x) > 1) /\ Snapshots(x) # 0
        /\ ~ \A c \in Contributors(Facts) : ~c.sure
        /\ {g.status : g \in EffectiveGuards(x)} = {} /\ EffectiveGuardState(x) # "unknown"
    BY <1>2 DEF GuardRule
  <2>2. EffectiveGuards(x) = {}
    BY <2>1
  <2>3. GlobalGuardState(x) = "none_proven"
    BY <2>1, <2>2 DEF EffectiveGuardState
  <2>4. EffectiveGuards(y) = {} /\ GlobalGuardState(y) = "none_proven"
    BY <2>2, <2>3, CompletedGuardsAre
  <2>5. PICK c \in Contributors(Facts) : c.sure
    BY <2>1
  <2>6. c \in Contributors(G)
    BY <2>5, SureStays
  <2>7. EffectiveGuardState(y) # "unknown"
    BY <2>4 DEF EffectiveGuardState
  <2>8. {g.status : g \in EffectiveGuards(y)} = {}
    BY <2>4
  <2> QED
    BY <1>1, <2>1, <2>5, <2>6, <2>7, <2>8 DEF GuardRule
<1>3. ASSUME TraceInv, NotCut, x.writeMethod, GuardRule(Facts, x) \notin {"fail", "unknown"},
             CompleteTraceRule(Facts, x) \notin {"fail", "unknown"},
             NEW G \in CompletedFacts(Facts, x), NEW y \in CompletedGuards(x)
      PROVE  GuardRule(G, y) # "fail"
  <2>1. CASE Snapshots(x) = 0
    BY <1>1, <2>1 DEF GuardRule
  <2>2. CASE Snapshots(x) # 0 /\ Contributors(Facts) = {}
    <3>1. ~HasGap(x)
      BY <1>3, <2>2 DEF CompleteTraceRule
    <3>2. Contributors(G) = {}
      BY <1>3, <2>2, <3>1, NothingIsAdded
    <3> QED
      BY <3>2 DEF GuardRule
  <2>3. CASE Snapshots(x) # 0 /\ Contributors(Facts) # {}
    <3>1. "resolved" \in {g.status : g \in EffectiveGuards(x)}
      BY <1>3, <2>3 DEF GuardRule
    <3>2. PICK g \in EffectiveGuards(x) : g.status = "resolved"
      BY <3>1
    <3>3. "resolved" \in {h.status : h \in EffectiveGuards(y)}
      BY <3>2, CompletedGuardsAre
    <3> QED
      BY <3>3 DEF GuardRule
  <2> QED
    BY <2>1, <2>2, <2>3
<1> QED
  BY <1>2, <1>3

-----------------------------------------------------------------------------
(***************************************************************************)
(* The gate.                                                               *)
(***************************************************************************)
\* A gate that nothing blocks has found no rule that fails or does not know.
LEMMA SuccessIsClear ==
    ASSUME NEW x \in PolicyInputs, x.severity = "error", x.onUnknown = "error",
           Evaluated(x).exit = "success", NEW rule \in x.rules
    PROVE  Outcomes(rule, Facts, x) \cap {"fail", "unknown"} = {}
<1> DEFINE outcomes == [r \in x.rules |-> Outcomes(r, Facts, x)]
<1>1. ~ \E r \in x.rules : \E o \in outcomes[r] : Blocks(o, x)
  BY DEF Evaluated, Facts
<1> QED
  BY <1>1 DEF Blocks

\* The policies are evaluated once the walk is over, which then stays.
PolicyInv ==
    /\ TraceInv
    /\ results # NotEvaluated =>
          /\ pc \in {"done"} \cup Refusals /\ facts \in PolicyFacts
          /\ results.exit # "failure" => results = Evaluated(facts)

\* A trace that is over stays as it is.
LEMMA EndedStays ==
    ASSUME [TracesNext]_vars, pc # "select", pc # "walk"
    PROVE  UNCHANGED vars
<1>1. ~ Refuse /\ ~ Start /\ ~ RefuseHandler /\ ~ StartHandler
  BY DEF Refuse, Start, RefuseHandler, StartHandler
<1>2. ~ Visit
  BY DEF Visit
<1>3. ~ VisitFromHandler
  BY DEF VisitFromHandler
<1>4. ~ Finish
  BY DEF Finish
<1> QED
  BY <1>1, <1>2, <1>3, <1>4 DEF TracesNext, Next

LEMMA EvaluationKeeps == PolicyInv /\ [PolicyNext]_policyVars => PolicyInv'
<1> SUFFICES ASSUME PolicyInv, [PolicyNext]_policyVars PROVE PolicyInv'
  OBVIOUS
<1>1. [TracesNext]_vars
  BY DEF PolicyNext, CheckPolicies, ImpactNext, Trace, AnalyzeImpact, policyVars, impactVars, vars
<1>2. TraceInv'
  BY <1>1, TracesKeep DEF PolicyInv
<1>3. ASSUME UNCHANGED <<facts, results>>, results # NotEvaluated, [ImpactNext]_impactVars
      PROVE  UNCHANGED vars
  <2>1. pc \in {"done"} \cup Refusals
    BY <1>3 DEF PolicyInv
  <2>2. pc # "select" /\ pc # "walk"
    BY <2>1 DEF Refusals
  <2> QED
    BY <1>1, <2>2, EndedStays
<1>4. CASE UNCHANGED <<facts, results>> /\ [ImpactNext]_impactVars
  <2> SUFFICES ASSUME results' # NotEvaluated
               PROVE  /\ pc' \in {"done"} \cup Refusals /\ facts' \in PolicyFacts
                      /\ results'.exit # "failure" => results' = Evaluated(facts)'
    BY <1>2 DEF PolicyInv, NotEvaluated
  <2>1. UNCHANGED vars
    BY <1>3, <1>4
  <2>2. pc' \in {"done"} \cup Refusals /\ facts' \in PolicyFacts
    BY <1>4, <2>1 DEF PolicyInv, vars
  <2>3. ASSUME results'.exit # "failure" PROVE results' = Evaluated(facts)'
    <3>1. results = Evaluated(facts) /\ facts \in PolicyInputs
      BY <1>4, <2>3, PolicyFactsAssumption DEF PolicyInv
    <3>2. PICK x \in PolicyInputs : x = facts
      BY <3>1
    <3>3. Evaluated(x)' = Evaluated(x)
      BY <2>1, EvaluatedStays
    <3>4. Evaluated(facts)' = Evaluated(x)'
      BY <1>4, <3>2 DEF Evaluated
    <3> QED
      BY <1>4, <3>1, <3>2, <3>3, <3>4
  <2> QED
    BY <2>2, <2>3
<1>5. CASE CheckPolicies
  <2>1. UNCHANGED vars /\ pc \in {"done"} \cup Refusals
    BY <1>5 DEF CheckPolicies, impactVars, vars
  <2>2. PICK x \in PolicyFacts :
           /\ facts' = x
           /\ results' = IF Failed(x) THEN [outcomes |-> <<>>, exit |-> "failure"] ELSE Evaluated(x)
    BY <1>5 DEF CheckPolicies
  <2>3. Evaluated(x)' = Evaluated(x)
    BY <2>1, EvaluatedStays, PolicyFactsAssumption
  <2>4. Evaluated(facts)' = Evaluated(x)'
    BY <2>2 DEF Evaluated
  <2>5. results'.exit # "failure" => results' = Evaluated(facts)'
    BY <2>2, <2>3, <2>4
  <2> QED
    BY <1>2, <2>1, <2>2, <2>5 DEF PolicyInv, vars, NotEvaluated
<1> QED
  BY <1>4, <1>5 DEF PolicyNext, policyVars

(***************************************************************************)
(* "Unknown is never changed into pass or fail" (docs/policy-engine.md),   *)
(* for any program and any facts the rules read: where an uncertain fact   *)
(* blocks, a gate that lets the program pass is right however the          *)
(* uncertain facts turn out, and a rule that fails fails however they do   *)
(* (evaluatePolicies of src/src/policy/evaluate.ts).                       *)
(***************************************************************************)
THEOREM GatesSound == PolicySpec => []GatesAreSound
<1>1. PolicyInit => PolicyInv
  BY StartsRight DEF PolicyInit, ImpactInit, PolicyInv
<1>2. PolicyInv => GatesAreSound
  <2> SUFFICES ASSUME PolicyInv, results # NotEvaluated, results.exit # "failure", NotCut,
                      NEW rule \in facts.rules \ {"complete_trace"}
               PROVE  /\ "fail" \in results.outcomes[rule] =>
                            \A o \in CompletedOutcomes(rule, Facts, facts) : "fail" \in o
                      /\ /\ results.exit = "success" /\ Covered(facts)
                         /\ facts.severity = "error" /\ facts.onUnknown = "error"
                         => \A o \in CompletedOutcomes(rule, Facts, facts) : "fail" \notin o
    BY DEF GatesAreSound, NotCut, Facts
  <2>1. /\ facts \in PolicyInputs /\ EventsAreKnown(facts) /\ results = Evaluated(facts)
        /\ TraceInv /\ ValidDocument
    BY PolicyFactsAssumption, QueueIsTyped DEF PolicyInv, EventsAreKnown
  <2>2. rule \in RuleIds \ {"complete_trace"} /\ rule \in facts.rules
    BY <2>1 DEF PolicyInputs
  <2>3. results.outcomes[rule] = Outcomes(rule, Facts, facts)
    BY <2>1, <2>2 DEF Evaluated, Facts
  <2>4. CASE rule # "guard"
    <3>1. KeepsFailing(rule, facts) /\ KeepsPassing(rule, facts)
      BY <2>1, <2>2, <2>4, RepositoryIsSound, DiagnosticsAreSound, TargetsAreSound,
         ActivationsAreSound, HandlersAreSound, AuthorizationIsSound DEF RuleIds
    <3>2. \A o : o \in CompletedOutcomes(rule, Facts, facts) <=>
                    \E y \in CompletedInputs(facts) : o = Outcomes(rule, Facts, y)
      BY <2>4 DEF CompletedOutcomes
    <3>3. /\ results.exit = "success"
          /\ facts.severity = "error" /\ facts.onUnknown = "error"
          => Outcomes(rule, Facts, facts) \cap {"fail", "unknown"} = {}
      BY <2>1, <2>2, SuccessIsClear
    <3> QED
      BY <2>3, <3>1, <3>2, <3>3 DEF KeepsFailing, KeepsPassing
  <2>5. CASE rule = "guard"
    <3>1. Outcomes(rule, Facts, facts) = {GuardRule(Facts, facts)}
      BY <2>5 DEF Outcomes
    <3>2. \A o : o \in CompletedOutcomes(rule, Facts, facts) <=>
                    \E G \in CompletedFacts(Facts, facts) : \E y \in CompletedGuards(facts) :
                        o = {GuardRule(G, y)}
      BY <2>5 DEF CompletedOutcomes
    <3>3. ASSUME results.exit = "success", Covered(facts),
                 facts.severity = "error", facts.onUnknown = "error"
          PROVE  \A o \in CompletedOutcomes(rule, Facts, facts) : "fail" \notin o
      <4>1. "complete_trace" \in facts.rules /\ facts.writeMethod
        BY <2>2, <2>5, <3>3 DEF Covered
      <4>2. Outcomes("complete_trace", Facts, facts) = {CompleteTraceRule(Facts, facts)}
        BY DEF Outcomes
      <4>3. /\ Outcomes(rule, Facts, facts) \cap {"fail", "unknown"} = {}
            /\ Outcomes("complete_trace", Facts, facts) \cap {"fail", "unknown"} = {}
        BY <2>1, <2>2, <3>3, <4>1, SuccessIsClear
      <4>4. /\ GuardRule(Facts, facts) \notin {"fail", "unknown"}
            /\ CompleteTraceRule(Facts, facts) \notin {"fail", "unknown"}
        BY <3>1, <4>2, <4>3
      <4> QED
        BY <2>1, <3>2, <4>1, <4>4, GuardIsSound
    <3> QED
      BY <2>1, <2>3, <3>1, <3>2, <3>3, GuardIsSound
  <2> QED
    BY <2>4, <2>5
<1> QED
  BY <1>1, <1>2, EvaluationKeeps, PTL DEF PolicySpec

-----------------------------------------------------------------------------
(***************************************************************************)
(* Lists: the order of the edges of a scene.                               *)
(***************************************************************************)
PickedFrom(s) == CHOOSE e \in s : TRUE

ListTurn(f, s) == IF s = {} THEN <<>> ELSE Append(f[s \ {PickedFrom(s)}], PickedFrom(s))

\* The list has every member of the set, and only once.
Once(q, S) ==
    /\ q \in Seq(S)
    /\ \A e \in S : \E n \in 1..Len(q) : q[n] = e
    /\ \A m, n \in 1..Len(q) : q[m] = q[n] => m = n

LEMMA SmallerSets ==
    ASSUME NEW s, IsFiniteSet(s), s # {}
    PROVE  /\ PickedFrom(s) \in s /\ IsFiniteSet(s \ {PickedFrom(s)})
           /\ Cardinality(s) \in Nat /\ Cardinality(s \ {PickedFrom(s)}) = Cardinality(s) - 1
           /\ Cardinality(s) # 0
<1>1. PickedFrom(s) \in s
  BY DEF PickedFrom
<1>2. /\ IsFiniteSet(s \ {PickedFrom(s)})
      /\ Cardinality(s \ {PickedFrom(s)}) = Cardinality(s) - 1
  BY <1>1, FS_RemoveElement
<1> QED
  BY <1>1, <1>2, FS_CardinalityType, FS_EmptySet

\* The function by which FoldSet is defined exists.
LEMMA ListExists ==
    ASSUME NEW S, IsFiniteSet(S)
    PROVE  \E f : f = [s \in SUBSET S |-> ListTurn(f, s)]
<1> DEFINE Small(n) == {s \in SUBSET S : Cardinality(s) <= n}
           T == {n \in 0..Cardinality(S) : \E f : f = [s \in Small(n) |-> ListTurn(f, s)]}
<1>1. \A s \in SUBSET S : IsFiniteSet(s) /\ Cardinality(s) \in Nat /\ Cardinality(s) <= Cardinality(S)
  BY FS_Subset, FS_CardinalityType
<1>2. Cardinality(S) \in Nat
  BY FS_CardinalityType
<1>3. 0 \in T
  <2>1. \A s \in Small(0) : s = {}
    BY <1>1, FS_EmptySet
  <2> DEFINE f == [s \in Small(0) |-> <<>>]
  <2>2. f = [s \in Small(0) |-> ListTurn(f, s)]
    BY <2>1 DEF ListTurn
  <2> HIDE DEF f, Small
  <2> QED
    BY <1>2, <2>2
<1>4. ASSUME NEW n \in 1..Cardinality(S), n - 1 \in T PROVE n \in T
  <2>1. PICK f : f = [s \in Small(n - 1) |-> ListTurn(f, s)]
    BY <1>4
  <2> DEFINE g == [s \in Small(n) |-> ListTurn(f, s)]
  <2>2. ASSUME NEW s \in Small(n), s # {}
        PROVE  g[s \ {PickedFrom(s)}] = f[s \ {PickedFrom(s)}]
    <3> DEFINE t == s \ {PickedFrom(s)}
    <3>1. t \in SUBSET S /\ Cardinality(t) = Cardinality(s) - 1 /\ Cardinality(s) \in Nat
      BY <1>1, <2>2, SmallerSets
    <3>2. t \in Small(n) /\ t \in Small(n - 1)
      BY <1>2, <3>1
    <3> HIDE DEF t, Small
    <3>3. f[t] = ListTurn(f, t)
      BY <2>1, <3>2
    <3> QED
      BY <3>2, <3>3 DEF t
  <2>3. \A s \in Small(n) : ListTurn(f, s) = ListTurn(g, s)
    <3> HIDE DEF g, Small
    <3> QED
      BY <2>2 DEF ListTurn
  <2>4. g = [s \in Small(n) |-> ListTurn(g, s)]
    <3> HIDE DEF Small
    <3> QED
      BY <2>3
  <2> HIDE DEF g, Small
  <2> QED
    BY <1>2, <2>4
<1>5. Cardinality(S) \in T
  <2> HIDE DEF T
  <2> QED
    BY <1>2, <1>3, <1>4, CountingUp
<1>6. Small(Cardinality(S)) = SUBSET S
  BY <1>1
<1> HIDE DEF Small
<1> QED
  BY <1>5, <1>6

LEMMA ListedIs ==
    ASSUME NEW S, IsFiniteSet(S)
    PROVE  Once(Listed(S), S)
<1> DEFINE Runs(f) == f = [s \in SUBSET S |-> ListTurn(f, s)]
<1>1. Listed(S) = (CHOOSE f : Runs(f))[S]
  BY DEF Listed, FoldSet, MapThenFoldSet, ListTurn, PickedFrom
<1>2. \E f : Runs(f)
  BY ListExists
<1>3. PICK f : Runs(f) /\ Listed(S) = f[S]
  <2> HIDE DEF Runs
  <2> QED
    BY <1>1, <1>2
<1>4. \A s \in SUBSET S : f[s] = ListTurn(f, s)
  BY <1>3
<1> DEFINE T == {n \in 0..Cardinality(S) : \A s \in SUBSET S : Cardinality(s) = n => Once(f[s], s)}
<1>5. \A s \in SUBSET S : IsFiniteSet(s) /\ Cardinality(s) \in Nat
  BY FS_Subset, FS_CardinalityType
<1>6. Cardinality(S) \in Nat
  BY FS_CardinalityType
<1>7. 0 \in T
  <2>1. ASSUME NEW s \in SUBSET S, Cardinality(s) = 0 PROVE Once(f[s], s)
    <3>1. s = {}
      BY <1>5, <2>1, FS_EmptySet
    <3>2. f[s] = <<>>
      BY <1>4, <3>1 DEF ListTurn
    <3> QED
      BY <3>1, <3>2, EmptySeq DEF Once
  <2> QED
    BY <1>6, <2>1
<1>8. ASSUME NEW n \in 1..Cardinality(S), n - 1 \in T PROVE n \in T
  <2>1. ASSUME NEW s \in SUBSET S, Cardinality(s) = n PROVE Once(f[s], s)
    <3> DEFINE e == PickedFrom(s)
               t == s \ {e}
               q == f[t]
    <3>1. s # {}
      BY <1>5, <2>1, FS_EmptySet
    <3>2. e \in s /\ t \in SUBSET S /\ Cardinality(t) = n - 1
      BY <1>5, <2>1, <3>1, SmallerSets
    <3>3. f[s] = Append(q, e)
      BY <1>4, <3>1 DEF ListTurn
    <3>4. Once(q, t)
      BY <1>8, <3>2
    <3>5. e \notin t /\ s = t \cup {e}
      BY <3>2
    <3> HIDE DEF e, t, q
    <3>6. q \in Seq(s)
      BY <3>4, <3>5, SeqDef DEF Once
    <3>7. /\ Append(q, e) \in Seq(s) /\ Len(Append(q, e)) = Len(q) + 1 /\ Len(q) \in Nat
          /\ \A k \in 1..Len(q) : Append(q, e)[k] = q[k]
          /\ Append(q, e)[Len(q) + 1] = e
      BY <3>2, <3>6, AppendProperties, LenProperties
    <3>8. \A k \in 1..Len(q) : q[k] \in t
      BY <3>4, ElementOfSeq DEF Once
    <3>9. \A k \in 1..Len(q) + 1 : k \in 1..Len(q) \/ k = Len(q) + 1
      BY <3>7
    <3>10. \A a \in s : \E k \in 1..Len(Append(q, e)) : Append(q, e)[k] = a
      BY <3>4, <3>5, <3>7 DEF Once
    <3>11. \A k, l \in 1..Len(Append(q, e)) : Append(q, e)[k] = Append(q, e)[l] => k = l
      <4> DEFINE r == Append(q, e)
      <4> HIDE DEF r
      <4>1. ASSUME NEW k \in 1..Len(q), NEW l \in 1..Len(q), r[k] = r[l] PROVE k = l
        BY <3>4, <3>7, <4>1 DEF Once, r
      <4>2. ASSUME NEW k \in 1..Len(q) PROVE r[k] # r[Len(q) + 1]
        BY <3>5, <3>7, <3>8 DEF r
      <4>3. Len(r) = Len(q) + 1
        BY <3>7 DEF r
      <4>4. \A k, l \in 1..Len(r) : r[k] = r[l] => k = l
        BY <3>9, <4>1, <4>2, <4>3
      <4> QED
        BY <4>4 DEF r
    <3> QED
      BY <3>3, <3>7, <3>10, <3>11 DEF Once
  <2> QED
    BY <2>1
<1>9. Cardinality(S) \in T
  <2> HIDE DEF T
  <2> QED
    BY <1>6, <1>7, <1>8, CountingUp
<1> QED
  BY <1>3, <1>9

-----------------------------------------------------------------------------
\* The list has the edges of the set; the ids of a list are different.
Lists(q, E) == q \in Seq(E) /\ \A e \in E : \E n \in 1..Len(q) : q[n] = e

IdsOnce(q) == \A m, n \in 1..Len(q) : q[m].id = q[n].id => m = n

LEMMA ReverseLists ==
    ASSUME NEW E, NEW q, Lists(q, E)
    PROVE  Lists(Reverse(q), E) /\ (IdsOnce(q) => IdsOnce(Reverse(q)))
<1> DEFINE r == Reverse(q)
<1>1. q \in Seq(E) /\ Len(q) \in Nat /\ DOMAIN q = 1..Len(q)
  BY LenProperties DEF Lists
<1>2. \A n \in 1..Len(q) : Len(q) - n + 1 \in 1..Len(q) /\ Len(q) - (Len(q) - n + 1) + 1 = n
  BY <1>1
<1>3. r = [n \in 1..Len(q) |-> q[Len(q) - n + 1]]
  BY DEF Reverse
<1>4. r \in [1..Len(q) -> E]
  BY <1>1, <1>2, <1>3, ElementOfSeq
<1>5. r \in Seq(E) /\ Len(r) = Len(q)
  BY <1>1, <1>3, <1>4, SeqDef, LenProperties
<1>6. \A n \in 1..Len(q) : r[n] = q[Len(q) - n + 1]
  BY <1>3
<1> HIDE DEF r
<1>7. \A e \in E : \E n \in 1..Len(r) : r[n] = e
  <2> TAKE e \in E
  <2>1. PICK n \in 1..Len(q) : q[n] = e
    BY DEF Lists
  <2>2. r[Len(q) - n + 1] = e
    BY <1>2, <1>6, <2>1
  <2> QED
    BY <1>2, <1>5, <2>2
<1>8. ASSUME IdsOnce(q) PROVE IdsOnce(r)
  <2> SUFFICES ASSUME NEW m \in 1..Len(r), NEW n \in 1..Len(r), r[m].id = r[n].id PROVE m = n
    BY DEF IdsOnce
  <2>1. m \in 1..Len(q) /\ n \in 1..Len(q)
    BY <1>5
  <2>2. q[Len(q) - m + 1].id = q[Len(q) - n + 1].id
    BY <1>6, <2>1
  <2>3. Len(q) - m + 1 = Len(q) - n + 1
    BY <1>2, <1>8, <2>1, <2>2 DEF IdsOnce
  <2> QED
    BY <1>2, <2>1, <2>3
<1> QED
  BY <1>5, <1>7, <1>8 DEF Lists, r

LEMMA JoinLists ==
    ASSUME NEW D, NEW E, NEW p, NEW q, Lists(p, D), Lists(q, E)
    PROVE  /\ Lists(p \o q, D \cup E)
           /\ IdsOnce(p) /\ IdsOnce(q) /\ (\A d \in D : \A e \in E : d.id # e.id) => IdsOnce(p \o q)
<1> DEFINE F == D \cup E
           r == p \o q
<1>1. p \in Seq(D) /\ q \in Seq(E) /\ Len(p) \in Nat /\ Len(q) \in Nat
  BY LenProperties DEF Lists
<1>2. p \in Seq(F) /\ q \in Seq(F)
  BY <1>1, SeqDef
<1>3. /\ r \in Seq(F) /\ Len(r) = Len(p) + Len(q)
      /\ \A n \in 1..Len(p) : r[n] = p[n]
      /\ \A n \in 1..Len(q) : r[Len(p) + n] = q[n]
  <2>1. /\ r \in Seq(F) /\ Len(r) = Len(p) + Len(q)
        /\ \A i \in 1..(Len(p) + Len(q)) : r[i] = IF i <= Len(p) THEN p[i] ELSE q[i - Len(p)]
    BY <1>2, ConcatProperties
  <2>2. \A n \in 1..Len(q) : Len(p) + n \in 1..(Len(p) + Len(q)) /\ ~(Len(p) + n <= Len(p)) /\ Len(p) + n - Len(p) = n
    BY <1>1
  <2>3. \A n \in 1..Len(p) : n \in 1..(Len(p) + Len(q)) /\ n <= Len(p)
    BY <1>1
  <2> HIDE DEF r
  <2> QED
    BY <2>1, <2>2, <2>3
<1> HIDE DEF r, F
<1>4. \A n \in 1..Len(r) : n \in 1..Len(p) \/ (n - Len(p) \in 1..Len(q) /\ n = Len(p) + (n - Len(p)))
  BY <1>1, <1>3
<1>5. \A n \in 1..Len(q) : Len(p) + n \in 1..Len(r)
  BY <1>1, <1>3
<1>6. \A n \in 1..Len(p) : n \in 1..Len(r)
  BY <1>1, <1>3
<1>7. Lists(r, F)
  <2>1. ASSUME NEW e \in F PROVE \E n \in 1..Len(r) : r[n] = e
    <3>1. CASE e \in D
      BY <1>3, <1>6, <3>1 DEF Lists
    <3>2. CASE e \in E
      <4>1. PICK n \in 1..Len(q) : q[n] = e
        BY <3>2 DEF Lists
      <4> QED
        BY <1>3, <1>5, <4>1
    <3> QED
      BY <3>1, <3>2 DEF F
  <2> QED
    BY <1>3, <2>1 DEF Lists
<1>8. ASSUME IdsOnce(p), IdsOnce(q), \A d \in D : \A e \in E : d.id # e.id
      PROVE  IdsOnce(r)
  <2> SUFFICES ASSUME NEW m \in 1..Len(r), NEW n \in 1..Len(r), r[m].id = r[n].id PROVE m = n
    BY DEF IdsOnce
  <2>1. \A i \in 1..Len(p) : p[i] \in D
    BY <1>1, ElementOfSeq
  <2>2. \A i \in 1..Len(q) : q[i] \in E
    BY <1>1, ElementOfSeq
  <2>3. CASE m \in 1..Len(p) /\ n \in 1..Len(p)
    BY <1>3, <1>8, <2>3 DEF IdsOnce
  <2>4. CASE m \in 1..Len(p) /\ n - Len(p) \in 1..Len(q)
    <3>1. n = Len(p) + (n - Len(p))
      BY <1>1
    <3>2. r[n] = q[n - Len(p)] /\ r[m] = p[m]
      BY <1>3, <2>4, <3>1
    <3> QED
      BY <1>8, <2>1, <2>2, <2>4, <3>2
  <2>5. CASE m - Len(p) \in 1..Len(q) /\ n \in 1..Len(p)
    <3>1. m = Len(p) + (m - Len(p))
      BY <1>1
    <3>2. r[m] = q[m - Len(p)] /\ r[n] = p[n]
      BY <1>3, <2>5, <3>1
    <3> QED
      BY <1>8, <2>1, <2>2, <2>5, <3>2
  <2>6. CASE m - Len(p) \in 1..Len(q) /\ n - Len(p) \in 1..Len(q)
    <3>1. m = Len(p) + (m - Len(p)) /\ n = Len(p) + (n - Len(p))
      BY <1>1
    <3>2. r[m] = q[m - Len(p)] /\ r[n] = q[n - Len(p)]
      BY <1>3, <2>6, <3>1
    <3>3. m - Len(p) = n - Len(p)
      BY <1>8, <2>6, <3>2 DEF IdsOnce
    <3> QED
      BY <3>1, <3>3
  <2> QED
    BY <1>4, <2>3, <2>4, <2>5, <2>6
<1> QED
  BY <1>7, <1>8 DEF r, F

-----------------------------------------------------------------------------
(***************************************************************************)
(* What a set of edges leads to.                                           *)
(***************************************************************************)
\* N steps from what has D, each of which only adds, where there are N elements
\* of A to add.
Adds(A, D, N, move, w) ==
    /\ IsFiniteSet(A \ D) /\ N \in Nat /\ Cardinality(A \ D) <= N
    /\ move \in [SUBSET A -> SUBSET A] /\ \A before \in SUBSET A : before \subseteq move[before]
    /\ w \in [0..N -> SUBSET A] /\ D \subseteq w[0] /\ \A n \in 1..N : w[n] = move[w[n - 1]]

\* They end where one more adds nothing.
LEMMA StepsSettle ==
    ASSUME NEW A, NEW D, NEW N, NEW move, NEW w, Adds(A, D, N, move, w)
    PROVE  move[w[N]] = w[N]
<1> USE DEF Adds
<1>1. ASSUME NEW before \in SUBSET A
      PROVE  /\ IsFiniteSet(before \ D) /\ Cardinality(before \ D) \in Nat
             /\ Cardinality(before \ D) <= Cardinality(A \ D)
             /\ Cardinality(before \ D) = Cardinality(A \ D) => before \ D = A \ D
  <2>1. before \ D \subseteq A \ D
    OBVIOUS
  <2> QED
    BY <2>1, FS_Subset, FS_CardinalityType
<1> DEFINE T == {n \in 0..N : D \subseteq w[n]}
<1>2. \A n \in 0..N : n \in T
  <2>1. 0 \in T
    OBVIOUS
  <2>2. ASSUME NEW n \in 1..N, n - 1 \in T PROVE n \in T
    <3>1. n \in 0..N /\ n - 1 \in 0..N /\ w[n - 1] \in SUBSET A
      OBVIOUS
    <3> QED
      BY <2>2, <3>1
  <2> HIDE DEF T
  <2> QED
    BY <2>1, <2>2, CountingUp
<1> DEFINE U == {n \in 0..N : move[w[n]] = w[n] \/ Cardinality(w[n] \ D) >= n}
<1>3. \A n \in 0..N : n \in U
  <2>1. 0 \in U
    <3>1. 0 \in 0..N /\ w[0] \in SUBSET A
      OBVIOUS
    <3>2. Cardinality(w[0] \ D) \in Nat
      BY <1>1, <3>1
    <3> QED
      BY <3>1, <3>2
  <2>2. ASSUME NEW n \in 1..N, n - 1 \in U PROVE n \in U
    <3>1. /\ w[n] = move[w[n - 1]] /\ n \in 0..N /\ n - 1 \in 0..N
          /\ w[n] \in SUBSET A /\ w[n - 1] \in SUBSET A
      OBVIOUS
    <3>2. CASE move[w[n - 1]] = w[n - 1]
      BY <3>1, <3>2
    <3>3. CASE move[w[n - 1]] # w[n - 1]
      <4> DEFINE a == w[n - 1] \ D
                 b == w[n] \ D
      <4>1. a \subseteq b /\ a # b
        <5>1. w[n - 1] \subseteq w[n] /\ w[n] # w[n - 1] /\ D \subseteq w[n - 1]
          BY <1>2, <3>1, <3>3
        <5> QED
          BY <5>1
      <4>2. /\ IsFiniteSet(a) /\ IsFiniteSet(b) /\ Cardinality(a) \in Nat /\ Cardinality(b) \in Nat
            /\ Cardinality(a) >= n - 1
        BY <1>1, <2>2, <3>1, <3>3
      <4> HIDE DEF a, b
      <4>3. Cardinality(a) <= Cardinality(b) /\ Cardinality(a) # Cardinality(b)
        BY <4>1, <4>2, FS_Subset
      <4>4. Cardinality(b) >= n
        BY <4>2, <4>3
      <4> QED
        BY <3>1, <4>4 DEF b
    <3> QED
      BY <3>2, <3>3
  <2> HIDE DEF U
  <2> QED
    BY <2>1, <2>2, CountingUp
<1>4. N \in 0..N /\ w[N] \in SUBSET A /\ move[w[N]] \in SUBSET A /\ w[N] \subseteq move[w[N]]
  OBVIOUS
<1>5. CASE Cardinality(w[N] \ D) >= N
  <2>1. w[N] \ D = A \ D
    <3>1. /\ Cardinality(A \ D) \in Nat /\ Cardinality(w[N] \ D) \in Nat
          /\ Cardinality(w[N] \ D) <= Cardinality(A \ D)
      BY <1>1, <1>4, FS_CardinalityType
    <3>2. Cardinality(w[N] \ D) = Cardinality(A \ D)
      BY <1>5, <3>1
    <3> QED
      BY <1>1, <1>4, <3>2
  <2>2. D \subseteq w[N]
    BY <1>2, <1>4
  <2> QED
    BY <1>4, <2>1, <2>2
<1> QED
  BY <1>3, <1>4, <1>5

Led(S, before) == before \cup {s.target : s \in {s \in S : s.source \in before}}

\* The root, and where the edges end.
Ends(root, S) == {root} \cup {s.target : s \in S}

LEMMA ClosureRuns ==
    ASSUME NEW root, NEW S, IsFiniteSet(S)
    PROVE  \E reach \in [0..Cardinality(S) -> SUBSET Ends(root, S)] :
               /\ reach[0] = {root}
               /\ \A n \in 1..Cardinality(S) : reach[n] = Led(S, reach[n - 1])
               /\ ClosureFrom(root, S) = reach[Cardinality(S)]
<1> DEFINE N == Cardinality(S)
           A == SUBSET Ends(root, S)
           move == [n \in 1..N |-> [before \in A |-> Led(S, before)]]
           D == {root}
           Is(f) == f = [n \in 0..N |-> IF n = 0 THEN D ELSE Led(S, f[n - 1])]
<1>0. N \in Nat
  BY FS_CardinalityType
<1>1. ClosureFrom(root, S) = (CHOOSE f : Is(f))[N]
  BY DEF ClosureFrom, Led
<1> HIDE DEF N
<1>2. D \in A /\ \A before \in A : Led(S, before) \in A
  BY DEF Led, Ends
<1> HIDE DEF A, D
<1>3. move \in [1..N -> [A -> A]] /\ \A n \in 1..N : \A before \in A : move[n][before] = Led(S, before)
  BY <1>2
<1> HIDE DEF move
<1>4. PICK after \in [0..N -> A] : Taken(N, D, move, after)
  BY <1>0, <1>2, <1>3, StepsRun
<1>5. /\ after[0] = D
      /\ \A n \in 1..N : after[n] = Led(S, after[n - 1])
  <2>1. \A n \in 1..N : n - 1 \in 0..N
    BY <1>0
  <2> QED
    BY <1>3, <1>4, <2>1 DEF Taken
<1>6. Is(after)
  <2>1. \A n \in 0..N : after[n] = IF n = 0 THEN D ELSE Led(S, after[n - 1])
    BY <1>0, <1>5
  <2> QED
    BY <1>4, <2>1
<1> DEFINE reach == CHOOSE f : Is(f)
<1>7. Is(reach)
  BY <1>6
<1>8. ASSUME NEW f, Is(f)
      PROVE  f[0] = D /\ \A n \in 1..N : f[n] = Led(S, f[n - 1])
  <2>1. 0 \in 0..N /\ \A n \in 1..N : n \in 0..N /\ n # 0
    BY <1>0
  <2> QED
    BY <1>8, <2>1
<1>9. \A f : Is(f) => DOMAIN f = 0..N /\ f = [n \in 0..N |-> f[n]]
  OBVIOUS
<1> HIDE DEF Is
<1>10. reach[0] = D /\ \A n \in 1..N : reach[n] = Led(S, reach[n - 1])
  BY <1>7, <1>8
<1>11. reach = [n \in 0..N |-> reach[n]]
  BY <1>7, <1>9
<1>12. ClosureFrom(root, S) = reach[N]
  BY <1>1
<1> HIDE DEF reach
<1> DEFINE T == {n \in 0..N : reach[n] \in A}
<1>13. 0 \in T
  BY <1>0, <1>2, <1>10
<1>14. ASSUME NEW n \in 1..N, n - 1 \in T PROVE n \in T
  <2>1. n \in 0..N /\ reach[n - 1] \in A /\ reach[n] = Led(S, reach[n - 1])
    BY <1>0, <1>10, <1>14
  <2> QED
    BY <1>2, <2>1
<1>15. \A n \in 0..N : n \in T
  <2> HIDE DEF T
  <2> QED
    BY <1>0, <1>13, <1>14, CountingUp
<1>16. reach \in [0..N -> A]
  BY <1>11, <1>15
<1> QED
  BY <1>10, <1>12, <1>16 DEF A, D, N

\* The closure has the root, and what its edges lead to: a step for each edge
\* is enough, as every step but the last adds a node.
LEMMA ClosureIs ==
    ASSUME NEW root, NEW S, IsFiniteSet(S)
    PROVE  /\ root \in ClosureFrom(root, S)
           /\ \A s \in S : s.source \in ClosureFrom(root, S) => s.target \in ClosureFrom(root, S)
<1> DEFINE N == Cardinality(S)
           Image == {s.target : s \in S}
           A == Ends(root, S)
           D == {root}
           move == [before \in SUBSET A |-> Led(S, before)]
<1>1. N \in Nat
  BY FS_CardinalityType
<1>2. IsFiniteSet(Image) /\ Cardinality(Image) <= N /\ Cardinality(Image) \in Nat
  <2> DEFINE g == [s \in S |-> s.target]
  <2>1. g \in Surjection(S, Image)
    BY DEF Surjection
  <2> HIDE DEF g, Image
  <2> QED
    BY <2>1, FS_Surjection, FS_CardinalityType
<1>3. IsFiniteSet(A \ D) /\ Cardinality(A \ D) <= N
  <2>1. A \ D \subseteq Image
    BY DEF Ends
  <2> DEFINE b == A \ D
  <2> HIDE DEF b, N, Image
  <2>2. IsFiniteSet(b) /\ Cardinality(b) <= Cardinality(Image) /\ Cardinality(b) \in Nat
    BY <1>2, <2>1, FS_Subset, FS_CardinalityType DEF b
  <2>3. Cardinality(b) <= N
    BY <1>1, <1>2, <2>2
  <2> QED
    BY <2>2, <2>3 DEF b
<1>4. PICK reach :
          /\ reach \in [0..N -> SUBSET A]
          /\ reach[0] = D
          /\ \A n \in 1..N : reach[n] = Led(S, reach[n - 1])
          /\ ClosureFrom(root, S) = reach[N]
  <2>1. PICK runs \in [0..N -> SUBSET A] :
            /\ runs[0] = D
            /\ \A n \in 1..N : runs[n] = Led(S, runs[n - 1])
            /\ ClosureFrom(root, S) = runs[N]
    BY ClosureRuns
  <2> HIDE DEF A, D, N
  <2> QED
    BY <2>1
<1>5. \A before \in SUBSET A : Led(S, before) \in SUBSET A /\ before \subseteq Led(S, before)
  BY DEF Led, Ends
<1> HIDE DEF N, A
<1>6. /\ move \in [SUBSET A -> SUBSET A] /\ \A before \in SUBSET A : before \subseteq move[before]
      /\ \A n \in 1..N : reach[n] = move[reach[n - 1]]
  <2>1. \A n \in 1..N : reach[n - 1] \in SUBSET A
    BY <1>1, <1>4
  <2> QED
    BY <1>4, <1>5, <2>1
<1>7. N \in 0..N /\ reach[N] \in SUBSET A
  BY <1>1, <1>4
<1>8. Led(S, reach[N]) = reach[N]
  <2>1. D \subseteq reach[0]
    BY <1>4
  <2>2. move[reach[N]] = reach[N]
    <3> HIDE DEF A, D, N, move
    <3>1. Adds(A, D, N, move, reach)
      BY <1>1, <1>3, <1>4, <1>6, <2>1 DEF Adds
    <3> QED
      BY <3>1, StepsSettle
  <2> QED
    BY <1>7, <2>2
<1>9. root \in reach[N]
  <2> DEFINE T == {n \in 0..N : root \in reach[n]}
  <2>1. 0 \in T
    BY <1>1, <1>4
  <2>2. ASSUME NEW n \in 1..N, n - 1 \in T PROVE n \in T
    BY <1>1, <1>4, <2>2 DEF Led
  <2> HIDE DEF T
  <2>3. \A n \in 0..N : n \in T
    BY <1>1, <2>1, <2>2, CountingUp
  <2> QED
    BY <1>7, <2>3 DEF T
<1>10. ASSUME NEW s \in S, s.source \in reach[N] PROVE s.target \in reach[N]
  <2>1. s.target \in Led(S, reach[N])
    BY <1>10 DEF Led
  <2> QED
    BY <1>8, <2>1
<1> QED
  BY <1>4, <1>9, <1>10

\* Every set with the root that the edges do not leave has the closure.
LEMMA ClosureIsLeast ==
    ASSUME NEW root, NEW S, IsFiniteSet(S), NEW L, root \in L,
           \A s \in S : s.source \in L => s.target \in L
    PROVE  ClosureFrom(root, S) \subseteq L
<1> DEFINE N == Cardinality(S)
<1>1. PICK reach \in [0..N -> SUBSET Ends(root, S)] :
          /\ reach[0] = {root}
          /\ \A n \in 1..N : reach[n] = Led(S, reach[n - 1])
          /\ ClosureFrom(root, S) = reach[N]
  BY ClosureRuns
<1>2. N \in Nat
  BY FS_CardinalityType
<1> DEFINE U == {n \in 0..N : reach[n] \subseteq L}
<1>3. 0 \in U
  BY <1>1, <1>2
<1> HIDE DEF N
<1>4. ASSUME NEW n \in 1..N, n - 1 \in U PROVE n \in U
  BY <1>1, <1>2, <1>4 DEF Led
<1> HIDE DEF U
<1>5. \A n \in 0..N : n \in U
  BY <1>2, <1>3, <1>4, CountingUp
<1> QED
  BY <1>1, <1>2, <1>5 DEF U, N

-----------------------------------------------------------------------------
(***************************************************************************)
(* The scene that is selected from a list of edges.                        *)
(***************************************************************************)
EdgesLike(C) == {C[n] : n \in 1..Len(C)}

\* A scene with its first edges within the limits.
Scenes(x, root, C) ==
    {s \in [nodes : SUBSET ({root} \cup UNION {{e.source, e.target} : e \in EdgesLike(C)}),
            edges : Seq(EdgesLike(C))] :
        /\ root \in s.nodes
        /\ IsFiniteSet(s.nodes) /\ Cardinality(s.nodes) <= x.maxNodes /\ Len(s.edges) <= x.maxEdges
        /\ \A n \in 1..Len(s.edges) : s.edges[n].source \in s.nodes /\ s.edges[n].target \in s.nodes}

\* The edges are some of the first n candidates, in their order.
DrawnFrom(s, C, n) ==
    /\ Len(s.edges) <= n
    /\ \A k \in 1..Len(s.edges) : \E l \in 1..n : s.edges[k] = C[l]
    /\ IdsOnce(C) => IdsOnce(s.edges)
    /\ Len(s.edges) = n => \A k \in 1..n : s.edges[k] = C[k]

LEMMA ChosenKeeps ==
    ASSUME NEW x, x.maxEdges \in Nat, x.maxNodes \in Nat \ {0}, NEW root, NEW D, NEW C \in Seq(D),
           NEW s \in Scenes(x, root, C), NEW n \in 1..Len(C)
    PROVE  /\ Chosen(s, C[n], x) \in Scenes(x, root, C)
           /\ DrawnFrom(s, C, n - 1) => DrawnFrom(Chosen(s, C[n], x), C, n)
<1> DEFINE e == C[n]
           nodes == s.nodes \cup {e.source, e.target}
           t == [nodes |-> nodes, edges |-> Append(s.edges, e)]
           E == EdgesLike(C)
           V == {root} \cup UNION {{d.source, d.target} : d \in E}
<1>0. Len(C) \in Nat
  BY LenProperties
<1>1. /\ s.nodes \in SUBSET V /\ s.edges \in Seq(E) /\ root \in s.nodes
      /\ IsFiniteSet(s.nodes) /\ Cardinality(s.nodes) <= x.maxNodes /\ Len(s.edges) <= x.maxEdges
      /\ \A k \in 1..Len(s.edges) : s.edges[k].source \in s.nodes /\ s.edges[k].target \in s.nodes
  BY DEF Scenes
<1>2. e \in E
  BY DEF EdgesLike
<1>3. nodes \in SUBSET V
  <2>1. {e.source, e.target} \subseteq V
    BY <1>2
  <2> HIDE DEF V, e
  <2> QED
    BY <1>1, <2>1
<1>4. IsFiniteSet(nodes)
  <2>1. IsFiniteSet(s.nodes \cup {e.source})
    BY <1>1, FS_AddElement
  <2>2. IsFiniteSet((s.nodes \cup {e.source}) \cup {e.target})
    BY <2>1, FS_AddElement
  <2>3. (s.nodes \cup {e.source}) \cup {e.target} = nodes
    OBVIOUS
  <2> HIDE DEF e, nodes
  <2> QED
    BY <2>2, <2>3
<1> HIDE DEF e, E, V
<1>5. /\ Append(s.edges, e) \in Seq(E) /\ Len(Append(s.edges, e)) = Len(s.edges) + 1 /\ Len(s.edges) \in Nat
      /\ \A k \in 1..Len(s.edges) : Append(s.edges, e)[k] = s.edges[k]
      /\ Append(s.edges, e)[Len(s.edges) + 1] = e
  BY <1>1, <1>2, AppendProperties, LenProperties
<1>6. \A k \in 1..(Len(s.edges) + 1) : k \in 1..Len(s.edges) \/ k = Len(s.edges) + 1
  BY <1>5
<1>7. n - 1 \in Nat /\ n \in Nat /\ n \in 1..n /\ \A l \in 1..(n - 1) : l \in 1..n
  BY <1>0
<1>8. CASE Len(s.edges) >= x.maxEdges \/ Cardinality(nodes) > x.maxNodes
  <2>1. Chosen(s, e, x) = s
    BY <1>8 DEF Chosen
  <2>2. ASSUME DrawnFrom(s, C, n - 1) PROVE DrawnFrom(s, C, n)
    <3>1. Len(s.edges) <= n /\ Len(s.edges) # n
      BY <1>5, <1>7, <2>2 DEF DrawnFrom
    <3>2. \A k \in 1..Len(s.edges) : \E l \in 1..n : s.edges[k] = C[l]
      BY <1>7, <2>2 DEF DrawnFrom
    <3> QED
      BY <2>2, <3>1, <3>2 DEF DrawnFrom
  <2> QED
    BY <2>1, <2>2 DEF e
<1>9. CASE ~(Len(s.edges) >= x.maxEdges \/ Cardinality(nodes) > x.maxNodes)
  <2>1. Chosen(s, e, x) = t
    BY <1>9 DEF Chosen
  <2>2. t \in Scenes(x, root, C)
    <3> HIDE DEF nodes
    <3>1. t.nodes = nodes /\ t.edges = Append(s.edges, e)
      OBVIOUS
    <3>2. t \in [nodes : SUBSET V, edges : Seq(E)]
      BY <1>3, <1>5
    <3>3. Len(t.edges) <= x.maxEdges
      BY <1>5, <1>9, <3>1
    <3>4. \A k \in 1..Len(t.edges) : t.edges[k].source \in t.nodes /\ t.edges[k].target \in t.nodes
      BY <1>1, <1>5, <1>6, <3>1 DEF nodes
    <3>5. Cardinality(nodes) <= x.maxNodes
      <4>1. Cardinality(nodes) \in Nat
        BY <1>4, FS_CardinalityType
      <4> QED
        BY <1>9, <4>1
    <3>6. root \in t.nodes
      BY <1>1, <3>1 DEF nodes
    <3> HIDE DEF t
    <3> QED
      BY <1>4, <3>1, <3>2, <3>3, <3>4, <3>5, <3>6 DEF Scenes, V, E
  <2>3. ASSUME DrawnFrom(s, C, n - 1) PROVE DrawnFrom(t, C, n)
    <3> HIDE DEF nodes
    <3>0. t.edges = Append(s.edges, e)
      OBVIOUS
    <3> HIDE DEF t
    <3>1. Len(t.edges) <= n
      BY <1>5, <1>7, <2>3, <3>0 DEF DrawnFrom
    <3>2. ASSUME NEW k \in 1..Len(t.edges) PROVE \E l \in 1..n : t.edges[k] = C[l]
      <4>1. CASE k = Len(s.edges) + 1
        BY <1>5, <1>7, <3>0, <4>1 DEF e
      <4>2. CASE k \in 1..Len(s.edges)
        BY <1>5, <1>7, <2>3, <3>0, <4>2 DEF DrawnFrom
      <4> QED
        BY <1>5, <1>6, <3>0, <4>1, <4>2
    <3>3. ASSUME IdsOnce(C) PROVE IdsOnce(t.edges)
      <4>1. ASSUME NEW k \in 1..Len(s.edges), s.edges[k].id = e.id PROVE FALSE
        <5>1. PICK l \in 1..(n - 1) : s.edges[k] = C[l]
          BY <2>3 DEF DrawnFrom
        <5>2. l \in 1..Len(C) /\ l # n
          BY <1>0, <1>7
        <5> QED
          BY <3>3, <4>1, <5>1, <5>2 DEF IdsOnce, e
      <4>2. IdsOnce(s.edges)
        BY <2>3, <3>3 DEF DrawnFrom
      <4> QED
        BY <1>5, <1>6, <3>0, <4>1, <4>2 DEF IdsOnce
    <3>4. ASSUME Len(t.edges) = n, NEW k \in 1..n PROVE t.edges[k] = C[k]
      <4>1. Len(s.edges) = n - 1
        BY <1>5, <1>7, <3>0, <3>4
      <4>2. CASE k = n
        BY <1>5, <1>7, <3>0, <4>1, <4>2 DEF e
      <4>3. CASE k # n
        <5>1. k \in 1..(n - 1)
          BY <1>7, <4>3
        <5> QED
          BY <1>5, <2>3, <3>0, <4>1, <5>1 DEF DrawnFrom
      <4> QED
        BY <4>2, <4>3
    <3> QED
      BY <3>1, <3>2, <3>3, <3>4 DEF DrawnFrom
  <2> QED
    BY <2>1, <2>2, <2>3 DEF e
<1> QED
  BY <1>8, <1>9

LEMMA SelectedIs ==
    ASSUME NEW x, x.maxEdges \in Nat, x.maxNodes \in Nat \ {0}, NEW root, NEW D, NEW C \in Seq(D)
    PROVE  /\ Selected(x, root, C) \in Scenes(x, root, C)
           /\ DrawnFrom(Selected(x, root, C), C, Len(C))
<1> DEFINE A == Scenes(x, root, C)
           N == Len(C)
           base == [nodes |-> {root}, edges |-> <<>>]
           step == [n \in 1..N |-> [s \in A |-> Chosen(s, C[n], x)]]
           Runs(iter) == iter = [S \in SUBSET (1..N) |->
                                    IF S = {} THEN base
                                    ELSE Chosen(iter[S \ {Max(S)}], C[Max(S)], x)]
<1>1. N \in Nat /\ DOMAIN C = 1..N
  BY LenProperties
<1>2. Selected(x, root, C) = (CHOOSE iter : Runs(iter))[1..N]
  <2>1. Selected(x, root, C) =
            (CHOOSE iter : iter = [S \in SUBSET DOMAIN C |->
                                    IF S = {} THEN base
                                    ELSE Chosen(iter[S \ {Max(S)}], C[Max(S)], x)])[DOMAIN C]
    BY DEF Selected, FoldLeft, MapThenFoldSet
  <2> QED
    BY <1>1, <2>1
<1> HIDE DEF N
<1>3. base \in A
  <2>1. IsFiniteSet({root}) /\ Cardinality({root}) = 1
    BY FS_Singleton
  <2>2. <<>> \in Seq(EdgesLike(C)) /\ Len(<<>>) = 0
    BY EmptySeq
  <2>3. 1 <= x.maxNodes /\ 0 <= x.maxEdges
    OBVIOUS
  <2>4. \A n \in 1..0 : FALSE
    OBVIOUS
  <2> QED
    BY <2>1, <2>2, <2>3, <2>4 DEF Scenes
<1>4. \A n \in 1..N : \A s \in A : Chosen(s, C[n], x) \in A
  BY ChosenKeeps DEF N
<1>5. step \in [1..N -> [A -> A]]
  BY <1>4
<1>6. \A n \in 1..N : \A s \in A : step[n][s] = Chosen(s, C[n], x)
  OBVIOUS
<1>7. DrawnFrom(base, C, 0)
  <2>1. base.edges = <<>> /\ Len(<<>>) = 0
    OBVIOUS
  <2>2. \A k \in 1..0 : FALSE
    OBVIOUS
  <2> HIDE DEF base
  <2> QED
    BY <2>1, <2>2 DEF DrawnFrom, IdsOnce
<1> HIDE DEF A, step, base
<1>8. \E iter : Runs(iter)
  <2>1. PICK iter \in [SUBSET (1..N) -> A] : Folded(N, base, step, iter)
    BY <1>1, <1>3, <1>5, FoldExists
  <2>2. ASSUME NEW S \in SUBSET (1..N)
        PROVE  iter[S] = IF S = {} THEN base ELSE Chosen(iter[S \ {Max(S)}], C[Max(S)], x)
    <3>1. iter[S] = IF S = {} THEN base ELSE step[Max(S)][iter[S \ {Max(S)}]]
      BY <2>1 DEF Folded
    <3>2. S # {} => Max(S) \in 1..N
      BY <1>1, MaxIsIn
    <3>3. iter[S \ {Max(S)}] \in A
      <4>1. S \ {Max(S)} \in SUBSET (1..N)
        OBVIOUS
      <4> QED
        BY <4>1
    <3> QED
      BY <1>6, <3>1, <3>2, <3>3
  <2>3. Runs(iter)
    BY <2>2
  <2> HIDE DEF Runs
  <2> QED
    BY <2>3
<1>9. PICK iter : Runs(iter) /\ Selected(x, root, C) = iter[1..N]
  <2> HIDE DEF Runs
  <2> QED
    BY <1>2, <1>8
<1>10. FoldedWithin(N, A, base, step, iter)
  <2> SUFFICES ASSUME NEW S \in SUBSET (1..N)
               PROVE  iter[S] = IF S = {} THEN base
                                ELSE IF iter[S \ {Max(S)}] \in A THEN step[Max(S)][iter[S \ {Max(S)}]]
                                ELSE iter[S]
    BY DEF FoldedWithin
  <2>1. iter[S] = IF S = {} THEN base ELSE Chosen(iter[S \ {Max(S)}], C[Max(S)], x)
    BY <1>9
  <2>2. S # {} => Max(S) \in 1..N
    BY <1>1, MaxIsIn
  <2> HIDE DEF Runs
  <2> QED
    BY <1>6, <2>1, <2>2
<1> HIDE DEF Runs
<1>11. PICK after \in [0..N -> A] : Taken(N, base, step, after) /\ after[N] = iter[1..N]
  <2>1. \E after \in [0..N -> A] : Taken(N, base, step, after) /\ after[N] = iter[1..N]
    <3>1. N \in Nat /\ base \in A /\ step \in [1..N -> [A -> A]] /\ FoldedWithin(N, A, base, step, iter)
      BY <1>1, <1>3, <1>5, <1>10
    <3> HIDE DEF Runs
    <3> QED
      BY <3>1, FoldRuns
  <2> QED
    BY <2>1
<1> DEFINE T == {n \in 0..N : DrawnFrom(after[n], C, n)}
<1>12. 0 \in T
  BY <1>1, <1>7, <1>11 DEF Taken
<1>13. ASSUME NEW n \in 1..N, n - 1 \in T PROVE n \in T
  <2>1. n \in 0..N /\ n - 1 \in 0..N
    BY <1>1
  <2>2. after[n - 1] \in A /\ after[n] = Chosen(after[n - 1], C[n], x)
    BY <1>6, <1>11, <2>1 DEF Taken
  <2>3. DrawnFrom(after[n - 1], C, n - 1)
    BY <1>13
  <2>4. DrawnFrom(after[n], C, n)
    BY <2>2, <2>3, ChosenKeeps DEF A, N
  <2> QED
    BY <2>1, <2>4
<1>14. \A n \in 0..N : n \in T
  <2> HIDE DEF T
  <2> QED
    BY <1>1, <1>12, <1>13, CountingUp
<1>15. N \in 0..N
  BY <1>1
<1>16. after[N] \in A /\ DrawnFrom(after[N], C, N)
  BY <1>14, <1>15
<1> QED
  BY <1>9, <1>11, <1>16 DEF A, N

-----------------------------------------------------------------------------
(***************************************************************************)
(* The edges of a trace: an edge is determined by its id.                  *)
(***************************************************************************)
FactStep(f) == Step(<<"fact", f>>, <<"method", f.from>>, TargetOf(f), f.status)

MatchStep(f, m) == Step(<<"matches", f, m>>, <<"interaction", f>>, <<"handler", m>>, "resolved")

LockStep(m) == Step(<<"locks", m>>, <<"method", m>>, <<"lock", m>>, "resolved")

StepsOfState(s) == UNION {StepsOf(f) : f \in Recorded(s)}

EdgeOf(id) ==
    CASE id[1] = "implemented" -> Edge(id, "assertion", id[2], <<"method", id[3]>>)
      [] id[1] = "fact" -> Edge(id, "assertion", SourceOf(FactStep(id[2])), TargetOf(id[2]))
      [] id[1] = "matches" -> Edge(id, "assertion", <<"interaction", id[2]>>, <<"handler", id[3]>>)
      [] id[1] = "locks" -> Edge(id, "assertion", <<"method", id[2]>>, <<"lock", id[2]>>)
      [] id[1] = "scope" -> Edge(id, "assertion", <<"method", id[2]>>, <<"section", id[2]>>)
      [] id[1] = "bounds" -> Edge(id, "assertion", <<"lock", id[2]>>, <<"section", id[2]>>)
      [] id[1] = "dispatches" -> Edge(id, "interaction", <<"interaction", id[2]>>, <<"boundary", id[2]>>)
      [] id[1] = "targets" -> Edge(id, "interaction", <<"boundary", id[2]>>, <<"external", id[2]>>)
      [] id[1] = "guard" -> Edge(id, "guard", Root, <<"guard", id[2]>>)
      [] id[1] = "branch" -> Edge(id, "interaction", Root, <<"branch", id[2]>>)
      [] id[1] = "effect" -> Edge(id, "interaction", <<"branch", id[2].region>>, TargetOf(id[2]))

\* The id says what edge it is, and it is not the id of a flow.
NamedById(e) ==
    /\ e = EdgeOf(e.id) /\ e.kind \in {"assertion", "interaction", "guard"}
    /\ e.id[1] \notin {"declares", "originates", "flows"}

\* Where the steps come from.
LEMMA StepsCome ==
    ASSUME NEW s \in Steps
    PROVE  \/ \E m \in ToSet(doc.implementations) : s = Implements(Root, m)
           \/ \E i \in DOMAIN queue : \E f \in Recorded(queue[i]) :
                 \/ s = FactStep(f)
                 \/ /\ IsInteraction(f)
                    /\ \E m \in ToSet(Matches(f)) : s = MatchStep(f, m) \/ s = Implements(<<"handler", m>>, m)
           \/ \E m : s = LockStep(m)
<1>1. ASSUME NEW f, NEW t \in StepsOf(f)
      PROVE  \/ t = FactStep(f)
             \/ /\ IsInteraction(f)
                /\ \E m \in ToSet(Matches(f)) : t = MatchStep(f, m) \/ t = Implements(<<"handler", m>>, m)
  BY <1>1 DEF StepsOf, FactStep, MatchStep
<1>2. ASSUME s \in LockSteps PROVE \E m : s = LockStep(m)
  BY <1>2 DEF LockSteps, LockStep
<1>3. CASE s \in {Implements(Root, m) : m \in ToSet(doc.implementations)}
  BY <1>3
<1>4. CASE s \in UNION {StepsOfState(queue[i]) : i \in DOMAIN queue}
  <2>1. PICK i \in DOMAIN queue : s \in StepsOfState(queue[i])
    BY <1>4
  <2>2. PICK f \in Recorded(queue[i]) : s \in StepsOf(f)
    BY <2>1 DEF StepsOfState
  <2> QED
    BY <1>1, <2>2
<1> QED
  BY <1>2, <1>3, <1>4 DEF Steps, StepsOfState

LEMMA StepsAre ==
    ASSUME NEW s \in Steps
    PROVE  \/ \E source, m : s = Implements(source, m)
           \/ \E f : s = FactStep(f)
           \/ \E f, m : s = MatchStep(f, m)
           \/ \E m : s = LockStep(m)
BY StepsCome

LEMMA TargetsAre ==
    ASSUME NEW f
    PROVE  /\ TargetOf(f)[1] = "interaction" => TargetOf(f) = <<"interaction", f>>
           /\ IsInteraction(f) => TargetOf(f) = <<"interaction", f>>
           /\ f.channel = "call" => TargetOf(f) = <<"method", f.to[1]>>
           /\ f.channel = "table" => TargetOf(f) = <<"table">>
BY DEF TargetOf, IsInteraction

LEMMA StepsAreNamed ==
    ASSUME NEW s \in Steps
    PROVE  \A e \in Drawn(s) : NamedById(e)
<1> USE DEF NamedById, Edge
<1>1. ASSUME NEW source, NEW m, s = Implements(source, m) PROVE \A e \in Drawn(s) : NamedById(e)
  <2>1. s.id = <<"implemented", source, m>> /\ s.source = source /\ s.target = <<"method", m>>
    BY <1>1 DEF Implements, Step
  <2>2. Scopes(s) = {} /\ Presentation(s) = {} /\ SourceOf(s) = source
    BY <2>1 DEF Scopes, Presentation, SourceOf, InSection
  <2>3. EdgeOf(<<"implemented", source, m>>) = Edge(<<"implemented", source, m>>, "assertion", source, <<"method", m>>)
    BY DEF EdgeOf
  <2> QED
    BY <2>1, <2>2, <2>3 DEF Drawn
<1>2. ASSUME NEW f, NEW m, s = MatchStep(f, m) PROVE \A e \in Drawn(s) : NamedById(e)
  <2>1. /\ s.id = <<"matches", f, m>> /\ s.source = <<"interaction", f>>
        /\ s.target = <<"handler", m>>
    BY <1>2 DEF MatchStep, Step
  <2>2. Scopes(s) = {} /\ Presentation(s) = {} /\ SourceOf(s) = s.source
    BY <2>1 DEF Scopes, Presentation, SourceOf, InSection
  <2>3. EdgeOf(<<"matches", f, m>>) = Edge(<<"matches", f, m>>, "assertion", <<"interaction", f>>, <<"handler", m>>)
    BY DEF EdgeOf
  <2> QED
    BY <2>1, <2>2, <2>3 DEF Drawn
<1>3. ASSUME NEW m, s = LockStep(m) PROVE \A e \in Drawn(s) : NamedById(e)
  <2>1. s.id = <<"locks", m>> /\ s.source = <<"method", m>> /\ s.target = <<"lock", m>>
    BY <1>3 DEF LockStep, Step
  <2>2. Scopes(s) = {} /\ Presentation(s) = {} /\ SourceOf(s) = s.source
    BY <2>1 DEF Scopes, Presentation, SourceOf, InSection
  <2>3. EdgeOf(<<"locks", m>>) = Edge(<<"locks", m>>, "assertion", <<"method", m>>, <<"lock", m>>)
    BY DEF EdgeOf
  <2> QED
    BY <2>1, <2>2, <2>3 DEF Drawn
<1>4. ASSUME NEW f, s = FactStep(f) PROVE \A e \in Drawn(s) : NamedById(e)
  <2>1. s.id = <<"fact", f>> /\ s.target = TargetOf(f) /\ s.id[2] = f /\ s.id[1] = "fact"
    BY <1>4 DEF FactStep, Step
  <2>2. NamedById(Edge(s.id, "assertion", SourceOf(s), s.target))
    <3>1. EdgeOf(<<"fact", f>>) = Edge(<<"fact", f>>, "assertion", SourceOf(FactStep(f)), TargetOf(f))
      BY DEF EdgeOf
    <3> QED
      BY <1>4, <2>1, <3>1
  <2>3. ASSUME NEW e \in Scopes(s) PROVE NamedById(e)
    <3> DEFINE m == f.from
    <3>1. \/ e = Edge(<<"scope", m>>, "assertion", <<"method", m>>, <<"section", m>>)
          \/ e = Edge(<<"bounds", m>>, "assertion", <<"lock", m>>, <<"section", m>>)
      BY <2>1, <2>3 DEF Scopes
    <3> HIDE DEF m
    <3>2. /\ EdgeOf(<<"scope", m>>) = Edge(<<"scope", m>>, "assertion", <<"method", m>>, <<"section", m>>)
          /\ EdgeOf(<<"bounds", m>>) = Edge(<<"bounds", m>>, "assertion", <<"lock", m>>, <<"section", m>>)
      BY DEF EdgeOf
    <3> QED
      BY <3>1, <3>2
  <2>4. ASSUME NEW e \in Presentation(s) PROVE NamedById(e)
    <3>1. s.target[1] = "interaction"
      BY <2>4 DEF Presentation
    <3>2. s.target = <<"interaction", f>>
      BY <2>1, <3>1, TargetsAre
    <3>3. \/ e = Edge(<<"dispatches", f>>, "interaction", <<"interaction", f>>, <<"boundary", f>>)
          \/ e = Edge(<<"targets", f>>, "interaction", <<"boundary", f>>, <<"external", f>>)
      BY <2>4, <3>1, <3>2 DEF Presentation
    <3>4. /\ EdgeOf(<<"dispatches", f>>)
             = Edge(<<"dispatches", f>>, "interaction", <<"interaction", f>>, <<"boundary", f>>)
          /\ EdgeOf(<<"targets", f>>)
             = Edge(<<"targets", f>>, "interaction", <<"boundary", f>>, <<"external", f>>)
      BY DEF EdgeOf
    <3> QED
      BY <3>3, <3>4
  <2> QED
    BY <2>2, <2>3, <2>4 DEF Drawn
<1> QED
  BY <1>1, <1>2, <1>3, <1>4, StepsAre

LEMMA EdgesAreNamed ==
    ASSUME NEW x
    PROVE  \A e \in TraceEdges(x) : NamedById(e)
<1> USE DEF NamedById, Edge
<1>1. ASSUME NEW e \in UNION {Drawn(s) : s \in Steps} PROVE NamedById(e)
  BY StepsAreNamed
<1>2. ASSUME NEW e \in GuardEdges(x) PROVE NamedById(e)
  <2>1. PICK g : e = Edge(<<"guard", g>>, "guard", Root, <<"guard", g>>)
    BY <1>2 DEF GuardEdges
  <2>2. EdgeOf(<<"guard", g>>) = Edge(<<"guard", g>>, "guard", Root, <<"guard", g>>)
    BY DEF EdgeOf
  <2> QED
    BY <2>1, <2>2
<1>3. ASSUME NEW e \in BranchEdges PROVE NamedById(e)
  <2>1. \/ \E job : e = Edge(<<"branch", job>>, "interaction", Root, <<"branch", job>>)
        \/ \E f : e = Edge(<<"effect", f>>, "interaction", <<"branch", f.region>>, TargetOf(f))
    BY <1>3 DEF BranchEdges
  <2>2. ASSUME NEW job, e = Edge(<<"branch", job>>, "interaction", Root, <<"branch", job>>) PROVE NamedById(e)
    <3>1. EdgeOf(<<"branch", job>>) = Edge(<<"branch", job>>, "interaction", Root, <<"branch", job>>)
      BY DEF EdgeOf
    <3> QED
      BY <2>2, <3>1
  <2>3. ASSUME NEW f, e = Edge(<<"effect", f>>, "interaction", <<"branch", f.region>>, TargetOf(f)) PROVE NamedById(e)
    <3>1. EdgeOf(<<"effect", f>>) = Edge(<<"effect", f>>, "interaction", <<"branch", f.region>>, TargetOf(f))
      BY DEF EdgeOf
    <3> QED
      BY <2>3, <3>1
  <2> QED
    BY <2>1, <2>2, <2>3
<1> QED
  BY <1>1, <1>2, <1>3 DEF TraceEdges

-----------------------------------------------------------------------------
(***************************************************************************)
(* There are finitely many.                                                *)
(***************************************************************************)
LEMMA FiniteImage ==
    ASSUME NEW S, IsFiniteSet(S), NEW f
    PROVE  IsFiniteSet({f[s] : s \in S})
<1> DEFINE T == {f[s] : s \in S}
           g == [s \in S |-> f[s]]
<1>1. g \in Surjection(S, T)
  BY DEF Surjection
<1> HIDE DEF g, T
<1>2. IsFiniteSet(T)
  BY <1>1, FS_Surjection
<1> QED
  BY <1>2 DEF T

LEMMA FiniteUnion ==
    ASSUME NEW S, IsFiniteSet(S), NEW f, \A s \in S : IsFiniteSet(f[s])
    PROVE  IsFiniteSet(UNION {f[s] : s \in S})
<1> DEFINE T == {f[s] : s \in S}
<1>1. IsFiniteSet(T)
  BY FiniteImage
<1>2. \A t \in T : IsFiniteSet(t)
  OBVIOUS
<1> HIDE DEF T
<1>3. IsFiniteSet(UNION T)
  BY <1>1, <1>2, FS_UNION
<1> QED
  BY <1>3 DEF T

LEMMA FiniteSequence ==
    ASSUME NEW S, NEW q \in Seq(S)
    PROVE  IsFiniteSet(ToSet(q)) /\ IsFiniteSet(DOMAIN q)
<1>1. DOMAIN q = 1..Len(q) /\ Len(q) \in Int /\ 1 \in Int
  BY LenProperties
<1>2. IsFiniteSet(DOMAIN q)
  BY <1>1, FS_Interval
<1>3. IsFiniteSet({q[n] : n \in DOMAIN q})
  BY <1>2, FiniteImage
<1> QED
  BY <1>2, <1>3 DEF ToSet

LEMMA PairsAreFinite == ASSUME NEW a, NEW b PROVE IsFiniteSet({a, b})
<1>1. IsFiniteSet({a} \cup {b})
  BY FS_Singleton, FS_AddElement
<1>2. {a} \cup {b} = {a, b}
  OBVIOUS
<1> QED
  BY <1>1, <1>2

LEMMA StepsAreFinite ==
    ASSUME TraceInv
    PROVE  IsFiniteSet(Steps)
<1>1. ValidDocument /\ Len(queue) \in Nat /\ DOMAIN queue = 1..Len(queue)
  BY QueueIsTyped
<1>2. IsFiniteSet(Facts)
  BY <1>1, FiniteSequence DEF ValidDocument, Facts
<1>3. ASSUME NEW f \in Facts PROVE IsFiniteSet(StepsOf(f))
  <2> DEFINE M == ToSet(Matches(f))
             g == [m \in M |-> {MatchStep(f, m), Implements(<<"handler", m>>, m)}]
  <2>1. IsFiniteSet(M)
    <3>1. Matches(f) \in Seq(Methods)
      BY <1>1, MatchesAre
    <3> QED
      BY <3>1, FiniteSequence
  <2>2. \A m \in M : IsFiniteSet(g[m])
    BY PairsAreFinite
  <2>3. StepsOf(f) \subseteq {FactStep(f)} \cup UNION {g[m] : m \in M}
    BY DEF StepsOf, FactStep, MatchStep
  <2> HIDE DEF g, M
  <2>4. IsFiniteSet(UNION {g[m] : m \in M})
    BY <2>1, <2>2, FiniteUnion
  <2>5. IsFiniteSet({FactStep(f)} \cup UNION {g[m] : m \in M})
    BY <2>4, FS_Singleton, FS_Union
  <2> QED
    BY <2>3, <2>5, FS_Subset
<1>4. \A i \in DOMAIN queue : Recorded(queue[i]) \subseteq Facts
  BY DEF Recorded, Interactions, TableAccesses, Calls, Direct, FactsOf, Facts
<1>5. IsFiniteSet({Implements(Root, m) : m \in ToSet(doc.implementations)})
  <2> DEFINE g == [m \in ToSet(doc.implementations) |-> Implements(Root, m)]
  <2>1. IsFiniteSet(ToSet(doc.implementations))
    BY <1>1, FiniteSequence DEF ValidDocument
  <2>2. {Implements(Root, m) : m \in ToSet(doc.implementations)} = {g[m] : m \in ToSet(doc.implementations)}
    OBVIOUS
  <2> HIDE DEF g
  <2> QED
    BY <2>1, <2>2, FiniteImage
<1>6. IsFiniteSet(UNION {UNION {StepsOf(f) : f \in Recorded(queue[i])} : i \in DOMAIN queue})
  <2> DEFINE g == [f \in Facts |-> StepsOf(f)]
  <2>1. UNION {UNION {StepsOf(f) : f \in Recorded(queue[i])} : i \in DOMAIN queue} \subseteq UNION {g[f] : f \in Facts}
    BY <1>4
  <2>2. \A f \in Facts : IsFiniteSet(g[f])
    BY <1>3
  <2> HIDE DEF g
  <2>3. IsFiniteSet(UNION {g[f] : f \in Facts})
    BY <1>2, <2>2, FiniteUnion
  <2> QED
    BY <2>1, <2>3, FS_Subset
<1>7. IsFiniteSet(LockSteps)
  <2> DEFINE g == [i \in DOMAIN queue |-> LockStep(queue[i].methodId)]
  <2>1. IsFiniteSet(DOMAIN queue)
    BY <1>1, FS_Interval
  <2>2. LockSteps \subseteq {g[i] : i \in DOMAIN queue}
    BY DEF LockSteps, LockStep
  <2> HIDE DEF g
  <2>3. IsFiniteSet({g[i] : i \in DOMAIN queue})
    BY <2>1, FiniteImage
  <2> QED
    BY <2>2, <2>3, FS_Subset
<1> QED
  BY <1>5, <1>6, <1>7, FS_Union DEF Steps

LEMMA EdgesAreFinite ==
    ASSUME TraceInv, NEW x \in GraphInputs
    PROVE  IsFiniteSet(TraceEdges(x))
<1>1. IsFiniteSet(Steps) /\ IsFiniteSet(Facts) /\ IsFiniteSet(x.guards)
  <2>1. IsFiniteSet(Facts)
    BY QueueIsTyped, FiniteSequence DEF ValidDocument, Facts
  <2> QED
    BY <2>1, StepsAreFinite, GraphInputsAssumption
<1>2. ASSUME NEW s PROVE IsFiniteSet(Drawn(s))
  <2>1. IsFiniteSet(Scopes(s))
    BY PairsAreFinite, FS_EmptySet DEF Scopes
  <2>2. IsFiniteSet(Presentation(s))
    <3> DEFINE f == s.target[2]
               d == Edge(<<"dispatches", f>>, "interaction", s.target, <<"boundary", f>>)
               t == Edge(<<"targets", f>>, "interaction", <<"boundary", f>>, <<"external", f>>)
    <3>1. Presentation(s) \subseteq {d, t}
      BY DEF Presentation
    <3> HIDE DEF d, t
    <3> QED
      BY <3>1, PairsAreFinite, FS_Subset
  <2>3. IsFiniteSet({Edge(s.id, "assertion", SourceOf(s), s.target)})
    BY FS_Singleton
  <2> QED
    BY <2>1, <2>2, <2>3, FS_Union DEF Drawn
<1>3. IsFiniteSet(UNION {Drawn(s) : s \in Steps})
  <2> DEFINE g == [s \in Steps |-> Drawn(s)]
  <2>1. UNION {Drawn(s) : s \in Steps} = UNION {g[s] : s \in Steps}
    OBVIOUS
  <2>2. \A s \in Steps : IsFiniteSet(g[s])
    BY <1>2
  <2> HIDE DEF g
  <2>3. IsFiniteSet(UNION {g[s] : s \in Steps})
    BY <1>1, <2>2, FiniteUnion
  <2> QED
    BY <2>1, <2>3
<1>4. IsFiniteSet(GuardEdges(x))
  <2> DEFINE g == [v \in x.guards |-> Edge(<<"guard", v>>, "guard", Root, <<"guard", v>>)]
  <2>1. GuardEdges(x) \subseteq {g[v] : v \in x.guards}
    BY DEF GuardEdges
  <2> HIDE DEF g
  <2>2. IsFiniteSet({g[v] : v \in x.guards})
    BY <1>1, FiniteImage
  <2> QED
    BY <2>1, <2>2, FS_Subset
<1>5. IsFiniteSet(BranchEdges)
  <2> DEFINE g == [f \in Facts |-> {Edge(<<"branch", f.region>>, "interaction", Root, <<"branch", f.region>>),
                                    Edge(<<"effect", f>>, "interaction", <<"branch", f.region>>, TargetOf(f))}]
  <2>1. ASSUME NEW e \in BranchEdges PROVE e \in UNION {g[f] : f \in Facts}
    <3>1. PICK f \in Facts :
             \/ e = Edge(<<"branch", f.region>>, "interaction", Root, <<"branch", f.region>>)
             \/ e = Edge(<<"effect", f>>, "interaction", <<"branch", f.region>>, TargetOf(f))
      BY DEF BranchEdges, Facts
    <3>2. e \in g[f]
      BY <3>1
    <3> HIDE DEF g
    <3> QED
      BY <3>2
  <2>2. \A f \in Facts : IsFiniteSet(g[f])
    BY PairsAreFinite
  <2> HIDE DEF g
  <2>3. IsFiniteSet(UNION {g[f] : f \in Facts})
    BY <1>1, <2>2, FiniteUnion
  <2> QED
    BY <2>1, <2>3, FS_Subset
<1> QED
  BY <1>3, <1>4, <1>5, FS_Union, FS_EmptySet DEF TraceEdges

-----------------------------------------------------------------------------
(***************************************************************************)
(* The candidates are the edges of the trace and those of the flows.       *)
(***************************************************************************)
FlowEdge(x, i, k) == FlowEdges(x.influences[i])[k]

FlowPlaces(x) == FlowsOf(x) \X (1..3)

AllFlowEdges(x) == {FlowEdge(x, p[1], p[2]) : p \in FlowPlaces(x)}

Repeats(x) ==
    \E i, j \in FlowsOf(x) : i # j /\ x.influences[i].parameter = x.influences[j].parameter

InTurn(x, edges) == IF x.backwards THEN Reverse(edges) ELSE edges

LEMMA FlowEdgeIs ==
    ASSUME NEW x, NEW i
    PROVE  /\ FlowEdge(x, i, 1).id = <<"declares", x.influences[i].parameter>>
           /\ FlowEdge(x, i, 2).id = <<"originates", x.influences[i].origin>>
           /\ FlowEdge(x, i, 3).id = <<"flows", x.influences[i]>>
           /\ FlowEdge(x, i, 1).id[1] = "declares"
           /\ FlowEdge(x, i, 2).id[1] = "originates"
           /\ FlowEdge(x, i, 3).id[1] = "flows"
           /\ FlowEdge(x, i, 1).source = <<"method", x.influences[i].method>>
           /\ FlowEdge(x, i, 1).target = <<"parameter", x.influences[i].parameter>>
           /\ FlowEdge(x, i, 2).source = <<"parameter", x.influences[i].parameter>>
           /\ FlowEdge(x, i, 2).target = <<"origin", x.influences[i].origin>>
           /\ FlowEdge(x, i, 3).source = <<"origin", x.influences[i].origin>>
           /\ FlowEdge(x, i, 3).target = <<"column", x.influences[i].column>>
BY DEF FlowEdge, FlowEdges, Edge

LEMMA TurnLists ==
    ASSUME NEW x, x.backwards \in BOOLEAN, NEW E, NEW q, Lists(q, E)
    PROVE  Lists(InTurn(x, q), E) /\ (IdsOnce(q) => IdsOnce(InTurn(x, q)))
BY ReverseLists DEF InTurn

\* A set of edges with different ids is listed with different ids.
LEMMA SetLists ==
    ASSUME NEW E, IsFiniteSet(E), \A d, e \in E : d.id = e.id => d = e
    PROVE  Lists(Listed(E), E) /\ IdsOnce(Listed(E))
<1>1. Once(Listed(E), E)
  BY ListedIs
<1>2. \A n \in 1..Len(Listed(E)) : Listed(E)[n] \in E
  BY <1>1, ElementOfSeq DEF Once
<1> QED
  BY <1>1, <1>2 DEF Once, Lists, IdsOnce

LEMMA FlowsAre ==
    ASSUME NEW x \in GraphInputs
    PROVE  /\ Lists(FlowCandidates(x), AllFlowEdges(x))
           /\ ~Repeats(x) => IdsOnce(FlowCandidates(x))
           /\ \A e \in AllFlowEdges(x) : e.id[1] \in {"declares", "originates", "flows"}
<1> DEFINE I == x.influences
           P == FlowPlaces(x)
           places == Listed(P)
           q == FlowCandidates(x)
<1>1. I \in Seq(ToSet(I)) /\ DOMAIN I = 1..Len(I) /\ Len(I) \in Int
  BY GraphInputsAssumption, LenProperties
<1>2. \A i \in FlowsOf(x) : i \in DOMAIN I /\ I[i] \in ToSet(I)
  BY DEF FlowsOf, ToSet
<1>3. IsFiniteSet(P)
  <2>1. IsFiniteSet(DOMAIN I)
    BY <1>1, FS_Interval
  <2>2. IsFiniteSet(FlowsOf(x))
    BY <1>2, <2>1, FS_Subset
  <2>3. IsFiniteSet(1..3)
    BY FS_Interval, 1 \in Int, 3 \in Int
  <2> QED
    BY <2>2, <2>3, FS_Product DEF FlowPlaces
<1>4. /\ places \in Seq(P) /\ \A p \in P : \E n \in 1..Len(places) : places[n] = p
      /\ \A m, n \in 1..Len(places) : places[m] = places[n] => m = n
  BY <1>3, ListedIs DEF Once
<1>5. Len(places) \in Nat /\ DOMAIN places = 1..Len(places) /\ \A n \in 1..Len(places) : places[n] \in P
  BY <1>4, LenProperties, ElementOfSeq
<1>6. q = [n \in 1..Len(places) |-> FlowEdge(x, places[n][1], places[n][2])]
  BY <1>5 DEF FlowCandidates, FlowEdge, FlowPlaces
<1> HIDE DEF places, P, q
<1>7. /\ q \in Seq(AllFlowEdges(x)) /\ Len(q) = Len(places)
      /\ \A n \in 1..Len(places) : q[n] = FlowEdge(x, places[n][1], places[n][2])
  <2>1. \A n \in 1..Len(places) : FlowEdge(x, places[n][1], places[n][2]) \in AllFlowEdges(x)
    BY <1>5 DEF AllFlowEdges, P
  <2>2. q \in [1..Len(places) -> AllFlowEdges(x)]
    BY <1>6, <2>1
  <2>3. q \in Seq(AllFlowEdges(x))
    BY <1>5, <2>2, SeqDef
  <2>4. DOMAIN q = 1..Len(places)
    BY <1>6
  <2> QED
    BY <1>5, <1>6, <2>3, <2>4, LenProperties
<1>8. Lists(q, AllFlowEdges(x))
  <2>1. ASSUME NEW e \in AllFlowEdges(x) PROVE \E n \in 1..Len(q) : q[n] = e
    <3>1. PICK p \in P : e = FlowEdge(x, p[1], p[2])
      BY DEF AllFlowEdges, P
    <3>2. PICK n \in 1..Len(places) : places[n] = p
      BY <1>4
    <3> QED
      BY <1>7, <3>1, <3>2
  <2> QED
    BY <1>7, <2>1 DEF Lists
<1>9. \A p \in P : p[1] \in FlowsOf(x) /\ p[2] \in {1, 2, 3} /\ p = <<p[1], p[2]>>
  BY DEF P, FlowPlaces
<1>10. ASSUME ~Repeats(x), NEW p \in P, NEW r \in P, FlowEdge(x, p[1], p[2]).id = FlowEdge(x, r[1], r[2]).id
       PROVE  p = r
  <2> DEFINE i == p[1]
             j == r[1]
  <2>1. i \in FlowsOf(x) /\ j \in FlowsOf(x) /\ p[1] = i /\ r[1] = j /\ p = <<i, p[2]>> /\ r = <<j, r[2]>>
        /\ p[2] \in {1, 2, 3} /\ r[2] \in {1, 2, 3}
    BY <1>9
  <2>2. I[i] \in ToSet(I) /\ I[j] \in ToSet(I)
    BY <1>2, <2>1
  <2>3. \A k, l \in ToSet(I) : k.origin = l.origin => k.parameter = l.parameter
    BY GraphInputsAssumption
  <2>4. I[i].parameter = I[j].parameter => i = j
    BY <1>10, <2>1 DEF Repeats
  <2>5. ASSUME NEW k
        PROVE  /\ FlowEdge(x, k, 1).id = <<"declares", I[k].parameter>>
               /\ FlowEdge(x, k, 2).id = <<"originates", I[k].origin>>
               /\ FlowEdge(x, k, 3).id = <<"flows", I[k]>>
               /\ FlowEdge(x, k, 1).id[1] = "declares"
               /\ FlowEdge(x, k, 2).id[1] = "originates"
               /\ FlowEdge(x, k, 3).id[1] = "flows"
    BY FlowEdgeIs
  <2> HIDE DEF i, j, I
  <2>6. CASE p[2] = 1
    <3>1. FlowEdge(x, p[1], p[2]).id = <<"declares", I[i].parameter>>
      BY <2>1, <2>5, <2>6
    <3>2. r[2] = 1
      <4>1. FlowEdge(x, r[1], r[2]).id[1] = "declares"
        BY <1>10, <3>1
      <4>2. /\ FlowEdge(x, j, 1).id[1] = "declares" /\ FlowEdge(x, j, 2).id[1] = "originates"
            /\ FlowEdge(x, j, 3).id[1] = "flows"
        BY <2>5
      <4> QED
        BY <2>1, <4>1, <4>2
    <3>3. FlowEdge(x, r[1], r[2]).id = <<"declares", I[j].parameter>>
      BY <2>1, <2>5, <3>2
    <3>4. I[i].parameter = I[j].parameter
      <4>1. <<"declares", I[i].parameter>> = <<"declares", I[j].parameter>>
        BY <1>10, <3>1, <3>3
      <4> QED
        BY <4>1
    <3> QED
      BY <2>1, <2>4, <2>6, <3>2, <3>4
  <2>7. CASE p[2] = 2
    <3>1. FlowEdge(x, p[1], p[2]).id = <<"originates", I[i].origin>>
      BY <2>1, <2>5, <2>7
    <3>2. r[2] = 2
      <4>1. FlowEdge(x, r[1], r[2]).id[1] = "originates"
        BY <1>10, <3>1
      <4>2. /\ FlowEdge(x, j, 1).id[1] = "declares" /\ FlowEdge(x, j, 2).id[1] = "originates"
            /\ FlowEdge(x, j, 3).id[1] = "flows"
        BY <2>5
      <4> QED
        BY <2>1, <4>1, <4>2
    <3>3. FlowEdge(x, r[1], r[2]).id = <<"originates", I[j].origin>>
      BY <2>1, <2>5, <3>2
    <3>4. I[i].origin = I[j].origin
      <4>1. <<"originates", I[i].origin>> = <<"originates", I[j].origin>>
        BY <1>10, <3>1, <3>3
      <4> QED
        BY <4>1
    <3> QED
      BY <2>1, <2>2, <2>3, <2>4, <2>7, <3>2, <3>4
  <2>8. CASE p[2] = 3
    <3>1. FlowEdge(x, p[1], p[2]).id = <<"flows", I[i]>>
      BY <2>1, <2>5, <2>8
    <3>2. r[2] = 3
      <4>1. FlowEdge(x, r[1], r[2]).id[1] = "flows"
        BY <1>10, <3>1
      <4>2. /\ FlowEdge(x, j, 1).id[1] = "declares" /\ FlowEdge(x, j, 2).id[1] = "originates"
            /\ FlowEdge(x, j, 3).id[1] = "flows"
        BY <2>5
      <4> QED
        BY <2>1, <4>1, <4>2
    <3>3. FlowEdge(x, r[1], r[2]).id = <<"flows", I[j]>>
      BY <2>1, <2>5, <3>2
    <3>4. I[i] = I[j]
      <4>1. <<"flows", I[i]>> = <<"flows", I[j]>>
        BY <1>10, <3>1, <3>3
      <4> QED
        BY <4>1
    <3> QED
      BY <2>1, <2>4, <2>8, <3>2, <3>4
  <2> QED
    BY <2>1, <2>6, <2>7, <2>8
<1>11. ASSUME ~Repeats(x) PROVE IdsOnce(q)
  BY <1>4, <1>5, <1>7, <1>10, <1>11 DEF IdsOnce
<1>12. ASSUME NEW e \in AllFlowEdges(x) PROVE e.id[1] \in {"declares", "originates", "flows"}
  <2>1. PICK p \in P : e = FlowEdge(x, p[1], p[2])
    BY DEF AllFlowEdges, P
  <2> DEFINE i == p[1]
  <2>2. p[1] = i /\ p[2] \in {1, 2, 3}
    BY <1>9
  <2> HIDE DEF i
  <2>3. /\ FlowEdge(x, i, 1).id[1] = "declares"
        /\ FlowEdge(x, i, 2).id[1] = "originates"
        /\ FlowEdge(x, i, 3).id[1] = "flows"
    BY FlowEdgeIs
  <2> QED
    BY <2>1, <2>2, <2>3
<1> QED
  BY <1>8, <1>11, <1>12 DEF q

LEMMA CandidatesAre ==
    ASSUME TraceInv, NEW x \in GraphInputs
    PROVE  /\ Lists(Candidates(x), TraceEdges(x) \cup AllFlowEdges(x))
           /\ ~Repeats(x) => IdsOnce(Candidates(x))
<1> DEFINE E == TraceEdges(x)
           F == AllFlowEdges(x)
           Kind(kind) == {e \in E : e.kind = kind}
           L(kind) == InTurn(x, Listed(Kind(kind)))
           flows == InTurn(x, FlowCandidates(x))
<1>1. Candidates(x) = L("assertion") \o L("interaction") \o L("guard") \o flows
  BY DEF Candidates, InTurn
<1>2. \A e \in E : NamedById(e)
  BY EdgesAreNamed
<1>3. x.backwards \in BOOLEAN
  BY GraphInputsAssumption
<1>4. ASSUME NEW kind PROVE Lists(L(kind), Kind(kind)) /\ IdsOnce(L(kind))
  <2>1. IsFiniteSet(Kind(kind))
    BY EdgesAreFinite, FS_Subset
  <2>2. \A d, e \in Kind(kind) : d.id = e.id => d = e
    BY <1>2 DEF NamedById
  <2> HIDE DEF Kind
  <2>3. Lists(Listed(Kind(kind)), Kind(kind)) /\ IdsOnce(Listed(Kind(kind)))
    BY <2>1, <2>2, SetLists
  <2> QED
    BY <1>3, <2>3, TurnLists
<1>5. /\ Lists(flows, F) /\ (~Repeats(x) => IdsOnce(flows))
      /\ \A e \in F : e.id[1] \in {"declares", "originates", "flows"}
  BY <1>3, FlowsAre, TurnLists
<1>6. \A a, b : \A d \in Kind(a) : \A e \in Kind(b) : a # b => d.id # e.id
  BY <1>2 DEF NamedById
<1>7. \A a : \A d \in Kind(a) : \A e \in F : d.id # e.id
  BY <1>2, <1>5 DEF NamedById
<1>8. E = Kind("assertion") \cup Kind("interaction") \cup Kind("guard")
  BY <1>2 DEF NamedById
<1> DEFINE A == Kind("assertion")
           B == Kind("interaction")
           C == Kind("guard")
           first == L("assertion") \o L("interaction")
           second == first \o L("guard")
<1> HIDE DEF E, F, Kind, L, flows
<1>9. Lists(first, A \cup B) /\ IdsOnce(first)
  <2>1. "assertion" # "interaction"
    OBVIOUS
  <2> QED
    BY <1>4, <1>6, <2>1, JoinLists
<1>10. Lists(second, A \cup B \cup C) /\ IdsOnce(second)
  <2>1. "assertion" # "guard" /\ "interaction" # "guard"
    OBVIOUS
  <2>2. \A d \in A \cup B : \A e \in C : d.id # e.id
    BY <1>6, <2>1
  <2> HIDE DEF A, B, first
  <2> QED
    BY <1>4, <1>9, <2>2, JoinLists
<1>11. /\ Lists(second \o flows, A \cup B \cup C \cup F)
       /\ ~Repeats(x) => IdsOnce(second \o flows)
  <2>1. \A d \in A \cup B \cup C : \A e \in F : d.id # e.id
    BY <1>7
  <2> HIDE DEF A, B, C, second
  <2> QED
    BY <1>5, <1>10, <2>1, JoinLists
<1> QED
  BY <1>1, <1>8, <1>11 DEF E, F

-----------------------------------------------------------------------------
(***************************************************************************)
(* What a scene shows is known, and what the trace has entered is linked.  *)
(***************************************************************************)
LEMMA StepsAreDrawn ==
    ASSUME Selection = "resolved", NEW x, NEW s \in Steps
    PROVE  /\ Edge(s.id, "assertion", SourceOf(s), s.target) \in TraceEdges(x)
           /\ InSection(s) => Edge(<<"scope", s.id[2].from>>, "assertion",
                                   <<"method", s.id[2].from>>, <<"section", s.id[2].from>>) \in TraceEdges(x)
<1>1. Drawn(s) \subseteq TraceEdges(x)
  BY DEF TraceEdges
<1>2. Edge(s.id, "assertion", SourceOf(s), s.target) \in Drawn(s)
  BY DEF Drawn
<1>3. ASSUME InSection(s)
      PROVE  Edge(<<"scope", s.id[2].from>>, "assertion",
                  <<"method", s.id[2].from>>, <<"section", s.id[2].from>>) \in Drawn(s)
  BY <1>3 DEF Drawn, Scopes
<1> QED
  BY <1>1, <1>2, <1>3

LEMMA RootsAreDrawn ==
    ASSUME Selection = "resolved", NEW x, NEW m \in ToSet(doc.implementations)
    PROVE  \E e \in TraceEdges(x) : e.source = Root /\ e.target = <<"method", m>>
<1> DEFINE s == Implements(Root, m)
<1>1. s \in Steps
  BY DEF Steps
<1>2. s.id[1] = "implemented" /\ s.source = Root /\ s.target = <<"method", m>>
  BY DEF Implements, Step
<1> HIDE DEF s
<1>3. SourceOf(s) = Root
  BY <1>2 DEF SourceOf, InSection
<1>4. Edge(s.id, "assertion", Root, <<"method", m>>) \in TraceEdges(x)
  BY <1>1, <1>2, <1>3, StepsAreDrawn
<1> QED
  BY <1>4 DEF Edge

LEMMA LastIsOne ==
    ASSUME ValidDocument, doc.implementations # <<>>
    PROVE  Last(doc.implementations) \in ToSet(doc.implementations)
<1>1. /\ doc.implementations \in Seq(Methods) /\ DOMAIN doc.implementations = 1..Len(doc.implementations)
      /\ Len(doc.implementations) \in Nat
  BY LenProperties DEF ValidDocument
<1>2. Len(doc.implementations) # 0
  BY <1>1, EmptySeq
<1>3. Len(doc.implementations) \in DOMAIN doc.implementations
  BY <1>1, <1>2
<1> QED
  BY <1>3 DEF Last, ToSet

\* The flows are of an implementation, which the trace shows.
LEMMA EndsAreKnown ==
    ASSUME TraceInv, NEW x \in GraphInputs, FlowsOf(x) = {} \/ Selection = "resolved"
    PROVE  \A e \in TraceEdges(x) \cup AllFlowEdges(x) :
               e.source \in KnownNodes(x) /\ e.target \in KnownNodes(x)
<1> DEFINE flows == UNION {FlowNodes(x.influences[i]) : i \in FlowsOf(x)}
<1>1. ASSUME NEW e \in TraceEdges(x) PROVE e.source \in KnownNodes(x) /\ e.target \in KnownNodes(x)
  BY DEF KnownNodes
<1>2. flows \subseteq KnownNodes(x)
  BY DEF KnownNodes
<1>3. ASSUME NEW e \in AllFlowEdges(x) PROVE e.source \in KnownNodes(x) /\ e.target \in KnownNodes(x)
  <2>1. PICK p \in FlowPlaces(x) : e = FlowEdge(x, p[1], p[2])
    BY DEF AllFlowEdges
  <2> DEFINE i == p[1]
             f == x.influences[i]
  <2>2. i \in FlowsOf(x) /\ p[2] \in {1, 2, 3}
    BY DEF FlowPlaces
  <2>3. {<<"parameter", f.parameter>>, <<"origin", f.origin>>, <<"column", f.column>>} \subseteq KnownNodes(x)
    <3>1. FlowNodes(f) \subseteq flows
      BY <2>2
    <3> HIDE DEF flows, i, f
    <3> QED
      BY <1>2, <3>1 DEF FlowNodes
  <2>4. <<"method", f.method>> \in KnownNodes(x)
    <3>1. doc.implementations # <<>> /\ f.method = Last(doc.implementations) /\ Selection = "resolved"
      BY <2>2 DEF FlowsOf
    <3>2. f.method \in ToSet(doc.implementations)
      BY <3>1, QueueIsTyped, LastIsOne
    <3>3. PICK d \in TraceEdges(x) : d.target = <<"method", f.method>>
      BY <3>1, <3>2, RootsAreDrawn
    <3> QED
      BY <1>1, <3>3
  <2>5. CASE p[2] = 1
    <3>1. e.source = <<"method", f.method>> /\ e.target = <<"parameter", f.parameter>>
      BY <2>1, <2>5, FlowEdgeIs
    <3> QED
      BY <2>3, <2>4, <3>1
  <2>6. CASE p[2] = 2
    <3>1. e.source = <<"parameter", f.parameter>> /\ e.target = <<"origin", f.origin>>
      BY <2>1, <2>6, FlowEdgeIs
    <3> QED
      BY <2>3, <3>1
  <2>7. CASE p[2] = 3
    <3>1. e.source = <<"origin", f.origin>> /\ e.target = <<"column", f.column>>
      BY <2>1, <2>7, FlowEdgeIs
    <3> QED
      BY <2>3, <3>1
  <2> QED
    BY <2>2, <2>5, <2>6, <2>7
<1> QED
  BY <1>1, <1>3

\* The nodes are those of the edges.
LEMMA KnownAre ==
    ASSUME NEW x
    PROVE  KnownNodes(x) \subseteq {Root} \cup UNION {{e.source, e.target} : e \in TraceEdges(x) \cup AllFlowEdges(x)}
<1> DEFINE E == TraceEdges(x) \cup AllFlowEdges(x)
           V == {Root} \cup UNION {{e.source, e.target} : e \in E}
<1>1. \A e \in E : e.source \in V /\ e.target \in V
  OBVIOUS
<1>2. ASSUME NEW i \in FlowsOf(x) PROVE FlowNodes(x.influences[i]) \subseteq V
  <2> DEFINE f == x.influences[i]
  <2>1. FlowEdge(x, i, 1) \in E /\ FlowEdge(x, i, 2) \in E /\ FlowEdge(x, i, 3) \in E
    <3>1. \A k \in 1..3 : <<i, k>> \in FlowPlaces(x) /\ <<i, k>>[1] = i /\ <<i, k>>[2] = k
      BY DEF FlowPlaces
    <3>2. \A k \in 1..3 : FlowEdge(x, i, k) \in AllFlowEdges(x)
      BY <3>1 DEF AllFlowEdges
    <3> QED
      BY <3>2
  <2>2. <<"parameter", f.parameter>> \in V /\ <<"origin", f.origin>> \in V /\ <<"column", f.column>> \in V
    <3>1. FlowEdge(x, i, 2).source = <<"parameter", f.parameter>> /\ FlowEdge(x, i, 2).target = <<"origin", f.origin>>
          /\ FlowEdge(x, i, 3).target = <<"column", f.column>>
      BY FlowEdgeIs
    <3> HIDE DEF V, E, f
    <3> QED
      BY <1>1, <2>1, <3>1
  <2> HIDE DEF V
  <2> QED
    BY <2>2 DEF FlowNodes
<1>3. ASSUME NEW e \in TraceEdges(x) PROVE {e.source, e.target} \subseteq V
  OBVIOUS
<1> HIDE DEF E
<1>4. Root \in V
  OBVIOUS
<1> HIDE DEF V
<1>5. UNION {FlowNodes(x.influences[i]) : i \in FlowsOf(x)} \subseteq V
  BY <1>2
<1>6. UNION {{e.source, e.target} : e \in TraceEdges(x)} \subseteq V
  BY <1>3
<1> QED
  BY <1>4, <1>5, <1>6 DEF KnownNodes, V, E

LEMMA KnownAreFinite ==
    ASSUME TraceInv, NEW x \in GraphInputs
    PROVE  IsFiniteSet(KnownNodes(x)) /\ Cardinality(KnownNodes(x)) \in Nat
<1>1. IsFiniteSet(UNION {{e.source, e.target} : e \in TraceEdges(x)})
  <2> DEFINE g == [e \in TraceEdges(x) |-> {e.source, e.target}]
  <2>1. UNION {{e.source, e.target} : e \in TraceEdges(x)} = UNION {g[e] : e \in TraceEdges(x)}
    OBVIOUS
  <2>2. \A e \in TraceEdges(x) : IsFiniteSet(g[e])
    BY PairsAreFinite
  <2> HIDE DEF g
  <2>3. IsFiniteSet(UNION {g[e] : e \in TraceEdges(x)})
    BY <2>2, EdgesAreFinite, FiniteUnion
  <2> QED
    BY <2>1, <2>3
<1>2. IsFiniteSet(UNION {FlowNodes(x.influences[i]) : i \in FlowsOf(x)})
  <2> DEFINE g == [i \in FlowsOf(x) |-> FlowNodes(x.influences[i])]
  <2>1. UNION {FlowNodes(x.influences[i]) : i \in FlowsOf(x)} = UNION {g[i] : i \in FlowsOf(x)}
    OBVIOUS
  <2>2. \A i \in FlowsOf(x) : IsFiniteSet(g[i])
    <3>1. ASSUME NEW f PROVE IsFiniteSet(FlowNodes(f))
      <4> DEFINE a == <<"parameter", f.parameter>>
                 b == <<"origin", f.origin>>
                 c == <<"column", f.column>>
      <4>1. FlowNodes(f) = {a, b} \cup {c}
        BY DEF FlowNodes
      <4> HIDE DEF a, b, c
      <4> QED
        BY <4>1, PairsAreFinite, FS_AddElement
    <3> QED
      BY <3>1
  <2>3. IsFiniteSet(FlowsOf(x))
    <3>1. x.influences \in Seq(ToSet(x.influences))
      BY GraphInputsAssumption
    <3>2. IsFiniteSet(DOMAIN x.influences)
      BY <3>1, FiniteSequence
    <3>3. FlowsOf(x) \subseteq DOMAIN x.influences
      BY DEF FlowsOf
    <3> QED
      BY <3>2, <3>3, FS_Subset
  <2> HIDE DEF g
  <2>4. IsFiniteSet(UNION {g[i] : i \in FlowsOf(x)})
    BY <2>2, <2>3, FiniteUnion
  <2> QED
    BY <2>1, <2>4
<1>3. IsFiniteSet({Root})
  BY FS_Singleton
<1>4. IsFiniteSet(KnownNodes(x))
  BY <1>1, <1>2, <1>3, FS_Union DEF KnownNodes
<1> QED
  BY <1>4, FS_CardinalityType

LEMMA SceneIsSelected ==
    ASSUME TraceInv, NEW x \in GraphInputs
    PROVE  /\ Candidates(x) \in Seq(TraceEdges(x) \cup AllFlowEdges(x))
           /\ Selected(x, Root, Candidates(x)) \in Scenes(x, Root, Candidates(x))
           /\ DrawnFrom(Selected(x, Root, Candidates(x)), Candidates(x), Len(Candidates(x)))
           /\ x.maxEdges \in Nat /\ x.maxNodes \in Nat \ {0}
<1>1. x.maxEdges \in Nat /\ x.maxNodes \in Nat \ {0}
  BY GraphInputsAssumption
<1>2. Candidates(x) \in Seq(TraceEdges(x) \cup AllFlowEdges(x))
  BY CandidatesAre DEF Lists
<1> QED
  BY <1>1, <1>2, SelectedIs

LEMMA SceneIsValid ==
    ASSUME TraceInv, NEW x \in GraphInputs, ~Repeats(x), FlowsOf(x) = {} \/ Selection = "resolved"
    PROVE  ValidScene(Scene(x), x)
<1> DEFINE C == Candidates(x)
           D == TraceEdges(x) \cup AllFlowEdges(x)
           chosen == Selected(x, Root, C)
           known == KnownNodes(x)
<1>1. /\ C \in Seq(D) /\ chosen \in Scenes(x, Root, C) /\ DrawnFrom(chosen, C, Len(C))
      /\ x.maxEdges \in Nat /\ x.maxNodes \in Nat \ {0}
  BY SceneIsSelected
<1>2. IdsOnce(C)
  BY CandidatesAre
<1>3. \A e \in D : e.source \in known /\ e.target \in known
  BY EndsAreKnown
<1>4. Root \in known
  BY DEF KnownNodes
<1>5. Scene(x).nodes = chosen.nodes \cap known /\ Scene(x).edges = chosen.edges
  BY DEF Scene
<1> HIDE DEF C, D, chosen, known
<1>6. /\ Root \in chosen.nodes /\ IsFiniteSet(chosen.nodes)
      /\ Cardinality(chosen.nodes) <= x.maxNodes /\ Len(chosen.edges) <= x.maxEdges
      /\ \A n \in 1..Len(chosen.edges) : chosen.edges[n].source \in chosen.nodes /\ chosen.edges[n].target \in chosen.nodes
      /\ chosen.edges \in Seq(EdgesLike(C))
  BY <1>1 DEF Scenes
<1>7. DOMAIN chosen.edges = 1..Len(chosen.edges) /\ Len(C) \in Nat
  BY <1>1, <1>6, LenProperties
<1>8. \A n \in 1..Len(chosen.edges) : chosen.edges[n] \in D
  <2>1. \A l \in 1..Len(C) : C[l] \in D
    BY <1>1, ElementOfSeq
  <2> QED
    BY <1>1, <2>1 DEF DrawnFrom
<1>9. IsInjective([i \in DOMAIN chosen.edges |-> chosen.edges[i].id])
  <2>1. IdsOnce(chosen.edges)
    BY <1>1, <1>2 DEF DrawnFrom
  <2> QED
    BY <1>7, <2>1 DEF IsInjective, IdsOnce
<1>10. \A e \in ToSet(chosen.edges) : {e.source, e.target} \subseteq chosen.nodes \cap known
  BY <1>3, <1>6, <1>7, <1>8 DEF ToSet
<1>11. Cardinality(chosen.nodes \cap known) <= x.maxNodes
  <2>1. /\ Cardinality(chosen.nodes \cap known) <= Cardinality(chosen.nodes)
        /\ IsFiniteSet(chosen.nodes \cap known)
    BY <1>6, FS_Intersection
  <2>2. Cardinality(chosen.nodes) \in Nat /\ Cardinality(chosen.nodes \cap known) \in Nat
    BY <1>6, <2>1, FS_CardinalityType
  <2> QED
    BY <1>1, <1>6, <2>1, <2>2
<1> QED
  BY <1>4, <1>5, <1>6, <1>9, <1>10, <1>11 DEF ValidScene

\* A scene that leaves out no edge has all of the trace.
LEMMA SceneIsWhole ==
    ASSUME TraceInv, NEW x \in GraphInputs, Scene(x).omitted.edges = 0
    PROVE  /\ Scene(x).omitted.nodes = 0
           /\ TraceEdges(x) \subseteq ToSet(Scene(x).edges) /\ IsFiniteSet(ToSet(Scene(x).edges))
<1> DEFINE C == Candidates(x)
           D == TraceEdges(x) \cup AllFlowEdges(x)
           chosen == Selected(x, Root, C)
           known == KnownNodes(x)
<1>1. C \in Seq(D) /\ chosen \in Scenes(x, Root, C) /\ DrawnFrom(chosen, C, Len(C))
  BY SceneIsSelected
<1>2. \A e \in D : \E n \in 1..Len(C) : C[n] = e
  BY CandidatesAre DEF Lists
<1>3. /\ Scene(x).edges = chosen.edges
      /\ Scene(x).omitted.edges = Len(C) - Len(chosen.edges)
      /\ Scene(x).omitted.nodes = Cardinality(known) - Cardinality(chosen.nodes \cap known)
  BY DEF Scene
<1>4. known \subseteq {Root} \cup UNION {{e.source, e.target} : e \in D}
  BY KnownAre
<1>5. Cardinality(known) \in Nat
  BY KnownAreFinite
<1>6. TraceEdges(x) \subseteq D
  OBVIOUS
<1> HIDE DEF C, D, chosen, known
<1>7. /\ Root \in chosen.nodes /\ chosen.edges \in Seq(EdgesLike(C))
      /\ \A n \in 1..Len(chosen.edges) : chosen.edges[n].source \in chosen.nodes /\ chosen.edges[n].target \in chosen.nodes
  BY <1>1 DEF Scenes
<1>8. Len(C) \in Nat /\ Len(chosen.edges) \in Nat /\ DOMAIN chosen.edges = 1..Len(chosen.edges)
  BY <1>1, <1>7, LenProperties
<1>9. Len(chosen.edges) = Len(C)
  BY <1>3, <1>8
<1>10. \A n \in 1..Len(C) : chosen.edges[n] = C[n]
  BY <1>1, <1>9 DEF DrawnFrom
<1>11. \A e \in D : e \in ToSet(chosen.edges) /\ e.source \in chosen.nodes /\ e.target \in chosen.nodes
  BY <1>2, <1>7, <1>8, <1>9, <1>10 DEF ToSet
<1>12. known \subseteq chosen.nodes
  BY <1>4, <1>7, <1>11
<1>13. chosen.nodes \cap known = known
  BY <1>12
<1>14. Scene(x).omitted.nodes = 0
  <2>1. Cardinality(chosen.nodes \cap known) = Cardinality(known)
    BY <1>13, Zenon
  <2>2. Scene(x).omitted.nodes = Cardinality(known) - Cardinality(known)
    BY <1>3, <2>1, Zenon
  <2> QED
    BY <1>5, <2>2
<1>15. IsFiniteSet(ToSet(chosen.edges))
  BY <1>7, FiniteSequence
<1> QED
  BY <1>3, <1>6, <1>11, <1>14, <1>15

-----------------------------------------------------------------------------
(***************************************************************************)
(* The edges of the trace lead to what it has entered.                     *)
(***************************************************************************)
Follows(R, x) == \A e \in TraceEdges(x) : e.source \in R => e.target \in R

\* The source and the target of a recorded fact are linked with its method,
\* the source through the section it is in.
LEMMA FactsAreLinked ==
    ASSUME Selection = "resolved", NEW x, NEW R, Follows(R, x),
           NEW i \in DOMAIN queue, NEW f \in Recorded(queue[i]), <<"method", f.from>> \in R
    PROVE  /\ Edge(<<"fact", f>>, "assertion",
                   <<IF f.region = "section" THEN "section" ELSE "method", f.from>>, TargetOf(f)) \in TraceEdges(x)
           /\ <<IF f.region = "section" THEN "section" ELSE "method", f.from>> \in R
           /\ TargetOf(f) \in R
<1> DEFINE s == FactStep(f)
           source == <<IF f.region = "section" THEN "section" ELSE "method", f.from>>
<1>1. s \in Steps
  <2>1. s \in StepsOf(f)
    BY DEF StepsOf, FactStep
  <2>2. s \in UNION {StepsOf(g) : g \in Recorded(queue[i])}
    BY <2>1
  <2> QED
    BY <2>2 DEF Steps
<1>2. /\ s.id = <<"fact", f>> /\ s.id[1] = "fact" /\ s.id[2] = f
      /\ s.source = <<"method", f.from>> /\ s.target = TargetOf(f)
  BY DEF FactStep, Step
<1> HIDE DEF s
<1>3. InSection(s) <=> f.region = "section"
  BY <1>2 DEF InSection
<1>4. SourceOf(s) = source
  BY <1>2, <1>3 DEF SourceOf
<1>5. Edge(<<"fact", f>>, "assertion", source, TargetOf(f)) \in TraceEdges(x)
  BY <1>1, <1>2, <1>4, StepsAreDrawn
<1>6. source \in R
  <2>1. CASE f.region = "section"
    <3>1. Edge(<<"scope", f.from>>, "assertion", <<"method", f.from>>, <<"section", f.from>>) \in TraceEdges(x)
      BY <1>1, <1>2, <1>3, <2>1, StepsAreDrawn
    <3>2. <<"section", f.from>> \in R
      BY <3>1 DEF Follows, Edge
    <3> QED
      BY <2>1, <3>2
  <2>2. CASE f.region # "section"
    BY <2>2
  <2> QED
    BY <2>1, <2>2
<1>7. TargetOf(f) \in R
  <2> HIDE DEF source
  <2> QED
    BY <1>5, <1>6 DEF Follows, Edge
<1> QED
  BY <1>5, <1>6, <1>7

\* A matched handler is linked with its interaction.
LEMMA MatchesAreLinked ==
    ASSUME Selection = "resolved", NEW x, NEW R, Follows(R, x),
           NEW i \in DOMAIN queue, NEW f \in Recorded(queue[i]), IsInteraction(f),
           <<"interaction", f>> \in R, NEW m \in ToSet(Matches(f))
    PROVE  <<"method", m>> \in R
<1> DEFINE s == MatchStep(f, m)
           t == Implements(<<"handler", m>>, m)
<1>1. s \in Steps /\ t \in Steps
  <2>1. s \in StepsOf(f) /\ t \in StepsOf(f)
    BY DEF StepsOf, MatchStep
  <2> HIDE DEF s, t
  <2>2. {s, t} \subseteq UNION {StepsOf(g) : g \in Recorded(queue[i])}
    BY <2>1
  <2> QED
    BY <2>2 DEF Steps
<1>2. /\ s.id[1] = "matches" /\ s.source = <<"interaction", f>> /\ s.target = <<"handler", m>>
      /\ t.id[1] = "implemented" /\ t.source = <<"handler", m>> /\ t.target = <<"method", m>>
  BY DEF MatchStep, Implements, Step
<1> HIDE DEF s, t
<1>3. SourceOf(s) = s.source /\ SourceOf(t) = t.source
  BY <1>2 DEF SourceOf, InSection
<1>4. /\ Edge(s.id, "assertion", <<"interaction", f>>, <<"handler", m>>) \in TraceEdges(x)
      /\ Edge(t.id, "assertion", <<"handler", m>>, <<"method", m>>) \in TraceEdges(x)
  BY <1>1, <1>2, <1>3, StepsAreDrawn
<1>5. <<"handler", m>> \in R
  BY <1>4 DEF Follows, Edge
<1> QED
  BY <1>4, <1>5 DEF Follows, Edge

LEMMA EdgesLead ==
    ASSUME TraceInv, Selection = "resolved", NEW x, NEW R, Follows(R, x), Root \in R
    PROVE  \A i \in DOMAIN queue : <<"method", queue[i].methodId>> \in R
<1> DEFINE L == {m \in Methods : <<"method", m>> \in R}
<1>1. ValidDocument /\ DOMAIN queue = 1..Len(queue) /\ Accumulator.queue = queue
  BY QueueIsTyped
<1>2. ToSet(doc.implementations) \subseteq L
  <2>1. ASSUME NEW m \in ToSet(doc.implementations) PROVE m \in L
    <3>1. PICK e \in TraceEdges(x) : e.source = Root /\ e.target = <<"method", m>>
      BY RootsAreDrawn
    <3>2. <<"method", m>> \in R
      BY <3>1 DEF Follows
    <3> QED
      BY <1>1, <3>2, RootsArePlaces
  <2> QED
    BY <2>1
<1>3. ASSUME NEW i \in 1..Len(queue), queue[i].methodId \in L PROVE LeadsTo(queue[i]) \subseteq L
  <2> DEFINE s == queue[i]
  <2>1. \A f \in Direct(s) : f \in Facts /\ f.from = s.methodId /\ <<"method", f.from>> \in R
    BY <1>3 DEF Direct, FactsOf, Facts
  <2>2. ASSUME NEW f \in Calls(s), s.depth < Limits.depth PROVE f.to[1] \in L
    <3>1. f \in Recorded(s) /\ f \in Direct(s) /\ f.channel = "call"
      BY <2>2 DEF Recorded, Calls
    <3>2. TargetOf(f) \in R
      BY <1>1, <2>1, <3>1, FactsAreLinked
    <3>3. <<"method", f.to[1]>> \in R
      BY <3>1, <3>2, TargetsAre
    <3> QED
      BY <1>1, <2>1, <3>1, <3>3, FactsAreTyped
  <2>3. ASSUME NEW f \in Interactions(s), NEW m \in ToSet(Matches(f)) PROVE m \in L
    <3>1. f \in Recorded(s) /\ f \in Direct(s) /\ IsInteraction(f)
      BY DEF Recorded, Interactions, IsInteraction
    <3>2. TargetOf(f) \in R
      BY <1>1, <2>1, <3>1, FactsAreLinked
    <3>3. <<"interaction", f>> \in R
      BY <3>1, <3>2, TargetsAre
    <3>4. <<"method", m>> \in R
      BY <1>1, <3>1, <3>3, MatchesAreLinked
    <3>5. m \in Methods
      <4>1. Matches(f) \in Seq(Methods) /\ Len(Matches(f)) \in Nat
        BY <1>1, <2>1, <3>1, MatchesAre
      <4>2. \A n \in DOMAIN Matches(f) : Matches(f)[n] \in Methods
        BY <4>1, ElementOfSeq, LenProperties
      <4> QED
        BY <4>2 DEF ToSet
    <3> QED
      BY <3>4, <3>5
  <2> HIDE DEF L, s
  <2> QED
    BY <2>2, <2>3 DEF LeadsTo, s
<1>4. ClosedUnder(Accumulator, L)
  <2> HIDE DEF L
  <2> QED
    BY <1>1, <1>2, <1>3 DEF ClosedUnder
<1>5. Connected(Accumulator)
  BY DEF TraceInv, Sound, Onwards
<1>6. \A i \in 1..Len(queue) : queue[i].methodId \in L
  <2> HIDE DEF L
  <2> QED
    BY <1>1, <1>4, <1>5 DEF Connected
<1> QED
  BY <1>1, <1>6

LEMMA ScenesLead ==
    ASSUME TraceInv, Selection = "resolved", NEW x, NEW E, IsFiniteSet(E), TraceEdges(x) \subseteq E
    PROVE  /\ {<<"method", m>> : m \in Entered} \subseteq Closure(E)
           /\ \A i \in DOMAIN queue : \A f \in TableAccesses(queue[i]) :
                \E e \in E :
                    /\ e.target = <<"table">> /\ e.source \in Closure(E)
                    /\ e.source = <<IF f.region = "section" THEN "section" ELSE "method", f.from>>
<1> DEFINE R == Closure(E)
<1>1. Root \in R /\ Follows(R, x)
  <2>1. /\ Root \in ClosureFrom(Root, E)
        /\ \A s \in E : s.source \in ClosureFrom(Root, E) => s.target \in ClosureFrom(Root, E)
    BY ClosureIs
  <2> QED
    BY <2>1 DEF Closure, Follows
<1> HIDE DEF R
<1>2. \A i \in DOMAIN queue : <<"method", queue[i].methodId>> \in R
  BY <1>1, EdgesLead
<1>3. \A i \in DOMAIN queue : \A f \in Recorded(queue[i]) : <<"method", f.from>> \in R
  <2>1. \A i : \A f \in Recorded(queue[i]) : f.from = queue[i].methodId
    BY DEF Recorded, Interactions, TableAccesses, Calls, Direct, FactsOf
  <2> QED
    BY <1>2, <2>1
<1>4. ASSUME NEW m \in Entered PROVE <<"method", m>> \in R
  <2>1. CASE m \in Reached
    BY <1>2, <2>1 DEF Reached
  <2>2. CASE m \notin Reached
    <3>1. PICK i \in DOMAIN queue : \E f \in Recorded(queue[i]) : IsInteraction(f) /\ m \in ToSet(Matches(f))
      BY <2>2 DEF Entered
    <3>2. PICK f \in Recorded(queue[i]) : IsInteraction(f) /\ m \in ToSet(Matches(f))
      BY <3>1
    <3>3. TargetOf(f) \in R
      BY <1>1, <1>3, FactsAreLinked
    <3>4. <<"interaction", f>> \in R
      BY <3>2, <3>3, TargetsAre
    <3> QED
      BY <1>1, <3>2, <3>4, MatchesAreLinked
  <2> QED
    BY <2>1, <2>2
<1>5. ASSUME NEW i \in DOMAIN queue, NEW f \in TableAccesses(queue[i])
      PROVE  \E e \in E :
                /\ e.target = <<"table">> /\ e.source \in R
                /\ e.source = <<IF f.region = "section" THEN "section" ELSE "method", f.from>>
  <2> DEFINE source == <<IF f.region = "section" THEN "section" ELSE "method", f.from>>
             e == Edge(<<"fact", f>>, "assertion", source, TargetOf(f))
  <2>1. f \in Recorded(queue[i]) /\ f.channel = "table"
    BY DEF Recorded, TableAccesses
  <2>2. e \in TraceEdges(x) /\ source \in R
    BY <1>1, <1>3, <2>1, FactsAreLinked
  <2>3. e.target = <<"table">> /\ e.source = source
    BY <2>1, TargetsAre DEF Edge
  <2> HIDE DEF e, source
  <2>4. e \in E /\ e.target = <<"table">> /\ e.source \in R /\ e.source = source
    BY <2>2, <2>3
  <2> QED
    BY <2>4 DEF source
<1> QED
  BY <1>4, <1>5 DEF R

-----------------------------------------------------------------------------
(***************************************************************************)
(* The places reached over some of the facts.                              *)
(***************************************************************************)
Wider(F, before) == before \cup UNION {ArrowsFrom(F, p) : p \in before}

\* The places within no arrow are the roots, those within one more the places
\* before and what an arrow over F leads to.
Spans(F, within) ==
    /\ within \in [0..MaxArrows -> SUBSET AllPlaces]
    /\ within[0] = {RootPlace(m) : m \in ToSet(doc.implementations)}
    /\ \A n \in 1..MaxArrows : within[n] = Wider(F, within[n - 1])
    /\ Places(F) = within[MaxArrows]

\* Fewer facts lead to fewer places.
LEMMA FewerArrows ==
    ASSUME ValidDocument, NEW F \in SUBSET Facts, NEW p \in AllPlaces
    PROVE  ArrowsFrom(F, p) \subseteq ArrowsFrom(Facts, p) /\ ArrowsFrom(F, p) \subseteq AllPlaces
<1>1. FactsAt(F, p) \subseteq FactsAt(Facts, p)
  BY DEF FactsAt
<1>2. ASSUME NEW q \in ArrowsFrom(F, p) PROVE q \in ArrowsFrom(Facts, p)
  <2>1. CallsOn(F, p, q) => CallsOn(Facts, p, q)
    BY <1>1 DEF CallsOn
  <2>2. Enters(F, p, q) => Enters(Facts, p, q)
    BY DEF Enters
  <2>3. Crosses(F, p, q) => Crosses(Facts, p, q)
    BY <1>1 DEF Crosses, IsInteraction
  <2> QED
    BY <2>1, <2>2, <2>3, ArrowOf
<1>3. ArrowsFrom(Facts, p) \subseteq AllPlaces
  BY ArrowsStay
<1> QED
  BY <1>2, <1>3

LEMMA PlacesSpan ==
    ASSUME ValidDocument, NEW F \in SUBSET Facts
    PROVE  \E within : Spans(F, within)
<1> DEFINE N == MaxArrows
           A == SUBSET AllPlaces
           D == {RootPlace(m) : m \in ToSet(doc.implementations)}
           move == [n \in 1..N |-> [before \in A |-> Wider(F, before)]]
           Is(w) == w = [n \in 0..N |-> IF n = 0 THEN D ELSE Wider(F, w[n - 1])]
<1>0. N \in Nat
  BY MaxArrowsIsANumber
<1>1. Places(F) = (CHOOSE w : Is(w))[N]
  BY DEF Places, Wider
<1> HIDE DEF N
<1>2. D \in A /\ \A before \in A : Wider(F, before) \in A
  BY RootsArePlaces, FewerArrows DEF Wider
<1> HIDE DEF A, D
<1>3. move \in [1..N -> [A -> A]] /\ \A n \in 1..N : \A before \in A : move[n][before] = Wider(F, before)
  BY <1>2
<1> HIDE DEF move
<1>4. PICK after \in [0..N -> A] : Taken(N, D, move, after)
  BY <1>0, <1>2, <1>3, StepsRun
<1>5. after[0] = D /\ \A n \in 1..N : after[n] = Wider(F, after[n - 1])
  <2>1. \A n \in 1..N : n - 1 \in 0..N
    BY <1>0
  <2> QED
    BY <1>3, <1>4, <2>1 DEF Taken
<1>6. Is(after)
  <2>1. \A n \in 0..N : after[n] = IF n = 0 THEN D ELSE Wider(F, after[n - 1])
    BY <1>0, <1>5
  <2> QED
    BY <1>4, <2>1
<1> DEFINE within == CHOOSE w : Is(w)
<1>7. Is(within)
  BY <1>6
<1>8. ASSUME NEW w, Is(w)
      PROVE  w[0] = D /\ \A n \in 1..N : w[n] = Wider(F, w[n - 1])
  <2>1. 0 \in 0..N /\ \A n \in 1..N : n \in 0..N /\ n # 0
    BY <1>0
  <2> QED
    BY <1>8, <2>1
<1>9. \A w : Is(w) => DOMAIN w = 0..N /\ w = [n \in 0..N |-> w[n]]
  OBVIOUS
<1> HIDE DEF Is
<1>10. within[0] = D /\ \A n \in 1..N : within[n] = Wider(F, within[n - 1])
  BY <1>7, <1>8
<1>11. within = [n \in 0..N |-> within[n]]
  BY <1>7, <1>9
<1>12. Places(F) = within[N]
  BY <1>1
<1> HIDE DEF within
<1> DEFINE T == {n \in 0..N : within[n] \in A}
<1>13. 0 \in T
  BY <1>0, <1>2, <1>10
<1>14. ASSUME NEW n \in 1..N, n - 1 \in T PROVE n \in T
  <2>1. n \in 0..N /\ within[n - 1] \in A /\ within[n] = Wider(F, within[n - 1])
    BY <1>0, <1>10, <1>14
  <2> QED
    BY <1>2, <2>1
<1>15. \A n \in 0..N : n \in T
  <2> HIDE DEF T
  <2> QED
    BY <1>0, <1>13, <1>14, CountingUp
<1>16. within \in [0..N -> A]
  BY <1>11, <1>15
<1> QED
  BY <1>10, <1>12, <1>16 DEF A, D, N, Spans

-----------------------------------------------------------------------------
(***************************************************************************)
(* Where a place leads to depends on its method and its filter alone, so   *)
(* as many arrows as there are of these lead everywhere.                   *)
(***************************************************************************)
Stations == Methods \X Filters

StationOf(p) == <<p.methodId, p.filter>>

StationsOf(places) == {StationOf(p) : p \in places}

LEMMA StationsAreCounted ==
    IsFiniteSet(Stations) /\ Cardinality(Stations) = MaxArrows
<1> DEFINE F1 == {"*"}
           F2 == {"*", "section"}
           F3 == {"*", "section", "generate"}
<1>1. IsFiniteSet(F1) /\ Cardinality(F1) = 1
  BY FS_Singleton
<1>2. IsFiniteSet(F2) /\ Cardinality(F2) = 2
  <2>1. F2 = F1 \cup {"section"} /\ "section" \notin F1
    OBVIOUS
  <2> HIDE DEF F1, F2
  <2> QED
    BY <1>1, <2>1, FS_AddElement
<1>3. IsFiniteSet(F3) /\ Cardinality(F3) = 3
  <2>1. F3 = F2 \cup {"generate"} /\ "generate" \notin F2
    OBVIOUS
  <2> HIDE DEF F2, F3
  <2> QED
    BY <1>2, <2>1, FS_AddElement
<1>4. IsFiniteSet(Filters) /\ Cardinality(Filters) = 4
  <2>1. Filters = F3 \cup {"cleanup"} /\ "cleanup" \notin F3
    BY DEF Filters, Jobs
  <2> HIDE DEF F3
  <2> QED
    BY <1>3, <2>1, FS_AddElement
<1> HIDE DEF F1, F2, F3
<1>5. IsFiniteSet(Methods \X Filters) /\ Cardinality(Methods \X Filters) = Cardinality(Methods) * Cardinality(Filters)
  BY <1>4, MethodsAssumption, FS_Product
<1>6. Cardinality(Methods) * 4 = 4 * Cardinality(Methods)
  BY MaxArrowsIsANumber
<1> QED
  BY <1>4, <1>5, <1>6 DEF Stations, MaxArrows

LEMMA PlacesHaveStations ==
    ASSUME NEW p \in AllPlaces
    PROVE  StationOf(p) \in Stations
BY DEF AllPlaces, StationOf, Stations

\* The arrows from places with one station lead to the same stations.
LEMMA LikeArrows ==
    ASSUME NEW F, NEW p \in AllPlaces, NEW r \in AllPlaces, StationOf(p) = StationOf(r),
           NEW q \in ArrowsFrom(F, p)
    PROVE  \E t \in ArrowsFrom(F, r) : StationOf(t) = StationOf(q)
<1>1. p.methodId = r.methodId /\ p.filter = r.filter
  BY DEF StationOf
<1>2. FactsAt(F, p) = FactsAt(F, r)
  BY <1>1 DEF FactsAt
<1>3. CASE CallsOn(F, p, q)
  <2>1. PICK f \in FactsAt(F, p) : f.channel = "call" /\ q = [p EXCEPT !.methodId = f.to[1], !.filter = "*"]
    BY <1>3 DEF CallsOn
  <2>2. PICK t : t = [r EXCEPT !.methodId = f.to[1], !.filter = "*"]
    OBVIOUS
  <2>3. t \in ArrowsFrom(F, r)
    BY <1>2, <2>1, <2>2, ArrowOf DEF CallsOn
  <2>4. q.methodId = t.methodId /\ q.filter = t.filter
    BY <2>1, <2>2 DEF AllPlaces
  <2> QED
    BY <2>3, <2>4 DEF StationOf
<1>4. CASE Enters(F, p, q)
  <2>1. PICK t : t = [r EXCEPT !.filter = "section", !.locked = TRUE]
    OBVIOUS
  <2>2. Enters(F, r, t)
    BY <1>1, <1>4, <2>1 DEF Enters
  <2>3. q.methodId = t.methodId /\ q.filter = t.filter
    BY <1>1, <1>4, <2>1 DEF Enters, AllPlaces
  <2> QED
    BY <2>2, <2>3, ArrowOf DEF StationOf
<1>5. CASE Crosses(F, p, q)
  <2>0. PICK f \in FactsAt(F, p) : \E m \in ToSet(f.to) \ doc.candidates :
           /\ IsInteraction(f)
           /\ q = [p EXCEPT !.methodId = m, !.filter = BranchFilter(f, m),
                            !.queued = @ \/ f.channel = "queue", !.timing = TimingOf(f, m)]
    BY <1>5 DEF Crosses, IsInteraction
  <2>1. PICK m \in ToSet(f.to) \ doc.candidates :
           /\ IsInteraction(f)
           /\ q = [p EXCEPT !.methodId = m, !.filter = BranchFilter(f, m),
                            !.queued = @ \/ f.channel = "queue", !.timing = TimingOf(f, m)]
    BY <2>0
  <2>2. PICK t : t = [r EXCEPT !.methodId = m, !.filter = BranchFilter(f, m),
                               !.queued = @ \/ f.channel = "queue", !.timing = TimingOf(f, m)]
    OBVIOUS
  <2>3. t \in ArrowsFrom(F, r)
    BY <1>2, <2>1, <2>2, ArrowOf DEF Crosses, IsInteraction
  <2>4. q.methodId = t.methodId /\ q.filter = t.filter
    BY <2>1, <2>2 DEF AllPlaces
  <2> QED
    BY <2>3, <2>4 DEF StationOf
<1> QED
  BY <1>3, <1>4, <1>5, ArrowOf

\* The places reached over F are all of them: where an arrow leads from one,
\* there is one of the same method and filter.
LEMMA PlacesSettle ==
    ASSUME ValidDocument, NEW F \in SUBSET Facts, NEW p \in Places(F), NEW q \in ArrowsFrom(F, p)
    PROVE  \E r \in Places(F) : StationOf(r) = StationOf(q)
<1> DEFINE N == MaxArrows
           A == Stations
           alike(W) == {r \in AllPlaces : StationOf(r) \in W}
           Onto(W) == W \cup StationsOf(UNION {ArrowsFrom(F, r) : r \in alike(W)})
           move == [W \in SUBSET A |-> Onto(W)]
<1>1. PICK within : Spans(F, within)
  BY PlacesSpan
<1>2. N \in Nat
  BY MaxArrowsIsANumber
<1> DEFINE w == [n \in 0..N |-> StationsOf(within[n])]
<1>3. \A places \in SUBSET AllPlaces : StationsOf(places) \in SUBSET A
  BY PlacesHaveStations DEF StationsOf
<1>4. w \in [0..N -> SUBSET A]
  BY <1>1, <1>3 DEF Spans
<1>5. \A W \in SUBSET A : Onto(W) \in SUBSET A
  <2>1. \A W : UNION {ArrowsFrom(F, r) : r \in alike(W)} \in SUBSET AllPlaces
    BY FewerArrows
  <2> HIDE DEF alike
  <2> QED
    BY <1>3, <2>1
<1>6. move \in [SUBSET A -> SUBSET A] /\ \A W \in SUBSET A : W \subseteq move[W]
  BY <1>5
<1>7. ASSUME NEW n \in 1..N PROVE w[n] = move[w[n - 1]]
  <2>1. n \in 0..N /\ n - 1 \in 0..N
    BY <1>2
  <2> DEFINE before == within[n - 1]
  <2>2. w[n] = StationsOf(Wider(F, before)) /\ w[n - 1] = StationsOf(before) /\ before \in SUBSET AllPlaces
    BY <1>1, <2>1 DEF Spans
  <2> HIDE DEF before, w
  <2>3. move[w[n - 1]] = Onto(StationsOf(before))
    BY <1>3, <2>2
  <2>4. ASSUME NEW s \in StationsOf(Wider(F, before)) PROVE s \in Onto(StationsOf(before))
    <3>1. PICK t \in Wider(F, before) : s = StationOf(t)
      BY <2>4 DEF StationsOf
    <3>2. CASE t \in before
      BY <3>1, <3>2 DEF StationsOf
    <3>3. CASE t \notin before
      <4>1. PICK r \in before : t \in ArrowsFrom(F, r)
        BY <3>1, <3>3 DEF Wider
      <4>2. r \in alike(StationsOf(before))
        BY <2>2 DEF StationsOf
      <4>3. t \in UNION {ArrowsFrom(F, r1) : r1 \in alike(StationsOf(before))}
        BY <4>1, <4>2
      <4> QED
        BY <3>1, <4>3 DEF StationsOf
    <3> QED
      BY <3>2, <3>3
  <2>5. ASSUME NEW s \in Onto(StationsOf(before)) PROVE s \in StationsOf(Wider(F, before))
    <3>1. CASE s \in StationsOf(before)
      BY <3>1 DEF StationsOf, Wider
    <3>2. CASE s \notin StationsOf(before)
      <4>1. PICK t \in UNION {ArrowsFrom(F, r) : r \in alike(StationsOf(before))} : s = StationOf(t)
        BY <2>5, <3>2 DEF StationsOf
      <4>2. PICK r \in alike(StationsOf(before)) : t \in ArrowsFrom(F, r)
        BY <4>1
      <4>3. PICK u \in before : StationOf(u) = StationOf(r) /\ u \in AllPlaces
        BY <2>2, <4>2 DEF StationsOf
      <4>4. PICK v \in ArrowsFrom(F, u) : StationOf(v) = StationOf(t)
        BY <4>2, <4>3, LikeArrows
      <4>5. v \in Wider(F, before)
        BY <4>3, <4>4 DEF Wider
      <4> QED
        BY <4>1, <4>4, <4>5 DEF StationsOf
    <3> QED
      BY <3>1, <3>2
  <2>6. StationsOf(Wider(F, before)) = Onto(StationsOf(before))
    <3> HIDE DEF Onto
    <3> QED
      BY <2>4, <2>5
  <2> HIDE DEF Onto, move
  <2> QED
    BY <2>2, <2>3, <2>6
<1>8. move[w[N]] = w[N]
  <2> DEFINE D == {}
  <2>1. A \ D = A /\ D \subseteq w[0]
    OBVIOUS
  <2>2. IsFiniteSet(A \ D) /\ Cardinality(A \ D) <= N
    BY <1>2, <2>1, StationsAreCounted
  <2>3. /\ N \in Nat /\ move \in [SUBSET A -> SUBSET A] /\ w \in [0..N -> SUBSET A]
        /\ \A W \in SUBSET A : W \subseteq move[W]
        /\ \A n \in 1..N : w[n] = move[w[n - 1]]
    <3> HIDE DEF A, move, w, N
    <3> QED
      BY <1>2, <1>4, <1>6, <1>7
  <2> HIDE DEF A, D, move, w, N
  <2>4. Adds(A, D, N, move, w)
    BY <2>1, <2>2, <2>3 DEF Adds
  <2> QED
    BY <2>4, StepsSettle
<1>9. /\ N \in 0..N /\ w[N] = StationsOf(Places(F)) /\ Places(F) = within[N]
      /\ Places(F) \in SUBSET AllPlaces
  BY <1>1, <1>2 DEF Spans
<1>10. StationOf(q) \in Onto(w[N])
  <2>1. p \in alike(w[N])
    BY <1>9 DEF StationsOf
  <2>2. q \in UNION {ArrowsFrom(F, r) : r \in alike(w[N])}
    BY <2>1
  <2> QED
    BY <2>2 DEF StationsOf
<1>11. StationOf(q) \in w[N]
  BY <1>4, <1>8, <1>9, <1>10
<1> QED
  BY <1>9, <1>11 DEF StationsOf
\* What holds at the roots and is kept by every arrow holds at every place.
LEMMA PlacesAreIn ==
    ASSUME ValidDocument, NEW F \in SUBSET Facts, NEW T,
           \A m \in ToSet(doc.implementations) : RootPlace(m) \in T,
           \A p \in AllPlaces \cap T : ArrowsFrom(F, p) \subseteq T
    PROVE  Places(F) \subseteq AllPlaces \cap T
<1>1. PICK within : Spans(F, within)
  BY PlacesSpan
<1> DEFINE N == MaxArrows
           U == {n \in 0..N : within[n] \subseteq AllPlaces \cap T}
<1>2. N \in Nat
  BY MaxArrowsIsANumber
<1>3. 0 \in U
  BY <1>1, <1>2 DEF Spans
<1>4. ASSUME NEW n \in 1..N, n - 1 \in U PROVE n \in U
  <2>1. n \in 0..N /\ within[n] = Wider(F, within[n - 1]) /\ within[n - 1] \subseteq AllPlaces \cap T
    BY <1>1, <1>2, <1>4 DEF Spans
  <2>2. \A p \in within[n - 1] : ArrowsFrom(F, p) \subseteq AllPlaces \cap T
    BY <2>1, FewerArrows
  <2> QED
    BY <2>1, <2>2 DEF Wider
<1> HIDE DEF U
<1>5. \A n \in 0..N : n \in U
  BY <1>2, <1>3, <1>4, CountingUp
<1> QED
  BY <1>1, <1>2, <1>5 DEF U, Spans

LEMMA PlacesAre ==
    ASSUME ValidDocument, NEW F \in SUBSET Facts
    PROVE  Places(F) \subseteq AllPlaces
<1>1. PICK within : Spans(F, within)
  BY PlacesSpan
<1> QED
  BY <1>1, MaxArrowsIsANumber, MaxArrows \in 0..MaxArrows DEF Spans

\* The roots are among the places.
LEMMA PlacesHaveRoots ==
    ASSUME ValidDocument, NEW F \in SUBSET Facts, NEW m \in ToSet(doc.implementations)
    PROVE  RootPlace(m) \in Places(F)
<1>1. PICK within : Spans(F, within)
  BY PlacesSpan
<1> DEFINE N == MaxArrows
           U == {n \in 0..N : RootPlace(m) \in within[n]}
<1>2. N \in Nat
  BY MaxArrowsIsANumber
<1>3. 0 \in U
  BY <1>1, <1>2 DEF Spans
<1>4. ASSUME NEW n \in 1..N, n - 1 \in U PROVE n \in U
  <2>1. n \in 0..N /\ within[n] = Wider(F, within[n - 1]) /\ RootPlace(m) \in within[n - 1]
    BY <1>1, <1>2, <1>4 DEF Spans
  <2> QED
    BY <2>1 DEF Wider
<1> HIDE DEF U
<1>5. \A n \in 0..N : n \in U
  BY <1>2, <1>3, <1>4, CountingUp
<1> QED
  BY <1>1, <1>2, <1>5 DEF U, Spans

\* A section is entered from the body of its method.
LEMMA SectionsAreEntered ==
    ASSUME ValidDocument, NEW F \in SUBSET Facts, NEW p \in Places(F), p.filter = "section"
    PROVE  \E r \in Places(F) : r.methodId = p.methodId /\ r.filter = "*"
<1>1. PICK within : Spans(F, within)
  BY PlacesSpan
<1> DEFINE N == MaxArrows
           Opened(places) == \A r \in places : r.filter = "section" =>
               \E t \in places : t.methodId = r.methodId /\ t.filter = "*"
           U == {n \in 0..N : Opened(within[n])}
<1>2. N \in Nat
  BY MaxArrowsIsANumber
<1>3. 0 \in U
  BY <1>1, <1>2 DEF Spans, RootPlace
<1>4. ASSUME NEW n \in 1..N, n - 1 \in U PROVE n \in U
  <2>1. /\ n \in 0..N /\ n - 1 \in 0..N /\ Opened(within[n - 1])
        /\ within[n] = Wider(F, within[n - 1]) /\ within[n - 1] \subseteq AllPlaces
    BY <1>1, <1>2, <1>4 DEF Spans
  <2>2. ASSUME NEW r \in within[n - 1], NEW q \in ArrowsFrom(F, r), q.filter = "section"
        PROVE  q.methodId = r.methodId /\ r.filter = "*"
    <3>1. ~CallsOn(F, r, q)
      BY <2>1, <2>2 DEF CallsOn, AllPlaces
    <3>2. ~Crosses(F, r, q)
      <4> SUFFICES ASSUME NEW f \in FactsAt(F, r), NEW m,
                          q = [r EXCEPT !.methodId = m, !.filter = BranchFilter(f, m),
                                        !.queued = @ \/ f.channel = "queue", !.timing = TimingOf(f, m)]
                   PROVE  FALSE
        BY DEF Crosses, IsInteraction
      <4>1. q.filter = BranchFilter(f, m)
        BY <2>1 DEF AllPlaces
      <4>2. f.job \in Jobs
        BY FactsAreTyped DEF FactsAt
      <4> QED
        BY <2>2, <4>1, <4>2 DEF BranchFilter, Jobs
    <3>3. Enters(F, r, q)
      BY <3>1, <3>2, ArrowOf
    <3> QED
      BY <2>1, <3>3 DEF Enters, AllPlaces
  <2>3. Opened(Wider(F, within[n - 1]))
    <3> SUFFICES ASSUME NEW q \in Wider(F, within[n - 1]), q.filter = "section"
                 PROVE  \E t \in Wider(F, within[n - 1]) : t.methodId = q.methodId /\ t.filter = "*"
      OBVIOUS
    <3>1. within[n - 1] \subseteq Wider(F, within[n - 1])
      BY DEF Wider
    <3>2. CASE q \in within[n - 1]
      BY <2>1, <3>1, <3>2
    <3>3. CASE q \notin within[n - 1]
      <4>1. PICK r \in within[n - 1] : q \in ArrowsFrom(F, r)
        BY <3>3 DEF Wider
      <4> QED
        BY <2>2, <3>1, <4>1
    <3> QED
      BY <3>2, <3>3
  <2> HIDE DEF Opened
  <2> QED
    BY <2>1, <2>3
<1> HIDE DEF U
<1>5. \A n \in 0..N : n \in U
  BY <1>2, <1>3, <1>4, CountingUp
<1> QED
  BY <1>1, <1>2, <1>5 DEF U, Spans

-----------------------------------------------------------------------------
(***************************************************************************)
(* What counts as reached is certain.                                      *)
(***************************************************************************)
Made(F) == UNION {FactsAt(F, p) : p \in Places(F)}

\* The methods that are entered, and those of the handlers that are matched.
NamedOver(F) == {p.methodId : p \in Places(F)} \cup UNION {ToSet(f.to) : f \in {f \in Made(F) : IsInteraction(f)}}

LEMMA CertainFacts == Certain \in SUBSET Facts
BY DEF Certain, Resolved

\* A method that is named and walked is entered.
LEMMA NamedAreEntered ==
    ASSUME TraceInv, doc.candidates \cap Reached = {}, NEW F \in SUBSET Facts,
           NEW m \in NamedOver(F) \cap Reached
    PROVE  \E p \in Places(F) : p.methodId = m
<1>1. ValidDocument
  BY DEF TraceInv
<1>2. CASE m \in {p.methodId : p \in Places(F)}
  BY <1>2
<1>3. CASE m \notin {p.methodId : p \in Places(F)}
  <2>0. m \in UNION {ToSet(f.to) : f \in {f \in Made(F) : IsInteraction(f)}}
    BY <1>3 DEF NamedOver
  <2>1. PICK f \in Made(F) : IsInteraction(f) /\ m \in ToSet(f.to)
    BY <2>0
  <2>2. PICK p \in Places(F) : f \in FactsAt(F, p)
    BY <2>1 DEF Made
  <2>3. m \notin doc.candidates
    OBVIOUS
  <2>4. PICK q : q = [p EXCEPT !.methodId = m, !.filter = BranchFilter(f, m),
                               !.queued = @ \/ f.channel = "queue", !.timing = TimingOf(f, m)]
    OBVIOUS
  <2>5. q \in ArrowsFrom(F, p)
    BY <2>1, <2>2, <2>3, <2>4, ArrowOf DEF Crosses, IsInteraction
  <2>6. p \in AllPlaces
    BY <1>1, PlacesAre
  <2>7. q.methodId = m
    BY <2>4, <2>6 DEF AllPlaces
  <2>8. PICK r \in Places(F) : StationOf(r) = StationOf(q)
    BY <1>1, <2>5, PlacesSettle
  <2> QED
    BY <2>7, <2>8 DEF StationOf
<1> QED
  BY <1>2, <1>3

\* A certain fact that is recorded of a named method is made.
LEMMA RecordedAreMade ==
    ASSUME TraceInv, doc.candidates \cap Reached = {}, ~EnteredInTwoWays(Places(Certain)),
           NEW i \in DOMAIN queue, NEW f \in Direct(queue[i]), f.status = "resolved",
           f.from \in NamedOver(Certain)
    PROVE  \E p \in Places(Certain) : f \in FactsAt(Certain, p)
<1> DEFINE s == queue[i]
<1>1. ValidDocument /\ Certain \in SUBSET Facts /\ s \in States
  BY CertainFacts, QueueIsTyped
<1>2. f \in Facts /\ f \in Certain /\ f.from = s.methodId /\ Applies(f, s.filter)
  BY DEF Direct, FactsOf, Facts, Certain, Resolved
<1>3. f.region \in RegionsOf(s.filter)
  BY <1>1, <1>2, FactsAreTyped DEF Applies, RegionsOf
<1>4. s.methodId \in NamedOver(Certain) \cap Reached
  BY <1>2 DEF Reached
<1>5. PICK p \in Places(Certain) : p.methodId = s.methodId
  BY <1>1, <1>4, NamedAreEntered
<1>6. p \in AllPlaces
  BY <1>1, PlacesAre
<1>7. CASE s.filter = p.filter
  BY <1>2, <1>3, <1>5, <1>7 DEF FactsAt
<1>8. CASE s.filter # p.filter
  <2>1. {s.filter, p.filter} \cap Jobs = {}
    BY <1>5, <1>8 DEF EnteredInTwoWays
  <2>2. s.filter \in Filters /\ p.filter \in Filters
    BY <1>1, <1>6 DEF States, AllPlaces
  <2>3. CASE s.filter = "*" /\ p.filter = "section"
    <3>1. PICK r \in Places(Certain) : r.methodId = p.methodId /\ r.filter = "*"
      BY <1>1, <2>3, SectionsAreEntered
    <3> QED
      BY <1>2, <1>3, <1>5, <2>3, <3>1 DEF FactsAt
  <2>4. CASE s.filter = "section" /\ p.filter = "*"
    <3>1. f.region = "section"
      BY <1>3, <2>4 DEF RegionsOf
    <3>2. PICK q : q = [p EXCEPT !.filter = "section", !.locked = TRUE]
      OBVIOUS
    <3>3. q \in ArrowsFrom(Certain, p)
      BY <1>2, <1>5, <2>4, <3>1, <3>2, ArrowOf DEF Enters
    <3>4. PICK r \in Places(Certain) : StationOf(r) = StationOf(q)
      BY <1>1, <3>3, PlacesSettle
    <3>5. q.methodId = p.methodId /\ q.filter = "section"
      BY <1>6, <3>2 DEF AllPlaces
    <3>6. r.methodId = f.from /\ r.filter = "section"
      BY <1>2, <1>5, <3>4, <3>5 DEF StationOf
    <3> QED
      BY <1>2, <3>1, <3>6 DEF FactsAt, RegionsOf
  <2> QED
    BY <1>8, <2>1, <2>2, <2>3, <2>4 DEF Filters
<1> QED
  BY <1>7, <1>8
\* What a certain call leads to is entered.
LEMMA CalledIsNamed ==
    ASSUME ValidDocument, NEW F \in SUBSET Facts, NEW p \in Places(F),
           NEW f \in FactsAt(F, p), f.channel = "call"
    PROVE  f.to[1] \in NamedOver(F)
<1>1. PICK q : q = [p EXCEPT !.methodId = f.to[1], !.filter = "*"]
  OBVIOUS
<1>2. q \in ArrowsFrom(F, p)
  BY <1>1, ArrowOf DEF CallsOn
<1>3. PICK r \in Places(F) : StationOf(r) = StationOf(q)
  BY <1>2, PlacesSettle
<1>4. q.methodId = f.to[1]
  BY <1>1, PlacesAre DEF AllPlaces
<1>5. r.methodId = f.to[1]
  BY <1>3, <1>4 DEF StationOf
<1> QED
  BY <1>5 DEF NamedOver

\* What is reached over resolved steps: named methods and handlers, and what
\* is made.
Fits(r) ==
    /\ r[1] \in {"method", "handler"} => r[2] \in NamedOver(Certain)
    /\ r[1] = "interaction" => r[2] \in Made(Certain)
    /\ r[1] = "table" => \E f \in Made(Certain) : f.channel = "table"

LEMMA RootFits ==
    ASSUME TraceInv, Selection = "resolved"
    PROVE  Fits(Root)
<1>1. CASE doc.root = "endpoint"
  BY <1>1 DEF Root, Fits
<1>2. CASE doc.root # "endpoint"
  <2> DEFINE m == doc.implementations[1]
  <2>1. ValidDocument /\ Certain \in SUBSET Facts
    BY CertainFacts DEF TraceInv
  <2>2. m \in ToSet(doc.implementations)
    <3>1. doc.implementations \in Seq(Methods) /\ doc.implementations # <<>>
      BY <2>1 DEF ValidDocument, Selection
    <3>2. 1 \in DOMAIN doc.implementations
      BY <3>1, EmptySeq, LenProperties
    <3> QED
      BY <3>2 DEF ToSet
  <2> HIDE DEF m
  <2>3. RootPlace(m) \in Places(Certain) /\ RootPlace(m).methodId = m
    BY <2>1, <2>2, PlacesHaveRoots DEF RootPlace
  <2>4. m \in NamedOver(Certain)
    BY <2>3 DEF NamedOver
  <2>5. Root = <<"handler", m>>
    BY <1>2 DEF Root, m
  <2> QED
    BY <2>4, <2>5 DEF Fits
<1> QED
  BY <1>1, <1>2

LEMMA StepsFit ==
    ASSUME TraceInv, doc.candidates \cap Reached = {}, ~EnteredInTwoWays(Places(Certain)),
           NEW s \in Steps, s.status = "resolved", Fits(s.source)
    PROVE  Fits(s.target)
<1>1. ValidDocument /\ Certain \in SUBSET Facts
  BY CertainFacts DEF TraceInv
<1>2. ASSUME NEW m \in ToSet(doc.implementations), s = Implements(Root, m) PROVE Fits(s.target)
  <2>1. RootPlace(m) \in Places(Certain) /\ RootPlace(m).methodId = m
    BY <1>1, PlacesHaveRoots DEF RootPlace
  <2>2. s.target = <<"method", m>> /\ m \in NamedOver(Certain)
    BY <1>2, <2>1 DEF Implements, Step, NamedOver
  <2> QED
    BY <2>2 DEF Fits
<1>3. ASSUME NEW i \in DOMAIN queue, NEW f \in Recorded(queue[i]), s = FactStep(f) PROVE Fits(s.target)
  <2>1. /\ s.source = <<"method", f.from>> /\ s.target = TargetOf(f) /\ s.status = f.status
    BY <1>3 DEF FactStep, Step
  <2>2. f \in Direct(queue[i]) /\ f.channel \in {"sync", "async", "queue", "table", "call"}
    BY DEF Recorded, Interactions, TableAccesses, Calls
  <2>3. f.from \in NamedOver(Certain)
    BY <2>1 DEF Fits
  <2>4. PICK p \in Places(Certain) : f \in FactsAt(Certain, p)
    BY <2>1, <2>2, <2>3, RecordedAreMade
  <2>5. f \in Made(Certain)
    BY <2>4 DEF Made
  <2>6. CASE f.channel = "call"
    BY <1>1, <2>1, <2>4, <2>6, CalledIsNamed, TargetsAre DEF Fits
  <2>7. CASE f.channel = "table"
    BY <2>1, <2>5, <2>7, TargetsAre DEF Fits
  <2>8. CASE IsInteraction(f)
    BY <2>1, <2>5, <2>8, TargetsAre DEF Fits
  <2> QED
    BY <2>2, <2>6, <2>7, <2>8 DEF IsInteraction
<1>4. ASSUME NEW i \in DOMAIN queue, NEW f \in Recorded(queue[i]), IsInteraction(f),
             NEW m \in ToSet(Matches(f)), s = MatchStep(f, m)
      PROVE  Fits(s.target)
  <2>1. s.source = <<"interaction", f>> /\ s.target = <<"handler", m>>
    BY <1>4 DEF MatchStep, Step
  <2>2. f \in Made(Certain) /\ f \in Facts
    BY <2>1 DEF Fits, Recorded, Interactions, TableAccesses, Calls, Direct, FactsOf, Facts
  <2>3. m \in ToSet(f.to)
    <3>1. PICK n \in DOMAIN Matches(f) : m = Matches(f)[n]
      BY DEF ToSet
    <3>2. DOMAIN Matches(f) = 1..Len(Matches(f))
      BY <1>1, <2>2, MatchesAre, LenProperties
    <3> QED
      BY <1>1, <2>2, <3>1, <3>2, MatchesAre
  <2>4. m \in NamedOver(Certain)
    <3>1. f \in {g \in Made(Certain) : IsInteraction(g)}
      BY <1>4, <2>2
    <3>2. m \in UNION {ToSet(g.to) : g \in {g \in Made(Certain) : IsInteraction(g)}}
      BY <2>3, <3>1
    <3> QED
      BY <3>2 DEF NamedOver
  <2> QED
    BY <2>1, <2>4 DEF Fits
<1>5. ASSUME NEW m, s = Implements(<<"handler", m>>, m) PROVE Fits(s.target)
  <2>1. s.source = <<"handler", m>> /\ s.target = <<"method", m>>
    BY <1>5 DEF Implements, Step
  <2> QED
    BY <2>1 DEF Fits
<1>6. ASSUME NEW m, s = LockStep(m) PROVE Fits(s.target)
  <2>1. s.target = <<"lock", m>>
    BY <1>6 DEF LockStep, Step
  <2> QED
    BY <2>1 DEF Fits
<1> QED
  BY <1>2, <1>3, <1>4, <1>5, <1>6, StepsCome

\* What counts as reached is on a walk of certain facts, or is the method of a
\* handler that is matched there.
LEMMA ReachedAreCertain ==
    ASSUME TraceInv, Selection = "resolved", doc.candidates \cap Reached = {},
           ~EnteredInTwoWays(Places(Certain))
    PROVE  \A r \in Closure(ResolvedSteps(Steps)) : Fits(r)
<1> DEFINE S == ResolvedSteps(Steps)
           L == {r \in Ends(Root, S) : Fits(r)}
<1>1. S \subseteq Steps /\ \A s \in S : s.status = "resolved"
  BY DEF ResolvedSteps
<1>2. IsFiniteSet(S)
  BY <1>1, StepsAreFinite, FS_Subset
<1> HIDE DEF S
<1>3. Root \in L
  BY RootFits DEF Ends
<1>4. ASSUME NEW s \in S, s.source \in L PROVE s.target \in L
  BY <1>1, <1>4, StepsFit DEF Ends
<1>5. ClosureFrom(Root, S) \subseteq L
  <2> HIDE DEF L
  <2> QED
    BY <1>2, <1>3, <1>4, ClosureIsLeast
<1> QED
  BY <1>5 DEF Closure, S
\* What the resolved steps of the trace reach.
Counted == Closure(ResolvedSteps(Steps))

\* A resolved step from what is reached leads to what is reached.
LEMMA CountedIsClosed ==
    ASSUME TraceInv
    PROVE  /\ Root \in Counted
           /\ \A s \in Steps : s.status = "resolved" /\ s.source \in Counted => s.target \in Counted
<1> DEFINE S == ResolvedSteps(Steps)
<1>1. S \subseteq Steps /\ \A s \in Steps : s.status = "resolved" => s \in S
  BY DEF ResolvedSteps
<1>2. IsFiniteSet(S)
  BY <1>1, StepsAreFinite, FS_Subset
<1> HIDE DEF S
<1>3. /\ Root \in ClosureFrom(Root, S)
      /\ \A s \in S : s.source \in ClosureFrom(Root, S) => s.target \in ClosureFrom(Root, S)
  BY <1>2, ClosureIs
<1> QED
  BY <1>1, <1>3 DEF Counted, Closure, S

\* The certain facts of a covered place are recorded, if nothing was reported.
LEMMA CoveredAreRecorded ==
    ASSUME TraceInv, PublishedComplete, NEW p, StoodAt(p), NEW f \in FactsAt(Certain, p)
    PROVE  /\ \E i \in DOMAIN queue : f \in Recorded(queue[i])
           /\ f.status = "resolved" /\ f.from = p.methodId /\ f \in Facts
           /\ IsInteraction(f) => ~(Len(f.to) > Limits.fanOut)
<1>1. PICK i \in 1..Len(queue) : queue[i].methodId = p.methodId /\ queue[i].filter = p.filter
  BY DEF StoodAt
<1> DEFINE s == queue[i]
<1>2. f \in Facts /\ f.status = "resolved" /\ f.from = s.methodId /\ f.region \in RegionsOf(s.filter)
  BY <1>1 DEF FactsAt, Certain, Resolved
<1>3. f.region \in RegionsOf(s.filter) => Applies(f, s.filter)
  BY DEF Applies, RegionsOf, Jobs
<1>4. f \in Direct(s)
  BY <1>2, <1>3 DEF Direct, FactsOf, Facts
<1>5. f.channel \in {"call", "table", "sync", "async", "queue"}
  BY <1>2, FactsAreTyped DEF TraceInv
<1>6. CASE f.channel = "call"
  <2>1. f \in Calls(s)
    BY <1>4, <1>6 DEF Calls
  <2>2. s.depth < Limits.depth
    BY <2>1, NothingIsMissing
  <2> QED
    BY <1>1, <1>2, <1>6, <2>1, <2>2, QueueIsTyped DEF Recorded, IsInteraction
<1>7. CASE f.channel = "table"
  BY <1>1, <1>2, <1>4, <1>7, QueueIsTyped DEF Recorded, TableAccesses, IsInteraction
<1>8. CASE f.channel \in {"sync", "async", "queue"}
  <2>1. f \in Interactions(s)
    BY <1>4, <1>8 DEF Interactions
  <2>2. ~(Len(f.to) > Limits.fanOut)
    BY <2>1, NothingIsMissing
  <2> QED
    BY <1>1, <1>2, <2>1, <2>2, QueueIsTyped DEF Recorded
<1> QED
  BY <1>5, <1>6, <1>7, <1>8

LEMMA RecordedAreSteps ==
    ASSUME NEW i \in DOMAIN queue, NEW f \in Recorded(queue[i])
    PROVE  /\ FactStep(f) \in Steps
           /\ IsInteraction(f) => \A m \in ToSet(Matches(f)) :
                 MatchStep(f, m) \in Steps /\ Implements(<<"handler", m>>, m) \in Steps
<1>1. StepsOf(f) \subseteq Steps
  BY DEF Steps
<1>2. FactStep(f) \in StepsOf(f)
  BY DEF StepsOf, FactStep
<1>3. ASSUME IsInteraction(f), NEW m \in ToSet(Matches(f))
      PROVE  MatchStep(f, m) \in StepsOf(f) /\ Implements(<<"handler", m>>, m) \in StepsOf(f)
  BY <1>3 DEF StepsOf, MatchStep
<1> QED
  BY <1>1, <1>2, <1>3

\* The target of a certain fact of a reached place is reached, and so are the
\* handlers of an interaction.
LEMMA FactsAreCounted ==
    ASSUME TraceInv, PublishedComplete, NEW p, StoodAt(p), <<"method", p.methodId>> \in Counted,
           NEW f \in FactsAt(Certain, p)
    PROVE  /\ TargetOf(f) \in Counted
           /\ IsInteraction(f) => \A m \in ToSet(f.to) : <<"method", m>> \in Counted
<1>1. PICK i \in DOMAIN queue : f \in Recorded(queue[i])
  BY CoveredAreRecorded
<1>2. /\ f.status = "resolved" /\ f.from = p.methodId /\ f \in Facts
      /\ IsInteraction(f) => ~(Len(f.to) > Limits.fanOut)
  BY CoveredAreRecorded
<1>3. TargetOf(f) \in Counted
  <2>1. FactStep(f) \in Steps
    BY <1>1, RecordedAreSteps
  <2>2. /\ FactStep(f).status = "resolved" /\ FactStep(f).target = TargetOf(f)
        /\ FactStep(f).source = <<"method", p.methodId>>
    BY <1>2 DEF FactStep, Step
  <2> QED
    BY <2>1, <2>2, CountedIsClosed
<1>4. ASSUME IsInteraction(f), NEW m \in ToSet(f.to) PROVE <<"method", m>> \in Counted
  <2>1. m \in ToSet(Matches(f))
    <3>1. PICK n \in 1..Len(Matches(f)) : Matches(f)[n] = m
      BY <1>2, <1>4, MatchesAre DEF TraceInv
    <3>2. DOMAIN Matches(f) = 1..Len(Matches(f))
      BY <1>2, MatchesAre, LenProperties DEF TraceInv
    <3> QED
      BY <3>1, <3>2 DEF ToSet
  <2>2. MatchStep(f, m) \in Steps /\ Implements(<<"handler", m>>, m) \in Steps
    BY <1>1, <1>4, <2>1, RecordedAreSteps
  <2>3. <<"interaction", f>> \in Counted
    BY <1>3, <1>4, TargetsAre
  <2>4. /\ MatchStep(f, m).status = "resolved" /\ MatchStep(f, m).source = <<"interaction", f>>
        /\ MatchStep(f, m).target = <<"handler", m>>
        /\ Implements(<<"handler", m>>, m).status = "resolved"
        /\ Implements(<<"handler", m>>, m).source = <<"handler", m>>
        /\ Implements(<<"handler", m>>, m).target = <<"method", m>>
    BY DEF MatchStep, Implements, Step
  <2>5. <<"handler", m>> \in Counted
    BY <2>2, <2>3, <2>4, CountedIsClosed
  <2> QED
    BY <2>2, <2>4, <2>5, CountedIsClosed
<1> QED
  BY <1>3, <1>4

\* A trace without diagnostics that passed no handler over counts all that is
\* certain.
LEMMA CertainAreCounted ==
    ASSUME TraceInv, PublishedComplete, BranchesAreDispatched, ~SomePassedOver
    PROVE  /\ \A p \in Places(Certain) : <<"method", p.methodId>> \in Counted
           /\ \A f \in Made(Certain) : f.channel = "table" => <<"table">> \in Counted
<1> DEFINE T == {p \in AllPlaces : StoodAt(p) /\ <<"method", p.methodId>> \in Counted}
<1>1. ValidDocument /\ Certain \in SUBSET Facts
  BY CertainFacts DEF TraceInv
<1>2. ASSUME NEW m \in ToSet(doc.implementations) PROVE RootPlace(m) \in T
  <2>1. RootPlace(m) \in AllPlaces /\ RootPlace(m).methodId = m /\ RootPlace(m).filter = "*"
    BY <1>1, RootsArePlaces DEF RootPlace
  <2>2. StoodAt(RootPlace(m))
    BY <2>1, NothingIsMissing DEF StoodAt
  <2>3. Implements(Root, m) \in Steps
    BY DEF Steps
  <2>4. /\ Implements(Root, m).status = "resolved" /\ Implements(Root, m).source = Root
        /\ Implements(Root, m).target = <<"method", m>>
    BY DEF Implements, Step
  <2>5. <<"method", m>> \in Counted
    BY <2>3, <2>4, CountedIsClosed
  <2> QED
    BY <2>1, <2>2, <2>5
<1>3. ASSUME NEW p \in AllPlaces \cap T, NEW q \in ArrowsFrom(Certain, p) PROVE q \in T
  <2>1. StoodAt(p) /\ <<"method", p.methodId>> \in Counted
    OBVIOUS
  <2>2. q \in ArrowsFrom(Facts, p) /\ q \in AllPlaces
    BY <1>1, FewerArrows
  <2>3. StoodAt(q)
    BY <2>1, <2>2, ArrowsAreCovered
  <2>4. CASE CallsOn(Certain, p, q)
    <3>1. PICK f \in FactsAt(Certain, p) : f.channel = "call" /\ q = [p EXCEPT !.methodId = f.to[1], !.filter = "*"]
      BY <2>4 DEF CallsOn
    <3>2. q.methodId = f.to[1]
      BY <3>1 DEF AllPlaces
    <3>3. TargetOf(f) = <<"method", f.to[1]>> /\ TargetOf(f) \in Counted
      BY <2>1, <3>1, FactsAreCounted, TargetsAre
    <3> QED
      BY <2>2, <2>3, <3>2, <3>3
  <2>5. CASE Enters(Certain, p, q)
    <3>1. q.methodId = p.methodId
      BY <2>5 DEF Enters, AllPlaces
    <3> QED
      BY <2>1, <2>2, <2>3, <3>1
  <2>6. CASE Crosses(Certain, p, q)
    <3>1. PICK f \in FactsAt(Certain, p) : \E m \in ToSet(f.to) \ doc.candidates :
             /\ IsInteraction(f)
             /\ q = [p EXCEPT !.methodId = m, !.filter = BranchFilter(f, m),
                              !.queued = @ \/ f.channel = "queue", !.timing = TimingOf(f, m)]
      BY <2>6 DEF Crosses, IsInteraction
    <3>2. IsInteraction(f) /\ q.methodId \in ToSet(f.to)
      BY <3>1 DEF AllPlaces
    <3>3. <<"method", q.methodId>> \in Counted
      BY <2>1, <3>2, FactsAreCounted
    <3> QED
      BY <2>2, <2>3, <3>3
  <2> QED
    BY <1>1, <2>4, <2>5, <2>6, ArrowOf
<1>4. Places(Certain) \subseteq AllPlaces \cap T
  <2> HIDE DEF T
  <2> QED
    BY <1>1, <1>2, <1>3, PlacesAreIn
<1>5. ASSUME NEW f \in Made(Certain), f.channel = "table" PROVE <<"table">> \in Counted
  <2>1. PICK p \in Places(Certain) : f \in FactsAt(Certain, p)
    BY DEF Made
  <2>2. StoodAt(p) /\ <<"method", p.methodId>> \in Counted
    BY <1>4
  <2>3. TargetOf(f) = <<"table">> /\ TargetOf(f) \in Counted
    BY <1>5, <2>1, <2>2, FactsAreCounted, TargetsAre
  <2> QED
    BY <2>3
<1> QED
  BY <1>4, <1>5
\* What is counted stays while nothing changes.
LEMMA ReachStays ==
    ASSUME UNCHANGED vars
    PROVE  ReachedRecords' = ReachedRecords
<1>1. doc' = doc /\ queue' = queue
  BY DEF vars
<1>2. Selection' = Selection /\ Root' = Root
  BY <1>1 DEF Selection, Root
<1>3. \A s : /\ Interactions(s)' = Interactions(s) /\ Calls(s)' = Calls(s)
             /\ TableAccesses(s)' = TableAccesses(s) /\ HasSection(s)' = HasSection(s)
  BY <1>1 DEF Interactions, Calls, TableAccesses, Direct, FactsOf, HasSection
<1>4. \A s : Recorded(s)' = Recorded(s)
  BY <1>1, <1>3 DEF Recorded, Limits
<1>5. \A f : Matches(f)' = Matches(f)
  BY <1>1 DEF Matches, Limits
<1>6. \A f : StepsOf(f)' = StepsOf(f)
  BY <1>5 DEF StepsOf, TargetOf, IsInteraction, Implements, Step
<1>7. \A s : StepsOfState(s)' = StepsOfState(s)
  BY <1>4, <1>6 DEF StepsOfState
<1>8. LockSteps' = LockSteps
  BY <1>1, <1>3 DEF LockSteps, Step
<1>9. \A m : Implements(Root, m)' = Implements(Root, m)
  BY <1>2 DEF Implements, Step
<1>10. Steps' = Steps
  <2> DEFINE roots == {Implements(Root, m) : m \in ToSet(doc.implementations)}
             walked == UNION {StepsOfState(queue[i]) : i \in DOMAIN queue}
  <2>1. Steps = roots \cup walked \cup LockSteps
    BY DEF Steps, StepsOfState
  <2>2. Steps' = roots' \cup walked' \cup LockSteps'
    BY DEF Steps, StepsOfState
  <2>3. roots' = roots
    BY <1>1, <1>9
  <2>4. walked' = walked
    BY <1>1, <1>7
  <2> HIDE DEF roots, walked
  <2> QED
    BY <1>8, <2>1, <2>2, <2>3, <2>4
<1>11. ResolvedSteps(Steps)' = ResolvedSteps(Steps)
  BY <1>10 DEF ResolvedSteps
<1>12. \A S : ClosureFrom(Root, S)' = ClosureFrom(Root, S)
  BY <1>2
<1> QED
  BY <1>2, <1>11, <1>12 DEF ReachedRecords, Closure

-----------------------------------------------------------------------------
(***************************************************************************)
(* What a report tells, of whatever input it is drawn from.                *)
(***************************************************************************)
Tells(r, x) ==
    /\ r.state = "published" => r.reached = ReachedRecords
    /\ r.state = "invalid" => Repeats(x) \/ (Selection # "resolved" /\ FlowsOf(x) # {})
    /\ r.state = "published" /\ Selection = "resolved" /\ r.scene.omitted.edges = 0 =>
          /\ r.scene.omitted.nodes = 0
          /\ {<<"method", m>> : m \in Entered} \subseteq Closure(ToSet(r.scene.edges))
          /\ \A i \in DOMAIN queue : \A f \in TableAccesses(queue[i]) :
                \E e \in ToSet(r.scene.edges) :
                    /\ e.target = <<"table">> /\ e.source \in Closure(ToSet(r.scene.edges))
                    /\ e.source = <<IF f.region = "section" THEN "section" ELSE "method", f.from>>

LEMMA DrawingTells ==
    ASSUME TraceInv, NEW x \in GraphInputs
    PROVE  Tells(Drawing(x), x)
<1> DEFINE r == Drawing(x)
<1>1. ASSUME r.state = "invalid" PROVE Repeats(x) \/ (Selection # "resolved" /\ FlowsOf(x) # {})
  <2>1. ~ValidScene(Scene(x), x)
    BY <1>1 DEF Drawing
  <2> QED
    BY <2>1, SceneIsValid
<1>2. ASSUME r.state = "published", Selection = "resolved", r.scene.omitted.edges = 0
      PROVE  /\ r.scene.omitted.nodes = 0
             /\ {<<"method", m>> : m \in Entered} \subseteq Closure(ToSet(r.scene.edges))
             /\ \A i \in DOMAIN queue : \A f \in TableAccesses(queue[i]) :
                   \E e \in ToSet(r.scene.edges) :
                       /\ e.target = <<"table">> /\ e.source \in Closure(ToSet(r.scene.edges))
                       /\ e.source = <<IF f.region = "section" THEN "section" ELSE "method", f.from>>
  <2>1. r.scene = Scene(x)
    BY <1>2 DEF Drawing
  <2> HIDE DEF r
  <2>2. Scene(x).omitted.edges = 0
    BY <1>2, <2>1
  <2>3. /\ Scene(x).omitted.nodes = 0
        /\ TraceEdges(x) \subseteq ToSet(Scene(x).edges) /\ IsFiniteSet(ToSet(Scene(x).edges))
    BY <2>2, SceneIsWhole
  <2> DEFINE E == ToSet(Scene(x).edges)
  <2>4. ToSet(r.scene.edges) = E
    BY <2>1
  <2> HIDE DEF E
  <2> QED
    BY <1>2, <2>1, <2>3, <2>4, ScenesLead DEF E
<1>3. r.state = "published" => r.reached = ReachedRecords
  BY DEF Drawing
<1> HIDE DEF r
<1> QED
  BY <1>1, <1>2, <1>3 DEF Tells, r

LEMMA TellsStays ==
    ASSUME UNCHANGED vars, NEW r, NEW x
    PROVE  Tells(r, x)' <=> Tells(r, x)
<1>1. doc' = doc /\ queue' = queue
  BY DEF vars
<1>2. Selection' = Selection /\ Root' = Root
  BY <1>1 DEF Selection, Root
<1>3. FlowsOf(x)' = FlowsOf(x)
  BY <1>1 DEF FlowsOf
<1>4. Repeats(x)' <=> Repeats(x)
  BY <1>3 DEF Repeats
<1>5. ASSUME NEW E PROVE Closure(E)' = Closure(E)
  BY <1>2 DEF Closure
<1>6. \A s : /\ Interactions(s)' = Interactions(s) /\ Calls(s)' = Calls(s)
             /\ TableAccesses(s)' = TableAccesses(s)
  BY <1>1 DEF Interactions, Calls, TableAccesses, Direct, FactsOf
<1>7. \A s : Recorded(s)' = Recorded(s)
  BY <1>1, <1>6 DEF Recorded, Limits
<1>8. \A f : Matches(f)' = Matches(f)
  BY <1>1 DEF Matches, Limits
<1>9. Reached' = Reached
  BY <1>1 DEF Reached
<1>10. Entered' = Entered
  <2> DEFINE crossed(i) == UNION {ToSet(Matches(f)) : f \in {f \in Recorded(queue[i]) : IsInteraction(f)}}
  <2>1. \A i : crossed(i)' = crossed(i)
    BY <1>1, <1>7, <1>8 DEF IsInteraction
  <2>2. Entered = Reached \cup UNION {crossed(i) : i \in DOMAIN queue}
    BY DEF Entered
  <2>3. Entered' = Reached' \cup UNION {crossed(i)' : i \in DOMAIN queue'}
    BY DEF Entered
  <2> HIDE DEF crossed
  <2> QED
    BY <1>1, <1>9, <2>1, <2>2, <2>3
<1> QED
  BY <1>1, <1>2, <1>3, <1>4, <1>5, <1>6, <1>10, ReachStays DEF Tells

\* A report is drawn when the trace is over, and then nothing changes.
GraphInv ==
    /\ TraceInv
    /\ report # NotDrawn =>
          /\ pc \in {"done"} \cup Refusals
          /\ \E x \in GraphInputs : \E r : drawing = x /\ report = r /\ Tells(r, x)

LEMMA DrawingKeeps == GraphInv /\ [GraphNext]_graphVars => GraphInv'
<1> SUFFICES ASSUME GraphInv, [GraphNext]_graphVars PROVE GraphInv'
  OBVIOUS
<1>1. [TracesNext]_vars
  BY DEF GraphNext, DrawGraph, PolicyNext, CheckPolicies, ImpactNext, Trace, AnalyzeImpact,
     graphVars, policyVars, impactVars, vars
<1>2. TraceInv'
  BY <1>1, TracesKeep DEF GraphInv
<1>3. CASE UNCHANGED <<drawing, report>>
  <2> SUFFICES ASSUME report # NotDrawn
               PROVE  /\ pc' \in {"done"} \cup Refusals
                      /\ \E x \in GraphInputs : \E r : drawing' = x /\ report' = r /\ Tells(r, x)'
    BY <1>2, <1>3 DEF GraphInv, NotDrawn
  <2>1. PICK x \in GraphInputs : \E r : drawing = x /\ report = r /\ Tells(r, x)
    BY DEF GraphInv
  <2>2. PICK r : drawing = x /\ report = r /\ Tells(r, x)
    BY <2>1
  <2>3. pc \in {"done"} \cup Refusals
    BY DEF GraphInv
  <2>4. UNCHANGED vars
    <3>1. pc # "select" /\ pc # "walk"
      BY <2>3 DEF Refusals
    <3> QED
      BY <1>1, <3>1, EndedStays
  <2>5. Tells(r, x)'
    BY <2>2, <2>4, TellsStays
  <2> QED
    BY <1>3, <2>2, <2>3, <2>4, <2>5 DEF vars
<1>4. CASE DrawGraph
  <2>1. UNCHANGED vars /\ pc \in {"done"} \cup Refusals
    BY <1>4 DEF DrawGraph, policyVars, impactVars, vars
  <2>2. PICK x \in GraphInputs : drawing' = x /\ report' = Drawing(x)
    BY <1>4 DEF DrawGraph
  <2>3. PICK r : r = Drawing(x)
    OBVIOUS
  <2>4. Tells(r, x)
    BY <2>3, DrawingTells DEF GraphInv
  <2>5. Tells(r, x)'
    BY <2>1, <2>4, TellsStays
  <2>6. pc' \in {"done"} \cup Refusals
    BY <2>1 DEF vars
  <2> QED
    BY <1>2, <2>2, <2>3, <2>5, <2>6 DEF GraphInv
<1> QED
  BY <1>3, <1>4 DEF GraphNext, graphVars

(***************************************************************************)
(* The graph tells the story of the trace, for any program, any limits of  *)
(* the walk and of the scene, and any request flows: the report of a trace *)
(* is refused only where a request parameter is drawn twice or without its *)
(* method, and a scene that leaves out no edge leads from its root to      *)
(* every method the trace has entered and to every table access, through   *)
(* the section it is in (buildGraphReportDocument of                       *)
(* src/src/graph-report/project.ts).                                       *)
(***************************************************************************)
THEOREM GraphsTell == GraphSpec => []GraphsTellTheTrace
<1>1. GraphInit => GraphInv
  BY StartsRight DEF GraphInit, PolicyInit, ImpactInit, GraphInv
<1>2. GraphInv => GraphsTellTheTrace
  <2> SUFFICES ASSUME GraphInv PROVE GraphsTellTheTrace
    OBVIOUS
  <2>1. CASE report = NotDrawn
    BY <2>1 DEF GraphsTellTheTrace, NotDrawn
  <2>2. CASE report # NotDrawn
    <3>1. Tells(report, drawing)
      BY <2>2 DEF GraphInv
    <3> QED
      BY <3>1 DEF Tells, GraphsTellTheTrace, Linked, Repeats, RepeatsDeclaration, FlowsWithoutHandler
  <2> QED
    BY <2>1, <2>2
<1> QED
  BY <1>1, <1>2, DrawingKeeps, PTL DEF GraphSpec

(***************************************************************************)
(* What the overview counts as reached is certain, for any program and any *)
(* limits: unless the trace also walks a method in another branch, or a    *)
(* handler that is not registered, it is on a walk of resolved facts or    *)
(* the method of a handler matched there; and a trace without diagnostics  *)
(* counts all of it, unless a method with branches is called, or it passed *)
(* a registered handler of unknown timing over                             *)
(* (resolvedReachableIds of src/src/architecture/overview.ts).             *)
(***************************************************************************)
THEOREM ReachCertain == GraphSpec => []ReachIsCertain
<1>1. GraphInit => GraphInv
  BY StartsRight DEF GraphInit, PolicyInit, ImpactInit, GraphInv
<1>2. GraphInv => ReachIsCertain
  <2> SUFFICES ASSUME GraphInv, report.state = "published", Selection = "resolved"
               PROVE  ReachIsCertain
    BY DEF ReachIsCertain
  <2>1. TraceInv
    BY DEF GraphInv
  <2>2. report.reached = Counted
    <3>1. report # NotDrawn
      BY DEF NotDrawn
    <3>2. Tells(report, drawing)
      BY <3>1 DEF GraphInv
    <3> QED
      BY <3>2 DEF Tells, ReachedRecords, Counted
  <2> DEFINE methods == {m \in Methods : <<"method", m>> \in Counted}
             entered == {p.methodId : p \in Places(Certain)}
             handlers == UNION {ToSet(f.to) : f \in Made(Certain)}
  <2>3. ASSUME ~EnteredInTwoWays(Places(Certain)), doc.candidates \cap Reached = {}
        PROVE  /\ methods \subseteq entered \cup handlers
               /\ <<"table">> \in Counted => \E f \in Made(Certain) : f.channel = "table"
    <3>1. \A r \in Counted : Fits(r)
      BY <2>1, <2>3, ReachedAreCertain DEF Counted
    <3>2. methods \subseteq NamedOver(Certain)
      BY <3>1 DEF Fits
    <3>3. NamedOver(Certain) \subseteq entered \cup handlers
      BY DEF NamedOver
    <3>4. <<"table">> \in Counted => \E f \in Made(Certain) : f.channel = "table"
      BY <3>1 DEF Fits
    <3> QED
      BY <3>2, <3>3, <3>4
  <2>4. ASSUME PublishedComplete, BranchesAreDispatched, ~SomePassedOver
        PROVE  /\ entered \subseteq methods
               /\ (\E f \in Made(Certain) : f.channel = "table") => <<"table">> \in Counted
    <3>1. \A p \in Places(Certain) : p.methodId \in Methods
      BY <2>1, CertainFacts, PlacesAre DEF TraceInv, AllPlaces
    <3> QED
      BY <2>1, <2>4, <3>1, CertainAreCounted
  <2>5. Certain = Resolved(ToSet(doc.facts))
    BY DEF Certain, Resolved, Facts
  <2> QED
    BY <2>2, <2>3, <2>4, <2>5 DEF ReachIsCertain, Made
<1> QED
  BY <1>1, <1>2, DrawingKeeps, PTL DEF GraphSpec

-----------------------------------------------------------------------------
(***************************************************************************)
(* The walk backwards of the impact, from methods among M, which has the   *)
(* methods of the program and the one the comparison starts from.          *)
(***************************************************************************)
BackStates(M) ==
    [method : M, calls : Nat, hops : Nat, visited : SUBSET M, entered : SUBSET M,
     branches : SUBSET Jobs, steps : Seq(Assertions)]

Earliers(before) ==
    before \cup UNION {{Before(doc, s, f) : f \in Incoming(doc, s)} : s \in before}

Retraced(M, starts, W) ==
    /\ W \in [0..Cardinality(Methods) -> SUBSET BackStates(M)]
    /\ W[0] = starts
    /\ \A n \in 1..Cardinality(Methods) : W[n] = Earliers(W[n - 1])
    /\ Backwards(doc, starts) = W[Cardinality(Methods)]

LEMMA EarliersAre ==
    ASSUME NEW before
    PROVE  \A t : t \in Earliers(before) <=>
              t \in before \/ \E s \in before : \E f \in Incoming(doc, s) : t = Before(doc, s, f)
<1> DEFINE of(s) == {Before(doc, s, f) : f \in Incoming(doc, s)}
<1>1. Earliers(before) = before \cup UNION {of(s) : s \in before}
  BY DEF Earliers
<1>2. \A s, t : t \in of(s) <=> \E f \in Incoming(doc, s) : t = Before(doc, s, f)
  OBVIOUS
<1> HIDE DEF of
<1> QED
  BY <1>1, <1>2

LEMMA IncomingIs ==
    ASSUME NEW s, NEW f
    PROVE  f \in Incoming(doc, s) <=>
              /\ f \in Facts /\ f.from \notin s.visited
              /\ \/ f.channel = "call" /\ s.method = f.to[1]
                 \/ /\ IsInteraction(f) /\ s.method \in ToSet(f.to)
                    /\ s.method \notin s.entered /\ AppliesToProducer(s, f)
              /\ CallsBefore(s, f) <= Limits.depth /\ HopsBefore(s, f) <= Limits.hops
BY DEF Incoming, Callers, Producers, Facts, Limits

LEMMA BeforeIs ==
    ASSUME ValidDocument, NEW M, Methods \subseteq M, NEW s \in BackStates(M), NEW f \in Incoming(doc, s)
    PROVE  Before(doc, s, f) \in BackStates(M)
<1>1. f \in Facts
  BY IncomingIs
<1>2. f \in Assertions /\ f.from \in M
  BY <1>1, FactsAreTyped
<1>3. CallsBefore(s, f) \in Nat /\ HopsBefore(s, f) \in Nat
  BY DEF BackStates, CallsBefore, HopsBefore
<1>4. BranchesOf(doc, f) \in SUBSET Jobs
  BY DEF BranchesOf
<1>5. <<f>> \o s.steps \in Seq(Assertions)
  <2>1. <<f>> \in Seq(Assertions) /\ s.steps \in Seq(Assertions)
    BY <1>2 DEF BackStates
  <2> QED
    BY <2>1, ConcatProperties
<1>6. s.visited \cup {f.from} \in SUBSET M /\ s.entered \cup {m \in {s.method} : IsInteraction(f)} \in SUBSET M
  BY <1>2 DEF BackStates
<1>7. s.branches \cup BranchesOf(doc, f) \in SUBSET Jobs
  BY <1>4 DEF BackStates
<1> QED
  BY <1>2, <1>3, <1>5, <1>6, <1>7 DEF Before, BackStates

LEMMA RetracingRuns ==
    ASSUME ValidDocument, NEW M, Methods \subseteq M, NEW starts \in SUBSET BackStates(M)
    PROVE  \E W : Retraced(M, starts, W)
<1> DEFINE N == Cardinality(Methods)
           A == SUBSET BackStates(M)
           step == [n \in 1..N |-> [before \in A |-> Earliers(before)]]
           Runs(w) == w = [n \in 0..N |-> IF n = 0 THEN starts ELSE Earliers(w[n - 1])]
           walk == CHOOSE w : Runs(w)
<1>1. N \in Nat
  BY MaxArrowsIsANumber
<1>2. \A before \in A : Earliers(before) \in A
  <2> TAKE before \in A
  <2>1. \A s \in before : \A f \in Incoming(doc, s) : Before(doc, s, f) \in BackStates(M)
    BY BeforeIs
  <2> QED
    BY <2>1, EarliersAre
<1>3. step \in [1..N -> [A -> A]]
  BY <1>2
<1>4. \A n \in 1..N : \A before \in A : step[n][before] = Earliers(before)
  OBVIOUS
<1>5. Backwards(doc, starts) = walk[N]
  BY DEF Backwards, Earliers
<1> HIDE DEF A, step, N
<1>6. PICK after \in [0..N -> A] : Taken(N, starts, step, after)
  <2>1. starts \in A
    BY DEF A
  <2> QED
    BY <1>1, <1>3, <2>1, StepsRun
<1>7. \A n \in 1..N : n - 1 \in 0..N /\ n \in 0..N /\ n # 0 /\ after[n] = Earliers(after[n - 1])
  <2> TAKE n \in 1..N
  <2>1. n - 1 \in 0..N /\ n \in 0..N /\ n # 0
    BY <1>1
  <2>2. after[n - 1] \in A /\ after[n] = step[n][after[n - 1]]
    BY <1>6, <2>1 DEF Taken
  <2> QED
    BY <1>4, <2>1, <2>2
<1>8. \A n \in 0..N : after[n] = IF n = 0 THEN starts ELSE Earliers(after[n - 1])
  <2> TAKE n \in 0..N
  <2>1. n = 0 \/ n \in 1..N
    BY <1>1
  <2> QED
    BY <1>6, <1>7, <2>1 DEF Taken
<1>9. Runs(after)
  BY <1>8
<1>10. Runs(walk)
  <2> HIDE DEF Runs
  <2> QED
    BY <1>9
<1> HIDE DEF walk
<1>11. \A n \in 0..N : walk[n] = IF n = 0 THEN starts ELSE Earliers(walk[n - 1])
  BY <1>10
<1>12. walk[0] = starts /\ \A n \in 1..N : walk[n] = Earliers(walk[n - 1])
  <2>1. 0 \in 0..N
    BY <1>1
  <2>2. \A n \in 1..N : n \in 0..N /\ n # 0
    BY <1>1
  <2> QED
    BY <1>11, <2>1, <2>2
<1>13. \A n \in 0..N : walk[n] \in A
  <2> DEFINE T == {n \in 0..N : walk[n] \in A}
  <2>1. 0 \in T
    <3>1. 0 \in 0..N /\ starts \in A
      BY <1>1 DEF A
    <3> QED
      BY <1>12, <3>1
  <2>2. ASSUME NEW n \in 1..N, n - 1 \in T PROVE n \in T
    BY <1>2, <1>7, <1>12, <2>2
  <2> HIDE DEF T
  <2>3. \A n \in 0..N : n \in T
    BY <1>1, <2>1, <2>2, CountingUp
  <2> QED
    BY <2>3 DEF T
<1>14. walk \in [0..N -> A]
  <2>1. walk = [n \in 0..N |-> IF n = 0 THEN starts ELSE Earliers(walk[n - 1])]
    BY <1>10
  <2> QED
    BY <1>11, <1>13, <2>1
<1> QED
  BY <1>5, <1>12, <1>14 DEF Retraced, N, A

\* What the starts have, and steps backwards keep, the walk has.
LEMMA RetracingKeeps ==
    ASSUME ValidDocument, NEW M, Methods \subseteq M, NEW starts \in SUBSET BackStates(M),
           NEW S, starts \subseteq S,
           \A b \in BackStates(M) : b \in S => \A f \in Incoming(doc, b) : Before(doc, b, f) \in S
    PROVE  /\ Backwards(doc, starts) \subseteq S
           /\ Backwards(doc, starts) \subseteq BackStates(M)
<1> DEFINE N == Cardinality(Methods)
<1>1. PICK W : Retraced(M, starts, W)
  BY RetracingRuns
<1>2. N \in Nat
  BY MaxArrowsIsANumber
<1> DEFINE T == {n \in 0..N : W[n] \subseteq S}
<1>3. 0 \in T
  BY <1>1, <1>2, 0 \in 0..N DEF Retraced
<1>4. ASSUME NEW n \in 1..N, n - 1 \in T PROVE n \in T
  <2>1. n \in 0..N /\ n - 1 \in 0..N /\ W[n - 1] \subseteq S
    BY <1>2, <1>4
  <2>2. W[n] = Earliers(W[n - 1]) /\ W[n - 1] \in SUBSET BackStates(M)
    BY <1>1, <2>1 DEF Retraced
  <2>3. \A b \in W[n - 1] : b \in S /\ \A f \in Incoming(doc, b) : Before(doc, b, f) \in S
    BY <2>1, <2>2
  <2>4. W[n] \subseteq S
    BY <2>2, <2>3, EarliersAre
  <2> QED
    BY <2>1, <2>4
<1>5. N \in 0..N
  BY <1>2
<1> HIDE DEF T
<1>6. N \in T
  BY <1>2, <1>3, <1>4, <1>5, CountingUp
<1> QED
  BY <1>1, <1>5, <1>6 DEF T, Retraced

-----------------------------------------------------------------------------
(***************************************************************************)
(* What the trace passes, the walk backwards finds a way from.             *)
(***************************************************************************)
LEMMA PathsGrow ==
    ASSUME NEW s, NEW t, NEW m, IsFiniteSet(s.path), m \notin s.path, t.path = s.path \cup {m}
    PROVE  Cardinality(t.path) = Cardinality(s.path) + 1
<1>1. \A P : IsFiniteSet(P) /\ m \notin P => Cardinality(P \cup {m}) = Cardinality(P) + 1
  BY FS_AddElement
<1> QED
  BY <1>1

\* A state of the trace: a method with branches is entered in that of a job,
\* unless it is a root.
Regular(s) ==
    /\ s.hop + 1 <= Cardinality(s.path) /\ s.hop <= Limits.hops
    /\ s.methodId \in doc.dispatches =>
          s.path = {s.methodId} \/ \E f \in Facts : f.channel = "queue" /\ s.filter = f.job

LEMMA StatesAreRegular ==
    ASSUME ValidDocument, doc.root = "endpoint", OnlyJobsRunBranches
    PROVE  \A s \in RealStates : Regular(s)
<1> DEFINE S == {s \in RealStates : Regular(s)}
<1>1. Limits.hops \in Nat
  BY DEF ValidDocument, Configurations, Limits
<1>2. ASSUME NEW m \in ToSet(doc.implementations), RootState(m) \in RealStates
      PROVE  RootState(m) \in S
  <2>1. RootState(m).methodId = m /\ RootState(m).path = {m} /\ RootState(m).hop = 0
    BY DEF RootState
  <2>2. Cardinality({m}) = 1
    BY FS_Singleton
  <2>3. Regular(RootState(m))
    BY <1>1, <2>1, <2>2 DEF Regular
  <2> QED
    BY <1>2, <2>3
<1>3. \A f \in Facts : f.channel # "queue" => ToSet(f.to) \cap doc.dispatches = {}
  BY DEF OnlyJobsRunBranches, Facts
<1>4. ASSUME NEW s \in RealStates, NEW t \in RealStates, s \in S, StepsTo(s, t)
      PROVE  t \in S
  <2>1. /\ s \in States /\ s.methodId \in s.path /\ Regular(s)
        /\ IsFiniteSet(s.path) /\ Cardinality(s.path) \in Nat /\ s.hop \in Nat
    <3>1. s \in States /\ s.methodId \in s.path /\ Regular(s)
      BY <1>4 DEF RealStates
    <3> QED
      BY <3>1, ArrowsAreBounded DEF States
  <2>2. CASE HasSection(s) /\ t = LockedState(s)
    <3>1. t.methodId = s.methodId /\ t.path = s.path /\ t.hop = s.hop
      BY <2>1, <2>2 DEF LockedState, States
    <3>2. s.filter = "*" /\ \A f \in Facts : f.job # "*"
      BY <2>2, FactsAreTyped DEF HasSection, Jobs
    <3>3. Regular(t)
      BY <2>1, <3>1, <3>2 DEF Regular
    <3> QED
      BY <3>3
  <2>3. ASSUME NEW f \in Interactions(s), NEW m \in ToSet(f.to) \ doc.candidates,
               m \notin s.path, ~(s.hop >= Limits.hops), t = DeliveredState(s, f, m)
        PROVE  t \in S
    <3>1. t.methodId = m /\ t.path = s.path \cup {m} /\ t.hop = s.hop + 1 /\ t.filter = BranchFilter(f, m)
      BY <2>3 DEF DeliveredState
    <3>2. Cardinality(t.path) = Cardinality(s.path) + 1
      BY <2>1, <2>3, <3>1, PathsGrow
    <3>3. f \in Facts
      BY DEF Interactions, Direct, FactsOf, Facts
    <3>4. m \in doc.dispatches => f.channel = "queue" /\ t.filter = f.job
      BY <1>3, <3>1, <3>3 DEF BranchFilter
    <3>5. Regular(t)
      BY <1>1, <2>1, <2>3, <3>1, <3>2, <3>3, <3>4 DEF Regular
    <3> QED
      BY <3>5
  <2>4. ASSUME NEW f \in Calls(s), f.to[1] \notin s.path, t = CalledState(s, f)
        PROVE  t \in S
    <3>1. t.methodId = f.to[1] /\ t.path = s.path \cup {f.to[1]} /\ t.hop = s.hop
      BY <2>1, <2>4 DEF CalledState, States
    <3>2. Cardinality(t.path) = Cardinality(s.path) + 1
      BY <2>1, <2>4, <3>1, PathsGrow
    <3>3. f \in Facts /\ f.channel = "call"
      BY DEF Calls, Direct, FactsOf, Facts
    <3>4. f.to[1] \in ToSet(f.to)
      <4>1. f.to \in Seq(Methods) /\ f.to # <<>>
        BY <3>3, FactsAreTyped
      <4>2. 1 \in DOMAIN f.to
        BY <4>1, EmptySeq, LenProperties
      <4> QED
        BY <4>2 DEF ToSet
    <3>5. t.methodId \notin doc.dispatches
      BY <1>3, <3>1, <3>3, <3>4
    <3>6. Regular(t)
      BY <2>1, <3>1, <3>2, <3>5 DEF Regular
    <3> QED
      BY <3>6
  <2> QED
    BY <1>4, <2>2, <2>3, <2>4 DEF StepsTo
<1>5. \A s \in RealStates : s \in S
  <2> HIDE DEF S
  <2> QED
    BY <1>2, <1>4, StatesAreDerived
<1> QED
  BY <1>5

\* A state of the walk backwards that may go on to where the trace came from.
Meets(b, s) ==
    /\ b.method = s.methodId
    /\ b.visited \cap s.path = {s.methodId} /\ b.entered \cap s.path = {}
    /\ b.calls + CallsTo(s) <= Limits.depth /\ b.hops + s.hop <= Limits.hops
    /\ s.path # {s.methodId} =>
          b.branches = {} \/ \A f \in Facts : f.channel = "queue" => f.job \in b.branches

\* Where the trace stepped from s to t, the walk backwards steps from t to s.
LEMMA MeetingGoesOn ==
    ASSUME ValidDocument, OneJob, NEW M, NEW b \in BackStates(M),
           NEW s \in RealStates, NEW t \in RealStates, Regular(s), NEW f \in Direct(s),
           t.path = s.path \cup {t.methodId}, t.methodId \notin s.path, Meets(b, t),
           \/ f.channel = "call" /\ t.methodId = f.to[1] /\ t.hop = s.hop
           \/ IsInteraction(f) /\ t.methodId \in ToSet(f.to) /\ t.hop = s.hop + 1
    PROVE  f \in Incoming(doc, b) /\ Meets(Before(doc, b, f), s)
<1>1. /\ s \in States /\ s.methodId \in s.path /\ f \in Facts /\ f.from = s.methodId
      /\ IsFiniteSet(s.path) /\ Cardinality(s.path) \in Nat /\ s.hop \in Nat
      /\ Limits.depth \in Nat /\ Limits.hops \in Nat /\ b.calls \in Nat /\ b.hops \in Nat
  <2>1. s \in States /\ s.methodId \in s.path /\ f \in Facts /\ f.from = s.methodId
    BY DEF RealStates, Direct, FactsOf, Facts
  <2>2. Limits.depth \in Nat /\ Limits.hops \in Nat
    BY DEF ValidDocument, Configurations, Limits
  <2> QED
    BY <2>1, <2>2, ArrowsAreBounded DEF States, BackStates
<1>2. Cardinality(t.path) = Cardinality(s.path) + 1
  BY <1>1, PathsGrow
<1>3. /\ b.method = t.methodId /\ b.visited \cap t.path = {t.methodId} /\ b.entered \cap t.path = {}
      /\ b.calls + CallsTo(t) <= Limits.depth /\ b.hops + t.hop <= Limits.hops
  BY DEF Meets
<1>4. b.branches = {} \/ \A g \in Facts : g.channel = "queue" => g.job \in b.branches
  <2>1. t.path # {t.methodId}
    BY <1>1
  <2> QED
    BY <2>1 DEF Meets
<1>5. f.from \notin b.visited /\ b.method \notin b.entered
  BY <1>1, <1>3
<1>6. /\ CallsBefore(b, f) <= Limits.depth /\ HopsBefore(b, f) <= Limits.hops
      /\ CallsBefore(b, f) + CallsTo(s) <= Limits.depth /\ HopsBefore(b, f) + s.hop <= Limits.hops
  <2>1. CallsTo(s) = Cardinality(s.path) - 1 - s.hop /\ CallsTo(t) = Cardinality(s.path) - t.hop
    BY <1>1, <1>2 DEF CallsTo
  <2>2. s.hop + 1 <= Cardinality(s.path)
    BY DEF Regular
  <2>3. CASE f.channel = "call" /\ t.hop = s.hop
    BY <1>1, <1>3, <2>1, <2>2, <2>3 DEF CallsBefore, HopsBefore, IsInteraction
  <2>4. CASE IsInteraction(f) /\ t.hop = s.hop + 1
    BY <1>1, <1>3, <2>1, <2>2, <2>4 DEF CallsBefore, HopsBefore, IsInteraction
  <2> QED
    BY <2>3, <2>4 DEF IsInteraction
<1>7. AppliesToProducer(b, f)
  BY <1>1, <1>4 DEF AppliesToProducer
<1>8. f \in Incoming(doc, b)
  BY <1>1, <1>3, <1>5, <1>6, <1>7, IncomingIs
<1> DEFINE c == Before(doc, b, f)
<1>9. /\ c.method = s.methodId /\ c.calls = CallsBefore(b, f) /\ c.hops = HopsBefore(b, f)
      /\ c.visited = b.visited \cup {s.methodId} /\ c.branches = b.branches \cup BranchesOf(doc, f)
      /\ c.entered \subseteq b.entered \cup {b.method}
  BY <1>1 DEF Before
<1> HIDE DEF c
<1>10. c.visited \cap s.path = {s.methodId} /\ c.entered \cap s.path = {}
  BY <1>1, <1>3, <1>9
<1>11. ASSUME s.path # {s.methodId}
       PROVE  c.branches = {} \/ \A g \in Facts : g.channel = "queue" => g.job \in c.branches
  <2>1. CASE s.methodId \notin doc.dispatches
    <3>1. BranchesOf(doc, f) = {}
      BY <1>1, <2>1 DEF BranchesOf
    <3> QED
      BY <1>4, <1>9, <3>1
  <2>2. CASE s.methodId \in doc.dispatches
    <3>1. PICK g \in Facts : g.channel = "queue" /\ s.filter = g.job
      BY <1>11, <2>2 DEF Regular
    <3>2. g.job \in Jobs /\ g.job # "*"
      BY <3>1, FactsAreTyped DEF Jobs
    <3>3. f.region = g.job
      BY <3>1, <3>2 DEF Direct, Applies
    <3>4. BranchesOf(doc, f) = {g.job}
      BY <1>1, <2>2, <3>2, <3>3 DEF BranchesOf
    <3>5. \A h \in Facts : h.channel = "queue" => h.job = g.job
      BY <3>1 DEF OneJob, Facts
    <3> QED
      BY <1>9, <3>4, <3>5
  <2> QED
    BY <2>1, <2>2
<1>12. Meets(c, s)
  BY <1>6, <1>9, <1>10, <1>11 DEF Meets
<1> QED
  BY <1>8, <1>12 DEF c

\* Wherever the walk backwards meets a state of the trace, it gets to a root.
Returns(s, W) ==
    \A n \in 0..Cardinality(Methods) : \A b \in W[n] :
        Meets(b, s) /\ n + Cardinality(s.path) <= Cardinality(Methods) =>
            \E e \in W[Cardinality(Methods)] : e.method \in ToSet(doc.implementations)

LEMMA StatesReturn ==
    ASSUME ValidDocument, doc.root = "endpoint", OneJob, OnlyJobsRunBranches,
           NEW M, Methods \subseteq M, NEW starts, NEW W, Retraced(M, starts, W)
    PROVE  \A s \in RealStates : Returns(s, W)
<1> DEFINE N == Cardinality(Methods)
           S == {s \in RealStates : Returns(s, W)}
<1>1. N \in Nat
  BY MaxArrowsIsANumber
<1>2. \A n \in 0..N : W[n] \subseteq BackStates(M)
  BY DEF Retraced
<1>3. \A n \in 0..N : W[n] \subseteq W[N]
  <2> SUFFICES ASSUME NEW m \in 0..N PROVE W[m] \subseteq W[N]
    OBVIOUS
  <2> DEFINE T == {k \in 0..N : m <= k => W[m] \subseteq W[k]}
  <2>1. 0 \in T
    BY <1>1, m <= 0 => m = 0
  <2>2. ASSUME NEW k \in 1..N, k - 1 \in T PROVE k \in T
    <3>1. W[k - 1] \subseteq W[k]
      BY DEF Retraced, Earliers
    <3>2. k \in 0..N /\ (m <= k => m <= k - 1 \/ m = k)
      BY <1>1
    <3> QED
      BY <2>2, <3>1, <3>2
  <2>3. N \in 0..N /\ m <= N
    BY <1>1
  <2> HIDE DEF T
  <2>4. N \in T
    BY <1>1, <2>1, <2>2, <2>3, CountingUp
  <2> QED
    BY <2>3, <2>4 DEF T
<1>4. ASSUME NEW m \in ToSet(doc.implementations), RootState(m) \in RealStates
      PROVE  RootState(m) \in S
  <2>1. RootState(m).methodId = m
    BY DEF RootState
  <2>2. Returns(RootState(m), W)
    BY <1>3, <2>1 DEF Returns, Meets
  <2> QED
    BY <1>4, <2>2
<1>5. ASSUME NEW s \in RealStates, NEW t \in RealStates, Returns(s, W), StepsTo(s, t)
      PROVE  Returns(t, W)
  <2>1. /\ s \in States /\ s.methodId \in s.path /\ Regular(s)
        /\ IsFiniteSet(s.path) /\ Cardinality(s.path) \in Nat
    <3>1. s \in States /\ s.methodId \in s.path /\ Regular(s)
      BY StatesAreRegular DEF RealStates
    <3> QED
      BY <3>1, ArrowsAreBounded
  <2>2. CASE HasSection(s) /\ t = LockedState(s)
    <3>1. t.methodId = s.methodId /\ t.path = s.path /\ t.hop = s.hop
      BY <2>1, <2>2 DEF LockedState, States
    <3>2. \A b : Meets(b, t) <=> Meets(b, s)
      BY <3>1 DEF Meets, CallsTo
    <3> QED
      BY <1>5, <3>1, <3>2 DEF Returns
  <2>3. ASSUME NEW f \in Direct(s), t.path = s.path \cup {t.methodId}, t.methodId \notin s.path,
               \/ f.channel = "call" /\ t.methodId = f.to[1] /\ t.hop = s.hop
               \/ IsInteraction(f) /\ t.methodId \in ToSet(f.to) /\ t.hop = s.hop + 1
        PROVE  Returns(t, W)
    <3> SUFFICES ASSUME NEW n \in 0..N, NEW b \in W[n], Meets(b, t), n + Cardinality(t.path) <= N
                 PROVE  \E e \in W[N] : e.method \in ToSet(doc.implementations)
      BY DEF Returns
    <3>1. Cardinality(t.path) = Cardinality(s.path) + 1
      BY <2>1, <2>3, PathsGrow
    <3>2. n + 1 \in 1..N /\ n + 1 \in 0..N /\ (n + 1) - 1 = n /\ (n + 1) + Cardinality(s.path) <= N
      BY <1>1, <2>1, <3>1
    <3>3. b \in BackStates(M)
      BY <1>2
    <3>4. f \in Incoming(doc, b) /\ Meets(Before(doc, b, f), s)
      BY <2>1, <2>3, <3>3, MeetingGoesOn
    <3>5. Before(doc, b, f) \in W[n + 1]
      <4>1. W[n + 1] = Earliers(W[n])
        BY <3>2 DEF Retraced
      <4> QED
        BY <3>4, <4>1, EarliersAre
    <3> QED
      BY <1>5, <3>2, <3>4, <3>5 DEF Returns
  <2>4. ASSUME NEW f \in Interactions(s), NEW m \in ToSet(f.to) \ doc.candidates,
               m \notin s.path, t = DeliveredState(s, f, m)
        PROVE  Returns(t, W)
    <3>1. t.methodId = m /\ t.path = s.path \cup {m} /\ t.hop = s.hop + 1
      BY <2>4 DEF DeliveredState
    <3>2. f \in Direct(s) /\ IsInteraction(f)
      BY DEF Interactions, IsInteraction
    <3> QED
      BY <2>3, <2>4, <3>1, <3>2
  <2>5. ASSUME NEW f \in Calls(s), f.to[1] \notin s.path, t = CalledState(s, f)
        PROVE  Returns(t, W)
    <3>1. t.methodId = f.to[1] /\ t.path = s.path \cup {f.to[1]} /\ t.hop = s.hop
      BY <2>1, <2>5 DEF CalledState, States
    <3>2. f \in Direct(s) /\ f.channel = "call"
      BY DEF Calls
    <3> QED
      BY <2>3, <2>5, <3>1, <3>2
  <2> QED
    BY <1>5, <2>2, <2>4, <2>5 DEF StepsTo
<1>6. \A s \in RealStates : s \in S
  <2>1. \A s \in RealStates, t \in RealStates : s \in S /\ StepsTo(s, t) => t \in S
    BY <1>5
  <2> HIDE DEF S
  <2> QED
    BY <1>4, <2>1, StatesAreDerived
<1> QED
  BY <1>6

\* From the method of every state that takes no more calls than are counted,
\* there is a way to a root.
LEMMA WaysBack ==
    ASSUME ValidDocument, doc.root = "endpoint", OneJob, OnlyJobsRunBranches,
           NEW s \in RealStates, CallsTo(s) <= Limits.depth
    PROVE  ToMethod(doc, s.methodId) # {}
<1> DEFINE N == Cardinality(Methods)
<1>1. /\ N \in Nat /\ s \in States /\ s.methodId \in s.path /\ s.path \subseteq Methods
      /\ IsFiniteSet(s.path) /\ Cardinality(s.path) \in Nat /\ s.hop \in Nat
      /\ Cardinality(s.path) <= N
  <2>1. s \in States /\ s.methodId \in s.path /\ s.path \subseteq Methods
    BY DEF RealStates, States
  <2> QED
    BY <2>1, ArrowsAreBounded, MaxArrowsIsANumber, MethodsAssumption, FS_Subset DEF States
<1> DEFINE b == At(s.methodId)
<1>2. /\ b.method = s.methodId /\ b.calls = 0 /\ b.hops = 0 /\ b.visited = {s.methodId}
      /\ b.entered = {} /\ b.branches = {}
  BY DEF At
<1>3. b \in BackStates(Methods)
  <2>1. <<>> \in Seq(Assertions)
    BY EmptySeq
  <2> QED
    BY <1>1, <2>1 DEF At, BackStates
<1>4. PICK W : Retraced(Methods, {b}, W)
  <2> HIDE DEF b
  <2> QED
    BY <1>3, RetracingRuns
<1>5. Returns(s, W)
  BY <1>4, StatesReturn
<1>6. Meets(b, s)
  <2>1. s.hop <= Limits.hops /\ CallsTo(s) \in Int
    BY <1>1, StatesAreRegular DEF Regular, CallsTo
  <2> HIDE DEF b
  <2> QED
    BY <1>1, <1>2, <2>1 DEF Meets
<1>7. 0 \in 0..N /\ b \in W[0] /\ 0 + Cardinality(s.path) <= N
  BY <1>1, <1>4 DEF Retraced
<1>8. PICK e \in W[N] : e.method \in ToSet(doc.implementations)
  BY <1>5, <1>6, <1>7 DEF Returns
<1>9. e \in Backwards(doc, {b})
  BY <1>4 DEF Retraced
<1> QED
  BY <1>8, <1>9 DEF ToMethod, PathsFrom

-----------------------------------------------------------------------------
(***************************************************************************)
(* What the walk backwards passes, the program performs.                   *)
(***************************************************************************)
OneDispatch == \A m, n \in doc.dispatches : m = n

\* Where the first of the steps may be performed: in the body, or in the
\* branch it is in.
Stands(p, m, steps) ==
    /\ p.methodId = m
    /\ p.filter = "*" \/ (m \in doc.dispatches /\ (steps = <<>> \/ p.filter = Head(steps).region))

\* The steps of methods with branches are in one.
Inside(steps) == \A f \in ToSet(steps) : f.from \in doc.dispatches => BranchesOf(doc, f) # {}

\* The selectors are those of the steps, and a method makes one step.
Carried(b) ==
    /\ \A j : j \in b.branches <=> \E f \in ToSet(b.steps) : j \in BranchesOf(doc, f)
    /\ \A f \in ToSet(b.steps) : f \in Facts /\ f.from \in b.visited
    /\ \A f, g \in ToSet(b.steps) : f.from = g.from => f = g
    /\ b.steps # <<>> => Head(b.steps) \in ToSet(b.steps) /\ Head(b.steps).from = b.method

\* From where the first step may be performed, all are, to one of the ends.
Shown(b, ends) ==
    Inside(b.steps) => \A p \in Places(Facts) :
        Stands(p, b.method, b.steps) =>
            ToSet(b.steps) \subseteq Made(Facts) /\ ends \cap Places(Facts) # {}

LEMMA JoinsAre ==
    ASSUME NEW f \in Assertions, NEW steps \in Seq(Assertions)
    PROVE  /\ \A s : s = <<f>> \o steps => ToSet(s) = {f} \cup ToSet(steps) /\ Head(s) = f /\ s # <<>>
           /\ \A t : t = Append(steps, f) => ToSet(t) = {f} \cup ToSet(steps)
<1>1. Len(steps) \in Nat /\ DOMAIN steps = 1..Len(steps)
  BY LenProperties
<1>2. /\ <<f>> \in Seq(Assertions) /\ Len(<<f>>) = 1 /\ <<f>>[1] = f /\ DOMAIN <<f>> = 1..1
  OBVIOUS
<1>3. ASSUME NEW s, s = <<f>> \o steps
      PROVE  ToSet(s) = {f} \cup ToSet(steps) /\ Head(s) = f /\ s # <<>>
  <2>1. /\ s \in Seq(Assertions) /\ Len(s) = 1 + Len(steps)
        /\ \A i \in 1..(1 + Len(steps)) : s[i] = IF i <= 1 THEN <<f>>[i] ELSE steps[i - 1]
    BY <1>2, <1>3, ConcatProperties
  <2>2. DOMAIN s = 1..(1 + Len(steps))
    BY <2>1, LenProperties
  <2>3. s[1] = f /\ 1 \in 1..(1 + Len(steps))
    BY <1>1, <1>2, <2>1
  <2>4. \A i \in 1..Len(steps) : i + 1 \in 1..(1 + Len(steps)) /\ s[i + 1] = steps[i]
    BY <1>1, <2>1
  <2>5. \A i \in 1..(1 + Len(steps)) : i = 1 \/ (i - 1 \in 1..Len(steps) /\ s[i] = steps[i - 1])
    BY <1>1, <2>1
  <2>6. ToSet(s) = {f} \cup ToSet(steps)
    BY <1>1, <2>2, <2>3, <2>4, <2>5 DEF ToSet
  <2>7. s # <<>>
    BY <1>1, <2>1, EmptySeq
  <2> QED
    BY <2>1, <2>3, <2>6, <2>7, HeadTailProperties
<1>4. ASSUME NEW t, t = Append(steps, f) PROVE ToSet(t) = {f} \cup ToSet(steps)
  <2>1. /\ t \in Seq(Assertions) /\ Len(t) = Len(steps) + 1
        /\ \A i \in 1..Len(steps) : t[i] = steps[i]
        /\ t[Len(steps) + 1] = f
    BY <1>4, AppendProperties
  <2>2. DOMAIN t = 1..(Len(steps) + 1) /\ Len(steps) + 1 \in 1..(Len(steps) + 1)
    BY <1>1, <2>1, LenProperties
  <2>3. \A i \in 1..Len(steps) : i \in 1..(Len(steps) + 1)
    BY <1>1
  <2>4. \A i \in 1..(Len(steps) + 1) : i = Len(steps) + 1 \/ i \in 1..Len(steps)
    BY <1>1
  <2> QED
    BY <1>1, <2>1, <2>2, <2>3, <2>4 DEF ToSet
<1> QED
  BY <1>3, <1>4

\* A fact is performed where its method is entered, in the body or in its branch.
LEMMA FactsArePerformed ==
    ASSUME ValidDocument, NEW p \in Places(Facts), NEW f \in Facts, f.from = p.methodId,
           p.filter = "*" \/ (p.filter = f.region /\ f.region \in Jobs)
    PROVE  \E q \in Places(Facts) : q.methodId = f.from /\ f \in FactsAt(Facts, q)
<1>1. f.region \in {"body", "section"} \cup Jobs /\ p \in AllPlaces
  BY FactsAreTyped, PlacesAre
<1>2. CASE f.region # "section"
  <2>1. f.region \in RegionsOf(p.filter)
    BY <1>1, <1>2 DEF RegionsOf, Jobs
  <2> QED
    BY <2>1 DEF FactsAt
<1>3. CASE f.region = "section"
  <2>1. p.filter = "*"
    BY <1>3 DEF Jobs
  <2>2. PICK r : r = [p EXCEPT !.filter = "section", !.locked = TRUE]
    OBVIOUS
  <2>3. r \in ArrowsFrom(Facts, p)
    BY <1>1, <1>3, <2>1, <2>2, ArrowIs
  <2>4. PICK q \in Places(Facts) : StationOf(q) = StationOf(r)
    BY <2>3, PlacesSettle
  <2>5. q.methodId = p.methodId /\ q.filter = "section"
    BY <1>1, <2>2, <2>4 DEF StationOf, AllPlaces
  <2>6. f \in FactsAt(Facts, q)
    BY <1>3, <2>5 DEF FactsAt, RegionsOf
  <2> QED
    BY <2>5, <2>6
<1> QED
  BY <1>2, <1>3

\* The first step is performed from where it may be.
LEMMA FirstIsPerformed ==
    ASSUME ValidDocument, NEW p \in Places(Facts), NEW f \in Facts, NEW steps,
           steps # <<>>, Head(steps) = f, f \in ToSet(steps), Inside(steps), Stands(p, f.from, steps)
    PROVE  \E q \in Places(Facts) : q.methodId = f.from /\ f \in FactsAt(Facts, q)
<1>1. p.methodId = f.from /\ (p.filter = "*" \/ (f.from \in doc.dispatches /\ p.filter = f.region))
  BY DEF Stands
<1>2. f.from \in doc.dispatches => f.region \in Jobs
  BY DEF Inside, BranchesOf
<1> QED
  BY <1>1, <1>2, FactsArePerformed

LEMMA CarriedBack ==
    ASSUME ValidDocument, NEW M, Methods \subseteq M, NEW b \in BackStates(M), Carried(b),
           NEW f \in Incoming(doc, b)
    PROVE  Carried(Before(doc, b, f))
<1> DEFINE c == Before(doc, b, f)
<1>1. f \in Facts /\ f.from \notin b.visited /\ f \in Assertions /\ b.steps \in Seq(Assertions)
  BY IncomingIs, FactsAreTyped DEF BackStates
<1>2. /\ c.method = f.from /\ c.visited = b.visited \cup {f.from}
      /\ c.branches = b.branches \cup BranchesOf(doc, f) /\ c.steps = <<f>> \o b.steps
  BY DEF Before
<1> HIDE DEF c
<1>3. ToSet(c.steps) = {f} \cup ToSet(b.steps) /\ Head(c.steps) = f /\ c.steps # <<>>
  <2>1. \A s : s = <<f>> \o b.steps => ToSet(s) = {f} \cup ToSet(b.steps) /\ Head(s) = f /\ s # <<>>
    BY <1>1, JoinsAre
  <2> QED
    BY <1>2, <2>1
<1>4. \A j : j \in c.branches <=> \E g \in ToSet(c.steps) : j \in BranchesOf(doc, g)
  BY <1>2, <1>3 DEF Carried
<1>5. \A g \in ToSet(b.steps) : g.from # f.from
  BY <1>1 DEF Carried
<1>6. \A g, h \in ToSet(c.steps) : g.from = h.from => g = h
  BY <1>3, <1>5 DEF Carried
<1>7. \A g \in ToSet(c.steps) : g \in Facts /\ g.from \in c.visited
  BY <1>1, <1>2, <1>3 DEF Carried
<1>8. Carried(c)
  BY <1>2, <1>3, <1>4, <1>6, <1>7 DEF Carried
<1> QED
  BY <1>8 DEF c

LEMMA ShownBack ==
    ASSUME ValidDocument, doc.candidates = {}, OneDispatch,
           NEW M, Methods \subseteq M, NEW b \in BackStates(M), Carried(b), NEW ends, Shown(b, ends),
           NEW f \in Incoming(doc, b)
    PROVE  Shown(Before(doc, b, f), ends)
<1> DEFINE c == Before(doc, b, f)
<1>1. f \in Facts /\ f \in Assertions /\ b.steps \in Seq(Assertions)
  BY IncomingIs, FactsAreTyped DEF BackStates
<1>2. c.method = f.from /\ c.steps = <<f>> \o b.steps
  BY DEF Before
<1>3. ToSet(c.steps) = {f} \cup ToSet(b.steps) /\ Head(c.steps) = f /\ c.steps # <<>>
  BY <1>1, <1>2, JoinsAre
<1> HIDE DEF c
<1>4. ASSUME Inside(c.steps), NEW p \in Places(Facts), Stands(p, f.from, c.steps)
      PROVE  ToSet(c.steps) \subseteq Made(Facts) /\ ends \cap Places(Facts) # {}
  <2>1. PICK q \in Places(Facts) : q.methodId = f.from /\ f \in FactsAt(Facts, q)
    BY <1>1, <1>3, <1>4, FirstIsPerformed
  <2>2. f \in Made(Facts) /\ q \in AllPlaces
    BY <2>1, PlacesAre DEF Made
  <2>3. Inside(b.steps)
    BY <1>3, <1>4 DEF Inside
  <2>4. ASSUME NEW r \in ArrowsFrom(Facts, q), r.methodId = b.method,
               r.filter = "*" \/ (b.method \in doc.dispatches /\ (b.steps = <<>> \/ r.filter = Head(b.steps).region))
        PROVE  ToSet(b.steps) \subseteq Made(Facts) /\ ends \cap Places(Facts) # {}
    <3>1. PICK t \in Places(Facts) : StationOf(t) = StationOf(r)
      BY <2>1, PlacesSettle
    <3>2. t.methodId = r.methodId /\ t.filter = r.filter
      BY <3>1 DEF StationOf
    <3>3. Stands(t, b.method, b.steps)
      BY <2>4, <3>2 DEF Stands
    <3> QED
      BY <2>3, <3>3 DEF Shown
  <2>5. CASE f.channel = "call" /\ b.method = f.to[1]
    <3>1. PICK r : r = [q EXCEPT !.methodId = f.to[1], !.filter = "*"]
      OBVIOUS
    <3>2. r \in ArrowsFrom(Facts, q)
      BY <2>1, <2>2, <2>5, <3>1, ArrowIs
    <3>3. r.methodId = b.method /\ r.filter = "*"
      BY <2>2, <2>5, <3>1 DEF AllPlaces
    <3> QED
      BY <1>3, <2>2, <2>4, <3>2, <3>3
  <2>6. CASE IsInteraction(f) /\ b.method \in ToSet(f.to) /\ AppliesToProducer(b, f)
    <3>1. PICK r : r = [q EXCEPT !.methodId = b.method, !.filter = BranchFilter(f, b.method),
                                 !.queued = @ \/ f.channel = "queue", !.timing = TimingOf(f, b.method)]
      OBVIOUS
    <3>2. r \in ArrowsFrom(Facts, q)
      <4>1. b.method \in ToSet(f.to) \ doc.candidates
        BY <2>6
      <4> QED
        BY <2>1, <2>2, <2>6, <3>1, <4>1, ArrowIs DEF IsInteraction
    <3>3. r.methodId = b.method /\ r.filter = BranchFilter(f, b.method)
      BY <2>2, <3>1 DEF AllPlaces
    <3>4. r.filter = "*" \/ (b.method \in doc.dispatches /\ (b.steps = <<>> \/ r.filter = Head(b.steps).region))
      <4> SUFFICES ASSUME f.channel = "queue", b.method \in doc.dispatches, b.steps # <<>>
                   PROVE  f.job = Head(b.steps).region
        BY <3>3 DEF BranchFilter
      <4> DEFINE h == Head(b.steps)
      <4>1. h \in ToSet(b.steps) /\ h.from = b.method
        BY DEF Carried
      <4> HIDE DEF h
      <4>2. BranchesOf(doc, h) # {}
        BY <2>3, <4>1 DEF Inside
      <4>3. b.branches # {}
        BY <4>1, <4>2 DEF Carried
      <4>4. f.job \in b.branches
        BY <2>6, <4>3 DEF AppliesToProducer
      <4>5. PICK g \in ToSet(b.steps) : f.job \in BranchesOf(doc, g)
        BY <4>4 DEF Carried
      <4>6. g.from \in doc.dispatches /\ f.job = g.region
        BY <4>5 DEF BranchesOf
      <4>7. g.from = h.from
        BY <4>1, <4>6 DEF OneDispatch
      <4>8. g = h
        BY <4>1, <4>5, <4>7 DEF Carried
      <4> QED
        BY <4>6, <4>8 DEF h
    <3> QED
      BY <1>3, <2>2, <2>4, <3>2, <3>3, <3>4
  <2> QED
    BY <2>5, <2>6, IncomingIs
<1>5. Shown(c, ends)
  BY <1>2, <1>4 DEF Shown
<1> QED
  BY <1>5 DEF c

\* A path from the endpoint is performed, to one of the ends.
LEMMA PathsArePerformed ==
    ASSUME ValidDocument, doc.candidates = {}, OneDispatch,
           NEW M, Methods \subseteq M, NEW starts \in SUBSET BackStates(M), NEW ends,
           \A b \in starts : Carried(b) /\ Shown(b, ends),
           NEW e \in PathsFrom(doc, starts)
    PROVE  /\ e \in BackStates(M)
           /\ Inside(e.steps) => ToSet(e.steps) \subseteq Made(Facts) /\ ends \cap Places(Facts) # {}
<1> DEFINE S == {b \in BackStates(M) : Carried(b) /\ Shown(b, ends)}
<1>1. starts \subseteq S
  OBVIOUS
<1>2. \A b \in BackStates(M) : b \in S => \A f \in Incoming(doc, b) : Before(doc, b, f) \in S
  BY BeforeIs, CarriedBack, ShownBack
<1>3. e \in Backwards(doc, starts) /\ e.method \in ToSet(doc.implementations)
  BY DEF PathsFrom
<1>4. e \in S
  <2> HIDE DEF S
  <2> QED
    BY <1>1, <1>2, <1>3, RetracingKeeps
<1>5. RootPlace(e.method) \in Places(Facts)
  BY <1>3, PlacesHaveRoots
<1>6. Stands(RootPlace(e.method), e.method, e.steps)
  BY DEF Stands, RootPlace
<1> QED
  BY <1>4, <1>5, <1>6 DEF Shown

-----------------------------------------------------------------------------
\* A walk backwards starts at a method ...
MethodEnds(m) == {q \in AllPlaces : q.methodId = m /\ (m \notin doc.dispatches => q.filter = "*")}

LEMMA StartsAtMethod ==
    ASSUME ValidDocument, NEW m
    PROVE  At(m) \in BackStates(Methods \cup {m}) /\ Carried(At(m)) /\ Shown(At(m), MethodEnds(m))
<1> DEFINE b == At(m)
<1>1. /\ b.method = m /\ b.branches = {} /\ b.steps = <<>>
  BY DEF At
<1>2. ToSet(<<>>) = {}
  BY DEF ToSet
<1>3. At(m) \in BackStates(Methods \cup {m})
  <2>1. <<>> \in Seq(Assertions)
    BY EmptySeq
  <2> QED
    BY <2>1 DEF At, BackStates
<1> HIDE DEF b
<1>4. ToSet(b.steps) = {}
  BY <1>1, <1>2
<1>5. Carried(b)
  BY <1>1, <1>4 DEF Carried
<1>6. ASSUME NEW p \in Places(Facts), Stands(p, b.method, b.steps)
      PROVE  ToSet(b.steps) \subseteq Made(Facts) /\ MethodEnds(m) \cap Places(Facts) # {}
  <2>1. p \in AllPlaces /\ p.methodId = m /\ (m \notin doc.dispatches => p.filter = "*")
    BY <1>1, <1>6, PlacesAre DEF Stands
  <2> QED
    BY <1>4, <2>1 DEF MethodEnds
<1>7. Shown(b, MethodEnds(m))
  BY <1>6 DEF Shown
<1> QED
  BY <1>3, <1>5, <1>7 DEF b

\* ... or with one step.
OneStep(b, f) ==
    /\ b.method = f.from /\ f.from \in b.visited
    /\ b.branches = BranchesOf(doc, f) /\ b.steps = <<f>>

LEMMA StartsWithStep ==
    ASSUME ValidDocument, NEW f \in Facts, NEW b, OneStep(b, f)
    PROVE  Carried(b) /\ Shown(b, AllPlaces)
<1>1. b.method = f.from /\ f.from \in b.visited /\ b.branches = BranchesOf(doc, f)
  BY DEF OneStep
<1>2. ToSet(b.steps) = {f} /\ Head(b.steps) = f /\ b.steps # <<>>
  <2>1. b.steps = <<f>>
    BY DEF OneStep
  <2>2. DOMAIN <<f>> = {1} /\ <<f>>[1] = f /\ Head(<<f>>) = f /\ <<f>> # <<>>
    OBVIOUS
  <2>3. ToSet(<<f>>) = {f}
    BY <2>2 DEF ToSet
  <2> QED
    BY <2>1, <2>2, <2>3
<1>3. Carried(b)
  BY <1>1, <1>2 DEF Carried
<1>4. ASSUME Inside(b.steps), NEW p \in Places(Facts), Stands(p, b.method, b.steps)
      PROVE  ToSet(b.steps) \subseteq Made(Facts) /\ AllPlaces \cap Places(Facts) # {}
  <2>1. PICK q \in Places(Facts) : f \in FactsAt(Facts, q)
    BY <1>1, <1>2, <1>4, FirstIsPerformed
  <2>2. f \in Made(Facts)
    BY <2>1 DEF Made
  <2> QED
    BY <1>2, <1>4, <2>2, PlacesAre
<1> QED
  BY <1>3, <1>4 DEF Shown

LEMMA EndingIs ==
    ASSUME ValidDocument, NEW f \in Facts
    PROVE  Ending(doc, f) \in BackStates(Methods) /\ OneStep(Ending(doc, f), f)
<1>1. f \in Assertions /\ f.from \in Methods
  BY FactsAreTyped
<1>2. <<f>> \in Seq(Assertions) /\ BranchesOf(doc, f) \in SUBSET Jobs
  BY <1>1 DEF BranchesOf
<1>3. PICK r : r = At(f.from)
  OBVIOUS
<1>4. r \in BackStates(Methods) /\ r.method = f.from /\ r.visited = {f.from}
  <2>1. <<>> \in Seq(Assertions)
    BY EmptySeq
  <2> QED
    BY <1>1, <1>3, <2>1 DEF At, BackStates
<1>5. Ending(doc, f) = [r EXCEPT !.branches = BranchesOf(doc, f), !.steps = <<f>>]
  BY <1>3 DEF Ending
<1> QED
  BY <1>2, <1>4, <1>5 DEF BackStates, OneStep

\* What a path shows.
Real(s) == Inside(s.steps) => ToSet(s.steps) \subseteq Made(Facts)

PathsAssumed == ValidDocument /\ doc.candidates = {} /\ OneDispatch

LEMMA ToMethodIsReal ==
    ASSUME PathsAssumed, NEW m, NEW s \in ToMethod(doc, m)
    PROVE  /\ s.steps \in Seq(Assertions)
           /\ Real(s)
           /\ Inside(s.steps) => MethodEnds(m) \cap Places(Facts) # {}
<1>1. At(m) \in BackStates(Methods \cup {m}) /\ Carried(At(m)) /\ Shown(At(m), MethodEnds(m))
  BY StartsAtMethod DEF PathsAssumed
<1>2. s \in PathsFrom(doc, {At(m)})
  BY DEF ToMethod
<1>3. PICK M, starts : M = Methods \cup {m} /\ starts = {At(m)}
  OBVIOUS
<1>4. /\ Methods \subseteq M /\ starts \in SUBSET BackStates(M) /\ s \in PathsFrom(doc, starts)
      /\ \A b \in starts : Carried(b) /\ Shown(b, MethodEnds(m))
  BY <1>1, <1>2, <1>3
<1>5. /\ s \in BackStates(M)
      /\ Inside(s.steps) => ToSet(s.steps) \subseteq Made(Facts) /\ MethodEnds(m) \cap Places(Facts) # {}
  BY <1>4, PathsArePerformed DEF PathsAssumed
<1> QED
  BY <1>5 DEF Real, BackStates

LEMMA StepsLeadReal ==
    ASSUME PathsAssumed, NEW starts \in SUBSET BackStates(Methods),
           \A b \in starts : \E f \in Facts : OneStep(b, f),
           NEW s \in PathsFrom(doc, starts)
    PROVE  Real(s)
<1>1. \A b \in starts : Carried(b) /\ Shown(b, AllPlaces)
  BY StartsWithStep DEF PathsAssumed
<1>2. Inside(s.steps) => ToSet(s.steps) \subseteq Made(Facts)
  BY <1>1, PathsArePerformed DEF PathsAssumed
<1> QED
  BY <1>2 DEF Real

LEMMA ToTableIsReal ==
    ASSUME PathsAssumed, NEW s \in ToTable(doc)
    PROVE  Real(s)
<1> DEFINE starts == {Ending(doc, f) : f \in {f \in Facts : f.channel = "table"}}
<1>1. starts \in SUBSET BackStates(Methods) /\ \A b \in starts : \E f \in Facts : OneStep(b, f)
  BY EndingIs DEF PathsAssumed
<1>2. s \in PathsFrom(doc, starts)
  BY DEF ToTable, Facts
<1> HIDE DEF starts
<1> QED
  BY <1>1, <1>2, StepsLeadReal

LEMMA ToInteractionIsReal ==
    ASSUME PathsAssumed, NEW f \in Facts, NEW s \in ToInteraction(doc, f)
    PROVE  Real(s)
<1> DEFINE starts == {Ending(doc, f)}
<1>1. starts \in SUBSET BackStates(Methods) /\ \A b \in starts : \E g \in Facts : OneStep(b, g)
  BY EndingIs DEF PathsAssumed
<1>2. s \in PathsFrom(doc, starts)
  BY DEF ToInteraction
<1> HIDE DEF starts
<1> QED
  BY <1>1, <1>2, StepsLeadReal

LEMMA ToHandlerIsReal ==
    ASSUME PathsAssumed, NEW m, NEW s \in ToHandler(doc, m)
    PROVE  Real(s)
<1> DEFINE handler == [At(m) EXCEPT !.visited = {}]
           producers == {f \in Incoming(doc, handler) : IsInteraction(f)}
           starts == {Before(doc, handler, f) : f \in producers}
<1>1. /\ handler.method = m /\ handler.branches = {} /\ handler.steps = <<>>
      /\ m \in Methods => handler \in BackStates(Methods)
  <2>1. PICK r : r = At(m)
    OBVIOUS
  <2>2. /\ r \in [method : {m}, calls : Nat, hops : Nat, visited : SUBSET {m}, entered : SUBSET {m},
                  branches : SUBSET Jobs, steps : Seq(Assertions)]
        /\ r.method = m /\ r.branches = {} /\ r.steps = <<>>
    <3>1. <<>> \in Seq(Assertions)
      BY EmptySeq
    <3> QED
      BY <2>1, <3>1 DEF At
  <2>3. handler = [r EXCEPT !.visited = {}]
    BY <2>1
  <2> HIDE DEF handler
  <2> QED
    BY <2>2, <2>3 DEF BackStates
<1>2. ASSUME NEW f \in producers
      PROVE  /\ f \in Facts /\ f \in Assertions /\ m \in Methods
             /\ Before(doc, handler, f) \in BackStates(Methods)
             /\ OneStep(Before(doc, handler, f), f)
  <2>1. f \in Facts /\ IsInteraction(f) /\ m \in ToSet(f.to)
    <3>1. f \in Incoming(doc, handler) /\ IsInteraction(f)
      OBVIOUS
    <3>2. handler.method = m
      BY <1>1
    <3> HIDE DEF handler
    <3> QED
      BY <3>1, <3>2, IncomingIs DEF IsInteraction
  <2>2. f \in Assertions /\ m \in Methods /\ f.from \in Methods
    BY <2>1, FactsAreTyped DEF PathsAssumed
  <2>3. handler \in BackStates(Methods)
    BY <1>1, <2>2
  <2>4. f \in Incoming(doc, handler)
    OBVIOUS
  <2> HIDE DEF handler
  <2>5. Before(doc, handler, f) \in BackStates(Methods)
    BY <2>3, <2>4, BeforeIs DEF PathsAssumed
  <2>6. <<f>> \o handler.steps = <<f>>
    <3>1. handler.steps = <<>> /\ <<f>> \in Seq(Assertions)
      BY <1>1, <2>2
    <3> QED
      BY <3>1, ConcatEmptySeq
  <2>7. OneStep(Before(doc, handler, f), f)
    BY <1>1, <2>6 DEF OneStep, Before
  <2> QED
    BY <2>1, <2>2, <2>5, <2>7
<1>3. s \in PathsFrom(doc, starts)
  BY DEF ToHandler
<1> HIDE DEF handler, producers
<1>4. starts \in SUBSET BackStates(Methods) /\ \A b \in starts : \E f \in Facts : OneStep(b, f)
  BY <1>2
<1> HIDE DEF starts
<1> QED
  BY <1>3, <1>4, StepsLeadReal

\* A path that is extended by what its method does outside of branches.
LEMMA AppendedIsReal ==
    ASSUME PathsAssumed, NEW f \in Facts, NEW s \in Appended(ToMethod(doc, f.from), f)
    PROVE  f \in ToSet(s.steps) /\ (f.from \notin doc.dispatches => Real(s))
<1>1. PICK r \in ToMethod(doc, f.from) : s = [r EXCEPT !.steps = Append(@, f), !.visited = @ \cup ToSet(f.to)]
  BY DEF Appended
<1>2. /\ r.steps \in Seq(Assertions) /\ Real(r)
      /\ Inside(r.steps) => MethodEnds(f.from) \cap Places(Facts) # {}
  BY ToMethodIsReal
<1>3. s.steps = Append(r.steps, f)
  <2>1. r \in Backwards(doc, {At(f.from)})
    BY DEF ToMethod, PathsFrom
  <2>2. PICK M : M = Methods \cup {f.from}
    OBVIOUS
  <2>3. At(f.from) \in BackStates(M)
    BY <2>2, StartsAtMethod DEF PathsAssumed
  <2>4. PICK starts : starts = {At(f.from)}
    OBVIOUS
  <2>5. starts \subseteq BackStates(M) /\ r \in Backwards(doc, starts) /\ Methods \subseteq M
    BY <2>1, <2>2, <2>3, <2>4
  <2>6. r \in BackStates(M)
    BY <2>5, BeforeIs, RetracingKeeps DEF PathsAssumed
  <2> QED
    BY <1>1, <2>6 DEF BackStates
<1>4. ToSet(s.steps) = {f} \cup ToSet(r.steps)
  <2>1. f \in Assertions
    BY FactsAreTyped DEF PathsAssumed
  <2> QED
    BY <1>2, <1>3, <2>1, JoinsAre
<1>5. ASSUME f.from \notin doc.dispatches, Inside(s.steps) PROVE ToSet(s.steps) \subseteq Made(Facts)
  <2>1. Inside(r.steps)
    BY <1>4, <1>5 DEF Inside
  <2>2. PICK p \in Places(Facts) : p.methodId = f.from /\ p.filter = "*"
    BY <1>2, <1>5, <2>1 DEF MethodEnds
  <2>3. PICK q \in Places(Facts) : f \in FactsAt(Facts, q)
    BY <2>2, FactsArePerformed DEF PathsAssumed
  <2>4. f \in Made(Facts)
    BY <2>3 DEF Made
  <2> QED
    BY <1>2, <1>4, <2>1, <2>4 DEF Real
<1> QED
  BY <1>4, <1>5 DEF Real

-----------------------------------------------------------------------------
(***************************************************************************)
(* The reasons of a comparison.                                            *)
(***************************************************************************)
LEMMA ReasonsAre ==
    ASSUME NEW side, NEW d, NEW category, NEW subject, NEW paths
    PROVE  /\ \A r \in Reasons(side, d, category, subject, paths) :
                 r.side = side /\ r.subject = subject /\ r.path \in paths
           /\ paths # {} => \E r \in Reasons(side, d, category, subject, paths) :
                 r.side = side /\ r.subject = subject
<1> DEFINE plain(s) == [category |-> category, subject |-> subject, side |-> side, path |-> s]
           due(s) == [category |-> "unknown_due_to_incomplete_trace", subject |-> subject,
                      side |-> side, path |-> s]
           R == Reasons(side, d, category, subject, paths)
<1>1. R = {plain(s) : s \in paths} \cup {due(s) : s \in {s \in paths : Incomplete(d, s)}}
  BY DEF Reasons
<1>2. \A s : /\ plain(s).side = side /\ plain(s).subject = subject /\ plain(s).path = s
             /\ due(s).side = side /\ due(s).subject = subject /\ due(s).path = s
  OBVIOUS
<1> HIDE DEF plain, due, R
<1>3. \A r \in R : \E s \in paths : r = plain(s) \/ r = due(s)
  BY <1>1
<1>4. \A s \in paths : plain(s) \in R
  BY <1>1
<1>5. \A r \in R : r.side = side /\ r.subject = subject /\ r.path \in paths
  BY <1>2, <1>3
<1>6. paths # {} => \E r \in R : r.side = side /\ r.subject = subject
  BY <1>2, <1>4
<1> QED
  BY <1>5, <1>6 DEF R

\* Where the path of a reason comes from.
Source(d, subject, s) ==
    \/ s.steps = <<>>
    \/ \E m : s \in ToMethod(d, m)
    \/ s \in ToTable(d)
    \/ \E f \in ToSet(d.facts) : s \in ToInteraction(d, f)
    \/ \E m : s \in ToHandler(d, m)
    \/ \E f \in ToSet(d.facts) :
          f.channel \in {"call", "table"} /\ subject = Subject(f) /\ s \in Appended(ToMethod(d, f.from), f)

LEMMA ReasonsHaveSources ==
    ASSUME NEW side, NEW e, NEW r \in ReasonsOf(side, e)
    PROVE  r.side = side /\ Source(Side(side, e), r.subject, r.path)
<1> DEFINE Given(x, d) == x.side = side /\ Source(d, x.subject, x.path)
<1>1. PICK d : d = Side(side, e)
  OBVIOUS
<1>2. ASSUME NEW category, NEW subject, NEW paths, \A s \in paths : Source(d, subject, s),
             NEW x \in Reasons(side, d, category, subject, paths)
      PROVE  Given(x, d)
  BY <1>2, ReasonsAre
<1> HIDE DEF Given
<1>3. ASSUME NEW x \in DirectReasons(side, d, e) PROVE Given(x, d)
  <2>1. \A m : At(m).steps = <<>>
    BY DEF At
  <2>2. \A s \in {At(m) : m \in ToSet(d.implementations)} : Source(d, <<"endpoint", 0>>, s)
    BY <2>1 DEF Source
  <2>3. x \in Reasons(side, d, "direct_endpoint_change", <<"endpoint", 0>>,
                      {At(m) : m \in ToSet(d.implementations)})
    BY <1>3 DEF DirectReasons
  <2> QED
    BY <1>2, <2>2, <2>3
<1>4. ASSUME NEW file, NEW x \in FileReasons(side, d, file) PROVE Given(x, d)
  <2>1. \A subject : /\ \A s \in ToTable(d) : Source(d, subject, s)
                     /\ \A s \in ToMethod(d, file[2]) : Source(d, subject, s)
    BY DEF Source
  <2>2. CASE file = EntityFile
    <3>1. x \in Reasons(side, d, "entity_declaration_file_change", file, ToTable(d))
      BY <1>4, <2>2 DEF FileReasons
    <3> QED
      BY <1>2, <2>1, <3>1
  <2>3. CASE file # EntityFile
    <3>1. PICK paths : paths = ToMethod(d, file[2])
      OBVIOUS
    <3>2. WithoutCalls(paths) \subseteq paths
      BY DEF WithoutCalls
    <3>3. \/ x \in Reasons(side, d, "direct_endpoint_change", file, WithoutCalls(paths))
          \/ x \in Reasons(side, d, "reachable_method_file_change", file, paths \ WithoutCalls(paths))
      BY <1>4, <2>3, <3>1 DEF FileReasons
    <3> QED
      BY <1>2, <2>1, <3>1, <3>2, <3>3
  <2> QED
    BY <2>2, <2>3
<1>5. ASSUME NEW x \in TableReasons(side, d, e) PROVE Given(x, d)
  <2> DEFINE of(f) == Reasons(side, d, "table_access_fact_change", Subject(f), Appended(ToMethod(d, f.from), f))
             from == {f \in ToSet(d.facts) : f.channel = "table" /\ (OnOneSide(f, e) \/ StatusChanged(f, e))}
  <2>1. x \in UNION {of(f) : f \in from}
    BY <1>5 DEF TableReasons
  <2> HIDE DEF of
  <2>2. PICK f \in from : x \in of(f)
    BY <2>1
  <2>3. \A s \in Appended(ToMethod(d, f.from), f) : Source(d, Subject(f), s)
    BY DEF Source
  <2> QED
    BY <1>2, <2>2, <2>3 DEF of
<1>6. ASSUME NEW x \in ResolutionReasons(side, d, e) PROVE Given(x, d)
  <2> DEFINE of(f) == Reasons(side, d, "diagnostic_or_resolution_change", Subject(f),
                              Appended(ToMethod(d, f.from), f))
             from == {f \in ToSet(d.facts) : f.channel = "call" /\ StatusChanged(f, e)}
  <2>1. x \in UNION {of(f) : f \in from}
    BY <1>6 DEF ResolutionReasons
  <2> HIDE DEF of
  <2>2. PICK f \in from : x \in of(f)
    BY <2>1
  <2>3. \A s \in Appended(ToMethod(d, f.from), f) : Source(d, Subject(f), s)
    BY DEF Source
  <2> QED
    BY <1>2, <2>2, <2>3 DEF of
<1>7. ASSUME NEW x \in DiagnosticReasons(side, d, e) PROVE Given(x, d)
  <2> DEFINE of(m) == Reasons(side, d, "diagnostic_or_resolution_change", <<"diagnostic", m>>, ToMethod(d, m))
             from == d.diagnosed \ (doc.diagnosed \cap e.diagnosed)
  <2>1. x \in UNION {of(m) : m \in from}
    BY <1>7 DEF DiagnosticReasons
  <2> HIDE DEF of
  <2>2. PICK m \in from : x \in of(m)
    BY <2>1
  <2>3. \A s \in ToMethod(d, m) : Source(d, <<"diagnostic", m>>, s)
    BY DEF Source
  <2> QED
    BY <1>2, <2>2, <2>3 DEF of
<1>8. ASSUME NEW x \in InteractionReasons(side, d, e) PROVE Given(x, d)
  <2> DEFINE changed == {f \in ToSet(d.facts) : OnOneSide(f, e) \/ StatusChanged(f, e)}
             handlers == (doc.candidates \ e.candidates) \cup (e.candidates \ doc.candidates)
                         \cup (d.dispatches \ (doc.dispatches \cap e.dispatches))
             Due(subject, paths) == Reasons(side, d, "diagnostic_or_resolution_change", subject, paths)
             crossing(f) == Due(Subject(f), ToInteraction(d, f))
             handled(m) == Due(<<"handler", m>>, ToHandler(d, m))
             branching(f) == Due(Subject(f), ToTarget(d, f))
             crossings == {f \in changed : IsInteraction(f)}
             branchings == {f \in changed : BranchesOf(d, f) # {}}
  <2>1. x \in (UNION {crossing(f) : f \in crossings}) \cup (UNION {handled(m) : m \in handlers})
              \cup (UNION {branching(f) : f \in branchings})
    BY <1>8 DEF InteractionReasons
  <2>2. crossings \subseteq ToSet(d.facts) /\ branchings \subseteq ToSet(d.facts)
    OBVIOUS
  <2> HIDE DEF crossing, handled, branching, crossings, branchings, handlers
  <2>3. \/ \E f \in crossings : x \in crossing(f)
        \/ \E m \in handlers : x \in handled(m)
        \/ \E f \in branchings : x \in branching(f)
    BY <2>1
  <2>4. ASSUME NEW f \in crossings, x \in crossing(f) PROVE Given(x, d)
    <3>1. \A s \in ToInteraction(d, f) : Source(d, Subject(f), s)
      BY <2>2 DEF Source
    <3> QED
      BY <1>2, <2>4, <3>1 DEF crossing
  <2>5. ASSUME NEW m \in handlers, x \in handled(m) PROVE Given(x, d)
    <3>1. \A s \in ToHandler(d, m) : Source(d, <<"handler", m>>, s)
      BY DEF Source
    <3> QED
      BY <1>2, <2>5, <3>1 DEF handled
  <2>6. ASSUME NEW f \in branchings, x \in branching(f) PROVE Given(x, d)
    <3>1. \A s \in ToTarget(d, f) : Source(d, Subject(f), s)
      BY <2>2 DEF Source, ToTarget
    <3> QED
      BY <1>2, <2>6, <3>1 DEF branching
  <2> QED
    BY <2>3, <2>4, <2>5, <2>6
<1>9. Given(r, d)
  <2> DEFINE filed == UNION {FileReasons(side, d, file) : file \in e.changed}
  <2>1. r \in DirectReasons(side, d, e) \cup filed \cup TableReasons(side, d, e)
              \cup ResolutionReasons(side, d, e) \cup DiagnosticReasons(side, d, e)
              \cup InteractionReasons(side, d, e)
    BY <1>1 DEF ReasonsOf
  <2>2. r \in filed => \E file : r \in FileReasons(side, d, file)
    OBVIOUS
  <2> HIDE DEF filed
  <2> QED
    BY <1>3, <1>4, <1>5, <1>6, <1>7, <1>8, <2>1, <2>2
<1> QED
  BY <1>1, <1>9 DEF Given

\* What an impact document reports, of a comparison with e.
ReportsTraced(e, reasons) ==
    OneJob /\ OnlyJobsRunBranches =>
        \A i \in {i \in DOMAIN queue : CallsTo(queue[i]) <= Limits.depth} :
            /\ File(queue[i].methodId) \in e.changed =>
                  \E r \in reasons : r.side = "after" /\ r.subject = File(queue[i].methodId)
            /\ \A f \in TableAccesses(queue[i]) : OnOneSide(f, e) =>
                  \E r \in reasons : r.side = "after" /\ r.subject = Subject(f)

ReportsReal(reasons) ==
    doc.candidates = {} /\ OneDispatch =>
        \A r \in reasons :
            r.side = "after" /\ ~ReportedForEveryProducer(r) /\ ~OutsideTheBranches(r) =>
                ToSet(r.path.steps) \subseteq Made(Facts)

LEMMA ChangesAreReported ==
    ASSUME TraceInv, doc.root = "endpoint", NEW e
    PROVE  ReportsTraced(e, ReasonsOf("after", e))
<1> SUFFICES ASSUME OneJob, OnlyJobsRunBranches, NEW i \in DOMAIN queue,
                    CallsTo(queue[i]) <= Limits.depth
             PROVE  /\ File(queue[i].methodId) \in e.changed =>
                          \E r \in ReasonsOf("after", e) :
                              r.side = "after" /\ r.subject = File(queue[i].methodId)
                    /\ \A f \in TableAccesses(queue[i]) : OnOneSide(f, e) =>
                          \E r \in ReasonsOf("after", e) : r.side = "after" /\ r.subject = Subject(f)
  BY DEF ReportsTraced
<1>1. ValidDocument /\ queue[i] \in RealStates
  <2>1. ValidDocument /\ Sound(Accumulator) /\ Accumulator.queue = queue
    BY DEF TraceInv, Accumulator
  <2>2. queue \in Seq(States) /\ \A j \in 1..Len(queue) : queue[j] \in RealStates
    BY <2>1 DEF Sound, Onwards, Accumulators
  <2> QED
    BY <2>1, <2>2, LenProperties
<1>2. PICK m : m = queue[i].methodId
  OBVIOUS
<1>3. ToMethod(doc, m) # {}
  BY <1>1, <1>2, WaysBack
<1>4. Side("after", e) = doc
  BY DEF Side
<1>5. ASSUME File(m) \in e.changed
      PROVE  \E r \in ReasonsOf("after", e) : r.side = "after" /\ r.subject = File(m)
  <2>1. File(m) # EntityFile /\ File(m)[2] = m
    BY DEF File, EntityFile
  <2>2. PICK paths : paths = ToMethod(doc, m)
    OBVIOUS
  <2>3. FileReasons("after", doc, File(m)) =
            Reasons("after", doc, "direct_endpoint_change", File(m), WithoutCalls(paths))
            \cup Reasons("after", doc, "reachable_method_file_change", File(m), paths \ WithoutCalls(paths))
    BY <2>1, <2>2 DEF FileReasons
  <2>4. WithoutCalls(paths) # {} \/ paths \ WithoutCalls(paths) # {}
    BY <1>3, <2>2
  <2>5. PICK r \in FileReasons("after", doc, File(m)) : r.side = "after" /\ r.subject = File(m)
    BY <2>3, <2>4, ReasonsAre
  <2> DEFINE of(file) == FileReasons("after", doc, file)
  <2>6. UNION {of(file) : file \in e.changed} \subseteq ReasonsOf("after", e)
    BY <1>4 DEF ReasonsOf
  <2>7. r \in of(File(m))
    OBVIOUS
  <2> HIDE DEF of
  <2>8. r \in UNION {of(file) : file \in e.changed}
    BY <1>5, <2>7
  <2> QED
    BY <2>5, <2>6, <2>8
<1>6. ASSUME NEW f \in TableAccesses(queue[i]), OnOneSide(f, e)
      PROVE  \E r \in ReasonsOf("after", e) : r.side = "after" /\ r.subject = Subject(f)
  <2>1. f \in Facts /\ f.channel = "table" /\ f.from = m
    BY <1>2 DEF TableAccesses, Direct, FactsOf, Facts
  <2>2. Appended(ToMethod(doc, f.from), f) # {}
    BY <1>3, <2>1 DEF Appended
  <2> DEFINE of(g) == Reasons("after", doc, "table_access_fact_change", Subject(g),
                              Appended(ToMethod(doc, g.from), g))
             from == {g \in ToSet(doc.facts) : g.channel = "table" /\ (OnOneSide(g, e) \/ StatusChanged(g, e))}
  <2>3. PICK r \in of(f) : r.side = "after" /\ r.subject = Subject(f)
    BY <2>2, ReasonsAre
  <2>4. UNION {of(g) : g \in from} \subseteq ReasonsOf("after", e)
    BY <1>4 DEF ReasonsOf, TableReasons
  <2>5. f \in from
    BY <1>6, <2>1 DEF Facts
  <2> HIDE DEF of, from
  <2>6. r \in UNION {of(g) : g \in from}
    BY <2>3, <2>5
  <2> QED
    BY <2>3, <2>4, <2>6
<1> QED
  BY <1>2, <1>5, <1>6

LEMMA ReportedIsReal ==
    ASSUME ValidDocument, NEW e
    PROVE  ReportsReal(ReasonsOf("after", e))
<1> SUFFICES ASSUME PathsAssumed, NEW r \in ReasonsOf("after", e),
                    ~ReportedForEveryProducer(r), ~OutsideTheBranches(r)
             PROVE  ToSet(r.path.steps) \subseteq Made(Facts)
  BY DEF ReportsReal, PathsAssumed
<1>1. PICK s : s = r.path
  OBVIOUS
<1>2. Side("after", e) = doc
  BY DEF Side
<1>3. Source(doc, r.subject, s)
  BY <1>1, <1>2, ReasonsHaveSources
<1>4. Inside(s.steps)
  BY <1>1 DEF Inside, OutsideTheBranches
<1>5. CASE s.steps = <<>>
  <2>1. ToSet(<<>>) = {}
    BY DEF ToSet
  <2> QED
    BY <1>1, <1>5, <2>1
<1>6. ASSUME NEW f \in Facts, f.channel \in {"call", "table"}, r.subject = Subject(f),
             s \in Appended(ToMethod(doc, f.from), f)
      PROVE  Real(s)
  <2>1. f \in ToSet(s.steps)
    BY <1>6, AppendedIsReal
  <2>2. ~IsInteraction(f)
    BY <1>6 DEF IsInteraction
  <2>3. f.from \notin doc.dispatches
    BY <1>1, <1>4, <1>6, <2>1, <2>2 DEF Inside, ReportedForEveryProducer
  <2> QED
    BY <1>6, <2>3, AppendedIsReal
<1>7. s.steps = <<>> \/ Real(s)
  BY <1>3, <1>6, ToMethodIsReal, ToTableIsReal, ToInteractionIsReal, ToHandlerIsReal DEF Source, Facts
<1> QED
  BY <1>1, <1>4, <1>5, <1>7 DEF Real

LEMMA AnalysisIsHonest ==
    ASSUME TraceInv, doc.root = "endpoint", NEW e, NEW reasons,
           reasons = UNION {ReasonsOf(side, e) : side \in Sides}
    PROVE  ReportsTraced(e, reasons) /\ ReportsReal(reasons)
<1>1. \A side \in Sides : ReasonsOf(side, e) \subseteq reasons
  OBVIOUS
<1>2. ReasonsOf("after", e) \subseteq reasons
  BY <1>1 DEF Sides
<1>3. ASSUME NEW r \in reasons, r.side = "after" PROVE r \in ReasonsOf("after", e)
  <2>1. PICK side \in Sides : r \in ReasonsOf(side, e)
    OBVIOUS
  <2> QED
    BY <1>3, <2>1, ReasonsHaveSources
<1>4. ReportsTraced(e, reasons)
  BY <1>2, ChangesAreReported DEF ReportsTraced
<1>5. ReportsReal(reasons)
  BY <1>3, ReportedIsReal DEF ReportsReal, TraceInv
<1> QED
  BY <1>4, <1>5

\* It is read from the document and the queue.
LEMMA ReportsStay ==
    ASSUME doc' = doc, queue' = queue, NEW e, NEW reasons
    PROVE  /\ ReportsTraced(e, reasons)' <=> ReportsTraced(e, reasons)
           /\ ReportsReal(reasons)' <=> ReportsReal(reasons)
<1>1. Facts' = Facts
  BY DEF Facts
<1>2. (OneJob' <=> OneJob) /\ (OnlyJobsRunBranches' <=> OnlyJobsRunBranches) /\ (OneDispatch' <=> OneDispatch)
  BY DEF OneJob, OnlyJobsRunBranches, OneDispatch
<1>3. \A s : TableAccesses(s)' = TableAccesses(s)
  BY DEF TableAccesses, Direct, FactsOf
<1>4. \A f : OnOneSide(f, e)' <=> OnOneSide(f, e)
  BY DEF OnOneSide, FactsNamed, Side
<1>5. Limits' = Limits
  BY DEF Limits
<1>6. ReportsTraced(e, reasons)' <=> ReportsTraced(e, reasons)
  BY <1>2, <1>3, <1>4, <1>5 DEF ReportsTraced
<1>7. \A f : BranchesOf(doc, f)' = BranchesOf(doc, f)
  BY DEF BranchesOf
<1>8. \A r : /\ ReportedForEveryProducer(r)' <=> ReportedForEveryProducer(r)
             /\ OutsideTheBranches(r)' <=> OutsideTheBranches(r)
  BY <1>7 DEF ReportedForEveryProducer, OutsideTheBranches
<1>9. Made(Facts)' = Made(Facts)
  <2>1. Places(Facts) = Within[MaxArrows] /\ Places(Facts)' = Within'[MaxArrows]
    BY DEF Places, Within
  <2>2. Places(Facts)' = Places(Facts)
    BY <2>1, TheDocumentStays
  <2>3. \A p : FactsAt(Facts, p)' = FactsAt(Facts, p)
    BY <1>1 DEF FactsAt
  <2> QED
    BY <2>2, <2>3 DEF Made
<1>10. ReportsReal(reasons)' <=> ReportsReal(reasons)
  BY <1>2, <1>8, <1>9 DEF ReportsReal
<1> QED
  BY <1>6, <1>10

\* A comparison is analysed when the trace is over, and then nothing changes.
ImpactInv ==
    /\ TraceInv
    /\ earlier # NotCompared =>
          /\ pc = "done"
          /\ \E e, reasons : /\ earlier = e /\ impact.reasons = reasons
                             /\ ReportsTraced(e, reasons) /\ ReportsReal(reasons)

LEMMA AnalysisKeeps == ImpactInv /\ [ImpactNext]_impactVars => ImpactInv'
<1> SUFFICES ASSUME ImpactInv, [ImpactNext]_impactVars PROVE ImpactInv'
  OBVIOUS
<1>1. [TracesNext]_vars
  BY DEF ImpactNext, Trace, AnalyzeImpact, impactVars, vars
<1>2. TraceInv'
  BY <1>1, TracesKeep DEF ImpactInv
<1>3. CASE UNCHANGED <<earlier, impact>>
  <2> SUFFICES ASSUME earlier # NotCompared
               PROVE  /\ pc' = "done"
                      /\ \E e, reasons :
                            /\ earlier' = e /\ impact'.reasons = reasons
                            /\ ReportsTraced(e, reasons)' /\ ReportsReal(reasons)'
    BY <1>2, <1>3 DEF ImpactInv, NotCompared
  <2>1. PICK e, reasons : /\ earlier = e /\ impact.reasons = reasons
                          /\ ReportsTraced(e, reasons) /\ ReportsReal(reasons)
    BY DEF ImpactInv
  <2>2. pc = "done"
    BY DEF ImpactInv
  <2>3. UNCHANGED vars
    BY <1>1, <2>2 DEF TracesNext, Next, Refuse, Start, Visit, Finish, RefuseHandler, StartHandler,
       VisitFromHandler, vars
  <2>4. ReportsTraced(e, reasons)' /\ ReportsReal(reasons)'
    BY <2>1, <2>3, ReportsStay DEF vars
  <2> QED
    BY <1>3, <2>1, <2>2, <2>3, <2>4 DEF vars
<1>4. CASE AnalyzeImpact
  <2>1. UNCHANGED vars /\ pc = "done" /\ doc.root = "endpoint"
    BY <1>4 DEF AnalyzeImpact, vars
  <2>2. PICK e : earlier' = e /\ impact' = [reasons |-> UNION {ReasonsOf(side, e) : side \in Sides},
                                            unreachable |-> Unreachable(e)]
    BY <1>4 DEF AnalyzeImpact
  <2>3. PICK reasons : reasons = UNION {ReasonsOf(side, e) : side \in Sides}
    OBVIOUS
  <2>4. ReportsTraced(e, reasons) /\ ReportsReal(reasons)
    BY <2>1, <2>3, AnalysisIsHonest DEF ImpactInv
  <2>5. ReportsTraced(e, reasons)' /\ ReportsReal(reasons)'
    BY <2>1, <2>4, ReportsStay DEF vars
  <2> QED
    BY <1>2, <2>1, <2>2, <2>3, <2>5 DEF ImpactInv, vars
<1> QED
  BY <1>3, <1>4 DEF ImpactNext, Trace, impactVars

(***************************************************************************)
(* The impact is honest, for any program, any limits and any earlier       *)
(* document: what the trace passes within the calls the impact counts is   *)
(* reported when it changed, and what is reported can happen.              *)
(* (analyzePotentialImpact of src/src/impact/analyze.ts and                *)
(* pathsFromEndpoints of src/src/impact/graph.ts).                         *)
(***************************************************************************)
THEOREM ImpactHonest == ImpactSpec => []ImpactIsHonest
<1>1. ImpactInit => ImpactInv
  BY StartsRight DEF ImpactInit, ImpactInv
<1>2. ImpactInv => ImpactIsHonest
  <2> SUFFICES ASSUME ImpactInv, Compared PROVE ImpactIsHonest
    BY DEF ImpactIsHonest, TracedChangesAreReported, ReportedPathsAreReal
  <2>1. ReportsTraced(earlier, impact.reasons) /\ ReportsReal(impact.reasons)
    BY DEF ImpactInv, Compared
  <2>2. TracedChangesAreReported
    BY <2>1 DEF TracedChangesAreReported, ReportsTraced
  <2>3. ReportedPathsAreReal
    BY <2>1 DEF ReportedPathsAreReal, ReportsReal, OneDispatch, Made, Facts
  <2> QED
    BY <2>2, <2>3 DEF ImpactIsHonest
<1> QED
  BY <1>1, <1>2, AnalysisKeeps, PTL DEF ImpactSpec

=============================================================================
