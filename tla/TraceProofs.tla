------------------------------ MODULE TraceProofs ------------------------------
(***************************************************************************)
(* The walk from an endpoint or a handler, for any program and any limits: *)
(* the trace makes no effect up, and one without diagnostics hides nothing *)
(* the program can reach.                                                  *)
(***************************************************************************)
EXTENDS HandlerTrace, SequenceTheorems, FiniteSetTheorems, WellFoundedInduction, TLAPS

-----------------------------------------------------------------------------
(***************************************************************************)
(* Counting and folding.                                                   *)
(***************************************************************************)
\* A set of numbers with an element has a least one.
LEMMA LeastNumber ==
    ASSUME NEW T \in SUBSET Nat, T # {}
    PROVE  \E n \in T : \A m \in T : n <= m
<1> DEFINE R == OpToRel(<, Nat)
<1>1. IsWellFoundedOn(R, Nat)
  BY NatLessThanWellFounded
<1>2. R = {ss \in Nat \X Nat : ss[1] < ss[2]}
  BY DEF OpToRel
<1> HIDE DEF R
<1>3. PICK x \in T : \A y \in T : <<y, x>> \notin R
  BY <1>1, WFMin
<1>4. \A y \in T : ~(y < x)
  BY <1>2, <1>3
<1> QED
  BY <1>4

\* A set that has 0, and with every number up to N the next, has them all.
LEMMA CountingUp ==
    ASSUME NEW N \in Nat, NEW T, 0 \in T, \A n \in 1..N : n - 1 \in T => n \in T
    PROVE  \A n \in 0..N : n \in T
<1> SUFFICES ASSUME (0..N) \ T # {} PROVE FALSE
  OBVIOUS
<1>1. PICK m \in (0..N) \ T : \A l \in (0..N) \ T : m <= l
  BY LeastNumber, (0..N) \ T \in SUBSET Nat
<1>2. m # 0 /\ m \in 1..N /\ m - 1 \in 0..N /\ ~(m <= m - 1)
  BY <1>1
<1>3. m - 1 \in T
  BY <1>1, <1>2
<1> QED
  BY <1>1, <1>2, <1>3

LEMMA MaxIs ==
    ASSUME NEW S \in SUBSET Nat, NEW n \in S, \A m \in S : m <= n
    PROVE  Max(S) = n
<1>1. \A x \in S : (\A y \in S : x >= y) => x = n
  OBVIOUS
<1>2. n \in S /\ \A y \in S : n >= y
  OBVIOUS
<1> QED
  BY <1>1, <1>2 DEF Max

LEMMA MaxIsIn ==
    ASSUME NEW N \in Nat, NEW S \in SUBSET (1..N), S # {}
    PROVE  Max(S) \in S
<1> DEFINE T == {k \in 0..N : N - k \in S}
<1>1. T \in SUBSET Nat /\ T # {}
  <2>1. PICK x \in S : TRUE
    OBVIOUS
  <2>2. N - x \in 0..N /\ N - (N - x) = x
    OBVIOUS
  <2>3. N - x \in T
    BY <2>2
  <2>4. \A k \in T : k \in Nat
    OBVIOUS
  <2> HIDE DEF T
  <2> QED
    BY <2>3, <2>4
<1> HIDE DEF T
<1>2. PICK k \in T : \A l \in T : k <= l
  BY <1>1, LeastNumber
<1>3. k \in 0..N /\ N - k \in S
  BY DEF T
<1>4. \A m \in S : m <= N - k
  <2> TAKE m \in S
  <2>1. N - m \in 0..N /\ N - (N - m) = m /\ m \in 0..N
    OBVIOUS
  <2>2. N - m \in T
    BY <2>1 DEF T
  <2>3. k <= N - m
    BY <1>2, <2>2
  <2> QED
    BY <1>3, <2>1, <2>3
<1>5. S \in SUBSET Nat
  OBVIOUS
<1> QED
  BY <1>3, <1>4, <1>5, MaxIs

\* The steps up to n, folded over the sets of their numbers.
Folded(n, base, step, iter) ==
    \A S \in SUBSET (1..n) :
        iter[S] = IF S = {} THEN base ELSE step[Max(S)][iter[S \ {Max(S)}]]

\* The function by which FoldLeft is defined exists, if the steps stay in a set.
LEMMA FoldExists ==
    ASSUME NEW A, NEW base \in A, NEW N \in Nat, NEW step \in [1..N -> [A -> A]]
    PROVE  \E iter \in [SUBSET (1..N) -> A] : Folded(N, base, step, iter)
<1> DEFINE Folds(n, iter) == Folded(n, base, step, iter)
           T == {n \in 0..N : \E iter \in [SUBSET (1..n) -> A] : Folds(n, iter)}
<1>1. 0 \in T
  <2> DEFINE iter == [S \in SUBSET (1..0) |-> base]
  <2>1. iter \in [SUBSET (1..0) -> A]
    OBVIOUS
  <2>2. \A S \in SUBSET (1..0) : S = {}
    OBVIOUS
  <2>3. Folds(0, iter)
    BY <2>2 DEF Folded
  <2> HIDE DEF iter, Folds
  <2>4. \E h \in [SUBSET (1..0) -> A] : Folds(0, h)
    BY <2>1, <2>3
  <2> QED
    BY <2>4, 0 \in 0..N
<1>2. ASSUME NEW n \in 1..N, n - 1 \in T PROVE n \in T
  <2>1. PICK h \in [SUBSET (1..(n - 1)) -> A] : Folds(n - 1, h)
    BY <1>2
  <2> DEFINE g == [S \in SUBSET (1..n) |->
                        IF n \in S THEN step[n][h[S \ {n}]] ELSE h[S]]
  <2>2. \A S \in SUBSET (1..n) :
            /\ S \ {n} \in SUBSET (1..(n - 1))
            /\ n \notin S => S \in SUBSET (1..(n - 1))
    OBVIOUS
  <2>3. g \in [SUBSET (1..n) -> A]
    <3>1. \A S \in SUBSET (1..n) : h[S \ {n}] \in A /\ (n \notin S => h[S] \in A)
      BY <2>2
    <3>2. step[n] \in [A -> A]
      BY n \in 1..N
    <3> QED
      BY <3>1, <3>2
  <2>4. ASSUME NEW S \in SUBSET (1..n)
        PROVE  g[S] = IF S = {} THEN base ELSE step[Max(S)][g[S \ {Max(S)}]]
    <3>1. CASE n \in S
      <4>1. Max(S) = n
        <5>1. S \in SUBSET Nat /\ \A m \in S : m <= n
          BY <2>4
        <5> QED
          BY <3>1, <5>1, MaxIs
      <4>2. S \ {n} \in SUBSET (1..n) /\ n \notin S \ {n}
        OBVIOUS
      <4>3. g[S \ {n}] = h[S \ {n}]
        BY <4>2
      <4>4. g[S] = step[n][h[S \ {n}]]
        BY <3>1
      <4> HIDE DEF g
      <4> QED
        BY <3>1, <4>1, <4>3, <4>4
    <3>2. CASE n \notin S
      <4>1. S \in SUBSET (1..(n - 1)) /\ S \ {Max(S)} \in SUBSET (1..(n - 1))
        BY <2>2, <3>2
      <4>2. S \ {Max(S)} \in SUBSET (1..n) /\ n \notin S \ {Max(S)}
        BY <3>2
      <4>3. g[S] = h[S] /\ g[S \ {Max(S)}] = h[S \ {Max(S)}]
        BY <3>2, <4>2
      <4>4. h[S] = IF S = {} THEN base ELSE step[Max(S)][h[S \ {Max(S)}]]
        BY <2>1, <4>1 DEF Folded
      <4> HIDE DEF g
      <4> QED
        BY <4>3, <4>4
    <3> QED
      BY <3>1, <3>2
  <2> HIDE DEF g
  <2>5. Folds(n, g)
    BY <2>4 DEF Folded
  <2> HIDE DEF Folds
  <2> QED
    BY <2>3, <2>5
<1>3. N \in T
  <2> HIDE DEF T
  <2> QED
    BY <1>1, <1>2, CountingUp, N \in 0..N
<1> QED
  BY <1>3

\* The same as far as the steps are known.
FoldedWithin(n, A, base, step, iter) ==
    \A S \in SUBSET (1..n) :
        iter[S] = IF S = {} THEN base
                  ELSE IF iter[S \ {Max(S)}] \in A THEN step[Max(S)][iter[S \ {Max(S)}]]
                  ELSE iter[S]

\* The steps taken one after the other.
Taken(N, base, step, after) ==
    /\ after[0] = base
    /\ \A n \in 1..N : after[n] = step[n][after[n - 1]]

\* What such a function gives for the numbers up to n is what the first n
\* steps give, one after the other.
LEMMA FoldRuns ==
    ASSUME NEW A, NEW base \in A, NEW N \in Nat, NEW step \in [1..N -> [A -> A]],
           NEW iter, FoldedWithin(N, A, base, step, iter)
    PROVE  \E after \in [0..N -> A] : Taken(N, base, step, after) /\ after[N] = iter[1..N]
<1> DEFINE after == [n \in 0..N |-> iter[1..n]]
           T == {n \in 0..N : iter[1..n] \in A}
<1>0. FoldedWithin(N, A, base, step, iter)
  OBVIOUS
<1>1. iter[1..0] = base
  <2>1. 1..0 = {} /\ {} \in SUBSET (1..N)
    OBVIOUS
  <2> QED
    BY <1>0, <2>1 DEF FoldedWithin
<1>2. ASSUME NEW n \in 1..N, iter[1..(n - 1)] \in A
      PROVE  iter[1..n] = step[n][iter[1..(n - 1)]]
  <2>1. 1..n \in SUBSET (1..N) /\ 1..n # {} /\ (1..n) \ {n} = 1..(n - 1)
    <3>1. \A m \in 1..n : m \in 1..N /\ (m # n => m \in 1..(n - 1))
      OBVIOUS
    <3>2. \A m \in 1..(n - 1) : m \in 1..n /\ m # n
      OBVIOUS
    <3>3. n \in 1..n
      OBVIOUS
    <3> QED
      BY <3>1, <3>2, <3>3
  <2>2. Max(1..n) = n
    <3>1. n \in 1..n /\ 1..n \in SUBSET Nat /\ \A m \in 1..n : m <= n
      OBVIOUS
    <3> QED
      BY <3>1, MaxIs
  <2> QED
    BY <1>0, <1>2, <2>1, <2>2 DEF FoldedWithin
<1>3. 0 \in T
  BY <1>1
<1>4. ASSUME NEW n \in 1..N, n - 1 \in T PROVE n \in T
  <2>1. iter[1..(n - 1)] \in A
    BY <1>4
  <2>2. step[n] \in [A -> A]
    BY n \in 1..N
  <2>3. iter[1..n] \in A
    BY <1>2, <2>1, <2>2
  <2> QED
    BY <2>3
<1>5. \A n \in 0..N : n \in T
  <2> HIDE DEF T
  <2> QED
    BY <1>3, <1>4, CountingUp
<1>6. after \in [0..N -> A]
  BY <1>5
<1>7. ASSUME NEW n \in 1..N PROVE after[n] = step[n][after[n - 1]]
  <2>1. n \in 0..N /\ n - 1 \in 0..N
    OBVIOUS
  <2>2. iter[1..(n - 1)] \in A
    BY <1>5, <2>1
  <2>3. after[n] = iter[1..n] /\ after[n - 1] = iter[1..(n - 1)]
    BY <2>1
  <2> HIDE DEF after
  <2> QED
    BY <1>2, <2>2, <2>3
<1>8. after[0] = base /\ after[N] = iter[1..N]
  BY <1>1
<1> HIDE DEF after
<1> QED
  BY <1>6, <1>7, <1>8 DEF Taken

\* Steps can be taken one after the other.
LEMMA StepsRun ==
    ASSUME NEW A, NEW base \in A, NEW N \in Nat, NEW step \in [1..N -> [A -> A]]
    PROVE  \E after \in [0..N -> A] : Taken(N, base, step, after)
<1>1. PICK iter \in [SUBSET (1..N) -> A] : Folded(N, base, step, iter)
  BY FoldExists
<1>2. \A S \in SUBSET (1..N) : S \ {Max(S)} \in SUBSET (1..N) /\ iter[S \ {Max(S)}] \in A
  <2> TAKE S \in SUBSET (1..N)
  <2>1. S \ {Max(S)} \in SUBSET (1..N)
    OBVIOUS
  <2> QED
    BY <2>1
<1>3. FoldedWithin(N, A, base, step, iter)
  BY <1>1, <1>2 DEF Folded, FoldedWithin
<1> QED
  BY <1>3, FoldRuns

-----------------------------------------------------------------------------
(***************************************************************************)
(* The states of the walk, and what a visit accumulates.                   *)
(***************************************************************************)
States ==
    [methodId : Methods, depth : Nat, hop : Nat, class : Classes \cup {NoClass}, filter : Filters,
     path : SUBSET Methods]

Keys == Methods \X Nat \X Nat \X (Classes \cup {NoClass}) \X Filters

WalkCodes ==
    {"INTERACTION_TRACE_LIMIT_REACHED", "INTERACTION_CYCLE_TRUNCATED", "CALL_DEPTH_LIMIT", "document"}
WalkReasons == {"states", "cycle", "hops", "fan-out", "depth", "document"}

Accumulators ==
    [queue : Seq(States), seen : SUBSET Keys, diagnostics : SUBSET (WalkCodes \X Methods \X WalkReasons)]

\* A document the walk can be started on.
ValidDocument ==
    /\ doc.facts \in Seq(Assertions)
    /\ \A f \in ToSet(doc.facts) : f.channel = "call" => f.to # <<>>
    /\ doc.configuration \in Configurations
    /\ doc.implementations \in Seq(Methods)
    /\ doc.timings \in [Methods -> Timings]
    /\ doc.root \in {"endpoint", "queue"} \cup Timings

\* The queue only grows, at its end.
Grows(a, b) ==
    /\ Len(a.queue) <= Len(b.queue)
    /\ \A i \in 1..Len(a.queue) : b.queue[i] = a.queue[i]
    /\ a.diagnostics \subseteq b.diagnostics

\* The queue holds a state of this key.
Holds(acc, key) == \E j \in 1..Len(acc.queue) : Key(acc.queue[j]) = key

\* The queue holds a state of this key, unless the limit of states was met.
Enqueued(acc, key) == Holds(acc, key) \/ StateLimitReported(acc)

\* Or there is another diagnostic.
Crossed(acc, key) == Holds(acc, key) \/ acc.diagnostics # {}

\* No handler of the interaction is left out, or there is a diagnostic.
Spread(acc, f) == ~(Len(f.to) > Limits.fanOut) \/ acc.diagnostics # {}

\* The whole of a method is in the queue, not only a branch or section of it.
Whole(acc, m) ==
    \E j \in 1..Len(acc.queue) : acc.queue[j].methodId = m /\ acc.queue[j].filter = "*"

\* The methods on the way to a state are in the queue, whole if they have no
\* branches.
PathsKept(acc) ==
    \A i \in 1..Len(acc.queue) : \A m \in acc.queue[i].path \ doc.dispatches : Whole(acc, m)

Coherent(acc) == \A key \in acc.seen : Holds(acc, key)

\* The methods that the recorded facts of a state lead to.
LeadsTo(s) ==
    {f.to[1] : f \in {f \in Calls(s) : s.depth < Limits.depth}}
    \cup UNION {ToSet(Matches(f)) : f \in Interactions(s)}

\* A set with the roots, and with what its states in the queue lead to.
ClosedUnder(acc, L) ==
    /\ ToSet(doc.implementations) \subseteq L
    /\ \A i \in 1..Len(acc.queue) : acc.queue[i].methodId \in L => LeadsTo(acc.queue[i]) \subseteq L

\* Every such set has all methods of the queue.
Connected(acc) ==
    \A L : ClosedUnder(acc, L) => \A i \in 1..Len(acc.queue) : acc.queue[i].methodId \in L

\* The method is a root, or a state in the queue is of it or leads to it.
Sprung(acc, m) ==
    \/ m \in ToSet(doc.implementations)
    \/ \E i \in 1..Len(acc.queue) : m = acc.queue[i].methodId \/ m \in LeadsTo(acc.queue[i])

\* The accumulators that a visit of the states in X can get to from acc.
Onwards(acc, X) ==
    {a \in Accumulators :
        /\ Grows(acc, a)
        /\ Coherent(a)
        /\ PathsKept(a)
        /\ Connected(a)
        /\ \A i \in 1..Len(a.queue) : a.queue[i] \in X}

LEMMA GrowthIsTransitive ==
    ASSUME NEW a \in Accumulators, NEW b \in Accumulators, NEW c \in Accumulators,
           Grows(a, b), Grows(b, c)
    PROVE  Grows(a, c)
<1>1. Len(a.queue) \in Nat /\ Len(b.queue) \in Nat /\ Len(c.queue) \in Nat
  BY LenProperties DEF Accumulators
<1> QED
  BY <1>1 DEF Grows

LEMMA GrowthIsReflexive ==
    ASSUME NEW a \in Accumulators
    PROVE  Grows(a, a)
<1>1. Len(a.queue) \in Nat
  BY LenProperties DEF Accumulators
<1> QED
  BY <1>1 DEF Grows

\* What the queue has it keeps.
LEMMA GrowthKeeps ==
    ASSUME NEW a \in Accumulators, NEW b \in Accumulators, Grows(a, b)
    PROVE  /\ \A key : Holds(a, key) => Holds(b, key)
           /\ \A m : Whole(a, m) => Whole(b, m)
           /\ b.diagnostics = {} => a.diagnostics = {}
           /\ StateLimitReported(a) => StateLimitReported(b)
<1>1. Len(a.queue) \in Nat /\ Len(b.queue) \in Nat
  BY LenProperties DEF Accumulators
<1>2. \A j \in 1..Len(a.queue) : j \in 1..Len(b.queue) /\ b.queue[j] = a.queue[j]
  BY <1>1 DEF Grows
<1> QED
  BY <1>2 DEF Grows, Holds, Whole, StateLimitReported

LEMMA OnwardsFrom ==
    ASSUME NEW X, NEW a \in Accumulators, NEW b \in Onwards(a, X)
    PROVE  Onwards(b, X) \subseteq Onwards(a, X)
<1>1. b \in Accumulators /\ Grows(a, b)
  BY DEF Onwards
<1> QED
  BY <1>1, GrowthIsTransitive DEF Onwards

\* Accumulators that grow step by step grow from any of them to any later one.
LEMMA GrowsAlong ==
    ASSUME NEW N \in Nat, NEW after \in [0..N -> Accumulators],
           \A n \in 1..N : Grows(after[n - 1], after[n])
    PROVE  \A n \in 0..N : Grows(after[n], after[N])
<1> SUFFICES ASSUME NEW m \in 0..N PROVE Grows(after[m], after[N])
  OBVIOUS
<1> DEFINE T == {n \in 0..N : m <= n => Grows(after[m], after[n])}
<1>1. 0 \in T
  <2>1. m <= 0 => m = 0
    OBVIOUS
  <2> QED
    BY <2>1, GrowthIsReflexive
<1>2. ASSUME NEW n \in 1..N, n - 1 \in T PROVE n \in T
  <2>1. n - 1 \in 0..N /\ n \in 0..N
    OBVIOUS
  <2>2. CASE m <= n - 1
    <3>1. Grows(after[m], after[n - 1])
      BY <1>2, <2>2
    <3>2. Grows(after[m], after[n])
      BY <2>1, <3>1, GrowthIsTransitive
    <3> QED
      BY <2>1, <3>2
  <2>3. CASE m = n
    BY <2>1, <2>3, GrowthIsReflexive
  <2>4. CASE m > n
    BY <2>1, <2>4
  <2> QED
    BY <2>1, <2>2, <2>3, <2>4
<1> HIDE DEF T
<1>3. N \in T
  BY <1>1, <1>2, CountingUp, N \in 0..N
<1> USE DEF T
<1> QED
  BY <1>3

-----------------------------------------------------------------------------
LEMMA DiagnoseKeeps ==
    ASSUME NEW X, NEW acc \in Accumulators, acc \in Onwards(acc, X),
           NEW code \in WalkCodes, NEW m \in Methods, NEW reason \in WalkReasons
    PROVE  /\ Diagnose(acc, code, m, reason) \in Onwards(acc, X)
           /\ Diagnose(acc, code, m, reason).diagnostics # {}
<1> DEFINE b == Diagnose(acc, code, m, reason)
<1>1. b \in Accumulators
  BY DEF Diagnose, Accumulators
<1>2. /\ b.queue = acc.queue /\ b.seen = acc.seen
      /\ b.diagnostics = acc.diagnostics \cup {<<code, m, reason>>}
  BY DEF Diagnose, Accumulators
<1> HIDE DEF b
<1>3. Grows(acc, b) /\ Coherent(b) /\ PathsKept(b) /\ Connected(b)
  BY <1>2 DEF Onwards, Grows, Coherent, Holds, PathsKept, Whole, Connected, ClosedUnder
<1>4. b \in Onwards(acc, X)
  BY <1>1, <1>2, <1>3 DEF Onwards
<1>5. b.diagnostics # {}
  BY <1>2
<1> QED
  BY <1>4, <1>5 DEF b

\* Enqueueing a state keeps it, or one like it, or says that it did not.
LEMMA EnqueueKeeps ==
    ASSUME NEW X \in SUBSET States, NEW acc \in Accumulators, acc \in Onwards(acc, X),
           NEW s \in X, s.methodId \in s.path, Sprung(acc, s.methodId),
           \A m \in s.path \ doc.dispatches : Whole(acc, m) \/ (m = s.methodId /\ s.filter = "*")
    PROVE  /\ Enqueue(acc, s) \in Onwards(acc, X)
           /\ Enqueued(Enqueue(acc, s), Key(s))
<1> DEFINE b == Enqueue(acc, s)
<1>0. s \in States /\ Key(s) \in Keys /\ s.methodId \in Methods
  BY DEF States, Key, Keys
<1>1. CASE Key(s) \in acc.seen
  <2>1. b = acc
    BY <1>1 DEF Enqueue
  <2> QED
    BY <1>1, <2>1 DEF Onwards, Coherent, Enqueued
<1>2. CASE Key(s) \notin acc.seen /\ Cardinality(acc.seen) >= Limits.states
  <2>1. b = IF StateLimitReported(acc) THEN acc
            ELSE Diagnose(acc, "INTERACTION_TRACE_LIMIT_REACHED", s.methodId, "states")
    BY <1>2 DEF Enqueue
  <2>2. CASE StateLimitReported(acc)
    BY <2>1, <2>2 DEF Enqueued
  <2>3. CASE ~StateLimitReported(acc)
    <3>1. b \in Onwards(acc, X)
      BY <1>0, <2>1, <2>3, DiagnoseKeeps DEF WalkCodes, WalkReasons
    <3>2. <<"INTERACTION_TRACE_LIMIT_REACHED", s.methodId, "states">> \in b.diagnostics
      BY <2>1, <2>3 DEF Diagnose, Accumulators
    <3> QED
      BY <3>1, <3>2 DEF Enqueued, StateLimitReported
  <2> QED
    BY <2>2, <2>3
<1>3. CASE Key(s) \notin acc.seen /\ ~(Cardinality(acc.seen) >= Limits.states)
  <2>1. b = [acc EXCEPT !.queue = Append(@, s), !.seen = @ \cup {Key(s)}]
    BY <1>3 DEF Enqueue
  <2>2. acc.queue \in Seq(States)
    BY DEF Accumulators
  <2>3. /\ b.queue = Append(acc.queue, s) /\ b.seen = acc.seen \cup {Key(s)}
        /\ b.diagnostics = acc.diagnostics
    BY <2>1 DEF Accumulators
  <2>4. b \in Accumulators
    <3>1. Append(acc.queue, s) \in Seq(States)
      BY <1>0, <2>2, AppendProperties
    <3>2. acc.seen \cup {Key(s)} \in SUBSET Keys
      BY <1>0 DEF Accumulators
    <3> QED
      BY <2>1, <3>1, <3>2 DEF Accumulators
  <2>5. /\ Len(acc.queue) \in Nat /\ Len(b.queue) = Len(acc.queue) + 1
        /\ \A i \in 1..Len(acc.queue) : b.queue[i] = acc.queue[i]
        /\ b.queue[Len(acc.queue) + 1] = s
    BY <1>0, <2>2, <2>3, AppendProperties, LenProperties
  <2> HIDE DEF b
  <2>6. Grows(acc, b)
    BY <2>3, <2>5 DEF Grows
  <2>7. Holds(b, Key(s))
    BY <2>5 DEF Holds
  <2>8. Coherent(b)
    <3>1. \A key \in acc.seen : Holds(b, key)
      BY <2>4, <2>6, GrowthKeeps DEF Onwards, Coherent
    <3> QED
      BY <2>3, <2>7, <3>1 DEF Coherent
  <2>9. PathsKept(b)
    <3> SUFFICES ASSUME NEW i \in 1..Len(b.queue), NEW m \in b.queue[i].path \ doc.dispatches
                 PROVE  Whole(b, m)
      BY DEF PathsKept
    <3>1. \A n : Whole(acc, n) => Whole(b, n)
      BY <2>4, <2>6, GrowthKeeps
    <3>2. s.filter = "*" => Whole(b, s.methodId)
      BY <2>5 DEF Whole
    <3>3. CASE i \in 1..Len(acc.queue)
      BY <2>5, <3>1, <3>3 DEF Onwards, PathsKept
    <3>4. CASE i = Len(acc.queue) + 1
      BY <2>5, <3>1, <3>2, <3>4
    <3> QED
      BY <2>5, <3>3, <3>4
  <2>10. Connected(b)
    <3> SUFFICES ASSUME NEW L, ClosedUnder(b, L)
                 PROVE  \A i \in 1..Len(b.queue) : b.queue[i].methodId \in L
      BY DEF Connected
    <3>1. ClosedUnder(acc, L)
      BY <2>5 DEF ClosedUnder
    <3>2. \A i \in 1..Len(acc.queue) : acc.queue[i].methodId \in L
      BY <3>1 DEF Onwards, Connected
    <3>3. s.methodId \in L
      BY <3>1, <3>2 DEF Sprung, ClosedUnder
    <3>4. \A i \in 1..Len(b.queue) : i \in 1..Len(acc.queue) \/ i = Len(acc.queue) + 1
      BY <2>5
    <3> QED
      BY <2>5, <3>2, <3>3, <3>4
  <2>11. \A i \in 1..Len(b.queue) : b.queue[i] \in X
    <3> TAKE i \in 1..Len(b.queue)
    <3>1. i \in 1..Len(acc.queue) \/ i = Len(acc.queue) + 1
      BY <2>5
    <3> QED
      BY <2>5, <3>1 DEF Onwards
  <2> QED
    BY <2>4, <2>6, <2>7, <2>8, <2>9, <2>10, <2>11 DEF Onwards, Enqueued, b
<1> QED
  BY <1>1, <1>2, <1>3

-----------------------------------------------------------------------------
(***************************************************************************)
(* The places of the program.                                              *)
(***************************************************************************)
AllPlaces ==
    {p \in [methodId : Methods, filter : Filters, queued : BOOLEAN, locked : BOOLEAN,
            timing : {"none", "queue"} \cup Timings] :
        p.queued \/ p.timing \in {"none"} \cup Timings}

Facts == ToSet(doc.facts)

OneMore(before) == before \cup UNION {ArrowsFrom(Facts, p) : p \in before}

\* The places that are reached by a number of arrows.
Within[n \in 0..MaxArrows] ==
    IF n = 0 THEN {RootPlace(m) : m \in ToSet(doc.implementations)}
    ELSE LET before == Within[n - 1]
         IN  before \cup UNION {ArrowsFrom(Facts, p) : p \in before}

LEMMA PlacesAreWithin == Places(Facts) = Within[MaxArrows]
BY DEF Places, Within

LEMMA MaxArrowsIsANumber ==
    Cardinality(Methods) \in Nat /\ MaxArrows \in Nat /\ MaxArrows = 4 * Cardinality(Methods)
BY MethodsAssumption, FS_CardinalityType DEF MaxArrows

LEMMA FactsAreTyped ==
    ASSUME ValidDocument, NEW f \in Facts
    PROVE  /\ f \in Assertions
           /\ f.from \in Methods /\ f.to \in Seq(Methods) /\ f.job \in Jobs
           /\ f.region \in {"body", "section"} \cup Jobs
           /\ f.channel \in {"call", "table", "sync", "async", "queue"}
           /\ ToSet(f.to) \subseteq Methods
           /\ f.channel = "call" => f.to # <<>> /\ f.to[1] \in Methods
<1>1. Facts \subseteq Assertions
  <2>1. doc.facts \in Seq(Assertions)
    BY DEF ValidDocument
  <2>2. \A i \in DOMAIN doc.facts : doc.facts[i] \in Assertions
    BY <2>1, ElementOfSeq, LenProperties
  <2> QED
    BY <2>2 DEF Facts, ToSet
<1>2. f \in Assertions
  BY <1>1
<1>3. /\ f.from \in Methods /\ f.to \in Seq(Methods) /\ f.job \in Jobs
      /\ f.region \in {"body", "section"} \cup Jobs
      /\ f.channel \in {"call", "table", "sync", "async", "queue"}
  BY <1>2 DEF Assertions
<1>4. ToSet(f.to) \subseteq Methods
  <2>1. \A i \in DOMAIN f.to : f.to[i] \in Methods
    BY <1>3, ElementOfSeq, LenProperties
  <2> QED
    BY <2>1 DEF ToSet
<1>5. f.channel = "call" => f.to # <<>>
  BY DEF ValidDocument, Facts
<1>6. f.to # <<>> => f.to[1] \in Methods
  BY <1>3, EmptySeq, ElementOfSeq, LenProperties
<1> QED
  BY <1>2, <1>3, <1>4, <1>5, <1>6

\* What decides the class of a crossing is known of every handler.
LEMMA TimingsAreTyped ==
    ASSUME ValidDocument, NEW f \in Facts, f.channel \in {"sync", "async", "queue"}, NEW m \in Methods
    PROVE  /\ TimingOf(f, m) \in {"queue"} \cup Timings
           /\ TimingOf(f, m) = "queue" <=> f.channel = "queue"
<1>1. doc.timings[m] \in Timings
  BY DEF ValidDocument
<1> QED
  BY <1>1 DEF TimingOf, Timings

LEMMA RootsArePlaces ==
    ASSUME ValidDocument
    PROVE  /\ ToSet(doc.implementations) \subseteq Methods
           /\ {RootPlace(m) : m \in ToSet(doc.implementations)} \subseteq AllPlaces
<1>1. doc.implementations \in Seq(Methods) /\ doc.root \in {"endpoint", "queue"} \cup Timings
  BY DEF ValidDocument
<1>2. \A i \in DOMAIN doc.implementations : doc.implementations[i] \in Methods
  BY <1>1, ElementOfSeq, LenProperties
<1>3. ToSet(doc.implementations) \subseteq Methods
  BY <1>2 DEF ToSet
<1>4. ASSUME NEW m \in Methods PROVE RootPlace(m) \in AllPlaces
  BY <1>1 DEF RootPlace, AllPlaces, Filters, Timings
<1> QED
  BY <1>3, <1>4

\* The three kinds of arrows: a call, the section of a method, and a handler
\* of an interaction.
CallsOn(F, p, q) == \E f \in FactsAt(F, p) :
    f.channel = "call" /\ q = [p EXCEPT !.methodId = f.to[1], !.filter = "*"]

Enters(F, p, q) ==
    /\ p.filter = "*"
    /\ \E f \in F : f.from = p.methodId /\ f.region = "section"
    /\ q = [p EXCEPT !.filter = "section", !.locked = TRUE]

Crosses(F, p, q) == \E f \in FactsAt(F, p) : \E m \in ToSet(f.to) \ doc.candidates :
    /\ f.channel \in {"sync", "async", "queue"}
    /\ q = [p EXCEPT !.methodId = m, !.filter = BranchFilter(f, m),
                     !.queued = @ \/ f.channel = "queue", !.timing = TimingOf(f, m)]

LEMMA ArrowOf ==
    ASSUME NEW F, NEW p, NEW q
    PROVE  q \in ArrowsFrom(F, p) <=> CallsOn(F, p, q) \/ Enters(F, p, q) \/ Crosses(F, p, q)
<1> DEFINE called == {[p EXCEPT !.methodId = f.to[1], !.filter = "*"] :
                       f \in {g \in FactsAt(F, p) : g.channel = "call"}}
           entered == {[p EXCEPT !.filter = "section", !.locked = TRUE] :
                        f \in {g \in F : /\ g.from = p.methodId
                                         /\ g.region = "section"
                                         /\ p.filter = "*"}}
           over(f) == {[p EXCEPT !.methodId = m, !.filter = BranchFilter(f, m),
                                     !.queued = @ \/ f.channel = "queue",
                                     !.timing = TimingOf(f, m)] :
                               m \in ToSet(f.to) \ doc.candidates}
           crossed == UNION {over(f) :
                          f \in {g \in FactsAt(F, p) : g.channel \in {"sync", "async", "queue"}}}
<1>1. ArrowsFrom(F, p) = called \cup entered \cup crossed
  BY DEF ArrowsFrom
<1>2. q \in called <=> CallsOn(F, p, q)
  BY DEF CallsOn
<1>3. q \in entered <=> Enters(F, p, q)
  BY DEF Enters
<1>4. q \in crossed <=> \E f \in FactsAt(F, p) :
                          f.channel \in {"sync", "async", "queue"} /\ q \in over(f)
  <2> HIDE DEF over
  <2> QED
    OBVIOUS
<1>5. \A f : q \in over(f) <=> \E m \in ToSet(f.to) \ doc.candidates :
                    q = [p EXCEPT !.methodId = m, !.filter = BranchFilter(f, m),
                                     !.queued = @ \/ f.channel = "queue", !.timing = TimingOf(f, m)]
  OBVIOUS
<1> HIDE DEF called, entered, crossed, over
<1>6. q \in crossed <=> Crosses(F, p, q)
  BY <1>4, <1>5 DEF Crosses
<1> QED
  BY <1>1, <1>2, <1>3, <1>6

\* They are, one by one:
LEMMA ArrowIs ==
    ASSUME ValidDocument, NEW p \in AllPlaces, NEW q
    PROVE  q \in ArrowsFrom(Facts, p) <=>
              \/ \E f \in FactsAt(Facts, p) :
                    f.channel = "call" /\ q = [p EXCEPT !.methodId = f.to[1], !.filter = "*"]
              \/ /\ p.filter = "*"
                 /\ \E f \in Facts : f.from = p.methodId /\ f.region = "section"
                 /\ q = [p EXCEPT !.filter = "section", !.locked = TRUE]
              \/ \E f \in FactsAt(Facts, p) : \E m \in ToSet(f.to) \ doc.candidates :
                    /\ f.channel \in {"sync", "async", "queue"}
                    /\ q = [p EXCEPT !.methodId = m, !.filter = BranchFilter(f, m),
                                     !.queued = @ \/ f.channel = "queue", !.timing = TimingOf(f, m)]
<1>1. q \in ArrowsFrom(Facts, p) <=> CallsOn(Facts, p, q) \/ Enters(Facts, p, q) \/ Crosses(Facts, p, q)
  BY ArrowOf
<1> QED
  BY <1>1 DEF CallsOn, Enters, Crosses

LEMMA ArrowsStay ==
    ASSUME ValidDocument, NEW p \in AllPlaces
    PROVE  ArrowsFrom(Facts, p) \subseteq AllPlaces
<1> SUFFICES ASSUME NEW q \in ArrowsFrom(Facts, p) PROVE q \in AllPlaces
  OBVIOUS
<1>1. ASSUME NEW f \in FactsAt(Facts, p), f.channel = "call",
             q = [p EXCEPT !.methodId = f.to[1], !.filter = "*"]
      PROVE  q \in AllPlaces
  <2>1. f.to[1] \in Methods
    BY <1>1, FactsAreTyped DEF FactsAt
  <2> QED
    BY <1>1, <2>1 DEF AllPlaces, Filters
<1>2. ASSUME q = [p EXCEPT !.filter = "section", !.locked = TRUE] PROVE q \in AllPlaces
  BY <1>2 DEF AllPlaces, Filters
<1>3. ASSUME NEW f \in FactsAt(Facts, p), NEW m \in ToSet(f.to) \ doc.candidates,
             f.channel \in {"sync", "async", "queue"},
             q = [p EXCEPT !.methodId = m, !.filter = BranchFilter(f, m),
                           !.queued = @ \/ f.channel = "queue", !.timing = TimingOf(f, m)]
      PROVE  q \in AllPlaces
  <2>1. m \in Methods /\ BranchFilter(f, m) \in Filters
    BY <1>3, FactsAreTyped DEF FactsAt, BranchFilter, Filters
  <2>2. /\ TimingOf(f, m) \in {"queue"} \cup Timings
        /\ TimingOf(f, m) = "queue" <=> f.channel = "queue"
    BY <1>3, <2>1, TimingsAreTyped DEF FactsAt
  <2> QED
    BY <1>3, <2>1, <2>2 DEF AllPlaces, Timings
<1> QED
  BY <1>1, <1>2, <1>3, ArrowIs

\* The places within no arrow are the roots, those within one more the places
\* before and what an arrow leads to.
LEMMA WithinRuns ==
    ASSUME ValidDocument
    PROVE  /\ Within \in [0..MaxArrows -> SUBSET AllPlaces]
           /\ Within[0] = {RootPlace(m) : m \in ToSet(doc.implementations)}
           /\ \A n \in 1..MaxArrows : Within[n] = OneMore(Within[n - 1])
<1> DEFINE N == MaxArrows
           A == SUBSET AllPlaces
           roots == {RootPlace(m) : m \in ToSet(doc.implementations)}
           step == [n \in 1..N |-> [before \in A |-> OneMore(before)]]
           Runs(w) == w = [n \in 0..N |-> IF n = 0 THEN roots ELSE OneMore(w[n - 1])]
<1>1. N \in Nat
  BY MaxArrowsIsANumber
<1>2. roots \in A
  BY RootsArePlaces
<1>3. \A before \in A : OneMore(before) \in A
  BY ArrowsStay DEF OneMore
<1>4. step \in [1..N -> [A -> A]]
  BY <1>3
<1>5. \A n \in 1..N : \A before \in A : step[n][before] = OneMore(before)
  OBVIOUS
<1>6. Within = CHOOSE w : Runs(w)
  BY DEF Within, OneMore
<1> HIDE DEF A, roots, step, N
<1>9. PICK after \in [0..N -> A] : Taken(N, roots, step, after)
  BY <1>1, <1>2, <1>4, StepsRun
<1>10. \A n \in 1..N : after[n] = OneMore(after[n - 1])
  <2> TAKE n \in 1..N
  <2>1. n - 1 \in 0..N
    BY <1>1
  <2>2. after[n - 1] \in A
    BY <2>1
  <2> QED
    BY <1>5, <1>9, <2>2 DEF Taken
<1>11. Runs(after)
  <2>1. \A n \in 0..N : after[n] = IF n = 0 THEN roots ELSE OneMore(after[n - 1])
    <3> TAKE n \in 0..N
    <3>1. n = 0 \/ n \in 1..N
      BY <1>1
    <3>2. n = 0 => n \notin 1..N
      OBVIOUS
    <3> QED
      BY <1>9, <1>10, <3>1, <3>2 DEF Taken
  <2> QED
    BY <2>1
<1>12. Runs(Within)
  <2> HIDE DEF Runs
  <2> QED
    BY <1>6, <1>11
<1>13. \A n \in 0..N : Within[n] = IF n = 0 THEN roots ELSE OneMore(Within[n - 1])
  BY <1>12
<1>14. DOMAIN Within = 0..N /\ Within = [n \in 0..N |-> Within[n]]
  <2>1. Within = [n \in 0..N |-> IF n = 0 THEN roots ELSE OneMore(Within[n - 1])]
    BY <1>12
  <2> QED
    BY <1>13, <2>1
<1>15. Within[0] = roots
  BY <1>1, <1>13, 0 \in 0..N
<1>16. \A n \in 1..N : Within[n] = OneMore(Within[n - 1])
  <2> TAKE n \in 1..N
  <2>1. n \in 0..N /\ n # 0
    BY <1>1
  <2> QED
    BY <1>13, <2>1
<1>17. \A n \in 0..N : Within[n] \in A
  <2> DEFINE T == {n \in 0..N : Within[n] \in A}
  <2>1. 0 \in T
    BY <1>1, <1>2, <1>15, 0 \in 0..N
  <2>2. ASSUME NEW n \in 1..N, n - 1 \in T PROVE n \in T
    <3>1. n \in 0..N
      BY <1>1
    <3> QED
      BY <1>3, <1>16, <2>2, <3>1
  <2> HIDE DEF T
  <2>3. \A n \in 0..N : n \in T
    BY <1>1, <2>1, <2>2, CountingUp
  <2> QED
    BY <2>3 DEF T
<1>18. Within \in [0..N -> A]
  BY <1>14, <1>17
<1> QED
  BY <1>15, <1>16, <1>18 DEF N, A, roots

\* What is reached by some arrows is also reached by more.
LEMMA WithinGrows ==
    ASSUME ValidDocument, NEW m \in 0..MaxArrows, NEW n \in m..MaxArrows
    PROVE  Within[m] \subseteq Within[n]
<1>1. MaxArrows \in Nat
  BY MaxArrowsIsANumber
<1> DEFINE N == MaxArrows
           T == {k \in 0..N : m <= k => Within[m] \subseteq Within[k]}
<1>2. 0 \in T
  BY <1>1, m <= 0 => m = 0
<1>3. ASSUME NEW k \in 1..N, k - 1 \in T PROVE k \in T
  <2>1. Within[k - 1] \subseteq Within[k]
    BY WithinRuns DEF OneMore
  <2>2. k \in 0..N /\ (m <= k => m <= k - 1 \/ m = k)
    BY <1>1
  <2> QED
    BY <1>3, <2>1, <2>2
<1>4. n \in 0..N /\ m <= n
  BY <1>1
<1> HIDE DEF T
<1>5. n \in T
  BY <1>1, <1>2, <1>3, <1>4, CountingUp
<1> QED
  BY <1>4, <1>5 DEF T

-----------------------------------------------------------------------------
(***************************************************************************)
(* Before the first interaction a walk only follows calls.                 *)
(***************************************************************************)
\* The methods in M, and those that they call.
WithCallees(M) == M \cup {f.to[1] : f \in {g \in Facts : g.channel = "call" /\ g.from \in M}}

\* The methods reached from the roots over at most n calls.
CallsWithin[n \in 0..Limits.depth] ==
    IF n = 0 THEN ToSet(doc.implementations) ELSE WithCallees(CallsWithin[n - 1])

LEMMA CallsRun ==
    ASSUME ValidDocument
    PROVE  /\ Limits.depth \in Nat
           /\ CallsWithin \in [0..Limits.depth -> SUBSET Methods]
           /\ CallsWithin[0] = ToSet(doc.implementations)
           /\ \A n \in 1..Limits.depth : CallsWithin[n] = WithCallees(CallsWithin[n - 1])
<1> DEFINE N == Limits.depth
           A == SUBSET Methods
           roots == ToSet(doc.implementations)
           step == [n \in 1..N |-> [before \in A |-> WithCallees(before)]]
           Runs(w) == w = [n \in 0..N |-> IF n = 0 THEN roots ELSE WithCallees(w[n - 1])]
<1>1. N \in Nat
  BY DEF ValidDocument, Configurations, Limits
<1>2. roots \in A
  BY RootsArePlaces
<1>3. \A before \in A : WithCallees(before) \in A
  BY FactsAreTyped DEF WithCallees
<1>4. step \in [1..N -> [A -> A]]
  BY <1>3
<1>5. \A n \in 1..N : \A before \in A : step[n][before] = WithCallees(before)
  OBVIOUS
<1>6. CallsWithin = CHOOSE w : Runs(w)
  BY DEF CallsWithin
<1> HIDE DEF A, roots, step, N
<1>7. PICK after \in [0..N -> A] : Taken(N, roots, step, after)
  BY <1>1, <1>2, <1>4, StepsRun
<1>8. \A n \in 0..N : after[n] = IF n = 0 THEN roots ELSE WithCallees(after[n - 1])
  <2> TAKE n \in 0..N
  <2>1. CASE n = 0
    BY <1>7, <2>1 DEF Taken
  <2>2. CASE n # 0
    <3>1. n \in 1..N /\ n - 1 \in 0..N
      BY <1>1, <2>2
    <3>2. after[n - 1] \in A /\ after[n] = step[n][after[n - 1]]
      BY <1>7, <3>1 DEF Taken
    <3> QED
      BY <1>5, <2>2, <3>1, <3>2
  <2> QED
    BY <2>1, <2>2
<1>9. Runs(after)
  BY <1>8
<1>10. Runs(CallsWithin)
  <2> HIDE DEF Runs
  <2> QED
    BY <1>6, <1>9
<1>11. \A n \in 0..N : CallsWithin[n] = IF n = 0 THEN roots ELSE WithCallees(CallsWithin[n - 1])
  BY <1>10
<1>12. DOMAIN CallsWithin = 0..N /\ CallsWithin = [n \in 0..N |-> CallsWithin[n]]
  <2>1. CallsWithin = [n \in 0..N |-> IF n = 0 THEN roots ELSE WithCallees(CallsWithin[n - 1])]
    BY <1>10
  <2> QED
    BY <1>11, <2>1
<1>13. CallsWithin[0] = roots
  BY <1>1, <1>11, 0 \in 0..N
<1>14. \A n \in 1..N : CallsWithin[n] = WithCallees(CallsWithin[n - 1])
  <2> TAKE n \in 1..N
  <2>1. n \in 0..N /\ n # 0
    BY <1>1
  <2> QED
    BY <1>11, <2>1
<1>15. \A n \in 0..N : CallsWithin[n] \in A
  <2> DEFINE T == {n \in 0..N : CallsWithin[n] \in A}
  <2>1. 0 \in T
    BY <1>1, <1>2, <1>13, 0 \in 0..N
  <2>2. ASSUME NEW n \in 1..N, n - 1 \in T PROVE n \in T
    <3>1. n \in 0..N
      BY <1>1
    <3> QED
      BY <1>3, <1>14, <2>2, <3>1
  <2> HIDE DEF T
  <2>3. \A n \in 0..N : n \in T
    BY <1>1, <2>1, <2>2, CountingUp
  <2> QED
    BY <2>3 DEF T
<1>16. CallsWithin \in [0..N -> A]
  BY <1>12, <1>15
<1> QED
  BY <1>1, <1>13, <1>14, <1>16 DEF N, A, roots

\* What is reached by some calls is also reached by more.
LEMMA CallsGrow ==
    ASSUME ValidDocument, NEW m \in 0..Limits.depth, NEW n \in m..Limits.depth
    PROVE  CallsWithin[m] \subseteq CallsWithin[n]
<1> DEFINE N == Limits.depth
           T == {k \in 0..N : m <= k => CallsWithin[m] \subseteq CallsWithin[k]}
<1>1. N \in Nat
  BY CallsRun
<1>2. 0 \in T
  BY <1>1, m <= 0 => m = 0
<1>3. ASSUME NEW k \in 1..N, k - 1 \in T PROVE k \in T
  <2>1. CallsWithin[k - 1] \subseteq CallsWithin[k]
    BY CallsRun DEF WithCallees
  <2>2. k \in 0..N /\ (m <= k => m <= k - 1 \/ m = k)
    BY <1>1
  <2> QED
    BY <1>3, <2>1, <2>2
<1>4. n \in 0..N /\ m <= n
  BY <1>1
<1> HIDE DEF T
<1>5. n \in T
  BY <1>1, <1>2, <1>3, <1>4, CountingUp
<1> QED
  BY <1>4, <1>5 DEF T

-----------------------------------------------------------------------------
(***************************************************************************)
(* The states that are real: a walk of the program leads to their method,  *)
(* under their filter and with their class, over as many arrows as their   *)
(* path has turns.                                                         *)
(***************************************************************************)
Arrows(s) == 2 * Cardinality(s.path) - (IF s.filter = "section" THEN 0 ELSE 1)

StandsAt(s, p) == p.methodId = s.methodId /\ p.filter = s.filter /\ ClassOf(p) = s.class

\* Its path are methods that calls lead to, unless an interaction is on it.
OnCalls(s) ==
    s.hop = 0 =>
        s.filter \in {"*", "section"} /\ s.depth <= Limits.depth /\ s.path \subseteq CallsWithin[s.depth]

\* The states that a visit enqueues.
LockedState(s) == [s EXCEPT !.class = SectionClass(@), !.filter = "section"]

DeliveredState(s, f, m) ==
    [methodId |-> m, depth |-> 0, hop |-> s.hop + 1, class |-> NextClass(s.class, TimingOf(f, m)),
     filter |-> BranchFilter(f, m), path |-> s.path \cup {m}]

CalledState(s, f) ==
    [s EXCEPT !.methodId = f.to[1], !.depth = @ + 1, !.filter = "*", !.path = @ \cup {f.to[1]}]

RootState(m) ==
    [methodId |-> m, depth |-> 0, hop |-> 0, class |-> ClassOf(RootPlace(m)), filter |-> "*",
     path |-> {m}]

StepsTo(s, t) ==
    \/ HasSection(s) /\ t = LockedState(s)
    \/ \E f \in Interactions(s) : \E m \in ToSet(f.to) \ doc.candidates :
          m \notin s.path /\ ~(s.hop >= Limits.hops) /\ t = DeliveredState(s, f, m)
    \/ \E f \in Calls(s) : f.to[1] \notin s.path /\ s.depth < Limits.depth /\ t = CalledState(s, f)

\* The state is in every set with the roots that steps do not lead out of: what
\* roots have and steps keep, it has.
Derived(s) ==
    \A S : /\ \A m \in ToSet(doc.implementations) : RootState(m) \in S
           /\ \A s1 \in S : \A t : StepsTo(s1, t) => t \in S
           => s \in S

RealStates ==
    {s \in States : /\ s.methodId \in s.path /\ OnCalls(s) /\ Derived(s)
                    /\ \E p \in Within[Arrows(s)] : StandsAt(s, p)}

LEMMA StepsDerive ==
    ASSUME NEW s, Derived(s), NEW t, StepsTo(s, t)
    PROVE  Derived(t)
BY DEF Derived

LEMMA RootsDerive ==
    ASSUME NEW m \in ToSet(doc.implementations)
    PROVE  Derived(RootState(m))
BY DEF Derived

LEMMA ArrowsAreBounded ==
    ASSUME NEW s \in States, s.methodId \in s.path
    PROVE  /\ Cardinality(s.path) \in Nat /\ IsFiniteSet(s.path)
           /\ Arrows(s) \in 1..MaxArrows
           /\ Arrows(s) \in {2 * Cardinality(s.path) - 1, 2 * Cardinality(s.path)}
<1>1. s.path \subseteq Methods
  BY DEF States
<1>2. IsFiniteSet(s.path) /\ Cardinality(s.path) <= Cardinality(Methods)
  BY <1>1, MethodsAssumption, FS_Subset
<1>3. Cardinality(s.path) \in Nat /\ Cardinality(s.path) # 0
  BY <1>2, FS_CardinalityType, FS_EmptySet
<1> QED
  BY <1>2, <1>3, MaxArrowsIsANumber DEF Arrows

\* A state with a longer path, or one inside a section, that stands where an
\* arrow leads to.
LEMMA OneArrowOn ==
    ASSUME ValidDocument, NEW s \in RealStates, NEW t \in States, t.methodId \in t.path, OnCalls(t),
           StepsTo(s, t), Arrows(s) < Arrows(t),
           NEW p \in Within[Arrows(s)], NEW q \in ArrowsFrom(Facts, p), StandsAt(t, q)
    PROVE  t \in RealStates
<1>1. s \in States /\ s.methodId \in s.path
  BY DEF RealStates
<1>2. Arrows(s) \in 1..MaxArrows /\ Arrows(t) \in 1..MaxArrows
  BY <1>1, ArrowsAreBounded
<1>3. /\ Arrows(s) + 1 \in 1..MaxArrows /\ (Arrows(s) + 1) - 1 = Arrows(s)
      /\ Arrows(s) + 1 \in 0..MaxArrows /\ Arrows(t) \in (Arrows(s) + 1)..MaxArrows
  BY <1>2, MaxArrowsIsANumber
<1>4. Within[Arrows(s) + 1] = OneMore(Within[Arrows(s)])
  BY <1>3, WithinRuns
<1>5. q \in Within[Arrows(s) + 1]
  BY <1>4 DEF OneMore
<1>6. q \in Within[Arrows(t)]
  BY <1>3, <1>5, WithinGrows
<1>7. Derived(t)
  BY StepsDerive DEF RealStates
<1> QED
  BY <1>6, <1>7 DEF RealStates

LEMMA PlaceOf ==
    ASSUME ValidDocument, NEW s \in RealStates
    PROVE  \E p \in Within[Arrows(s)] : p \in AllPlaces /\ StandsAt(s, p)
<1>1. PICK p \in Within[Arrows(s)] : StandsAt(s, p)
  BY DEF RealStates
<1>2. Arrows(s) \in 0..MaxArrows
  BY ArrowsAreBounded, MaxArrowsIsANumber DEF RealStates
<1>3. p \in AllPlaces
  BY <1>2, WithinRuns
<1> QED
  BY <1>1, <1>3

\* What applies to a state is at its place.
LEMMA DirectFactsAreAtThePlace ==
    ASSUME ValidDocument, NEW s, NEW p, StandsAt(s, p), NEW f \in Direct(s)
    PROVE  f \in FactsAt(Facts, p)
<1>1. f \in Facts /\ f.from = p.methodId /\ Applies(f, p.filter)
  BY DEF Direct, FactsOf, Facts, StandsAt
<1>2. f.region \in {"body", "section"} \cup Jobs
  BY <1>1, FactsAreTyped
<1> QED
  BY <1>1, <1>2 DEF FactsAt, Applies, RegionsOf

LEMMA LockedIsReal ==
    ASSUME ValidDocument, NEW s \in RealStates, HasSection(s)
    PROVE  LockedState(s) \in RealStates
<1> DEFINE t == LockedState(s)
<1>1. s \in States /\ s.methodId \in s.path /\ s.filter = "*"
  BY DEF RealStates, HasSection
<1>2. /\ t.methodId = s.methodId /\ t.path = s.path /\ t.filter = "section"
      /\ t.class = SectionClass(s.class) /\ t \in States
      /\ t.hop = s.hop /\ t.depth = s.depth
  BY <1>1 DEF LockedState, States, Filters, SectionClass, Classes, LocalClasses
<1>11. StepsTo(s, t)
  BY DEF StepsTo
<1> HIDE DEF t
<1>10. OnCalls(t)
  BY <1>2 DEF RealStates, OnCalls
<1>3. Arrows(s) < Arrows(t)
  BY <1>1, <1>2, ArrowsAreBounded DEF Arrows
<1>4. PICK p \in Within[Arrows(s)] : p \in AllPlaces /\ StandsAt(s, p)
  BY PlaceOf
<1> DEFINE q == [p EXCEPT !.filter = "section", !.locked = TRUE]
<1>5. q \in ArrowsFrom(Facts, p)
  <2>1. \E f \in Facts : f.from = p.methodId /\ f.region = "section"
    BY <1>4 DEF HasSection, FactsOf, Facts, StandsAt
  <2>2. p.filter = "*"
    BY <1>1, <1>4 DEF StandsAt
  <2> QED
    BY <1>4, <2>1, <2>2, ArrowIs
<1>6. /\ q.methodId = p.methodId /\ q.filter = "section" /\ q.locked = TRUE
      /\ q.queued = p.queued
  BY <1>4 DEF AllPlaces
<1> HIDE DEF q
<1>7. ClassOf(q) = t.class
  BY <1>2, <1>4, <1>6 DEF ClassOf, StandsAt, SectionClass, AllPlaces, Timings, NoClass
<1>8. StandsAt(t, q)
  BY <1>2, <1>4, <1>6, <1>7 DEF StandsAt
<1>9. t \in RealStates
  BY <1>1, <1>2, <1>3, <1>4, <1>5, <1>8, <1>10, <1>11, OneArrowOn
<1> QED
  BY <1>9 DEF t

\* Only what is queued is distributed, and unless it is, only what is locked
\* is conditional.
LEMMA ClassesOfPlaces ==
    ASSUME NEW p \in AllPlaces
    PROVE  /\ ClassOf(p) = "distributed_conditional" <=> p.queued
           /\ ~p.queued => (ClassOf(p) = "critical_section_conditional" <=> p.locked)
BY DEF ClassOf, AllPlaces, Timings, NoClass

LEMMA DeliveredIsReal ==
    ASSUME ValidDocument, NEW s \in RealStates, NEW f \in Interactions(s),
           NEW m \in ToSet(f.to) \ doc.candidates, m \notin s.path, ~(s.hop >= Limits.hops)
    PROVE  DeliveredState(s, f, m) \in RealStates
<1> DEFINE t == DeliveredState(s, f, m)
<1>1. s \in States /\ s.methodId \in s.path
  BY DEF RealStates
<1>2. PICK p \in Within[Arrows(s)] : p \in AllPlaces /\ StandsAt(s, p)
  BY PlaceOf
<1>3. f \in Direct(s) /\ f.channel \in {"sync", "async", "queue"}
  BY DEF Interactions
<1>4. f \in FactsAt(Facts, p) /\ f \in Facts
  BY <1>2, <1>3, DirectFactsAreAtThePlace DEF FactsAt
<1>5. m \in Methods /\ f.job \in Jobs
  BY <1>4, FactsAreTyped
<1>6. BranchFilter(f, m) \in Filters \ {"section"}
  BY <1>5 DEF BranchFilter, Filters, Jobs
<1>7. /\ t.methodId = m /\ t.path = s.path \cup {m} /\ t.filter = BranchFilter(f, m)
      /\ t.class = NextClass(s.class, TimingOf(f, m))
  BY DEF DeliveredState
<1>18. /\ TimingOf(f, m) \in {"queue", "sync", "async", "unknown"}
       /\ TimingOf(f, m) = "queue" <=> f.channel = "queue"
  BY <1>3, <1>4, <1>5, TimingsAreTyped DEF Timings
<1>8. t \in States
  <2>1. NextClass(s.class, TimingOf(f, m)) \in Classes \cup {NoClass}
    BY <1>1, <1>18 DEF NextClass, Classes, LocalClasses, States
  <2>2. s.hop + 1 \in Nat /\ s.path \cup {m} \in SUBSET Methods
    BY <1>1, <1>5 DEF States
  <2> QED
    BY <1>5, <1>6, <2>1, <2>2 DEF DeliveredState, States
<1>17. StepsTo(s, t)
  BY DEF StepsTo
<1> HIDE DEF t
<1>9. Arrows(s) < Arrows(t)
  <2>1. IsFiniteSet(s.path) /\ Cardinality(s.path) \in Nat
    BY <1>1, ArrowsAreBounded
  <2>2. Cardinality(t.path) = Cardinality(s.path) + 1
    BY <1>7, <2>1, FS_AddElement
  <2> QED
    BY <1>6, <1>7, <2>1, <2>2 DEF Arrows
<1> DEFINE q == [p EXCEPT !.methodId = m, !.filter = BranchFilter(f, m),
                          !.queued = @ \/ f.channel = "queue", !.timing = TimingOf(f, m)]
<1>10. q \in ArrowsFrom(Facts, p)
  <2>1. \E g \in FactsAt(Facts, p) : \E n \in ToSet(g.to) \ doc.candidates :
            /\ g.channel \in {"sync", "async", "queue"}
            /\ q = [p EXCEPT !.methodId = n, !.filter = BranchFilter(g, n),
                             !.queued = @ \/ g.channel = "queue", !.timing = TimingOf(g, n)]
    BY <1>3, <1>4
  <2> HIDE DEF q
  <2> QED
    BY <1>2, <2>1, ArrowIs
<1>11. /\ q.methodId = m /\ q.filter = BranchFilter(f, m) /\ q.locked = p.locked
       /\ q.queued = (p.queued \/ f.channel = "queue") /\ q.timing = TimingOf(f, m)
  BY <1>2 DEF AllPlaces
<1> HIDE DEF q
<1>12. q \in AllPlaces
  BY <1>2, <1>10, ArrowsStay
<1>13. ClassOf(q) = t.class
  <2>1. ClassOf(p) = s.class
    BY <1>2 DEF StandsAt
  <2>2. CASE q.queued
    <3>1. f.channel = "queue" \/ s.class = "distributed_conditional"
      BY <1>2, <1>11, <2>1, <2>2, ClassesOfPlaces
    <3> QED
      BY <1>7, <1>18, <2>2, <3>1 DEF NextClass, ClassOf
  <2>3. CASE ~q.queued
    <3>1. ~p.queued /\ TimingOf(f, m) \in {"sync", "async", "unknown"}
      BY <1>2, <1>11, <1>18, <2>3 DEF AllPlaces
    <3>2. s.class # "distributed_conditional"
      BY <1>2, <2>1, <3>1, ClassesOfPlaces
    <3>3. CASE p.locked
      <4>1. s.class = "critical_section_conditional"
        BY <1>2, <2>1, <3>1, <3>3, ClassesOfPlaces
      <4> QED
        BY <1>7, <1>11, <2>3, <3>1, <3>3, <4>1 DEF NextClass, ClassOf
    <3>4. CASE ~p.locked
      <4>1. s.class # "critical_section_conditional"
        BY <1>2, <2>1, <3>1, <3>4, ClassesOfPlaces
      <4> QED
        BY <1>7, <1>11, <2>3, <3>1, <3>2, <3>4, <4>1 DEF NextClass, ClassOf
    <3> QED
      BY <3>3, <3>4
  <2> QED
    BY <2>2, <2>3
<1>14. StandsAt(t, q)
  BY <1>7, <1>11, <1>13 DEF StandsAt
<1>15. t.methodId \in t.path /\ OnCalls(t)
  <2>1. t.hop # 0
    BY <1>1 DEF t, DeliveredState, States
  <2> QED
    BY <1>7, <2>1 DEF OnCalls
<1>16. t \in RealStates
  BY <1>2, <1>8, <1>9, <1>10, <1>14, <1>15, <1>17, OneArrowOn
<1> QED
  BY <1>16 DEF t

LEMMA CalledIsReal ==
    ASSUME ValidDocument, NEW s \in RealStates, NEW f \in Calls(s), f.to[1] \notin s.path,
           s.depth < Limits.depth
    PROVE  CalledState(s, f) \in RealStates
<1> DEFINE t == CalledState(s, f)
<1>1. s \in States /\ s.methodId \in s.path
  BY DEF RealStates
<1>2. PICK p \in Within[Arrows(s)] : p \in AllPlaces /\ StandsAt(s, p)
  BY PlaceOf
<1>3. f \in Direct(s) /\ f.channel = "call"
  BY DEF Calls
<1>4. f \in FactsAt(Facts, p) /\ f \in Facts
  BY <1>2, <1>3, DirectFactsAreAtThePlace DEF FactsAt
<1>5. f.to[1] \in Methods
  BY <1>3, <1>4, FactsAreTyped
<1>6. /\ t.methodId = f.to[1] /\ t.path = s.path \cup {f.to[1]} /\ t.filter = "*"
      /\ t.class = s.class /\ t \in States /\ t.hop = s.hop /\ t.depth = s.depth + 1
  <2>1. s.depth + 1 \in Nat /\ s.path \cup {f.to[1]} \in SUBSET Methods /\ "*" \in Filters
    BY <1>1, <1>5 DEF States, Filters
  <2> DEFINE m == f.to[1]
             path == s.path \cup {m}
  <2>2. t = [s EXCEPT !.methodId = m, !.depth = @ + 1, !.filter = "*", !.path = path]
    BY <1>1 DEF CalledState, States
  <2>3. m \in Methods /\ path \in SUBSET Methods
    BY <1>5, <2>1
  <2> HIDE DEF t, m, path
  <2>4. /\ t.methodId = m /\ t.path = path /\ t.filter = "*" /\ t.class = s.class
        /\ t.hop = s.hop /\ t.depth = s.depth + 1
    BY <1>1, <2>2 DEF States
  <2>5. t \in States
    BY <1>1, <2>1, <2>2, <2>3 DEF States
  <2> QED
    BY <2>4, <2>5 DEF m, path
<1>13. StepsTo(s, t)
  BY DEF StepsTo
<1> HIDE DEF t
<1>7. Arrows(s) < Arrows(t)
  <2>1. IsFiniteSet(s.path) /\ Cardinality(s.path) \in Nat
    BY <1>1, ArrowsAreBounded
  <2>2. Cardinality(t.path) = Cardinality(s.path) + 1
    BY <1>6, <2>1, FS_AddElement
  <2> QED
    BY <1>6, <2>1, <2>2 DEF Arrows
<1> DEFINE q == [p EXCEPT !.methodId = f.to[1], !.filter = "*"]
<1>8. q \in ArrowsFrom(Facts, p)
  BY <1>2, <1>3, <1>4, ArrowIs
<1>9. /\ q.methodId = f.to[1] /\ q.filter = "*" /\ q.locked = p.locked
      /\ q.queued = p.queued /\ q.timing = p.timing
  BY <1>2 DEF AllPlaces
<1> HIDE DEF q
<1>10. StandsAt(t, q)
  BY <1>2, <1>6, <1>9 DEF StandsAt, ClassOf
<1>11. t.methodId \in t.path /\ OnCalls(t)
  <2>1. SUFFICES ASSUME s.hop = 0
                 PROVE  t.depth <= Limits.depth /\ t.path \subseteq CallsWithin[t.depth]
    BY <1>6 DEF OnCalls
  <2>2. /\ s.depth \in Nat /\ Limits.depth \in Nat /\ s.path \subseteq CallsWithin[s.depth]
        /\ s.depth + 1 \in 1..Limits.depth /\ (s.depth + 1) - 1 = s.depth
    BY <1>1, <2>1, CallsRun DEF RealStates, OnCalls, States
  <2>3. CallsWithin[s.depth + 1] = WithCallees(CallsWithin[s.depth])
    BY <2>2, CallsRun
  <2>4. f.from = s.methodId
    BY <1>3 DEF Direct, FactsOf
  <2> QED
    BY <1>1, <1>3, <1>4, <1>6, <2>2, <2>3, <2>4 DEF WithCallees
<1>12. t \in RealStates
  BY <1>2, <1>6, <1>7, <1>8, <1>10, <1>11, <1>13, OneArrowOn
<1> QED
  BY <1>12 DEF t

-----------------------------------------------------------------------------
(***************************************************************************)
(* One visit: what each of its steps keeps, and what it has done if it     *)
(* reports nothing.                                                        *)
(***************************************************************************)
\* The accumulators a visit may start from.
Sound(acc) == acc \in Accumulators /\ acc \in Onwards(acc, RealStates)

\* The state is in the queue.
Here(acc, s) == \E i \in 1..Len(acc.queue) : acc.queue[i] = s

LEMMA OnwardsIsSound ==
    ASSUME NEW acc, Sound(acc), NEW b \in Onwards(acc, RealStates)
    PROVE  /\ Sound(b) /\ Grows(acc, b)
           /\ \A key : Enqueued(acc, key) => Enqueued(b, key)
           /\ \A key : Crossed(acc, key) => Crossed(b, key)
           /\ acc.diagnostics # {} => b.diagnostics # {}
           /\ \A s : Here(acc, s) => Here(b, s)
<1>1. acc \in Accumulators /\ b \in Accumulators /\ Grows(acc, b)
  BY DEF Onwards, Sound
<1>2. Grows(b, b)
  BY <1>1, GrowthIsReflexive
<1>3. Sound(b)
  BY <1>1, <1>2 DEF Onwards, Sound
<1>4. /\ \A key : Enqueued(acc, key) => Enqueued(b, key)
      /\ \A key : Crossed(acc, key) => Crossed(b, key)
      /\ acc.diagnostics # {} => b.diagnostics # {}
  BY <1>1, GrowthKeeps DEF Enqueued, Crossed
<1>5. \A s : Here(acc, s) => Here(b, s)
  <2>1. Len(acc.queue) \in Nat /\ Len(b.queue) \in Nat
    BY <1>1, LenProperties DEF Accumulators
  <2> QED
    BY <1>1, <2>1 DEF Here, Grows
<1> QED
  BY <1>1, <1>3, <1>4, <1>5

\* The methods on the way to a state of the queue are in it.
LEMMA WholePaths ==
    ASSUME NEW acc, Sound(acc), NEW s, Here(acc, s)
    PROVE  \A m \in s.path \ doc.dispatches : Whole(acc, m)
BY DEF Sound, Onwards, PathsKept, Here

LEMMA EnterSectionKeeps ==
    ASSUME ValidDocument, NEW acc, Sound(acc), NEW s \in RealStates, Here(acc, s)
    PROVE  /\ EnterSection(acc, s) \in Onwards(acc, RealStates)
           /\ HasSection(s) => Enqueued(EnterSection(acc, s), Key(LockedState(s)))
<1>1. CASE HasSection(s)
  <2> DEFINE t == LockedState(s)
  <2>1. EnterSection(acc, s) = Enqueue(acc, t)
    BY <1>1 DEF EnterSection, LockedState
  <2>2. t \in RealStates
    BY <1>1, LockedIsReal
  <2>3. t.methodId \in t.path /\ t.path = s.path /\ t.methodId = s.methodId
    BY <2>2 DEF RealStates, LockedState, States
  <2> HIDE DEF t
  <2>4. \A n \in t.path \ doc.dispatches : Whole(acc, n) \/ (n = t.methodId /\ t.filter = "*")
    BY <2>3, WholePaths
  <2>5. RealStates \in SUBSET States
    BY DEF RealStates
  <2>6. Sprung(acc, t.methodId)
    BY <2>3 DEF Sprung, Here
  <2>7. /\ Enqueue(acc, t) \in Onwards(acc, RealStates)
        /\ Enqueued(Enqueue(acc, t), Key(t))
    BY <2>2, <2>3, <2>4, <2>5, <2>6, EnqueueKeeps DEF Sound
  <2> QED
    BY <2>1, <2>7 DEF t
<1>2. CASE ~HasSection(s)
  BY <1>2 DEF EnterSection, Sound
<1> QED
  BY <1>1, <1>2

\* The handlers of an interaction that the walk may enter: those registered and,
\* from an endpoint, not without a class.
Admitted(s, f) == {m \in ToSet(f.to) \ doc.candidates : ~PassedOver(s, f, m)}

\* One handler of an interaction.
LEMMA DeliverKeeps ==
    ASSUME ValidDocument, NEW acc, Sound(acc), NEW s \in RealStates, Here(acc, s),
           NEW f \in Interactions(s), NEW m \in ToSet(f.to), m \in ToSet(Matches(f))
    PROVE  /\ Deliver(acc, s, f, m) \in Onwards(acc, RealStates)
           /\ m \in Admitted(s, f) => Crossed(Deliver(acc, s, f, m), Key(DeliveredState(s, f, m)))
<1>0. f \in Facts /\ f.from \in Methods /\ m \in Methods
  <2>1. f \in Facts
    BY DEF Interactions, Direct, FactsOf, Facts
  <2> QED
    BY <2>1, FactsAreTyped
<1>1. CASE m \in doc.candidates
  BY <1>1 DEF Deliver, Sound, Admitted
<1>2. CASE m \notin doc.candidates /\ m \in s.path
  <2>1. Deliver(acc, s, f, m) = Diagnose(acc, "INTERACTION_CYCLE_TRUNCATED", m, "cycle")
    BY <1>2 DEF Deliver
  <2>2. /\ Deliver(acc, s, f, m) \in Onwards(acc, RealStates)
        /\ Deliver(acc, s, f, m).diagnostics # {}
    BY <1>0, <2>1, DiagnoseKeeps DEF WalkCodes, WalkReasons, Sound
  <2> QED
    BY <2>2 DEF Crossed
<1>3. CASE m \notin doc.candidates /\ m \notin s.path /\ s.hop >= Limits.hops
  <2>1. Deliver(acc, s, f, m) = Diagnose(acc, "INTERACTION_TRACE_LIMIT_REACHED", f.from, "hops")
    BY <1>3 DEF Deliver
  <2>2. /\ Deliver(acc, s, f, m) \in Onwards(acc, RealStates)
        /\ Deliver(acc, s, f, m).diagnostics # {}
    BY <1>0, <2>1, DiagnoseKeeps DEF WalkCodes, WalkReasons, Sound
  <2> QED
    BY <2>2 DEF Crossed
<1>4. CASE /\ m \notin doc.candidates /\ m \notin s.path /\ ~(s.hop >= Limits.hops)
           /\ PassedOver(s, f, m)
  BY <1>4 DEF Deliver, Sound, Admitted
<1>5. CASE /\ m \notin doc.candidates /\ m \notin s.path /\ ~(s.hop >= Limits.hops)
           /\ ~PassedOver(s, f, m)
  <2> DEFINE t == DeliveredState(s, f, m)
  <2>1. Deliver(acc, s, f, m) = Enqueue(acc, t)
    BY <1>5 DEF Deliver, DeliveredState
  <2>2. t \in RealStates
    BY <1>5, DeliveredIsReal
  <2>3. t.methodId = m /\ t.path = s.path \cup {m} /\ t.filter = BranchFilter(f, m)
    BY DEF DeliveredState
  <2> HIDE DEF t
  <2>4. \A n \in t.path \ doc.dispatches : Whole(acc, n) \/ (n = t.methodId /\ t.filter = "*")
    BY <2>3, WholePaths DEF BranchFilter
  <2>5. RealStates \in SUBSET States
    BY DEF RealStates
  <2>6. Sprung(acc, t.methodId)
    <3>1. m \in LeadsTo(s)
      BY DEF LeadsTo
    <3> QED
      BY <2>3, <3>1 DEF Sprung, Here
  <2>7. /\ Enqueue(acc, t) \in Onwards(acc, RealStates)
        /\ Enqueued(Enqueue(acc, t), Key(t))
    BY <2>2, <2>3, <2>4, <2>5, <2>6, EnqueueKeeps DEF Sound
  <2> QED
    BY <2>1, <2>7 DEF Enqueued, Crossed, StateLimitReported, t
<1> QED
  BY <1>1, <1>2, <1>3, <1>4, <1>5

\* A call within the depth leads to a method on the way, or to a new state;
\* one beyond is reported.
Followed(acc, s, f) ==
    IF s.depth < Limits.depth
    THEN f.to[1] \in s.path \/ Enqueued(acc, Key(CalledState(s, f)))
    ELSE acc.diagnostics # {}

LEMMA FollowKeeps ==
    ASSUME ValidDocument, NEW acc, Sound(acc), NEW s \in RealStates, Here(acc, s),
           NEW f \in Calls(s), s.depth < Limits.depth
    PROVE  /\ Follow(acc, s, f) \in Onwards(acc, RealStates)
           /\ Followed(Follow(acc, s, f), s, f)
<1>1. CASE f.to[1] \in s.path
  <2>1. Follow(acc, s, f) = acc
    BY <1>1 DEF Follow
  <2> QED
    BY <1>1, <2>1 DEF Sound, Followed
<1>2. CASE f.to[1] \notin s.path
  <2> DEFINE t == CalledState(s, f)
  <2>1. Follow(acc, s, f) = Enqueue(acc, t)
    BY <1>2 DEF Follow, CalledState
  <2>2. t \in RealStates
    BY <1>2, CalledIsReal
  <2>3. t.methodId = f.to[1] /\ t.path = s.path \cup {f.to[1]} /\ t.filter = "*"
    <3>1. s \in States
      BY DEF RealStates
    <3> QED
      BY <3>1 DEF CalledState, States
  <2> HIDE DEF t
  <2>4. \A n \in t.path \ doc.dispatches : Whole(acc, n) \/ (n = t.methodId /\ t.filter = "*")
    BY <2>3, WholePaths
  <2>5. RealStates \in SUBSET States
    BY DEF RealStates
  <2>6. Sprung(acc, t.methodId)
    <3>1. f.to[1] \in LeadsTo(s)
      BY DEF LeadsTo
    <3> QED
      BY <2>3, <3>1 DEF Sprung, Here
  <2>7. /\ Enqueue(acc, t) \in Onwards(acc, RealStates)
        /\ Enqueued(Enqueue(acc, t), Key(t))
    BY <2>2, <2>3, <2>4, <2>5, <2>6, EnqueueKeeps DEF Sound
  <2> QED
    BY <2>1, <2>7 DEF Followed, t
<1> QED
  BY <1>1, <1>2

LEMMA FollowedStays ==
    ASSUME NEW acc, Sound(acc), NEW b \in Onwards(acc, RealStates), NEW s, NEW f,
           Followed(acc, s, f)
    PROVE  Followed(b, s, f)
BY OnwardsIsSound DEF Followed

\* A fold of steps that go on from a sound accumulator ends soundly, and each
\* step was taken on the way.
LEMMA FoldsOnward ==
    ASSUME NEW acc, Sound(acc), NEW N \in Nat,
           NEW step \in [1..N -> [Onwards(acc, RealStates) -> Onwards(acc, RealStates)]],
           \A n \in 1..N : \A a \in Onwards(acc, RealStates) : step[n][a] \in Onwards(a, RealStates),
           NEW iter, FoldedWithin(N, Onwards(acc, RealStates), acc, step, iter)
    PROVE  /\ iter[1..N] \in Onwards(acc, RealStates)
           /\ \A n \in 1..N : \E a \in Onwards(acc, RealStates) :
                iter[1..N] \in Onwards(step[n][a], RealStates)
<1> DEFINE A == Onwards(acc, RealStates)
<1>1. acc \in A
  BY DEF Sound
<1>2. PICK after \in [0..N -> A] : Taken(N, acc, step, after) /\ after[N] = iter[1..N]
  <2> HIDE DEF A
  <2> QED
    BY <1>1, FoldRuns DEF A
<1>3. A \subseteq Accumulators
  BY DEF Onwards
<1>4. after \in [0..N -> Accumulators]
  BY <1>2, <1>3
<1>5. ASSUME NEW n \in 1..N
      PROVE  /\ n - 1 \in 0..N /\ n \in 0..N /\ after[n - 1] \in A /\ after[n] \in A
             /\ after[n] = step[n][after[n - 1]] /\ after[n] \in Onwards(after[n - 1], RealStates)
  <2>1. n - 1 \in 0..N /\ n \in 0..N
    OBVIOUS
  <2>2. after[n] = step[n][after[n - 1]]
    BY <1>2 DEF Taken
  <2>3. after[n - 1] \in A /\ after[n] \in A
    BY <2>1
  <2> HIDE DEF A
  <2> QED
    BY <2>1, <2>2, <2>3 DEF A
<1>6. \A n \in 0..N : Grows(after[n], after[N])
  <2>1. \A n \in 1..N : Grows(after[n - 1], after[n])
    BY <1>5 DEF Onwards
  <2> HIDE DEF A
  <2> QED
    BY <1>4, <2>1, GrowsAlong
<1>7. after[N] \in A
  BY N \in 0..N
<1>8. \A n \in 1..N : iter[1..N] \in Onwards(step[n][after[n - 1]], RealStates)
  <2> TAKE n \in 1..N
  <2>1. Grows(after[n], after[N]) /\ after[n] = step[n][after[n - 1]]
    BY <1>5, <1>6
  <2>2. after[N] \in Onwards(after[n], RealStates)
    BY <1>7, <2>1 DEF Onwards
  <2> QED
    BY <1>2, <2>1, <2>2
<1> HIDE DEF A
<1>9. \A n \in 1..N : after[n - 1] \in A
  BY <1>5
<1> QED
  BY <1>2, <1>7, <1>8, <1>9 DEF A

-----------------------------------------------------------------------------
\* The matched handlers of an interaction: all of them, or there is a
\* diagnostic.
LEMMA MatchesAre ==
    ASSUME ValidDocument, NEW f \in Facts
    PROVE  /\ Matches(f) \in Seq(Methods) /\ Len(Matches(f)) \in Nat
           /\ \A n \in 1..Len(Matches(f)) : Matches(f)[n] \in ToSet(f.to)
           /\ ~(Len(f.to) > Limits.fanOut) =>
                 \A m \in ToSet(f.to) : \E n \in 1..Len(Matches(f)) : Matches(f)[n] = m
<1>1. f.to \in Seq(Methods) /\ Len(f.to) \in Nat /\ DOMAIN f.to = 1..Len(f.to)
  BY FactsAreTyped, LenProperties
<1>2. Limits.fanOut \in Nat
  BY DEF ValidDocument, Configurations, Limits
<1> DEFINE L == IF Len(f.to) <= Limits.fanOut THEN Len(f.to) ELSE Limits.fanOut
<1>3. L \in 0..Len(f.to)
  BY <1>1, <1>2
<1>4. /\ Matches(f) \in Seq(Methods) /\ Len(Matches(f)) = L
      /\ \A n \in 1..L : Matches(f)[n] = f.to[n]
  <2>1. Matches(f) = SubSeq(f.to, 1, L)
    BY DEF Matches
  <2>2. L \in Nat /\ 1 \in 1..Len(f.to) + 1 /\ L \in 0..Len(f.to)
    BY <1>1, <1>3
  <2> HIDE DEF L
  <2>3. /\ SubSeq(f.to, 1, L) \in Seq(Methods)
        /\ Len(SubSeq(f.to, 1, L)) = IF 1 <= L THEN L - 1 + 1 ELSE 0
        /\ \A i \in 1..L - 1 + 1 : SubSeq(f.to, 1, L)[i] = f.to[1 + i - 1]
    BY <1>1, <2>2, SubSeqProperties
  <2>4. Len(SubSeq(f.to, 1, L)) = L /\ \A i \in 1..L : SubSeq(f.to, 1, L)[i] = f.to[i]
    BY <2>2, <2>3
  <2> QED
    BY <2>1, <2>3, <2>4
<1>5. \A n \in 1..L : n \in DOMAIN f.to
  BY <1>1, <1>3
<1>6. ~(Len(f.to) > Limits.fanOut) => L = Len(f.to)
  BY <1>1, <1>2
<1> HIDE DEF L
<1>7. \A n \in 1..Len(Matches(f)) : Matches(f)[n] \in ToSet(f.to)
  BY <1>4, <1>5 DEF ToSet
<1>8. ASSUME ~(Len(f.to) > Limits.fanOut), NEW m \in ToSet(f.to)
      PROVE  \E n \in 1..Len(Matches(f)) : Matches(f)[n] = m
  <2>1. PICK n \in DOMAIN f.to : f.to[n] = m
    BY DEF ToSet
  <2> QED
    BY <1>1, <1>4, <1>6, <1>8, <2>1
<1>9. Len(Matches(f)) \in Nat
  BY <1>1, <1>3, <1>4
<1> QED
  BY <1>4, <1>7, <1>8, <1>9

\* An interaction: what is delivered to each matched handler.
LEMMA InteractKeeps ==
    ASSUME ValidDocument, NEW acc, Sound(acc), NEW s \in RealStates, Here(acc, s),
           NEW f \in Interactions(s)
    PROVE  /\ Interact(acc, s, f) \in Onwards(acc, RealStates)
           /\ \A m \in Admitted(s, f) :
                 Crossed(Interact(acc, s, f), Key(DeliveredState(s, f, m)))
           /\ Spread(Interact(acc, s, f), f)
<1> DEFINE base == IF Len(f.to) > Limits.fanOut
                   THEN Diagnose(acc, "INTERACTION_TRACE_LIMIT_REACHED", f.from, "fan-out")
                   ELSE acc
           A == Onwards(base, RealStates)
           seq == Matches(f)
           N == Len(seq)
           step == [n \in 1..N |-> [a \in A |-> Deliver(a, s, f, seq[n])]]
           Runs(iter) == iter = [S \in SUBSET (1..N) |->
                                    IF S = {} THEN base
                                    ELSE Deliver(iter[S \ {Max(S)}], s, f, seq[Max(S)])]
<1>1. f \in Facts /\ f.from \in Methods
  <2>1. f \in Facts
    BY DEF Interactions, Direct, FactsOf, Facts
  <2> QED
    BY <2>1, FactsAreTyped
<1>2. /\ base \in Onwards(acc, RealStates)
      /\ Len(f.to) > Limits.fanOut => base.diagnostics # {}
  <2>1. CASE Len(f.to) > Limits.fanOut
    BY <1>1, <2>1, DiagnoseKeeps DEF WalkCodes, WalkReasons, Sound
  <2>2. CASE ~(Len(f.to) > Limits.fanOut)
    BY <2>2 DEF Sound
  <2> QED
    BY <2>1, <2>2
<1>3. Sound(base) /\ Here(base, s)
  BY <1>2, OnwardsIsSound
<1>4. N \in Nat /\ \A n \in 1..N : seq[n] \in ToSet(f.to)
  BY <1>1, MatchesAre
<1>5. DOMAIN seq = 1..N /\ \A n \in 1..N : seq[n] \in ToSet(Matches(f))
  <2>1. DOMAIN seq = 1..N
    BY <1>1, MatchesAre, LenProperties
  <2> QED
    BY <2>1 DEF ToSet
<1>6. Interact(acc, s, f) = (CHOOSE iter : Runs(iter))[1..N]
  <2>1. Interact(acc, s, f) =
            (CHOOSE iter : iter = [S \in SUBSET DOMAIN seq |->
                                    IF S = {} THEN base
                                    ELSE Deliver(iter[S \ {Max(S)}], s, f, seq[Max(S)])])[DOMAIN seq]
    BY DEF Interact, FoldLeft, MapThenFoldSet
  <2> HIDE DEF base, seq
  <2> QED
    BY <1>5, <2>1
<1> HIDE DEF base, seq, N
<1>7. ASSUME NEW n \in 1..N, NEW a \in A
      PROVE  /\ Deliver(a, s, f, seq[n]) \in Onwards(a, RealStates)
             /\ Deliver(a, s, f, seq[n]) \in A
             /\ seq[n] \in Admitted(s, f) =>
                   Crossed(Deliver(a, s, f, seq[n]), Key(DeliveredState(s, f, seq[n])))
  <2>1. Sound(a) /\ Here(a, s)
    BY <1>3, OnwardsIsSound
  <2>2. Deliver(a, s, f, seq[n]) \in Onwards(a, RealStates)
    BY <1>4, <1>5, <2>1, DeliverKeeps
  <2>3. Onwards(a, RealStates) \subseteq A
    BY <1>3, OnwardsFrom DEF Sound
  <2>4. seq[n] \in Admitted(s, f) =>
            Crossed(Deliver(a, s, f, seq[n]), Key(DeliveredState(s, f, seq[n])))
    BY <1>4, <1>5, <2>1, DeliverKeeps
  <2> QED
    BY <2>2, <2>3, <2>4
<1>8. step \in [1..N -> [A -> A]]
  BY <1>7
<1>9. \A n \in 1..N : \A a \in A : step[n][a] = Deliver(a, s, f, seq[n])
  OBVIOUS
<1>10. base \in A
  BY <1>3 DEF Sound
<1> HIDE DEF A, step
<1>11. \E iter : Runs(iter)
  <2>1. PICK iter \in [SUBSET (1..N) -> A] : Folded(N, base, step, iter)
    BY <1>4, <1>8, <1>10, FoldExists
  <2>2. ASSUME NEW S \in SUBSET (1..N)
        PROVE  iter[S] = IF S = {} THEN base
                         ELSE Deliver(iter[S \ {Max(S)}], s, f, seq[Max(S)])
    <3>1. iter[S] = IF S = {} THEN base ELSE step[Max(S)][iter[S \ {Max(S)}]]
      BY <2>1 DEF Folded
    <3>2. S # {} => Max(S) \in 1..N
      BY <1>4, MaxIsIn
    <3>3. iter[S \ {Max(S)}] \in A
      <4>1. S \ {Max(S)} \in SUBSET (1..N)
        OBVIOUS
      <4> QED
        BY <4>1
    <3> QED
      BY <1>9, <3>1, <3>2, <3>3
  <2>3. Runs(iter)
    BY <2>2
  <2> HIDE DEF Runs
  <2> QED
    BY <2>3
<1>12. PICK iter : Runs(iter) /\ Interact(acc, s, f) = iter[1..N]
  <2> HIDE DEF Runs
  <2> QED
    BY <1>6, <1>11
<1>13. FoldedWithin(N, A, base, step, iter)
  <2> SUFFICES ASSUME NEW S \in SUBSET (1..N)
               PROVE  iter[S] = IF S = {} THEN base
                                ELSE IF iter[S \ {Max(S)}] \in A THEN step[Max(S)][iter[S \ {Max(S)}]]
                                ELSE iter[S]
    BY DEF FoldedWithin
  <2>1. iter[S] = IF S = {} THEN base ELSE Deliver(iter[S \ {Max(S)}], s, f, seq[Max(S)])
    BY <1>12
  <2>2. S # {} => Max(S) \in 1..N
    BY <1>4, MaxIsIn
  <2> HIDE DEF Runs
  <2> QED
    BY <1>9, <2>1, <2>2
<1> HIDE DEF Runs
<1>14. /\ iter[1..N] \in A
       /\ \A n \in 1..N : \E a \in A : iter[1..N] \in Onwards(step[n][a], RealStates)
  <2>1. \A n \in 1..N : \A a \in A : step[n][a] \in Onwards(a, RealStates)
    BY <1>7, <1>9
  <2> QED
    BY <1>3, <1>4, <1>8, <1>13, <2>1, FoldsOnward DEF A
<1>15. Interact(acc, s, f) \in Onwards(acc, RealStates)
  <2>1. Onwards(base, RealStates) \subseteq Onwards(acc, RealStates)
    BY <1>2, OnwardsFrom DEF Sound
  <2> QED
    BY <1>12, <1>14, <2>1 DEF A
<1>16. Spread(Interact(acc, s, f), f)
  BY <1>2, <1>3, <1>12, <1>14, OnwardsIsSound DEF A, Spread
<1>17. ASSUME NEW m \in Admitted(s, f)
       PROVE  Crossed(Interact(acc, s, f), Key(DeliveredState(s, f, m)))
  <2>1. CASE Len(f.to) > Limits.fanOut
    <3>1. base.diagnostics # {}
      BY <1>2, <2>1
    <3>2. Crossed(base, Key(DeliveredState(s, f, m)))
      BY <3>1 DEF Crossed
    <3> QED
      BY <1>3, <1>12, <1>14, <3>2, OnwardsIsSound DEF A
  <2>2. CASE ~(Len(f.to) > Limits.fanOut)
    <3>1. PICK n \in 1..N : seq[n] = m
      BY <1>1, <2>2, MatchesAre DEF N, seq, Admitted
    <3>2. PICK a \in A : iter[1..N] \in Onwards(step[n][a], RealStates)
      BY <1>14
    <3>3. step[n][a] = Deliver(a, s, f, m)
      BY <1>9, <3>1
    <3>4. Crossed(step[n][a], Key(DeliveredState(s, f, m)))
      BY <1>7, <3>1, <3>3
    <3>5. Sound(step[n][a])
      BY <1>3, <1>7, <3>1, <3>3, OnwardsIsSound DEF A
    <3> QED
      BY <1>12, <3>2, <3>4, <3>5, OnwardsIsSound
  <2> QED
    BY <2>1, <2>2
<1> QED
  BY <1>15, <1>16, <1>17

-----------------------------------------------------------------------------
\* The interactions of a state, in the order of the document.
CrossOne(acc, s, f) == IF f \in Interactions(s) THEN Interact(acc, s, f) ELSE acc

LEMMA CrossKeeps ==
    ASSUME ValidDocument, NEW acc, Sound(acc), NEW s \in RealStates, Here(acc, s)
    PROVE  /\ Cross(acc, s) \in Onwards(acc, RealStates)
           /\ \A f \in Interactions(s) : \A m \in Admitted(s, f) :
                 Crossed(Cross(acc, s), Key(DeliveredState(s, f, m)))
           /\ \A f \in Interactions(s) : Spread(Cross(acc, s), f)
<1> DEFINE A == Onwards(acc, RealStates)
           N == Len(doc.facts)
           step == [n \in 1..N |-> [a \in A |-> CrossOne(a, s, doc.facts[n])]]
           Runs(iter) == iter = [S \in SUBSET (1..N) |->
                                    IF S = {} THEN acc
                                    ELSE CrossOne(iter[S \ {Max(S)}], s, doc.facts[Max(S)])]
<1>4. N \in Nat /\ DOMAIN doc.facts = 1..N
  BY LenProperties DEF ValidDocument
<1>5. \A n \in 1..N : doc.facts[n] \in Facts
  BY <1>4 DEF Facts, ToSet
<1>6. Cross(acc, s) = (CHOOSE iter : Runs(iter))[1..N]
  <2>1. Cross(acc, s) =
            (CHOOSE iter : iter = [S \in SUBSET DOMAIN doc.facts |->
                                    IF S = {} THEN acc
                                    ELSE CrossOne(iter[S \ {Max(S)}], s, doc.facts[Max(S)])])[DOMAIN doc.facts]
    BY DEF Cross, CrossOne, FoldLeft, MapThenFoldSet
  <2> QED
    BY <1>4, <2>1
<1> HIDE DEF N
<1>7. ASSUME NEW n \in 1..N, NEW a \in A
      PROVE  /\ CrossOne(a, s, doc.facts[n]) \in Onwards(a, RealStates)
             /\ CrossOne(a, s, doc.facts[n]) \in A
             /\ doc.facts[n] \in Interactions(s) =>
                   /\ Spread(CrossOne(a, s, doc.facts[n]), doc.facts[n])
                   /\ \A m \in Admitted(s, doc.facts[n]) :
                         Crossed(CrossOne(a, s, doc.facts[n]), Key(DeliveredState(s, doc.facts[n], m)))
  <2>1. Sound(a) /\ Here(a, s)
    BY OnwardsIsSound
  <2>2. /\ CrossOne(a, s, doc.facts[n]) \in Onwards(a, RealStates)
        /\ doc.facts[n] \in Interactions(s) =>
               /\ Spread(CrossOne(a, s, doc.facts[n]), doc.facts[n])
               /\ \A m \in Admitted(s, doc.facts[n]) :
                     Crossed(CrossOne(a, s, doc.facts[n]), Key(DeliveredState(s, doc.facts[n], m)))
    <3>1. CASE doc.facts[n] \in Interactions(s)
      BY <2>1, <3>1, InteractKeeps DEF CrossOne
    <3>2. CASE doc.facts[n] \notin Interactions(s)
      BY <2>1, <3>2 DEF CrossOne, Sound
    <3> QED
      BY <3>1, <3>2
  <2>3. Onwards(a, RealStates) \subseteq A
    BY OnwardsFrom DEF Sound
  <2> QED
    BY <2>2, <2>3
<1>8. step \in [1..N -> [A -> A]]
  BY <1>7
<1>9. \A n \in 1..N : \A a \in A : step[n][a] = CrossOne(a, s, doc.facts[n])
  OBVIOUS
<1>10. acc \in A
  BY DEF Sound
<1> HIDE DEF A, step
<1>11. \E iter : Runs(iter)
  <2>1. PICK iter \in [SUBSET (1..N) -> A] : Folded(N, acc, step, iter)
    BY <1>4, <1>8, <1>10, FoldExists
  <2>2. ASSUME NEW S \in SUBSET (1..N)
        PROVE  iter[S] = IF S = {} THEN acc
                         ELSE CrossOne(iter[S \ {Max(S)}], s, doc.facts[Max(S)])
    <3>1. iter[S] = IF S = {} THEN acc ELSE step[Max(S)][iter[S \ {Max(S)}]]
      BY <2>1 DEF Folded
    <3>2. S # {} => Max(S) \in 1..N
      BY <1>4, MaxIsIn
    <3>3. iter[S \ {Max(S)}] \in A
      <4>1. S \ {Max(S)} \in SUBSET (1..N)
        OBVIOUS
      <4> QED
        BY <4>1
    <3> QED
      BY <1>9, <3>1, <3>2, <3>3
  <2>3. Runs(iter)
    BY <2>2
  <2> HIDE DEF Runs
  <2> QED
    BY <2>3
<1>12. PICK iter : Runs(iter) /\ Cross(acc, s) = iter[1..N]
  <2> HIDE DEF Runs
  <2> QED
    BY <1>6, <1>11
<1>13. FoldedWithin(N, A, acc, step, iter)
  <2> SUFFICES ASSUME NEW S \in SUBSET (1..N)
               PROVE  iter[S] = IF S = {} THEN acc
                                ELSE IF iter[S \ {Max(S)}] \in A THEN step[Max(S)][iter[S \ {Max(S)}]]
                                ELSE iter[S]
    BY DEF FoldedWithin
  <2>1. iter[S] = IF S = {} THEN acc ELSE CrossOne(iter[S \ {Max(S)}], s, doc.facts[Max(S)])
    BY <1>12
  <2>2. S # {} => Max(S) \in 1..N
    BY <1>4, MaxIsIn
  <2> HIDE DEF Runs
  <2> QED
    BY <1>9, <2>1, <2>2
<1> HIDE DEF Runs
<1>14. /\ iter[1..N] \in A
       /\ \A n \in 1..N : \E a \in A : iter[1..N] \in Onwards(step[n][a], RealStates)
  <2>1. \A n \in 1..N : \A a \in A : step[n][a] \in Onwards(a, RealStates)
    BY <1>7, <1>9
  <2> QED
    BY <1>4, <1>8, <1>13, <2>1, FoldsOnward DEF A
<1>15. Cross(acc, s) \in Onwards(acc, RealStates)
  BY <1>12, <1>14 DEF A
<1>16. ASSUME NEW f \in Interactions(s)
       PROVE  /\ \A m \in Admitted(s, f) : Crossed(Cross(acc, s), Key(DeliveredState(s, f, m)))
              /\ Spread(Cross(acc, s), f)
  <2>1. PICK n \in 1..N : doc.facts[n] = f
    BY <1>4 DEF Interactions, Direct, FactsOf, ToSet
  <2>2. PICK a \in A : iter[1..N] \in Onwards(step[n][a], RealStates)
    BY <1>14
  <2>3. step[n][a] = CrossOne(a, s, f)
    BY <1>9, <2>1
  <2>4. /\ \A m \in Admitted(s, f) : Crossed(step[n][a], Key(DeliveredState(s, f, m)))
        /\ Spread(step[n][a], f)
    BY <1>7, <2>1, <2>3
  <2>5. Sound(step[n][a])
    BY <1>7, <2>1, <2>3, OnwardsIsSound DEF A
  <2>6. \A m \in Admitted(s, f) : Crossed(Cross(acc, s), Key(DeliveredState(s, f, m)))
    BY <1>12, <2>2, <2>4, <2>5, OnwardsIsSound
  <2>7. Spread(Cross(acc, s), f)
    BY <1>12, <2>2, <2>4, <2>5, OnwardsIsSound DEF Spread
  <2> QED
    BY <2>6, <2>7
<1> QED
  BY <1>15, <1>16

\* The calls of a state: all of them, or there is a diagnostic.
FollowOne(acc, s, f) == IF f \in Calls(s) THEN Follow(acc, s, f) ELSE acc

LEMMA FollowCallsKeeps ==
    ASSUME ValidDocument, NEW acc, Sound(acc), NEW s \in RealStates, Here(acc, s)
    PROVE  /\ FollowCalls(acc, s) \in Onwards(acc, RealStates)
           /\ \A f \in Calls(s) : Followed(FollowCalls(acc, s), s, f)
<1>1. CASE ~(s.depth < Limits.depth) /\ Calls(s) = {}
  <2>1. FollowCalls(acc, s) = acc
    BY <1>1 DEF FollowCalls
  <2> QED
    BY <1>1, <2>1 DEF Sound
<1>2. CASE ~(s.depth < Limits.depth) /\ Calls(s) # {}
  <2>1. FollowCalls(acc, s) = Diagnose(acc, "CALL_DEPTH_LIMIT", s.methodId, "depth")
    BY <1>2 DEF FollowCalls
  <2>2. s.methodId \in Methods
    BY DEF RealStates, States
  <2>3. /\ FollowCalls(acc, s) \in Onwards(acc, RealStates)
        /\ FollowCalls(acc, s).diagnostics # {}
    BY <2>1, <2>2, DiagnoseKeeps DEF WalkCodes, WalkReasons, Sound
  <2> QED
    BY <1>2, <2>3 DEF Followed
<1>3. CASE s.depth < Limits.depth
  <2> DEFINE A == Onwards(acc, RealStates)
             N == Len(doc.facts)
             step == [n \in 1..N |-> [a \in A |-> FollowOne(a, s, doc.facts[n])]]
             Runs(iter) == iter = [S \in SUBSET (1..N) |->
                                      IF S = {} THEN acc
                                      ELSE FollowOne(iter[S \ {Max(S)}], s, doc.facts[Max(S)])]
  <2>4. N \in Nat /\ DOMAIN doc.facts = 1..N
    BY LenProperties DEF ValidDocument
  <2>5. \A n \in 1..N : doc.facts[n] \in Facts
    BY <2>4 DEF Facts, ToSet
  <2>6. FollowCalls(acc, s) = (CHOOSE iter : Runs(iter))[1..N]
    <3>1. FollowCalls(acc, s) =
              (CHOOSE iter : iter = [S \in SUBSET DOMAIN doc.facts |->
                                      IF S = {} THEN acc
                                      ELSE FollowOne(iter[S \ {Max(S)}], s, doc.facts[Max(S)])])[DOMAIN doc.facts]
      BY <1>3 DEF FollowCalls, FollowOne, FoldLeft, MapThenFoldSet
    <3> QED
      BY <2>4, <3>1
  <2> HIDE DEF N
  <2>7. ASSUME NEW n \in 1..N, NEW a \in A
        PROVE  /\ FollowOne(a, s, doc.facts[n]) \in Onwards(a, RealStates)
               /\ FollowOne(a, s, doc.facts[n]) \in A
               /\ doc.facts[n] \in Calls(s) => Followed(FollowOne(a, s, doc.facts[n]), s, doc.facts[n])
    <3>1. Sound(a) /\ Here(a, s)
      BY OnwardsIsSound
    <3>2. /\ FollowOne(a, s, doc.facts[n]) \in Onwards(a, RealStates)
          /\ doc.facts[n] \in Calls(s) =>
                 Followed(FollowOne(a, s, doc.facts[n]), s, doc.facts[n])
      <4>1. CASE doc.facts[n] \in Calls(s)
        BY <1>3, <3>1, <4>1, FollowKeeps DEF FollowOne
      <4>2. CASE doc.facts[n] \notin Calls(s)
        BY <3>1, <4>2 DEF FollowOne, Sound
      <4> QED
        BY <4>1, <4>2
    <3>3. Onwards(a, RealStates) \subseteq A
      BY OnwardsFrom DEF Sound
    <3> QED
      BY <3>2, <3>3
  <2>8. step \in [1..N -> [A -> A]]
    BY <2>7
  <2>9. \A n \in 1..N : \A a \in A : step[n][a] = FollowOne(a, s, doc.facts[n])
    OBVIOUS
  <2>10. acc \in A
    BY DEF Sound
  <2> HIDE DEF A, step
  <2>11. \E iter : Runs(iter)
    <3>1. PICK iter \in [SUBSET (1..N) -> A] : Folded(N, acc, step, iter)
      BY <2>4, <2>8, <2>10, FoldExists
    <3>2. ASSUME NEW S \in SUBSET (1..N)
          PROVE  iter[S] = IF S = {} THEN acc
                           ELSE FollowOne(iter[S \ {Max(S)}], s, doc.facts[Max(S)])
      <4>1. iter[S] = IF S = {} THEN acc ELSE step[Max(S)][iter[S \ {Max(S)}]]
        BY <3>1 DEF Folded
      <4>2. S # {} => Max(S) \in 1..N
        BY <2>4, MaxIsIn
      <4>3. iter[S \ {Max(S)}] \in A
        <5>1. S \ {Max(S)} \in SUBSET (1..N)
          OBVIOUS
        <5> QED
          BY <5>1
      <4> QED
        BY <2>9, <4>1, <4>2, <4>3
    <3>3. Runs(iter)
      BY <3>2
    <3> HIDE DEF Runs
    <3> QED
      BY <3>3
  <2>12. PICK iter : Runs(iter) /\ FollowCalls(acc, s) = iter[1..N]
    <3> HIDE DEF Runs
    <3> QED
      BY <2>6, <2>11
  <2>13. FoldedWithin(N, A, acc, step, iter)
    <3> SUFFICES ASSUME NEW S \in SUBSET (1..N)
                 PROVE  iter[S] = IF S = {} THEN acc
                                  ELSE IF iter[S \ {Max(S)}] \in A THEN step[Max(S)][iter[S \ {Max(S)}]]
                                  ELSE iter[S]
      BY DEF FoldedWithin
    <3>1. iter[S] = IF S = {} THEN acc ELSE FollowOne(iter[S \ {Max(S)}], s, doc.facts[Max(S)])
      BY <2>12
    <3>2. S # {} => Max(S) \in 1..N
      BY <2>4, MaxIsIn
    <3> HIDE DEF Runs
    <3> QED
      BY <2>9, <3>1, <3>2
  <2> HIDE DEF Runs
  <2>14. /\ iter[1..N] \in A
         /\ \A n \in 1..N : \E a \in A : iter[1..N] \in Onwards(step[n][a], RealStates)
    <3>1. \A n \in 1..N : \A a \in A : step[n][a] \in Onwards(a, RealStates)
      BY <2>7, <2>9
    <3> QED
      BY <2>4, <2>8, <2>13, <3>1, FoldsOnward DEF A
  <2>15. FollowCalls(acc, s) \in Onwards(acc, RealStates)
    BY <2>12, <2>14 DEF A
  <2>16. ASSUME NEW f \in Calls(s) PROVE Followed(FollowCalls(acc, s), s, f)
    <3>1. PICK n \in 1..N : doc.facts[n] = f
      BY <2>4 DEF Calls, Direct, FactsOf, ToSet
    <3>2. PICK a \in A : iter[1..N] \in Onwards(step[n][a], RealStates)
      BY <2>14
    <3>3. step[n][a] = FollowOne(a, s, f)
      BY <2>9, <3>1
    <3>4. Followed(step[n][a], s, f)
      BY <2>7, <3>1, <3>3
    <3>5. Sound(step[n][a])
      BY <2>7, <3>1, <3>3, OnwardsIsSound DEF A
    <3> QED
      BY <2>12, <3>2, <3>4, <3>5, FollowedStays
  <2> QED
    BY <2>15, <2>16
<1> QED
  BY <1>1, <1>2, <1>3

-----------------------------------------------------------------------------
\* The roots are enqueued whole and are real.
EntryOf(class, m) == [Entry(m) EXCEPT !.class = class]

LEMMA RootIsReal ==
    ASSUME ValidDocument, NEW m \in ToSet(doc.implementations)
    PROVE  RootState(m) \in RealStates
<1> DEFINE t == RootState(m)
<1>1. m \in Methods /\ RootPlace(m) \in Within[0] /\ doc.root \in {"endpoint", "queue"} \cup Timings
  BY RootsArePlaces, WithinRuns DEF ValidDocument
<1>2. ClassOf(RootPlace(m)) \in Classes \cup {NoClass}
  BY <1>1 DEF ClassOf, RootPlace, Classes, LocalClasses, Timings
<1>3. /\ t.methodId = m /\ t.path = {m} /\ t.filter = "*" /\ t.class = ClassOf(RootPlace(m))
      /\ t.depth = 0 /\ t.hop = 0 /\ t.methodId \in t.path /\ t \in States
  BY <1>1, <1>2 DEF RootState, States, Filters
<1>4. Derived(t)
  BY RootsDerive
<1> HIDE DEF t
<1>5. Arrows(t) = 1
  <2>1. Cardinality({m}) = 1
    BY FS_Singleton
  <2>2. t.path = {m} /\ t.filter # "section"
    BY <1>3
  <2> QED
    BY <2>1, <2>2 DEF Arrows
<1>6. 1 \in 1..MaxArrows /\ 0 \in 0..MaxArrows /\ 1 \in 0..MaxArrows /\ MaxArrows \in Nat
  BY <1>3, <1>5, ArrowsAreBounded, MaxArrowsIsANumber
<1>7. RootPlace(m) \in Within[1]
  BY <1>1, <1>6, WithinGrows
<1>8. StandsAt(t, RootPlace(m))
  BY <1>3 DEF StandsAt, RootPlace
<1>9. OnCalls(t)
  BY <1>1, <1>3, CallsRun DEF OnCalls
<1>10. t \in RealStates
  BY <1>3, <1>4, <1>5, <1>7, <1>8, <1>9 DEF RealStates
<1> QED
  BY <1>10 DEF t

LEMMA EntryIsReal ==
    ASSUME ValidDocument, NEW m \in ToSet(doc.implementations)
    PROVE  /\ EntryOf(InitialCausalClass, m) \in RealStates \/ doc.root = "endpoint"
           /\ Entry(m) \in RealStates \/ doc.root # "endpoint"
<1>1. doc.root \in {"endpoint", "queue"} \cup Timings
  BY DEF ValidDocument
<1>2. doc.root = "endpoint" => Entry(m) = RootState(m)
  BY DEF ClassOf, RootPlace, Entry, RootState, Timings
<1>3. ASSUME doc.root # "endpoint" PROVE EntryOf(InitialCausalClass, m) = RootState(m)
  <2>1. ClassOf(RootPlace(m)) = InitialCausalClass
    BY <1>1, <1>3 DEF ClassOf, RootPlace, InitialCausalClass, Timings
  <2>2. EntryOf(InitialCausalClass, m) =
            [methodId |-> m, depth |-> 0, hop |-> 0, class |-> InitialCausalClass,
             filter |-> "*", path |-> {m}]
    BY DEF EntryOf, Entry
  <2> QED
    BY <2>1, <2>2 DEF RootState
<1> QED
  BY <1>2, <1>3, RootIsReal

\* What the roots have and steps keep, every state of the walk has.
LEMMA StatesAreDerived ==
    ASSUME ValidDocument, NEW S,
           \A m \in ToSet(doc.implementations) : RootState(m) \in RealStates => RootState(m) \in S,
           \A s \in RealStates, t \in RealStates : s \in S /\ StepsTo(s, t) => t \in S
    PROVE  \A s \in RealStates : s \in S
<1> DEFINE R == RealStates \cap S
<1>1. \A m \in ToSet(doc.implementations) : RootState(m) \in R
  BY RootIsReal
<1>2. ASSUME NEW s \in RealStates, NEW t, StepsTo(s, t) PROVE t \in RealStates
  BY <1>2, LockedIsReal, DeliveredIsReal, CalledIsReal DEF StepsTo
<1>3. \A s \in R : \A t : StepsTo(s, t) => t \in R
  BY <1>2
<1> HIDE DEF R
<1>4. \A s : Derived(s) => s \in R
  BY <1>1, <1>3 DEF Derived
<1> QED
  BY <1>4 DEF R, RealStates

\* The root is in the queue.
Rooted(acc, m) ==
    \/ \E j \in 1..Len(acc.queue) :
          /\ acc.queue[j].methodId = m /\ acc.queue[j].filter = "*"
          /\ acc.queue[j].depth = 0 /\ acc.queue[j].hop = 0
    \/ StateLimitReported(acc)

LEMMA EnterKeeps ==
    ASSUME ValidDocument, NEW acc, Sound(acc), NEW t \in RealStates, t.path = {t.methodId},
           t.methodId \in ToSet(doc.implementations), t.filter = "*", t.depth = 0, t.hop = 0
    PROVE  /\ Enqueue(acc, t) \in Onwards(acc, RealStates)
           /\ Rooted(Enqueue(acc, t), t.methodId)
<1>1. RealStates \in SUBSET States
  BY DEF RealStates
<1>2. /\ Enqueue(acc, t) \in Onwards(acc, RealStates)
      /\ Enqueued(Enqueue(acc, t), Key(t))
  BY <1>1, EnqueueKeeps DEF Sound, Sprung
<1> QED
  BY <1>2 DEF Enqueued, Rooted, Holds, Key

LEMMA RootedStays ==
    ASSUME NEW acc, Sound(acc), NEW b \in Onwards(acc, RealStates), NEW m, Rooted(acc, m)
    PROVE  Rooted(b, m)
<1>1. acc \in Accumulators /\ b \in Accumulators /\ Grows(acc, b)
  BY DEF Onwards, Sound
<1>2. Len(acc.queue) \in Nat /\ Len(b.queue) \in Nat
  BY <1>1, LenProperties DEF Accumulators
<1>3. \A j \in 1..Len(acc.queue) : j \in 1..Len(b.queue) /\ b.queue[j] = acc.queue[j]
  BY <1>1, <1>2 DEF Grows
<1> QED
  BY <1>1, <1>3, GrowthKeeps DEF Rooted

Entries(acc) == FoldLeft(LAMBDA a, m : Enqueue(a, Entry(m)), acc, doc.implementations)

HandlerEntries(acc) ==
    FoldLeft(LAMBDA a, m : Enqueue(a, HandlerEntry(m)), acc, doc.implementations)

\* The implementations of an endpoint.
LEMMA EntriesAreRooted ==
    ASSUME ValidDocument, NEW acc, Sound(acc), doc.root = "endpoint"
    PROVE  /\ Entries(acc) \in Onwards(acc, RealStates)
           /\ \A m \in ToSet(doc.implementations) : Rooted(Entries(acc), m)
<1> DEFINE A == Onwards(acc, RealStates)
           N == Len(doc.implementations)
           step == [n \in 1..N |-> [a \in A |-> Enqueue(a, Entry(doc.implementations[n]))]]
           Runs(iter) == iter = [S \in SUBSET (1..N) |->
                                    IF S = {} THEN acc
                                    ELSE Enqueue(iter[S \ {Max(S)}], Entry(doc.implementations[Max(S)]))]
<1>4. N \in Nat /\ DOMAIN doc.implementations = 1..N
  BY LenProperties DEF ValidDocument
<1>5. \A n \in 1..N : doc.implementations[n] \in ToSet(doc.implementations)
  BY <1>4 DEF ToSet
<1>6. Entries(acc) = (CHOOSE iter : Runs(iter))[1..N]
  <2>1. Entries(acc) =
            (CHOOSE iter : iter = [S \in SUBSET DOMAIN doc.implementations |->
                                    IF S = {} THEN acc
                                    ELSE Enqueue(iter[S \ {Max(S)}], Entry(doc.implementations[Max(S)]))])[DOMAIN doc.implementations]
    BY DEF Entries, FoldLeft, MapThenFoldSet
  <2> QED
    BY <1>4, <2>1
<1> HIDE DEF N
<1>7. ASSUME NEW n \in 1..N, NEW a \in A
      PROVE  /\ Enqueue(a, Entry(doc.implementations[n])) \in Onwards(a, RealStates)
             /\ Enqueue(a, Entry(doc.implementations[n])) \in A
             /\ Rooted(Enqueue(a, Entry(doc.implementations[n])), doc.implementations[n])
  <2>1. Sound(a)
    BY OnwardsIsSound
  <2>2. /\ Enqueue(a, Entry(doc.implementations[n])) \in Onwards(a, RealStates)
        /\ Rooted(Enqueue(a, Entry(doc.implementations[n])), doc.implementations[n])
    <3>1. Entry(doc.implementations[n]) \in RealStates
      BY <1>5, EntryIsReal DEF Entry
    <3>2. /\ Entry(doc.implementations[n]).methodId = doc.implementations[n]
          /\ Entry(doc.implementations[n]).path = {doc.implementations[n]}
          /\ Entry(doc.implementations[n]).filter = "*"
          /\ Entry(doc.implementations[n]).depth = 0 /\ Entry(doc.implementations[n]).hop = 0
      BY DEF Entry, Entry
    <3> QED
      BY <1>5, <2>1, <3>1, <3>2, EnterKeeps
  <2>3. Onwards(a, RealStates) \subseteq A
    BY OnwardsFrom DEF Sound
  <2> QED
    BY <2>2, <2>3
<1>8. step \in [1..N -> [A -> A]]
  BY <1>7
<1>9. \A n \in 1..N : \A a \in A : step[n][a] = Enqueue(a, Entry(doc.implementations[n]))
  OBVIOUS
<1>10. acc \in A
  BY DEF Sound
<1> HIDE DEF A, step
<1>11. \E iter : Runs(iter)
  <2>1. PICK iter \in [SUBSET (1..N) -> A] : Folded(N, acc, step, iter)
    BY <1>4, <1>8, <1>10, FoldExists
  <2>2. ASSUME NEW S \in SUBSET (1..N)
        PROVE  iter[S] = IF S = {} THEN acc
                         ELSE Enqueue(iter[S \ {Max(S)}], Entry(doc.implementations[Max(S)]))
    <3>1. iter[S] = IF S = {} THEN acc ELSE step[Max(S)][iter[S \ {Max(S)}]]
      BY <2>1 DEF Folded
    <3>2. S # {} => Max(S) \in 1..N
      BY <1>4, MaxIsIn
    <3>3. iter[S \ {Max(S)}] \in A
      <4>1. S \ {Max(S)} \in SUBSET (1..N)
        OBVIOUS
      <4> QED
        BY <4>1
    <3> QED
      BY <1>9, <3>1, <3>2, <3>3
  <2>3. Runs(iter)
    BY <2>2
  <2> HIDE DEF Runs
  <2> QED
    BY <2>3
<1>12. PICK iter : Runs(iter) /\ Entries(acc) = iter[1..N]
  <2> HIDE DEF Runs
  <2> QED
    BY <1>6, <1>11
<1>13. FoldedWithin(N, A, acc, step, iter)
  <2> SUFFICES ASSUME NEW S \in SUBSET (1..N)
               PROVE  iter[S] = IF S = {} THEN acc
                                ELSE IF iter[S \ {Max(S)}] \in A THEN step[Max(S)][iter[S \ {Max(S)}]]
                                ELSE iter[S]
    BY DEF FoldedWithin
  <2>1. iter[S] = IF S = {} THEN acc ELSE Enqueue(iter[S \ {Max(S)}], Entry(doc.implementations[Max(S)]))
    BY <1>12
  <2>2. S # {} => Max(S) \in 1..N
    BY <1>4, MaxIsIn
  <2> HIDE DEF Runs
  <2> QED
    BY <1>9, <2>1, <2>2
<1> HIDE DEF Runs
<1>14. /\ iter[1..N] \in A
       /\ \A n \in 1..N : \E a \in A : iter[1..N] \in Onwards(step[n][a], RealStates)
  <2>1. \A n \in 1..N : \A a \in A : step[n][a] \in Onwards(a, RealStates)
    BY <1>7, <1>9
  <2> QED
    BY <1>4, <1>8, <1>13, <2>1, FoldsOnward DEF A
<1>15. Entries(acc) \in Onwards(acc, RealStates)
  BY <1>12, <1>14 DEF A
<1>16. ASSUME NEW m \in ToSet(doc.implementations) PROVE Rooted(Entries(acc), m)
  <2>1. PICK n \in 1..N : doc.implementations[n] = m
    BY <1>4 DEF ToSet
  <2>2. PICK a \in A : iter[1..N] \in Onwards(step[n][a], RealStates)
    BY <1>14
  <2>3. step[n][a] = Enqueue(a, Entry(m))
    BY <1>9, <2>1
  <2>4. Rooted(step[n][a], m)
    BY <1>7, <2>1, <2>3
  <2>5. Sound(step[n][a])
    BY <1>7, <2>1, <2>3, OnwardsIsSound DEF A
  <2> QED
    BY <1>12, <2>2, <2>4, <2>5, RootedStays
<1> QED
  BY <1>15, <1>16

\* The implementations of a handler.
LEMMA HandlerEntriesAreRooted ==
    ASSUME ValidDocument, NEW acc, Sound(acc), doc.root # "endpoint"
    PROVE  /\ HandlerEntries(acc) \in Onwards(acc, RealStates)
           /\ \A m \in ToSet(doc.implementations) : Rooted(HandlerEntries(acc), m)
<1> DEFINE A == Onwards(acc, RealStates)
           N == Len(doc.implementations)
           step == [n \in 1..N |-> [a \in A |-> Enqueue(a, HandlerEntry(doc.implementations[n]))]]
           Runs(iter) == iter = [S \in SUBSET (1..N) |->
                                    IF S = {} THEN acc
                                    ELSE Enqueue(iter[S \ {Max(S)}], HandlerEntry(doc.implementations[Max(S)]))]
<1>4. N \in Nat /\ DOMAIN doc.implementations = 1..N
  BY LenProperties DEF ValidDocument
<1>5. \A n \in 1..N : doc.implementations[n] \in ToSet(doc.implementations)
  BY <1>4 DEF ToSet
<1>6. HandlerEntries(acc) = (CHOOSE iter : Runs(iter))[1..N]
  <2>1. HandlerEntries(acc) =
            (CHOOSE iter : iter = [S \in SUBSET DOMAIN doc.implementations |->
                                    IF S = {} THEN acc
                                    ELSE Enqueue(iter[S \ {Max(S)}], HandlerEntry(doc.implementations[Max(S)]))])[DOMAIN doc.implementations]
    BY DEF HandlerEntries, FoldLeft, MapThenFoldSet
  <2> QED
    BY <1>4, <2>1
<1> HIDE DEF N
<1>7. ASSUME NEW n \in 1..N, NEW a \in A
      PROVE  /\ Enqueue(a, HandlerEntry(doc.implementations[n])) \in Onwards(a, RealStates)
             /\ Enqueue(a, HandlerEntry(doc.implementations[n])) \in A
             /\ Rooted(Enqueue(a, HandlerEntry(doc.implementations[n])), doc.implementations[n])
  <2>1. Sound(a)
    BY OnwardsIsSound
  <2>2. /\ Enqueue(a, HandlerEntry(doc.implementations[n])) \in Onwards(a, RealStates)
        /\ Rooted(Enqueue(a, HandlerEntry(doc.implementations[n])), doc.implementations[n])
    <3>1. HandlerEntry(doc.implementations[n]) \in RealStates
      BY <1>5, EntryIsReal DEF HandlerEntry, EntryOf
    <3>2. /\ HandlerEntry(doc.implementations[n]).methodId = doc.implementations[n]
          /\ HandlerEntry(doc.implementations[n]).path = {doc.implementations[n]}
          /\ HandlerEntry(doc.implementations[n]).filter = "*"
          /\ HandlerEntry(doc.implementations[n]).depth = 0 /\ HandlerEntry(doc.implementations[n]).hop = 0
      BY DEF Entry, HandlerEntry
    <3> QED
      BY <1>5, <2>1, <3>1, <3>2, EnterKeeps
  <2>3. Onwards(a, RealStates) \subseteq A
    BY OnwardsFrom DEF Sound
  <2> QED
    BY <2>2, <2>3
<1>8. step \in [1..N -> [A -> A]]
  BY <1>7
<1>9. \A n \in 1..N : \A a \in A : step[n][a] = Enqueue(a, HandlerEntry(doc.implementations[n]))
  OBVIOUS
<1>10. acc \in A
  BY DEF Sound
<1> HIDE DEF A, step
<1>11. \E iter : Runs(iter)
  <2>1. PICK iter \in [SUBSET (1..N) -> A] : Folded(N, acc, step, iter)
    BY <1>4, <1>8, <1>10, FoldExists
  <2>2. ASSUME NEW S \in SUBSET (1..N)
        PROVE  iter[S] = IF S = {} THEN acc
                         ELSE Enqueue(iter[S \ {Max(S)}], HandlerEntry(doc.implementations[Max(S)]))
    <3>1. iter[S] = IF S = {} THEN acc ELSE step[Max(S)][iter[S \ {Max(S)}]]
      BY <2>1 DEF Folded
    <3>2. S # {} => Max(S) \in 1..N
      BY <1>4, MaxIsIn
    <3>3. iter[S \ {Max(S)}] \in A
      <4>1. S \ {Max(S)} \in SUBSET (1..N)
        OBVIOUS
      <4> QED
        BY <4>1
    <3> QED
      BY <1>9, <3>1, <3>2, <3>3
  <2>3. Runs(iter)
    BY <2>2
  <2> HIDE DEF Runs
  <2> QED
    BY <2>3
<1>12. PICK iter : Runs(iter) /\ HandlerEntries(acc) = iter[1..N]
  <2> HIDE DEF Runs
  <2> QED
    BY <1>6, <1>11
<1>13. FoldedWithin(N, A, acc, step, iter)
  <2> SUFFICES ASSUME NEW S \in SUBSET (1..N)
               PROVE  iter[S] = IF S = {} THEN acc
                                ELSE IF iter[S \ {Max(S)}] \in A THEN step[Max(S)][iter[S \ {Max(S)}]]
                                ELSE iter[S]
    BY DEF FoldedWithin
  <2>1. iter[S] = IF S = {} THEN acc ELSE Enqueue(iter[S \ {Max(S)}], HandlerEntry(doc.implementations[Max(S)]))
    BY <1>12
  <2>2. S # {} => Max(S) \in 1..N
    BY <1>4, MaxIsIn
  <2> HIDE DEF Runs
  <2> QED
    BY <1>9, <2>1, <2>2
<1> HIDE DEF Runs
<1>14. /\ iter[1..N] \in A
       /\ \A n \in 1..N : \E a \in A : iter[1..N] \in Onwards(step[n][a], RealStates)
  <2>1. \A n \in 1..N : \A a \in A : step[n][a] \in Onwards(a, RealStates)
    BY <1>7, <1>9
  <2> QED
    BY <1>4, <1>8, <1>13, <2>1, FoldsOnward DEF A
<1>15. HandlerEntries(acc) \in Onwards(acc, RealStates)
  BY <1>12, <1>14 DEF A
<1>16. ASSUME NEW m \in ToSet(doc.implementations) PROVE Rooted(HandlerEntries(acc), m)
  <2>1. PICK n \in 1..N : doc.implementations[n] = m
    BY <1>4 DEF ToSet
  <2>2. PICK a \in A : iter[1..N] \in Onwards(step[n][a], RealStates)
    BY <1>14
  <2>3. step[n][a] = Enqueue(a, HandlerEntry(m))
    BY <1>9, <2>1
  <2>4. Rooted(step[n][a], m)
    BY <1>7, <2>1, <2>3
  <2>5. Sound(step[n][a])
    BY <1>7, <2>1, <2>3, OnwardsIsSound DEF A
  <2> QED
    BY <1>12, <2>2, <2>4, <2>5, RootedStays
<1> QED
  BY <1>15, <1>16

-----------------------------------------------------------------------------
(***************************************************************************)
(* The inductive invariant.                                                *)
(***************************************************************************)
\* What a visited state leads to is in the queue, or there is a diagnostic.
Visited(acc, s) ==
    /\ HasSection(s) => Enqueued(acc, Key(LockedState(s)))
    /\ \A f \in Interactions(s) : \A m \in Admitted(s, f) :
          Crossed(acc, Key(DeliveredState(s, f, m)))
    /\ \A f \in Interactions(s) : Spread(acc, f)
    /\ \A f \in Calls(s) : Followed(acc, s, f)

\* The document does not change, so what is read from it does not.
LEMMA TheDocumentStays ==
    ASSUME doc' = doc
    PROVE  /\ ValidDocument' = ValidDocument /\ Facts' = Facts
           /\ Within' = Within /\ CallsWithin' = CallsWithin
<1>1. ValidDocument' = ValidDocument /\ Facts' = Facts
  BY DEF ValidDocument, Facts
<1>2. \A m : RootPlace(m)' = RootPlace(m)
  BY DEF RootPlace
<1>3. ASSUME NEW p PROVE ArrowsFrom(Facts, p)' = ArrowsFrom(Facts, p)
  <2> DEFINE called == {[p EXCEPT !.methodId = f.to[1], !.filter = "*"] :
                           f \in {g \in FactsAt(Facts, p) : g.channel = "call"}}
             entered == {[p EXCEPT !.filter = "section", !.locked = TRUE] :
                            f \in {g \in Facts : /\ g.from = p.methodId
                                                 /\ g.region = "section"
                                                 /\ p.filter = "*"}}
             over(f) == {[p EXCEPT !.methodId = m, !.filter = BranchFilter(f, m),
                                   !.queued = @ \/ f.channel = "queue", !.timing = TimingOf(f, m)] :
                             m \in ToSet(f.to) \ doc.candidates}
             crossing == {g \in FactsAt(Facts, p) : g.channel \in {"sync", "async", "queue"}}
             crossed == UNION {over(f) : f \in crossing}
  <2>1. ArrowsFrom(Facts, p) = called \cup entered \cup crossed
    BY DEF ArrowsFrom
  <2>2. ArrowsFrom(Facts, p)' = called' \cup entered' \cup crossed'
    BY DEF ArrowsFrom
  <2>3. FactsAt(Facts, p)' = FactsAt(Facts, p)
    BY <1>1 DEF FactsAt
  <2>4. called' = called /\ entered' = entered /\ crossing' = crossing
    BY <1>1, <2>3
  <2>5. \A f : over(f)' = over(f)
    <3>1. \A f, m : BranchFilter(f, m)' = BranchFilter(f, m) /\ TimingOf(f, m)' = TimingOf(f, m)
      BY DEF BranchFilter, TimingOf
    <3> QED
      BY <3>1
  <2> HIDE DEF called, entered, over, crossing
  <2>6. crossed' = crossed
    BY <2>4, <2>5
  <2> QED
    BY <2>1, <2>2, <2>4, <2>6
<1>4. Within' = Within
  <2> DEFINE roots == {RootPlace(m) : m \in ToSet(doc.implementations)}
             Next1(before) == before \cup UNION {ArrowsFrom(Facts, p) : p \in before}
             Runs(w) == w = [n \in 0..MaxArrows |-> IF n = 0 THEN roots ELSE Next1(w[n - 1])]
  <2>1. Within = (CHOOSE w : Runs(w)) /\ Within' = (CHOOSE w : Runs(w)')
    BY DEF Within
  <2>2. roots' = roots
    BY <1>2
  <2>3. \A before : Next1(before)' = Next1(before)
    BY <1>3
  <2> HIDE DEF roots, Next1
  <2>4. \A w : Runs(w)' <=> Runs(w)
    BY <2>2, <2>3
  <2> HIDE DEF Runs
  <2> QED
    BY <2>1, <2>4
<1>5. CallsWithin' = CallsWithin
  <2> DEFINE roots == ToSet(doc.implementations)
             Callees(before) == WithCallees(before)
             N == Limits.depth
             Runs(w) == w = [n \in 0..N |-> IF n = 0 THEN roots ELSE Callees(w[n - 1])]
  <2>1. CallsWithin = (CHOOSE w : Runs(w)) /\ CallsWithin' = (CHOOSE w : Runs(w)')
    BY DEF CallsWithin
  <2>2. roots' = roots /\ N' = N
    BY DEF Limits
  <2>3. \A before : Callees(before)' = Callees(before)
    BY <1>1 DEF WithCallees
  <2> HIDE DEF roots, Callees, N
  <2>4. \A w : Runs(w)' <=> Runs(w)
    BY <2>2, <2>3
  <2> HIDE DEF Runs
  <2> QED
    BY <2>1, <2>4
<1> QED
  BY <1>1, <1>4, <1>5

LEMMA TheLeadsStay ==
    ASSUME doc' = doc
    PROVE  \A s : LeadsTo(s)' = LeadsTo(s)
<1>1. \A s : Calls(s)' = Calls(s) /\ Interactions(s)' = Interactions(s)
  BY DEF Calls, Interactions, Direct, FactsOf
<1>2. \A f : Matches(f)' = Matches(f)
  BY DEF Matches, Limits
<1>3. \A s : {f.to[1] : f \in {f \in Calls(s) : s.depth < Limits.depth}}'
             = {f.to[1] : f \in {f \in Calls(s) : s.depth < Limits.depth}}
  BY <1>1 DEF Limits
<1>4. \A s : (UNION {ToSet(Matches(f)) : f \in Interactions(s)})' = UNION {ToSet(Matches(f)) : f \in Interactions(s)}
  BY <1>1, <1>2
<1> QED
  BY <1>3, <1>4 DEF LeadsTo

LEMMA TheStepsStay ==
    ASSUME doc' = doc
    PROVE  /\ \A s : /\ Interactions(s)' = Interactions(s) /\ Calls(s)' = Calls(s)
                     /\ HasSection(s)' <=> HasSection(s)
           /\ \A s, f, m : DeliveredState(s, f, m)' = DeliveredState(s, f, m)
           /\ \A s, f : Admitted(s, f)' = Admitted(s, f)
<1>1. \A s : Direct(s)' = Direct(s)
  BY DEF Direct, FactsOf
<1>2. \A s, f, m : DeliveredState(s, f, m)' = DeliveredState(s, f, m)
  BY DEF DeliveredState, BranchFilter, TimingOf
<1>3. \A s, f, m : PassedOver(s, f, m)' <=> PassedOver(s, f, m)
  BY DEF PassedOver, TimingOf
<1>4. \A s, f : Admitted(s, f)' = Admitted(s, f)
  BY <1>3 DEF Admitted
<1> QED
  BY <1>1, <1>2, <1>4 DEF Interactions, Calls, HasSection, FactsOf

LEMMA TheWalkStays ==
    ASSUME doc' = doc
    PROVE  /\ RealStates' = RealStates
           /\ \A acc : Onwards(acc, RealStates)' = Onwards(acc, RealStates)
           /\ \A acc : Sound(acc)' <=> Sound(acc)
<1>1. RealStates' = RealStates
  <2>1. \A s, t : StepsTo(s, t)' <=> StepsTo(s, t)
    BY TheStepsStay DEF StepsTo, Limits
  <2>2. \A s : Derived(s)' <=> Derived(s)
    <3>1. \A m : RootState(m)' = RootState(m)
      BY DEF RootState, RootPlace, ClassOf
    <3> HIDE DEF RootState
    <3> QED
      BY <2>1, <3>1 DEF Derived
  <2>3. \A s : OnCalls(s)' <=> OnCalls(s)
    BY TheDocumentStays DEF OnCalls, Limits
  <2> HIDE DEF OnCalls, Derived
  <2> QED
    BY <2>2, <2>3, TheDocumentStays DEF RealStates
<1>2. \A acc : PathsKept(acc)' <=> PathsKept(acc)
  BY DEF PathsKept
<1>3. \A acc : Connected(acc)' <=> Connected(acc)
  <2>1. \A s : LeadsTo(s)' = LeadsTo(s)
    BY TheLeadsStay
  <2>2. \A acc, L : ClosedUnder(acc, L)' <=> ClosedUnder(acc, L)
    BY <2>1 DEF ClosedUnder
  <2> QED
    BY <2>2 DEF Connected
<1>4. \A acc : Onwards(acc, RealStates)' = Onwards(acc, RealStates)
  <2> HIDE DEF RealStates, PathsKept, Connected
  <2> QED
    BY <1>1, <1>2, <1>3 DEF Onwards
<1>5. \A acc : Sound(acc)' <=> Sound(acc)
  BY <1>4 DEF Sound
<1> QED
  BY <1>1, <1>4, <1>5

LEMMA TheVisitsStay ==
    ASSUME doc' = doc
    PROVE  \A acc, s : Visited(acc, s)' <=> Visited(acc, s)
<1>3. \A acc, s, f : Followed(acc, s, f)' <=> Followed(acc, s, f)
  BY DEF Followed, Limits
<1>4. \A acc, f : Spread(acc, f)' <=> Spread(acc, f)
  BY DEF Spread, Limits
<1> QED
  BY <1>3, <1>4, TheStepsStay DEF Visited

LEMMA TheEffectsStay ==
    ASSUME doc' = doc
    PROVE  EffectsOf(Places(Facts))' = EffectsOf(Places(Facts))
<1>1. Places(Facts) = Within[MaxArrows] /\ Places(Facts)' = Within'[MaxArrows]
  BY DEF Places, Within
<1>2. Places(Facts)' = Places(Facts)
  BY <1>1, TheDocumentStays
<1>3. \A places : EffectsOf(places)' = EffectsOf(places)
  BY DEF EffectsOf, FactsAt
<1> QED
  BY <1>2, <1>3 DEF EffectsOf, FactsAt

LEMMA VisitedStays ==
    ASSUME NEW acc, Sound(acc), NEW b \in Onwards(acc, RealStates), NEW s, Visited(acc, s)
    PROVE  Visited(b, s)
BY OnwardsIsSound, FollowedStays DEF Visited, Spread

\* What may be published: the effects, and the resources met without a class.
Published ==
    LET effects == EffectsOf(Places(Facts)) IN effects \cup AssumedSynchronous(effects)

LEMMA ThePublishedStays ==
    ASSUME doc' = doc
    PROVE  Published' = Published
<1>1. \A effects : AssumedSynchronous(effects)' = AssumedSynchronous(effects)
  BY DEF AssumedSynchronous
<1> QED
  BY <1>1, TheEffectsStay DEF Published

\* A state that stands before an access publishes an effect of its place.
LEMMA EffectsArePublished ==
    ASSUME ValidDocument, NEW s \in RealStates, NEW f \in TableAccesses(s), NEW kind \in AccessKinds
    PROVE  <<s.methodId, kind, s.class>> \in EffectsOf(Places(Facts))
<1>2. f \in Direct(s) /\ f.channel = "table"
  BY DEF TableAccesses
<1>3. PICK p \in Within[Arrows(s)] : p \in AllPlaces /\ StandsAt(s, p)
  BY PlaceOf
<1>4. f \in FactsAt(Facts, p)
  BY <1>2, <1>3, DirectFactsAreAtThePlace
<1>5. p \in Places(Facts)
  <2>1. Arrows(s) \in 0..MaxArrows /\ MaxArrows \in Arrows(s)..MaxArrows
    BY ArrowsAreBounded, MaxArrowsIsANumber DEF RealStates
  <2> QED
    BY <1>3, <2>1, WithinGrows, PlacesAreWithin
<1>6. p.methodId = s.methodId /\ ClassOf(p) = s.class
  BY <1>3 DEF StandsAt
<1> QED
  BY <1>2, <1>4, <1>5, <1>6 DEF EffectsOf, Facts

\* Behind the handler of a queue everything is distributed.
LEMMA QueuesAreDistributed ==
    ASSUME ValidDocument, doc.root = "queue"
    PROVE  \A s \in RealStates : s.class = "distributed_conditional"
<1> DEFINE S == {s \in RealStates : s.class = "distributed_conditional"}
<1>1. ASSUME NEW m \in ToSet(doc.implementations), RootState(m) \in RealStates
      PROVE  RootState(m) \in S
  BY <1>1 DEF RootState, RootPlace, ClassOf
<1>2. ASSUME NEW s \in RealStates, NEW t \in RealStates, s \in S, StepsTo(s, t)
      PROVE  t \in S
  <2>1. s \in States /\ s.class = "distributed_conditional"
    BY <1>2 DEF RealStates
  <2>2. CASE t = LockedState(s)
    BY <2>1, <2>2 DEF LockedState, SectionClass, States
  <2>3. ASSUME NEW f, NEW m, t = DeliveredState(s, f, m) PROVE t \in S
    BY <2>1, <2>3 DEF DeliveredState, NextClass
  <2>4. ASSUME NEW f, t = CalledState(s, f) PROVE t \in S
    BY <2>1, <2>4 DEF CalledState, States
  <2> QED
    BY <1>2, <2>2, <2>3, <2>4 DEF StepsTo
<1> HIDE DEF S
<1>3. \A s \in RealStates : s \in S
  BY <1>1, <1>2, StatesAreDerived
<1> QED
  BY <1>3 DEF S

\* From a handler, what is met without a class has the class of the kind.
LEMMA AssumedIsPublished ==
    ASSUME ValidDocument, doc.root # "endpoint", NEW s \in RealStates, NEW f \in TableAccesses(s),
           NEW kind \in AccessKinds
    PROVE  <<s.methodId, kind, PublishedClass(kind, s.class)>> \in Published
<1> DEFINE effects == EffectsOf(Places(Facts))
<1>1. <<s.methodId, kind, s.class>> \in effects
  BY EffectsArePublished
<1>2. CASE kind = "table" \/ s.class # NoClass
  BY <1>1, <1>2 DEF PublishedClass, Published
<1>3. CASE kind = "resource" /\ s.class = NoClass
  <2>1. doc.root \in Timings
    BY <1>3, QueuesAreDistributed DEF ValidDocument, NoClass
  <2>2. PublishedClass(kind, s.class) = "local_interaction_synchronous"
    BY <1>3, <2>1 DEF PublishedClass, Timings
  <2> HIDE DEF effects
  <2>3. <<s.methodId, "resource", "local_interaction_synchronous">> \in AssumedSynchronous(effects)
    BY <1>1, <1>3, <2>1 DEF AssumedSynchronous
  <2> QED
    BY <1>3, <2>2, <2>3 DEF Published, effects
<1> QED
  BY <1>2, <1>3 DEF AccessKinds

\* The walk has visited the states before the cursor; what it has found is
\* real.
TraceInv ==
    /\ ValidDocument
    /\ Sound(Accumulator)
    /\ cursor \in 1..(Len(queue) + 1)
    /\ pc = "select" => queue = <<>> /\ seenStates = {} /\ diagnostics = {}
    /\ pc = "done" => cursor = Len(queue) + 1
    /\ terminals \subseteq Published
    /\ pc \in {"walk", "done"} => \A m \in ToSet(doc.implementations) : Rooted(Accumulator, m)
    /\ \A i \in 1..(cursor - 1) : Visited(Accumulator, queue[i])

LEMMA StartsRight == Init => TraceInv
<1> SUFFICES ASSUME Init PROVE TraceInv
  OBVIOUS
<1>1. PICK family \in Families : \E n \in 0..family.count :
        \E chosen \in [1..n -> family.loose] : doc \in Documents(family, chosen)
  BY DEF Init
<1>2. PICK n \in 0..family.count :
        \E chosen \in [1..n -> family.loose] : doc \in Documents(family, chosen)
  BY <1>1
<1>3. PICK chosen \in [1..n -> family.loose] : doc \in Documents(family, chosen)
  BY <1>2
<1>4. /\ family.fixed \in Seq(Assertions) /\ family.loose \subseteq Assertions
      /\ \A f \in ToSet(family.fixed) \cup family.loose : f.channel = "call" => f.to # <<>>
      /\ family.count \in Nat /\ family.configurations \subseteq Configurations
      /\ family.implementations \subseteq Seq(Methods)
      /\ family.timings \subseteq [Methods -> Timings]
      /\ family.roots \subseteq {"endpoint", "queue"} \cup Timings
  BY FamiliesAssumption
<1>5. /\ doc.facts = family.fixed \o chosen /\ doc.configuration \in family.configurations
      /\ doc.implementations \in family.implementations /\ doc.root \in family.roots
      /\ doc.timings \in family.timings
  BY <1>3 DEF Documents
<1>6. ValidDocument
  <2>1. n \in Nat /\ chosen \in Seq(family.loose) /\ Len(chosen) = n
    <3>1. n \in Nat
      BY <1>4
    <3> QED
      BY <3>1, SeqDef, LenProperties
  <2>2. chosen \in Seq(Assertions)
    BY <1>4, <2>1, SeqDef
  <2>3. doc.facts \in Seq(Assertions)
    BY <1>4, <1>5, <2>2, ConcatProperties
  <2>4. ASSUME NEW f \in ToSet(doc.facts) PROVE f \in ToSet(family.fixed) \cup family.loose
    <3>1. PICK i \in DOMAIN doc.facts : doc.facts[i] = f
      BY DEF ToSet
    <3>2. Len(doc.facts) = Len(family.fixed) + n /\ i \in 1..Len(doc.facts)
      BY <1>4, <1>5, <2>1, <2>2, <2>3, ConcatProperties, LenProperties
    <3>3. CASE i \in 1..Len(family.fixed)
      <4>1. f = family.fixed[i]
        BY <1>4, <1>5, <2>2, <3>1, <3>2, <3>3, ConcatProperties
      <4>2. i \in DOMAIN family.fixed
        BY <1>4, <3>3, LenProperties
      <4> QED
        BY <4>1, <4>2 DEF ToSet
    <3>4. CASE i \notin 1..Len(family.fixed)
      <4>1. Len(family.fixed) \in Nat
        BY <1>4, LenProperties
      <4>2. i - Len(family.fixed) \in 1..n
        BY <2>1, <3>2, <3>4, <4>1
      <4>3. f = chosen[i - Len(family.fixed)]
        BY <1>4, <1>5, <2>1, <2>2, <3>1, <3>2, <3>4, <4>1, ConcatProperties
      <4> QED
        BY <4>2, <4>3
    <3> QED
      BY <3>3, <3>4
  <2>5. \A f \in ToSet(doc.facts) : f.channel = "call" => f.to # <<>>
    BY <1>4, <2>4
  <2> QED
    BY <1>4, <1>5, <2>3, <2>5 DEF ValidDocument
<1>7. Sound(Accumulator)
  <2> DEFINE acc == Accumulator
  <2>1. acc.queue = <<>> /\ acc.seen = {} /\ acc.diagnostics = {}
    BY DEF Init, Accumulator
  <2>2. acc \in Accumulators
    <3>1. <<>> \in Seq(States)
      BY EmptySeq
    <3> QED
      BY <3>1 DEF Init, Accumulator, Accumulators
  <2>3. Len(acc.queue) = 0
    BY <2>1, EmptySeq
  <2> HIDE DEF acc
  <2>4. acc \in Onwards(acc, RealStates)
    BY <2>1, <2>2, <2>3 DEF Onwards, Grows, Coherent, PathsKept, Connected
  <2> QED
    BY <2>2, <2>4 DEF Sound, acc
<1>8. cursor \in 1..(Len(queue) + 1) /\ 1..(cursor - 1) = {}
  BY EmptySeq DEF Init
<1>9. pc = "select" /\ queue = <<>> /\ seenStates = {} /\ diagnostics = {} /\ terminals = {}
  BY DEF Init
<1> QED
  BY <1>6, <1>7, <1>8, <1>9 DEF TraceInv

\* A turn of the loop that goes on soundly and has done everything for its
\* state keeps the invariant.
LEMMA TurnKeeps ==
    ASSUME TraceInv, pc = "walk", cursor <= Len(queue), UNCHANGED <<doc, pc>>,
           NEW acc, acc \in Onwards(Accumulator, RealStates), Visited(acc, queue[cursor]),
           Commit(acc), cursor' = cursor + 1,
           NEW met, met \subseteq Published, terminals' = terminals \cup met
    PROVE  TraceInv'
<1>1. Sound(Accumulator) /\ Sound(acc) /\ Grows(Accumulator, acc)
  BY OnwardsIsSound DEF TraceInv
<1>2. acc \in Accumulators
  BY <1>1 DEF Sound
<1>3. Accumulator' = acc /\ acc.queue = queue'
  BY <1>2 DEF Accumulator, Commit, Accumulators
<1>4. ValidDocument'
  BY TheDocumentStays DEF TraceInv
<1>5. Sound(Accumulator)'
  <2>1. Sound(acc)'
    BY <1>1, TheWalkStays
  <2>2. (acc \in Accumulators /\ acc \in Onwards(acc, RealStates))'
    BY <2>1 DEF Sound
  <2> QED
    BY <1>3, <2>2, TheWalkStays DEF Sound
<1>6. /\ Len(queue) \in Nat /\ Len(queue') \in Nat /\ Len(queue) <= Len(queue')
      /\ \A i \in 1..Len(queue) : queue'[i] = queue[i]
  BY <1>1, <1>2, <1>3, LenProperties DEF Grows, Accumulator, Sound, Accumulators
<1>7. (cursor \in 1..(Len(queue) + 1))'
  BY <1>6 DEF TraceInv
<1>8. \A i \in 1..(cursor' - 1) : Visited(acc, queue'[i])
  <2> TAKE i \in 1..(cursor' - 1)
  <2>1. i \in 1..Len(queue) /\ queue'[i] = queue[i] /\ (i \in 1..(cursor - 1) \/ i = cursor)
    BY <1>6 DEF TraceInv
  <2>2. CASE i = cursor
    BY <2>1, <2>2
  <2>3. CASE i \in 1..(cursor - 1)
    BY <1>1, <2>1, <2>3, VisitedStays DEF TraceInv
  <2> QED
    BY <2>1, <2>2, <2>3
<1>9. (\A i \in 1..(cursor - 1) : Visited(Accumulator, queue[i]))'
  <2>1. \A s : Visited(acc, s)' <=> Visited(acc, s)
    BY TheVisitsStay
  <2>2. \A s : Visited(Accumulator, s)' <=> Visited(acc, s)
    BY <1>3, TheVisitsStay DEF Visited
  <2> QED
    BY <1>8, <2>2
<1>10. (\A m \in ToSet(doc.implementations) : Rooted(Accumulator, m))'
  <2>1. \A m \in ToSet(doc.implementations) : Rooted(acc, m)
    BY <1>1, RootedStays DEF TraceInv
  <2> QED
    BY <1>3, <2>1 DEF Rooted, Whole
<1>11. terminals' \subseteq Published
  BY DEF TraceInv
<1>12. (terminals \subseteq Published)'
  BY <1>11, ThePublishedStays
<1>13. pc' = "walk"
  OBVIOUS
<1> QED
  BY <1>4, <1>5, <1>7, <1>9, <1>10, <1>12, <1>13 DEF TraceInv

\* Where the walk has not begun, or nothing of it changes, nothing is lost.
LEMMA StillKeeps ==
    ASSUME TraceInv, UNCHANGED <<doc, queue, cursor, seenStates, terminals, diagnostics>>,
           pc' = pc \/ pc' \in Refusals
    PROVE  TraceInv'
<1>1. Accumulator' = Accumulator
  BY DEF Accumulator
<1>2. ValidDocument' /\ Sound(Accumulator)'
  <2>1. (Accumulator \in Accumulators)'
    BY <1>1 DEF TraceInv, Sound
  <2> QED
    BY <1>1, <2>1, TheDocumentStays, TheWalkStays DEF TraceInv, Sound
<1>3. (cursor \in 1..(Len(queue) + 1))'
  BY DEF TraceInv
<1>4. /\ pc' = "select" => queue' = <<>> /\ seenStates' = {} /\ diagnostics' = {}
      /\ pc' = "done" => cursor' = Len(queue') + 1
      /\ pc' \in {"walk", "done"} => pc' = pc
  BY DEF TraceInv, Refusals
<1>5. (terminals \subseteq Published)'
  BY ThePublishedStays DEF TraceInv
<1>6. (pc \in {"walk", "done"} => \A m \in ToSet(doc.implementations) : Rooted(Accumulator, m))'
  BY <1>1, <1>4 DEF TraceInv, Rooted
<1>7. (\A i \in 1..(cursor - 1) : Visited(Accumulator, queue[i]))'
  <2>1. \A s : Visited(Accumulator, s)' <=> Visited(Accumulator, s)
    BY <1>1, TheVisitsStay DEF Visited
  <2> QED
    BY <2>1 DEF TraceInv
<1> QED
  BY <1>2, <1>3, <1>4, <1>5, <1>6, <1>7 DEF TraceInv

\* The start of the walk, from a sound accumulator that has the roots.
LEMMA BeginningKeeps ==
    ASSUME TraceInv, pc = "select", pc' = "walk", UNCHANGED <<doc, cursor, terminals>>,
           NEW acc, Sound(acc), \A m \in ToSet(doc.implementations) : Rooted(acc, m), Commit(acc)
    PROVE  TraceInv'
<1>1. acc \in Accumulators
  BY DEF Sound
<1>2. Accumulator' = acc /\ acc.queue = queue'
  BY <1>1 DEF Accumulator, Commit, Accumulators
<1>3. Sound(Accumulator)'
  <2>1. (acc \in Accumulators /\ acc \in Onwards(acc, RealStates))'
    BY TheWalkStays DEF Sound
  <2> QED
    BY <1>2, <2>1, TheWalkStays DEF Sound
<1>4. cursor = 1 /\ Len(queue') \in Nat
  <2>1. Len(queue') \in Nat
    BY <1>1, <1>2, LenProperties DEF Accumulators
  <2>2. Len(queue) = 0
    BY EmptySeq DEF TraceInv
  <2> QED
    BY <2>1, <2>2 DEF TraceInv
<1>5. (cursor \in 1..(Len(queue) + 1) /\ 1..(cursor - 1) = {})'
  BY <1>4
<1>6. ValidDocument'
  BY TheDocumentStays DEF TraceInv
<1>7. (terminals \subseteq Published)'
  BY ThePublishedStays DEF TraceInv
<1>8. (\A m \in ToSet(doc.implementations) : Rooted(Accumulator, m))'
  BY <1>2 DEF Rooted
<1> QED
  BY <1>3, <1>5, <1>6, <1>7, <1>8 DEF TraceInv

\* Sorting the queue loses nothing.
LEMMA SortedIsSound ==
    ASSUME NEW acc, Sound(acc), NEW sorted \in Sorted(acc.queue)
    PROVE  /\ Sound([acc EXCEPT !.queue = sorted])
           /\ \A m : Rooted(acc, m) => Rooted([acc EXCEPT !.queue = sorted], m)
<1> DEFINE b == [acc EXCEPT !.queue = sorted]
           q == acc.queue
<1>1. acc \in Accumulators /\ q \in Seq(States) /\ Len(q) \in Nat /\ DOMAIN q = 1..Len(q)
  BY LenProperties DEF Sound, Accumulators
<1>2. sorted \in [1..Len(q) -> ToSet(q)] /\ ToSet(sorted) = ToSet(q)
  BY <1>1 DEF Sorted
<1>3. ToSet(q) \subseteq States
  <2>1. \A i \in DOMAIN q : q[i] \in States
    BY <1>1, ElementOfSeq
  <2> QED
    BY <2>1 DEF ToSet
<1>4. sorted \in Seq(States) /\ Len(sorted) = Len(q)
  <2>1. sorted \in [1..Len(q) -> States]
    BY <1>2, <1>3
  <2>2. sorted \in Seq(States)
    BY <1>1, <2>1, SeqDef
  <2>3. DOMAIN sorted = 1..Len(q)
    BY <1>2
  <2> QED
    BY <1>1, <2>2, <2>3, LenProperties
<1>5. \A i \in 1..Len(q) : \E j \in 1..Len(q) : sorted[i] = q[j]
  BY <1>1, <1>2 DEF ToSet
<1>6. \A i \in 1..Len(q) : \E j \in 1..Len(q) : sorted[j] = q[i]
  <2> TAKE i \in 1..Len(q)
  <2>1. q[i] \in ToSet(sorted)
    BY <1>1, <1>2 DEF ToSet
  <2> QED
    BY <1>2, <2>1 DEF ToSet
<1>7. b \in Accumulators
  BY <1>1, <1>4 DEF Accumulators
<1>8. b.queue = sorted /\ b.seen = acc.seen /\ b.diagnostics = acc.diagnostics
  BY <1>1 DEF Accumulators
<1> HIDE DEF b
<1>9. /\ \A key : Holds(acc, key) => Holds(b, key)
      /\ \A m : Whole(acc, m) => Whole(b, m)
  <2>1. \A i \in 1..Len(acc.queue) : \E j \in 1..Len(b.queue) : b.queue[j] = acc.queue[i]
    BY <1>4, <1>6, <1>8
  <2>2. ASSUME NEW key, Holds(acc, key) PROVE Holds(b, key)
    <3>1. PICK i \in 1..Len(acc.queue) : Key(acc.queue[i]) = key
      BY <2>2 DEF Holds
    <3>2. PICK j \in 1..Len(b.queue) : b.queue[j] = acc.queue[i]
      BY <2>1
    <3> QED
      BY <3>1, <3>2 DEF Holds
  <2>3. ASSUME NEW m, Whole(acc, m) PROVE Whole(b, m)
    <3>1. PICK i \in 1..Len(acc.queue) : acc.queue[i].methodId = m /\ acc.queue[i].filter = "*"
      BY <2>3 DEF Whole
    <3>2. PICK j \in 1..Len(b.queue) : b.queue[j] = acc.queue[i]
      BY <2>1
    <3> QED
      BY <3>1, <3>2 DEF Whole
  <2> QED
    BY <2>2, <2>3
<1>10. Coherent(b)
  BY <1>8, <1>9 DEF Sound, Onwards, Coherent
<1>11. PathsKept(b)
  <2> SUFFICES ASSUME NEW i \in 1..Len(b.queue), NEW m \in b.queue[i].path \ doc.dispatches
               PROVE  Whole(b, m)
    BY DEF PathsKept
  <2>1. PICK j \in 1..Len(q) : b.queue[i] = q[j]
    BY <1>4, <1>5, <1>8
  <2>2. Whole(acc, m)
    BY <2>1 DEF Sound, Onwards, PathsKept
  <2> QED
    BY <1>9, <2>2
<1>12. \A i \in 1..Len(b.queue) : b.queue[i] \in RealStates
  <2> TAKE i \in 1..Len(b.queue)
  <2>1. PICK j \in 1..Len(q) : b.queue[i] = q[j]
    BY <1>4, <1>5, <1>8
  <2> QED
    BY <2>1 DEF Sound, Onwards
<1>13. Connected(b)
  <2> SUFFICES ASSUME NEW L, ClosedUnder(b, L)
               PROVE  \A i \in 1..Len(b.queue) : b.queue[i].methodId \in L
    BY DEF Connected
  <2>1. ClosedUnder(acc, L)
    <3> SUFFICES ASSUME NEW i \in 1..Len(acc.queue), acc.queue[i].methodId \in L
                 PROVE  LeadsTo(acc.queue[i]) \subseteq L
      BY DEF ClosedUnder
    <3>1. PICK j \in 1..Len(b.queue) : b.queue[j] = acc.queue[i]
      BY <1>4, <1>6, <1>8
    <3> QED
      BY <3>1 DEF ClosedUnder
  <2>2. \A i \in 1..Len(acc.queue) : acc.queue[i].methodId \in L
    BY <2>1 DEF Sound, Onwards, Connected
  <2> QED
    BY <1>4, <1>5, <1>8, <2>2
<1>14. Sound(b)
  BY <1>7, <1>10, <1>11, <1>12, <1>13, GrowthIsReflexive DEF Sound, Onwards
<1>15. ASSUME NEW m, Rooted(acc, m) PROVE Rooted(b, m)
  <2>1. CASE StateLimitReported(acc)
    BY <1>8, <2>1 DEF Rooted, StateLimitReported
  <2>2. CASE ~StateLimitReported(acc)
    <3>1. PICK i \in 1..Len(acc.queue) :
             /\ acc.queue[i].methodId = m /\ acc.queue[i].filter = "*"
             /\ acc.queue[i].depth = 0 /\ acc.queue[i].hop = 0
      BY <1>15, <2>2 DEF Rooted
    <3>2. PICK j \in 1..Len(b.queue) : b.queue[j] = acc.queue[i]
      BY <1>4, <1>6, <1>8
    <3> QED
      BY <3>1, <3>2 DEF Rooted
  <2> QED
    BY <2>1, <2>2
<1> QED
  BY <1>14, <1>15 DEF b

LEMMA StartKeeps == TraceInv /\ Start => TraceInv'
<1> SUFFICES ASSUME TraceInv, Start PROVE TraceInv'
  OBVIOUS
<1> DEFINE acc == Entries(Accumulator)
<1>1. PICK sorted \in Sorted(acc.queue) : Commit([acc EXCEPT !.queue = sorted])
  BY DEF Start, Entries
<1>2. ValidDocument /\ Sound(Accumulator) /\ doc.root = "endpoint"
  BY DEF TraceInv, Start
<1>3. /\ acc \in Onwards(Accumulator, RealStates)
      /\ \A m \in ToSet(doc.implementations) : Rooted(acc, m)
  BY <1>2, EntriesAreRooted
<1>4. Sound(acc)
  BY <1>2, <1>3, OnwardsIsSound
<1> HIDE DEF acc
<1>5. /\ Sound([acc EXCEPT !.queue = sorted])
      /\ \A m \in ToSet(doc.implementations) : Rooted([acc EXCEPT !.queue = sorted], m)
  BY <1>3, <1>4, SortedIsSound
<1>6. pc = "select" /\ pc' = "walk" /\ UNCHANGED <<doc, cursor, terminals>>
  BY DEF Start
<1> QED
  BY <1>1, <1>5, <1>6, BeginningKeeps

LEMMA StartHandlerKeeps == TraceInv /\ StartHandler => TraceInv'
<1> SUFFICES ASSUME TraceInv, StartHandler PROVE TraceInv'
  OBVIOUS
<1> DEFINE acc == HandlerEntries(Accumulator)
<1>1. Commit(acc)
  BY DEF StartHandler, HandlerEntries
<1>2. ValidDocument /\ Sound(Accumulator) /\ doc.root # "endpoint"
  BY DEF TraceInv, StartHandler
<1>3. /\ acc \in Onwards(Accumulator, RealStates)
      /\ \A m \in ToSet(doc.implementations) : Rooted(acc, m)
  BY <1>2, HandlerEntriesAreRooted
<1>4. Sound(acc)
  BY <1>2, <1>3, OnwardsIsSound
<1>5. pc = "select" /\ pc' = "walk" /\ UNCHANGED <<doc, cursor, terminals>>
  BY DEF StartHandler
<1> HIDE DEF acc
<1> QED
  BY <1>1, <1>3, <1>4, <1>5, BeginningKeeps

\* The state at the cursor is real and in the queue.
LEMMA TheVisitedState ==
    ASSUME TraceInv, cursor <= Len(queue)
    PROVE  queue[cursor] \in RealStates /\ Here(Accumulator, queue[cursor])
<1>1. Accumulator.queue = queue /\ Len(queue) \in Nat
  BY LenProperties DEF TraceInv, Sound, Accumulator, Accumulators
<1>2. cursor \in 1..Len(queue)
  BY <1>1 DEF TraceInv
<1> QED
  BY <1>1, <1>2 DEF TraceInv, Sound, Onwards, Here

LEMMA VisitKeeps == TraceInv /\ Visit => TraceInv'
<1> SUFFICES ASSUME TraceInv, Visit PROVE TraceInv'
  OBVIOUS
<1> DEFINE s == queue[cursor]
           entered == EnterSection(Accumulator, s)
           crossed == Cross(entered, s)
           acc == FollowCalls(crossed, s)
           met == {<<s.methodId, kind, s.class>> : f \in TableAccesses(s), kind \in AccessKinds}
<1>1. /\ Commit(acc) /\ cursor' = cursor + 1 /\ UNCHANGED <<doc, pc>>
      /\ terminals' = terminals \cup met
      /\ pc = "walk" /\ cursor <= Len(queue)
  BY DEF Visit
<1>2. ValidDocument /\ Sound(Accumulator) /\ s \in RealStates /\ Here(Accumulator, s)
  BY <1>1, TheVisitedState DEF TraceInv
<1>3. /\ entered \in Onwards(Accumulator, RealStates)
      /\ HasSection(s) => Enqueued(entered, Key(LockedState(s)))
      /\ Sound(entered) /\ Here(entered, s)
  BY <1>2, EnterSectionKeeps, OnwardsIsSound
<1>4. /\ crossed \in Onwards(entered, RealStates)
      /\ \A f \in Interactions(s) : \A m \in Admitted(s, f) :
            Crossed(crossed, Key(DeliveredState(s, f, m)))
      /\ \A f \in Interactions(s) : Spread(crossed, f)
      /\ Sound(crossed) /\ Here(crossed, s)
  BY <1>2, <1>3, CrossKeeps, OnwardsIsSound
<1>5. /\ acc \in Onwards(crossed, RealStates)
      /\ \A f \in Calls(s) : Followed(acc, s, f)
  BY <1>2, <1>4, FollowCallsKeeps
<1>8. met \subseteq Published
  BY <1>2, EffectsArePublished DEF Published
<1> HIDE DEF s, entered, crossed, acc, met
<1>6. Visited(acc, s)
  BY <1>3, <1>4, <1>5, OnwardsIsSound DEF Visited, Spread
<1>7. acc \in Onwards(Accumulator, RealStates)
  <2>1. Onwards(entered, RealStates) \subseteq Onwards(Accumulator, RealStates)
    BY <1>2, <1>3, OnwardsFrom DEF Sound
  <2>2. Onwards(crossed, RealStates) \subseteq Onwards(entered, RealStates)
    BY <1>3, <1>4, OnwardsFrom DEF Sound
  <2> QED
    BY <1>5, <2>1, <2>2
<1> QED
  BY <1>1, <1>6, <1>7, <1>8, TurnKeeps DEF s

LEMMA VisitFromHandlerKeeps == TraceInv /\ VisitFromHandler => TraceInv'
<1> SUFFICES ASSUME TraceInv, VisitFromHandler PROVE TraceInv'
  OBVIOUS
<1> DEFINE s == queue[cursor]
           entered == EnterSection(Accumulator, s)
           followed == FollowCalls(entered, s)
           acc == Cross(followed, s)
           met == {<<s.methodId, kind, PublishedClass(kind, s.class)>> :
                      f \in TableAccesses(s), kind \in AccessKinds}
<1>1. /\ Commit(acc) /\ cursor' = cursor + 1 /\ UNCHANGED <<doc, pc>>
      /\ terminals' = terminals \cup met
      /\ pc = "walk" /\ cursor <= Len(queue)
  BY DEF VisitFromHandler
<1>2. ValidDocument /\ Sound(Accumulator) /\ s \in RealStates /\ Here(Accumulator, s)
  BY <1>1, TheVisitedState DEF TraceInv
<1>3. /\ entered \in Onwards(Accumulator, RealStates)
      /\ HasSection(s) => Enqueued(entered, Key(LockedState(s)))
      /\ Sound(entered) /\ Here(entered, s)
  BY <1>2, EnterSectionKeeps, OnwardsIsSound
<1>4. /\ followed \in Onwards(entered, RealStates)
      /\ \A f \in Calls(s) : Followed(followed, s, f)
      /\ Sound(followed) /\ Here(followed, s)
  BY <1>2, <1>3, FollowCallsKeeps, OnwardsIsSound
<1>5. /\ acc \in Onwards(followed, RealStates)
      /\ \A f \in Interactions(s) : \A m \in Admitted(s, f) :
            Crossed(acc, Key(DeliveredState(s, f, m)))
      /\ \A f \in Interactions(s) : Spread(acc, f)
  BY <1>2, <1>4, CrossKeeps
<1>8. met \subseteq Published
  <2>1. doc.root # "endpoint"
    BY DEF VisitFromHandler
  <2> QED
    BY <1>2, <2>1, AssumedIsPublished
<1> HIDE DEF s, entered, followed, acc, met
<1>6. Visited(acc, s)
  BY <1>3, <1>4, <1>5, OnwardsIsSound, FollowedStays DEF Visited
<1>7. acc \in Onwards(Accumulator, RealStates)
  <2>1. Onwards(entered, RealStates) \subseteq Onwards(Accumulator, RealStates)
    BY <1>2, <1>3, OnwardsFrom DEF Sound
  <2>2. Onwards(followed, RealStates) \subseteq Onwards(entered, RealStates)
    BY <1>3, <1>4, OnwardsFrom DEF Sound
  <2> QED
    BY <1>5, <2>1, <2>2
<1> QED
  BY <1>1, <1>6, <1>7, <1>8, TurnKeeps DEF s

LEMMA FinishKeeps == TraceInv /\ Finish => TraceInv'
<1> SUFFICES ASSUME TraceInv, Finish PROVE TraceInv'
  OBVIOUS
<1> DEFINE acc == Accumulator
           more == {<<"document", m, "document">> : m \in doc.diagnosed \cap Reached}
           b == [queue |-> queue, seen |-> seenStates, diagnostics |-> diagnostics \cup more]
<1>1. /\ pc = "walk" /\ pc' = "done" /\ cursor > Len(queue) /\ diagnostics' = diagnostics \cup more
      /\ UNCHANGED <<doc, queue, cursor, seenStates, terminals>>
  BY DEF Finish
<1>2. /\ Sound(acc) /\ acc \in Accumulators /\ acc.queue = queue /\ acc.seen = seenStates
      /\ acc.diagnostics = diagnostics
  BY DEF TraceInv, Sound, Accumulator
<1>3. more \in SUBSET (WalkCodes \X Methods \X WalkReasons)
  <2>1. \A i \in DOMAIN queue : queue[i].methodId \in Methods
    <3>1. queue \in Seq(States)
      BY <1>2 DEF Accumulators
    <3>2. \A i \in DOMAIN queue : queue[i] \in States
      BY <3>1, ElementOfSeq, LenProperties
    <3> QED
      BY <3>2 DEF States
  <2>2. Reached \subseteq Methods
    BY <2>1 DEF Reached
  <2> QED
    BY <2>2 DEF WalkCodes, WalkReasons
<1>4. Accumulator' = b
  BY <1>1 DEF Accumulator
<1>5. /\ b.queue = acc.queue /\ b.seen = acc.seen /\ b.diagnostics = acc.diagnostics \cup more
      /\ b \in Accumulators
  BY <1>2, <1>3 DEF Accumulators
<1> HIDE DEF acc, b, more
<1>6. b \in Onwards(acc, RealStates)
  <2>1. Len(acc.queue) \in Nat
    BY <1>2, LenProperties DEF Accumulators
  <2>2. Grows(acc, b)
    BY <1>5, <2>1 DEF Grows
  <2>3. /\ Coherent(b) /\ PathsKept(b) /\ Connected(b)
        /\ \A i \in 1..Len(b.queue) : b.queue[i] \in RealStates
    BY <1>2, <1>5 DEF Sound, Onwards, Coherent, PathsKept, Holds, Whole, Connected, ClosedUnder
  <2> QED
    BY <1>5, <2>2, <2>3 DEF Onwards
<1>7. Sound(b)
  BY <1>2, <1>6, OnwardsIsSound
<1>8. Sound(Accumulator)'
  <2>1. PICK c : c = b
    OBVIOUS
  <2>2. (c \in Accumulators /\ c \in Onwards(c, RealStates))'
    BY <1>1, <1>7, <2>1, TheWalkStays DEF Sound
  <2> QED
    BY <1>1, <1>4, <2>1, <2>2, TheWalkStays DEF Sound
<1>9. (cursor \in 1..(Len(queue) + 1))' /\ cursor' = Len(queue') + 1
  <2>1. Len(queue) \in Nat
    BY <1>2, LenProperties DEF Accumulators
  <2> QED
    BY <1>1, <2>1 DEF TraceInv
<1>10. ValidDocument'
  BY <1>1, TheDocumentStays DEF TraceInv
<1>11. (terminals \subseteq Published)'
  BY <1>1, ThePublishedStays DEF TraceInv
<1>12. (\A m \in ToSet(doc.implementations) : Rooted(Accumulator, m))'
  <2>1. \A m \in ToSet(doc.implementations) : Rooted(b, m)
    BY <1>1, <1>2, <1>6, RootedStays DEF TraceInv, acc
  <2> QED
    BY <1>1, <1>4, <2>1 DEF Rooted
<1>13. (\A i \in 1..(cursor - 1) : Visited(Accumulator, queue[i]))'
  <2>1. \A i \in 1..(cursor - 1) : Visited(b, queue[i])
    BY <1>2, <1>6, VisitedStays DEF TraceInv, acc
  <2>2. \A s : Visited(Accumulator, s)' <=> Visited(b, s)
    BY <1>1, <1>4, TheVisitsStay DEF Visited
  <2> QED
    BY <1>1, <2>1, <2>2
<1> QED
  BY <1>1, <1>8, <1>9, <1>10, <1>11, <1>12, <1>13 DEF TraceInv

LEMMA RefusalsKeep == TraceInv /\ (Refuse \/ RefuseHandler) => TraceInv'
<1> SUFFICES ASSUME TraceInv, Refuse \/ RefuseHandler PROVE TraceInv'
  OBVIOUS
<1>1. pc' \in Refusals /\ UNCHANGED <<doc, queue, cursor, seenStates, terminals, diagnostics>>
  BY DEF Refuse, RefuseHandler, Verdict, HandlerVerdict, Refusals
<1> QED
  BY <1>1, StillKeeps

LEMMA TracesKeep == TraceInv /\ [TracesNext]_vars => TraceInv'
<1> SUFFICES ASSUME TraceInv, [TracesNext]_vars PROVE TraceInv'
  OBVIOUS
<1>1. CASE UNCHANGED vars
  BY <1>1, StillKeeps DEF vars
<1>2. CASE TracesNext
  BY <1>2, RefusalsKeep, StartKeeps, VisitKeeps, FinishKeeps, StartHandlerKeeps,
     VisitFromHandlerKeeps DEF TracesNext, Next
<1> QED
  BY <1>1, <1>2

LEMMA WalkIsRight == TracesSpec => []TraceInv
BY StartsRight, TracesKeep, PTL DEF TracesSpec

-----------------------------------------------------------------------------
(***************************************************************************)
(* The results.                                                            *)
(***************************************************************************)
\* A place is covered if a state of the queue stands there.
StoodAt(p) ==
    \E j \in 1..Len(queue) : queue[j].methodId = p.methodId /\ queue[j].filter = p.filter

\* If the walk is over and nothing was reported, what was enqueued is there.
LEMMA NothingIsMissing ==
    ASSUME TraceInv, PublishedComplete
    PROVE  /\ \A m \in ToSet(doc.implementations) :
                 \E j \in 1..Len(queue) : queue[j].methodId = m /\ queue[j].filter = "*"
           /\ \A i \in 1..Len(queue) :
                 /\ HasSection(queue[i]) => \E j \in 1..Len(queue) : Key(queue[j]) = Key(LockedState(queue[i]))
                 /\ \A f \in Interactions(queue[i]) : \A m \in Admitted(queue[i], f) :
                       \E j \in 1..Len(queue) : Key(queue[j]) = Key(DeliveredState(queue[i], f, m))
                 /\ \A f \in Interactions(queue[i]) : ~(Len(f.to) > Limits.fanOut)
                 /\ Calls(queue[i]) # {} => queue[i].depth < Limits.depth
                 /\ BranchesAreDispatched => \A f \in Calls(queue[i]) :
                       \E j \in 1..Len(queue) : queue[j].methodId = f.to[1] /\ queue[j].filter = "*"
<1>1. pc = "done" /\ diagnostics = {}
  BY DEF PublishedComplete
<1>2. Accumulator.queue = queue /\ Accumulator.diagnostics = {}
  BY <1>1 DEF Accumulator
<1>3. Len(queue) \in Nat
  BY LenProperties DEF TraceInv, Sound, Accumulator, Accumulators
<1>4. \A i \in 1..Len(queue) : Visited(Accumulator, queue[i])
  BY <1>1, <1>3 DEF TraceInv
<1>5. ~StateLimitReported(Accumulator)
  BY <1>2 DEF StateLimitReported
<1>6. \A m \in ToSet(doc.implementations) :
         \E j \in 1..Len(queue) : queue[j].methodId = m /\ queue[j].filter = "*"
  <2> TAKE m \in ToSet(doc.implementations)
  <2>1. Rooted(Accumulator, m)
    BY <1>1 DEF TraceInv
  <2> QED
    BY <1>2, <1>5, <2>1 DEF Rooted
<1>7. ASSUME NEW i \in 1..Len(queue), HasSection(queue[i])
      PROVE  \E j \in 1..Len(queue) : Key(queue[j]) = Key(LockedState(queue[i]))
  BY <1>2, <1>4, <1>5, <1>7 DEF Visited, Enqueued, Holds
<1>8. ASSUME NEW i \in 1..Len(queue), NEW f \in Interactions(queue[i]),
             NEW m \in Admitted(queue[i], f)
      PROVE  \E j \in 1..Len(queue) : Key(queue[j]) = Key(DeliveredState(queue[i], f, m))
  BY <1>2, <1>4 DEF Visited, Crossed, Holds
<1>9. ASSUME NEW i \in 1..Len(queue), BranchesAreDispatched, NEW f \in Calls(queue[i])
      PROVE  \E j \in 1..Len(queue) : queue[j].methodId = f.to[1] /\ queue[j].filter = "*"
  <2> DEFINE s == queue[i]
  <2>1. s \in States /\ Here(Accumulator, s) /\ Sound(Accumulator)
    BY <1>2 DEF TraceInv, Sound, Onwards, RealStates, Here
  <2>2. f.to[1] \in s.path \/ Holds(Accumulator, Key(CalledState(s, f)))
    BY <1>2, <1>4, <1>5 DEF Visited, Followed, Enqueued
  <2>3. CASE f.to[1] \in s.path
    <3>1. f.to[1] \notin doc.dispatches
      BY <1>9 DEF BranchesAreDispatched, Calls, Direct, FactsOf
    <3> QED
      BY <1>2, <2>1, <2>3, <3>1, WholePaths DEF Whole
  <2>4. CASE Holds(Accumulator, Key(CalledState(s, f)))
    <3>1. CalledState(s, f).methodId = f.to[1] /\ CalledState(s, f).filter = "*"
      BY <2>1 DEF CalledState, States
    <3>2. PICK j \in 1..Len(queue) : Key(queue[j]) = Key(CalledState(s, f))
      BY <1>2, <2>4 DEF Holds
    <3> QED
      BY <3>1, <3>2 DEF Key
  <2> QED
    BY <2>2, <2>3, <2>4
<1>10. ASSUME NEW i \in 1..Len(queue)
       PROVE  /\ \A f \in Interactions(queue[i]) : ~(Len(f.to) > Limits.fanOut)
              /\ Calls(queue[i]) # {} => queue[i].depth < Limits.depth
  BY <1>2, <1>4, <1>5 DEF Visited, Spread, Followed
<1> QED
  BY <1>6, <1>7, <1>8, <1>9, <1>10

\* An arrow from a covered place leads to a covered one, unless it is a call of
\* a method with branches, or to a handler passed over.
LEMMA ArrowsAreCovered ==
    ASSUME TraceInv, PublishedComplete, BranchesAreDispatched, ~SomePassedOver,
           NEW p \in AllPlaces, StoodAt(p), NEW q \in ArrowsFrom(Facts, p)
    PROVE  StoodAt(q)
<1>1. PICK j \in 1..Len(queue) : queue[j].methodId = p.methodId /\ queue[j].filter = p.filter
  BY DEF StoodAt
<1> DEFINE s == queue[j]
<1>2. ASSUME NEW f \in FactsAt(Facts, p)
      PROVE  f \in Direct(s)
  <2>1. f \in Facts /\ f.from = s.methodId /\ f.region \in RegionsOf(s.filter)
    BY <1>1 DEF FactsAt
  <2>2. f.region \in RegionsOf(s.filter) => Applies(f, s.filter)
    BY DEF Applies, RegionsOf, Jobs
  <2> QED
    BY <2>1, <2>2 DEF Direct, FactsOf, Facts
<1>3. ASSUME NEW f \in FactsAt(Facts, p), f.channel = "call",
             q = [p EXCEPT !.methodId = f.to[1], !.filter = "*"]
      PROVE  StoodAt(q)
  <2>1. f \in Calls(s)
    BY <1>2, <1>3 DEF Calls
  <2>2. \E i \in 1..Len(queue) : queue[i].methodId = f.to[1] /\ queue[i].filter = "*"
    BY <2>1, NothingIsMissing
  <2>3. q.methodId = f.to[1] /\ q.filter = "*"
    BY <1>3 DEF AllPlaces
  <2> QED
    BY <2>2, <2>3 DEF StoodAt
<1>4. ASSUME p.filter = "*", \E f \in Facts : f.from = p.methodId /\ f.region = "section",
             q = [p EXCEPT !.filter = "section", !.locked = TRUE]
      PROVE  StoodAt(q)
  <2>1. HasSection(s)
    BY <1>1, <1>4 DEF HasSection, FactsOf, Facts
  <2>2. PICK i \in 1..Len(queue) : Key(queue[i]) = Key(LockedState(s))
    BY <2>1, NothingIsMissing
  <2>3. s \in States
    BY DEF TraceInv, Sound, Onwards, Accumulator, RealStates
  <2>4. LockedState(s).methodId = s.methodId /\ LockedState(s).filter = "section"
    BY <2>3 DEF LockedState, States
  <2>5. queue[i].methodId = s.methodId /\ queue[i].filter = "section"
    BY <2>2, <2>4 DEF Key
  <2>6. q.methodId = p.methodId /\ q.filter = "section"
    BY <1>4 DEF AllPlaces
  <2> QED
    BY <1>1, <2>5, <2>6 DEF StoodAt
<1>5. ASSUME NEW f \in FactsAt(Facts, p), NEW m \in ToSet(f.to) \ doc.candidates,
             f.channel \in {"sync", "async", "queue"},
             q = [p EXCEPT !.methodId = m, !.filter = BranchFilter(f, m),
                           !.queued = @ \/ f.channel = "queue", !.timing = TimingOf(f, m)]
      PROVE  StoodAt(q)
  <2>1. f \in Interactions(s)
    BY <1>2, <1>5 DEF Interactions
  <2>3. m \in Admitted(s, f)
    <3>1. j \in DOMAIN queue
      BY LenProperties DEF TraceInv, Sound, Accumulator, Accumulators
    <3> QED
      BY <1>5, <2>1, <3>1 DEF SomePassedOver, Admitted
  <2>2. PICK i \in 1..Len(queue) : Key(queue[i]) = Key(DeliveredState(s, f, m))
    BY <2>1, <2>3, NothingIsMissing
  <2>4. queue[i].methodId = m /\ queue[i].filter = BranchFilter(f, m)
    BY <2>2 DEF Key, DeliveredState
  <2>5. q.methodId = m /\ q.filter = BranchFilter(f, m)
    BY <1>5 DEF AllPlaces
  <2> QED
    BY <2>4, <2>5 DEF StoodAt
<1> QED
  BY <1>3, <1>4, <1>5, ArrowIs DEF TraceInv

LEMMA PlacesAreCovered ==
    ASSUME TraceInv, PublishedComplete, BranchesAreDispatched, ~SomePassedOver
    PROVE  \A p \in Places(Facts) : StoodAt(p)
<1> DEFINE N == MaxArrows
           T == {n \in 0..N : \A p \in Within[n] : StoodAt(p)}
<1>1. N \in Nat /\ ValidDocument
  BY MaxArrowsIsANumber DEF TraceInv
<1>2. 0 \in T
  <2>1. \A m \in ToSet(doc.implementations) : StoodAt(RootPlace(m))
    BY NothingIsMissing DEF StoodAt, RootPlace
  <2> QED
    BY <1>1, <2>1, WithinRuns, 0 \in 0..N
<1>3. ASSUME NEW n \in 1..N, n - 1 \in T PROVE n \in T
  <2>1. Within[n] = OneMore(Within[n - 1]) /\ Within[n - 1] \subseteq AllPlaces
    <3>1. n - 1 \in 0..N
      BY <1>1
    <3> QED
      BY <1>1, <3>1, WithinRuns
  <2>2. \A p \in Within[n - 1] : StoodAt(p) /\ \A q \in ArrowsFrom(Facts, p) : StoodAt(q)
    BY <1>3, <2>1, ArrowsAreCovered
  <2>3. \A q \in OneMore(Within[n - 1]) : StoodAt(q)
    BY <2>2 DEF OneMore
  <2> QED
    BY <1>1, <2>1, <2>3
<1> HIDE DEF T
<1>4. N \in T
  BY <1>1, <1>2, <1>3, CountingUp, N \in 0..N
<1> QED
  BY <1>4, PlacesAreWithin DEF T

\* The trace makes nothing up: every effect it publishes, with its causal
\* class, is on a walk of the program, for any program and any limits
\* (buildEndpointTrace, buildInteractionHandlerTrace); but a resource met from
\* a listener of unknown timing is published as met synchronously.
THEOREM EffectsReal == TracesSpec => []EffectsAreReal
<1>1. TraceInv => EffectsAreReal
  BY DEF TraceInv, EffectsAreReal, Facts, Published
<1> QED
  BY <1>1, WalkIsRight, PTL

\* A trace without diagnostics hides only what is behind a listener of unknown
\* timing that it passed over: if it stood before none, and unless a method
\* with branches is called, it has reached every method that a walk of the
\* program reaches; and it has crossed every interaction of every state to
\* every other registered handler.
THEOREM CompleteHidesNothing == TracesSpec => []CompleteTraceHidesNothing
<1>1. TraceInv => CompleteTraceHidesNothing
  <2> SUFFICES ASSUME TraceInv, PublishedComplete
               PROVE  /\ BranchesAreDispatched /\ ~SomePassedOver =>
                            {p.methodId : p \in Places(Facts)} \subseteq Reached
                      /\ \A i \in DOMAIN queue : \A f \in Interactions(queue[i]) :
                            \A m \in ToSet(f.to) \ doc.candidates :
                               \/ PassedOver(queue[i], f, m)
                               \/ \E j \in DOMAIN queue :
                                     /\ queue[j].methodId = m
                                     /\ queue[j].depth = 0
                                     /\ queue[j].hop = queue[i].hop + 1
                                     /\ queue[j].class = NextClass(queue[i].class, TimingOf(f, m))
    BY DEF CompleteTraceHidesNothing, Facts
  <2>1. DOMAIN queue = 1..Len(queue)
    BY LenProperties DEF TraceInv, Sound, Accumulator, Accumulators
  <2>2. BranchesAreDispatched /\ ~SomePassedOver => {p.methodId : p \in Places(Facts)} \subseteq Reached
    BY <2>1, PlacesAreCovered DEF StoodAt, Reached
  <2>3. ASSUME NEW i \in DOMAIN queue, NEW f \in Interactions(queue[i]),
               NEW m \in ToSet(f.to) \ doc.candidates, ~PassedOver(queue[i], f, m)
        PROVE  \E j \in DOMAIN queue :
                  /\ queue[j].methodId = m
                  /\ queue[j].depth = 0
                  /\ queue[j].hop = queue[i].hop + 1
                  /\ queue[j].class = NextClass(queue[i].class, TimingOf(f, m))
    <3>1. PICK j \in 1..Len(queue) : Key(queue[j]) = Key(DeliveredState(queue[i], f, m))
      BY <2>1, <2>3, NothingIsMissing DEF Admitted
    <3> QED
      BY <2>1, <3>1 DEF Key, DeliveredState
  <2> QED
    BY <2>2, <2>3
<1> QED
  BY <1>1, WalkIsRight, PTL

=============================================================================
