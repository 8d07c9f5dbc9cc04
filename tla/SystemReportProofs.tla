------------------------- MODULE SystemReportProofs -------------------------
(***************************************************************************)
(* Proofs about the stitch command, for any inputs and limits: the         *)
(* correlation of several analyses (what is projected, what the            *)
(* correlation of a producer says, and the part of the inductive invariant *)
(* that the stitch builds up), then the report and its publication.        *)
(***************************************************************************)
EXTENDS SystemReport, SequenceTheorems, FiniteSetTheorems, WellFoundedInduction, TLAPS

-----------------------------------------------------------------------------
(* Sequences.                                                               *)

Distinct(s) == \A i, j \in 1 .. Len(s) : s[i] = s[j] => i = j

(* A set of numbers with an element has a least one. *)
LEMMA LeastNumber ==
    ASSUME NEW T \in SUBSET Nat, T # {}
    PROVE  \E n \in T : \A m \in T : n <= m
<1> DEFINE R == OpToRel(<, Nat)
<1>1. IsWellFoundedOn(R, Nat)
  BY NatLessThanWellFounded
<1>2. R = {ss \in Nat \X Nat : ss[1] < ss[2]}
  BY DEF OpToRel
<1> HIDE DEF R
<1>3. PICK x \in T : \A y \in T : <<y, x>> \notin R
  BY <1>1, WFMin
<1>4. \A y \in T : ~ (y < x)
  BY <1>2, <1>3
<1> QED
  BY <1>4

(* A set of numbers that has 1 and with every number the next has them all. *)
LEMMA Numbers ==
    ASSUME NEW n \in Nat, NEW T \in SUBSET (1 .. n), n > 0 => 1 \in T,
           \A k \in 1 .. n : k \in T /\ k + 1 \in 1 .. n => k + 1 \in T
    PROVE  T = 1 .. n
<1>1. SUFFICES ASSUME (1 .. n) \ T # {} PROVE FALSE
  OBVIOUS
<1>2. PICK m \in (1 .. n) \ T : \A l \in (1 .. n) \ T : m <= l
  BY <1>1, LeastNumber, (1 .. n) \ T \in SUBSET Nat
<1>3. m # 1 /\ m - 1 \in 1 .. n /\ (m - 1) + 1 = m
  BY <1>2
<1>4. m - 1 \in T
  BY <1>2, <1>3
<1> QED
  BY <1>2, <1>3, <1>4

(* The entries of a sequence. *)
LEMMA EntriesOf ==
    ASSUME NEW S, NEW s \in Seq(S)
    PROVE  /\ Len(s) \in Nat /\ DOMAIN s = 1 .. Len(s)
           /\ ToSet(s) = {s[i] : i \in 1 .. Len(s)} /\ ToSet(s) \subseteq S
           /\ s \in Seq(ToSet(s))
<1>1. Len(s) \in Nat /\ DOMAIN s = 1 .. Len(s) /\ \A i \in 1 .. Len(s) : s[i] \in S
  BY LenProperties, ElementOfSeq
<1>2. ToSet(s) = {s[i] : i \in 1 .. Len(s)} /\ ToSet(s) \subseteq S
  BY <1>1 DEF ToSet
<1>3. s \in Seq(ToSet(s))
  <2>1. s = [i \in 1 .. Len(s) |-> s[i]]
    BY <1>1
  <2>2. s \in [1 .. Len(s) -> ToSet(s)]
    BY <1>1, <1>2
  <2> QED
    BY <1>1, <2>2, SeqDef
<1> QED
  BY <1>1, <1>2, <1>3

(* What an entry at the end adds. *)
LEMMA AppendEntries ==
    ASSUME NEW S, NEW s \in Seq(S), NEW e
    PROVE  /\ ToSet(Append(s, e)) = ToSet(s) \cup {e}
           /\ Append(s, e) \in Seq(ToSet(s) \cup {e})
           /\ Distinct(s) /\ e \notin ToSet(s) => Distinct(Append(s, e))
<1> DEFINE T == ToSet(s) \cup {e}
           t == Append(s, e)
<1>1. Len(s) \in Nat /\ DOMAIN s = 1 .. Len(s) /\ s \in Seq(T) /\ ToSet(s) = {s[i] : i \in 1 .. Len(s)}
  <2>1. s \in Seq(ToSet(s))
    BY EntriesOf
  <2>2. s \in Seq(T)
    BY <2>1, SeqDef
  <2> QED
    BY <2>2, EntriesOf
<1>2. /\ t \in Seq(T) /\ Len(t) = Len(s) + 1
      /\ \A i \in 1 .. Len(s) : t[i] = s[i]
      /\ t[Len(s) + 1] = e
  BY <1>1, AppendProperties
<1>3. ToSet(t) = {t[i] : i \in 1 .. Len(t)}
  BY <1>2, EntriesOf
<1> HIDE DEF t, T
<1>4. ToSet(t) = ToSet(s) \cup {e}
  <2>1. ASSUME NEW i \in 1 .. Len(t) PROVE t[i] \in ToSet(s) \cup {e}
    <3>1. i \in 1 .. Len(s) \/ i = Len(s) + 1
      BY <1>1, <1>2
    <3> QED
      BY <1>1, <1>2, <3>1
  <2>2. ASSUME NEW i \in 1 .. Len(s) PROVE s[i] \in ToSet(t)
    <3>1. i \in 1 .. Len(t) /\ t[i] = s[i]
      BY <1>1, <1>2
    <3> QED
      BY <1>3, <3>1
  <2>3. e \in ToSet(t)
    <3>1. Len(s) + 1 \in 1 .. Len(t)
      BY <1>1, <1>2
    <3> QED
      BY <1>2, <1>3, <3>1
  <2> QED
    BY <1>1, <1>3, <2>1, <2>2, <2>3
<1>5. ASSUME Distinct(s), e \notin ToSet(s) PROVE Distinct(t)
  <2> SUFFICES ASSUME NEW i \in 1 .. Len(t), NEW j \in 1 .. Len(t), t[i] = t[j]
               PROVE  i = j
    BY DEF Distinct
  <2>1. (i \in 1 .. Len(s) \/ i = Len(s) + 1) /\ (j \in 1 .. Len(s) \/ j = Len(s) + 1)
    BY <1>1, <1>2
  <2>2. \A k \in 1 .. Len(s) : t[k] = s[k] /\ s[k] # e
    BY <1>1, <1>2, <1>5
  <2> QED
    BY <1>2, <1>5, <2>1, <2>2 DEF Distinct
<1> QED
  BY <1>2, <1>4, <1>5 DEF t, T

(* A sequence is either empty or has a first entry: the recursive function that
   FlattenSeq is defined by exists, because a function for the first k entries
   extends to one for k + 1. *)
LEMMA FlattenDefined ==
    ASSUME NEW n \in Nat \ {0}, NEW seqs
    PROVE  \E f : f = [i \in 1 .. n |-> IF i = 1 THEN seqs[i] ELSE f[i-1] \o seqs[i]]
<1> DEFINE Upto(k, f) == f = [i \in 1 .. k |-> IF i = 1 THEN seqs[i] ELSE f[i-1] \o seqs[i]]
           Defined(k) == \E f : Upto(k, f)
           T == {k \in 1 .. n : Defined(k)}
<1>1. 1 \in T
  <2> DEFINE f == [i \in 1 .. 1 |-> seqs[i]]
  <2>1. f = [i \in 1 .. 1 |-> IF i = 1 THEN seqs[i] ELSE f[i-1] \o seqs[i]]
    OBVIOUS
  <2>2. Upto(1, f)
    BY <2>1
  <2>3. Defined(1)
    BY <2>2
  <2> HIDE DEF Defined
  <2> QED
    BY <2>3
<1>2. ASSUME NEW k \in 1 .. n, k \in T, k + 1 \in 1 .. n PROVE k + 1 \in T
  <2>1. PICK f : Upto(k, f)
    <3>1. Defined(k)
      <4> HIDE DEF Defined
      <4> QED
        BY <1>2
    <3> QED
      BY <3>1
  <2> DEFINE g == [i \in 1 .. k + 1 |-> IF i = k + 1 THEN f[k] \o seqs[i] ELSE f[i]]
             h == [i \in 1 .. k + 1 |-> IF i = 1 THEN seqs[i] ELSE g[i-1] \o seqs[i]]
  <2>2. ASSUME NEW i \in 1 .. k + 1 PROVE g[i] = IF i = 1 THEN seqs[i] ELSE g[i-1] \o seqs[i]
    <3>1. CASE i = k + 1
      <4>1. i # 1 /\ i - 1 = k /\ k \in 1 .. k + 1 /\ k # k + 1
        BY <3>1
      <4>2. g[k] = f[k]
        BY <4>1
      <4> QED
        BY <3>1, <4>1, <4>2
    <3>2. CASE i # k + 1
      <4>1. i \in 1 .. k /\ g[i] = f[i]
        BY <3>2
      <4>2. f[i] = IF i = 1 THEN seqs[i] ELSE f[i-1] \o seqs[i]
        BY <2>1, <4>1
      <4>3. i # 1 => i - 1 \in 1 .. k + 1 /\ i - 1 # k + 1 /\ g[i-1] = f[i-1]
        BY <4>1
      <4> QED
        BY <4>1, <4>2, <4>3
    <3> QED
      BY <3>1, <3>2
  <2>3. g = h
    BY <2>2
  <2>4. Upto(k + 1, g)
    BY <2>3
  <2>5. Defined(k + 1)
    BY <2>4
  <2> HIDE DEF Defined
  <2> QED
    BY <1>2, <2>5
<1>3. T = 1 .. n
  <2> HIDE DEF T
  <2>1. T \in SUBSET (1 .. n)
    BY DEF T
  <2>2. \A k \in 1 .. n : k \in T /\ k + 1 \in 1 .. n => k + 1 \in T
    BY <1>2
  <2>3. n \in Nat
    OBVIOUS
  <2> QED
    BY <1>1, <2>1, <2>2, <2>3, Numbers
<1>4. Defined(n)
  <2> HIDE DEF Defined
  <2>1. n \in 1 .. n
    OBVIOUS
  <2> QED
    BY <1>3, <2>1
<1> QED
  BY <1>4

(* A concatenation of sequences whose entries are all distinct has them all, each
   once. *)
LEMMA Flattened ==
    ASSUME NEW S, NEW seqs \in Seq(Seq(S)),
           \A i, j \in 1 .. Len(seqs) :
               \A a \in 1 .. Len(seqs[i]), b \in 1 .. Len(seqs[j]) :
                   seqs[i][a] = seqs[j][b] => i = j /\ a = b
    PROVE  /\ FlattenSeq(seqs) \in Seq(S)
           /\ ToSet(FlattenSeq(seqs)) = UNION {ToSet(seqs[i]) : i \in 1 .. Len(seqs)}
           /\ Distinct(FlattenSeq(seqs))
<1> DEFINE n == Len(seqs)
           flatten == CHOOSE f : f = [i \in 1 .. n |-> IF i = 1 THEN seqs[i] ELSE f[i-1] \o seqs[i]]
           From(k) == UNION {ToSet(seqs[i]) : i \in 1 .. k}
           Good(k) == /\ flatten[k] \in Seq(S) /\ Distinct(flatten[k])
                      /\ ToSet(flatten[k]) = From(k)
           T == {k \in 1 .. n : Good(k)}
<1>1. /\ n \in Nat /\ DOMAIN seqs = 1 .. n
      /\ \A i \in 1 .. n : /\ seqs[i] \in Seq(S) /\ Distinct(seqs[i])
                           /\ ToSet(seqs[i]) = {seqs[i][a] : a \in 1 .. Len(seqs[i])}
  <2>1. n \in Nat /\ DOMAIN seqs = 1 .. n /\ \A i \in 1 .. n : seqs[i] \in Seq(S)
    BY LenProperties, ElementOfSeq
  <2>2. \A i \in 1 .. n : Distinct(seqs[i])
    BY DEF Distinct
  <2> QED
    BY <2>1, <2>2, EntriesOf
<1>2. CASE n = 0
  <2>1. FlattenSeq(seqs) = seqs /\ seqs = << >>
    BY <1>2, EmptySeq DEF FlattenSeq
  <2>2. << >> \in Seq(S) /\ Len(<< >>) = 0 /\ ToSet(<< >>) = {}
    BY EmptySeq DEF ToSet
  <2>3. UNION {ToSet(seqs[i]) : i \in 1 .. n} = {} /\ Distinct(<< >>)
    BY <1>2, <2>2 DEF Distinct
  <2> QED
    BY <2>1, <2>2, <2>3
<1>3. CASE n # 0
  <2>1. \E f : f = [i \in 1 .. n |-> IF i = 1 THEN seqs[i] ELSE f[i-1] \o seqs[i]]
    BY <1>1, <1>3, FlattenDefined
  <2>2. flatten = [i \in 1 .. n |-> IF i = 1 THEN seqs[i] ELSE flatten[i-1] \o seqs[i]]
    BY <2>1
  <2>3. FlattenSeq(seqs) = flatten[n]
    BY <1>3 DEF FlattenSeq
  <2> HIDE DEF flatten, n
  <2>4. 1 \in T
    <3>1. 1 \in 1 .. n /\ flatten[1] = seqs[1]
      BY <1>1, <1>3, <2>2
    <3>2. From(1) = ToSet(seqs[1])
      OBVIOUS
    <3> QED
      BY <1>1, <3>1, <3>2
  <2>5. ASSUME NEW k \in 1 .. n, k \in T, k + 1 \in 1 .. n PROVE k + 1 \in T
    <3> DEFINE s == flatten[k]
               t == seqs[k + 1]
    <3>1. flatten[k + 1] = s \o t
      <4>1. k + 1 # 1 /\ (k + 1) - 1 = k
        BY <1>1
      <4> QED
        BY <2>2, <2>5, <4>1
    <3>2. s \in Seq(S) /\ Distinct(s) /\ ToSet(s) = From(k) /\ t \in Seq(S) /\ Distinct(t)
      BY <1>1, <2>5
    <3>3. \A x \in ToSet(t) : x \notin From(k)
      <4> SUFFICES ASSUME NEW a \in 1 .. Len(t), NEW i \in 1 .. k, NEW b \in 1 .. Len(seqs[i]),
                          t[a] = seqs[i][b]
                   PROVE  FALSE
        <5>1. ToSet(t) = {t[a] : a \in 1 .. Len(t)}
          BY <1>1, <2>5
        <5>2. \A i \in 1 .. k : ToSet(seqs[i]) = {seqs[i][b] : b \in 1 .. Len(seqs[i])}
          BY <1>1
        <5>3. ASSUME NEW x \in ToSet(t), x \in From(k) PROVE FALSE
          <6>1. PICK a \in 1 .. Len(t) : t[a] = x
            BY <5>1, <5>3
          <6>2. PICK i \in 1 .. k : x \in ToSet(seqs[i])
            BY <5>3
          <6>3. PICK b \in 1 .. Len(seqs[i]) : seqs[i][b] = x
            <7>1. ToSet(seqs[i]) = {seqs[i][b] : b \in 1 .. Len(seqs[i])}
              BY <5>2
            <7> QED
              BY <6>2, <7>1
          <6> QED
            BY <6>1, <6>3
        <5> QED
          BY <5>3
      <4>1. i \in 1 .. n /\ i # k + 1
        BY <1>1
      <4> QED
        BY <2>5, <4>1 DEF n
    <3>4. From(k + 1) = From(k) \cup ToSet(t)
      <4>1. 1 .. k + 1 = (1 .. k) \cup {k + 1}
        BY <1>1
      <4> QED
        BY <4>1
    <3> HIDE DEF s, t, From
    <3>5. /\ s \o t \in Seq(S) /\ Len(s \o t) = Len(s) + Len(t)
          /\ Len(s) \in Nat /\ Len(t) \in Nat
          /\ \A i \in 1 .. Len(s) + Len(t) :
                (s \o t)[i] = IF i <= Len(s) THEN s[i] ELSE t[i - Len(s)]
      BY <3>2, ConcatProperties, LenProperties
    <3>6. /\ ToSet(s) = {s[i] : i \in 1 .. Len(s)} /\ ToSet(t) = {t[i] : i \in 1 .. Len(t)}
          /\ ToSet(s \o t) = {(s \o t)[i] : i \in 1 .. Len(s \o t)}
      BY <3>2, <3>5, EntriesOf
    <3>7. /\ \A i \in 1 .. Len(s) : i \in 1 .. Len(s) + Len(t) /\ (s \o t)[i] = s[i]
          /\ \A i \in 1 .. Len(t) :
                Len(s) + i \in 1 .. Len(s) + Len(t) /\ (s \o t)[Len(s) + i] = t[i]
      <4>1. ASSUME NEW i \in 1 .. Len(t)
            PROVE  Len(s) + i \in 1 .. Len(s) + Len(t) /\ (s \o t)[Len(s) + i] = t[i]
        <5>1. Len(s) + i \in 1 .. Len(s) + Len(t) /\ ~ (Len(s) + i <= Len(s))
              /\ (Len(s) + i) - Len(s) = i
          BY <3>5
        <5> QED
          BY <3>5, <5>1
      <4> QED
        BY <3>5, <4>1
    <3>8. \A i \in 1 .. Len(s) + Len(t) :
             i \in 1 .. Len(s) \/ \E j \in 1 .. Len(t) : i = Len(s) + j
      <4> SUFFICES ASSUME NEW i \in 1 .. Len(s) + Len(t), i \notin 1 .. Len(s)
                   PROVE  \E j \in 1 .. Len(t) : i = Len(s) + j
        OBVIOUS
      <4>1. i - Len(s) \in 1 .. Len(t) /\ i = Len(s) + (i - Len(s))
        BY <3>5
      <4> QED
        BY <4>1
    <3>9. ToSet(s \o t) = From(k + 1)
      <4>1. \A x \in ToSet(s \o t) : x \in ToSet(s) \cup ToSet(t)
        BY <3>5, <3>6, <3>7, <3>8
      <4>2. \A x \in ToSet(s) \cup ToSet(t) : x \in ToSet(s \o t)
        BY <3>5, <3>6, <3>7
      <4> QED
        BY <3>2, <3>4, <4>1, <4>2
    <3>10. Distinct(s \o t)
      <4> SUFFICES ASSUME NEW i \in 1 .. Len(s) + Len(t), NEW j \in 1 .. Len(s) + Len(t),
                          (s \o t)[i] = (s \o t)[j]
                   PROVE  i = j
        BY <3>5 DEF Distinct
      <4>1. CASE i \in 1 .. Len(s) /\ j \in 1 .. Len(s)
        BY <3>2, <3>7, <4>1 DEF Distinct
      <4>2. CASE i \in 1 .. Len(s) /\ j \notin 1 .. Len(s)
        <5>1. PICK b \in 1 .. Len(t) : j = Len(s) + b
          BY <3>8, <4>2
        <5>2. t[b] \in ToSet(t) /\ s[i] \in From(k) /\ s[i] = t[b]
          BY <3>2, <3>6, <3>7, <4>2, <5>1
        <5> QED
          BY <3>3, <5>2
      <4>3. CASE i \notin 1 .. Len(s) /\ j \in 1 .. Len(s)
        <5>1. PICK a \in 1 .. Len(t) : i = Len(s) + a
          BY <3>8, <4>3
        <5>2. t[a] \in ToSet(t) /\ s[j] \in From(k) /\ s[j] = t[a]
          BY <3>2, <3>6, <3>7, <4>3, <5>1
        <5> QED
          BY <3>3, <5>2
      <4>4. CASE i \notin 1 .. Len(s) /\ j \notin 1 .. Len(s)
        <5>1. PICK a \in 1 .. Len(t), b \in 1 .. Len(t) : i = Len(s) + a /\ j = Len(s) + b
          BY <3>8, <4>4
        <5>2. t[a] = t[b]
          BY <3>7, <5>1
        <5>3. a = b
          BY <3>2, <5>2 DEF Distinct
        <5> QED
          BY <5>1, <5>3
      <4> QED
        BY <4>1, <4>2, <4>3, <4>4
    <3> QED
      BY <2>5, <3>1, <3>5, <3>9, <3>10 DEF s, t
  <2>6. T = 1 .. n
    <3> HIDE DEF T
    <3>1. T \in SUBSET (1 .. n)
      BY DEF T
    <3>2. \A k \in 1 .. n : k \in T /\ k + 1 \in 1 .. n => k + 1 \in T
      BY <2>5
    <3> QED
      BY <1>1, <2>4, <3>1, <3>2, Numbers
  <2>7. Good(n)
    <3> HIDE DEF Good
    <3>1. n \in 1 .. n
      BY <1>1, <1>3
    <3> QED
      BY <2>6, <3>1
  <2> QED
    BY <2>3, <2>7 DEF n
<1> QED
  BY <1>2, <1>3

-----------------------------------------------------------------------------
(* What is projected.                                                       *)

StitchRecord == [service : STRING, number : Nat \ {0}, source : SourceRecord]

(* The provers do not know that a literal is a string. *)
Text == STRING \cup {None, "bullmq"}

EndpointRecord ==
    [id : STRING \X (Nat \ {0}), role : {"producer", "consumer"}, contract : ContractRecord,
     transport : Text, realm : Text, eligible : BOOLEAN]

(* The input is one of those the command may be given, and not refused so far. *)
Accepted ==
    /\ input \in Inputs
    /\ TopologyAccepted(input.topology)
    /\ NameAccepted /\ ServicesAccepted(input.services)

(* A record that is projected and not refused. *)
Taken(r) == r.source.contract.kind \in Correlated /\ ~ Refused(r)

(* The parts of an input. *)
LEMMA InputParts ==
    ASSUME input \in Inputs
    PROVE  /\ input.services \in Seq(ServiceRecord) /\ input.graph \in BOOLEAN
           /\ input.topology.realms \in Seq(RealmRecord)
           /\ input.topology.bindings \in Seq(BindingRecord)
           /\ DefaultName \in Identifiers
           /\ \A s \in ToSet(input.services) : \A source \in ToSet(s.records) :
                 IsJob(source.contract) \/ source.transport # "bullmq"
<1>1. input \in InputRecord
  BY InputsAssumption
<1>2. input.services \in Seq(ServiceRecord) /\ input.graph \in BOOLEAN
      /\ input.topology \in [system : STRING, realms : Seq(RealmRecord),
                             bindings : Seq(BindingRecord)]
  BY <1>1 DEF InputRecord
<1>3. input.topology.realms \in Seq(RealmRecord) /\ input.topology.bindings \in Seq(BindingRecord)
  BY <1>2
<1> QED
  BY <1>2, <1>3, InputsAssumption

(* The records of all services are told apart by their service and number, and each
   is what the service has under that number. *)
LEMMA RecordsKnown ==
    ASSUME Accepted
    PROVE  /\ Records \in Seq(StitchRecord) /\ Len(Records) \in Nat
           /\ ToSet(Records) = {Records[k] : k \in 1 .. Len(Records)}
           /\ \A i, j \in 1 .. Len(Records) :
                 Records[i].service = Records[j].service /\ Records[i].number = Records[j].number
                    => i = j
           /\ \A r \in ToSet(Records) :
                 /\ IsJob(r.source.contract) \/ r.source.transport # "bullmq"
                 /\ \E s \in ToSet(input.services) : s.name = r.service
<1> DEFINE services == input.services
           all == [i \in DOMAIN services |-> RecordsOf(services[i])]
           Same(r, q) == r.service = q.service /\ r.number = q.number
<1>1. /\ services \in Seq(ServiceRecord) /\ Len(services) \in Nat
      /\ DOMAIN services = 1 .. Len(services)
      /\ ToSet(services) = {services[i] : i \in 1 .. Len(services)}
      /\ \A i \in 1 .. Len(services) : services[i] \in ServiceRecord
      /\ \A i, j \in 1 .. Len(services) : services[i].name = services[j].name => i = j
  <2>1. services \in Seq(ServiceRecord)
    BY InputParts DEF Accepted
  <2>2. DOMAIN services = 1 .. Len(services) /\ Len(services) \in Nat
        /\ ToSet(services) = {services[i] : i \in 1 .. Len(services)}
        /\ ToSet(services) \subseteq ServiceRecord
    BY <2>1, EntriesOf
  <2>3. \A i, j \in DOMAIN services : services[i].name = services[j].name => i = j
    BY DEF Accepted, ServicesAccepted
  <2> QED
    BY <2>1, <2>2, <2>3
<1>2. ASSUME NEW i \in 1 .. Len(services)
      PROVE  LET s == services[i]
             IN  /\ RecordsOf(s) \in Seq(StitchRecord) /\ Len(RecordsOf(s)) = Len(s.records)
                 /\ ToSet(s.records) = {s.records[a] : a \in 1 .. Len(s.records)}
                 /\ Len(s.records) \in Nat
                 /\ \A a \in 1 .. Len(s.records) :
                       /\ RecordsOf(s)[a].service = s.name /\ RecordsOf(s)[a].number = a
                       /\ RecordsOf(s)[a].source = s.records[a]
  <2> DEFINE s == services[i]
  <2>1. s.records \in Seq(SourceRecord) /\ s.name \in STRING
    BY <1>1 DEF ServiceRecord
  <2> HIDE DEF s
  <2>2. /\ Len(s.records) \in Nat /\ DOMAIN s.records = 1 .. Len(s.records)
        /\ ToSet(s.records) = {s.records[a] : a \in 1 .. Len(s.records)}
        /\ \A a \in 1 .. Len(s.records) : s.records[a] \in SourceRecord
    <3>1. /\ Len(s.records) \in Nat /\ DOMAIN s.records = 1 .. Len(s.records)
          /\ ToSet(s.records) = {s.records[a] : a \in 1 .. Len(s.records)}
      BY <2>1, EntriesOf
    <3> QED
      BY <2>1, <3>1, ElementOfSeq
  <2>3. RecordsOf(s) = [a \in 1 .. Len(s.records) |->
                           [service |-> s.name, number |-> a, source |-> s.records[a]]]
    BY <2>2 DEF RecordsOf
  <2>4. \A a \in 1 .. Len(s.records) :
           [service |-> s.name, number |-> a, source |-> s.records[a]] \in StitchRecord
    BY <2>1, <2>2 DEF StitchRecord
  <2>5. RecordsOf(s) \in [1 .. Len(s.records) -> StitchRecord]
    BY <2>3, <2>4
  <2>6. RecordsOf(s) \in Seq(StitchRecord)
    BY <2>2, <2>5, SeqDef
  <2>7. Len(RecordsOf(s)) = Len(s.records)
    BY <2>2, <2>5, <2>6, LenProperties
  <2> QED
    BY <2>2, <2>3, <2>6, <2>7 DEF s
<1>3. all \in Seq(Seq(StitchRecord)) /\ Len(all) = Len(services)
      /\ \A i \in 1 .. Len(services) : all[i] = RecordsOf(services[i])
  <2>1. all \in [1 .. Len(services) -> Seq(StitchRecord)]
    BY <1>1, <1>2
  <2>2. all \in Seq(Seq(StitchRecord))
    BY <1>1, <2>1, SeqDef
  <2> QED
    BY <1>1, <2>1, <2>2, LenProperties
<1> HIDE DEF all
<1>4. ASSUME NEW i \in 1 .. Len(all), NEW j \in 1 .. Len(all),
             NEW a \in 1 .. Len(all[i]), NEW b \in 1 .. Len(all[j]),
             Same(all[i][a], all[j][b])
      PROVE  i = j /\ a = b
  <2>1. all[i][a].service = services[i].name /\ all[i][a].number = a
    <3>1. i \in 1 .. Len(services) /\ all[i] = RecordsOf(services[i])
      BY <1>3
    <3>2. a \in 1 .. Len(services[i].records)
      BY <1>2, <3>1
    <3> QED
      BY <1>2, <3>1, <3>2
  <2>2. all[j][b].service = services[j].name /\ all[j][b].number = b
    <3>1. j \in 1 .. Len(services) /\ all[j] = RecordsOf(services[j])
      BY <1>3
    <3>2. b \in 1 .. Len(services[j].records)
      BY <1>2, <3>1
    <3> QED
      BY <1>2, <3>1, <3>2
  <2> QED
    BY <1>1, <1>3, <1>4, <2>1, <2>2
<1>5. /\ FlattenSeq(all) \in Seq(StitchRecord)
      /\ ToSet(FlattenSeq(all)) = UNION {ToSet(all[i]) : i \in 1 .. Len(all)}
      /\ Distinct(FlattenSeq(all))
  <2>1. \A i, j \in 1 .. Len(all) : \A a \in 1 .. Len(all[i]), b \in 1 .. Len(all[j]) :
           all[i][a] = all[j][b] => i = j /\ a = b
    BY <1>4
  <2> HIDE DEF Same
  <2> QED
    BY <1>3, <2>1, Flattened
<1>6. Records = FlattenSeq(all)
  BY DEF Records, all
<1>7. /\ Records \in Seq(StitchRecord) /\ Len(Records) \in Nat /\ Distinct(Records)
      /\ ToSet(Records) = {Records[k] : k \in 1 .. Len(Records)}
      /\ ToSet(Records) = UNION {ToSet(all[i]) : i \in 1 .. Len(all)}
  <2>1. Records \in Seq(StitchRecord) /\ Distinct(Records)
        /\ ToSet(Records) = UNION {ToSet(all[i]) : i \in 1 .. Len(all)}
    BY <1>5, <1>6
  <2>2. Len(Records) \in Nat /\ ToSet(Records) = {Records[k] : k \in 1 .. Len(Records)}
    BY <2>1, EntriesOf
  <2> QED
    BY <2>1, <2>2
<1>8. \A r \in ToSet(Records) : \E i \in 1 .. Len(all) : \E a \in 1 .. Len(all[i]) : r = all[i][a]
  <2> SUFFICES ASSUME NEW r \in ToSet(Records)
               PROVE  \E i \in 1 .. Len(all) : \E a \in 1 .. Len(all[i]) : r = all[i][a]
    OBVIOUS
  <2>1. PICK i \in 1 .. Len(all) : r \in ToSet(all[i])
    BY <1>7
  <2>2. ToSet(all[i]) = {all[i][a] : a \in 1 .. Len(all[i])}
    <3>1. all[i] \in Seq(StitchRecord)
      BY <1>3, <1>2
    <3> QED
      BY <3>1, EntriesOf
  <2> QED
    BY <2>1, <2>2
<1>9. ASSUME NEW r \in ToSet(Records), NEW q \in ToSet(Records), Same(r, q) PROVE r = q
  <2>1. PICK i \in 1 .. Len(all) : \E a \in 1 .. Len(all[i]) : r = all[i][a]
    BY <1>8
  <2>2. PICK a \in 1 .. Len(all[i]) : r = all[i][a]
    BY <2>1
  <2>3. PICK j \in 1 .. Len(all) : \E b \in 1 .. Len(all[j]) : q = all[j][b]
    BY <1>8
  <2>4. PICK b \in 1 .. Len(all[j]) : q = all[j][b]
    BY <2>3
  <2>5. i = j /\ a = b
    BY <1>4, <1>9, <2>2, <2>4
  <2> QED
    BY <2>2, <2>4, <2>5
<1>10. ASSUME NEW i \in 1 .. Len(Records), NEW j \in 1 .. Len(Records),
              Records[i].service = Records[j].service, Records[i].number = Records[j].number
       PROVE  i = j
  <2>1. Records[i] \in ToSet(Records) /\ Records[j] \in ToSet(Records)
    BY <1>7
  <2>2. Records[i] = Records[j]
    BY <1>9, <1>10, <2>1
  <2> QED
    BY <1>7, <2>2 DEF Distinct
<1>11. ASSUME NEW r \in ToSet(Records)
       PROVE  /\ IsJob(r.source.contract) \/ r.source.transport # "bullmq"
              /\ \E s \in ToSet(input.services) : s.name = r.service
  <2>1. PICK i \in 1 .. Len(all) : \E a \in 1 .. Len(all[i]) : r = all[i][a]
    BY <1>8
  <2>2. PICK a \in 1 .. Len(all[i]) : r = all[i][a]
    BY <2>1
  <2>3. services[i] \in ToSet(services)
    BY <1>1, <1>3
  <2>4. r.source \in ToSet(services[i].records) /\ services[i].name = r.service
    <3>1. i \in 1 .. Len(services) /\ all[i] = RecordsOf(services[i])
      BY <1>3
    <3>2. a \in 1 .. Len(services[i].records)
      BY <1>2, <2>2, <3>1
    <3>3. r.source = services[i].records[a] /\ r.service = services[i].name
      BY <1>2, <2>2, <3>1, <3>2
    <3>4. ToSet(services[i].records) =
             {services[i].records[c] : c \in 1 .. Len(services[i].records)}
      BY <1>2, <3>1
    <3> QED
      BY <3>2, <3>3, <3>4
  <2> QED
    BY <2>3, <2>4, InputParts DEF Accepted
<1> QED
  BY <1>7, <1>10, <1>11

(* A record is found again by its service and number. *)
LEMMA FoundAgain ==
    ASSUME Accepted, NEW r \in ToSet(Records), NEW q \in ToSet(Records),
           <<r.service, r.number>> = <<q.service, q.number>>
    PROVE  r = q
<1>1. PICK i \in 1 .. Len(Records), j \in 1 .. Len(Records) : r = Records[i] /\ q = Records[j]
  BY RecordsKnown
<1>2. r.service = q.service /\ r.number = q.number
  OBVIOUS
<1> QED
  BY <1>1, <1>2, RecordsKnown

(* What the manifest binds a taken record to. *)
LEMMA RealmKnown ==
    ASSUME Accepted, NEW r \in StitchRecord, Taken(r)
    PROVE  /\ RealmFor(r) \in Text
           /\ RealmFor(r) # None =>
                 \E b \in ToSet(input.topology.bindings), realm \in RealmsOf(input.topology, RealmFor(r)) :
                    /\ BindingMatches(b, r) /\ b.alias = RealmFor(r) /\ BindingCompatible(b, realm)
                    /\ SourceTransport(r.source) \in {None, realm.transport}
<1> DEFINE bindings == input.topology.bindings
<1>1. /\ bindings \in Seq(BindingRecord) /\ DOMAIN bindings = 1 .. Len(bindings)
      /\ ToSet(bindings) = {bindings[i] : i \in 1 .. Len(bindings)}
      /\ ToSet(bindings) \subseteq BindingRecord
  <2>1. bindings \in Seq(BindingRecord)
    BY InputParts DEF Accepted
  <2> HIDE DEF bindings
  <2> QED
    BY <2>1, EntriesOf
<1>2. CASE Matches(r) = {}
  <2>1. RealmFor(r) = None
    BY <1>2 DEF RealmFor
  <2> QED
    BY <2>1 DEF Text
<1>3. CASE Matches(r) # {}
  <2> DEFINE i == CHOOSE i \in Matches(r) : TRUE
  <2>1. i \in Matches(r)
    BY <1>3
  <2>2. i \in 1 .. Len(bindings) /\ BindingMatches(bindings[i], r)
    BY <1>1, <2>1 DEF Matches
  <2>3. RealmFor(r) = bindings[i].alias
    BY <1>3 DEF RealmFor
  <2> HIDE DEF i
  <2>4. bindings[i] \in ToSet(bindings) /\ bindings[i] \in BindingRecord
    BY <1>1, <2>2
  <2>5. bindings[i].alias \in STRING
    BY <2>4 DEF BindingRecord
  <2>6. PICK realm \in RealmsOf(input.topology, bindings[i].alias) :
           BindingCompatible(bindings[i], realm)
    BY <2>4 DEF Accepted, TopologyAccepted
  <2>7. SourceTransport(r.source) \in {None, realm.transport}
    BY <2>3, <2>6 DEF Taken, Refused, Contradicted
  <2> QED
    BY <2>2, <2>3, <2>4, <2>5, <2>6, <2>7 DEF Text
<1> QED
  BY <1>2, <1>3

(* The endpoint of a taken record passes validation, if its contract is short. *)
LEMMA EndpointKnown ==
    ASSUME Accepted, NEW r \in ToSet(Records), Taken(r)
    PROVE  /\ Endpoint(r) \in EndpointRecord
           /\ r.source.contract \notin LongKeys => ValidEndpoint(Endpoint(r))
           /\ Endpoint(r).id = <<r.service, r.number>>
           /\ Endpoint(r).role = r.source.role /\ Endpoint(r).contract = r.source.contract
           /\ Endpoint(r).realm = RealmFor(r)
           /\ Endpoint(r).transport = SourceTransport(r.source)
           /\ Endpoint(r).eligible <=> Eligible(r.source)
<1> DEFINE e == Endpoint(r)
<1>1. r \in StitchRecord /\ (IsJob(r.source.contract) \/ r.source.transport # "bullmq")
  BY RecordsKnown, EntriesOf
<1>2. /\ r.service \in STRING /\ r.number \in Nat \ {0} /\ r.source \in SourceRecord
  BY <1>1 DEF StitchRecord
<1>3. /\ r.source.role \in {"producer", "consumer"} /\ r.source.contract \in ContractRecord
      /\ r.source.transport \in STRING
  BY <1>2 DEF SourceRecord
<1>4. SourceTransport(r.source) \in Text /\ RealmFor(r) \in Text
  <2>1. SourceTransport(r.source) \in {r.source.transport, "bullmq", None}
    BY DEF SourceTransport
  <2> QED
    BY <1>1, <1>3, <2>1, RealmKnown DEF Text
<1>5. Eligible(r.source) \in BOOLEAN
  BY DEF Eligible
<1>6. /\ e.id = <<r.service, r.number>> /\ e.role = r.source.role
      /\ e.contract = r.source.contract /\ e.transport = SourceTransport(r.source)
      /\ e.realm = RealmFor(r) /\ (e.eligible <=> Eligible(r.source))
  BY DEF Endpoint
<1>7. e \in EndpointRecord
  BY <1>2, <1>3, <1>4, <1>5 DEF Endpoint, EndpointRecord
<1> HIDE DEF e
<1>8. IF IsJob(e.contract)
      THEN e.transport = (IF e.contract.form = "bullmq" THEN "bullmq" ELSE None)
      ELSE e.transport # "bullmq"
  BY <1>1, <1>6 DEF SourceTransport
<1>9. ASSUME e.realm # None
      PROVE  \E realm \in RealmsOf(input.topology, e.realm) :
               IF IsJob(e.contract)
               THEN realm.technology = "bullmq" /\ e.contract.address # None
                    /\ e.contract.address = realm.queue
               ELSE realm.technology # "bullmq" /\ e.transport \in {None, realm.transport}
  <2>1. PICK b \in ToSet(input.topology.bindings), realm \in RealmsOf(input.topology, RealmFor(r)) :
           /\ BindingMatches(b, r) /\ b.alias = RealmFor(r) /\ BindingCompatible(b, realm)
           /\ SourceTransport(r.source) \in {None, realm.transport}
    BY <1>1, <1>6, <1>9, RealmKnown
  <2>2. b.contract = e.contract
    BY <1>6, <2>1 DEF BindingMatches
  <2> QED
    BY <1>6, <2>1, <2>2 DEF BindingCompatible
<1> QED
  BY <1>6, <1>7, <1>8, <1>9 DEF ValidEndpoint, e

(* The endpoints that were projected so far come from records that were taken, and
   are told apart by their ids. *)
EndpointsInv ==
    /\ endpoints \in Seq(EndpointRecord)
    /\ \A e \in ToSet(endpoints) : \E r \in ToSet(Records) : Taken(r) /\ e = Endpoint(r)
    /\ \A i, j \in 1 .. Len(endpoints) : endpoints[i].id = endpoints[j].id => i = j

(* The endpoints as a set. *)
LEMMA EndpointsKnown ==
    ASSUME Accepted, EndpointsInv
    PROVE  /\ Len(endpoints) \in Nat
           /\ ToSet(endpoints) = {endpoints[i] : i \in 1 .. Len(endpoints)}
           /\ ToSet(endpoints) \subseteq EndpointRecord
           /\ \A e \in ToSet(endpoints) : e.id # NoEndpoint /\ EndpointOf(e.id) = e
           /\ \A e, d \in ToSet(endpoints) : e.id = d.id => e = d
           /\ ToSet(endpoints) = Producers \cup Consumers
           /\ Producers \cap Consumers = {}
<1>1. /\ Len(endpoints) \in Nat
      /\ ToSet(endpoints) = {endpoints[i] : i \in 1 .. Len(endpoints)}
      /\ ToSet(endpoints) \subseteq EndpointRecord
  BY EntriesOf DEF EndpointsInv
<1>2. \A e, d \in ToSet(endpoints) : e.id = d.id => e = d
  BY <1>1 DEF EndpointsInv
<1>3. ASSUME NEW e \in ToSet(endpoints) PROVE e.id # NoEndpoint /\ EndpointOf(e.id) = e
  <2>1. e.id \in STRING \X (Nat \ {0})
    BY <1>1 DEF EndpointRecord
  <2>2. e.id[2] # 0
    BY <2>1
  <2>3. NoEndpoint[2] = 0
    BY DEF NoEndpoint
  <2>4. \A x \in ToSet(endpoints) : x.id = e.id <=> x = e
    BY <1>2
  <2> QED
    BY <2>2, <2>3, <2>4 DEF EndpointOf
<1>4. \A e \in ToSet(endpoints) : e.role \in {"producer", "consumer"}
  BY <1>1 DEF EndpointRecord
<1> QED
  BY <1>1, <1>2, <1>3, <1>4 DEF Producers, Consumers

(* Every endpoint passes validation. *)
LEMMA EndpointsValid ==
    ASSUME Accepted, EndpointsInv, ~ ContractUnchecked
    PROVE  \A e \in ToSet(endpoints) : ValidEndpoint(e)
  BY EndpointKnown DEF EndpointsInv, ContractUnchecked, Taken

(* Sets of endpoints are finite, and so are their realms. *)
LEMMA FiniteEntries ==
    ASSUME NEW S, NEW s \in Seq(S)
    PROVE  IsFiniteSet(ToSet(s))
<1>1. Len(s) \in Nat /\ DOMAIN s = 1 .. Len(s) /\ ToSet(s) = {s[i] : i \in 1 .. Len(s)}
  BY EntriesOf
<1>2. IsFiniteSet(1 .. Len(s))
  BY <1>1, FS_Interval
<1>3. s \in [1 .. Len(s) -> ToSet(s)]
  BY <1>1, EntriesOf, SeqDef, LenProperties
<1>4. s \in Surjection(1 .. Len(s), ToSet(s))
  BY <1>1, <1>3 DEF Surjection
<1> QED
  BY <1>2, <1>4, FS_Surjection

LEMMA FiniteRealms ==
    ASSUME NEW S, IsFiniteSet(S)
    PROVE  IsFiniteSet({e.realm : e \in S})
<1> DEFINE T == {e.realm : e \in S}
           f == [e \in S |-> e.realm]
<1>1. f \in Surjection(S, T)
  BY DEF Surjection
<1> HIDE DEF T, f
<1> QED
  BY <1>1, FS_Surjection DEF T

(* Numbers of elements, as far as the correlation looks at them. *)
LEMMA Several ==
    ASSUME NEW S, IsFiniteSet(S)
    PROVE  /\ Cardinality(S) \in Nat
           /\ Cardinality(S) > 1 <=> \E x, y \in S : x # y
           /\ Cardinality(S) = 1 <=> \E x : S = {x}
<1>1. Cardinality(S) \in Nat /\ (Cardinality(S) = 0 <=> S = {})
      /\ (Cardinality(S) = 1 <=> \E x : S = {x})
  BY FS_CardinalityType, FS_EmptySet, FS_Singleton
<1>2. ASSUME Cardinality(S) > 1 PROVE \E x, y \in S : x # y
  <2>1. PICK x : x \in S
    BY <1>1, <1>2
  <2>2. ASSUME S = {x} PROVE FALSE
    <3>1. \E z : S = {z}
      BY <2>2
    <3> QED
      BY <1>1, <1>2, <3>1
  <2> QED
    BY <2>1, <2>2
<1>3. ASSUME NEW x \in S, NEW y \in S, x # y PROVE Cardinality(S) > 1
  <2>1. S # {} /\ ~ \E z : S = {z}
    BY <1>3
  <2>2. Cardinality(S) # 0 /\ Cardinality(S) # 1
    BY <1>1, <2>1
  <2> QED
    BY <1>1, <2>2
<1> QED
  BY <1>1, <1>2, <1>3

-----------------------------------------------------------------------------
(* What does not change while nothing that it reads changes.                *)

LEMMA SameRecords ==
    ASSUME input' = input
    PROVE  /\ Records' = Records
           /\ \A r : (Taken(r) <=> Taken(r)') /\ Endpoint(r)' = Endpoint(r)
           /\ Accepted <=> Accepted'
<1>1. Records' = Records
  BY DEF Records
<1>2. ASSUME NEW r PROVE (Taken(r) <=> Taken(r)') /\ Endpoint(r)' = Endpoint(r)
  <2>1. Matches(r)' = Matches(r)
    BY DEF Matches
  <2>2. RealmFor(r)' = RealmFor(r)
    BY <2>1 DEF RealmFor
  <2>3. Contradicted(r)' <=> Contradicted(r)
    BY <2>2 DEF Contradicted
  <2> QED
    BY <2>1, <2>2, <2>3 DEF Taken, Refused, Endpoint
<1>3. Accepted <=> Accepted'
  BY DEF Accepted, NameAccepted, SystemName
<1> QED
  BY <1>1, <1>2, <1>3

LEMMA SameEndpoints ==
    ASSUME input' = input, endpoints' = endpoints
    PROVE  /\ EndpointsInv <=> EndpointsInv'
           /\ Producers' = Producers /\ Consumers' = Consumers
           /\ \A p : CorrelationOf(p)' = CorrelationOf(p) /\ Offered(p)' = Offered(p)
                     /\ Candidates(p)' = Candidates(p)
<1>1. EndpointsInv <=> EndpointsInv'
  BY SameRecords DEF EndpointsInv
<1>2. Producers' = Producers /\ Consumers' = Consumers
  BY DEF Producers, Consumers
<1>3. ASSUME NEW p PROVE CorrelationOf(p)' = CorrelationOf(p) /\ Offered(p)' = Offered(p)
                         /\ Candidates(p)' = Candidates(p)
  <2>1. EligibleConsumers(p)' = EligibleConsumers(p)
    BY <1>2 DEF EligibleConsumers
  <2>2. Candidates(p)' = Candidates(p)
    BY <2>1 DEF Candidates
  <2>3. CorrelationOf(p)' = CorrelationOf(p)
    BY <2>1, <2>2 DEF CorrelationOf
  <2> QED
    BY <2>2, <2>3 DEF Offered
<1> QED
  BY <1>1, <1>2, <1>3

-----------------------------------------------------------------------------
(* The correlation of a producer.                                           *)

(* What a consumer is worth to a producer: another service can take what the
   producer sends. *)
LEMMA CandidatesKnown ==
    ASSUME NEW p
    PROVE  /\ Candidates(p) = {d \in Consumers : d.eligible
                                    /\ ContractsCompatible(p.contract, d.contract)}
           /\ Candidates(p) \subseteq EligibleConsumers(p)
<1>1. ASSUME NEW d \in Consumers, ContractsCompatible(p.contract, d.contract)
      PROVE  d.contract.kind = p.contract.kind
  BY <1>1 DEF ContractsCompatible, IsJob
<1> QED
  BY <1>1 DEF Candidates, EligibleConsumers

(* The fields of a correlation. *)
Outcome(c, p, state, reason, consumers, realm) ==
    /\ c.producer = p.id /\ c.contract = p.contract
    /\ c.state = state /\ c.reason = reason /\ c.consumers = consumers /\ c.realm = realm
    /\ c.diagnosed <=> state # "declared_realm_candidate"

(* Each is what Correlation was given. *)
LEMMA CorrelationFields ==
    ASSUME NEW p, NEW state, NEW reason, NEW consumers, NEW realm
    PROVE  Outcome(Correlation(state, reason, p, consumers, realm), p, state, reason,
                   consumers, realm)
  BY DEF Correlation, Outcome

(* The six outcomes. *)
LEMMA CorrelationCases ==
    ASSUME NEW p
    PROVE  LET c == CorrelationOf(p)
               candidates == Candidates(p)
               members == {p} \cup candidates
               realms == ExplicitRealms(members)
           IN  \/ ~ p.eligible /\ Outcome(c, p, "unmatched", "unsupported_identity", {}, p.realm)
               \/ /\ p.eligible /\ candidates = {}
                  /\ \E reason \in {"producer_only", "target_mismatch"} :
                        Outcome(c, p, "unmatched", reason, {}, p.realm)
               \/ /\ p.eligible /\ candidates # {} /\ Cardinality(realms) > 1
                  /\ Outcome(c, p, "unmatched", "realm_mismatch", Ids(candidates), None)
               \/ /\ p.eligible /\ candidates # {} /\ ~ Cardinality(realms) > 1
                  /\ Cardinality(candidates) > 1 /\ SingleConsumer(p.contract)
                  /\ \E reason :
                        /\ reason = IF IsJob(p.contract) THEN "multiple_job_consumers"
                                    ELSE "multiple_request_consumers"
                        /\ Outcome(c, p, "ambiguous", reason, Ids(candidates), SharedRealm(members))
               \/ /\ p.eligible /\ candidates # {} /\ ~ Cardinality(realms) > 1
                  /\ ~ (Cardinality(candidates) > 1 /\ SingleConsumer(p.contract))
                  /\ SharedRealm(members) # None
                  /\ Outcome(c, p, "declared_realm_candidate", None, Ids(candidates),
                             SharedRealm(members))
               \/ /\ p.eligible /\ candidates # {} /\ ~ Cardinality(realms) > 1
                  /\ SharedRealm(members) = None
                  /\ Outcome(c, p, "target_only_candidate", None, Ids(candidates), None)
<1> DEFINE c == CorrelationOf(p)
           candidates == Candidates(p)
           members == {p} \cup candidates
           realms == ExplicitRealms(members)
           jobs == IF IsJob(p.contract) THEN "multiple_job_consumers"
                   ELSE "multiple_request_consumers"
<1>1. Ids({}) = {}
  BY DEF Ids
<1>2. EligibleConsumers(p) = {} => candidates = {}
  BY CandidatesKnown
<1>3. CASE ~ p.eligible
  <2>1. c = Correlation("unmatched", "unsupported_identity", p, {}, p.realm)
    BY <1>3 DEF CorrelationOf
  <2> QED
    BY <1>3, <2>1, CorrelationFields
<1>4. CASE p.eligible /\ EligibleConsumers(p) = {}
  <2>1. c = Correlation("unmatched", "producer_only", p, Ids(candidates), p.realm)
    BY <1>4 DEF CorrelationOf
  <2>2. Outcome(c, p, "unmatched", "producer_only", {}, p.realm)
    BY <1>1, <1>2, <1>4, <2>1, CorrelationFields
  <2> QED
    BY <1>2, <1>4, <2>2
<1>5. CASE p.eligible /\ EligibleConsumers(p) # {} /\ candidates = {}
  <2>1. c = Correlation("unmatched", "target_mismatch", p, Ids(candidates), p.realm)
    BY <1>5 DEF CorrelationOf
  <2>2. Outcome(c, p, "unmatched", "target_mismatch", {}, p.realm)
    BY <1>1, <1>5, <2>1, CorrelationFields
  <2> QED
    BY <1>5, <2>2
<1>6. CASE p.eligible /\ EligibleConsumers(p) # {} /\ candidates # {}
  <2>1. c = IF Cardinality(realms) > 1
            THEN Correlation("unmatched", "realm_mismatch", p, Ids(candidates), None)
            ELSE IF Cardinality(candidates) > 1 /\ SingleConsumer(p.contract)
            THEN Correlation("ambiguous", jobs, p, Ids(candidates), SharedRealm(members))
            ELSE IF SharedRealm(members) # None
            THEN Correlation("declared_realm_candidate", None, p, Ids(candidates),
                             SharedRealm(members))
            ELSE Correlation("target_only_candidate", None, p, Ids(candidates), None)
    BY <1>6 DEF CorrelationOf
  <2>2. CASE Cardinality(realms) > 1
    <3>1. Outcome(c, p, "unmatched", "realm_mismatch", Ids(candidates), None)
      BY <2>1, <2>2, CorrelationFields
    <3> QED
      BY <1>6, <2>2, <3>1
  <2>3. CASE ~ Cardinality(realms) > 1 /\ Cardinality(candidates) > 1 /\ SingleConsumer(p.contract)
    <3>1. Outcome(c, p, "ambiguous", jobs, Ids(candidates), SharedRealm(members))
      BY <2>1, <2>3, CorrelationFields
    <3> QED
      BY <1>6, <2>3, <3>1
  <2>4. CASE /\ ~ Cardinality(realms) > 1
             /\ ~ (Cardinality(candidates) > 1 /\ SingleConsumer(p.contract))
             /\ SharedRealm(members) # None
    <3>1. Outcome(c, p, "declared_realm_candidate", None, Ids(candidates), SharedRealm(members))
      BY <2>1, <2>4, CorrelationFields
    <3> QED
      BY <1>6, <2>4, <3>1
  <2>5. CASE /\ ~ Cardinality(realms) > 1
             /\ ~ (Cardinality(candidates) > 1 /\ SingleConsumer(p.contract))
             /\ SharedRealm(members) = None
    <3>1. Outcome(c, p, "target_only_candidate", None, Ids(candidates), None)
      BY <2>1, <2>5, CorrelationFields
    <3> QED
      BY <1>6, <2>5, <3>1
  <2> QED
    BY <2>2, <2>3, <2>4, <2>5
<1> QED
  BY <1>3, <1>4, <1>5, <1>6

(* What every correlation of a producer says. *)
LEMMA CorrelationSays ==
    ASSUME NEW p
    PROVE  LET c == CorrelationOf(p)
           IN  /\ c.producer = p.id /\ c.contract = p.contract
               /\ c.consumers = IF p.eligible THEN Ids(Candidates(p)) ELSE {}
               /\ c.diagnosed <=> c.state # "declared_realm_candidate"
               /\ Offered(p) = c.consumers
<1>1. Ids({}) = {}
  BY DEF Ids
<1>2. Offered(p) = CorrelationOf(p).consumers
  BY DEF Offered
<1> QED
  BY <1>1, <1>2, CorrelationCases DEF Outcome

(* The realm of all members. *)
LEMMA SharedRealmKnown ==
    ASSUME NEW members, IsFiniteSet(members)
    PROVE  /\ IsFiniteSet({e.realm : e \in members}) /\ IsFiniteSet(ExplicitRealms(members))
           /\ SharedRealm(members) # None =>
                 {e.realm : e \in members} = {SharedRealm(members)}
           /\ (Cardinality({e.realm : e \in members}) = 1 /\ SharedRealm(members) = None) =>
                 {e.realm : e \in members} = {None}
<1> DEFINE realms == {e.realm : e \in members}
<1>1. IsFiniteSet(realms)
  BY FiniteRealms
<1>2. ExplicitRealms(members) = realms \ {None}
  BY DEF ExplicitRealms
<1>3. SharedRealm(members) =
         IF realms = realms \ {None} /\ Cardinality(realms \ {None}) = 1
         THEN CHOOSE realm \in realms \ {None} : TRUE ELSE None
  BY <1>2 DEF SharedRealm
<1> HIDE DEF realms
<1>4. IsFiniteSet(realms \ {None})
  BY <1>1, FS_Subset
<1>5. SharedRealm(members) # None => realms = {SharedRealm(members)}
  <2> SUFFICES ASSUME SharedRealm(members) # None PROVE realms = {SharedRealm(members)}
    OBVIOUS
  <2>1. /\ realms = realms \ {None} /\ Cardinality(realms \ {None}) = 1
        /\ SharedRealm(members) = CHOOSE realm \in realms \ {None} : TRUE
    BY <1>3
  <2>2. PICK x : realms \ {None} = {x}
    BY <1>4, <2>1, Several
  <2> QED
    BY <2>1, <2>2
<1>6. (Cardinality(realms) = 1 /\ SharedRealm(members) = None) => realms = {None}
  <2> SUFFICES ASSUME Cardinality(realms) = 1, SharedRealm(members) = None PROVE realms = {None}
    OBVIOUS
  <2>1. PICK x : realms = {x}
    BY <1>1, Several
  <2>2. ASSUME x # None PROVE FALSE
    <3>1. realms \ {None} = realms
      BY <2>1, <2>2
    <3>2. SharedRealm(members) = CHOOSE realm \in realms : TRUE
      BY <1>3, <3>1
    <3>3. SharedRealm(members) = x
      BY <2>1, <3>2
    <3> QED
      BY <2>2, <3>3
  <2> QED
    BY <2>1, <2>2
<1>7. IsFiniteSet(ExplicitRealms(members))
  BY <1>2, <1>4
<1> QED
  BY <1>1, <1>5, <1>6, <1>7 DEF realms

(* Who takes part in the correlation of a projected producer. *)
LEMMA ProducerKnown ==
    ASSUME Accepted, EndpointsInv, NEW p \in Producers
    PROVE  /\ p \in ToSet(endpoints) /\ Candidates(p) \subseteq Consumers
           /\ Consumers \subseteq ToSet(endpoints)
           /\ IsFiniteSet(Candidates(p)) /\ IsFiniteSet({p} \cup Candidates(p))
           /\ Cardinality(Ids(Candidates(p))) > 1 <=> Cardinality(Candidates(p)) > 1
           /\ Ids(Candidates(p)) = {} <=> Candidates(p) = {}
<1> DEFINE C == Candidates(p)
           I == Ids(C)
<1>1. /\ p \in ToSet(endpoints) /\ C \subseteq Consumers
      /\ Consumers \subseteq ToSet(endpoints)
  BY CandidatesKnown DEF Producers, Consumers, EligibleConsumers
<1>2. IsFiniteSet(ToSet(endpoints))
  BY FiniteEntries DEF EndpointsInv
<1>3. IsFiniteSet(C) /\ IsFiniteSet({p} \cup C)
  <2>1. C \subseteq ToSet(endpoints) /\ {p} \cup C \subseteq ToSet(endpoints)
    BY <1>1
  <2> HIDE DEF C
  <2> QED
    BY <1>2, <2>1, FS_Subset
<1>4. I = {e.id : e \in C}
  BY DEF Ids
<1>5. \A e, d \in C : e.id = d.id => e = d
  BY <1>1, EndpointsKnown
<1> HIDE DEF C, I
<1>6. IsFiniteSet(I)
  <2> DEFINE f == [e \in C |-> e.id]
  <2>1. f \in Surjection(C, I)
    BY <1>4 DEF Surjection
  <2> QED
    BY <1>3, <2>1, FS_Surjection
<1>7. (\E x, y \in I : x # y) <=> \E x, y \in C : x # y
  <2>1. ASSUME NEW x \in I, NEW y \in I, x # y PROVE \E a, b \in C : a # b
    BY <1>4, <2>1
  <2>2. ASSUME NEW a \in C, NEW b \in C, a # b PROVE \E x, y \in I : x # y
    <3>1. a.id \in I /\ b.id \in I /\ a.id # b.id
      BY <1>4, <1>5, <2>2
    <3> QED
      BY <3>1
  <2> QED
    BY <2>1, <2>2
<1>8. Cardinality(I) > 1 <=> Cardinality(C) > 1
  BY <1>3, <1>6, <1>7, Several
<1>9. I = {} <=> C = {}
  BY <1>4
<1> QED
  BY <1>1, <1>3, <1>8, <1>9 DEF C, I

(* The endpoints that a correlation names. *)
LEMMA MembersKnown ==
    ASSUME Accepted, EndpointsInv, NEW c, NEW S, S \subseteq ToSet(endpoints),
           \A e \in ToSet(endpoints) : e.id \in {c.producer} \cup c.consumers <=> e \in S
    PROVE  Members(c) = S
  BY DEF Members

(* Whatever a producer is correlated with, the result passes validation. *)
LEMMA ValidCorrelation ==
    ASSUME Accepted, EndpointsInv, NEW p \in Producers
    PROVE  ValidMembers(CorrelationOf(p)) /\ ValidState(CorrelationOf(p))
<1> DEFINE c == CorrelationOf(p)
           C == Candidates(p)
           M == {p} \cup C
<1>1. /\ p \in ToSet(endpoints) /\ C \subseteq Consumers
      /\ Consumers \subseteq ToSet(endpoints)
      /\ IsFiniteSet(C) /\ IsFiniteSet(M)
      /\ Cardinality(Ids(C)) > 1 <=> Cardinality(C) > 1
      /\ Ids(C) = {} <=> C = {}
  BY ProducerKnown
<1>2. /\ c.producer = p.id /\ c.contract = p.contract
      /\ c.consumers = IF p.eligible THEN Ids(C) ELSE {}
  BY CorrelationSays
<1>3. /\ \A e \in ToSet(endpoints) : e.id # NoEndpoint /\ EndpointOf(e.id) = e
      /\ \A e, d \in ToSet(endpoints) : e.id = d.id => e = d
  BY EndpointsKnown
<1>4. \A id \in c.consumers : \E d \in C : id = d.id
  <2>1. \A id \in Ids(C) : \E d \in C : id = d.id
    BY DEF Ids
  <2> QED
    BY <1>2, <2>1
<1>5. ValidMembers(c)
  <2>1. ASSUME NEW id \in c.consumers
        PROVE  EndpointOf(id).role = "consumer"
               /\ ContractsCompatible(c.contract, EndpointOf(id).contract)
    <3>1. PICK d \in C : id = d.id
      BY <1>4
    <3>2. EndpointOf(id) = d /\ d \in Consumers
      BY <1>1, <1>3, <3>1
    <3> QED
      BY <1>2, <3>2, CandidatesKnown DEF Consumers
  <2>2. EndpointOf(c.producer) = p
    BY <1>1, <1>2, <1>3
  <2> QED
    BY <2>1, <2>2 DEF ValidMembers, Producers
<1>6. p.eligible => Members(c) = M
  <2> SUFFICES ASSUME p.eligible PROVE Members(c) = M
    OBVIOUS
  <2>1. \A e \in ToSet(endpoints) : e.id \in Ids(C) <=> e \in C
    BY <1>1, <1>3 DEF Ids
  <2>2. \A e \in ToSet(endpoints) : e.id \in {c.producer} \cup c.consumers <=> e \in M
    BY <1>1, <1>2, <1>3, <2>1
  <2>3. M \subseteq ToSet(endpoints)
    BY <1>1
  <2> QED
    BY <2>2, <2>3, MembersKnown
<1>7. p.eligible => ExactContract(p.contract)
  BY EndpointKnown DEF EndpointsInv, Eligible, Producers
<1> DEFINE realms == {e.realm : e \in M}
<1>8. /\ p.eligible => {e.realm : e \in Members(c)} = realms
      /\ realms \ {None} = ExplicitRealms(M)
  BY <1>6 DEF ExplicitRealms
<1>9. /\ SharedRealm(M) # None => realms = {SharedRealm(M)}
      /\ (Cardinality(realms) = 1 /\ SharedRealm(M) = None) => realms = {None}
  BY <1>1, SharedRealmKnown
<1>10. c.producer # NoEndpoint
  BY <1>1, <1>2, <1>3
<1>11. CASE ~ p.eligible
  <2>1. c.state = "unmatched" /\ c.reason = "unsupported_identity"
    BY <1>11, CorrelationCases DEF Outcome
  <2>2. ValidState(c)
    BY <1>10, <2>1 DEF ValidState
  <2> QED
    BY <1>5, <2>2
<1>12. CASE p.eligible
  <2>1. c.consumers = Ids(C) /\ {e.realm : e \in Members(c)} = realms /\ ExactContract(c.contract)
        /\ ExplicitRealms(M) = realms \ {None}
    BY <1>2, <1>7, <1>8, <1>12
  <2> HIDE DEF realms
  <2>2. ASSUME C = {}, NEW reason \in {"producer_only", "target_mismatch"},
               Outcome(c, p, "unmatched", reason, {}, p.realm)
        PROVE  ValidState(c)
    <3>1. c.state = "unmatched" /\ c.reason \in {"producer_only", "target_mismatch"}
          /\ c.consumers = {}
      BY <2>2 DEF Outcome
    <3> QED
      BY <1>10, <3>1 DEF ValidState
  <2>3. ASSUME C # {}, Cardinality(ExplicitRealms(M)) > 1,
               Outcome(c, p, "unmatched", "realm_mismatch", Ids(C), None)
        PROVE  ValidState(c)
    <3>1. c.state = "unmatched" /\ c.reason = "realm_mismatch"
      BY <2>3 DEF Outcome
    <3>2. c.consumers # {} /\ Cardinality(realms \ {None}) > 1
      BY <1>1, <2>1, <2>3
    <3> QED
      BY <1>10, <2>1, <3>1, <3>2 DEF ValidState
  <2>4. ASSUME Cardinality(C) > 1, SingleConsumer(p.contract), NEW reason,
               reason = IF IsJob(p.contract) THEN "multiple_job_consumers"
                        ELSE "multiple_request_consumers",
               Outcome(c, p, "ambiguous", reason, Ids(C), SharedRealm(M))
        PROVE  ValidState(c)
    <3>1. c.state = "ambiguous" /\ c.reason = reason
      BY <2>4 DEF Outcome
    <3>2. Cardinality(c.consumers) > 1
      BY <1>1, <2>1, <2>4
    <3>3. \/ c.reason = "multiple_job_consumers" /\ IsJob(c.contract)
          \/ /\ c.reason = "multiple_request_consumers"
             /\ ~ IsJob(c.contract) /\ c.contract.form = "request_response"
      BY <1>2, <2>4, <3>1 DEF SingleConsumer
    <3> QED
      BY <3>1, <3>2, <3>3 DEF ValidState
  <2>5. ASSUME C # {}, ~ (Cardinality(C) > 1 /\ SingleConsumer(p.contract)),
               SharedRealm(M) # None,
               Outcome(c, p, "declared_realm_candidate", None, Ids(C), SharedRealm(M))
        PROVE  ValidState(c)
    <3>1. c.state = "declared_realm_candidate" /\ c.realm = SharedRealm(M)
      BY <2>5 DEF Outcome
    <3>2. realms = {c.realm} /\ c.consumers # {}
      BY <1>1, <1>9, <2>1, <2>5, <3>1 DEF realms
    <3>3. Cardinality(c.consumers) > 1 =>
             ~ IsJob(c.contract) /\ c.contract.form # "request_response"
      BY <1>1, <1>2, <2>1, <2>5 DEF SingleConsumer
    <3> QED
      BY <2>1, <3>1, <3>2, <3>3 DEF ValidState
  <2>6. ASSUME C # {}, SharedRealm(M) = None,
               Outcome(c, p, "target_only_candidate", None, Ids(C), None)
        PROVE  ValidState(c)
    <3>1. c.state = "target_only_candidate"
      BY <2>6 DEF Outcome
    <3>2. c.consumers # {} /\ (Cardinality(realms) = 1 => realms = {None})
      BY <1>1, <1>9, <2>1, <2>6 DEF realms
    <3> QED
      BY <2>1, <3>1, <3>2 DEF ValidState
  <2>7. ValidState(c)
    BY <1>12, <2>2, <2>3, <2>4, <2>5, <2>6, CorrelationCases
  <2> QED
    BY <1>5, <2>7
<1> QED
  BY <1>11, <1>12

(* So does what a consumer has alone. *)
LEMMA ValidAlone ==
    ASSUME Accepted, EndpointsInv, NEW d \in Consumers
    PROVE  /\ ValidMembers(Alone(d)) /\ ValidState(Alone(d))
           /\ Alone(d).producer = NoEndpoint /\ Alone(d).consumers = {d.id}
           /\ Alone(d).state = "unmatched" /\ Alone(d).diagnosed
<1>1. /\ d \in ToSet(endpoints) /\ d.role = "consumer"
  BY DEF Consumers
<1>2. EndpointOf(d.id) = d
  BY <1>1, EndpointsKnown
<1>3. /\ Alone(d).producer = NoEndpoint /\ Alone(d).consumers = {d.id}
      /\ Alone(d).state = "unmatched" /\ Alone(d).diagnosed
      /\ Alone(d).reason \in {"consumer_only", "unsupported_identity"}
  BY DEF Alone
<1>4. ValidMembers(Alone(d))
  BY <1>1, <1>2, <1>3 DEF ValidMembers
<1>5. ValidState(Alone(d))
  <2>1. Alone(d).consumers # {}
    BY <1>3
  <2>2. CASE Alone(d).reason = "consumer_only"
    BY <1>3, <2>1, <2>2 DEF ValidState
  <2>3. CASE Alone(d).reason = "unsupported_identity"
    BY <1>3, <2>1, <2>3 DEF ValidState
  <2> QED
    BY <1>3, <2>2, <2>3
<1> QED
  BY <1>3, <1>4, <1>5

-----------------------------------------------------------------------------
(* The part of the inductive invariant that the stitch builds up.           *)

Stitching == {"project", "producers", "consumers"}
Stitched == {"write_analysis", "commit_analysis", "report", "write_report", "commit_report"}

(* The endpoints that a loop has passed. *)
Passed == {endpoints[i] : i \in {i \in 1 .. Len(endpoints) : i < cursor}}

OfferedBy(P) == UNION {Offered(p) : p \in P}

(* The consumers that no producer was offered. *)
Lonely(D) == {d \in D : d.id \notin OfferedBy(Producers)}

(* There is one correlation for each producer of P and each consumer of D, and the
   consumers offered to P are remembered. *)
CorrelationsInv(P, D) ==
    /\ correlations \in Seq(ToSet(correlations)) /\ Distinct(correlations)
    /\ ToSet(correlations) = {CorrelationOf(p) : p \in P} \cup {Alone(d) : d \in D}
    /\ consumed = OfferedBy(P)

(* A record whose endpoint was projected is one that the loop has passed. *)
ProjectedInv ==
    \A e \in ToSet(endpoints) : \E k \in 1 .. Len(Records) :
        k < cursor /\ e.id = <<Records[k].service, Records[k].number>>

StitchInv ==
    /\ input \in Inputs /\ cursor \in Nat \ {0}
    /\ pc = "invalid" => NameUnchecked \/ ContractUnchecked
    /\ pc \in {"topology", "services"} =>
          endpoints = <<>> /\ correlations = <<>> /\ consumed = {} /\ cursor = 1
    /\ pc = "services" => TopologyAccepted(input.topology)
    /\ pc \in Stitching \cup Stitched => Accepted /\ EndpointsInv
    /\ pc = "project" => ProjectedInv /\ correlations = <<>> /\ consumed = {}
    /\ pc = "producers" => CorrelationsInv(Passed \cap Producers, {})
    /\ pc = "consumers" => CorrelationsInv(Producers, Lonely(Passed \cap Consumers))
    /\ pc \in Stitched => CorrelationsInv(Producers, Lonely(Consumers))

(* What is asked of the input does not change while the input stays. *)
LEMMA SameQuestions ==
    ASSUME input' = input
    PROVE  (NameUnchecked' <=> NameUnchecked) /\ (ContractUnchecked' <=> ContractUnchecked)
<1>1. Records' = Records
  BY SameRecords
<1> QED
  BY <1>1 DEF NameUnchecked, ContractUnchecked

(* What the invariant is made of does not change while the endpoints stay. *)
LEMMA SameCorrelations ==
    ASSUME input' = input, endpoints' = endpoints
    PROVE  /\ Accepted' <=> Accepted
           /\ EndpointsInv' <=> EndpointsInv
           /\ Producers' = Producers /\ Consumers' = Consumers
           /\ \A P : OfferedBy(P)' = OfferedBy(P) /\ Lonely(P)' = Lonely(P)
           /\ correlations' = correlations /\ consumed' = consumed =>
                 \A P, D : CorrelationsInv(P, D)' <=> CorrelationsInv(P, D)
<1>1. /\ Accepted' <=> Accepted
      /\ EndpointsInv' <=> EndpointsInv
      /\ Producers' = Producers /\ Consumers' = Consumers
      /\ \A p : CorrelationOf(p)' = CorrelationOf(p) /\ Offered(p)' = Offered(p)
  BY SameRecords, SameEndpoints
<1>2. \A P : OfferedBy(P)' = OfferedBy(P)
  BY <1>1 DEF OfferedBy
<1>3. \A P : Lonely(P)' = Lonely(P)
  BY <1>1, <1>2 DEF Lonely
<1>4. ASSUME correlations' = correlations, consumed' = consumed
      PROVE  \A P, D : CorrelationsInv(P, D)' <=> CorrelationsInv(P, D)
  <2>1. \A P : {CorrelationOf(p) : p \in P}' = {CorrelationOf(p) : p \in P}
    BY <1>1
  <2>2. \A D : {Alone(d) : d \in D}' = {Alone(d) : d \in D}
    OBVIOUS
  <2> QED
    BY <1>2, <1>4, <2>1, <2>2 DEF CorrelationsInv
<1> QED
  BY <1>1, <1>2, <1>3, <1>4

(* Before the first turn nothing is passed, behind the last everything, and a turn
   passes one endpoint, which was not passed before. *)
LEMMA PassedKnown ==
    ASSUME Accepted, EndpointsInv, cursor \in Nat \ {0}
    PROVE  /\ cursor = 1 => Passed = {}
           /\ cursor > Len(endpoints) => Passed = ToSet(endpoints)
           /\ Passed \subseteq ToSet(endpoints)
           /\ cursor <= Len(endpoints) /\ cursor' = cursor + 1 /\ endpoints' = endpoints =>
                 /\ Passed' = Passed \cup {endpoints[cursor]}
                 /\ endpoints[cursor] \in ToSet(endpoints) \ Passed
<1>1. /\ Len(endpoints) \in Nat
      /\ ToSet(endpoints) = {endpoints[i] : i \in 1 .. Len(endpoints)}
  BY EndpointsKnown
<1>2. cursor = 1 => Passed = {}
  BY <1>1 DEF Passed
<1>3. cursor > Len(endpoints) => Passed = ToSet(endpoints)
  <2>1. ASSUME cursor > Len(endpoints)
        PROVE  {i \in 1 .. Len(endpoints) : i < cursor} = 1 .. Len(endpoints)
    BY <1>1, <2>1
  <2> QED
    BY <1>1, <2>1 DEF Passed
<1>4. Passed \subseteq ToSet(endpoints)
  BY <1>1 DEF Passed
<1>5. ASSUME cursor <= Len(endpoints), cursor' = cursor + 1, endpoints' = endpoints
      PROVE  /\ Passed' = Passed \cup {endpoints[cursor]}
             /\ endpoints[cursor] \in ToSet(endpoints) \ Passed
  <2>1. {i \in 1 .. Len(endpoints) : i < cursor + 1} =
           {i \in 1 .. Len(endpoints) : i < cursor} \cup {cursor}
    BY <1>1, <1>5
  <2>2. Passed' = Passed \cup {endpoints[cursor]}
    BY <1>5, <2>1 DEF Passed
  <2>3. endpoints[cursor] \in ToSet(endpoints)
    BY <1>1, <1>5
  <2>4. ASSUME NEW i \in 1 .. Len(endpoints), i < cursor, endpoints[i] = endpoints[cursor]
        PROVE  FALSE
    BY <1>1, <1>5, <2>4 DEF EndpointsInv
  <2> QED
    BY <2>2, <2>3, <2>4 DEF Passed
<1> QED
  BY <1>2, <1>3, <1>4, <1>5

(* Correlations tell their producers apart. *)
LEMMA DifferentCorrelations ==
    ASSUME Accepted, EndpointsInv
    PROVE  /\ \A p, q \in Producers : CorrelationOf(p) = CorrelationOf(q) => p = q
           /\ \A c, d \in Consumers : Alone(c) = Alone(d) => c = d
           /\ \A p \in Producers : \A d \in Consumers : CorrelationOf(p) # Alone(d)
<1>1. /\ Producers \subseteq ToSet(endpoints) /\ Consumers \subseteq ToSet(endpoints)
      /\ \A e \in ToSet(endpoints) : e.id # NoEndpoint
      /\ \A e, d \in ToSet(endpoints) : e.id = d.id => e = d
  BY EndpointsKnown
<1>2. \A p \in Producers : CorrelationOf(p).producer = p.id /\ p.id # NoEndpoint
  BY <1>1, CorrelationSays
<1>3. \A d \in Consumers : Alone(d).producer = NoEndpoint /\ Alone(d).consumers = {d.id}
  BY ValidAlone
<1>4. \A p, q \in Producers : CorrelationOf(p) = CorrelationOf(q) => p = q
  BY <1>1, <1>2
<1>5. \A c, d \in Consumers : Alone(c) = Alone(d) => c = d
  <2>1. \A c, d \in Consumers : Alone(c) = Alone(d) => {c.id} = {d.id}
    BY <1>3
  <2>2. \A c, d \in Consumers : {c.id} = {d.id} => c = d
    BY <1>1
  <2> QED
    BY <2>1, <2>2
<1>6. \A p \in Producers : \A d \in Consumers : CorrelationOf(p) # Alone(d)
  BY <1>2, <1>3
<1> QED
  BY <1>4, <1>5, <1>6


(* The input is looked through before anything is projected. *)
LEMMA ReadingStep ==
    ASSUME StitchInv, LoadTopology \/ MakeServices
    PROVE  StitchInv'
<1>1. /\ input' = input /\ endpoints' = endpoints /\ cursor' = cursor
      /\ correlations' = correlations /\ consumed' = consumed
      /\ input \in Inputs /\ endpoints = <<>> /\ correlations = <<>> /\ consumed = {} /\ cursor = 1
  BY DEF LoadTopology, MakeServices, Phase, StitchInv
<1>2. CASE LoadTopology
  <2>1. pc' \in {"services", "refused"} /\ (pc' = "services" => TopologyAccepted(input.topology))
    BY <1>2 DEF LoadTopology, Phase
  <2> QED
    BY <1>1, <2>1 DEF StitchInv, Stitching, Stitched
<1>3. CASE MakeServices
  <2>1. pc' \in {"project", "refused"} /\ (pc' = "project" => Accepted)
    BY <1>1, <1>3 DEF MakeServices, Phase, StitchInv, Accepted
  <2>2. ToSet(endpoints) = {} /\ Len(endpoints) = 0 /\ endpoints \in Seq(EndpointRecord)
    <3>1. DOMAIN endpoints = {} /\ Len(endpoints) = 0
      BY <1>1
    <3>2. ToSet(endpoints) = {}
      BY <3>1 DEF ToSet
    <3> QED
      BY <1>1, <3>1, <3>2
  <2>3. EndpointsInv
    BY <2>2 DEF EndpointsInv
  <2>4. ProjectedInv'
    BY <1>1, <2>2 DEF ProjectedInv
  <2> QED
    BY <1>1, <2>1, <2>3, <2>4, SameCorrelations DEF StitchInv, Stitching, Stitched
<1> QED
  BY <1>2, <1>3

(* A record that was passed over is one that the loop has passed. *)
LEMMA SkipStep ==
    ASSUME StitchInv, SkipRecord
    PROVE  StitchInv'
<1>1. /\ pc = "project" /\ pc' = pc /\ cursor' = cursor + 1 /\ input' = input
      /\ endpoints' = endpoints /\ correlations' = correlations /\ consumed' = consumed
  BY DEF SkipRecord
<1>2. /\ Accepted /\ EndpointsInv /\ ProjectedInv /\ cursor \in Nat \ {0} /\ input \in Inputs
      /\ correlations = <<>> /\ consumed = {}
  BY <1>1 DEF StitchInv, Stitching
<1>3. ProjectedInv'
  <2>1. Records' = Records /\ Len(Records) \in Nat
    BY <1>1, <1>2, SameRecords, RecordsKnown
  <2>2. \A k \in 1 .. Len(Records) : k < cursor => k < cursor'
    BY <1>1, <1>2, <2>1
  <2> QED
    BY <1>1, <1>2, <2>1, <2>2 DEF ProjectedInv
<1> QED
  BY <1>1, <1>2, <1>3, SameCorrelations DEF StitchInv, Stitching, Stitched

(* A projected endpoint has an id of its own, since its record has a number of its
   own. *)
LEMMA ProjectStep ==
    ASSUME StitchInv, ProjectEndpoint
    PROVE  StitchInv'
<1> DEFINE r == Records[cursor]
           e == Endpoint(r)
<1>1. /\ pc = "project" /\ input' = input /\ cursor <= Len(Records)
      /\ r.source.contract.kind \in Correlated
      /\ correlations' = correlations /\ consumed' = consumed
      /\ \/ pc' = "refused" /\ cursor' = cursor
         \/ /\ ~ Refused(r) /\ endpoints' = Append(endpoints, e)
            /\ cursor' = cursor + 1 /\ pc' = pc
  BY DEF ProjectEndpoint
<1>2. /\ Accepted /\ EndpointsInv /\ ProjectedInv /\ cursor \in Nat \ {0} /\ input \in Inputs
      /\ correlations = <<>> /\ consumed = {}
  BY <1>1 DEF StitchInv, Stitching
<1>3. CASE pc' = "refused" /\ cursor' = cursor
  BY <1>1, <1>2, <1>3 DEF StitchInv, Stitching, Stitched
<1>4. CASE /\ ~ Refused(r) /\ endpoints' = Append(endpoints, e)
           /\ cursor' = cursor + 1 /\ pc' = pc
  <2>1. /\ Len(Records) \in Nat /\ Records' = Records
        /\ ToSet(Records) = {Records[k] : k \in 1 .. Len(Records)}
        /\ cursor \in 1 .. Len(Records)
    BY <1>1, <1>2, SameRecords, RecordsKnown
  <2>2. r \in ToSet(Records) /\ Taken(r)
    BY <1>1, <1>4, <2>1 DEF Taken
  <2> HIDE DEF r, e
  <2>3. e \in EndpointRecord /\ e.id = <<r.service, r.number>>
    BY <1>2, <2>2, EndpointKnown DEF e
  <2>4. \A d \in ToSet(endpoints) : d.id # e.id
    <3> SUFFICES ASSUME NEW d \in ToSet(endpoints), d.id = e.id PROVE FALSE
      OBVIOUS
    <3>1. PICK k \in 1 .. Len(Records) :
             k < cursor /\ d.id = <<Records[k].service, Records[k].number>>
      BY <1>2 DEF ProjectedInv
    <3>2. Records[k].service = r.service /\ Records[k].number = r.number
      BY <2>3, <3>1
    <3>3. k = cursor
      BY <1>2, <2>1, <3>2, RecordsKnown DEF r
    <3> QED
      BY <1>2, <3>1, <3>3
  <2>5. /\ ToSet(endpoints') = ToSet(endpoints) \cup {e}
        /\ endpoints' \in Seq(ToSet(endpoints) \cup {e})
        /\ endpoints \in Seq(EndpointRecord)
        /\ Len(endpoints) \in Nat /\ Len(endpoints') = Len(endpoints) + 1
        /\ \A i \in 1 .. Len(endpoints) : endpoints'[i] = endpoints[i]
                                          /\ endpoints[i] \in ToSet(endpoints)
        /\ endpoints'[Len(endpoints) + 1] = e
    <3>1. endpoints \in Seq(EndpointRecord)
      BY <1>2 DEF EndpointsInv
    <3>2. /\ ToSet(endpoints') = ToSet(endpoints) \cup {e}
          /\ endpoints' \in Seq(ToSet(endpoints) \cup {e})
      BY <1>4, <3>1, AppendEntries
    <3>3. /\ Len(endpoints) \in Nat
          /\ ToSet(endpoints) = {endpoints[i] : i \in 1 .. Len(endpoints)}
      BY <3>1, EntriesOf
    <3>4. endpoints \in Seq(ToSet(endpoints) \cup {e})
      <4>1. endpoints \in Seq(ToSet(endpoints))
        BY <3>1, EntriesOf
      <4> QED
        BY <4>1, SeqDef
    <3>5. /\ Len(endpoints') = Len(endpoints) + 1
          /\ \A i \in 1 .. Len(endpoints) : endpoints'[i] = endpoints[i]
          /\ endpoints'[Len(endpoints) + 1] = e
      BY <1>4, <3>3, <3>4, AppendProperties
    <3> QED
      BY <3>1, <3>2, <3>3, <3>5
  <2>6. endpoints' \in Seq(EndpointRecord)
    <3>1. ToSet(endpoints) \cup {e} \subseteq EndpointRecord
      BY <2>3, <2>5, EntriesOf
    <3> QED
      BY <2>5, <3>1, SeqDef
  <2>7. ASSUME NEW i \in 1 .. Len(endpoints'), NEW j \in 1 .. Len(endpoints'),
               endpoints'[i].id = endpoints'[j].id
        PROVE  i = j
    <3>1. CASE i <= Len(endpoints) /\ j <= Len(endpoints)
      BY <1>2, <2>5, <2>7, <3>1 DEF EndpointsInv
    <3>2. CASE i = Len(endpoints) + 1 /\ j <= Len(endpoints)
      BY <2>4, <2>5, <2>7, <3>2
    <3>3. CASE i <= Len(endpoints) /\ j = Len(endpoints) + 1
      BY <2>4, <2>5, <2>7, <3>3
    <3>4. CASE i = Len(endpoints) + 1 /\ j = Len(endpoints) + 1
      BY <3>4
    <3> QED
      BY <2>5, <3>1, <3>2, <3>3, <3>4
  <2>8. ASSUME NEW d \in ToSet(endpoints')
        PROVE  \E q \in ToSet(Records') : Taken(q)' /\ d = Endpoint(q)'
    <3>1. \E q \in ToSet(Records) : Taken(q) /\ d = Endpoint(q)
      BY <1>2, <2>2, <2>5, <2>8 DEF EndpointsInv, e
    <3> QED
      BY <1>1, <2>1, <3>1, SameRecords
  <2>9. EndpointsInv'
    BY <2>6, <2>7, <2>8 DEF EndpointsInv
  <2>10. ASSUME NEW d \in ToSet(endpoints')
         PROVE  \E k \in 1 .. Len(Records') :
                   k < cursor' /\ d.id = <<Records'[k].service, Records'[k].number>>
    <3>1. CASE d = e
      <4>1. cursor < cursor' /\ d.id = <<Records'[cursor].service, Records'[cursor].number>>
        BY <1>2, <1>4, <2>1, <2>3, <3>1 DEF r
      <4> QED
        BY <2>1, <4>1
    <3>2. CASE d \in ToSet(endpoints)
      <4>1. PICK k \in 1 .. Len(Records) :
               k < cursor /\ d.id = <<Records[k].service, Records[k].number>>
        BY <1>2, <3>2 DEF ProjectedInv
      <4>2. k < cursor'
        BY <1>2, <1>4, <2>1, <4>1
      <4> QED
        BY <2>1, <4>1, <4>2
    <3> QED
      BY <2>5, <2>10, <3>1, <3>2
  <2>11. ProjectedInv'
    BY <2>10 DEF ProjectedInv
  <2>12. Accepted' /\ input' \in Inputs /\ cursor' \in Nat \ {0} /\ pc' = "project"
         /\ correlations' = <<>> /\ consumed' = {}
    BY <1>1, <1>2, <1>4, SameRecords
  <2> QED
    BY <2>9, <2>11, <2>12 DEF StitchInv, Stitching, Stitched
<1> QED
  BY <1>1, <1>3, <1>4


(* The correlations begin with none, and nobody was passed. *)
LEMMA EndProjectionStep ==
    ASSUME StitchInv, EndProjection
    PROVE  StitchInv'
<1>1. /\ pc = "project" /\ pc' \in {"producers", "refused"} /\ input' = input /\ cursor' = 1
      /\ endpoints' = endpoints /\ correlations' = correlations /\ consumed' = consumed
  BY DEF EndProjection, Phase
<1>2. /\ Accepted /\ EndpointsInv /\ input \in Inputs /\ correlations = <<>> /\ consumed = {}
  BY <1>1 DEF StitchInv, Stitching
<1>3. CASE pc' = "producers"
  <2>1. Accepted' /\ EndpointsInv' /\ cursor' \in Nat \ {0}
    BY <1>1, <1>2, SameCorrelations
  <2>2. Passed' = {}
    BY <1>1 DEF Passed
  <2>3. /\ correlations' \in Seq(ToSet(correlations')) /\ Distinct(correlations')
        /\ ToSet(correlations') = {}
    <3>1. correlations' = <<>> /\ Len(correlations') = 0 /\ DOMAIN correlations' = {}
      BY <1>1, <1>2
    <3> QED
      BY <3>1 DEF ToSet, Distinct
  <2>4. OfferedBy({})' = {}
    BY DEF OfferedBy
  <2>5. CorrelationsInv({}, {})'
    BY <1>1, <1>2, <2>3, <2>4 DEF CorrelationsInv
  <2>6. (Passed \cap Producers)' = {}
    BY <2>2
  <2>7. CorrelationsInv(Passed \cap Producers, {})'
    BY <2>5, <2>6
  <2> QED
    BY <1>1, <1>2, <1>3, <2>1, <2>7 DEF StitchInv, Stitching, Stitched
<1>4. CASE pc' = "refused"
  BY <1>1, <1>2, <1>4 DEF StitchInv, Stitching, Stitched
<1> QED
  BY <1>1, <1>3, <1>4

(* A turn of the loop over the producers adds the correlation of the producer it
   passes, if it is one. *)
LEMMA ProducerStep ==
    ASSUME StitchInv, CorrelateProducer
    PROVE  StitchInv'
<1> DEFINE e == endpoints[cursor]
<1>1. /\ pc = "producers" /\ pc' = pc /\ input' = input /\ cursor' = cursor + 1
      /\ endpoints' = endpoints /\ cursor <= Len(endpoints)
      /\ IF e.role = "producer"
         THEN correlations' = Append(correlations, CorrelationOf(e))
              /\ consumed' = consumed \cup Offered(e)
         ELSE correlations' = correlations /\ consumed' = consumed
  BY DEF CorrelateProducer
<1>2. /\ Accepted /\ EndpointsInv /\ input \in Inputs /\ cursor \in Nat \ {0}
      /\ CorrelationsInv(Passed \cap Producers, {})
  BY <1>1 DEF StitchInv, Stitching
<1>3. /\ Passed' = Passed \cup {e} /\ e \in ToSet(endpoints) \ Passed
  BY <1>1, <1>2, PassedKnown
<1>4. Producers' = Producers /\ Accepted' /\ EndpointsInv' /\ cursor' \in Nat \ {0}
  BY <1>1, <1>2, SameCorrelations
<1> HIDE DEF e
<1>5. CASE e.role # "producer"
  <2>1. (Passed \cap Producers)' = Passed \cap Producers
    BY <1>3, <1>4, <1>5 DEF Producers
  <2>2. CorrelationsInv(Passed \cap Producers, {})'
    BY <1>1, <1>2, <1>5, <2>1, SameCorrelations
  <2> QED
    BY <1>1, <1>2, <1>4, <2>2 DEF StitchInv, Stitching, Stitched
<1>6. CASE e.role = "producer"
  <2> DEFINE P == Passed \cap Producers
             c == CorrelationOf(e)
  <2>1. e \in Producers /\ e \notin P /\ P \subseteq Producers
    BY <1>3, <1>6 DEF Producers
  <2>2. (Passed \cap Producers)' = P \cup {e}
    BY <1>3, <1>4, <2>1
  <2> HIDE DEF P
  <2>3. /\ correlations \in Seq(ToSet(correlations)) /\ Distinct(correlations)
        /\ ToSet(correlations) = {CorrelationOf(p) : p \in P} /\ consumed = OfferedBy(P)
    BY <1>2 DEF CorrelationsInv, P
  <2>4. \A p \in P : CorrelationOf(p) # c
    BY <1>2, <2>1, DifferentCorrelations
  <2>5. c \notin ToSet(correlations)
    BY <2>3, <2>4
  <2>6. correlations' = Append(correlations, c) /\ consumed' = consumed \cup Offered(e)
    BY <1>1, <1>6
  <2> HIDE DEF c
  <2>7. /\ ToSet(correlations') = ToSet(correlations) \cup {c} /\ Distinct(correlations')
        /\ correlations' \in Seq(ToSet(correlations'))
    BY <2>3, <2>5, <2>6, AppendEntries
  <2>8. ToSet(correlations') = {CorrelationOf(p) : p \in P \cup {e}}
    BY <2>3, <2>7 DEF c
  <2>9. OfferedBy(P \cup {e}) = OfferedBy(P) \cup Offered(e)
    BY DEF OfferedBy
  <2>10. \A p : CorrelationOf(p)' = CorrelationOf(p)
    BY <1>1, SameEndpoints
  <2>11. {CorrelationOf(p) : p \in P \cup {e}} = {CorrelationOf(p)' : p \in P \cup {e}}
    BY <2>10
  <2>12. OfferedBy(P \cup {e}) = OfferedBy((Passed \cap Producers))'
    <3>1. \A Q : OfferedBy(Q)' = OfferedBy(Q)
      BY <1>1, SameCorrelations
    <3> QED
      BY <2>2, <3>1
  <2>13. CorrelationsInv(Passed \cap Producers, {})'
    BY <2>2, <2>3, <2>6, <2>7, <2>8, <2>9, <2>11, <2>12 DEF CorrelationsInv
  <2> QED
    BY <1>1, <1>2, <1>4, <2>13 DEF StitchInv, Stitching, Stitched
<1> QED
  BY <1>5, <1>6

(* The loop over the consumers begins when every producer is passed, and no consumer. *)
LEMMA EndProducersStep ==
    ASSUME StitchInv, EndProducers
    PROVE  StitchInv'
<1>1. /\ pc = "producers" /\ pc' = "consumers" /\ input' = input /\ cursor' = 1
      /\ endpoints' = endpoints /\ cursor > Len(endpoints)
      /\ correlations' = correlations /\ consumed' = consumed
  BY DEF EndProducers, Phase
<1>2. /\ Accepted /\ EndpointsInv /\ input \in Inputs /\ cursor \in Nat \ {0}
      /\ CorrelationsInv(Passed \cap Producers, {})
  BY <1>1 DEF StitchInv, Stitching
<1>3. Passed \cap Producers = Producers
  <2>1. Passed = ToSet(endpoints)
    BY <1>1, <1>2, PassedKnown
  <2> QED
    BY <2>1 DEF Producers
<1>4. Passed' = {}
  BY <1>1 DEF Passed
<1>5. Producers' = Producers /\ Accepted' /\ EndpointsInv' /\ cursor' \in Nat \ {0}
  BY <1>1, <1>2, SameCorrelations
<1>6. Lonely(Passed \cap Consumers)' = {}
  BY <1>4 DEF Lonely
<1>7. CorrelationsInv(Producers, {})'
  BY <1>1, <1>2, <1>3, <1>5, SameCorrelations
<1>8. CorrelationsInv(Producers, Lonely(Passed \cap Consumers))'
  BY <1>6, <1>7
<1> QED
  BY <1>1, <1>2, <1>5, <1>8 DEF StitchInv, Stitching, Stitched

(* A turn of the loop over the consumers adds a consumer that nobody was offered. *)
LEMMA ConsumerStep ==
    ASSUME StitchInv, CorrelateConsumer
    PROVE  StitchInv'
<1> DEFINE e == endpoints[cursor]
           D == Lonely(Passed \cap Consumers)
<1>1. /\ pc = "consumers" /\ pc' = pc /\ input' = input /\ cursor' = cursor + 1
      /\ endpoints' = endpoints /\ cursor <= Len(endpoints) /\ consumed' = consumed
      /\ correlations' = IF e.role = "consumer" /\ e.id \notin consumed
                         THEN Append(correlations, Alone(e)) ELSE correlations
  BY DEF CorrelateConsumer
<1>2. /\ Accepted /\ EndpointsInv /\ input \in Inputs /\ cursor \in Nat \ {0}
      /\ CorrelationsInv(Producers, D)
  BY <1>1 DEF StitchInv, Stitching
<1>3. /\ Passed' = Passed \cup {e} /\ e \in ToSet(endpoints) \ Passed
  BY <1>1, <1>2, PassedKnown
<1>4. /\ Producers' = Producers /\ Consumers' = Consumers /\ Accepted' /\ EndpointsInv'
      /\ cursor' \in Nat \ {0} /\ \A P : Lonely(P)' = Lonely(P)
  BY <1>1, <1>2, SameCorrelations
<1> HIDE DEF e
<1>5. /\ correlations \in Seq(ToSet(correlations)) /\ Distinct(correlations)
      /\ ToSet(correlations) = {CorrelationOf(p) : p \in Producers} \cup {Alone(d) : d \in D}
      /\ consumed = OfferedBy(Producers)
  BY <1>2 DEF CorrelationsInv
<1>6. Lonely(Passed \cap Consumers)' = Lonely((Passed \cup {e}) \cap Consumers)
  <2>1. (Passed \cap Consumers)' = (Passed \cup {e}) \cap Consumers
    BY <1>3, <1>4
  <2> QED
    BY <1>4, <2>1
<1>7. CASE ~ (e.role = "consumer" /\ e.id \notin consumed)
  <2>1. Lonely((Passed \cup {e}) \cap Consumers) = D
    BY <1>5, <1>7 DEF Lonely, Consumers
  <2>2. CorrelationsInv(Producers, Lonely(Passed \cap Consumers))'
    BY <1>1, <1>2, <1>4, <1>6, <1>7, <2>1, SameCorrelations
  <2> QED
    BY <1>1, <1>2, <1>4, <2>2 DEF StitchInv, Stitching, Stitched
<1>8. CASE e.role = "consumer" /\ e.id \notin consumed
  <2> DEFINE c == Alone(e)
  <2>1. e \in Consumers /\ e \notin D /\ D \subseteq Consumers
    BY <1>3, <1>8 DEF Consumers, Lonely
  <2>2. Lonely((Passed \cup {e}) \cap Consumers) = D \cup {e}
    BY <1>5, <1>8, <2>1 DEF Lonely
  <2> HIDE DEF D
  <2>3. \A p \in Producers : CorrelationOf(p) # c
    BY <1>2, <2>1, DifferentCorrelations
  <2>4. \A d \in D : Alone(d) # c
    BY <1>2, <2>1, DifferentCorrelations
  <2>5. c \notin ToSet(correlations)
    BY <1>5, <2>3, <2>4
  <2>6. correlations' = Append(correlations, c)
    BY <1>1, <1>8
  <2> HIDE DEF c
  <2>7. /\ ToSet(correlations') = ToSet(correlations) \cup {c} /\ Distinct(correlations')
        /\ correlations' \in Seq(ToSet(correlations'))
    BY <1>5, <2>5, <2>6, AppendEntries
  <2>8. ToSet(correlations') =
           {CorrelationOf(p) : p \in Producers} \cup {Alone(d) : d \in D \cup {e}}
    BY <1>5, <2>7 DEF c
  <2>9. \A p : CorrelationOf(p)' = CorrelationOf(p)
    BY <1>1, SameEndpoints
  <2>10. {CorrelationOf(p) : p \in Producers} = {CorrelationOf(p)' : p \in Producers'}
    BY <1>4, <2>9
  <2>11. consumed' = OfferedBy(Producers)'
    <3>1. \A Q : OfferedBy(Q)' = OfferedBy(Q)
      BY <1>1, SameCorrelations
    <3> QED
      BY <1>1, <1>4, <1>5, <3>1
  <2>12. Lonely(Passed \cap Consumers)' = D \cup {e}
    BY <1>6, <2>2
  <2>13. CorrelationsInv(Producers, Lonely(Passed \cap Consumers))'
    BY <2>7, <2>8, <2>10, <2>11, <2>12 DEF CorrelationsInv
  <2> QED
    BY <1>1, <1>2, <1>4, <2>13 DEF StitchInv, Stitching, Stitched
<1> QED
  BY <1>7, <1>8

(* What was stitched passes validation, but for what nothing has asked of the input. *)
LEMMA StitchedIsValid ==
    ASSUME Accepted, EndpointsInv, CorrelationsInv(Producers, Lonely(Consumers)),
           ~ NameUnchecked, ~ ContractUnchecked
    PROVE  ValidSystem
<1>1. IsInjective([i \in DOMAIN endpoints |-> endpoints[i].id])
  <2>1. DOMAIN endpoints = 1 .. Len(endpoints)
    BY EntriesOf DEF EndpointsInv
  <2> QED
    BY <2>1 DEF EndpointsInv, IsInjective
<1>2. IsInjective(correlations)
  <2>1. DOMAIN correlations = 1 .. Len(correlations)
    BY EntriesOf DEF CorrelationsInv
  <2> QED
    BY <2>1 DEF CorrelationsInv, IsInjective, Distinct
<1>3. ASSUME NEW c \in ToSet(correlations)
      PROVE  /\ ValidMembers(c) /\ ValidState(c)
             /\ c.state # "declared_realm_candidate" => c.diagnosed
  <2>1. CASE \E p \in Producers : c = CorrelationOf(p)
    BY <2>1, ValidCorrelation, CorrelationSays
  <2>2. CASE \E d \in Lonely(Consumers) : c = Alone(d)
    BY <2>2, ValidAlone DEF Lonely
  <2> QED
    BY <2>1, <2>2 DEF CorrelationsInv
<1>4. SystemName \in Identifiers
  BY InputParts DEF Accepted, TopologyAccepted, NameAccepted, NameUnchecked, SystemName
<1> QED
  BY <1>1, <1>2, <1>3, <1>4, EndpointsValid DEF ValidSystem

(* The system document is rejected by its own validation only if the input is one that
   nothing has asked. *)
LEMMA EndConsumersStep ==
    ASSUME StitchInv, EndConsumers
    PROVE  StitchInv'
<1>1. /\ pc = "consumers" /\ input' = input /\ cursor' = 1
      /\ endpoints' = endpoints /\ cursor > Len(endpoints)
      /\ correlations' = correlations /\ consumed' = consumed
      /\ pc' = IF ValidSystem THEN "write_analysis" ELSE "invalid"
  BY DEF EndConsumers, Phase
<1>2. /\ Accepted /\ EndpointsInv /\ input \in Inputs /\ cursor \in Nat \ {0}
      /\ CorrelationsInv(Producers, Lonely(Passed \cap Consumers))
  BY <1>1 DEF StitchInv, Stitching
<1>3. Passed \cap Consumers = Consumers
  <2>1. Passed = ToSet(endpoints)
    BY <1>1, <1>2, PassedKnown
  <2> QED
    BY <2>1 DEF Consumers
<1>4. CorrelationsInv(Producers, Lonely(Consumers))
  BY <1>2, <1>3
<1>5. CorrelationsInv(Producers, Lonely(Consumers))'
  BY <1>1, <1>4, SameCorrelations
<1>6. CASE pc' = "write_analysis"
  BY <1>1, <1>2, <1>5, <1>6, SameCorrelations DEF StitchInv, Stitching, Stitched
<1>7. CASE pc' = "invalid"
  <2>1. NameUnchecked \/ ContractUnchecked
    BY <1>1, <1>2, <1>4, <1>7, StitchedIsValid
  <2>2. NameUnchecked' \/ ContractUnchecked'
    BY <1>1, <2>1, SameQuestions
  <2> QED
    BY <1>1, <1>2, <1>7, <2>2 DEF StitchInv, Stitching, Stitched
<1> QED
  BY <1>1, <1>6, <1>7

(* Whatever the stitch does keeps the invariant. *)
LEMMA StitchKeeps ==
    ASSUME StitchInv, Stitch
    PROVE  StitchInv'
  BY ReadingStep, SkipStep, ProjectStep, EndProjectionStep, ProducerStep, EndProducersStep,
     ConsumerStep, EndConsumersStep DEF Stitch

-----------------------------------------------------------------------------
(* What a declared candidate is.                                            *)

(* Everybody in it is bound to its realm, and a shape that one consumer answers has
   one. *)
LEMMA DeclaredCorrelation ==
    ASSUME Accepted, EndpointsInv, NEW p \in Producers,
           CorrelationOf(p).state = "declared_realm_candidate"
    PROVE  LET c == CorrelationOf(p)
           IN  /\ p.eligible /\ Candidates(p) # {} /\ c.realm # None
               /\ c.producer = p.id /\ c.consumers = Ids(Candidates(p))
               /\ \A e \in {p} \cup Candidates(p) : e.realm = c.realm
               /\ ~ (Cardinality(Candidates(p)) > 1 /\ SingleConsumer(p.contract))
<1> DEFINE c == CorrelationOf(p)
           M == {p} \cup Candidates(p)
<1>1. /\ p.eligible /\ Candidates(p) # {} /\ SharedRealm(M) # None
      /\ ~ (Cardinality(Candidates(p)) > 1 /\ SingleConsumer(p.contract))
      /\ Outcome(c, p, "declared_realm_candidate", None, Ids(Candidates(p)), SharedRealm(M))
  BY CorrelationCases DEF Outcome
<1>2. c.producer = p.id /\ c.consumers = Ids(Candidates(p)) /\ c.realm = SharedRealm(M)
  BY <1>1 DEF Outcome
<1>3. {e.realm : e \in M} = {SharedRealm(M)}
  BY <1>1, ProducerKnown, SharedRealmKnown
<1>4. \A e \in M : e.realm = SharedRealm(M)
  BY <1>3
<1> QED
  BY <1>1, <1>2, <1>4

-----------------------------------------------------------------------------
(* The two publications.                                                   *)

AnalysisSet == {"system-analysis.md", "system-analysis.json"}
ReportSet == {"system-report.json", "system-report.md", "api-intel-system-graph.html"}

Placed(files) == {files[i] : i \in {i \in DOMAIN files : i < cursor}}

BeforeTheBatches ==
    {"topology", "services", "project", "producers", "consumers", "write_analysis",
     "refused", "invalid"}

WithReport == {"report", "write_report", "commit_report"}

Stopped == {"success", "failed", "canceled"}

Phases == BeforeTheBatches \cup WithReport \cup Stopped \cup {"commit_analysis"}

(* What is on disk tells how far the two batches have come: nothing before the
   first, the files of a batch that were placed while it goes on, and everything
   of the first batch from its end on. *)
BatchesInv ==
    /\ pc \in Phases
    /\ pc \in {"commit_analysis", "commit_report"} => cursor \in Nat \ {0}
    /\ pc \in BeforeTheBatches => disk = {}
    /\ pc = "commit_analysis" => disk = Placed(AnalysisFiles)
    /\ pc \in WithReport => input.graph
    /\ pc \in {"report", "write_report"} => disk = AnalysisSet
    /\ pc = "commit_report" => disk = AnalysisSet \cup Placed(ReportFiles)
    /\ pc = "success" => disk = AnalysisSet \cup (IF input.graph THEN ReportSet ELSE {})
    /\ disk \cap ReportSet # {} => AnalysisSet \subseteq disk

(* The files of the batches, and what is placed of them when they begin and end. *)
LEMMA Files ==
    /\ Len(AnalysisFiles) = 2 /\ DOMAIN AnalysisFiles = {1, 2}
    /\ AnalysisFiles[1] = "system-analysis.md" /\ AnalysisFiles[2] = "system-analysis.json"
    /\ Len(ReportFiles) = 3 /\ DOMAIN ReportFiles = {1, 2, 3}
    /\ ReportFiles[1] = "system-report.json" /\ ReportFiles[2] = "system-report.md"
    /\ ReportFiles[3] = "api-intel-system-graph.html"
    /\ ToSet(AnalysisFiles) = AnalysisSet /\ ToSet(ReportFiles) = ReportSet
    /\ AnalysisSet \cap ReportSet = {}
<1>1. /\ Len(AnalysisFiles) = 2 /\ DOMAIN AnalysisFiles = {1, 2}
      /\ AnalysisFiles[1] = "system-analysis.md" /\ AnalysisFiles[2] = "system-analysis.json"
  BY DEF AnalysisFiles
<1>2. /\ Len(ReportFiles) = 3 /\ DOMAIN ReportFiles = {1, 2, 3}
      /\ ReportFiles[1] = "system-report.json" /\ ReportFiles[2] = "system-report.md"
      /\ ReportFiles[3] = "api-intel-system-graph.html"
  BY DEF ReportFiles
<1>3. AnalysisSet \cap ReportSet = {}
  BY DEF AnalysisSet, ReportSet
<1> QED
  BY <1>1, <1>2, <1>3 DEF ToSet, AnalysisSet, ReportSet

(* Before the first batch nothing is on disk and nothing is put there. *)
LEMMA StitchBatches ==
    ASSUME BatchesInv, StitchStep
    PROVE  BatchesInv'
<1>1. pc \in BeforeTheBatches /\ pc' \in BeforeTheBatches
  BY DEF StitchStep, Stitch, Phase, LoadTopology, MakeServices, SkipRecord, ProjectEndpoint, EndProjection,
         CorrelateProducer, EndProducers, CorrelateConsumer, EndConsumers, BeforeTheBatches
<1>2. disk = {} /\ disk' = {}
  BY <1>1 DEF BatchesInv, StitchStep
<1> QED
  BY <1>1, <1>2 DEF BatchesInv, Phases, BeforeTheBatches, WithReport, Stopped, ReportSet

(* A batch begins with nothing placed. *)
LEMMA BeginBatches ==
    ASSUME BatchesInv, BeginCommit
    PROVE  BatchesInv'
<1>1. cursor' = 1 /\ disk' = disk /\ input' = input
  BY DEF BeginCommit, Unchanged
<1>2. Placed(AnalysisFiles)' = {} /\ Placed(ReportFiles)' = {}
  BY <1>1, Files DEF Placed
<1>3. CASE Phase("write_analysis", "commit_analysis")
  BY <1>1, <1>2, <1>3 DEF BatchesInv, Phase, Phases, BeforeTheBatches, WithReport, Stopped
<1>4. CASE Phase("write_report", "commit_report")
  BY <1>1, <1>2, <1>4 DEF BatchesInv, Phase, Phases, BeforeTheBatches, WithReport, Stopped
<1> QED
  BY <1>3, <1>4 DEF BeginCommit

(* A file is placed behind those before it. *)
LEMMA PlaceBatches ==
    ASSUME BatchesInv, PlaceFile
    PROVE  BatchesInv'
<1>1. /\ pc' = pc /\ input' = input /\ cursor' = cursor + 1 /\ cursor <= Len(Batch)
      /\ disk' = disk \cup {Batch[cursor]}
      /\ pc \in {"commit_analysis", "commit_report"} /\ cursor \in Nat \ {0}
  BY DEF PlaceFile, Unchanged, BatchesInv
<1>2. CASE pc = "commit_analysis"
  <2>1. Batch = AnalysisFiles
    BY <1>2 DEF Batch
  <2>2. cursor \in {1, 2}
    BY <1>1, <2>1, Files
  <2>3. Placed(AnalysisFiles)' = Placed(AnalysisFiles) \cup {Batch[cursor]}
    BY <1>1, <2>1, <2>2, Files DEF Placed
  <2>4. Placed(AnalysisFiles) \subseteq AnalysisSet /\ Batch[cursor] \in AnalysisSet
    BY <2>1, <2>2, Files DEF Placed, AnalysisSet
  <2> QED
    BY <1>1, <1>2, <2>3, <2>4, Files DEF BatchesInv, Phases, BeforeTheBatches, WithReport, Stopped
<1>3. CASE pc = "commit_report"
  <2>1. Batch = ReportFiles
    BY <1>3 DEF Batch
  <2>2. cursor \in {1, 2, 3}
    BY <1>1, <2>1, Files
  <2>3. Placed(ReportFiles)' = Placed(ReportFiles) \cup {Batch[cursor]}
    BY <1>1, <2>1, <2>2, Files DEF Placed
  <2> QED
    BY <1>1, <1>3, <2>3 DEF BatchesInv, Phases, BeforeTheBatches, WithReport, Stopped
<1> QED
  BY <1>1, <1>2, <1>3

(* The command goes on behind a batch only when all of it is in place. *)
LEMMA ContinueBatches ==
    ASSUME BatchesInv, Continue
    PROVE  BatchesInv'
<1>1. cursor > Len(Batch) /\ disk' = disk /\ input' = input
  BY DEF Continue, Unchanged
<1>2. CASE Phase("commit_analysis", IF input.graph THEN "report" ELSE "success")
  <2>1. Batch = AnalysisFiles /\ cursor \in Nat
    BY <1>2 DEF Phase, Batch, BatchesInv
  <2>2. Placed(AnalysisFiles) = AnalysisSet
    BY <1>1, <2>1, Files DEF Placed, AnalysisSet
  <2>3. disk = AnalysisSet /\ pc' \in {"report", "success"} /\ (pc' = "report" <=> input.graph)
    BY <1>2, <2>2 DEF Phase, BatchesInv
  <2> QED
    BY <1>1, <2>3, Files DEF BatchesInv, Phases, BeforeTheBatches, WithReport, Stopped
<1>3. CASE Phase("commit_report", "success")
  <2>1. Batch = ReportFiles /\ cursor \in Nat
    BY <1>3 DEF Phase, Batch, BatchesInv
  <2>2. Placed(ReportFiles) = ReportSet
    BY <1>1, <2>1, Files DEF Placed, ReportSet
  <2>3. disk = AnalysisSet \cup ReportSet /\ input.graph /\ pc' = "success"
    BY <1>3, <2>2 DEF Phase, BatchesInv, WithReport
  <2> QED
    BY <1>1, <2>3 DEF BatchesInv, Phases, BeforeTheBatches, WithReport, Stopped
<1> QED
  BY <1>2, <1>3 DEF Continue

(* What the other steps leave: the disk as it is. *)
LEMMA OtherBatches ==
    ASSUME BatchesInv, BuildReport \/ WriteFails \/ Cancel \/ Signal \/ UNCHANGED vars
    PROVE  BatchesInv'
<1>1. disk' = disk /\ input' = input
  BY DEF BuildReport, WriteFails, Cancel, Signal, vars, stitchVars, Unchanged
<1>2. CASE BuildReport
  BY <1>1, <1>2 DEF BuildReport, BatchesInv, Phases, BeforeTheBatches, WithReport, Stopped
<1>3. CASE WriteFails \/ Cancel
  BY <1>1, <1>3 DEF WriteFails, Cancel, BatchesInv, Phases, BeforeTheBatches, WithReport, Stopped
<1>4. CASE Signal \/ UNCHANGED vars
  <2>1. pc' = pc /\ cursor' = cursor
    BY <1>4 DEF Signal, vars, stitchVars
  <2> QED
    BY <1>1, <2>1 DEF BatchesInv, Placed
<1> QED
  BY <1>2, <1>3, <1>4

(* Every step keeps what is on disk in step with the batches. *)
LEMMA BatchesInvariance == Spec => []BatchesInv
<1>1. Init => BatchesInv
  BY DEF Init, StitchInit, BatchesInv, Phases, BeforeTheBatches, WithReport, Stopped
<1>2. BatchesInv /\ [Next]_vars => BatchesInv'
  BY StitchBatches, BeginBatches, PlaceBatches, ContinueBatches, OtherBatches DEF Next
<1> QED
  BY <1>1, <1>2, PTL DEF Spec

(* The report on disk describes an analysis that is complete beside it, whatever
   fails between the two batches; success means that all is in place, and a refusal
   that nothing is. *)
THEOREM ReportsFollow == Spec => []ReportsFollowTheirAnalysis
<1>1. BatchesInv => ReportsFollowTheirAnalysis
  BY Files DEF BatchesInv, ReportsFollowTheirAnalysis, BeforeTheBatches
<1> QED
  BY <1>1, BatchesInvariance, PTL

-----------------------------------------------------------------------------
(* What the report is built from.                                           *)

(* The declared candidates are correlations of producers. *)
LEMMA DeclaredKnown ==
    ASSUME Accepted, EndpointsInv, CorrelationsInv(Producers, Lonely(Consumers)), NEW c \in Declared
    PROVE  \E p \in Producers :
              /\ c = CorrelationOf(p) /\ c.state = "declared_realm_candidate"
              /\ p.eligible /\ Candidates(p) # {} /\ c.realm # None
              /\ c.producer = p.id /\ c.consumers = Ids(Candidates(p))
              /\ \A e \in {p} \cup Candidates(p) : e.realm = c.realm
              /\ ~ (Cardinality(Candidates(p)) > 1 /\ SingleConsumer(p.contract))
<1>1. c \in ToSet(correlations) /\ c.state = "declared_realm_candidate"
  BY DEF Declared
<1>2. ASSUME NEW d \in Lonely(Consumers), c = Alone(d) PROVE FALSE
  <2>1. d \in Consumers
    BY DEF Lonely
  <2> QED
    BY <1>1, <1>2, <2>1, ValidAlone
<1>3. PICK p \in Producers : c = CorrelationOf(p)
  BY <1>1, <1>2 DEF CorrelationsInv
<1> QED
  BY <1>1, <1>3, DeclaredCorrelation

(* An endpoint is the record of its id: its source is found again, the service is
   one of the input, and the manifest binds it to its realm. *)
LEMMA SourceKnown ==
    ASSUME Accepted, EndpointsInv, NEW e \in ToSet(endpoints)
    PROVE  /\ SourceOf(e.id) \in SourceRecord
           /\ SourceOf(e.id).role = e.role /\ SourceOf(e.id).contract = e.contract
           /\ e.eligible => Eligible(SourceOf(e.id))
           /\ \E s \in ToSet(input.services) : s.name = e.id[1]
           /\ e.realm # None => Bound(e.id, e.realm)
                                /\ \E r \in ToSet(input.topology.realms) : r.alias = e.realm
<1>1. PICK r \in ToSet(Records) : Taken(r) /\ e = Endpoint(r)
  BY DEF EndpointsInv
<1>2. /\ e.id = <<r.service, r.number>> /\ e.role = r.source.role
      /\ e.contract = r.source.contract /\ e.realm = RealmFor(r)
      /\ e.eligible <=> Eligible(r.source)
  BY <1>1, EndpointKnown
<1>3. \A q \in ToSet(Records) : <<q.service, q.number>> = e.id <=> q = r
  BY <1>1, <1>2, FoundAgain
<1>4. SourceOf(e.id) = r.source
  BY <1>3 DEF SourceOf
<1>5. r \in StitchRecord /\ \E s \in ToSet(input.services) : s.name = r.service
  BY RecordsKnown, EntriesOf
<1>6. r.source \in SourceRecord
  BY <1>5 DEF StitchRecord
<1>7. e.id[1] = r.service /\ e.id[2] = r.number
  BY <1>2
<1>8. ASSUME e.realm # None
      PROVE  Bound(e.id, e.realm) /\ \E realm \in ToSet(input.topology.realms) : realm.alias = e.realm
  <2>1. PICK b \in ToSet(input.topology.bindings), realm \in RealmsOf(input.topology, RealmFor(r)) :
           /\ BindingMatches(b, r) /\ b.alias = RealmFor(r) /\ BindingCompatible(b, realm)
           /\ SourceTransport(r.source) \in {None, realm.transport}
    BY <1>1, <1>2, <1>5, <1>8, RealmKnown
  <2>2. /\ b.service = r.service /\ b.role = r.source.role /\ b.contract = r.source.contract
        /\ b.record \in {AnyRecord, r.number}
    BY <2>1 DEF BindingMatches
  <2>3. Bound(e.id, e.realm)
    BY <1>2, <1>4, <1>7, <2>1, <2>2 DEF Bound
  <2>4. realm \in ToSet(input.topology.realms) /\ realm.alias = e.realm
    BY <1>2, <2>1 DEF RealmsOf
  <2> QED
    BY <2>3, <2>4
<1> QED
  BY <1>2, <1>4, <1>5, <1>6, <1>7, <1>8

(* The ranks of the certainties. *)
LEMMA RankKnown ==
    /\ CertaintyRank("resolved") = 1 /\ CertaintyRank("conditional_candidate") = 2
    /\ CertaintyRank("ambiguous") = 3 /\ CertaintyRank("unknown") = 4
<1>1. /\ DOMAIN Certainties = {1, 2, 3, 4}
      /\ Certainties[1] = "resolved" /\ Certainties[2] = "conditional_candidate"
      /\ Certainties[3] = "ambiguous" /\ Certainties[4] = "unknown"
  BY DEF Certainties
<1> QED
  BY <1>1 DEF CertaintyRank

AnyCertainty == {"resolved", "conditional_candidate", "ambiguous", "unknown"}

(* The id of a node tells its parent. *)
ParentOf(id) ==
    CASE id[1] = "destination" -> {RealmNode(id[2])}
      [] id[1] \in {"endpoint", "root", "effect"} -> {ServiceNode(id[2])}
      [] OTHER -> {}

Contributions == Inventory \cup UNION {Drawn(c) : c \in Declared}

(* A contribution has the parent of its id and one of the certainties. *)
WellFormed(x) ==
    /\ x.parent = ParentOf(x.id) /\ x.certainty \in AnyCertainty
    /\ x = Contribution(x.id, x.parent, x.certainty)

LEMMA NodeParents ==
    /\ \A n : ParentOf(ServiceNode(n)) = {}
    /\ \A a : ParentOf(RealmNode(a)) = {}
    /\ \A a : ParentOf(DestinationNode(a)) = {RealmNode(a)}
    /\ \A id : ParentOf(EndpointNode(id)) = {ServiceNode(id[1])}
    /\ \A n, r : ParentOf(RootNode(n, r)) = {ServiceNode(n)}
    /\ \A id, f : ParentOf(EffectNode(id, f)) = {ServiceNode(id[1])}
<1>1. \A n : ServiceNode(n)[1] = "service" /\ RealmNode(n)[1] = "realm"
  BY DEF ServiceNode, RealmNode
<1>2. \A a : DestinationNode(a)[1] = "destination" /\ DestinationNode(a)[2] = a
  BY DEF DestinationNode
<1>3. \A id : EndpointNode(id)[1] = "endpoint" /\ EndpointNode(id)[2] = id[1]
  BY DEF EndpointNode
<1>4. \A n, r : RootNode(n, r)[1] = "root" /\ RootNode(n, r)[2] = n
  BY DEF RootNode
<1>5. \A id, f : EffectNode(id, f)[1] = "effect" /\ EffectNode(id, f)[2] = id[1]
  BY DEF EffectNode
<1>6. (\A n : ParentOf(ServiceNode(n)) = {}) /\ (\A a : ParentOf(RealmNode(a)) = {})
  BY <1>1 DEF ParentOf
<1>7. \A a : ParentOf(DestinationNode(a)) = {RealmNode(a)}
  BY <1>2 DEF ParentOf
<1>8. \A id : ParentOf(EndpointNode(id)) = {ServiceNode(id[1])}
  BY <1>3 DEF ParentOf
<1>9. \A n, r : ParentOf(RootNode(n, r)) = {ServiceNode(n)}
  BY <1>4 DEF ParentOf
<1>10. \A id, f : ParentOf(EffectNode(id, f)) = {ServiceNode(id[1])}
  BY <1>5 DEF ParentOf
<1> QED
  BY <1>6, <1>7, <1>8, <1>9, <1>10

LEMMA ContributionsKnown ==
    \A x \in Contributions : WellFormed(x)
<1>1. \A id, parent, certainty :
         parent = ParentOf(id) /\ certainty \in AnyCertainty
            => WellFormed(Contribution(id, parent, certainty))
  BY DEF WellFormed, Contribution
<1>2. {"resolved", "conditional_candidate", "ambiguous", "unknown"} \subseteq AnyCertainty
  BY DEF AnyCertainty
<1>3. \A r : Initiation(r) \in AnyCertainty
  BY DEF Initiation, AnyCertainty
<1>4. ASSUME NEW x \in Inventory PROVE WellFormed(x)
  <2>1. \/ \E s \in ToSet(input.services) :
               x = Contribution(ServiceNode(s.name), {},
                                IF s.result = "completed" THEN "resolved" ELSE "unknown")
        \/ \E r \in ToSet(input.topology.realms) :
               x = Contribution(RealmNode(r.alias), {}, "resolved")
        \/ \E r \in ToSet(input.topology.realms) :
               x = Contribution(DestinationNode(r.alias), {RealmNode(r.alias)}, "resolved")
        \/ \E e \in ToSet(endpoints) :
               x = Contribution(EndpointNode(e.id), {ServiceNode(e.id[1])},
                                IF e.realm = None THEN "unknown" ELSE "conditional_candidate")
    BY DEF Inventory
  <2>2. \/ \E s \in ToSet(input.services), certainty \in AnyCertainty :
               x = Contribution(ServiceNode(s.name), {}, certainty)
        \/ \E r \in ToSet(input.topology.realms), certainty \in AnyCertainty :
               x = Contribution(RealmNode(r.alias), {}, certainty)
        \/ \E r \in ToSet(input.topology.realms), certainty \in AnyCertainty :
               x = Contribution(DestinationNode(r.alias), {RealmNode(r.alias)}, certainty)
        \/ \E e \in ToSet(endpoints), certainty \in AnyCertainty :
               x = Contribution(EndpointNode(e.id), {ServiceNode(e.id[1])}, certainty)
    BY <1>2, <2>1
  <2>3. CASE \E s \in ToSet(input.services), certainty \in AnyCertainty :
               x = Contribution(ServiceNode(s.name), {}, certainty)
    BY <1>1, <2>3, NodeParents
  <2>4. CASE \E r \in ToSet(input.topology.realms), certainty \in AnyCertainty :
               x = Contribution(RealmNode(r.alias), {}, certainty)
    <3>1. PICK r \in ToSet(input.topology.realms) : \E certainty \in AnyCertainty :
             x = Contribution(RealmNode(r.alias), {}, certainty)
      BY <2>4
    <3>2. ParentOf(RealmNode(r.alias)) = {}
      BY NodeParents
    <3> QED
      BY <1>1, <3>1, <3>2
  <2>5. CASE \E r \in ToSet(input.topology.realms), certainty \in AnyCertainty :
               x = Contribution(DestinationNode(r.alias), {RealmNode(r.alias)}, certainty)
    BY <1>1, <2>5, NodeParents
  <2>6. CASE \E e \in ToSet(endpoints), certainty \in AnyCertainty :
               x = Contribution(EndpointNode(e.id), {ServiceNode(e.id[1])}, certainty)
    <3>1. PICK e \in ToSet(endpoints) : \E certainty \in AnyCertainty :
             x = Contribution(EndpointNode(e.id), {ServiceNode(e.id[1])}, certainty)
      BY <2>6
    <3>2. ParentOf(EndpointNode(e.id)) = {ServiceNode(e.id[1])}
      BY NodeParents
    <3> QED
      BY <1>1, <3>1, <3>2
  <2> QED
    BY <2>2, <2>3, <2>4, <2>5, <2>6
<1>5. ASSUME NEW c \in Declared, NEW x \in Drawn(c) PROVE WellFormed(x)
  <2>1. \/ \E id \in {c.producer} \cup c.consumers :
               x = Contribution(EndpointNode(id), {ServiceNode(id[1])}, "conditional_candidate")
        \/ \E r \in RootsOf(c.producer) :
               x = Contribution(RootNode(c.producer[1], r), {ServiceNode(c.producer[1])},
                                Initiation(r))
        \/ \E id \in c.consumers : \E f \in EffectsOf(id) :
               x = Contribution(EffectNode(id, f), {ServiceNode(id[1])},
                                IF TraceAmbiguous(TraceOf(id)) THEN "ambiguous"
                                ELSE "conditional_candidate")
    BY DEF Drawn
  <2>2. CASE \E id \in {c.producer} \cup c.consumers :
               x = Contribution(EndpointNode(id), {ServiceNode(id[1])}, "conditional_candidate")
    BY <1>1, <1>2, <2>2, NodeParents
  <2>3. CASE \E r \in RootsOf(c.producer) :
               x = Contribution(RootNode(c.producer[1], r), {ServiceNode(c.producer[1])},
                                Initiation(r))
    BY <1>1, <1>3, <2>3, NodeParents
  <2>4. CASE \E id \in c.consumers : \E f \in EffectsOf(id) :
               x = Contribution(EffectNode(id, f), {ServiceNode(id[1])},
                                IF TraceAmbiguous(TraceOf(id)) THEN "ambiguous"
                                ELSE "conditional_candidate")
    <3>1. PICK id \in c.consumers : \E f \in EffectsOf(id) : \E certainty \in AnyCertainty :
             x = Contribution(EffectNode(id, f), {ServiceNode(id[1])}, certainty)
      BY <1>2, <2>4
    <3>2. \A f : ParentOf(EffectNode(id, f)) = {ServiceNode(id[1])}
      BY NodeParents
    <3> QED
      BY <1>1, <3>1, <3>2
  <2> QED
    BY <2>1, <2>2, <2>3, <2>4
<1> QED
  BY <1>4, <1>5 DEF Contributions

(* A node is a contribution that no other of its id is less certain than; each id
   that is contributed has one. *)
LEMMA NodesKnown ==
    /\ Nodes \subseteq Contributions
    /\ \A x, y \in Nodes : x.id = y.id => x = y
    /\ \A x \in Contributions : \E y \in Nodes : y.id = x.id
<1>1. Nodes = {x \in Contributions : \A y \in Contributions :
                 y.id = x.id => CertaintyRank(y.certainty) <= CertaintyRank(x.certainty)}
  BY DEF Nodes, Contributions
<1>2. \A x \in Contributions :
         /\ x.parent = ParentOf(x.id) /\ x.certainty \in AnyCertainty
         /\ x = Contribution(x.id, x.parent, x.certainty)
  BY ContributionsKnown DEF WellFormed
<1>3. \A a, b \in AnyCertainty :
         /\ CertaintyRank(a) \in 1 .. 4
         /\ CertaintyRank(a) = CertaintyRank(b) => a = b
  BY RankKnown DEF AnyCertainty
<1>4. ASSUME NEW x \in Nodes, NEW y \in Nodes, x.id = y.id
      PROVE  x = y
  <2>1. CertaintyRank(x.certainty) <= CertaintyRank(y.certainty)
        /\ CertaintyRank(y.certainty) <= CertaintyRank(x.certainty)
        /\ x \in Contributions /\ y \in Contributions
    BY <1>1, <1>4
  <2> QED
    BY <1>2, <1>3, <1>4, <2>1
<1>5. ASSUME NEW x \in Contributions PROVE \E y \in Nodes : y.id = x.id
  <2> DEFINE Gap(y) == 4 - CertaintyRank(y.certainty)
             T == {Gap(y) : y \in {y \in Contributions : y.id = x.id}}
  <2>1. \A y \in Contributions : Gap(y) \in Nat
    BY <1>2, <1>3
  <2>2. T \in SUBSET Nat /\ T # {}
    BY <2>1
  <2>3. PICK n \in T : \A m \in T : n <= m
    BY <2>2, LeastNumber
  <2>4. PICK y \in Contributions : y.id = x.id /\ n = Gap(y)
    BY <2>3
  <2>5. ASSUME NEW z \in Contributions, z.id = y.id
        PROVE  CertaintyRank(z.certainty) <= CertaintyRank(y.certainty)
    <3>1. Gap(y) <= Gap(z)
      BY <2>3, <2>4, <2>5
    <3> QED
      BY <1>2, <1>3, <3>1
  <2> QED
    BY <1>1, <2>4, <2>5
<1> QED
  BY <1>1, <1>4, <1>5

(* The members of a declared candidate are endpoints bound to its realm. *)
LEMMA MembersDeclared ==
    ASSUME Accepted, EndpointsInv, CorrelationsInv(Producers, Lonely(Consumers)),
           NEW c \in Declared
    PROVE  /\ c.consumers # {}
           /\ \A id \in {c.producer} \cup c.consumers :
                 \E e \in ToSet(endpoints) : e.id = id /\ e.realm = c.realm /\ e.realm # None
           /\ \A id \in c.consumers : \E d \in Consumers : d.id = id /\ d.eligible
<1>1. PICK p \in Producers :
         /\ p.eligible /\ Candidates(p) # {} /\ c.realm # None
         /\ c.producer = p.id /\ c.consumers = Ids(Candidates(p))
         /\ \A e \in {p} \cup Candidates(p) : e.realm = c.realm
  BY DeclaredKnown
<1>2. /\ p \in ToSet(endpoints) /\ Candidates(p) \subseteq Consumers
      /\ Consumers \subseteq ToSet(endpoints)
      /\ Ids(Candidates(p)) # {}
  BY <1>1, ProducerKnown
<1>3. \A d \in Candidates(p) : d.eligible
  BY CandidatesKnown
<1>4. \A id \in c.consumers : \E d \in Candidates(p) : d.id = id
  BY <1>1 DEF Ids
<1> QED
  BY <1>1, <1>2, <1>3, <1>4

(* The roots of a path reach its producer: one of them, or none if there is none. *)
LEMMA RootsKnown ==
    ASSUME NEW id, NEW roots \in RootVariants(id)
    PROVE  roots \subseteq RootsOf(id) /\ (roots = {} => RootsOf(id) = {})
  BY DEF RootVariants

(* What is on a path is a node with its parent on the path as well. *)
LEMMA OnPathKnown ==
    ASSUME Accepted, EndpointsInv, CorrelationsInv(Producers, Lonely(Consumers)),
           NEW c \in Declared, NEW id \in c.consumers, NEW roots \in RootVariants(c.producer),
           NEW n \in OnPath(PathOf(c, id, roots))
    PROVE  /\ \E x \in Contributions : x.id = n
           /\ ParentOf(n) \subseteq OnPath(PathOf(c, id, roots))
<1> DEFINE p == PathOf(c, id, roots)
<1>1. /\ p.correlation = c /\ p.consumer = id /\ p.roots = roots /\ p.effects = EffectsOf(id)
  BY DEF PathOf
<1> HIDE DEF p
<1>2. OnPath(p) = {RootNode(c.producer[1], r) : r \in roots}
                  \cup {EndpointNode(c.producer), DestinationNode(c.realm), EndpointNode(id)}
                  \cup {EffectNode(id, f) : f \in EffectsOf(id)}
                  \cup {ServiceNode(c.producer[1]), ServiceNode(id[1]), RealmNode(c.realm)}
  BY <1>1 DEF OnPath
<1>3. \A x, parent, certainty : Contribution(x, parent, certainty).id = x
  BY DEF Contribution
<1>4. PICK e \in ToSet(endpoints) : e.id = c.producer /\ e.realm = c.realm /\ e.realm # None
  BY MembersDeclared
<1>5. PICK d \in ToSet(endpoints) : d.id = id
  BY MembersDeclared
<1>6. PICK r \in ToSet(input.topology.realms) : r.alias = c.realm
  BY <1>4, SourceKnown
<1>7. PICK s \in ToSet(input.services) : s.name = c.producer[1]
  BY <1>4, SourceKnown
<1>8. PICK t \in ToSet(input.services) : t.name = id[1]
  BY <1>5, SourceKnown
<1>9. Drawn(c) \subseteq Contributions /\ Inventory \subseteq Contributions
  BY DEF Contributions
<1>10. CASE \E root \in roots : n = RootNode(c.producer[1], root)
  <2>1. PICK root \in RootsOf(c.producer) : n = RootNode(c.producer[1], root)
    BY <1>10, RootsKnown
  <2>2. Contribution(RootNode(c.producer[1], root), {ServiceNode(c.producer[1])}, Initiation(root))
           \in Drawn(c)
    BY DEF Drawn
  <2>3. ParentOf(n) = {ServiceNode(c.producer[1])}
    BY <2>1, NodeParents
  <2> QED
    BY <1>2, <1>3, <1>9, <2>1, <2>2, <2>3 DEF p
<1>11. CASE n \in {EndpointNode(c.producer), EndpointNode(id)}
  <2>1. PICK m \in {c.producer, id} : n = EndpointNode(m)
    BY <1>11
  <2>2. Contribution(EndpointNode(m), {ServiceNode(m[1])}, "conditional_candidate") \in Drawn(c)
    BY <2>1 DEF Drawn
  <2>3. ParentOf(n) = {ServiceNode(m[1])}
    BY <2>1, NodeParents
  <2>4. \E x \in Contributions : x.id = n
    BY <1>3, <1>9, <2>1, <2>2
  <2>5. ServiceNode(m[1]) \in OnPath(p)
    BY <1>2, <2>1
  <2> QED
    BY <2>3, <2>4, <2>5 DEF p
<1>12. CASE n = DestinationNode(c.realm)
  <2>1. Contribution(DestinationNode(r.alias), {RealmNode(r.alias)}, "resolved") \in Inventory
    BY DEF Inventory
  <2>2. ParentOf(n) = {RealmNode(c.realm)}
    BY <1>12, NodeParents
  <2> QED
    BY <1>2, <1>3, <1>6, <1>9, <1>12, <2>1, <2>2 DEF p
<1>13. CASE \E f \in EffectsOf(id) : n = EffectNode(id, f)
  <2>1. PICK f \in EffectsOf(id) : n = EffectNode(id, f)
    BY <1>13
  <2>2. Contribution(EffectNode(id, f), {ServiceNode(id[1])},
                     IF TraceAmbiguous(TraceOf(id)) THEN "ambiguous" ELSE "conditional_candidate")
           \in Drawn(c)
    <3> DEFINE X(i, g) == Contribution(EffectNode(i, g), {ServiceNode(i[1])},
                             IF TraceAmbiguous(TraceOf(i)) THEN "ambiguous"
                             ELSE "conditional_candidate")
               all == UNION {{X(i, g) : g \in EffectsOf(i)} : i \in c.consumers}
    <3>1. all \subseteq Drawn(c)
      BY DEF Drawn
    <3> HIDE DEF X
    <3>2. X(id, f) \in {X(id, g) : g \in EffectsOf(id)}
      BY <2>1
    <3>3. X(id, f) \in all
      BY <3>2
    <3> QED
      BY <3>1, <3>3 DEF X
  <2>3. ParentOf(n) = {ServiceNode(id[1])}
    BY <2>1, NodeParents
  <2> QED
    BY <1>2, <1>3, <1>9, <2>1, <2>2, <2>3 DEF p
<1>14. CASE n = ServiceNode(c.producer[1]) \/ n = ServiceNode(id[1])
  <2>1. PICK u \in ToSet(input.services) : n = ServiceNode(u.name)
    BY <1>7, <1>8, <1>14
  <2>2. \E certainty : Contribution(ServiceNode(u.name), {}, certainty) \in Inventory
    BY DEF Inventory
  <2>3. ParentOf(n) = {}
    BY <2>1, NodeParents
  <2> QED
    BY <1>3, <1>9, <2>1, <2>2, <2>3
<1>15. CASE n = RealmNode(c.realm)
  <2>1. Contribution(RealmNode(r.alias), {}, "resolved") \in Inventory
    BY DEF Inventory
  <2>2. ParentOf(n) = {}
    BY <1>15, NodeParents
  <2> QED
    BY <1>3, <1>6, <1>9, <1>15, <2>1, <2>2
<1>16. n \in OnPath(p)
  BY DEF p
<1> QED
  BY <1>2, <1>10, <1>11, <1>12, <1>13, <1>14, <1>15, <1>16

-----------------------------------------------------------------------------
(* The report as it is built.                                               *)

Paths == UNION {PathsOf(c) : c \in Declared}
OnPaths == UNION {OnPath(p) : p \in Paths}
Edges == UNION {EdgesOf(c) : c \in Declared}

Shown(selected) == {x \in selected : x.parent \subseteq {y.id : y \in selected}}

Built(rep) ==
    /\ rep.nodes = Nodes /\ rep.paths = Paths /\ rep.passed = Outcomes("pass")
    /\ \E selected \in FirstOf(Nodes, MaxNodes, [x \in Nodes |-> NodePriority(x, OnPaths)]) :
          /\ rep.shownNodes = Shown(selected)
          /\ \A e \in rep.shownEdges :
                /\ e \in Edges
                /\ e.source \in {x.id : x \in Shown(selected)}
                /\ e.target \in {x.id : x \in Shown(selected)}

LEMMA BuiltKnown ==
    ASSUME BuildReport
    PROVE  Built(report')
<1>1. PICK selected \in FirstOf(Nodes, MaxNodes, [x \in Nodes |-> NodePriority(x, OnPaths)]) :
         \E drawn \in FirstOf({e \in Edges : /\ \E x \in Shown(selected) : x.id = e.source
                                             /\ \E x \in Shown(selected) : x.id = e.target},
                              MaxEdges,
                              [e \in {e \in Edges : /\ \E x \in Shown(selected) : x.id = e.source
                                                    /\ \E x \in Shown(selected) : x.id = e.target}
                                  |-> 0]) :
            report' = [nodes |-> Nodes, edges |-> Edges, paths |-> Paths,
                       shownNodes |-> Shown(selected), shownEdges |-> drawn,
                       passed |-> Outcomes("pass"), failed |-> Outcomes("fail")]
  BY DEF BuildReport, Paths, OnPaths, Edges, Shown
<1> DEFINE eligible == {e \in Edges : /\ \E x \in Shown(selected) : x.id = e.source
                                      /\ \E x \in Shown(selected) : x.id = e.target}
<1>2. PICK drawn \in FirstOf(eligible, MaxEdges, [e \in eligible |-> 0]) :
         report' = [nodes |-> Nodes, edges |-> Edges, paths |-> Paths,
                    shownNodes |-> Shown(selected), shownEdges |-> drawn,
                    passed |-> Outcomes("pass"), failed |-> Outcomes("fail")]
  BY <1>1
<1>3. drawn \subseteq eligible
  BY DEF FirstOf
<1>4. /\ report'.nodes = Nodes /\ report'.paths = Paths /\ report'.passed = Outcomes("pass")
      /\ report'.shownNodes = Shown(selected) /\ report'.shownEdges = drawn
  BY <1>2
<1>5. \A e \in report'.shownEdges :
         /\ e \in Edges
         /\ e.source \in {x.id : x \in Shown(selected)}
         /\ e.target \in {x.id : x \in Shown(selected)}
  BY <1>3, <1>4
<1> QED
  BY <1>4, <1>5 DEF Built

(* What validateSystemReportDocument asks of a report, and what the report promises
   of its paths, of any report. *)
ValidDocument(rep) ==
    LET ids == {x.id : x \in rep.shownNodes}
    IN  /\ \A x, y \in rep.nodes : x.id = y.id => x = y
        /\ \A x \in rep.shownNodes : x.parent \subseteq ids
        /\ \A e \in rep.shownEdges :
               e.source \in ids /\ e.target \in ids /\ e.correlation \in Declared
        /\ \A p \in rep.paths : p.correlation \in Declared

(* A path is an honest one. *)
HonestPath(p) ==
    LET c == p.correlation
        source == SourceOf(c.producer)
        t == SourceOf(p.consumer).trace
    IN  /\ Bound(c.producer, c.realm) /\ Bound(p.consumer, c.realm)
        /\ SourceOf(p.consumer).state = "proven_registered"
        /\ SingleConsumer(source.contract) =>
               \A d \in Consumers : Reaches(EndpointOf(c.producer), d) => d.id = p.consumer
        /\ p.complete =>
               /\ t.built /\ ~ t.ambiguous /\ ~ t.diagnosed
               /\ \A r \in p.roots : ~ r.diagnosed
               /\ \/ \A r \in p.roots : "ambiguous" \notin r.initiation \cup r.others
                  \/ AmbiguousOnTheWay(p)
               /\ p.roots = {} => source.roots = {} \/ HiddenBySharedRoute(p)

(* A declared candidate has all its paths. *)
AllPaths(c, paths) ==
    \A id \in c.consumers, r \in SourceOf(c.producer).roots :
        r.shared \/ \E p \in paths : p.correlation = c /\ p.consumer = id /\ p.roots = {r}

HonestDocument(rep) ==
    /\ \A p \in rep.paths : HonestPath(p)
    /\ \A c \in Declared : AllPaths(c, rep.paths)
    /\ \A c \in ToSet(correlations) :
           <<"require-declared-realm-candidate", c>> \in rep.passed
               <=> \E p \in rep.paths : p.correlation = c
    /\ LET shown == {x.id : x \in rep.shownNodes}
           onPaths == UNION {OnPath(p) : p \in rep.paths}
       IN  onPaths \subseteq shown \/ shown \subseteq onPaths

(* Its own validation never rejects the report. *)
LEMMA BuiltIsValid ==
    ASSUME NEW rep, Built(rep)
    PROVE  ValidDocument(rep)
<1>1. PICK selected \in FirstOf(Nodes, MaxNodes, [x \in Nodes |-> NodePriority(x, OnPaths)]) :
         /\ rep.shownNodes = Shown(selected)
         /\ \A e \in rep.shownEdges :
               /\ e \in Edges
               /\ e.source \in {x.id : x \in Shown(selected)}
               /\ e.target \in {x.id : x \in Shown(selected)}
  BY DEF Built
<1>2. rep.nodes = Nodes /\ rep.paths = Paths
  BY DEF Built
<1>3. \A x, y \in Nodes : x.id = y.id => x = y
  BY NodesKnown
<1>4. selected \subseteq Nodes
  BY DEF FirstOf
<1>5. ASSUME NEW x \in Shown(selected) PROVE x.parent \subseteq {y.id : y \in Shown(selected)}
  <2>1. x \in selected /\ x.parent \subseteq {y.id : y \in selected} /\ WellFormed(x)
    BY <1>4, NodesKnown, ContributionsKnown DEF Shown
  <2>2. ASSUME NEW n \in x.parent PROVE ParentOf(n) = {}
    <3>1. n \in ParentOf(x.id)
      BY <2>1 DEF WellFormed
    <3>2. n = RealmNode(x.id[2]) \/ n = ServiceNode(x.id[2])
      BY <3>1 DEF ParentOf
    <3> QED
      BY <3>2, NodeParents
  <2>3. ASSUME NEW n \in x.parent PROVE \E y \in Shown(selected) : y.id = n
    <3>1. PICK y \in selected : y.id = n
      BY <2>1
    <3>2. y.parent = {}
      BY <1>4, <2>2, <3>1, NodesKnown, ContributionsKnown DEF WellFormed
    <3>3. y \in Shown(selected)
      BY <3>1, <3>2 DEF Shown
    <3> QED
      BY <3>1, <3>3
  <2> QED
    BY <2>3
<1>6. \A e \in Edges : e.correlation \in Declared
  <2>1. ASSUME NEW c \in Declared, NEW e \in EdgesOf(c) PROVE e.correlation = c
    BY DEF EdgesOf, Edge
  <2> QED
    BY <2>1 DEF Edges
<1>7. \A p \in Paths : p.correlation \in Declared
  <2>1. ASSUME NEW c \in Declared, NEW p \in PathsOf(c) PROVE p.correlation = c
    BY DEF PathsOf, PathOf
  <2> QED
    BY <2>1 DEF Paths
<1> QED
  BY <1>1, <1>2, <1>3, <1>5, <1>6, <1>7 DEF ValidDocument

(* A path is one of a declared candidate, of one of its consumers and of one choice
   of roots. *)
LEMMA PathKnown ==
    ASSUME NEW p \in Paths
    PROVE  \E c \in Declared : \E id \in c.consumers : \E roots \in RootVariants(c.producer) :
              /\ p = PathOf(c, id, roots)
              /\ p.correlation = c /\ p.consumer = id /\ p.roots = roots
              /\ p.complete =>
                    /\ TraceOf(id).built /\ ~ TraceAmbiguous(TraceOf(id)) /\ ~ TraceOf(id).diagnosed
                    /\ \A r \in roots : Initiation(r) # "ambiguous" /\ ~ r.diagnosed
<1>1. PICK c \in Declared : p \in PathsOf(c)
  BY DEF Paths
<1>2. PICK id \in c.consumers : \E roots \in RootVariants(c.producer) : p = PathOf(c, id, roots)
  BY <1>1 DEF PathsOf
<1>3. PICK roots \in RootVariants(c.producer) : p = PathOf(c, id, roots)
  BY <1>2
<1>4. /\ p.correlation = c /\ p.consumer = id /\ p.roots = roots
      /\ p.complete =>
            /\ TraceOf(id).built /\ ~ TraceAmbiguous(TraceOf(id)) /\ ~ TraceOf(id).diagnosed
            /\ \A r \in roots : Initiation(r) # "ambiguous" /\ ~ r.diagnosed
  BY <1>3 DEF PathOf
<1> QED
  BY <1>3, <1>4

LEMMA PathIsHonest ==
    ASSUME Accepted, EndpointsInv, CorrelationsInv(Producers, Lonely(Consumers)), NEW p \in Paths
    PROVE  HonestPath(p)
<1>1. PICK c \in Declared : \E id \in c.consumers : \E roots \in RootVariants(c.producer) :
         /\ p.correlation = c /\ p.consumer = id /\ p.roots = roots
         /\ p.complete =>
               /\ TraceOf(id).built /\ ~ TraceAmbiguous(TraceOf(id)) /\ ~ TraceOf(id).diagnosed
               /\ \A r \in roots : Initiation(r) # "ambiguous" /\ ~ r.diagnosed
  BY PathKnown
<1>2. PICK id \in c.consumers : \E roots \in RootVariants(c.producer) :
         /\ p.correlation = c /\ p.consumer = id /\ p.roots = roots
         /\ p.complete =>
               /\ TraceOf(id).built /\ ~ TraceAmbiguous(TraceOf(id)) /\ ~ TraceOf(id).diagnosed
               /\ \A r \in roots : Initiation(r) # "ambiguous" /\ ~ r.diagnosed
  BY <1>1
<1>3. PICK roots \in RootVariants(c.producer) :
         /\ p.correlation = c /\ p.consumer = id /\ p.roots = roots
         /\ p.complete =>
               /\ TraceOf(id).built /\ ~ TraceAmbiguous(TraceOf(id)) /\ ~ TraceOf(id).diagnosed
               /\ \A r \in roots : Initiation(r) # "ambiguous" /\ ~ r.diagnosed
  BY <1>2
<1>4. PICK q \in Producers :
         /\ q.eligible /\ c.realm # None
         /\ c.producer = q.id /\ c.consumers = Ids(Candidates(q))
         /\ \A e \in {q} \cup Candidates(q) : e.realm = c.realm
         /\ ~ (Cardinality(Candidates(q)) > 1 /\ SingleConsumer(q.contract))
  BY DeclaredKnown
<1>5. /\ q \in ToSet(endpoints) /\ Candidates(q) \subseteq Consumers
      /\ Consumers \subseteq ToSet(endpoints) /\ IsFiniteSet(Candidates(q))
  BY ProducerKnown
<1>6. PICK d \in Candidates(q) : d.id = id
  BY <1>4 DEF Ids
<1>7. EndpointOf(c.producer) = q
  BY <1>4, <1>5, EndpointsKnown
<1> DEFINE source == SourceOf(c.producer)
           handler == SourceOf(id)
           t == handler.trace
<1>8. /\ source \in SourceRecord /\ source.contract = q.contract /\ Bound(c.producer, c.realm)
  BY <1>4, <1>5, SourceKnown
<1>9. /\ handler \in SourceRecord /\ handler.role = "consumer" /\ Eligible(handler)
      /\ Bound(id, c.realm)
  <2>1. d \in Consumers /\ d.eligible /\ d.role = "consumer" /\ d.realm = c.realm
    BY <1>4, <1>5, <1>6, CandidatesKnown DEF Consumers
  <2> QED
    BY <1>4, <1>5, <1>6, <2>1, SourceKnown
<1>10. handler.state = "proven_registered"
  BY <1>9 DEF Eligible
<1>11. ASSUME SingleConsumer(source.contract), NEW e \in Consumers, Reaches(EndpointOf(c.producer), e)
       PROVE  e.id = id
  <2>1. e \in Candidates(q)
    BY <1>7, <1>11, CandidatesKnown DEF Reaches
  <2>2. ~ Cardinality(Candidates(q)) > 1
    BY <1>4, <1>8, <1>11
  <2>3. e = d
    BY <1>5, <1>6, <2>1, <2>2, Several
  <2> QED
    BY <1>6, <2>3
<1>12. ASSUME p.complete
       PROVE  /\ t.built /\ ~ t.ambiguous /\ ~ t.diagnosed
              /\ \A r \in roots : ~ r.diagnosed
              /\ \/ \A r \in roots : "ambiguous" \notin r.initiation \cup r.others
                 \/ AmbiguousOnTheWay(p)
              /\ roots = {} => source.roots = {} \/ HiddenBySharedRoute(p)
  <2>1. t.built /\ ~ t.ambiguous /\ ~ t.diagnosed
    BY <1>3, <1>12 DEF TraceOf, TraceAmbiguous
  <2>3. roots \subseteq source.roots /\ (roots = {} => RootsOf(c.producer) = {})
    BY RootsKnown DEF RootsOf
  <2>4. ASSUME NEW r \in roots PROVE "ambiguous" \notin r.initiation /\ ~ r.diagnosed
    <3>1. Initiation(r) # "ambiguous" /\ ~ r.diagnosed
      BY <1>3, <1>12
    <3> QED
      BY <3>1 DEF Initiation
  <2>6. AmbiguousOnTheWay(p) \/ \A r \in roots : "ambiguous" \notin r.initiation \cup r.others
    BY <1>3, <2>4 DEF AmbiguousOnTheWay
  <2>5. ASSUME roots = {} PROVE source.roots = {} \/ HiddenBySharedRoute(p)
    <3>1. \A r \in source.roots : r.shared
      BY <2>3, <2>5 DEF RootsOf
    <3> QED
      BY <1>3, <3>1 DEF HiddenBySharedRoute
  <2> QED
    BY <2>1, <2>4, <2>5, <2>6
<1> QED
  BY <1>3, <1>8, <1>9, <1>10, <1>11, <1>12 DEF HonestPath

(* Every consumer and every root of a declared candidate has its path. *)
LEMMA PathsAreComplete ==
    ASSUME NEW c \in Declared
    PROVE  /\ AllPaths(c, Paths)
           /\ c.consumers # {} => \E p \in Paths : p.correlation = c
<1>1. ASSUME NEW id \in c.consumers, NEW roots \in RootVariants(c.producer)
      PROVE  \E p \in Paths : p.correlation = c /\ p.consumer = id /\ p.roots = roots
  <2> DEFINE p == PathOf(c, id, roots)
  <2>1. p.correlation = c /\ p.consumer = id /\ p.roots = roots
    BY DEF PathOf
  <2> HIDE DEF p
  <2>2. p \in PathsOf(c)
    BY DEF PathsOf, p
  <2>3. p \in Paths
    BY <2>2 DEF Paths
  <2> QED
    BY <2>1, <2>3
<1>2. ASSUME NEW id \in c.consumers, NEW r \in SourceOf(c.producer).roots, ~ r.shared
      PROVE  \E p \in Paths : p.correlation = c /\ p.consumer = id /\ p.roots = {r}
  <2>1. r \in RootsOf(c.producer)
    BY <1>2 DEF RootsOf
  <2>2. {r} \in RootVariants(c.producer)
    BY <2>1 DEF RootVariants
  <2> QED
    BY <1>1, <2>2
<1>3. RootVariants(c.producer) # {}
  <2>1. CASE RootsOf(c.producer) = {}
    BY <2>1 DEF RootVariants
  <2>2. CASE RootsOf(c.producer) # {}
    <3>1. PICK r : r \in RootsOf(c.producer)
      BY <2>2
    <3>2. {r} \in RootVariants(c.producer)
      BY <2>2, <3>1 DEF RootVariants
    <3> QED
      BY <3>2
  <2> QED
    BY <2>1, <2>2
<1> QED
  BY <1>1, <1>2, <1>3 DEF AllPaths

(* The realm rule passes exactly the declared candidates. *)
LEMMA PassedOutcomes ==
    ASSUME NEW c \in ToSet(correlations)
    PROVE  <<"require-declared-realm-candidate", c>> \in Outcomes("pass")
              <=> RealmOutcome(c) = "pass"
<1>1. \A d : <<"require-declared-realm-candidate", c>> = <<"require-declared-realm-candidate", d>>
                <=> c = d
  OBVIOUS
<1>2. \A d : <<"require-declared-realm-candidate", c>> # <<"forbid-ambiguous-system-correlation", d>>
  OBVIOUS
<1> QED
  BY <1>1, <1>2 DEF Outcomes

LEMMA RealmRule ==
    ASSUME Accepted, EndpointsInv, CorrelationsInv(Producers, Lonely(Consumers)),
           NEW c \in ToSet(correlations)
    PROVE  RealmOutcome(c) = "pass" <=> \E p \in Paths : p.correlation = c
<1>1. RealmOutcome(c) = "pass" <=> c.producer # NoEndpoint /\ c.state = "declared_realm_candidate"
  BY DEF RealmOutcome
<1>2. c \in Declared <=> c.state = "declared_realm_candidate"
  BY DEF Declared
<1>3. ASSUME c \in Declared PROVE c.producer # NoEndpoint /\ c.consumers # {}
  <2>1. PICK p \in Producers : c.producer = p.id
    BY <1>3, DeclaredKnown
  <2>2. p.id # NoEndpoint
    BY EndpointsKnown DEF Producers
  <2> QED
    BY <1>3, <2>1, <2>2, MembersDeclared
<1>4. ASSUME NEW p \in Paths, p.correlation = c PROVE c \in Declared
  BY <1>4, PathKnown
<1> QED
  BY <1>1, <1>2, <1>3, <1>4, PathsAreComplete

(* Nothing else is displayed while a node of a path is not. *)
LEMMA PathsFirst ==
    ASSUME Accepted, EndpointsInv, CorrelationsInv(Producers, Lonely(Consumers)),
           NEW selected \in FirstOf(Nodes, MaxNodes, [x \in Nodes |-> NodePriority(x, OnPaths)])
    PROVE  LET shown == {x.id : x \in Shown(selected)}
           IN  OnPaths \subseteq shown \/ shown \subseteq OnPaths
<1> DEFINE shown == {x.id : x \in Shown(selected)}
<1>1. /\ selected \subseteq Nodes
      /\ \A x \in selected, y \in Nodes \ selected :
            NodePriority(x, OnPaths) <= NodePriority(y, OnPaths)
  BY DEF FirstOf
<1>2. \A x : /\ x.id \in OnPaths => NodePriority(x, OnPaths) \in {0, 1}
             /\ x.id \notin OnPaths => NodePriority(x, OnPaths) \in {2, 3, 4}
  BY DEF NodePriority
<1>3. ASSUME NEW n \in OnPaths
      PROVE  (\E x \in Nodes : x.id = n) /\ ParentOf(n) \subseteq OnPaths
  <2>1. PICK p \in Paths : n \in OnPath(p)
    BY DEF OnPaths
  <2>2. PICK c \in Declared : \E id \in c.consumers : \E roots \in RootVariants(c.producer) :
           p = PathOf(c, id, roots)
    BY PathKnown
  <2>3. PICK id \in c.consumers : \E roots \in RootVariants(c.producer) : p = PathOf(c, id, roots)
    BY <2>2
  <2>4. PICK roots \in RootVariants(c.producer) : p = PathOf(c, id, roots)
    BY <2>3
  <2>5. (\E x \in Contributions : x.id = n) /\ ParentOf(n) \subseteq OnPath(p)
    BY <2>1, <2>4, OnPathKnown
  <2> QED
    BY <2>5, NodesKnown DEF OnPaths
<1>4. CASE \E x \in selected : x.id \notin OnPaths
  <2>1. PICK x \in selected : x.id \notin OnPaths
    BY <1>4
  <2>2. ASSUME NEW y \in Nodes, y.id \in OnPaths PROVE y \in selected
    <3>1. NodePriority(x, OnPaths) \in {2, 3, 4} /\ NodePriority(y, OnPaths) \in {0, 1}
      BY <1>2, <2>1, <2>2
    <3>2. ~ NodePriority(x, OnPaths) <= NodePriority(y, OnPaths)
      BY <3>1
    <3> QED
      BY <1>1, <3>2
  <2>3. ASSUME NEW n \in OnPaths PROVE \E y \in Shown(selected) : y.id = n
    <3>1. PICK y \in selected : y.id = n
      BY <1>3, <2>2
    <3>2. y.parent = ParentOf(n)
      BY <1>1, <3>1, NodesKnown, ContributionsKnown DEF WellFormed
    <3>3. \A m \in y.parent : \E z \in selected : z.id = m
      BY <1>3, <2>2, <3>2
    <3>4. y \in Shown(selected)
      BY <3>1, <3>3 DEF Shown
    <3> QED
      BY <3>1, <3>4
  <2>4. OnPaths \subseteq shown
    BY <2>3
  <2> QED
    BY <2>4
<1>5. CASE \A x \in selected : x.id \in OnPaths
  <2>1. shown \subseteq OnPaths
    BY <1>5 DEF Shown
  <2> QED
    BY <2>1
<1> QED
  BY <1>4, <1>5

(* The report as it is built keeps all its promises. *)
LEMMA BuiltIsHonest ==
    ASSUME Accepted, EndpointsInv, CorrelationsInv(Producers, Lonely(Consumers)),
           NEW rep, Built(rep)
    PROVE  HonestDocument(rep)
<1>1. PICK selected \in FirstOf(Nodes, MaxNodes, [x \in Nodes |-> NodePriority(x, OnPaths)]) :
         rep.shownNodes = Shown(selected)
  BY DEF Built
<1>2. rep.paths = Paths /\ rep.passed = Outcomes("pass")
  BY DEF Built
<1>3. OnPaths \subseteq {x.id : x \in Shown(selected)} \/ {x.id : x \in Shown(selected)} \subseteq OnPaths
  BY PathsFirst
<1>4. OnPaths = UNION {OnPath(p) : p \in Paths}
  BY DEF OnPaths
<1>5. \A p \in Paths : HonestPath(p)
  BY PathIsHonest
<1>6. \A c \in Declared : AllPaths(c, Paths)
  BY PathsAreComplete
<1>7. \A c \in ToSet(correlations) :
         <<"require-declared-realm-candidate", c>> \in Outcomes("pass")
            <=> \E p \in Paths : p.correlation = c
  BY PassedOutcomes, RealmRule
<1> QED
  BY <1>1, <1>2, <1>3, <1>4, <1>5, <1>6, <1>7 DEF HonestDocument

(* A document stays what it is while nothing that it is about changes. *)
LEMMA SameDocument ==
    ASSUME input' = input, endpoints' = endpoints, correlations' = correlations
    PROVE  \A rep : /\ ValidDocument(rep)' <=> ValidDocument(rep)
                    /\ HonestDocument(rep)' <=> HonestDocument(rep)
<1>1. /\ Records' = Records /\ Declared' = Declared /\ Consumers' = Consumers
      /\ ToSet(correlations)' = ToSet(correlations)
  BY SameRecords, SameEndpoints DEF Declared
<1>2. \A id : SourceOf(id)' = SourceOf(id)
  BY <1>1 DEF SourceOf
<1>3. \A id : EndpointOf(id)' = EndpointOf(id)
  BY DEF EndpointOf
<1>4. \A id, alias : Bound(id, alias)' <=> Bound(id, alias)
  BY <1>2 DEF Bound
<1>5. \A p : HiddenBySharedRoute(p)' <=> HiddenBySharedRoute(p)
  BY <1>2 DEF HiddenBySharedRoute
<1>6. \A p : HonestPath(p)' <=> HonestPath(p)
  BY <1>1, <1>2, <1>3, <1>4, <1>5 DEF HonestPath
<1>7. \A c, paths : AllPaths(c, paths)' <=> AllPaths(c, paths)
  BY <1>2 DEF AllPaths
<1>8. \A rep : ValidDocument(rep)' <=> ValidDocument(rep)
  BY <1>1 DEF ValidDocument
<1>9. \A rep : HonestDocument(rep)' <=> HonestDocument(rep)
  BY <1>1, <1>6, <1>7 DEF HonestDocument
<1> QED
  BY <1>8, <1>9

-----------------------------------------------------------------------------
(* The invariant of the command.                                            *)

ReportInv == pc = "write_report" => ValidDocument(report) /\ HonestDocument(report)

IInv == StitchInv /\ BatchesInv /\ ReportInv

(* Building the report changes nothing of the correlation ... *)
LEMMA BuildKeeps ==
    ASSUME IInv, BuildReport
    PROVE  StitchInv' /\ ReportInv'
<1>1. /\ pc = "report" /\ pc' = "write_report" /\ input' = input /\ cursor' = cursor
      /\ endpoints' = endpoints /\ correlations' = correlations /\ consumed' = consumed
  BY DEF BuildReport
<1>2. /\ Accepted /\ EndpointsInv /\ CorrelationsInv(Producers, Lonely(Consumers))
      /\ input \in Inputs /\ cursor \in Nat \ {0}
  BY <1>1 DEF IInv, StitchInv, Stitched
<1>3. StitchInv'
  <2>1. CorrelationsInv(Producers, Lonely(Consumers))'
    BY <1>1, <1>2, SameCorrelations
  <2> QED
    BY <1>1, <1>2, <2>1, SameCorrelations DEF StitchInv, Stitching, Stitched
<1>4. ValidDocument(report') /\ HonestDocument(report')
  BY <1>2, BuiltKnown, BuiltIsValid, BuiltIsHonest
<1>5. ReportInv'
  <2>1. ValidDocument(report)' /\ HonestDocument(report)'
    BY <1>1, <1>4, SameDocument
  <2> QED
    BY <2>1 DEF ReportInv
<1> QED
  BY <1>3, <1>5

(* ... and neither do the publications and their ends. *)
LEMMA OthersKeep ==
    ASSUME IInv, \/ BeginCommit \/ PlaceFile \/ Continue \/ WriteFails \/ Cancel \/ Signal
                 \/ UNCHANGED vars
    PROVE  StitchInv' /\ ReportInv'
<1>1. /\ input' = input /\ endpoints' = endpoints /\ correlations' = correlations
      /\ consumed' = consumed /\ report' = report
  BY DEF BeginCommit, PlaceFile, Continue, WriteFails, Cancel, Signal, vars, stitchVars, Unchanged
<1>2. input \in Inputs /\ cursor \in Nat \ {0}
      /\ (pc = "invalid" => NameUnchecked' \/ ContractUnchecked')
  BY <1>1, SameQuestions DEF IInv, StitchInv
<1>3. cursor' \in Nat \ {0}
  BY <1>2 DEF BeginCommit, PlaceFile, Continue, WriteFails, Cancel, Signal, vars, stitchVars, Unchanged
<1>4. \/ pc' = pc /\ cursor' = cursor
      \/ pc \in Stitched /\ pc' \in Stitched /\ (pc' = "write_report" => pc = "write_report")
      \/ pc' \in {"success", "failed", "canceled"}
  BY DEF BeginCommit, PlaceFile, Continue, WriteFails, Cancel, Signal, vars, stitchVars, Phase,
         Stitched
<1>5. ReportInv'
  <2>1. SUFFICES ASSUME pc' = "write_report" PROVE ValidDocument(report)' /\ HonestDocument(report)'
    BY DEF ReportInv
  <2>2. pc = "write_report"
    BY <1>4, <2>1
  <2> QED
    BY <1>1, <2>2, SameDocument DEF IInv, ReportInv
<1>6. CASE pc' = pc /\ cursor' = cursor
  <2>1. (Accepted' <=> Accepted) /\ (EndpointsInv' <=> EndpointsInv)
        /\ Producers' = Producers /\ Consumers' = Consumers
        /\ \A P : Lonely(P)' = Lonely(P)
    BY <1>1, SameCorrelations
  <2>2. Passed' = Passed
    BY <1>1, <1>6 DEF Passed
  <2>3. ProjectedInv' <=> ProjectedInv
    BY <1>1, <1>6, SameRecords DEF ProjectedInv
  <2>4. \A P, D : CorrelationsInv(P, D)' <=> CorrelationsInv(P, D)
    BY <1>1, SameCorrelations
  <2>5. CorrelationsInv(Passed \cap Producers, {})' <=> CorrelationsInv(Passed \cap Producers, {})
    <3>1. (Passed \cap Producers)' = Passed \cap Producers
      BY <2>1, <2>2
    <3> QED
      BY <2>4, <3>1
  <2>6. CorrelationsInv(Producers, Lonely(Passed \cap Consumers))'
           <=> CorrelationsInv(Producers, Lonely(Passed \cap Consumers))
    <3>1. Lonely(Passed \cap Consumers)' = Lonely(Passed \cap Consumers)
      BY <2>1, <2>2
    <3> QED
      BY <2>1, <2>4, <3>1
  <2>7. CorrelationsInv(Producers, Lonely(Consumers))'
           <=> CorrelationsInv(Producers, Lonely(Consumers))
    <3>1. Lonely(Consumers)' = Lonely(Consumers)
      BY <2>1
    <3> QED
      BY <2>1, <2>4, <3>1
  <2>8. StitchInv
    BY DEF IInv
  <2>9. StitchInv'
    BY <1>1, <1>2, <1>3, <1>6, <2>1, <2>3, <2>5, <2>6, <2>7, <2>8 DEF StitchInv
  <2> QED
    BY <1>5, <2>9
<1>7. CASE pc \in Stitched /\ pc' \in Stitched
  <2>1. /\ Accepted /\ EndpointsInv /\ CorrelationsInv(Producers, Lonely(Consumers))
    BY <1>7 DEF IInv, StitchInv
  <2>2. CorrelationsInv(Producers, Lonely(Consumers))'
    BY <1>1, <2>1, SameCorrelations
  <2>3. StitchInv'
    BY <1>1, <1>2, <1>3, <1>7, <2>1, <2>2, SameCorrelations DEF StitchInv, Stitching, Stitched
  <2> QED
    BY <1>5, <2>3
<1>8. CASE pc' \in {"success", "failed", "canceled"}
  BY <1>1, <1>2, <1>3, <1>5, <1>8 DEF StitchInv, Stitching, Stitched
<1> QED
  BY <1>4, <1>6, <1>7, <1>8

(* Every step keeps the invariant. *)
LEMMA Invariance == Spec => []IInv
<1>1. Init => StitchInv /\ ReportInv
  BY DEF Init, StitchInit, StitchInv, Stitching, Stitched, ReportInv
<1>2. ASSUME IInv, [Next]_vars PROVE StitchInv' /\ ReportInv'
  <2>1. CASE StitchStep
    <3>1. Stitch /\ report' = report
      BY <2>1 DEF StitchStep
    <3>2. pc' # "write_report"
      BY <3>1 DEF Stitch, Phase, LoadTopology, MakeServices, SkipRecord, ProjectEndpoint,
                  EndProjection, CorrelateProducer, EndProducers, CorrelateConsumer, EndConsumers
    <3> QED
      BY <1>2, <3>1, <3>2, StitchKeeps DEF IInv, ReportInv
  <2>2. CASE BuildReport
    BY <1>2, <2>2, BuildKeeps
  <2>3. CASE \/ BeginCommit \/ PlaceFile \/ Continue \/ WriteFails \/ Cancel \/ Signal
             \/ UNCHANGED vars
    BY <1>2, <2>3, OthersKeep
  <2> QED
    BY <1>2, <2>1, <2>2, <2>3 DEF Next
<1>3. IInv /\ [Next]_vars /\ BatchesInv' => IInv'
  BY <1>2 DEF IInv
<1>4. Init /\ BatchesInv => IInv
  BY <1>1 DEF IInv
<1> QED
  BY <1>3, <1>4, BatchesInvariance, PTL DEF Spec

(* Input that is accepted is stitched, whatever the services and the manifest say: the
   system document is thrown out by its own validation (stitch.ts) only for a name
   that was given without a manifest and is no identifier, or for a contract of a
   service that is too long; and the report relates nothing it does not have. *)
THEOREM AcceptedInputIsStitched == Spec => []DocumentsAreValid
<1>1. IInv => DocumentsAreValid
  <2>1. ValidDocument(report) => ValidReport
    BY DEF ValidDocument, ValidReport
  <2> QED
    BY <2>1 DEF IInv, StitchInv, ReportInv, DocumentsAreValid
<1> QED
  BY <1>1, Invariance, PTL

(* A conditional path is what the manifest and the analyses say of it, every consumer
   and root of a declared candidate has one, the realm rule passes exactly the
   producers that have one, and the paths are displayed before anything else. It is
   complete only if nothing on it is diagnosed or ambiguous, other than a step on the
   way to the producer, which project.ts does not look at. *)
THEOREM PathsHonest == Spec => []PathsAreHonest
<1>1. IInv => PathsAreHonest
  <2>1. HonestDocument(report) /\ pc = "write_report" => PathsAreHonest
    BY DEF HonestDocument, HonestPath, AllPaths, PathsAreHonest
  <2> QED
    BY <2>1 DEF IInv, ReportInv, PathsAreHonest
<1> QED
  BY <1>1, Invariance, PTL

(* A producer is in its own correlation and in no other; a consumer is alone exactly
   if nobody reaches it, and is in some correlation. *)
LEMMA OfProducer ==
    ASSUME Accepted, EndpointsInv, CorrelationsInv(Producers, Lonely(Consumers)),
           NEW p \in Producers
    PROVE  Of(p.id) = {CorrelationOf(p)}
<1>1. /\ Producers \subseteq ToSet(endpoints) /\ Consumers \subseteq ToSet(endpoints)
      /\ Producers \cap Consumers = {}
      /\ \A e \in ToSet(endpoints) : e.id # NoEndpoint
      /\ \A e, d \in ToSet(endpoints) : e.id = d.id => e = d
  BY EndpointsKnown DEF Producers, Consumers
<1>2. \A d \in Consumers : d.id # p.id
  BY <1>1
<1>3. ASSUME NEW q \in Producers
      PROVE  CorrelationOf(q) \in Of(p.id) <=> q = p
  <2>1. /\ CorrelationOf(q).producer = q.id
        /\ CorrelationOf(q).consumers = IF q.eligible THEN Ids(Candidates(q)) ELSE {}
    BY CorrelationSays
  <2>2. p.id \notin CorrelationOf(q).consumers
    <3>1. \A d \in Candidates(q) : d.id # p.id
      BY <1>2, ProducerKnown
    <3> QED
      BY <2>1, <3>1 DEF Ids
  <2>3. CorrelationOf(q) \in ToSet(correlations)
    BY DEF CorrelationsInv
  <2>4. q.id = p.id <=> q = p
    BY <1>1
  <2> QED
    BY <2>1, <2>2, <2>3, <2>4 DEF Of
<1>4. ASSUME NEW d \in Lonely(Consumers) PROVE Alone(d) \notin Of(p.id)
  <2>1. d \in Consumers
    BY DEF Lonely
  <2>2. Alone(d).producer = NoEndpoint /\ Alone(d).consumers = {d.id}
    BY <2>1, ValidAlone
  <2>3. p.id # NoEndpoint /\ p.id # d.id
    BY <1>1, <1>2, <2>1
  <2> QED
    BY <2>2, <2>3 DEF Of
<1>5. \A c \in Of(p.id) : c \in ToSet(correlations)
  BY DEF Of
<1> QED
  BY <1>3, <1>4, <1>5 DEF CorrelationsInv

LEMMA OfConsumer ==
    ASSUME Accepted, EndpointsInv, CorrelationsInv(Producers, Lonely(Consumers)),
           NEW d \in Consumers
    PROVE  /\ (\E c \in Of(d.id) : c.producer = NoEndpoint) <=> ~ \E p \in Producers : Reaches(p, d)
           /\ Of(d.id) # {}
<1>1. /\ Producers \subseteq ToSet(endpoints) /\ Consumers \subseteq ToSet(endpoints)
      /\ \A e \in ToSet(endpoints) : e.id # NoEndpoint
      /\ \A e, f \in ToSet(endpoints) : e.id = f.id => e = f
  BY EndpointsKnown DEF Producers, Consumers
<1>2. ASSUME NEW p \in Producers
      PROVE  /\ d.id \in Offered(p) <=> Reaches(p, d)
             /\ CorrelationOf(p).producer # NoEndpoint
             /\ CorrelationOf(p) \in ToSet(correlations)
             /\ Offered(p) = CorrelationOf(p).consumers
  <2>1. /\ Offered(p) = IF p.eligible THEN Ids(Candidates(p)) ELSE {}
        /\ Offered(p) = CorrelationOf(p).consumers /\ CorrelationOf(p).producer = p.id
    BY CorrelationSays
  <2>2. d.id \in Ids(Candidates(p)) <=> d \in Candidates(p)
    <3>1. \A e \in Candidates(p) : e.id = d.id => e = d
      BY <1>1, ProducerKnown
    <3> QED
      BY <3>1 DEF Ids
  <2>3. d \in Candidates(p) <=> d.eligible /\ ContractsCompatible(p.contract, d.contract)
    BY CandidatesKnown
  <2>4. d.id \in Offered(p) <=> Reaches(p, d)
    BY <2>1, <2>2, <2>3 DEF Reaches
  <2>5. CorrelationOf(p) \in ToSet(correlations)
    BY DEF CorrelationsInv
  <2> QED
    BY <1>1, <2>1, <2>4, <2>5
<1>3. d \in Lonely(Consumers) <=> ~ \E p \in Producers : Reaches(p, d)
  BY <1>2 DEF Lonely, OfferedBy
<1>4. ASSUME d \in Lonely(Consumers)
      PROVE  Alone(d) \in Of(d.id) /\ Alone(d).producer = NoEndpoint
  <2>1. Alone(d).producer = NoEndpoint /\ Alone(d).consumers = {d.id}
    BY ValidAlone
  <2>2. Alone(d) \in ToSet(correlations)
    BY <1>4 DEF CorrelationsInv
  <2> QED
    BY <2>1, <2>2 DEF Of
<1>5. ASSUME NEW c \in Of(d.id), c.producer = NoEndpoint PROVE d \in Lonely(Consumers)
  <2>1. c \in ToSet(correlations) /\ (c.producer = d.id \/ d.id \in c.consumers)
    BY DEF Of
  <2>2. ~ \E p \in Producers : c = CorrelationOf(p)
    BY <1>2, <1>5
  <2>3. PICK f \in Lonely(Consumers) : c = Alone(f)
    BY <2>1, <2>2 DEF CorrelationsInv
  <2>4. f \in Consumers /\ c.consumers = {f.id}
    BY <2>3, ValidAlone DEF Lonely
  <2>5. d.id = f.id
    BY <1>1, <1>5, <2>1, <2>4
  <2> QED
    BY <1>1, <2>3, <2>4, <2>5
<1>6. ASSUME NEW p \in Producers, Reaches(p, d) PROVE CorrelationOf(p) \in Of(d.id)
  BY <1>2, <1>6 DEF Of
<1> QED
  BY <1>3, <1>4, <1>5, <1>6

(* No endpoint is lost and none is counted twice: a producer has one correlation,
   with all consumers that can take what it sends; a consumer is alone exactly if no
   producer reaches it; and a system without a diagnostic has declared candidates
   only. *)
THEOREM EndpointsAreCorrelated == Spec => []EveryEndpointIsCorrelated
<1>1. ASSUME StitchInv, pc = "write_analysis"
      PROVE  EveryEndpointIsCorrelated
  <2>1. Accepted /\ EndpointsInv /\ CorrelationsInv(Producers, Lonely(Consumers))
    BY <1>1 DEF StitchInv, Stitched
  <2>2. ASSUME NEW p \in Producers
        PROVE  /\ Cardinality(Of(p.id)) = 1
               /\ \A c \in Of(p.id) : c.consumers = {d.id : d \in {d \in Consumers : Reaches(p, d)}}
    <3>1. Of(p.id) = {CorrelationOf(p)}
      BY <2>1, OfProducer
    <3>2. Cardinality(Of(p.id)) = 1
      BY <3>1, FS_Singleton
    <3>3. CorrelationOf(p).consumers = IF p.eligible THEN Ids(Candidates(p)) ELSE {}
      BY CorrelationSays
    <3>4. p.eligible => Candidates(p) = {d \in Consumers : Reaches(p, d)}
      BY CandidatesKnown DEF Reaches
    <3>5. ~ p.eligible => {d \in Consumers : Reaches(p, d)} = {}
      BY DEF Reaches
    <3>6. CorrelationOf(p).consumers = {d.id : d \in {d \in Consumers : Reaches(p, d)}}
      BY <3>3, <3>4, <3>5 DEF Ids
    <3> QED
      BY <3>1, <3>2, <3>6
  <2>3. \A d \in Consumers :
           (\E c \in Of(d.id) : c.producer = NoEndpoint) <=> ~ \E p \in Producers : Reaches(p, d)
    BY <2>1, OfConsumer
  <2>4. ASSUME \A c \in ToSet(correlations) : ~ c.diagnosed, NEW e \in ToSet(endpoints)
        PROVE  Of(e.id) # {} /\ Of(e.id) \subseteq Declared
    <3>1. e \in Producers \/ e \in Consumers
      BY <2>1, EndpointsKnown
    <3>2. Of(e.id) # {}
      BY <2>1, <3>1, OfProducer, OfConsumer
    <3>3. \A c \in ToSet(correlations) : c.state = "declared_realm_candidate"
      <4>1. \A p \in Producers :
               ~ CorrelationOf(p).diagnosed => CorrelationOf(p).state = "declared_realm_candidate"
        BY CorrelationSays
      <4>2. \A d \in Lonely(Consumers) : Alone(d).diagnosed
        BY <2>1, ValidAlone DEF Lonely
      <4> QED
        BY <2>1, <2>4, <4>1, <4>2 DEF CorrelationsInv
    <3> QED
      BY <3>2, <3>3 DEF Of, Declared
  <2> QED
    BY <2>2, <2>3, <2>4 DEF EveryEndpointIsCorrelated
<1>2. IInv => EveryEndpointIsCorrelated
  BY <1>1 DEF IInv, EveryEndpointIsCorrelated
<1> QED
  BY <1>2, Invariance, PTL

=============================================================================
