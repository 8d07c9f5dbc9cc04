----------------------------- MODULE ScanProofs -----------------------------
(***************************************************************************)
(* Proofs about one scan, for any repositories and limits.                 *)
(***************************************************************************)
EXTENDS ScanPipeline, SequenceTheorems, FiniteSetTheorems, WellFoundedInduction, TLAPS

-----------------------------------------------------------------------------
(***************************************************************************)
(* The raw SQL calls, one after the other.                                 *)
(***************************************************************************)
\* What the visitor finds in a call is in the record.
Recorded(k) ==
    \A a \in Accesses(candidates[k].statements) :
        <<candidates[k].method, a[1], a[2], a[3]>> \in sqlAccesses

\* A call that was looked at has one diagnostic or its accesses.
LookedAt(k) ==
    /\ candidates[k].receiver = "ignored" => Reported(k) = {}
    /\ candidates[k].receiver = "ambiguous" => Reported(k) # {}
    /\ candidates[k].receiver = "resolved" => Reported(k) # {} \/ Recorded(k)

FoundIn(access, k) ==
    /\ candidates[k].receiver = "resolved" /\ Reported(k) = {}
    /\ \E a \in Accesses(candidates[k].statements) :
          access = <<candidates[k].method, a[1], a[2], a[3]>>

SqlInv ==
    /\ QueriesAreTyped(candidates)
    /\ cursor \in 1..(Len(candidates) + 1)
    /\ sqlState = "done" => cursor = Len(candidates) + 1
    /\ sqlState = "parsing" => cursor \in 1..Len(candidates) /\ BeforeParse(Candidate) = "parse"
    /\ \A k \in 1..(cursor - 1) : LookedAt(k)
    /\ \A access \in sqlAccesses : \E k \in 1..(cursor - 1) : FoundIn(access, k)
    /\ \A d \in sqlDiagnostics :
          /\ d[2] \in 1..(cursor - 1)
          /\ d[1] = "PARSE_FAILED" => candidates[d[2]].malformed
    /\ \A d, e \in sqlDiagnostics : d[2] = e[2] => d[1] = e[1]

\* The steps of the scan, as the extraction of raw SQL sees them.
LEMMA SqlSteps ==
    ASSUME [Next]_scanVars
    PROVE  \/ UNCHANGED sqlVars
           \/ signal' = TRUE /\ UNCHANGED <<candidates, dialect, cursor, sqlState, sqlAccesses, sqlDiagnostics>>
           \/ StartSql
           \/ ExtractSql
<1>1. CASE UNCHANGED scanVars
  BY <1>1 DEF scanVars
<1>2. CASE Signal
  BY <1>2 DEF Signal
<1>3. CASE StartRawSql \/ RawSqlStep
  BY <1>3 DEF StartRawSql, RawSqlStep
<1>4. CASE Load \/ ModulesThrow \/ RawSqlThrew \/ Assemble
  BY <1>4 DEF Load, Cancel, ModulesThrow, RawSqlThrew, Assemble, Ended
<1>5. CASE ModuleMetadata \/ Guards \/ AuthorizationMetadata \/ Locks \/ Relationships
  BY <1>5 DEF ModuleMetadata, Guards, AuthorizationMetadata, Locks, Relationships, Controls, Extract
<1>6. CASE EagerRequests \/ ServiceRequests \/ Events \/ JobQueues \/ Messages
  BY <1>6 DEF EagerRequests, ServiceRequests, HttpRequests, Events, JobQueues, Messages, Interaction, Extract
<1>7. CASE Persistence \/ SameMethod \/ InterMethod
  BY <1>7 DEF Persistence, SameMethod, InterMethod, Flow, Extract
<1> QED
  BY <1>1, <1>2, <1>3, <1>4, <1>5, <1>6, <1>7 DEF Next

\* One more diagnostic, for the call the loop is at.
LEMMA OneMoreReported ==
    ASSUME SqlInv, NEW code, sqlDiagnostics' = sqlDiagnostics \cup {<<code, cursor>>}
    PROVE  /\ \A k : k = cursor => Reported(k)' = {code}
           /\ \A k \in 1..(cursor - 1) : Reported(k)' = Reported(k)
<1>1. \A d \in sqlDiagnostics : d[2] \in 1..(cursor - 1)
  BY DEF SqlInv
<1>2. cursor \in Nat
  BY SMT DEF SqlInv
<1>3. ASSUME NEW k, k = cursor
      PROVE  Reported(k)' = {code}
  <2>1. <<code, k>> \in sqlDiagnostics' /\ <<code, k>>[1] = code /\ <<code, k>>[2] = k
    BY <1>3
  <2>2. \A d \in sqlDiagnostics' : d[2] = k => d[1] = code
    BY <1>1, <1>2, <1>3
  <2> QED
    BY <2>1, <2>2 DEF Reported
<1>4. ASSUME NEW k \in 1..(cursor - 1)
      PROVE  Reported(k)' = Reported(k)
  BY <1>1, <1>2 DEF Reported
<1> QED
  BY <1>3, <1>4

LEMMA NothingReportedYet ==
    ASSUME SqlInv
    PROVE  Reported(cursor) = {}
<1>1. \A d \in sqlDiagnostics : d[2] \in 1..(cursor - 1)
  BY DEF SqlInv
<1>2. cursor \in Nat
  BY SMT DEF SqlInv
<1> QED
  BY <1>1, <1>2 DEF Reported

\* What was said of the earlier calls stays true while their diagnostics do.
LEMMA EarlierStay ==
    ASSUME SqlInv, candidates' = candidates, sqlAccesses \subseteq sqlAccesses',
           \A k \in 1..(cursor - 1) : Reported(k)' = Reported(k)
    PROVE  /\ \A k \in 1..(cursor - 1) : LookedAt(k)'
           /\ \A access \in sqlAccesses : \E k \in 1..(cursor - 1) : FoundIn(access, k)'
<1>1. ASSUME NEW k \in 1..(cursor - 1)
      PROVE  LookedAt(k)'
  <2>1. LookedAt(k)
    BY DEF SqlInv
  <2>2. Recorded(k) => Recorded(k)'
    BY DEF Recorded
  <2> QED
    BY <2>1, <2>2 DEF LookedAt
<1>2. ASSUME NEW access \in sqlAccesses
      PROVE  \E k \in 1..(cursor - 1) : FoundIn(access, k)'
  <2>1. PICK k \in 1..(cursor - 1) : FoundIn(access, k)
    BY DEF SqlInv
  <2>2. FoundIn(access, k)'
    BY <2>1 DEF FoundIn
  <2> QED
    BY <2>2
<1> QED
  BY <1>1, <1>2

LEMMA ReportKeeps ==
    ASSUME SqlInv, cursor \in 1..Len(candidates), NEW code, Report(code),
           code = "skip" <=> Candidate.receiver = "ignored",
           code = "PARSE_FAILED" => Candidate.malformed
    PROVE  SqlInv'
<1> USE DEF UnchangedInput
<1>0. PICK here : here = cursor
  OBVIOUS
<1>1. /\ candidates' = candidates /\ sqlAccesses' = sqlAccesses
      /\ cursor' = cursor + 1 /\ sqlState' = "looking"
  BY DEF Report
<1>2. /\ QueriesAreTyped(candidates)
      /\ cursor \in Nat /\ cursor >= 1
      /\ Len(candidates) \in Nat
  BY LenProperties DEF SqlInv, QueriesAreTyped
<1>3. \A k \in 1..cursor : k \in 1..(cursor - 1) \/ k = cursor
  BY <1>2
<1>4. /\ \A k \in 1..(cursor - 1) : Reported(k)' = Reported(k)
      /\ code = "skip" => Reported(here)' = {}
      /\ code # "skip" => Reported(here)' = {code}
  <2>1. CASE code = "skip"
    <3>1. sqlDiagnostics' = sqlDiagnostics
      BY <2>1 DEF Report
    <3>2. \A k : Reported(k)' = Reported(k)
      BY <3>1 DEF Reported
    <3> QED
      BY <1>0, <2>1, <3>2, NothingReportedYet
  <2>2. CASE code # "skip"
    <3>1. sqlDiagnostics' = sqlDiagnostics \cup {<<code, cursor>>}
      BY <2>2 DEF Report
    <3> QED
      BY <1>0, <2>2, <3>1, OneMoreReported
  <2> QED
    BY <2>1, <2>2
<1>5. LookedAt(here)'
  BY <1>0, <1>1, <1>2, <1>4 DEF LookedAt, Candidate
<1>6. \A k \in 1..(cursor' - 1) : LookedAt(k)'
  BY <1>0, <1>1, <1>2, <1>3, <1>4, <1>5, EarlierStay
<1>7. \A access \in sqlAccesses' : \E k \in 1..(cursor' - 1) : FoundIn(access, k)'
  BY <1>1, <1>2, <1>4, EarlierStay
<1>8. \A d \in sqlDiagnostics' : d \in sqlDiagnostics \/ d = <<code, cursor>>
  BY DEF Report
<1>9. /\ \A d \in sqlDiagnostics : d[2] \in 1..(cursor - 1) /\ (d[1] = "PARSE_FAILED" => candidates[d[2]].malformed)
      /\ \A d, e \in sqlDiagnostics : d[2] = e[2] => d[1] = e[1]
  BY DEF SqlInv
<1>10. \A d \in sqlDiagnostics' :
          /\ d[2] \in 1..(cursor' - 1)
          /\ d[1] = "PARSE_FAILED" => candidates'[d[2]].malformed
  BY <1>1, <1>2, <1>8, <1>9 DEF Candidate
<1>11. \A d, e \in sqlDiagnostics' : d[2] = e[2] => d[1] = e[1]
  BY <1>2, <1>8, <1>9
<1>12. cursor' \in 1..(Len(candidates') + 1)
  BY <1>1, <1>2
<1> QED
  BY <1>1, <1>2, <1>6, <1>7, <1>10, <1>11, <1>12 DEF SqlInv

\* The accesses of the call the loop is at, all of them.
LEMMA ResolveKeeps ==
    ASSUME SqlInv, sqlState = "parsing", cursor' = cursor + 1, sqlState' = "looking",
           sqlAccesses' = sqlAccesses \cup
               {<<Candidate.method, a[1], a[2], a[3]>> : a \in Accesses(Candidate.statements)},
           UNCHANGED <<candidates, sqlDiagnostics>>
    PROVE  SqlInv'
<1>0. PICK here : here = cursor
  OBVIOUS
<1>1. /\ QueriesAreTyped(candidates)
      /\ cursor \in Nat /\ cursor >= 1 /\ cursor <= Len(candidates)
      /\ Len(candidates) \in Nat
  BY LenProperties DEF SqlInv, QueriesAreTyped
<1>2. \A k \in 1..cursor : k \in 1..(cursor - 1) \/ k = cursor
  BY <1>1
<1>3. Candidate.receiver = "resolved"
  <2>1. BeforeParse(Candidate) = "parse"
    BY DEF SqlInv
  <2>2. Candidate.receiver \in {"ignored", "ambiguous", "resolved"}
    BY <1>1, LenProperties DEF QueriesAreTyped, Candidate
  <2> QED
    BY <2>1, <2>2 DEF BeforeParse
<1>4. \A k : Reported(k)' = Reported(k)
  BY DEF Reported
<1>5. Recorded(here)'
  BY <1>0 DEF Recorded, Candidate
<1>6. LookedAt(here)'
  BY <1>0, <1>3, <1>5 DEF LookedAt, Candidate
<1>7. \A k \in 1..(cursor' - 1) : LookedAt(k)'
  BY <1>0, <1>1, <1>2, <1>4, <1>6, EarlierStay
<1>8. ASSUME NEW access \in sqlAccesses'
      PROVE  \E k \in 1..(cursor' - 1) : FoundIn(access, k)'
  <2>1. CASE access \in sqlAccesses
    BY <2>1, <1>1, <1>4, EarlierStay
  <2>2. CASE access \in {<<Candidate.method, a[1], a[2], a[3]>> : a \in Accesses(Candidate.statements)}
    <3>1. FoundIn(access, here)'
      BY <1>0, <2>2, <1>3, <1>4, NothingReportedYet DEF FoundIn, Candidate
    <3> QED
      BY <1>0, <3>1, <1>1
  <2> QED
    BY <2>1, <2>2
<1>9. \A d \in sqlDiagnostics' :
          /\ d[2] \in 1..(cursor' - 1)
          /\ d[1] = "PARSE_FAILED" => candidates'[d[2]].malformed
  BY <1>1 DEF SqlInv
<1>10. \A d, e \in sqlDiagnostics' : d[2] = e[2] => d[1] = e[1]
  BY DEF SqlInv
<1>11. cursor' \in 1..(Len(candidates') + 1)
  BY <1>1
<1> QED
  BY <1>1, <1>7, <1>8, <1>9, <1>10, <1>11 DEF SqlInv

\* A step that moves the loop's state and nothing else.
LEMMA StateStepKeeps ==
    ASSUME SqlInv, UNCHANGED <<candidates, dialect, cursor, sqlAccesses, sqlDiagnostics>>,
           sqlState' = "done" => cursor = Len(candidates) + 1,
           sqlState' = "parsing" => cursor \in 1..Len(candidates) /\ BeforeParse(Candidate) = "parse"
    PROVE  SqlInv'
<1>1. \A k : Reported(k)' = Reported(k)
  BY DEF Reported
<1>2. /\ \A k \in 1..(cursor - 1) : LookedAt(k)'
      /\ \A access \in sqlAccesses : \E k \in 1..(cursor - 1) : FoundIn(access, k)'
  BY <1>1, EarlierStay
<1>3. Candidate' = Candidate
  BY DEF Candidate
<1>4. BeforeParse(Candidate)' = BeforeParse(Candidate)
  BY <1>3 DEF BeforeParse
<1> QED
  BY <1>2, <1>4 DEF SqlInv

LEMMA ExtractSqlKeeps ==
    ASSUME SqlInv, ExtractSql
    PROVE  SqlInv'
<1> USE DEF UnchangedInput
<1>1. /\ cursor \in Nat /\ cursor >= 1 /\ cursor <= Len(candidates) + 1
      /\ Len(candidates) \in Nat
      /\ \A k \in DOMAIN candidates : candidates[k].receiver \in {"ignored", "ambiguous", "resolved"}
      /\ DOMAIN candidates = 1..Len(candidates)
  BY LenProperties DEF SqlInv, QueriesAreTyped
<1>2. Throw => SqlInv'
  BY StateStepKeeps DEF Throw
<1>3. CASE LookAtCandidate
  <2>1. cursor \in 1..Len(candidates)
    BY <1>1, <1>3 DEF LookAtCandidate
  <2>2. CASE signal
    BY <1>2, <1>3, <2>2 DEF LookAtCandidate
  <2>3. CASE ~signal /\ BeforeParse(Candidate) = "parse"
    BY <2>1, <2>3, <1>3, StateStepKeeps DEF LookAtCandidate
  <2>4. CASE ~signal /\ BeforeParse(Candidate) # "parse"
    <3>1. Report(BeforeParse(Candidate))
      BY <2>4, <1>3 DEF LookAtCandidate
    <3>2. BeforeParse(Candidate) = "skip" <=> Candidate.receiver = "ignored"
      BY DEF BeforeParse
    <3>3. BeforeParse(Candidate) # "PARSE_FAILED"
      BY DEF BeforeParse
    <3> QED
      BY <2>1, <3>1, <3>2, <3>3, ReportKeeps
  <2> QED
    BY <2>2, <2>3, <2>4
<1>4. CASE EndSql
  BY <1>1, <1>2, <1>4, StateStepKeeps DEF EndSql
<1>5. ASSUME sqlState = "parsing"
      PROVE  cursor \in 1..Len(candidates) /\ Candidate.receiver = "resolved"
  <2>1. cursor \in 1..Len(candidates) /\ BeforeParse(Candidate) = "parse"
    BY <1>5 DEF SqlInv
  <2>2. Candidate.receiver \in {"ignored", "ambiguous", "resolved"}
    BY <1>1, <2>1 DEF Candidate
  <2> QED
    BY <2>1, <2>2 DEF BeforeParse
<1>6. CASE ParserWins
  <2>1. PICK late \in BOOLEAN :
          IF AfterParse(Candidate, late) # "resolved" THEN Report(AfterParse(Candidate, late))
          ELSE /\ sqlAccesses' = sqlAccesses \cup
                      {<<Candidate.method, a[1], a[2], a[3]>> : a \in Accesses(Candidate.statements)}
               /\ cursor' = cursor + 1 /\ sqlState' = "looking"
               /\ UNCHANGED <<signal, sqlDiagnostics>> /\ UnchangedInput
    BY <1>6 DEF ParserWins
  <2>2. CASE AfterParse(Candidate, late) # "resolved"
    <3>1. AfterParse(Candidate, late) \notin {"skip", "PARSE_FAILED"}
      BY DEF AfterParse
    <3> QED
      BY <2>1, <2>2, <3>1, <1>5, <1>6, ReportKeeps DEF ParserWins
  <2>3. CASE AfterParse(Candidate, late) = "resolved"
    BY <2>1, <2>3, <1>6, ResolveKeeps DEF ParserWins
  <2> QED
    BY <2>2, <2>3
<1>7. CASE ParserRejects
  BY <1>2, <1>5, <1>7, ReportKeeps DEF ParserRejects, Failed
<1>8. CASE AbortWins
  BY <1>2, <1>8 DEF AbortWins, Failed
<1>9. CASE DeadlineWins
  BY <1>2, <1>5, <1>9, ReportKeeps DEF DeadlineWins, Failed
<1> QED
  BY <1>3, <1>4, <1>6, <1>7, <1>8, <1>9 DEF ExtractSql

LEMMA SqlInvHolds ==
    Spec => []SqlInv
<1>1. ScanInit => SqlInv
  <2> SUFFICES ASSUME ScanInit
               PROVE  SqlInv
    OBVIOUS
  <2>1. PICK family \in Repositories : \E r \in family : candidates = r.candidates
    BY DEF ScanInit
  <2>2. QueriesAreTyped(candidates)
    BY <2>1, RepositoriesAssumption
  <2>3. cursor = 1 /\ sqlState = "idle" /\ sqlAccesses = {} /\ sqlDiagnostics = {}
    BY DEF ScanInit
  <2>4. Len(candidates) \in Nat
    BY <2>2, LenProperties DEF QueriesAreTyped
  <2> QED
    BY <2>2, <2>3, <2>4 DEF SqlInv
<1>2. SqlInv /\ [Next]_scanVars => SqlInv'
  <2> SUFFICES ASSUME SqlInv, [Next]_scanVars
               PROVE  SqlInv'
    OBVIOUS
  <2>1. CASE UNCHANGED sqlVars
    <3>1. UNCHANGED <<candidates, dialect, cursor, sqlState, sqlAccesses, sqlDiagnostics>>
      BY <2>1 DEF sqlVars
    <3> QED
      BY <3>1, StateStepKeeps DEF SqlInv
  <2>2. CASE UNCHANGED <<candidates, dialect, cursor, sqlState, sqlAccesses, sqlDiagnostics>>
    BY <2>2, StateStepKeeps DEF SqlInv
  <2>3. CASE StartSql
    BY <2>3, StateStepKeeps DEF StartSql, UnchangedInput
  <2>4. CASE ExtractSql
    BY <2>4, ExtractSqlKeeps
  <2> QED
    BY <2>1, <2>2, <2>3, <2>4, SqlSteps
<1> QED
  BY <1>1, <1>2, PTL DEF Spec

\* What the visitor takes for a table is one; without a shadowed name it also
\* finds all of them.
LEMMA VisitorIsRight ==
    ASSUME NEW tree
    PROVE  /\ Accesses(tree) \subseteq ReallyAccessed(tree)
           /\ ~Shadowed(tree) => ReallyAccessed(tree) \subseteq Accesses(tree)
<1>1. \A i : Visible(tree, i) \subseteq CtesInScope(tree, i)
  BY DEF Visible, CtesInScope
<1>2. Accesses(tree) \subseteq ReallyAccessed(tree)
  BY <1>1 DEF Accesses, AccessesOf, ReallyAccessed
<1>3. ASSUME ~Shadowed(tree)
      PROVE  ReallyAccessed(tree) \subseteq Accesses(tree)
  BY <1>3 DEF Accesses, AccessesOf, ReallyAccessed, Shadowed
<1> QED
  BY <1>2, <1>3

\* Every raw SQL call of any repository is explained by one diagnostic or by
\* exactly the tables PostgreSQL touches, whoever wins the races of the parse.
THEOREM QueriesAreExplained ==
    Spec => []EveryQueryIsExplained
<1>1. SqlInv => EveryQueryIsExplained
  <2> SUFFICES ASSUME SqlInv
               PROVE  EveryQueryIsExplained
    OBVIOUS
  <2>1. \A d \in sqlDiagnostics : d[1] = "PARSE_FAILED" => candidates[d[2]].malformed
    BY DEF SqlInv
  <2>2. ASSUME sqlState = "done"
        PROVE  \A k \in DOMAIN candidates : k \in 1..(cursor - 1)
    BY <2>2, LenProperties DEF SqlInv, QueriesAreTyped
  <2>3. ASSUME sqlState = "done", NEW k \in DOMAIN candidates
        PROVE  LET c == candidates[k]
                   real == {<<c.method, a[1], a[2], a[3]>> : a \in ReallyAccessed(c.statements)}
               IN  IF c.receiver = "ignored" THEN Reported(k) = {}
                   ELSE IF Reported(k) # {} THEN Cardinality(Reported(k)) = 1
                   ELSE ~Shadowed(c.statements) => real \subseteq sqlAccesses
    <3>1. LookedAt(k)
      BY <2>2, <2>3 DEF SqlInv
    <3>2. candidates[k].receiver \in {"ignored", "ambiguous", "resolved"}
      BY DEF SqlInv, QueriesAreTyped
    <3>3. ASSUME Reported(k) # {}
          PROVE  Cardinality(Reported(k)) = 1
      <4>1. PICK d \in sqlDiagnostics : d[2] = k
        BY <3>3 DEF Reported
      <4>2. Reported(k) = {d[1]}
        BY <4>1 DEF Reported, SqlInv
      <4> QED
        BY <4>2, FS_Singleton
    <3>4. ASSUME Recorded(k), ~Shadowed(candidates[k].statements)
          PROVE  {<<candidates[k].method, a[1], a[2], a[3]>> : a \in ReallyAccessed(candidates[k].statements)}
                    \subseteq sqlAccesses
      BY <3>4, VisitorIsRight DEF Recorded
    <3> QED
      BY <3>1, <3>2, <3>3, <3>4 DEF LookedAt
  <2>4. ASSUME sqlState = "done", NEW access \in sqlAccesses
        PROVE  \E k \in DOMAIN candidates :
                  /\ candidates[k].receiver = "resolved" /\ Reported(k) = {}
                  /\ \E a \in ReallyAccessed(candidates[k].statements) :
                        access = <<candidates[k].method, a[1], a[2], a[3]>>
    <3>1. PICK k \in 1..(cursor - 1) : FoundIn(access, k)
      BY DEF SqlInv
    <3>2. k \in DOMAIN candidates
      BY <2>4, LenProperties DEF SqlInv, QueriesAreTyped
    <3> QED
      BY <3>1, <3>2, VisitorIsRight DEF FoundIn
  <2> QED
    BY <2>1, <2>3, <2>4 DEF EveryQueryIsExplained
<1> QED
  BY <1>1, SqlInvHolds, PTL

-----------------------------------------------------------------------------
(***************************************************************************)
(* What a scan returns.                                                    *)
(***************************************************************************)
LEMMA FlatReverse ==
    ASSUME NEW collections, collections \in Seq(ToSet(collections))
    PROVE  Flat(Reverse(collections)) = Flat(collections)
<1>1. /\ Len(collections) \in Nat /\ DOMAIN collections = 1..Len(collections)
  BY LenProperties
<1>2. /\ DOMAIN Reverse(collections) = 1..Len(collections)
      /\ \A i \in 1..Len(collections) : Reverse(collections)[i] = collections[(Len(collections) - i) + 1]
  BY DEF Reverse
<1>3. ASSUME NEW i \in 1..Len(collections)
      PROVE  /\ (Len(collections) - i) + 1 \in 1..Len(collections)
             /\ (Len(collections) - ((Len(collections) - i) + 1)) + 1 = i
  BY <1>1
<1>4. Range(Reverse(collections)) = Range(collections)
  <2>1. ASSUME NEW x \in Range(Reverse(collections))
        PROVE  x \in Range(collections)
    BY <1>1, <1>2, <1>3 DEF Range
  <2>2. ASSUME NEW x \in Range(collections)
        PROVE  x \in Range(Reverse(collections))
    <3>1. PICK i \in 1..Len(collections) : x = collections[i]
      BY <1>1 DEF Range
    <3>2. x = Reverse(collections)[(Len(collections) - i) + 1]
      BY <1>2, <1>3, <3>1
    <3> QED
      BY <1>2, <1>3, <3>2 DEF Range
  <2> QED
    BY <2>1, <2>2
<1> QED
  BY <1>4 DEF Flat

\* The merge does not see in which order the records come.
LEMMA MergeReverse ==
    ASSUME NEW collections, collections \in Seq(ToSet(collections))
    PROVE  MergeAssertions(Reverse(collections)) = MergeAssertions(collections)
<1>1. Flat(Reverse(collections)) = Flat(collections)
  BY FlatReverse
<1>2. \A id : MergedSites(Reverse(collections), id) = MergedSites(collections, id)
  BY <1>1 DEF MergedSites
<1> QED
  BY <1>1, <1>2 DEF MergeAssertions

LEMMA ContributionsTyped ==
    ASSUME repository.contributions \in Seq(ToSet(repository.contributions))
    PROVE  Contributions \in Seq(ToSet(Contributions))
<1>1. DOMAIN repository.contributions = 1..Len(repository.contributions) /\ Len(repository.contributions) \in Nat
  BY LenProperties
<1>2. DOMAIN Contributions = 1..Len(repository.contributions)
  BY <1>1 DEF Contributions
<1>3. \A i \in 1..Len(repository.contributions) : Contributions[i] \in ToSet(Contributions)
  BY <1>2 DEF ToSet
<1>4. Contributions = [i \in 1..Len(repository.contributions) |-> Contributions[i]]
  BY <1>1 DEF Contributions
<1> QED
  BY <1>1, <1>3, <1>4, SeqDef

OutcomeInv ==
    /\ repository.contributions \in Seq(ToSet(repository.contributions))
    /\ step = "ended" <=> outcome # "none"
    /\ step = "loading" => sqlState = "idle"
    /\ sqlState = "done" => ~signal
    /\ sqlState = "canceled" => signal
    /\ outcome = "canceled" => signal
    /\ outcome = "document" => ~signal
    /\ outcome # "document" => analysis = NoAnalysis
    /\ outcome = "document" => analysis.assertions = MergeAssertions(Contributions)
    /\ analysis.resultState = "completed" => AllDiagnosticsEmpty /\ analysis.interactionState = "complete"

\* Before the end nothing is returned, whatever the extractors have found.
LEMMA BeforeTheEnd ==
    ASSUME OutcomeInv, step' # "ended", outcome' = "none", analysis' = NoAnalysis, repository' = repository,
           step' = "loading" => sqlState' = "idle",
           sqlState' = "done" => ~signal',
           sqlState' = "canceled" => signal'
    PROVE  OutcomeInv'
  BY DEF OutcomeInv, NoAnalysis

LEMMA OutcomeInvHolds ==
    Spec => []OutcomeInv
<1>1. ScanInit => OutcomeInv
  <2> SUFFICES ASSUME ScanInit
               PROVE  OutcomeInv
    OBVIOUS
  <2>1. PICK family \in Repositories : \E r \in family :
            repository = [contributions |-> r.contributions, regions |-> r.regions,
                          facts |-> r.facts, severity |-> r.severity, interrupted |-> r.interrupted]
    BY DEF ScanInit
  <2>2. repository.contributions \in Seq(ToSet(repository.contributions))
    BY <2>1, RepositoriesAssumption
  <2>3. step = "loading" /\ outcome = "none" /\ analysis = NoAnalysis /\ sqlState = "idle"
    BY DEF ScanInit
  <2> QED
    BY <2>2, <2>3 DEF OutcomeInv, NoAnalysis
<1>2. OutcomeInv /\ [Next]_scanVars => OutcomeInv'
  <2> SUFFICES ASSUME OutcomeInv, [Next]_scanVars
               PROVE  OutcomeInv'
    OBVIOUS
  <2> USE DEF UnchangedInput
  <2>1. CASE UNCHANGED scanVars
    <3>1. UNCHANGED <<moduleVars, controlVars, lockVars, callVars, httpVars, tableVars, interactionVars, provenanceVars, sqlVars,
                      step, repository, outcome, analysis>>
      BY <2>1 DEF scanVars
    <3>2. Contributions' = Contributions
      <4>1. UNCHANGED <<repository, locking, lockFacts>>
        BY <3>1 DEF lockVars
      <4>2. ClosedCallbacks' = ClosedCallbacks
        BY <4>1 DEF ClosedCallbacks, PassedArguments
      <4> QED
        BY <4>1, <4>2 DEF Contributions, Seen
    <3>3. AllDiagnosticsEmpty' = AllDiagnosticsEmpty
      BY <3>1 DEF AllDiagnosticsEmpty, InteractionDiagnostics, GlobalPolicyUnknown, moduleVars, controlVars, lockVars, callVars,
         httpVars, tableVars, interactionVars, provenanceVars, sqlVars
    <3>4. UNCHANGED <<signal, sqlState>>
      BY <3>1 DEF sqlVars
    <3> QED
      BY <3>1, <3>2, <3>3, <3>4 DEF OutcomeInv
  <2>2. CASE Signal
    BY <2>2, BeforeTheEnd DEF Signal, OutcomeInv, Elsewhere
  <2>3. CASE Load /\ ~signal
    BY <2>3, BeforeTheEnd DEF Load, OutcomeInv, AfterAwaits, sqlVars
  <2>4. CASE Cancel /\ signal
    BY <2>4 DEF Cancel, OutcomeInv, sqlVars, NoAnalysis
  <2>5. CASE ModulesThrow
    BY <2>5 DEF ModulesThrow, OutcomeInv, sqlVars, NoAnalysis
  <2>6. ASSUME NEW from, NEW to, step = from, step' = to, from # "ended", to # "loading", to # "ended", UNCHANGED sqlVars, Elsewhere
        PROVE  OutcomeInv'
    BY <2>6, BeforeTheEnd DEF OutcomeInv, Elsewhere, sqlVars
  <2>7. CASE ModuleMetadata \/ Guards \/ AuthorizationMetadata \/ Locks \/ Relationships
    BY <2>6, <2>7 DEF ModuleMetadata, Guards, AuthorizationMetadata, Locks, Relationships, Controls, Extract
  <2>8. CASE EagerRequests \/ ServiceRequests \/ Events \/ JobQueues \/ Messages
    BY <2>6, <2>8 DEF EagerRequests, ServiceRequests, HttpRequests, Events, JobQueues, Messages, Interaction, Extract
  <2>9. CASE Persistence \/ SameMethod \/ InterMethod
    BY <2>6, <2>9 DEF Persistence, SameMethod, InterMethod, Flow, Extract
  <2>10. CASE StartRawSql
    BY <2>10, BeforeTheEnd DEF StartRawSql, StartSql, OutcomeInv, Elsewhere
  <2>11. CASE RawSqlStep
    <3>1. step = "sql" /\ step' = "sql" /\ Elsewhere
      BY <2>11 DEF RawSqlStep
    <3>2. sqlState' = "done" => ~signal'
      BY <2>11, SMTT(60) DEF RawSqlStep, ExtractSql, LookAtCandidate, EndSql, ParserWins, ParserRejects, AbortWins, DeadlineWins, Failed,
         Report, Throw
    <3>3. sqlState' = "canceled" => signal'
      BY <2>11, SMTT(60) DEF RawSqlStep, ExtractSql, LookAtCandidate, EndSql, ParserWins, ParserRejects, AbortWins, DeadlineWins, Failed,
         Report, Throw
    <3> QED
      BY <3>1, <3>2, <3>3, BeforeTheEnd DEF OutcomeInv, Elsewhere
  <2>12. CASE RawSqlThrew
    BY <2>4, <2>12 DEF RawSqlThrew, OutcomeInv
  <2>13. CASE Assemble
    <3>1. /\ UNCHANGED <<moduleVars, controlVars, lockVars, callVars, httpVars, tableVars, interactionVars, provenanceVars, sqlVars, repository>>
          /\ step = "sql" /\ step' = "ended" /\ sqlState = "done"
      BY <2>13 DEF Assemble, Ended
    <3>2. Contributions' = Contributions
      <4>1. UNCHANGED <<repository, locking, lockFacts>>
        BY <3>1 DEF lockVars
      <4>2. ClosedCallbacks' = ClosedCallbacks
        BY <4>1 DEF ClosedCallbacks, PassedArguments
      <4> QED
        BY <4>1, <4>2 DEF Contributions, Seen
    <3>3. AllDiagnosticsEmpty' = AllDiagnosticsEmpty
      BY <3>1 DEF AllDiagnosticsEmpty, InteractionDiagnostics, GlobalPolicyUnknown, moduleVars, controlVars, lockVars, callVars,
         httpVars, tableVars, interactionVars, provenanceVars, sqlVars
    <3>4. UNCHANGED <<signal, sqlState>>
      BY <3>1 DEF sqlVars
    <3>5. CASE outcome' = "failed" /\ analysis' = analysis
      BY <3>1, <3>4, <3>5 DEF OutcomeInv, NoAnalysis
    <3>6. CASE outcome' = "document" /\ analysis' = Assembled
      <4>1. /\ analysis'.resultState = ResultState
            /\ analysis'.interactionState = InteractionState
            /\ analysis'.assertions = MergeAssertions(Contributions)
        BY <3>6 DEF Assembled
      <4>2. ResultState = "completed" => AllDiagnosticsEmpty
        BY DEF ResultState
      <4>3. AllDiagnosticsEmpty => InteractionState = "complete"
        BY DEF AllDiagnosticsEmpty, InteractionState
      <4> QED
        BY <3>1, <3>2, <3>3, <3>4, <3>6, <4>1, <4>2, <4>3 DEF OutcomeInv
    <3> QED
      BY <2>13, <3>5, <3>6 DEF Assemble
  <2> QED
    BY <2>1, <2>2, <2>3, <2>4, <2>5, <2>7, <2>8, <2>9, <2>10, <2>11, <2>12, <2>13 DEF Next, Load
<1> QED
  BY <1>1, <1>2, PTL DEF Spec

\* A raised signal leaves no document, whenever it comes; a document that is
\* called completed has no diagnostic of any extractor; and the records
\* merged in the opposite order give the same document.
THEOREM OutcomesAreHonest ==
    Spec => []OutcomeIsHonest
<1>1. OutcomeInv => OutcomeIsHonest
  BY MergeReverse, ContributionsTyped DEF OutcomeInv, OutcomeIsHonest
<1> QED
  BY <1>1, OutcomeInvHolds, PTL

-----------------------------------------------------------------------------
(***************************************************************************)
(* Numbers, sequences and functions that walk a sequence to its end.       *)
(***************************************************************************)
LEMMA LeastNumber ==
    ASSUME NEW T \in SUBSET Nat, T # {}
    PROVE  \E n \in T : \A m \in T : n <= m
<1> DEFINE R == OpToRel(<, Nat)
<1>1. IsWellFoundedOn(R, Nat)
  BY NatLessThanWellFounded
<1>2. R = {ss \in Nat \X Nat : ss[1] < ss[2]}
  BY DEF OpToRel
<1> HIDE DEF R
<1>3. PICK x \in T : \A y \in T : <<y, x>> \notin R
  BY <1>1, WFMin
<1>4. \A y \in T : ~(y < x)
  BY <1>2, <1>3
<1> QED
  BY <1>4

\* The least of the numbers in question, as CHOOSE names it.
LEMMA LeastIs ==
    ASSUME NEW T \in SUBSET Nat, T # {}
    PROVE  LET least == CHOOSE n \in T : \A m \in T : n <= m
           IN  least \in T /\ \A m \in T : least <= m
<1>1. \E n \in T : \A m \in T : n <= m
  BY LeastNumber
<1> QED
  BY <1>1

\* A set that has n + 1, and every number all of whose successors it has.
LEMMA CountingDown ==
    ASSUME NEW n \in Nat, NEW T, n + 1 \in T,
           \A i \in 1..n : (\A j \in (i + 1)..(n + 1) : j \in T) => i \in T
    PROVE  \A i \in 1..(n + 1) : i \in T
<1> SUFFICES ASSUME NEW lost \in 1..(n + 1), lost \notin T
             PROVE  FALSE
  OBVIOUS
<1> DEFINE Lost == {k \in 0..n : (n + 1) - k \notin T}
<1>1. Lost \in SUBSET Nat /\ Lost # {}
  <2>1. (n + 1) - lost \in 0..n /\ (n + 1) - ((n + 1) - lost) = lost
    OBVIOUS
  <2> QED
    BY <2>1
<1>2. PICK k \in Lost : \A l \in Lost : k <= l
  BY <1>1, LeastNumber
<1>3. k \in 0..n /\ (n + 1) - k \notin T
  BY <1>2
<1>4. k # 0
  BY <1>3
<1>5. (n + 1) - k \in 1..n
  BY <1>3, <1>4
<1>6. ASSUME NEW j \in (((n + 1) - k) + 1)..(n + 1)
      PROVE  j \in T
  <2>1. (n + 1) - j \in 0..n /\ ~(k <= (n + 1) - j) /\ (n + 1) - ((n + 1) - j) = j
    BY <1>3, <1>6
  <2> QED
    BY <1>2, <2>1
<1> QED
  BY <1>3, <1>5, <1>6

\* A function that at every place depends on its value further behind.
Ahead(n, next) == next \in [1..n -> 2..(n + 1)] /\ \A i \in 1..n : i < next[i]

WalkedFrom(i, n, base, walk, next, f) ==
    /\ f[n + 1] = base
    /\ \A k \in i..n : f[k] = walk[k][f[next[k]]]

LEMMA WalkExists ==
    ASSUME NEW n \in Nat, NEW A, NEW base \in A, NEW walk \in [1..n -> [A -> A]],
           NEW next, Ahead(n, next)
    PROVE  \E f \in [1..(n + 1) -> A] : WalkedFrom(1, n, base, walk, next, f)
<1> USE DEF Ahead
<1> DEFINE From(i, f) == WalkedFrom(i, n, base, walk, next, f)
           T == {i \in 1..(n + 1) : \E f \in [1..(n + 1) -> A] : From(i, f)}
<1>1. n + 1 \in T
  <2> DEFINE f == [i \in 1..(n + 1) |-> base]
  <2>1. f \in [1..(n + 1) -> A] /\ f[n + 1] = base
    OBVIOUS
  <2>2. From(n + 1, f)
    BY <2>1, (n + 1)..n = {} DEF WalkedFrom
  <2>3. n + 1 \in 1..(n + 1)
    OBVIOUS
  <2> HIDE DEF f, From
  <2> QED
    BY <2>1, <2>2, <2>3
<1>2. ASSUME NEW i \in 1..n, \A j \in (i + 1)..(n + 1) : j \in T
      PROVE  i \in T
  <2>1. PICK f \in [1..(n + 1) -> A] : WalkedFrom(i + 1, n, base, walk, next, f)
    <3>1. i + 1 \in (i + 1)..(n + 1) /\ i + 1 \in T
      BY <1>2
    <3> HIDE DEF From
    <3>2. \E f \in [1..(n + 1) -> A] : From(i + 1, f)
      BY <3>1
    <3> QED
      BY <3>2 DEF From
  <2>2. next[i] \in 1..(n + 1) /\ walk[i] \in [A -> A] /\ f[next[i]] \in A
    BY <1>2
  <2> DEFINE g == [f EXCEPT ![i] = walk[i][f[next[i]]]]
  <2>3. g \in [1..(n + 1) -> A]
    BY <2>2
  <2>4. g[n + 1] = base
    BY <2>1 DEF WalkedFrom
  <2>5. ASSUME NEW k \in i..n
        PROVE  g[k] = walk[k][g[next[k]]]
    <3>1. k \in 1..n /\ next[k] \in 1..(n + 1) /\ k < next[k]
      BY <1>2, <2>5
    <3>2. g[next[k]] = f[next[k]]
      BY <3>1, <1>2
    <3>3. CASE k = i
      BY <3>1, <3>2, <3>3
    <3>4. CASE k # i
      BY <2>1, <3>1, <3>2, <3>4, <1>2 DEF WalkedFrom
    <3> QED
      BY <3>3, <3>4
  <2>6. From(i, g)
    BY <2>4, <2>5 DEF WalkedFrom
  <2>7. i \in 1..(n + 1)
    OBVIOUS
  <2> HIDE DEF g, From
  <2> QED
    BY <2>3, <2>6, <2>7
<1>3. \A i \in 1..(n + 1) : i \in T
  <2> HIDE DEF T
  <2> QED
    BY <1>1, <1>2, CountingDown
<1>4. \E f \in [1..(n + 1) -> A] : From(1, f)
  <2> HIDE DEF From
  <2> QED
    BY <1>3, 1 \in 1..(n + 1)
<1> QED
  BY <1>4

IsList(s) == \E S : s \in Seq(S)

LEMMA Listed ==
    ASSUME NEW s, IsList(s)
    PROVE  /\ Len(s) \in Nat /\ DOMAIN s = 1..Len(s)
           /\ Range(s) = {s[i] : i \in 1..Len(s)}
<1>1. PICK S : s \in Seq(S)
  BY DEF IsList
<1> QED
  BY <1>1, LenProperties DEF Range

LEMMA ListOf ==
    ASSUME NEW n \in Nat, NEW f, f = [i \in 1..n |-> f[i]]
    PROVE  IsList(f) /\ Len(f) = n /\ Range(f) = {f[i] : i \in 1..n}
<1> DEFINE S == {f[i] : i \in 1..n}
<1>1. f \in [1..n -> S]
  OBVIOUS
<1>2. f \in Seq(S)
  BY <1>1, SeqDef
<1>3. Len(f) = n
  BY <1>1, <1>2, LenProperties
<1> HIDE DEF S
<1>4. IsList(f)
  BY <1>2 DEF IsList
<1> QED
  BY <1>3, <1>4, Listed

\* Two lists, one behind the other.
LEMMA Joined ==
    ASSUME NEW s, NEW t, IsList(s), IsList(t)
    PROVE  IsList(s \o t) /\ Range(s \o t) = Range(s) \cup Range(t)
<1>1. PICK S : s \in Seq(S)
  BY DEF IsList
<1>2. PICK T : t \in Seq(T)
  BY DEF IsList
<1>3. s \in Seq(S \cup T) /\ t \in Seq(S \cup T)
  BY <1>1, <1>2
<1>4. /\ s \o t \in Seq(S \cup T)
      /\ Len(s \o t) = Len(s) + Len(t)
      /\ \A i \in 1..(Len(s) + Len(t)) : (s \o t)[i] = IF i <= Len(s) THEN s[i] ELSE t[i - Len(s)]
  BY <1>3, ConcatProperties
<1>5. IsList(s \o t)
  BY <1>4 DEF IsList
<1>6. /\ Len(s) \in Nat /\ Len(t) \in Nat
      /\ Range(s) = {s[i] : i \in 1..Len(s)} /\ Range(t) = {t[i] : i \in 1..Len(t)}
      /\ Range(s \o t) = {(s \o t)[i] : i \in 1..(Len(s) + Len(t))}
  BY <1>4, <1>5, Listed
<1>7. ASSUME NEW x \in Range(s \o t)
      PROVE  x \in Range(s) \cup Range(t)
  <2>1. PICK i \in 1..(Len(s) + Len(t)) : x = (s \o t)[i]
    BY <1>6
  <2>2. i <= Len(s) \/ i - Len(s) \in 1..Len(t)
    BY <1>6
  <2> QED
    BY <1>4, <1>6, <2>1, <2>2
<1>8. ASSUME NEW x \in Range(s)
      PROVE  x \in Range(s \o t)
  <2>1. PICK i \in 1..Len(s) : x = s[i]
    BY <1>6
  <2>2. i \in 1..(Len(s) + Len(t)) /\ x = (s \o t)[i]
    BY <1>4, <1>6, <2>1
  <2> QED
    BY <1>6, <2>2
<1>9. ASSUME NEW x \in Range(t)
      PROVE  x \in Range(s \o t)
  <2>1. PICK i \in 1..Len(t) : x = t[i]
    BY <1>6
  <2>2. Len(s) + i \in 1..(Len(s) + Len(t)) /\ ~(Len(s) + i <= Len(s)) /\ (Len(s) + i) - Len(s) = i
    BY <1>6
  <2>3. x = (s \o t)[Len(s) + i]
    BY <1>4, <2>1, <2>2
  <2> QED
    BY <1>6, <2>2, <2>3
<1> QED
  BY <1>5, <1>7, <1>8, <1>9

LEMMA NoneOrOne ==
    /\ IsList(<<>>) /\ Range(<<>>) = {}
    /\ \A x : IsList(<<x>>) /\ Range(<<x>>) = {x}
<1>1. IsList(<<>>)
  BY <<>> \in Seq({}) DEF IsList
<1>2. \A x : <<x>> \in Seq({x})
  OBVIOUS
<1>3. ASSUME NEW x
      PROVE  IsList(<<x>>) /\ Range(<<x>>) = {x}
  <2>1. IsList(<<x>>)
    BY <1>2 DEF IsList
  <2> QED
    BY <2>1 DEF Range
<1> QED
  BY <1>1, <1>3 DEF Range

-----------------------------------------------------------------------------
(***************************************************************************)
(* The regions of a processor.                                             *)
(***************************************************************************)
LEMMA ClausesAre ==
    ASSUME NEW body, BodyIsTyped(body)
    PROVE  /\ Len(body.clauses) \in Nat /\ DOMAIN body.clauses = 1..Len(body.clauses)
           /\ \A i \in 1..Len(body.clauses) : body.clauses[i].ends \in {"empty", "break", "return", "none"}
  BY LenProperties DEF BodyIsTyped

\* A group ends behind its start; only empty clauses come before its end,
\* unless one with statements falls through, and its end is where the switch
\* is left.
LEMMA GroupEndIs ==
    ASSUME NEW body, BodyIsTyped(body), NEW i \in 1..Len(body.clauses)
    PROVE  LET j == GroupEnd(body.clauses, i)
           IN  /\ j \in i..Len(body.clauses)
               /\ ~FallsThrough(body.clauses, i, j) =>
                     body.clauses[j].ends \in {"break", "return"} \/ j = Len(body.clauses)
<1> DEFINE clauses == body.clauses
           n == Len(clauses)
           full == {j \in i..n : clauses[j].ends # "empty"}
           first == CHOOSE j \in full : \A k \in full : j <= k
           ended == {j \in (first + 1)..n : clauses[j].ends \in {"break", "return"}}
           last == CHOOSE j \in ended : \A k \in ended : j <= k
<1>1. n \in Nat /\ \A k \in 1..n : clauses[k].ends \in {"empty", "break", "return", "none"}
  BY ClausesAre
<1>2. GroupEnd(clauses, i) = IF full = {} THEN n
                             ELSE IF clauses[first].ends # "none" \/ first = n THEN first
                             ELSE IF ended = {} THEN n ELSE last
  BY DEF GroupEnd
<1>3. CASE full = {}
  BY <1>1, <1>2, <1>3
<1>4. ASSUME full # {}
      PROVE  first \in i..n /\ clauses[first].ends # "empty"
  <2>1. full \in SUBSET Nat
    BY <1>1
  <2>2. first \in full
    BY <1>4, <2>1, LeastIs
  <2> QED
    BY <2>2
<1>5. CASE full # {} /\ (clauses[first].ends # "none" \/ first = n)
  <2>1. GroupEnd(clauses, i) = first
    BY <1>2, <1>5
  <2> HIDE DEF first
  <2> QED
    BY <1>1, <1>4, <1>5, <2>1
<1>6. CASE full # {} /\ ~(clauses[first].ends # "none" \/ first = n)
  <2>1. first \in i..n /\ first < n
    <3> HIDE DEF first
    <3> QED
      BY <1>1, <1>4, <1>6
  <2>2. ended # {} => last \in ended
    <3>1. ended \in SUBSET Nat
      <4> HIDE DEF first
      <4> QED
        BY <1>1, <2>1
    <3> HIDE DEF ended
    <3> QED
      BY <3>1, LeastIs
  <2>3. GroupEnd(clauses, i) \in (first + 1)..n
    <3>1. GroupEnd(clauses, i) = IF ended = {} THEN n ELSE last
      BY <1>2, <1>6
    <3>2. ended # {} => last \in (first + 1)..n
      <4> HIDE DEF last, first
      <4> QED
        BY <2>2
    <3> HIDE DEF ended, last, first
    <3> QED
      BY <1>1, <2>1, <3>1, <3>2
  <2>4. first \in i..(GroupEnd(clauses, i) - 1)
    <3> HIDE DEF first
    <3> QED
      BY <1>1, <2>1, <2>3
  <2>5. FallsThrough(clauses, i, GroupEnd(clauses, i))
    <3> HIDE DEF first
    <3> QED
      BY <1>4, <1>6, <2>4 DEF FallsThrough
  <2>6. GroupEnd(clauses, i) \in i..n
    <3> HIDE DEF first
    <3> QED
      BY <1>1, <2>1, <2>3
  <2> QED
    BY <2>5, <2>6
<1> QED
  BY <1>3, <1>5, <1>6

\* The group that starts at i.
GroupAt(clauses, i) == GroupDraft(clauses, i, GroupEnd(clauses, i))

GroupsOf(clauses) == {GroupAt(clauses, i) : i \in 1..Len(clauses)}

\* Lists that are built from behind, one item at every place they come by.
ListsFrom(n, item, next, f) ==
    [i \in 1..(n + 1) |-> IF i > n THEN <<>> ELSE <<item[i]>> \o f[next[i]]]

Listing(n, item, next, f) ==
    f[n + 1] = <<>> /\ \A i \in 1..n : f[i] = <<item[i]>> \o f[next[i]]

LEMMA ListsExist ==
    ASSUME NEW n \in Nat, NEW Item, NEW item \in [1..n -> Item],
           NEW next, Ahead(n, next)
    PROVE  \E f : f = ListsFrom(n, item, next, f)
<1> DEFINE Lists == Seq(Item)
           walk == [i \in 1..n |-> [s \in Lists |-> <<item[i]>> \o s]]
<1>1. walk \in [1..n -> [Lists -> Lists]]
  <2>1. ASSUME NEW i \in 1..n, NEW s \in Lists
        PROVE  <<item[i]>> \o s \in Lists
    BY item[i] \in Item
  <2> QED
    BY <2>1
<1>2. <<>> \in Lists
  OBVIOUS
<1>3. \A i \in 1..n : \A s \in Lists : walk[i][s] = <<item[i]>> \o s
  OBVIOUS
<1> HIDE DEF walk, Lists
<1>30. PICK f \in [1..(n + 1) -> Lists] : WalkedFrom(1, n, <<>>, walk, next, f)
  BY <1>1, <1>2, WalkExists
<1>4. f[n + 1] = <<>> /\ \A i \in 1..n : f[i] = walk[i][f[next[i]]]
  BY <1>30 DEF WalkedFrom
<1> USE DEF Ahead
<1>5. \A i \in 1..n : f[i] = <<item[i]>> \o f[next[i]]
  <2> TAKE i \in 1..n
  <2>1. next[i] \in 1..(n + 1)
    OBVIOUS
  <2> QED
    BY <1>3, <1>4, <2>1
<1>6. \A i \in 1..(n + 1) : f[i] = IF i > n THEN <<>> ELSE <<item[i]>> \o f[next[i]]
  <2> TAKE i \in 1..(n + 1)
  <2>1. CASE i = n + 1
    BY <1>4, <2>1
  <2>2. CASE i # n + 1
    <3>1. i \in 1..n /\ ~(i > n)
      BY <2>2
    <3> QED
      BY <1>5, <3>1
  <2> QED
    BY <2>1, <2>2
<1>7. f = [i \in 1..(n + 1) |-> f[i]]
  OBVIOUS
<1>8. f = ListsFrom(n, item, next, f)
  BY <1>6, <1>7, Zenon DEF ListsFrom
<1> QED
  BY <1>8

LEMMA ListsAre ==
    ASSUME NEW n \in Nat, NEW Item, NEW item \in [1..n -> Item],
           NEW next, Ahead(n, next), NEW f, f = ListsFrom(n, item, next, f)
    PROVE  f \in [1..(n + 1) -> Seq(Item)] /\ Listing(n, item, next, f)
<1> USE DEF Ahead
<1>1. \A i \in 1..(n + 1) : f[i] = IF i > n THEN <<>> ELSE <<item[i]>> \o f[next[i]]
  BY DEF ListsFrom
<1>2. f[n + 1] = <<>>
  BY <1>1, n + 1 \in 1..(n + 1), n + 1 > n
<1>3. ASSUME NEW i \in 1..n
      PROVE  f[i] = <<item[i]>> \o f[next[i]]
  BY <1>1, i \in 1..(n + 1), ~(i > n)
<1> DEFINE T == {i \in 1..(n + 1) : f[i] \in Seq(Item)}
<1>4. n + 1 \in T
  <2>1. <<>> \in Seq(Item) /\ n + 1 \in 1..(n + 1)
    OBVIOUS
  <2> QED
    BY <1>2, <2>1
<1>5. ASSUME NEW i \in 1..n, \A j \in (i + 1)..(n + 1) : j \in T
      PROVE  i \in T
  <2>1. next[i] \in (i + 1)..(n + 1)
    OBVIOUS
  <2>2. f[next[i]] \in Seq(Item)
    BY <1>5, <2>1
  <2>3. f[i] \in Seq(Item)
    <3>1. \A x \in Item : \A s \in Seq(Item) : <<x>> \o s \in Seq(Item)
      OBVIOUS
    <3>2. item[i] \in Item
      OBVIOUS
    <3> QED
      BY <1>3, <2>2, <3>1, <3>2, Zenon
  <2> QED
    BY <2>3
<1>6. \A i \in 1..(n + 1) : i \in T
  <2> HIDE DEF T
  <2> QED
    BY <1>4, <1>5, CountingDown
<1>7. f = [i \in 1..(n + 1) |-> f[i]]
  BY DEF ListsFrom
<1> QED
  BY <1>2, <1>3, <1>6, <1>7 DEF Listing

\* The groups one after the other, from each place on.
LEMMA GroupWalk ==
    ASSUME NEW body, BodyIsTyped(body)
    PROVE  \E from \in [1..(Len(body.clauses) + 1) -> Seq(GroupsOf(body.clauses))] :
              /\ GroupDrafts(body.clauses) = from[1]
              /\ from[Len(body.clauses) + 1] = <<>>
              /\ \A i \in 1..Len(body.clauses) :
                    from[i] = <<GroupAt(body.clauses, i)>> \o from[GroupEnd(body.clauses, i) + 1]
<1> DEFINE clauses == body.clauses
           n == Len(clauses)
           item == [i \in 1..n |-> GroupAt(clauses, i)]
           next == [i \in 1..n |-> GroupEnd(clauses, i) + 1]
           Step(f) == [i \in 1..(n + 1) |->
                          IF i > n THEN <<>>
                          ELSE <<GroupAt(clauses, i)>> \o f[GroupEnd(clauses, i) + 1]]
           from == CHOOSE f : f = Step(f)
<1>1. n \in Nat
  BY ClausesAre
<1>2. \A i \in 1..n : GroupEnd(clauses, i) \in i..n
  BY GroupEndIs
<1> HIDE DEF clauses
<1>3. Ahead(n, next)
  <2>1. \A i \in 1..n : GroupEnd(clauses, i) + 1 \in 2..(n + 1) /\ i < GroupEnd(clauses, i) + 1
    BY <1>1, <1>2
  <2> QED
    BY <2>1 DEF Ahead
<1>4. item \in [1..n -> GroupsOf(clauses)]
  BY DEF GroupsOf
<1>5. \A f : Step(f) = ListsFrom(n, item, next, f)
  <2> TAKE f
  <2>1. ASSUME NEW i \in 1..(n + 1), ~(i > n)
        PROVE  item[i] = GroupAt(clauses, i) /\ next[i] = GroupEnd(clauses, i) + 1
    BY <1>1, <2>1
  <2>2. \A i \in 1..(n + 1) :
          (IF i > n THEN <<>> ELSE <<GroupAt(clauses, i)>> \o f[GroupEnd(clauses, i) + 1])
            = (IF i > n THEN <<>> ELSE <<item[i]>> \o f[next[i]])
    BY <2>1, Zenon
  <2> HIDE DEF item, next, n
  <2> QED
    BY <2>2 DEF ListsFrom
<1> HIDE DEF Step
<1>6. from = Step(from)
  <2>1. \E f : f = ListsFrom(n, item, next, f)
    <3> HIDE DEF item, next, n
    <3> QED
      BY <1>1, <1>3, <1>4, ListsExist
  <2>2. \E f : f = Step(f)
    BY <1>5, <2>1
  <2> QED
    BY <2>2
<1>7. GroupDrafts(clauses) = from[1]
  BY DEF GroupDrafts, GroupAt, Step
<1> HIDE DEF from
<1>8. from \in [1..(n + 1) -> Seq(GroupsOf(clauses))] /\ Listing(n, item, next, from)
  <2>1. from = ListsFrom(n, item, next, from)
    BY <1>5, <1>6
  <2> HIDE DEF item, next, n
  <2> QED
    BY <1>1, <1>3, <1>4, <2>1, ListsAre
<1>9. \A i \in 1..n : from[i] = <<GroupAt(clauses, i)>> \o from[GroupEnd(clauses, i) + 1]
  BY <1>8 DEF Listing
<1> HIDE DEF n
<1>10. \E f \in [1..(n + 1) -> Seq(GroupsOf(clauses))] :
          /\ GroupDrafts(clauses) = f[1] /\ f[n + 1] = <<>>
          /\ \A i \in 1..n : f[i] = <<GroupAt(clauses, i)>> \o f[GroupEnd(clauses, i) + 1]
  BY <1>7, <1>8, <1>9 DEF Listing
<1> QED
  BY <1>10 DEF n, clauses

\* The same for sets.
SetsFrom(n, own, next, f) ==
    [i \in 1..(n + 1) |-> IF i > n THEN {} ELSE own[i] \cup f[next[i]]]

Union(n, own, next, f) ==
    f[n + 1] = {} /\ \A i \in 1..n : f[i] = own[i] \cup f[next[i]]

LEMMA SetsExist ==
    ASSUME NEW n \in Nat, NEW U, NEW own \in [1..n -> SUBSET U], NEW next, Ahead(n, next)
    PROVE  \E f : f = SetsFrom(n, own, next, f)
<1> DEFINE walk == [i \in 1..n |-> [S \in SUBSET U |-> own[i] \cup S]]
<1>1. walk \in [1..n -> [SUBSET U -> SUBSET U]]
  <2>1. ASSUME NEW i \in 1..n, NEW S \in SUBSET U
        PROVE  own[i] \cup S \in SUBSET U
    BY own[i] \in SUBSET U
  <2> QED
    BY <2>1
<1>2. {} \in SUBSET U
  OBVIOUS
<1>3. \A i \in 1..n : \A S \in SUBSET U : walk[i][S] = own[i] \cup S
  OBVIOUS
<1> HIDE DEF walk
<1>4. PICK f \in [1..(n + 1) -> SUBSET U] : WalkedFrom(1, n, {}, walk, next, f)
  BY <1>1, <1>2, WalkExists
<1>5. f[n + 1] = {} /\ \A i \in 1..n : f[i] = walk[i][f[next[i]]]
  BY <1>4 DEF WalkedFrom
<1> USE DEF Ahead
<1>6. \A i \in 1..n : f[i] = own[i] \cup f[next[i]]
  <2> TAKE i \in 1..n
  <2>1. f[next[i]] \in SUBSET U
    BY next[i] \in 1..(n + 1)
  <2> QED
    BY <1>3, <1>5, <2>1
<1>7. \A i \in 1..(n + 1) : f[i] = IF i > n THEN {} ELSE own[i] \cup f[next[i]]
  <2> TAKE i \in 1..(n + 1)
  <2>1. CASE i = n + 1
    BY <1>5, <2>1, n + 1 > n
  <2>2. CASE i # n + 1
    <3>1. i \in 1..n /\ ~(i > n)
      BY <2>2
    <3> QED
      BY <1>6, <3>1
  <2> QED
    BY <2>1, <2>2
<1>8. f = [i \in 1..(n + 1) |-> f[i]]
  OBVIOUS
<1>9. f = SetsFrom(n, own, next, f)
  BY <1>7, <1>8, Zenon DEF SetsFrom
<1> QED
  BY <1>9

LEMMA SetsAre ==
    ASSUME NEW n \in Nat, NEW own, NEW next, NEW f, f = SetsFrom(n, own, next, f)
    PROVE  Union(n, own, next, f)
<1>1. \A i \in 1..(n + 1) : f[i] = IF i > n THEN {} ELSE own[i] \cup f[next[i]]
  BY DEF SetsFrom
<1>2. f[n + 1] = {}
  BY <1>1, n + 1 \in 1..(n + 1), n + 1 > n
<1>3. \A i \in 1..n : f[i] = own[i] \cup f[next[i]]
  <2> TAKE i \in 1..n
  <2> QED
    BY <1>1, i \in 1..(n + 1), ~(i > n)
<1> QED
  BY <1>2, <1>3 DEF Union

\* The jobs of the group that starts at i, if it is not spoilt.
JobsAt(clauses, i) ==
    IF FallsThrough(clauses, i, GroupEnd(clauses, i)) THEN {} ELSE Jobs(clauses, i, GroupEnd(clauses, i))

LEMMA ExactWalk ==
    ASSUME NEW body, BodyIsTyped(body)
    PROVE  \E exact :
              /\ ExactJobs(body.clauses) = exact[1]
              /\ exact[Len(body.clauses) + 1] = {}
              /\ \A i \in 1..Len(body.clauses) :
                    exact[i] = JobsAt(body.clauses, i) \cup exact[GroupEnd(body.clauses, i) + 1]
<1> DEFINE clauses == body.clauses
           n == Len(clauses)
           U == {clauses[k].label : k \in 1..n}
           own == [i \in 1..n |-> JobsAt(clauses, i)]
           next == [i \in 1..n |-> GroupEnd(clauses, i) + 1]
           Step(f) == [i \in 1..(n + 1) |->
                          IF i > n THEN {}
                          ELSE JobsAt(clauses, i) \cup f[GroupEnd(clauses, i) + 1]]
           exact == CHOOSE f : f = Step(f)
<1>1. n \in Nat
  BY ClausesAre
<1>2. \A i \in 1..n : GroupEnd(clauses, i) \in i..n
  BY GroupEndIs
<1> HIDE DEF clauses
<1>3. Ahead(n, next)
  <2>1. \A i \in 1..n : GroupEnd(clauses, i) + 1 \in 2..(n + 1) /\ i < GroupEnd(clauses, i) + 1
    BY <1>1, <1>2
  <2> QED
    BY <2>1 DEF Ahead
<1>4. own \in [1..n -> SUBSET U]
  <2>1. ASSUME NEW i \in 1..n
        PROVE  JobsAt(clauses, i) \in SUBSET U
    <3>1. \A k \in i..GroupEnd(clauses, i) : k \in 1..n
      BY <1>1, <1>2
    <3> QED
      BY <3>1 DEF JobsAt, Jobs
  <2> HIDE DEF U
  <2> QED
    BY <2>1
<1>5. \A f : Step(f) = SetsFrom(n, own, next, f)
  <2> TAKE f
  <2>1. ASSUME NEW i \in 1..(n + 1), ~(i > n)
        PROVE  own[i] = JobsAt(clauses, i) /\ next[i] = GroupEnd(clauses, i) + 1
    BY <1>1, <2>1
  <2>2. \A i \in 1..(n + 1) :
          (IF i > n THEN {} ELSE JobsAt(clauses, i) \cup f[GroupEnd(clauses, i) + 1])
            = (IF i > n THEN {} ELSE own[i] \cup f[next[i]])
    BY <2>1, Zenon
  <2> HIDE DEF own, next, n
  <2> QED
    BY <2>2 DEF SetsFrom
<1> HIDE DEF Step
<1>6. exact = Step(exact)
  <2>1. \E f : f = SetsFrom(n, own, next, f)
    <3> HIDE DEF own, next, n, U
    <3> QED
      BY <1>1, <1>3, <1>4, SetsExist
  <2>2. \E f : f = Step(f)
    BY <1>5, <2>1
  <2> QED
    BY <2>2
<1>7. ExactJobs(clauses) = exact[1]
  BY DEF ExactJobs, JobsAt, Step
<1> HIDE DEF exact
<1>8. Union(n, own, next, exact)
  <2>1. exact = SetsFrom(n, own, next, exact)
    BY <1>5, <1>6
  <2> HIDE DEF own, next, n
  <2> QED
    BY <1>1, <2>1, SetsAre
<1>9. exact[n + 1] = {} /\ \A i \in 1..n : exact[i] = JobsAt(clauses, i) \cup exact[GroupEnd(clauses, i) + 1]
  BY <1>8 DEF Union
<1> HIDE DEF n
<1>10. \E f : /\ ExactJobs(clauses) = f[1] /\ f[n + 1] = {}
              /\ \A i \in 1..n : f[i] = JobsAt(clauses, i) \cup f[GroupEnd(clauses, i) + 1]
  BY <1>7, <1>9
<1> QED
  BY <1>10 DEF n, clauses

\* The labels that name a job, from a place on.
NamedFrom(clauses, i) == {clauses[k].label : k \in i..Len(clauses)} \ {"default", "?"}

\* Every clause is in a group, and if none is spoilt, the jobs that are
\* excluded from the others are all that have a label.
LEMMA GroupsCover ==
    ASSUME NEW body, BodyIsTyped(body)
    PROVE  LET groups == GroupDrafts(body.clauses)
           IN  /\ IsList(groups) /\ Range(groups) \subseteq GroupsOf(body.clauses)
               /\ \A k \in 1..Len(body.clauses) : \E a \in 1..k :
                     k <= GroupEnd(body.clauses, a) /\ GroupAt(body.clauses, a) \in Range(groups)
               /\ (\A draft \in Range(groups) : ~IsUnknown(draft)) =>
                     ExactJobs(body.clauses) = NamedFrom(body.clauses, 1)
<1> DEFINE clauses == body.clauses
           n == Len(clauses)
<1>1. n \in Nat
  BY ClausesAre
<1>2. \A i \in 1..n : GroupEnd(clauses, i) \in i..n
  BY GroupEndIs
<1>3. PICK from \in [1..(n + 1) -> Seq(GroupsOf(clauses))] :
          /\ GroupDrafts(clauses) = from[1]
          /\ from[n + 1] = <<>>
          /\ \A i \in 1..n : from[i] = <<GroupAt(clauses, i)>> \o from[GroupEnd(clauses, i) + 1]
  BY GroupWalk
<1>4. PICK exact :
          /\ ExactJobs(clauses) = exact[1]
          /\ exact[n + 1] = {}
          /\ \A i \in 1..n : exact[i] = JobsAt(clauses, i) \cup exact[GroupEnd(clauses, i) + 1]
  BY ExactWalk
<1> HIDE DEF clauses
<1>5. \A i \in 1..(n + 1) : IsList(from[i]) /\ Range(from[i]) \subseteq GroupsOf(clauses)
  <2> TAKE i \in 1..(n + 1)
  <2>1. from[i] \in Seq(GroupsOf(clauses))
    OBVIOUS
  <2>2. IsList(from[i])
    BY <2>1 DEF IsList
  <2> QED
    BY <2>1, <2>2, Listed
<1>6. \A i \in 1..n : Range(from[i]) = {GroupAt(clauses, i)} \cup Range(from[GroupEnd(clauses, i) + 1])
  <2> TAKE i \in 1..n
  <2>1. GroupEnd(clauses, i) + 1 \in 1..(n + 1)
    BY <1>1, <1>2
  <2> DEFINE rest == from[GroupEnd(clauses, i) + 1]
  <2>2. IsList(rest)
    BY <1>5, <2>1
  <2>3. from[i] = <<GroupAt(clauses, i)>> \o rest
    BY <1>3
  <2>4. IsList(<<GroupAt(clauses, i)>>) /\ Range(<<GroupAt(clauses, i)>>) = {GroupAt(clauses, i)}
    BY NoneOrOne
  <2> HIDE DEF rest
  <2>5. Range(<<GroupAt(clauses, i)>> \o rest) = {GroupAt(clauses, i)} \cup Range(rest)
    BY <2>2, <2>4, Joined
  <2> QED
    BY <2>3, <2>5 DEF rest
<1> DEFINE Covered(i) == \A k \in i..n : \E a \in i..k :
                            k <= GroupEnd(clauses, a) /\ GroupAt(clauses, a) \in Range(from[i])
           Exacted(i) == (\A draft \in Range(from[i]) : ~IsUnknown(draft)) => exact[i] = NamedFrom(clauses, i)
           T == {i \in 1..(n + 1) : Covered(i) /\ Exacted(i)}
<1>7. n + 1 \in T
  <2>1. (n + 1)..n = {} /\ n + 1 \in 1..(n + 1)
    BY <1>1
  <2>2. Covered(n + 1)
    BY <2>1
  <2>3. Exacted(n + 1)
    BY <1>4, <2>1 DEF NamedFrom
  <2> HIDE DEF Covered, Exacted
  <2> QED
    BY <2>1, <2>2, <2>3
<1>8. ASSUME NEW i \in 1..n, \A j \in (i + 1)..(n + 1) : j \in T
      PROVE  i \in T
  <2> DEFINE e == GroupEnd(clauses, i)
  <2>1. e \in i..n /\ e + 1 \in (i + 1)..(n + 1)
    BY <1>1, <1>2
  <2>2. Covered(e + 1) /\ Exacted(e + 1)
    <3> HIDE DEF Covered, Exacted
    <3> QED
      BY <1>8, <2>1
  <2>3. Range(from[i]) = {GroupAt(clauses, i)} \cup Range(from[e + 1])
    BY <1>6
  <2> HIDE DEF e
  <2>4. Covered(i)
    <3>1. ASSUME NEW k \in i..n
          PROVE  \E a \in i..k : k <= GroupEnd(clauses, a) /\ GroupAt(clauses, a) \in Range(from[i])
      <4>1. CASE k <= e
        BY <1>1, <2>3, <4>1, i \in i..k DEF e
      <4>2. CASE k > e
        <5>1. k \in (e + 1)..n
          BY <1>1, <2>1, <4>2
        <5>2. PICK a \in (e + 1)..k : k <= GroupEnd(clauses, a) /\ GroupAt(clauses, a) \in Range(from[e + 1])
          BY <2>2, <5>1
        <5>3. a \in i..k
          BY <1>1, <2>1, <5>2
        <5> QED
          BY <2>3, <5>2, <5>3
      <4> QED
        BY <1>1, <2>1, <4>1, <4>2
    <3> QED
      BY <3>1
  <2>5. Exacted(i)
    <3> SUFFICES ASSUME \A draft \in Range(from[i]) : ~IsUnknown(draft)
                 PROVE  exact[i] = NamedFrom(clauses, i)
      OBVIOUS
    <3>1. ~IsUnknown(GroupAt(clauses, i)) /\ \A draft \in Range(from[e + 1]) : ~IsUnknown(draft)
      BY <2>3
    <3>2. exact[e + 1] = NamedFrom(clauses, e + 1)
      BY <2>2, <3>1
    <3>3. ~FallsThrough(clauses, i, e)
      BY <3>1 DEF GroupAt, GroupDraft, IsUnknown, Draft, e
    <3>4. exact[i] = Jobs(clauses, i, e) \cup NamedFrom(clauses, e + 1)
      BY <1>4, <3>2, <3>3 DEF JobsAt, e
    <3>5. \A k \in i..n : k \in i..e \/ k \in (e + 1)..n
      BY <1>1, <2>1
    <3>6. /\ \A k \in i..e : k \in i..n
          /\ \A k \in (e + 1)..n : k \in i..n
      BY <1>1, <2>1
    <3> QED
      BY <3>4, <3>5, <3>6 DEF Jobs, NamedFrom
  <2>6. i \in 1..(n + 1)
    BY <1>1
  <2> HIDE DEF Covered, Exacted
  <2> QED
    BY <2>4, <2>5, <2>6
<1>9. 1 \in T
  <2>1. \A i \in 1..(n + 1) : i \in T
    <3> HIDE DEF T
    <3> QED
      BY <1>1, <1>7, <1>8, CountingDown
  <2> QED
    BY <1>1, <2>1
<1>10. Covered(1) /\ Exacted(1)
  <2> HIDE DEF Covered, Exacted
  <2> QED
    BY <1>9
<1>11. 1 \in 1..(n + 1)
  BY <1>1
<1> QED
  BY <1>3, <1>4, <1>5, <1>10, <1>11 DEF clauses

\* What a group is that is not spoilt.
LEMMA GroupAtIs ==
    ASSUME NEW body, BodyIsTyped(body), NEW a \in 1..Len(body.clauses),
           ~IsUnknown(GroupAt(body.clauses, a))
    PROVE  LET clauses == body.clauses
               draft == GroupAt(clauses, a)
               e == GroupEnd(clauses, a)
               labels == {clauses[k].label : k \in a..e}
           IN  /\ e \in a..Len(clauses)
               /\ \A k \in a..(e - 1) : clauses[k].ends = "empty"
               /\ clauses[e].ends \in {"break", "return"} \/ e = Len(clauses)
               /\ draft.regions = {Clause(k) : k \in a..e}
               /\ draft.continues <=> clauses[e].ends # "return"
               /\ "?" \notin labels
               /\ \/ labels = {"default"} /\ draft.selector = Unmatched({})
                  \/ "default" \notin labels /\ draft.selector = Exact(labels)
<1> DEFINE clauses == body.clauses
           draft == GroupAt(clauses, a)
           e == GroupEnd(clauses, a)
           labels == {clauses[k].label : k \in a..e}
<1>1. /\ e \in a..Len(clauses)
      /\ ~FallsThrough(clauses, a, e) => clauses[e].ends \in {"break", "return"} \/ e = Len(clauses)
  BY GroupEndIs
<1>2. clauses[e].ends \in {"empty", "break", "return", "none"}
  BY <1>1, ClausesAre
<1> HIDE DEF clauses
<1>3. draft = GroupDraft(clauses, a, e)
  BY DEF GroupAt
<1> HIDE DEF draft, e
<1>4. /\ ~FallsThrough(clauses, a, e)
      /\ "?" \notin labels
      /\ "default" \in labels => labels = {"default"} /\ clauses[e].ends # "empty"
      /\ draft = Draft(IF "default" \in labels THEN Unmatched({}) ELSE Exact(labels), {Clause(k) : k \in a..e},
                       ContinuesAfterSwitch(clauses[e].ends))
  <2>1. draft.selector # Unknown
    BY DEF IsUnknown, draft, clauses
  <2>2. \A regions : \A continues : Draft(Unknown, regions, continues).selector = Unknown
    BY DEF Draft
  <2> QED
    BY <1>3, <2>1, <2>2 DEF GroupDraft
<1>5. \A k \in a..(e - 1) : clauses[k].ends = "empty"
  BY <1>4 DEF FallsThrough
<1>6. /\ draft.regions = {Clause(k) : k \in a..e}
      /\ draft.continues = ContinuesAfterSwitch(clauses[e].ends)
      /\ draft.selector = IF "default" \in labels THEN Unmatched({}) ELSE Exact(labels)
  BY <1>4 DEF Draft
<1>7. draft.continues <=> clauses[e].ends # "return"
  BY <1>2, <1>6 DEF ContinuesAfterSwitch
<1> QED
  BY <1>1, <1>4, <1>5, <1>6, <1>7 DEF clauses, draft, e

LEMMA LastClauseIs ==
    ASSUME NEW body, BodyIsTyped(body), NEW c \in 1..Len(body.clauses), NEW e \in c..Len(body.clauses),
           \A k \in c..(e - 1) : body.clauses[k].ends = "empty",
           body.clauses[e].ends \in {"break", "return"} \/ e = Len(body.clauses)
    PROVE  LastClause(body, c) = e
<1> DEFINE n == Len(body.clauses)
           ended == {j \in c..n : body.clauses[j].ends \in {"break", "return"}}
<1>1. n \in Nat
  BY ClausesAre
<1>2. LastClause(body, c) = IF ended = {} THEN n ELSE CHOOSE j \in ended : \A k \in ended : j <= k
  BY DEF LastClause
<1>3. \A k \in c..n : k \in c..(e - 1) \/ k \in e..n
  BY <1>1
<1>4. \A j \in ended : j \in e..n
  BY <1>3
<1>5. CASE ended = {}
  <2>1. e \notin ended
    BY <1>5
  <2>2. body.clauses[e].ends \notin {"break", "return"}
    BY <2>1
  <2> QED
    BY <1>2, <1>5, <2>2
<1>6. CASE ended # {}
  <2>1. e \in ended
    <3>1. CASE body.clauses[e].ends \in {"break", "return"}
      BY <3>1
    <3>2. CASE e = n
      BY <1>1, <1>4, <1>6, <3>2
    <3> QED
      BY <3>1, <3>2
  <2>2. \A j \in ended : e <= j
    BY <1>4
  <2>3. \A j \in ended : (\A k \in ended : j <= k) => j = e
    <3>1. ended \subseteq Int
      BY <1>1
    <3> HIDE DEF ended
    <3> QED
      BY <2>1, <2>2, <3>1
  <2> HIDE DEF ended
  <2>4. (CHOOSE j \in ended : \A k \in ended : j <= k) = e
    BY <2>1, <2>2, <2>3
  <2> QED
    BY <1>2, <1>6, <2>4
<1> QED
  BY <1>5, <1>6

LEMMA FirstClauseIs ==
    ASSUME NEW body, BodyIsTyped(body), NEW job
    PROVE  LET c == FirstClause(body, job)
               n == Len(body.clauses)
               Labelled(label) == \E k \in 1..n : body.clauses[k].label = label
           IN  /\ Labelled(job) => c \in 1..n /\ body.clauses[c].label = job
               /\ ~Labelled(job) /\ Labelled("default") /\ body.form = "switch" =>
                     c \in 1..n /\ body.clauses[c].label = "default"
               /\ ~Labelled(job) /\ ~(Labelled("default") /\ body.form = "switch") => c = 0
<1> DEFINE n == Len(body.clauses)
           of(label) == {i \in DOMAIN body.clauses : body.clauses[i].label = label}
           first(S) == CHOOSE i \in S : \A k \in S : i <= k
<1>1. n \in Nat /\ DOMAIN body.clauses = 1..n
  BY ClausesAre
<1>2. FirstClause(body, job) = IF of(job) # {} THEN first(of(job))
                               ELSE IF of("default") # {} /\ body.form = "switch" THEN first(of("default"))
                               ELSE 0
  BY DEF FirstClause
<1>3. ASSUME NEW label, of(label) # {}
      PROVE  first(of(label)) \in 1..n /\ body.clauses[first(of(label))].label = label
  <2> DEFINE S == of(label)
  <2>1. S \in SUBSET Nat /\ S # {}
    BY <1>1, <1>3
  <2>2. first(S) \in S
    <3> HIDE DEF S
    <3> QED
      BY <2>1, LeastIs
  <2> HIDE DEF first
  <2> QED
    BY <1>1, <2>2
<1>4. \A label : of(label) # {} <=> \E k \in 1..n : body.clauses[k].label = label
  BY <1>1
<1> HIDE DEF of, first
<1> QED
  BY <1>2, <1>3, <1>4

\* A draft of a group as it is in the result.
Renamed(selector, draft) ==
    IF draft.selector.kind = "unmatched_jobs" THEN [draft EXCEPT !.selector = selector] ELSE draft

WithRest(body, draft) ==
    IF body.rest /\ draft.continues THEN [draft EXCEPT !.regions = @ \cup {Rest}] ELSE draft

KeptDrafts(body) ==
    LET excluded == Unmatched(ExactJobs(body.clauses))
        groups == {Renamed(excluded, draft) : draft \in Range(GroupDrafts(body.clauses))}
    IN  groups \cup {draft \in {Draft(excluded, {}, TRUE)} : \A group \in groups : group.selector.kind = "exact_jobs"}

DraftsAround(body) ==
    {draft \in {Draft(AllJobs, {Prelude}, FALSE)} : body.prelude}
    \cup {draft \in {Draft(AllJobs, {Finally}, FALSE)} : body.finally}

LEMMA PreludeIs ==
    ASSUME NEW body
    PROVE  /\ IsList(PreludeDraft(body))
           /\ Range(PreludeDraft(body)) = {draft \in {Draft(AllJobs, {Prelude}, FALSE)} : body.prelude}
<1>1. CASE body.prelude
  BY <1>1, NoneOrOne DEF PreludeDraft
<1>2. CASE ~body.prelude
  BY <1>2, NoneOrOne DEF PreludeDraft
<1> QED
  BY <1>1, <1>2

LEMMA SwitchRange ==
    ASSUME NEW body, BodyIsTyped(body)
    PROVE  Range(SwitchDrafts(body)) = DraftsAround(body) \cup {WithRest(body, draft) : draft \in KeptDrafts(body)}
<1> DEFINE excluded == Unmatched(ExactJobs(body.clauses))
           groups == GroupDrafts(body.clauses)
           renamed == Excluding(excluded, groups)
           completed == Completed(excluded, renamed)
           continued == Continued(body, completed)
           last == IF body.finally THEN <<Draft(AllJobs, {Finally}, FALSE)>> ELSE <<>>
<1>1. IsList(groups)
  BY GroupsCover
<1>2. Len(groups) \in Nat /\ DOMAIN groups = 1..Len(groups) /\ Range(groups) = {groups[i] : i \in 1..Len(groups)}
  BY <1>1, Listed
<1> HIDE DEF groups, excluded
<1>3. renamed = [i \in 1..Len(groups) |-> Renamed(excluded, groups[i])]
  BY <1>2 DEF Excluding, Renamed
<1>4. /\ IsList(renamed) /\ Len(renamed) = Len(groups)
      /\ Range(renamed) = {renamed[i] : i \in 1..Len(groups)}
  <2> HIDE DEF renamed
  <2>1. renamed = [i \in 1..Len(groups) |-> renamed[i]]
    BY <1>3
  <2> QED
    BY <1>2, <2>1, ListOf
<1>5. Range(renamed) = {Renamed(excluded, draft) : draft \in Range(groups)}
  <2> HIDE DEF renamed
  <2>1. \A i \in 1..Len(groups) : renamed[i] = Renamed(excluded, groups[i])
    BY <1>3
  <2> QED
    BY <1>2, <1>4, <2>1
<1> HIDE DEF renamed
<1>6. IsList(completed) /\ Range(completed) = KeptDrafts(body)
  <2>1. DOMAIN renamed = 1..Len(renamed)
    BY <1>4, Listed
  <2>2. (\A i \in DOMAIN renamed : renamed[i].selector.kind = "exact_jobs")
          <=> \A group \in Range(renamed) : group.selector.kind = "exact_jobs"
    BY <1>4, <2>1
  <2>3. CASE \A group \in Range(renamed) : group.selector.kind = "exact_jobs"
    <3> DEFINE extra == Draft(excluded, {}, TRUE)
    <3>1. completed = Append(renamed, extra)
      BY <2>2, <2>3 DEF Completed
    <3>2. PICK S : renamed \in Seq(S)
      BY <1>4 DEF IsList
    <3> HIDE DEF extra
    <3>3. renamed \in Seq(S \cup {extra})
      BY <3>2
    <3>4. Append(renamed, extra) = renamed \o <<extra>>
      BY <3>3
    <3>5. IsList(<<extra>>) /\ Range(<<extra>>) = {extra}
      BY NoneOrOne
    <3>6. IsList(completed) /\ Range(completed) = Range(renamed) \cup {extra}
      BY <1>4, <3>1, <3>4, <3>5, Joined
    <3> QED
      BY <1>5, <2>3, <3>6 DEF KeptDrafts, extra, excluded, groups
  <2>4. CASE ~\A group \in Range(renamed) : group.selector.kind = "exact_jobs"
    <3>1. completed = renamed
      BY <2>2, <2>4 DEF Completed
    <3> QED
      BY <1>4, <1>5, <2>4, <3>1 DEF KeptDrafts, excluded, groups
  <2> QED
    BY <2>3, <2>4
<1>7. Len(completed) \in Nat /\ DOMAIN completed = 1..Len(completed) /\ Range(completed) = {completed[i] : i \in 1..Len(completed)}
  BY <1>6, Listed
<1> HIDE DEF completed
<1>8. continued = [i \in 1..Len(completed) |-> WithRest(body, completed[i])]
  BY <1>7 DEF Continued, WithRest
<1> HIDE DEF continued
<1>9. IsList(continued) /\ Range(continued) = {continued[i] : i \in 1..Len(completed)}
  <2>1. continued = [i \in 1..Len(completed) |-> continued[i]]
    BY <1>8
  <2> QED
    BY <1>7, <2>1, ListOf
<1>10. Range(continued) = {WithRest(body, draft) : draft \in KeptDrafts(body)}
  <2>1. \A i \in 1..Len(completed) : continued[i] = WithRest(body, completed[i])
    BY <1>8
  <2> QED
    BY <1>6, <1>7, <1>9, <2>1
<1>11. IsList(last) /\ Range(last) = {draft \in {Draft(AllJobs, {Finally}, FALSE)} : body.finally}
  <2>1. CASE body.finally
    BY <2>1, NoneOrOne
  <2>2. CASE ~body.finally
    BY <2>2, NoneOrOne
  <2> QED
    BY <2>1, <2>2
<1>12. SwitchDrafts(body) = (PreludeDraft(body) \o continued) \o last
  BY DEF SwitchDrafts, continued, completed, renamed, groups, excluded
<1> HIDE DEF last
<1>13. IsList(PreludeDraft(body)) /\ Range(PreludeDraft(body)) = {draft \in {Draft(AllJobs, {Prelude}, FALSE)} : body.prelude}
  BY PreludeIs
<1>14. /\ IsList(PreludeDraft(body) \o continued)
       /\ Range(PreludeDraft(body) \o continued) = Range(PreludeDraft(body)) \cup Range(continued)
  BY <1>9, <1>13, Joined
<1>15. Range((PreludeDraft(body) \o continued) \o last) = (Range(PreludeDraft(body)) \cup Range(continued)) \cup Range(last)
  BY <1>11, <1>14, Joined
<1> QED
  BY <1>10, <1>11, <1>12, <1>13, <1>15 DEF DraftsAround

\* A dispatch is complete when its drafts are those of the body, all known.
LEMMA CompleteIs ==
    ASSUME NEW body, DispatchState(body) = "complete"
    PROVE  /\ Branches(body) = Drafts(body) /\ Drafts(body) # <<>>
           /\ \A draft \in Range(Drafts(body)) : ~IsUnknown(draft)
<1>1. \A i \in DOMAIN Branches(body) : ~IsUnknown(Branches(body)[i])
  BY DEF DispatchState, StateOf
<1>2. Branches(body) # <<Draft(Unknown, {Prelude, Rest}, FALSE)>>
  <2>1. IsUnknown(<<Draft(Unknown, {Prelude, Rest}, FALSE)>>[1])
    BY DEF IsUnknown, Draft
  <2>2. 1 \in DOMAIN <<Draft(Unknown, {Prelude, Rest}, FALSE)>>
    OBVIOUS
  <2> HIDE DEF Draft
  <2> QED
    BY <1>1, <2>1, <2>2
<1>3. Branches(body) = Drafts(body) /\ Drafts(body) # <<>>
  BY <1>2 DEF Branches, OrUnsupported
<1> QED
  BY <1>1, <1>3 DEF Range

IsDraft(draft) == draft = Draft(draft.selector, draft.regions, draft.continues)

LEMMA GroupIsDraft ==
    ASSUME NEW clauses, NEW draft \in GroupsOf(clauses)
    PROVE  IsDraft(draft)
<1>1. \A s, r, c : IsDraft(Draft(s, r, c))
  BY DEF IsDraft, Draft
<1>2. PICK a \in 1..Len(clauses) : draft = GroupDraft(clauses, a, GroupEnd(clauses, a))
  BY DEF GroupsOf, GroupAt
<1>3. \E s, r, c : draft = Draft(s, r, c)
  BY <1>2 DEF GroupDraft
<1> QED
  BY <1>1, <1>3

\* What becomes of a draft.
BecomesFinal(body, selector, draft, renamed, final) ==
    /\ final.selector = IF draft.selector.kind = "unmatched_jobs" THEN selector ELSE draft.selector
    /\ final.regions = IF body.rest /\ draft.continues THEN draft.regions \cup {Rest} ELSE draft.regions
    /\ renamed.selector = final.selector

LEMMA FinalIs ==
    ASSUME NEW body, NEW selector, NEW draft, IsDraft(draft)
    PROVE  BecomesFinal(body, selector, draft, Renamed(selector, draft), WithRest(body, Renamed(selector, draft)))
<1> DEFINE s == draft.selector
           r == draft.regions
           c == draft.continues
           renamed == Renamed(selector, draft)
           t == IF s.kind = "unmatched_jobs" THEN selector ELSE s
<1>1. draft = [selector |-> s, regions |-> r, continues |-> c]
  BY DEF IsDraft, Draft
<1> HIDE DEF s, r, c
<1>2. renamed = [selector |-> t, regions |-> r, continues |-> c]
  BY <1>1 DEF Renamed, s
<1> HIDE DEF renamed, t
<1>3. WithRest(body, renamed) = IF body.rest /\ c THEN [selector |-> t, regions |-> r \cup {Rest}, continues |-> c]
                                ELSE [selector |-> t, regions |-> r, continues |-> c]
  BY <1>2 DEF WithRest
<1> QED
  BY <1>2, <1>3 DEF renamed, s, r, c, t, BecomesFinal

\* The groups of a complete switch, and the one its default is in.
LEMMA CompleteSwitch ==
    ASSUME NEW body, BodyIsTyped(body), body.form = "switch", DispatchState(body) = "complete"
    PROVE  /\ Range(Branches(body)) = DraftsAround(body) \cup {WithRest(body, draft) : draft \in KeptDrafts(body)}
           /\ \A draft \in Range(GroupDrafts(body.clauses)) : ~IsUnknown(draft)
           /\ ExactJobs(body.clauses) = NamedFrom(body.clauses, 1)
<1> DEFINE excluded == Unmatched(ExactJobs(body.clauses))
<1>1. Drafts(body) = SwitchDrafts(body)
  BY DEF Drafts
<1>2. Range(Branches(body)) = DraftsAround(body) \cup {WithRest(body, draft) : draft \in KeptDrafts(body)}
  BY <1>1, CompleteIs, SwitchRange
<1>3. ASSUME NEW draft \in Range(GroupDrafts(body.clauses)), draft.selector = Unknown
      PROVE  FALSE
  <2>1. IsDraft(draft)
    BY GroupsCover, GroupIsDraft
  <2>2. Renamed(excluded, draft) \in KeptDrafts(body)
    BY DEF KeptDrafts
  <2>3. WithRest(body, Renamed(excluded, draft)) \in Range(Drafts(body))
    BY <1>2, <2>2, CompleteIs
  <2>4. Unknown.kind # "unmatched_jobs"
    BY DEF Unknown
  <2>5. WithRest(body, Renamed(excluded, draft)).selector = Unknown
    <3>1. BecomesFinal(body, excluded, draft, Renamed(excluded, draft), WithRest(body, Renamed(excluded, draft)))
      BY <2>1, FinalIs
    <3> QED
      BY <1>3, <2>4, <3>1 DEF BecomesFinal
  <2> QED
    BY <2>3, <2>5, CompleteIs DEF IsUnknown
<1>4. \A draft \in Range(GroupDrafts(body.clauses)) : ~IsUnknown(draft)
  BY <1>3 DEF IsUnknown
<1> QED
  BY <1>2, <1>4, GroupsCover

\* A group of a complete switch, as the jobs see it.
LEMMA GroupServes ==
    ASSUME NEW body, BodyIsTyped(body), body.form = "switch", DispatchState(body) = "complete",
           NEW a \in 1..Len(body.clauses), GroupAt(body.clauses, a) \in Range(GroupDrafts(body.clauses)),
           NEW job, job \notin {"?", "default"}
    PROVE  LET clauses == body.clauses
               e == GroupEnd(clauses, a)
               labels == {clauses[k].label : k \in a..e}
               excluded == Unmatched(ExactJobs(clauses))
               renamed == Renamed(excluded, GroupAt(clauses, a))
               final == WithRest(body, renamed)
           IN  /\ renamed \in KeptDrafts(body) /\ final \in Range(Branches(body))
               /\ e \in a..Len(clauses)
               /\ \A k \in a..(e - 1) : clauses[k].ends = "empty"
               /\ clauses[e].ends \in {"break", "return"} \/ e = Len(clauses)
               /\ final.regions = {Clause(k) : k \in a..e}
                                  \cup {region \in {Rest} : body.rest /\ clauses[e].ends # "return"}
               /\ "default" \in labels => labels = {"default"}
               /\ renamed.selector.kind = "exact_jobs" <=> "default" \notin labels
               /\ Selects(final.selector, job) <=>
                     \/ job \in labels
                     \/ labels = {"default"} /\ \A k \in 1..Len(clauses) : clauses[k].label # job
<1> DEFINE clauses == body.clauses
           e == GroupEnd(clauses, a)
           labels == {clauses[k].label : k \in a..e}
           excluded == Unmatched(ExactJobs(clauses))
           draft == GroupAt(clauses, a)
           renamed == Renamed(excluded, draft)
           final == WithRest(body, renamed)
<1>1. draft \in Range(GroupDrafts(clauses)) /\ ~IsUnknown(draft) /\ IsDraft(draft)
  BY CompleteSwitch, GroupIsDraft, GroupsCover
<1>2. renamed \in KeptDrafts(body) /\ final \in Range(Branches(body))
  <2>1. renamed \in KeptDrafts(body)
    BY <1>1 DEF KeptDrafts
  <2> QED
    BY <2>1, CompleteSwitch
<1>3. /\ e \in a..Len(clauses)
      /\ \A k \in a..(e - 1) : clauses[k].ends = "empty"
      /\ clauses[e].ends \in {"break", "return"} \/ e = Len(clauses)
      /\ draft.regions = {Clause(k) : k \in a..e}
      /\ draft.continues <=> clauses[e].ends # "return"
      /\ "?" \notin labels
      /\ \/ labels = {"default"} /\ draft.selector = Unmatched({})
         \/ "default" \notin labels /\ draft.selector = Exact(labels)
  BY <1>1, GroupAtIs
<1>4. excluded.jobs = NamedFrom(clauses, 1) /\ excluded.kind = "unmatched_jobs"
  BY CompleteSwitch DEF Unmatched
<1> HIDE DEF excluded, draft
<1>5. /\ final.selector = IF draft.selector.kind = "unmatched_jobs" THEN excluded ELSE draft.selector
      /\ final.regions = IF body.rest /\ draft.continues THEN draft.regions \cup {Rest} ELSE draft.regions
      /\ renamed.selector = final.selector
  <2>1. BecomesFinal(body, excluded, draft, renamed, final)
    BY <1>1, FinalIs
  <2> HIDE DEF renamed, final
  <2> QED
    BY <2>1 DEF BecomesFinal
<1> HIDE DEF renamed, final, e, clauses
<1>6. \A S : Exact(S).kind = "exact_jobs" /\ Exact(S).jobs = S /\ Unmatched(S).kind = "unmatched_jobs"
  BY DEF Exact, Unmatched
<1>7. final.regions = {Clause(k) : k \in a..e} \cup {region \in {Rest} : body.rest /\ clauses[e].ends # "return"}
  BY <1>3, <1>5
<1>8. CASE labels = {"default"} /\ draft.selector = Unmatched({})
  <2>1. final.selector = excluded
    BY <1>5, <1>6, <1>8
  <2>2. Selects(excluded, job) <=> job \notin NamedFrom(clauses, 1)
    BY <1>4 DEF Selects
  <2>3. job \in NamedFrom(clauses, 1) <=> \E k \in 1..Len(clauses) : clauses[k].label = job
    BY DEF NamedFrom
  <2>4. job \notin labels
    BY <1>8
  <2> HIDE DEF labels
  <2>5. Selects(final.selector, job) <=>
            job \in labels \/ (labels = {"default"} /\ \A k \in 1..Len(clauses) : clauses[k].label # job)
    BY <1>8, <2>1, <2>2, <2>3, <2>4
  <2>6. renamed.selector.kind = "exact_jobs" <=> "default" \notin labels
    BY <1>4, <1>5, <1>8, <2>1
  <2> QED
    BY <1>2, <1>3, <1>7, <1>8, <2>5, <2>6 DEF renamed, final, draft, excluded, e, clauses, labels
<1>9. CASE "default" \notin labels /\ draft.selector = Exact(labels)
  <2> HIDE DEF labels
  <2>1. final.selector = Exact(labels)
    BY <1>5, <1>6, <1>9
  <2>2. Selects(Exact(labels), job) <=> job \in labels
    BY <1>6 DEF Selects
  <2>3. Selects(final.selector, job) <=>
            job \in labels \/ (labels = {"default"} /\ \A k \in 1..Len(clauses) : clauses[k].label # job)
    BY <1>9, <2>1, <2>2
  <2>4. renamed.selector.kind = "exact_jobs" <=> "default" \notin labels
    BY <1>5, <1>6, <1>9, <2>1
  <2> QED
    BY <1>2, <1>3, <1>7, <1>9, <2>3, <2>4 DEF renamed, final, draft, excluded, e, clauses, labels
<1> QED
  BY <1>3, <1>8, <1>9
\* The groups of a switch, by where they start, and what they tell of a job.
GroupStarts(body) == {a \in 1..Len(body.clauses) : GroupAt(body.clauses, a) \in Range(GroupDrafts(body.clauses))}

FinalOf(body, a) == WithRest(body, Renamed(Unmatched(ExactJobs(body.clauses)), GroupAt(body.clauses, a)))

PassingBy(body) == Draft(Unmatched(ExactJobs(body.clauses)), {}, TRUE)

LabelsOf(body, a) == {body.clauses[k].label : k \in a..GroupEnd(body.clauses, a)}

RegionsOf(body, a) ==
    {Clause(k) : k \in a..GroupEnd(body.clauses, a)}
    \cup {region \in {Rest} : body.rest /\ body.clauses[GroupEnd(body.clauses, a)].ends # "return"}

Unlabelled(body, job) == \A k \in 1..Len(body.clauses) : body.clauses[k].label # job

ServesJob(body, a, job) == job \in LabelsOf(body, a) \/ (LabelsOf(body, a) = {"default"} /\ Unlabelled(body, job))

NoDefault(body) == \A a \in GroupStarts(body) : "default" \notin LabelsOf(body, a)

GroupEnds(body, a) ==
    LET e == GroupEnd(body.clauses, a)
    IN  /\ e \in a..Len(body.clauses)
        /\ \A k \in a..(e - 1) : body.clauses[k].ends = "empty"
        /\ body.clauses[e].ends \in {"break", "return"} \/ e = Len(body.clauses)

CompleteGroup(body, a, job) ==
    /\ Renamed(Unmatched(ExactJobs(body.clauses)), GroupAt(body.clauses, a)) \in KeptDrafts(body)
    /\ FinalOf(body, a) \in Range(Branches(body))
    /\ GroupEnds(body, a)
    /\ FinalOf(body, a).regions = RegionsOf(body, a)
    /\ "default" \in LabelsOf(body, a) => LabelsOf(body, a) = {"default"}
    /\ Renamed(Unmatched(ExactJobs(body.clauses)), GroupAt(body.clauses, a)).selector.kind = "exact_jobs"
          <=> "default" \notin LabelsOf(body, a)
    /\ Selects(FinalOf(body, a).selector, job) <=> ServesJob(body, a, job)

LEMMA CompleteGroups ==
    ASSUME NEW body, BodyIsTyped(body), body.form = "switch", DispatchState(body) = "complete",
           NEW job, job \notin {"?", "default"}, NEW a \in GroupStarts(body)
    PROVE  CompleteGroup(body, a, job)
<1>1. a \in 1..Len(body.clauses) /\ GroupAt(body.clauses, a) \in Range(GroupDrafts(body.clauses))
  BY DEF GroupStarts
<1> QED
  BY <1>1, GroupServes DEF CompleteGroup, FinalOf, LabelsOf, RegionsOf, Unlabelled, ServesJob, GroupEnds

\* The regions a complete switch gives to a job.
GivenBySwitch(body, job, region) ==
    \/ region = Prelude /\ body.prelude
    \/ region = Finally /\ body.finally
    \/ \E a \in GroupStarts(body) : ServesJob(body, a, job) /\ region \in RegionsOf(body, a)
    \/ region = Rest /\ body.rest /\ NoDefault(body) /\ Unlabelled(body, job)

LEMMA KeptAre ==
    ASSUME NEW body, BodyIsTyped(body), body.form = "switch", DispatchState(body) = "complete",
           NEW draft
    PROVE  draft \in KeptDrafts(body) <=>
              \/ \E a \in GroupStarts(body) : draft = Renamed(Unmatched(ExactJobs(body.clauses)), GroupAt(body.clauses, a))
              \/ draft = PassingBy(body) /\ NoDefault(body)
<1> DEFINE excluded == Unmatched(ExactJobs(body.clauses))
           groups == {Renamed(excluded, group) : group \in Range(GroupDrafts(body.clauses))}
<1>1. \A group : group \in groups <=> \E a \in GroupStarts(body) : group = Renamed(excluded, GroupAt(body.clauses, a))
  BY GroupsCover DEF GroupStarts, GroupsOf
<1>2. \A a \in GroupStarts(body) :
          Renamed(excluded, GroupAt(body.clauses, a)).selector.kind = "exact_jobs" <=> "default" \notin LabelsOf(body, a)
  <2> TAKE a \in GroupStarts(body)
  <2>1. CompleteGroup(body, a, "none")
    BY CompleteGroups
  <2> QED
    BY <2>1 DEF CompleteGroup
<1>3. (\A group \in groups : group.selector.kind = "exact_jobs") <=> NoDefault(body)
  BY <1>1, <1>2 DEF NoDefault
<1>4. KeptDrafts(body) = groups \cup {passing \in {PassingBy(body)} : \A group \in groups : group.selector.kind = "exact_jobs"}
  BY DEF KeptDrafts, PassingBy
<1> HIDE DEF groups, excluded
<1> QED
  BY <1>1, <1>3, <1>4 DEF excluded

LEMMA PassingIs ==
    ASSUME NEW body, BodyIsTyped(body), body.form = "switch", DispatchState(body) = "complete",
           NEW job, job \notin {"?", "default"}
    PROVE  /\ WithRest(body, PassingBy(body)).regions = {region \in {Rest} : body.rest}
           /\ Selects(WithRest(body, PassingBy(body)).selector, job) <=> Unlabelled(body, job)
<1> DEFINE excluded == Unmatched(ExactJobs(body.clauses))
           none == {}
           yes == TRUE
<1>1. PassingBy(body) = [selector |-> excluded, regions |-> none, continues |-> yes]
  BY DEF PassingBy, Draft
<1> HIDE DEF excluded, none, yes
<1>2. WithRest(body, PassingBy(body)) =
          IF body.rest /\ yes THEN [selector |-> excluded, regions |-> none \cup {Rest}, continues |-> yes]
          ELSE [selector |-> excluded, regions |-> none, continues |-> yes]
  BY <1>1 DEF WithRest
<1>3. /\ WithRest(body, PassingBy(body)).regions = {region \in {Rest} : body.rest}
      /\ WithRest(body, PassingBy(body)).selector = excluded
  BY <1>2 DEF none, yes
<1>4. Selects(excluded, job) <=> job \notin NamedFrom(body.clauses, 1)
  BY CompleteSwitch DEF Selects, Unmatched, excluded
<1>5. job \in NamedFrom(body.clauses, 1) <=> \E k \in 1..Len(body.clauses) : body.clauses[k].label = job
  BY DEF NamedFrom
<1> QED
  BY <1>3, <1>4, <1>5 DEF Unlabelled

ForAll(draft, regions, job) == Selects(draft.selector, job) /\ draft.regions = regions

LEMMA DraftForAll ==
    ASSUME NEW regions, NEW job
    PROVE  ForAll(Draft(AllJobs, regions, FALSE), regions, job)
<1>1. Selects(AllJobs, job)
  BY DEF Selects, AllJobs
<1>2. Draft(AllJobs, regions, FALSE).selector = AllJobs /\ Draft(AllJobs, regions, FALSE).regions = regions
  BY DEF Draft
<1> QED
  BY <1>1, <1>2 DEF ForAll

LEMMA SwitchGives ==
    ASSUME NEW body, BodyIsTyped(body), body.form = "switch", DispatchState(body) = "complete",
           NEW job, job \notin {"?", "default"}, NEW region
    PROVE  region \in RegionsFor(body, job) <=> GivenBySwitch(body, job, region)
<1> DEFINE Gives(draft) == Selects(draft.selector, job) /\ region \in draft.regions
<1>1. region \in RegionsFor(body, job) <=> \E draft \in Range(Branches(body)) : Gives(draft)
  BY DEF RegionsFor
<1>2. Range(Branches(body)) = DraftsAround(body) \cup {WithRest(body, draft) : draft \in KeptDrafts(body)}
  BY CompleteSwitch
<1>4. (\E draft \in DraftsAround(body) : Gives(draft)) <=>
          (region = Prelude /\ body.prelude) \/ (region = Finally /\ body.finally)
  <2>1. Gives(Draft(AllJobs, {Prelude}, FALSE)) <=> region = Prelude
    <3>1. ForAll(Draft(AllJobs, {Prelude}, FALSE), {Prelude}, job)
      BY DraftForAll
    <3> QED
      BY <3>1 DEF ForAll
  <2>2. Gives(Draft(AllJobs, {Finally}, FALSE)) <=> region = Finally
    <3>1. ForAll(Draft(AllJobs, {Finally}, FALSE), {Finally}, job)
      BY DraftForAll
    <3> QED
      BY <3>1 DEF ForAll
  <2> HIDE DEF Gives
  <2> QED
    BY <2>1, <2>2 DEF DraftsAround
<1>5. \A a \in GroupStarts(body) : Gives(FinalOf(body, a)) <=> ServesJob(body, a, job) /\ region \in RegionsOf(body, a)
  <2> TAKE a \in GroupStarts(body)
  <2>1. CompleteGroup(body, a, job)
    BY CompleteGroups
  <2> QED
    BY <2>1 DEF CompleteGroup
<1>6. Gives(WithRest(body, PassingBy(body))) <=> region = Rest /\ body.rest /\ Unlabelled(body, job)
  BY PassingIs
<1> HIDE DEF Gives
<1>7. (\E draft \in {WithRest(body, draft) : draft \in KeptDrafts(body)} : Gives(draft)) <=>
          \/ \E a \in GroupStarts(body) : Gives(FinalOf(body, a))
          \/ Gives(WithRest(body, PassingBy(body))) /\ NoDefault(body)
  BY KeptAre DEF FinalOf
<1> QED
  BY <1>1, <1>2, <1>4, <1>5, <1>6, <1>7 DEF GivenBySwitch

\* The regions that run, one by one.
RunsIn(body, job, region) ==
    LET c == FirstClause(body, job)
        last == IF body.form = "ifs" THEN c ELSE LastClause(body, c)
    IN  \/ region = Prelude /\ body.prelude
        \/ region = Finally /\ body.finally
        \/ c # 0 /\ \E k \in c..last : body.clauses[k].ends # "empty" /\ region = Clause(k)
        \/ region = Rest /\ body.rest /\ ~(c # 0 /\ body.clauses[last].ends = "return")

LEMMA RunsAre ==
    ASSUME NEW body, NEW job, NEW region
    PROVE  region \in Runs(body, job) <=> RunsIn(body, job, region)
<1> DEFINE c == FirstClause(body, job)
           last == IF body.form = "ifs" THEN c ELSE LastClause(body, c)
<1>1. Runs(body, job) =
          {r \in {Prelude} : body.prelude}
          \cup (IF c = 0 THEN {} ELSE {Clause(k) : k \in {k \in c..last : body.clauses[k].ends # "empty"}})
          \cup {r \in {Rest} : body.rest /\ ~(c # 0 /\ body.clauses[last].ends = "return")}
          \cup {r \in {Finally} : body.finally}
  BY DEF Runs
<1>2. RunsIn(body, job, region) <=>
          \/ region = Prelude /\ body.prelude
          \/ region = Finally /\ body.finally
          \/ c # 0 /\ \E k \in c..last : body.clauses[k].ends # "empty" /\ region = Clause(k)
          \/ region = Rest /\ body.rest /\ ~(c # 0 /\ body.clauses[last].ends = "return")
  BY DEF RunsIn
<1> HIDE DEF c, last
<1> QED
  BY <1>1, <1>2

LEMMA RegionsDiffer ==
    /\ \A k : Clause(k)[1] = "clause" /\ Clause(k)[2] = k
    /\ Prelude[1] # "clause" /\ Rest[1] # "clause" /\ Finally[1] # "clause"
  BY DEF Clause, Prelude, Rest, Finally

LEMMA AttributedAre ==
    ASSUME NEW body, NEW job
    PROVE  /\ \A k : Clause(k) \in Attributed(body, job) <=>
                        Clause(k) \in RegionsFor(body, job) /\ body.clauses[k].ends # "empty"
           /\ \A region \in {Prelude, Rest, Finally} :
                 region \in Attributed(body, job) <=> region \in RegionsFor(body, job)
           /\ Attributed(body, job) \subseteq RegionsFor(body, job)
  BY RegionsDiffer DEF Attributed

\* The group a job enters the switch by.
LEMMA GroupEntered ==
    ASSUME NEW body, BodyIsTyped(body), body.form = "switch", DispatchState(body) = "complete",
           NEW job, job \notin {"?", "default"}, NEW a \in GroupStarts(body),
           NEW c \in a..GroupEnd(body.clauses, a)
    PROVE  /\ GroupEnd(body.clauses, a) \in c..Len(body.clauses) /\ a \in 1..Len(body.clauses)
           /\ c \in 1..Len(body.clauses)
           /\ LastClause(body, c) = GroupEnd(body.clauses, a)
           /\ \A k \in a..GroupEnd(body.clauses, a) : body.clauses[k].ends # "empty" => k = GroupEnd(body.clauses, a)
<1> DEFINE e == GroupEnd(body.clauses, a)
<1>1. CompleteGroup(body, a, job)
  BY CompleteGroups
<1>2. /\ e \in a..Len(body.clauses)
      /\ \A k \in a..(e - 1) : body.clauses[k].ends = "empty"
      /\ body.clauses[e].ends \in {"break", "return"} \/ e = Len(body.clauses)
  BY <1>1 DEF CompleteGroup, GroupEnds
<1>3. a \in 1..Len(body.clauses) /\ Len(body.clauses) \in Nat
  BY ClausesAre DEF GroupStarts
<1> HIDE DEF e
<1>4. c \in a..e
  BY DEF e
<1>5. c \in 1..Len(body.clauses) /\ e \in c..Len(body.clauses) /\ \A k \in c..(e - 1) : body.clauses[k].ends = "empty"
  BY <1>2, <1>3, <1>4
<1>6. LastClause(body, c) = e
  BY <1>2, <1>5, LastClauseIs
<1>7. \A k \in a..e : body.clauses[k].ends # "empty" => k = e
  BY <1>2, <1>3
<1> QED
  BY <1>3, <1>5, <1>6, <1>7 DEF e

LEMMA SwitchEntered ==
    ASSUME NEW body, BodyIsTyped(body), body.form = "switch", DispatchState(body) = "complete",
           NEW job, job \notin {"?", "default"}, NEW region, FirstClause(body, job) # 0
    PROVE  /\ RunsIn(body, job, region) => region \in Attributed(body, job)
           /\ ~Repeats(body) /\ region \in Attributed(body, job) => RunsIn(body, job, region)
<1> DEFINE c == FirstClause(body, job)
           n == Len(body.clauses)
<1>1. n \in Nat /\ DOMAIN body.clauses = 1..n
  BY ClausesAre
<1>2. /\ c \in 1..n
      /\ body.clauses[c].label = job \/ (Unlabelled(body, job) /\ body.clauses[c].label = "default")
      /\ ~Unlabelled(body, job) => body.clauses[c].label = job
  BY FirstClauseIs DEF Unlabelled
<1>3. PICK a \in GroupStarts(body) : c \in a..GroupEnd(body.clauses, a)
  <2>1. PICK a \in 1..c : c <= GroupEnd(body.clauses, a) /\ GroupAt(body.clauses, a) \in Range(GroupDrafts(body.clauses))
    BY <1>2, GroupsCover
  <2>2. a \in GroupStarts(body)
    BY <1>1, <1>2, <2>1 DEF GroupStarts
  <2>3. CompleteGroup(body, a, job)
    BY <2>2, CompleteGroups
  <2>4. GroupEnd(body.clauses, a) \in Int
    BY <1>1, <2>1, <2>3 DEF CompleteGroup, GroupEnds
  <2> QED
    BY <1>1, <1>2, <2>1, <2>2, <2>4
<1> DEFINE e == GroupEnd(body.clauses, a)
<1>4. /\ e \in c..n /\ LastClause(body, c) = e /\ a \in 1..n
      /\ \A k \in a..e : body.clauses[k].ends # "empty" => k = e
  BY <1>3, GroupEntered
<1>5. CompleteGroup(body, a, job)
  BY <1>3, CompleteGroups
<1>6. RunsIn(body, job, region) <=>
          \/ region = Prelude /\ body.prelude
          \/ region = Finally /\ body.finally
          \/ \E k \in c..e : body.clauses[k].ends # "empty" /\ region = Clause(k)
          \/ region = Rest /\ body.rest /\ body.clauses[e].ends # "return"
  BY <1>4 DEF RunsIn
<1>7. ServesJob(body, a, job)
  <2>1. body.clauses[c].label \in LabelsOf(body, a)
    BY <1>3 DEF LabelsOf
  <2> QED
    BY <1>2, <1>5, <2>1 DEF ServesJob, CompleteGroup
<1>8. RegionsOf(body, a) = {Clause(k) : k \in a..e} \cup {r \in {Rest} : body.rest /\ body.clauses[e].ends # "return"}
  BY DEF RegionsOf
<1>9. \A r : GivenBySwitch(body, job, r) <=> r \in RegionsFor(body, job)
  BY SwitchGives
<1> HIDE DEF e, c, n
<1>10. ASSUME RunsIn(body, job, region)
       PROVE  region \in Attributed(body, job)
  <2>1. CASE (region = Prelude /\ body.prelude) \/ (region = Finally /\ body.finally)
    BY <1>9, <2>1, AttributedAre DEF GivenBySwitch
  <2>2. CASE region = Rest /\ body.rest /\ body.clauses[e].ends # "return"
    BY <1>3, <1>7, <1>8, <1>9, <2>2, AttributedAre DEF GivenBySwitch
  <2>3. ASSUME NEW k \in c..e, body.clauses[k].ends # "empty", region = Clause(k)
        PROVE  region \in Attributed(body, job)
    <3>1. k \in a..e
      BY <1>3, <1>4, <2>3, <1>1, <1>2 DEF e
    <3>2. region \in RegionsOf(body, a)
      BY <1>8, <2>3, <3>1
    <3> QED
      BY <1>3, <1>7, <1>9, <2>3, <3>2, AttributedAre DEF GivenBySwitch
  <2> QED
    BY <1>6, <1>10, <2>1, <2>2, <2>3
<1>11. ASSUME ~Repeats(body), NEW b \in GroupStarts(body), ServesJob(body, b, job)
       PROVE  c \in b..GroupEnd(body.clauses, b)
  <2>1. \A i, k \in 1..n : body.clauses[i].label = body.clauses[k].label => i = k
    BY <1>1, <1>11 DEF Repeats
  <2>2. CompleteGroup(body, b, job)
    BY CompleteGroups
  <2>3. b \in 1..n /\ GroupEnd(body.clauses, b) \in b..n
    BY <2>2 DEF CompleteGroup, GroupEnds, GroupStarts, n
  <2>4. CASE job \in LabelsOf(body, b)
    <3>1. PICK k \in b..GroupEnd(body.clauses, b) : body.clauses[k].label = job
      BY <2>4 DEF LabelsOf
    <3>2. k \in 1..n
      BY <1>1, <2>3, <3>1
    <3> QED
      BY <1>2, <2>1, <3>1, <3>2 DEF Unlabelled, n
  <2>5. CASE LabelsOf(body, b) = {"default"} /\ Unlabelled(body, job)
    <3>1. body.clauses[b].label = "default"
      <4>1. b \in b..GroupEnd(body.clauses, b)
        BY <1>1, <2>3
      <4>2. body.clauses[b].label \in LabelsOf(body, b)
        BY <4>1 DEF LabelsOf
      <4> QED
        BY <2>5, <4>2
    <3>2. body.clauses[c].label = "default"
      BY <1>2, <2>5 DEF Unlabelled, n
    <3> QED
      BY <1>1, <1>2, <2>1, <2>3, <3>1, <3>2
  <2> QED
    BY <1>11, <2>4, <2>5 DEF ServesJob
<1>12. ~(NoDefault(body) /\ Unlabelled(body, job))
  <2>1. body.clauses[c].label \in LabelsOf(body, a)
    BY <1>3 DEF LabelsOf, c
  <2> QED
    BY <1>2, <1>3, <2>1 DEF NoDefault, Unlabelled, n
<1>13. ASSUME ~Repeats(body), region \in Attributed(body, job)
       PROVE  RunsIn(body, job, region)
  <2>1. GivenBySwitch(body, job, region)
    BY <1>9, <1>13, AttributedAre
  <2>2. CASE (region = Prelude /\ body.prelude) \/ (region = Finally /\ body.finally)
    BY <1>6, <2>2
  <2>3. ASSUME NEW b \in GroupStarts(body), ServesJob(body, b, job), region \in RegionsOf(body, b)
        PROVE  RunsIn(body, job, region)
    <3>1. c \in b..GroupEnd(body.clauses, b)
      BY <1>11, <1>13, <2>3
    <3>2. /\ LastClause(body, c) = GroupEnd(body.clauses, b)
          /\ \A k \in b..GroupEnd(body.clauses, b) : body.clauses[k].ends # "empty" => k = GroupEnd(body.clauses, b)
      BY <3>1, GroupEntered
    <3>3. GroupEnd(body.clauses, b) = e
      BY <1>4, <3>2
    <3>4. CASE region = Rest /\ body.rest /\ body.clauses[e].ends # "return"
      BY <1>6, <3>4
    <3>5. ASSUME NEW k \in b..e, region = Clause(k)
          PROVE  RunsIn(body, job, region)
      <4>1. body.clauses[k].ends # "empty"
        BY <1>13, <3>5, AttributedAre
      <4>2. k = e
        BY <3>2, <3>3, <3>5, <4>1
      <4>3. e \in c..e
        BY <1>1, <1>2, <1>4
      <4> QED
        BY <1>6, <3>5, <4>1, <4>2, <4>3
    <3> QED
      BY <2>3, <3>3, <3>4, <3>5 DEF RegionsOf
  <2> QED
    BY <1>12, <2>1, <2>2, <2>3 DEF GivenBySwitch
<1> QED
  BY <1>10, <1>13

LEMMA SwitchPassed ==
    ASSUME NEW body, BodyIsTyped(body), body.form = "switch", DispatchState(body) = "complete",
           NEW job, job \notin {"?", "default"}, NEW region, FirstClause(body, job) = 0
    PROVE  RunsIn(body, job, region) <=> region \in Attributed(body, job)
<1>1. RunsIn(body, job, region) <=>
          (region = Prelude /\ body.prelude) \/ (region = Finally /\ body.finally) \/ (region = Rest /\ body.rest)
  BY DEF RunsIn
<1>2. /\ Len(body.clauses) \in Nat
      /\ \A k \in 1..Len(body.clauses) : body.clauses[k].label # job /\ body.clauses[k].label # "default"
  <2>1. Len(body.clauses) \in Nat
    BY ClausesAre
  <2>2. 0 \notin 1..Len(body.clauses)
    BY <2>1
  <2> QED
    BY <2>1, <2>2, FirstClauseIs
<1>3. \A a \in GroupStarts(body) : "default" \notin LabelsOf(body, a) /\ job \notin LabelsOf(body, a)
  <2> TAKE a \in GroupStarts(body)
  <2>1. CompleteGroup(body, a, job)
    BY CompleteGroups
  <2>2. a \in 1..Len(body.clauses) /\ GroupEnd(body.clauses, a) \in a..Len(body.clauses)
    BY <2>1 DEF CompleteGroup, GroupEnds, GroupStarts
  <2>3. a..GroupEnd(body.clauses, a) \subseteq 1..Len(body.clauses)
    BY <1>2, <2>2
  <2> QED
    BY <1>2, <2>3 DEF LabelsOf
<1>4. NoDefault(body) /\ Unlabelled(body, job) /\ \A a \in GroupStarts(body) : ~ServesJob(body, a, job)
  BY <1>2, <1>3 DEF NoDefault, Unlabelled, ServesJob
<1>5. region \in RegionsFor(body, job) <=> RunsIn(body, job, region)
  BY <1>1, <1>4, SwitchGives DEF GivenBySwitch
<1> QED
  BY <1>1, <1>5, AttributedAre

LEMMA SwitchRuns ==
    ASSUME NEW body, BodyIsTyped(body), body.form = "switch", DispatchState(body) = "complete",
           NEW job, job \notin {"?", "default"}
    PROVE  /\ Runs(body, job) \subseteq Attributed(body, job)
           /\ ~Repeats(body) => Attributed(body, job) = Runs(body, job)
<1>1. \A region : /\ RunsIn(body, job, region) => region \in Attributed(body, job)
                  /\ ~Repeats(body) /\ region \in Attributed(body, job) => RunsIn(body, job, region)
  BY SwitchEntered, SwitchPassed
<1>2. \A region : region \in Runs(body, job) <=> RunsIn(body, job, region)
  BY RunsAre
<1> QED
  BY <1>1, <1>2

\* The drafts of a run of ifs without an odd one.
IfDraft(body, i) == Draft(Exact({body.clauses[i].label}), {Clause(i)}, FALSE)

OtherwiseDraft(body) ==
    Draft(Unmatched({body.clauses[i].label : i \in 1..Len(body.clauses)}),
          IF body.rest THEN {Rest} ELSE {Clause(1)}, FALSE)

LEMMA IfRange ==
    ASSUME NEW body, BodyIsTyped(body), body.form = "ifs", DispatchState(body) = "complete"
    PROVE  /\ \A i \in 1..Len(body.clauses) : Supported(body.clauses[i])
           /\ Range(Branches(body)) = {draft \in {Draft(AllJobs, {Prelude}, FALSE)} : body.prelude}
                                      \cup {IfDraft(body, i) : i \in 1..Len(body.clauses)}
                                      \cup {OtherwiseDraft(body)}
<1> DEFINE n == Len(body.clauses)
           odd == {i \in 1..n : ~Supported(body.clauses[i])}
           least == CHOOSE i \in odd : \A k \in odd : i <= k
           first == IF odd = {} THEN n + 1 ELSE least
           after == {Clause(k) : k \in (first + 1)..n} \cup (IF body.rest THEN {Rest} ELSE {})
           spoilt == Draft(Unknown, {Clause(first)} \cup after, FALSE)
           otherwise == Draft(Unmatched({body.clauses[i].label : i \in 1..n}),
                              IF after = {} THEN {Clause(1)} ELSE after, FALSE)
           single == [i \in 1..(first - 1) |-> Draft(Exact({body.clauses[i].label}), {Clause(i)}, FALSE)]
           last == IF odd = {} THEN <<otherwise>> ELSE <<spoilt>>
<1>1. n \in Nat
  BY ClausesAre
<1>2. Branches(body) = (PreludeDraft(body) \o single) \o last
  <2>1. Branches(body) = Drafts(body) /\ Drafts(body) = IfDrafts(body)
    BY CompleteIs DEF Drafts
  <2> QED
    BY <2>1 DEF IfDrafts
<1>3. first \in 1..(n + 1)
  <2>1. CASE odd = {}
    BY <1>1, <2>1
  <2>2. CASE odd # {}
    <3>1. odd \in SUBSET Nat /\ odd \subseteq 1..n
      BY <1>1
    <3> HIDE DEF odd, n
    <3>2. least \in odd
      BY <2>2, <3>1, LeastIs
    <3> HIDE DEF least
    <3> QED
      BY <1>1, <2>2, <3>1, <3>2
  <2> QED
    BY <2>1, <2>2
<1>4. IsList(single) /\ Range(single) = {single[i] : i \in 1..(first - 1)}
  <2>1. first - 1 \in Nat
    BY <1>1, <1>3
  <2>2. single = [i \in 1..(first - 1) |-> single[i]]
    OBVIOUS
  <2> HIDE DEF single, first, n
  <2> QED
    BY <2>1, <2>2, ListOf
<1>5. IsList(last) /\ Range(last) = IF odd = {} THEN {otherwise} ELSE {spoilt}
  <2> HIDE DEF otherwise, spoilt, odd
  <2> QED
    BY NoneOrOne
<1>6. IsList(PreludeDraft(body)) /\ Range(PreludeDraft(body)) = {draft \in {Draft(AllJobs, {Prelude}, FALSE)} : body.prelude}
  BY PreludeIs
<1>7. Range(Branches(body)) = (Range(PreludeDraft(body)) \cup Range(single)) \cup Range(last)
  <2> HIDE DEF single, last
  <2>1. /\ IsList(PreludeDraft(body) \o single)
        /\ Range(PreludeDraft(body) \o single) = Range(PreludeDraft(body)) \cup Range(single)
    BY <1>4, <1>6, Joined
  <2> QED
    BY <1>2, <1>5, <2>1, Joined
<1>8. odd = {}
  <2>1. SUFFICES ASSUME odd # {} PROVE FALSE
    OBVIOUS
  <2>2. spoilt \in Range(Branches(body))
    <3> HIDE DEF spoilt, otherwise, odd, single, last
    <3> QED
      BY <1>5, <1>7, <2>1
  <2>3. spoilt.selector = Unknown
    <3> DEFINE regions == {Clause(first)} \cup after
    <3> HIDE DEF regions
    <3>1. Draft(Unknown, regions, FALSE).selector = Unknown
      BY DEF Draft
    <3> QED
      BY <3>1 DEF regions
  <2> HIDE DEF spoilt
  <2> QED
    BY <2>2, <2>3, CompleteIs DEF IsUnknown
<1>9. first = n + 1
  BY <1>8
<1>10. after = IF body.rest THEN {Rest} ELSE {}
  <2> HIDE DEF first, n
  <2>1. (first + 1)..n = {}
    BY <1>1, <1>9
  <2> QED
    BY <2>1
<1>11. otherwise = OtherwiseDraft(body)
  <2> HIDE DEF after
  <2>1. (IF after = {} THEN {Clause(1)} ELSE after) = IF body.rest THEN {Rest} ELSE {Clause(1)}
    BY <1>10
  <2> QED
    BY <2>1 DEF OtherwiseDraft
<1>12. {single[i] : i \in 1..(first - 1)} = {IfDraft(body, i) : i \in 1..n}
  <2>1. first - 1 = n
    BY <1>1, <1>9
  <2>2. \A i \in 1..n : single[i] = IfDraft(body, i)
    BY <2>1 DEF IfDraft
  <2> HIDE DEF single, first, n
  <2> QED
    BY <2>1, <2>2
<1>13. \A i \in 1..n : Supported(body.clauses[i])
  BY <1>8
<1> HIDE DEF single, last, otherwise, spoilt, first, odd
<1> QED
  BY <1>4, <1>5, <1>6, <1>7, <1>8, <1>11, <1>12, <1>13

GivenByIfs(body, job, region) ==
    \/ region = Prelude /\ body.prelude
    \/ \E i \in 1..Len(body.clauses) : body.clauses[i].label = job /\ region = Clause(i)
    \/ Unlabelled(body, job) /\ region = IF body.rest THEN Rest ELSE Clause(1)

IfsGiveEach(body, job, region) ==
    /\ \A i : Selects(IfDraft(body, i).selector, job) /\ region \in IfDraft(body, i).regions
                <=> body.clauses[i].label = job /\ region = Clause(i)
    /\ Selects(OtherwiseDraft(body).selector, job) /\ region \in OtherwiseDraft(body).regions
                <=> Unlabelled(body, job) /\ region = IF body.rest THEN Rest ELSE Clause(1)

LEMMA IfDraftsGive ==
    ASSUME NEW body, NEW job, NEW region
    PROVE  IfsGiveEach(body, job, region)
<1>1. \A s, r, c : Draft(s, r, c).selector = s /\ Draft(s, r, c).regions = r
  BY DEF Draft
<1>2. \A S : (Selects(Exact(S), job) <=> job \in S) /\ (Selects(Unmatched(S), job) <=> job \notin S)
  BY DEF Selects, Exact, Unmatched
<1>3. \A i : IfDraft(body, i).selector = Exact({body.clauses[i].label}) /\ IfDraft(body, i).regions = {Clause(i)}
  BY <1>1 DEF IfDraft
<1>4. /\ OtherwiseDraft(body).selector = Unmatched({body.clauses[i].label : i \in 1..Len(body.clauses)})
      /\ OtherwiseDraft(body).regions = IF body.rest THEN {Rest} ELSE {Clause(1)}
  <2> DEFINE r == IF body.rest THEN {Rest} ELSE {Clause(1)}
             s == Unmatched({body.clauses[i].label : i \in 1..Len(body.clauses)})
  <2>1. OtherwiseDraft(body) = Draft(s, r, FALSE)
    BY DEF OtherwiseDraft
  <2> HIDE DEF r, s
  <2>2. OtherwiseDraft(body).selector = s /\ OtherwiseDraft(body).regions = r
    BY <2>1 DEF Draft
  <2> QED
    BY <2>2 DEF r, s
<1>5. \A i : Selects(IfDraft(body, i).selector, job) <=> body.clauses[i].label = job
  BY <1>2, <1>3
<1>6. Selects(OtherwiseDraft(body).selector, job) <=> job \notin {body.clauses[i].label : i \in 1..Len(body.clauses)}
  BY <1>2, <1>4
<1>7. job \notin {body.clauses[i].label : i \in 1..Len(body.clauses)} <=> Unlabelled(body, job)
  BY DEF Unlabelled
<1>8. region \in OtherwiseDraft(body).regions <=> region = IF body.rest THEN Rest ELSE Clause(1)
  BY <1>4
<1> QED
  BY <1>3, <1>5, <1>6, <1>7, <1>8 DEF IfsGiveEach

LEMMA IfsGive ==
    ASSUME NEW body, BodyIsTyped(body), body.form = "ifs", DispatchState(body) = "complete",
           NEW job, NEW region
    PROVE  region \in RegionsFor(body, job) <=> GivenByIfs(body, job, region)
<1> DEFINE Gives(draft) == Selects(draft.selector, job) /\ region \in draft.regions
<1>1. region \in RegionsFor(body, job) <=> \E draft \in Range(Branches(body)) : Gives(draft)
  BY DEF RegionsFor
<1>2. Range(Branches(body)) = {draft \in {Draft(AllJobs, {Prelude}, FALSE)} : body.prelude}
                              \cup {IfDraft(body, i) : i \in 1..Len(body.clauses)}
                              \cup {OtherwiseDraft(body)}
  BY IfRange
<1>3. Gives(Draft(AllJobs, {Prelude}, FALSE)) <=> region = Prelude
  <2>1. ForAll(Draft(AllJobs, {Prelude}, FALSE), {Prelude}, job)
    BY DraftForAll
  <2> QED
    BY <2>1 DEF ForAll
<1>4. IfsGiveEach(body, job, region)
  BY IfDraftsGive
<1>5. /\ \A i : Gives(IfDraft(body, i)) <=> body.clauses[i].label = job /\ region = Clause(i)
      /\ Gives(OtherwiseDraft(body)) <=> Unlabelled(body, job) /\ region = IF body.rest THEN Rest ELSE Clause(1)
  BY <1>4 DEF IfsGiveEach
<1> HIDE DEF Gives
<1> QED
  BY <1>1, <1>2, <1>3, <1>5 DEF GivenByIfs

LEMMA IfRuns ==
    ASSUME NEW body, BodyIsTyped(body), body.form = "ifs", DispatchState(body) = "complete", NEW job
    PROVE  /\ Runs(body, job) \subseteq Attributed(body, job)
           /\ ~Repeats(body) /\ ~NothingBehind(body) => Attributed(body, job) = Runs(body, job)
<1> DEFINE c == FirstClause(body, job)
           n == Len(body.clauses)
<1>1. n \in Nat /\ DOMAIN body.clauses = 1..n /\ 0 \notin 1..n
  BY ClausesAre
<1>2. /\ Unlabelled(body, job) => c = 0
      /\ ~Unlabelled(body, job) => c \in 1..n /\ body.clauses[c].label = job
  BY FirstClauseIs DEF Unlabelled
<1>3. \A i \in 1..n : body.clauses[i].ends = "return"
  BY IfRange DEF Supported
<1> HIDE DEF c, n
<1>4. \A region : RunsIn(body, job, region) <=>
          \/ region = Prelude /\ body.prelude
          \/ c # 0 /\ region = Clause(c)
          \/ region = Rest /\ body.rest /\ c = 0
  <2>1. ~body.finally
    BY DEF BodyIsTyped
  <2>2. c # 0 => c \in 1..n /\ body.clauses[c].ends = "return" /\ c..c = {c}
    BY <1>1, <1>2, <1>3
  <2> QED
    BY <2>1, <2>2 DEF RunsIn, c
<1>5. \A region : region \in RegionsFor(body, job) <=> GivenByIfs(body, job, region)
  BY IfsGive
<1>6. ASSUME NEW region, RunsIn(body, job, region)
      PROVE  region \in Attributed(body, job)
  <2>1. CASE region = Prelude /\ body.prelude
    BY <1>5, <2>1, AttributedAre DEF GivenByIfs
  <2>2. CASE c # 0 /\ region = Clause(c)
    <3>1. c \in 1..n /\ body.clauses[c].label = job /\ body.clauses[c].ends = "return"
      BY <1>2, <1>3, <2>2
    <3>2. region \in RegionsFor(body, job)
      BY <1>5, <2>2, <3>1 DEF GivenByIfs, n
    <3> QED
      BY <2>2, <3>1, <3>2, AttributedAre
  <2>3. CASE region = Rest /\ body.rest /\ c = 0
    BY <1>1, <1>2, <1>5, <2>3, AttributedAre DEF GivenByIfs
  <2> QED
    BY <1>4, <1>6, <2>1, <2>2, <2>3
<1>7. ASSUME ~Repeats(body), body.rest, NEW region \in Attributed(body, job)
      PROVE  RunsIn(body, job, region)
  <2>1. \A i, k \in 1..n : body.clauses[i].label = body.clauses[k].label => i = k
    BY <1>1, <1>7 DEF Repeats
  <2>2. GivenByIfs(body, job, region)
    BY <1>5, AttributedAre
  <2>3. ASSUME NEW i \in 1..n, body.clauses[i].label = job, region = Clause(i)
        PROVE  RunsIn(body, job, region)
    BY <1>1, <1>2, <1>4, <2>1, <2>3 DEF Unlabelled, n
  <2>4. CASE Unlabelled(body, job) /\ region = Rest
    BY <1>2, <1>4, <1>7, <2>4
  <2> QED
    BY <1>4, <1>7, <2>2, <2>3, <2>4 DEF GivenByIfs, n
<1>8. \A region : region \in Runs(body, job) <=> RunsIn(body, job, region)
  BY RunsAre
<1> QED
  BY <1>6, <1>7, <1>8 DEF NothingBehind

\* What the branches of a body promise, for every body.
LEMMA BodiesKeepTheirRegions ==
    ASSUME NEW body, BodyIsTyped(body), NEW jobs, \A job \in jobs : job \notin {"?", "default"}
    PROVE  BranchesAreWhatRuns(body, jobs)
<1>1. SUFFICES ASSUME DispatchState(body) = "complete", NEW job \in jobs
               PROVE  /\ Runs(body, job) \subseteq Attributed(body, job)
                      /\ ~Repeats(body) /\ ~NothingBehind(body) => Attributed(body, job) = Runs(body, job)
  BY DEF BranchesAreWhatRuns
<1>2. CASE body.form = "switch"
  BY <1>1, <1>2, SwitchRuns
<1>3. CASE body.form = "ifs"
  BY <1>1, <1>3, IfRuns
<1>4. CASE body.form \notin {"switch", "ifs"}
  BY <1>1, <1>4, CompleteIs DEF Drafts
<1> QED
  BY <1>2, <1>3, <1>4

(***************************************************************************)
(* The dispatches of a scan: every body in them is one of the wiring.      *)
(***************************************************************************)
JobsInv ==
    /\ \A l \in wiring.listeners : l.channel = "job" => BodyIsTyped(l.body)
    /\ \A dispatch \in jobFacts.dispatches : BodyIsTyped(dispatch.listener.body)

LEMMA JobsInvHolds == Spec => []JobsInv
<1>1. ASSUME ScanInit PROVE JobsInv
  <2>1. PICK family \in Repositories : \E r \in family : wiring = r.wiring
    BY <1>1 DEF ScanInit
  <2>2. \A l \in wiring.listeners : l.channel = "job" => BodyIsTyped(l.body)
    BY <2>1, RepositoriesAssumption DEF WiringIsTyped
  <2>3. jobFacts.dispatches = {}
    BY <1>1 DEF ScanInit, NoFacts
  <2> QED
    BY <2>2, <2>3 DEF JobsInv
<1>2. ASSUME JobsInv, [Next]_scanVars PROVE JobsInv'
  <2>1. CASE UNCHANGED <<wiring, jobFacts>>
    BY <1>2, <2>1 DEF JobsInv
  <2>2. CASE ExtractJobs
    <3>1. wiring' = wiring /\ jobFacts' = JobFacts
      BY <2>2 DEF ExtractJobs
    <3>2. ASSUME NEW dispatch \in JobFacts.dispatches
          PROVE  BodyIsTyped(dispatch.listener.body)
      <4>1. JobFacts.dispatches =
                {[listener |-> l, state |-> DispatchState(l.body), branches |-> Branches(l.body)] :
                    l \in {l \in Of("job", wiring.listeners) : l.body.form # "none"}}
        BY DEF JobFacts
      <4>2. PICK l \in Of("job", wiring.listeners) :
                dispatch = [listener |-> l, state |-> DispatchState(l.body), branches |-> Branches(l.body)]
        BY <3>2, <4>1
      <4>3. dispatch.listener = l
        BY <4>2
      <4> QED
        BY <1>2, <4>3 DEF JobsInv, Of
    <3> QED
      BY <1>2, <3>1, <3>2 DEF JobsInv
  <2>3. UNCHANGED <<wiring, jobFacts>> \/ ExtractJobs
    <3>1. UNCHANGED interactionVars => UNCHANGED <<wiring, jobFacts>>
      BY DEF interactionVars
    <3>2. ExtractEvents \/ ExtractMessages => UNCHANGED <<wiring, jobFacts>>
      BY DEF ExtractEvents, ExtractMessages
    <3>3. CASE UNCHANGED scanVars
      BY <3>1, <3>3 DEF scanVars
    <3>4. CASE Next
      BY <3>1, <3>2, <3>4
         DEF Next, Signal, Load, Cancel, ModulesThrow, ModuleMetadata, Guards, AuthorizationMetadata, Controls,
             Locks, Relationships, HttpRequests, EagerRequests, ServiceRequests, Interaction, Events, JobQueues,
             Messages, Persistence, Flow, SameMethod, InterMethod, StartRawSql, RawSqlStep, RawSqlThrew, Assemble,
             Ended, Extract
    <3> QED
      BY <1>2, <3>3, <3>4
  <2> QED
    BY <2>1, <2>2, <2>3
<1> QED
  BY <1>1, <1>2, PTL DEF Spec

\* However a processor divides its jobs, a dispatch called complete gives
\* each job what JavaScript runs for it (extractBullMqHandlerBranches).
THEOREM JobsKeepRegions == Spec => []JobsKeepTheirRegions
<1>1. JobsInv => JobsKeepTheirRegions
  <2>1. SUFFICES ASSUME JobsInv, NEW dispatch \in jobFacts.dispatches
                 PROVE  BranchesAreWhatRuns(dispatch.listener.body, JobsOf(dispatch) \ {"?", "default"})
    BY DEF JobsKeepTheirRegions
  <2>2. BodyIsTyped(dispatch.listener.body)
    BY <2>1 DEF JobsInv
  <2>3. \A job \in JobsOf(dispatch) \ {"?", "default"} : job \notin {"?", "default"}
    OBVIOUS
  <2> QED
    BY <2>2, <2>3, BodiesKeepTheirRegions
<1> QED
  BY <1>1, JobsInvHolds, PTL

-----------------------------------------------------------------------------
(***************************************************************************)
(* Names with stars: the table of inProcessEventTargetsMatch finds a match *)
(* where there is a way to share out the segments.                         *)
(***************************************************************************)
LEMMA CountingUp ==
    ASSUME NEW n \in Nat, NEW T, 1 \in T, \A i \in 1..n : i \in T => i + 1 \in T
    PROVE  \A i \in 1..(n + 1) : i \in T
<1> DEFINE Missing == {i \in 1..(n + 1) : i \notin T}
<1>1. SUFFICES ASSUME Missing # {} PROVE FALSE
  OBVIOUS
<1>2. Missing \in SUBSET Nat
  OBVIOUS
<1> HIDE DEF Missing
<1>3. PICK i \in Missing : \A m \in Missing : i <= m
  BY <1>1, <1>2, LeastNumber
<1>4. i \in 1..(n + 1) /\ i \notin T /\ i # 1
  BY <1>3 DEF Missing
<1>5. i - 1 \in 1..n /\ i - 1 \notin Missing
  BY <1>2, <1>3, <1>4
<1>6. i - 1 \in T
  BY <1>5 DEF Missing
<1> QED
  BY <1>4, <1>5, <1>6

\* The places the segments of a pattern from the i-th on start at.
StartsAt(pattern, event, i, j, starts) ==
    /\ starts[i] = j /\ starts[Len(pattern) + 1] = Len(event) + 1
    /\ \A k \in i..Len(pattern) :
          /\ starts[k] <= starts[k + 1]
          /\ pattern[k] # "**" =>
                /\ starts[k + 1] = starts[k] + 1 /\ starts[k] <= Len(event)
                /\ pattern[k] \in {"*", event[starts[k]]}

Places(pattern, event) == [1..(Len(pattern) + 1) -> 1..(Len(event) + 1)]

Shares(pattern, event, i, j) == \E starts \in Places(pattern, event) : StartsAt(pattern, event, i, j, starts)

SharesNext(pattern, event, i, j) ==
    IF i > Len(pattern) THEN j > Len(event)
    ELSE IF pattern[i] = "**"
    THEN Shares(pattern, event, i + 1, j) \/ (j <= Len(event) /\ Shares(pattern, event, i, j + 1))
    ELSE j <= Len(event) /\ pattern[i] \in {"*", event[j]} /\ Shares(pattern, event, i + 1, j + 1)

LEMMA SharesStep ==
    ASSUME NEW pattern, NEW event, Len(pattern) \in Nat, Len(event) \in Nat,
           NEW i \in 1..(Len(pattern) + 1), NEW j \in 1..(Len(event) + 1)
    PROVE  Shares(pattern, event, i, j) <=> SharesNext(pattern, event, i, j)
<1> DEFINE m == Len(pattern)
           n == Len(event)
           S == Places(pattern, event)
<1>1. CASE i = m + 1
  <2>1. ASSUME Shares(pattern, event, i, j) PROVE j > n
    BY <1>1, <2>1 DEF Shares, StartsAt
  <2>2. ASSUME j > n PROVE Shares(pattern, event, i, j)
    <3> DEFINE starts == [k \in 1..(m + 1) |-> n + 1]
    <3>1. starts \in S /\ StartsAt(pattern, event, i, j, starts)
      BY <1>1, <2>2 DEF StartsAt, Places
    <3> QED
      BY <3>1 DEF Shares
  <2> QED
    BY <1>1, <2>1, <2>2 DEF SharesNext
<1>2. CASE i \in 1..m
  <2>1. ASSUME NEW starts \in S, StartsAt(pattern, event, i, j, starts)
        PROVE  SharesNext(pattern, event, i, j)
    <3>1. starts[i] = j /\ i + 1 \in 1..(m + 1) /\ starts[i + 1] \in 1..(n + 1) /\ j <= starts[i + 1]
      BY <1>2, <2>1 DEF StartsAt, Places
    <3>2. StartsAt(pattern, event, i + 1, starts[i + 1], starts)
      BY <1>2, <2>1 DEF StartsAt
    <3>3. Shares(pattern, event, i + 1, starts[i + 1])
      BY <3>2 DEF Shares
    <3>4. CASE pattern[i] # "**"
      BY <1>2, <2>1, <3>1, <3>3, <3>4 DEF SharesNext, StartsAt
    <3>5. CASE pattern[i] = "**" /\ starts[i + 1] = j
      BY <1>2, <3>3, <3>5 DEF SharesNext
    <3>6. CASE pattern[i] = "**" /\ starts[i + 1] # j
      <4> DEFINE later == [k \in 1..(m + 1) |-> IF k = i THEN j + 1 ELSE starts[k]]
      <4>1. j + 1 <= starts[i + 1] /\ j <= n
        BY <3>1, <3>6
      <4>2. later \in S
        BY <4>1 DEF Places
      <4>3. later[i] = j + 1 /\ \A k \in (i + 1)..(m + 1) : later[k] = starts[k]
        BY <1>2
      <4> HIDE DEF later
      <4>4. StartsAt(pattern, event, i, j + 1, later)
        <5>1. later[m + 1] = n + 1
          BY <1>2, <2>1, <4>3 DEF StartsAt
        <5>2. ASSUME NEW k \in i..m
              PROVE  /\ later[k] <= later[k + 1]
                     /\ pattern[k] # "**" =>
                          /\ later[k + 1] = later[k] + 1 /\ later[k] <= n
                          /\ pattern[k] \in {"*", event[later[k]]}
          <6>1. CASE k = i
            BY <1>2, <3>1, <3>6, <4>1, <4>3, <6>1
          <6>2. CASE k # i
            <7>1. k \in (i + 1)..(m + 1) /\ k + 1 \in (i + 1)..(m + 1)
              BY <1>2, <6>2
            <7> QED
              BY <1>2, <2>1, <4>3, <7>1 DEF StartsAt
          <6> QED
            BY <6>1, <6>2
        <5> QED
          BY <4>3, <5>1, <5>2 DEF StartsAt
      <4> QED
        BY <1>2, <3>6, <4>1, <4>2, <4>4 DEF SharesNext, Shares
    <3> QED
      BY <3>4, <3>5, <3>6
  <2>2. ASSUME NEW starts \in S, NEW next \in 1..(n + 1), StartsAt(pattern, event, i + 1, next, starts),
               j <= next,
               pattern[i] # "**" => next = j + 1 /\ j <= n /\ pattern[i] \in {"*", event[j]}
        PROVE  Shares(pattern, event, i, j)
    <3> DEFINE sooner == [k \in 1..(m + 1) |-> IF k = i THEN j ELSE starts[k]]
    <3>1. sooner \in S
      BY DEF Places
    <3>2. sooner[i] = j /\ \A k \in (i + 1)..(m + 1) : sooner[k] = starts[k]
      BY <1>2
    <3> HIDE DEF sooner
    <3>3. sooner[m + 1] = n + 1 /\ starts[i + 1] = next
      BY <1>2, <2>2, <3>2 DEF StartsAt
    <3>4. ASSUME NEW k \in i..m
          PROVE  /\ sooner[k] <= sooner[k + 1]
                 /\ pattern[k] # "**" =>
                      /\ sooner[k + 1] = sooner[k] + 1 /\ sooner[k] <= n
                      /\ pattern[k] \in {"*", event[sooner[k]]}
      <4>1. CASE k = i
        BY <1>2, <2>2, <3>2, <3>3, <4>1
      <4>2. CASE k # i
        <5>1. k \in (i + 1)..m /\ k \in (i + 1)..(m + 1) /\ k + 1 \in (i + 1)..(m + 1)
          BY <1>2, <4>2
        <5> QED
          BY <1>2, <2>2, <3>2, <5>1 DEF StartsAt
      <4> QED
        BY <4>1, <4>2
    <3>5. StartsAt(pattern, event, i, j, sooner)
      BY <3>2, <3>3, <3>4 DEF StartsAt
    <3> QED
      BY <3>1, <3>5 DEF Shares
  <2>3. ASSUME pattern[i] = "**", j <= n, Shares(pattern, event, i, j + 1)
        PROVE  Shares(pattern, event, i, j)
    <3>1. PICK starts \in S : StartsAt(pattern, event, i, j + 1, starts)
      BY <2>3 DEF Shares
    <3>2. StartsAt(pattern, event, i + 1, starts[i + 1], starts) /\ starts[i + 1] \in 1..(n + 1) /\ j <= starts[i + 1]
      BY <1>2, <3>1 DEF StartsAt, Places
    <3> QED
      BY <2>2, <2>3, <3>2
  <2>4. ASSUME NEW next \in 1..(n + 1), Shares(pattern, event, i + 1, next), j <= next,
               pattern[i] # "**" => next = j + 1 /\ j <= n /\ pattern[i] \in {"*", event[j]}
        PROVE  Shares(pattern, event, i, j)
    BY <2>2, <2>4 DEF Shares
  <2>5. ASSUME SharesNext(pattern, event, i, j)
        PROVE  Shares(pattern, event, i, j)
    <3>1. CASE pattern[i] = "**"
      BY <1>2, <2>3, <2>4, <2>5, <3>1 DEF SharesNext
    <3>2. CASE pattern[i] # "**"
      <4>1. j <= n /\ pattern[i] \in {"*", event[j]} /\ Shares(pattern, event, i + 1, j + 1)
        BY <1>2, <2>5, <3>2 DEF SharesNext
      <4> QED
        BY <2>4, <4>1
    <3> QED
      BY <3>1, <3>2
  <2> QED
    BY <2>1, <2>5 DEF Shares
<1> QED
  BY <1>1, <1>2

Cells(pattern, event) == (1..(Len(pattern) + 1)) \X (1..(Len(event) + 1))

Table(pattern, event, match) ==
    [cell \in Cells(pattern, event) |->
        LET i == cell[1]
            j == cell[2]
        IN  IF i > Len(pattern) THEN j > Len(event)
            ELSE IF pattern[i] = "**"
            THEN match[<<i + 1, j>>] \/ (j <= Len(event) /\ match[<<i, j + 1>>])
            ELSE j <= Len(event) /\ pattern[i] \in {"*", event[j]} /\ match[<<i + 1, j + 1>>]]

AtCell(pattern, event, match, i, j) ==
    IF i > Len(pattern) THEN j > Len(event)
    ELSE IF pattern[i] = "**"
    THEN match[<<i + 1, j>>] \/ (j <= Len(event) /\ match[<<i, j + 1>>])
    ELSE j <= Len(event) /\ pattern[i] \in {"*", event[j]} /\ match[<<i + 1, j + 1>>]

LEMMA TableCells ==
    ASSUME NEW pattern, NEW event, NEW match
    PROVE  Table(pattern, event, match) =
              [cell \in Cells(pattern, event) |-> AtCell(pattern, event, match, cell[1], cell[2])]
  BY DEF Table, AtCell

ShareTable(pattern, event) == [cell \in Cells(pattern, event) |-> Shares(pattern, event, cell[1], cell[2])]

LEMMA SharesFillTheTable ==
    ASSUME NEW pattern, NEW event, Len(pattern) \in Nat, Len(event) \in Nat
    PROVE  ShareTable(pattern, event) = Table(pattern, event, ShareTable(pattern, event))
<1> DEFINE f == ShareTable(pattern, event)
           m == Len(pattern)
           n == Len(event)
<1>1. \A i \in 1..(m + 1), j \in 1..(n + 1) : f[<<i, j>>] = Shares(pattern, event, i, j)
  BY DEF ShareTable, Cells
<1>2. ASSUME NEW i \in 1..(m + 1), NEW j \in 1..(n + 1)
      PROVE  Shares(pattern, event, i, j) <=> AtCell(pattern, event, f, i, j)
  <2>1. Shares(pattern, event, i, j) <=> SharesNext(pattern, event, i, j)
    BY SharesStep
  <2>2. CASE i > m
    BY <2>1, <2>2 DEF SharesNext, AtCell
  <2>3. CASE i <= m /\ pattern[i] = "**"
    <3>1. f[<<i + 1, j>>] = Shares(pattern, event, i + 1, j) /\ (j <= n => f[<<i, j + 1>>] = Shares(pattern, event, i, j + 1))
      <4> HIDE DEF f
      <4> QED
        BY <1>1, <2>3
    <3> HIDE DEF f
    <3> QED
      BY <2>1, <2>3, <3>1 DEF SharesNext, AtCell
  <2>4. CASE i <= m /\ pattern[i] # "**"
    <3>1. j <= n => f[<<i + 1, j + 1>>] = Shares(pattern, event, i + 1, j + 1)
      <4> HIDE DEF f
      <4>1. j <= n => i + 1 \in 1..(m + 1) /\ j + 1 \in 1..(n + 1)
        BY <2>4
      <4> HIDE DEF m, n
      <4> QED
        BY <1>1, <4>1
    <3> HIDE DEF f
    <3> QED
      BY <2>1, <2>4, <3>1 DEF SharesNext, AtCell
  <2> QED
    BY <2>2, <2>3, <2>4
<1>3. \A cell \in Cells(pattern, event) : cell[1] \in 1..(m + 1) /\ cell[2] \in 1..(n + 1)
  BY DEF Cells
<1>4. \A cell \in Cells(pattern, event) : Shares(pattern, event, cell[1], cell[2]) <=> AtCell(pattern, event, f, cell[1], cell[2])
  BY <1>2, <1>3
<1>5. \A i, j : Shares(pattern, event, i, j) \in BOOLEAN /\ AtCell(pattern, event, f, i, j) \in BOOLEAN
  <2> HIDE DEF f
  <2> TAKE i, j
  <2>1. Shares(pattern, event, i, j) \in BOOLEAN
    BY DEF Shares
  <2>2. (f[<<i + 1, j>>] \/ (j <= n /\ f[<<i, j + 1>>])) \in BOOLEAN
    OBVIOUS
  <2>3. (j <= n /\ pattern[i] \in {"*", event[j]} /\ f[<<i + 1, j + 1>>]) \in BOOLEAN
    OBVIOUS
  <2>4. AtCell(pattern, event, f, i, j) \in BOOLEAN
    <3>1. CASE i > m
      <4>1. AtCell(pattern, event, f, i, j) = (j > n)
        BY <3>1 DEF AtCell
      <4> QED
        BY <4>1
    <3>2. CASE ~(i > m) /\ pattern[i] = "**"
      <4>1. AtCell(pattern, event, f, i, j) = (f[<<i + 1, j>>] \/ (j <= n /\ f[<<i, j + 1>>]))
        BY <3>2 DEF AtCell
      <4> QED
        BY <2>2, <4>1
    <3>3. CASE ~(i > m) /\ pattern[i] # "**"
      <4>1. AtCell(pattern, event, f, i, j) = (j <= n /\ pattern[i] \in {"*", event[j]} /\ f[<<i + 1, j + 1>>])
        BY <3>3 DEF AtCell
      <4> QED
        BY <2>3, <4>1
    <3> QED
      BY <3>1, <3>2, <3>3
  <2> QED
    BY <2>1, <2>4
<1> HIDE DEF f
<1>6. \A cell \in Cells(pattern, event) : Shares(pattern, event, cell[1], cell[2]) = AtCell(pattern, event, f, cell[1], cell[2])
  BY <1>4, <1>5
<1>7. f = [cell \in Cells(pattern, event) |-> AtCell(pattern, event, f, cell[1], cell[2])]
  BY <1>6 DEF ShareTable, f
<1> QED
  BY <1>7, TableCells DEF f

\* There is one way to fill it.
LEMMA OneTable ==
    ASSUME NEW pattern, NEW event, Len(pattern) \in Nat, Len(event) \in Nat,
           NEW f, f = Table(pattern, event, f), NEW g, g = Table(pattern, event, g)
    PROVE  f[<<1, 1>>] <=> g[<<1, 1>>]
<1> DEFINE m == Len(pattern)
           n == Len(event)
           Row == {i \in 1..(m + 1) : \A j \in 1..(n + 1) : f[<<i, j>>] <=> g[<<i, j>>]}
<1>1. \A h : h = Table(pattern, event, h) =>
          \A i \in 1..(m + 1), j \in 1..(n + 1) : h[<<i, j>>] = AtCell(pattern, event, h, i, j)
  <2> TAKE h
  <2> HAVE h = Table(pattern, event, h)
  <2> TAKE i \in 1..(m + 1), j \in 1..(n + 1)
  <2>1. h = [cell \in Cells(pattern, event) |-> AtCell(pattern, event, h, cell[1], cell[2])]
    BY TableCells
  <2>2. <<i, j>> \in Cells(pattern, event)
    BY DEF Cells
  <2> QED
    BY <2>1, <2>2
<1>2. \A i \in 1..(m + 1), j \in 1..(n + 1) :
          f[<<i, j>>] = AtCell(pattern, event, f, i, j) /\ g[<<i, j>>] = AtCell(pattern, event, g, i, j)
  BY <1>1
<1>3. m + 1 \in Row
  <2>1. ASSUME NEW j \in 1..(n + 1)
        PROVE  f[<<m + 1, j>>] <=> g[<<m + 1, j>>]
    <3>1. \A h : AtCell(pattern, event, h, m + 1, j) = (j > n)
      BY DEF AtCell
    <3>2. f[<<m + 1, j>>] = (j > n) /\ g[<<m + 1, j>>] = (j > n)
      BY <1>2, <3>1
    <3> QED
      BY <3>2
  <2> QED
    BY <2>1
<1>4. ASSUME NEW i \in 1..m, \A k \in (i + 1)..(m + 1) : k \in Row
      PROVE  i \in Row
  <2> DEFINE Column == {j \in 1..(n + 1) : f[<<i, j>>] <=> g[<<i, j>>]}
  <2>1. i + 1 \in Row
    BY <1>4
  <2>2. \A j \in 1..(n + 1) : f[<<i + 1, j>>] <=> g[<<i + 1, j>>]
    BY <2>1
  <2>3. ASSUME NEW j \in 1..(n + 1), j <= n => (f[<<i, j + 1>>] <=> g[<<i, j + 1>>])
        PROVE  f[<<i, j>>] <=> g[<<i, j>>]
    <3>1. f[<<i, j>>] = AtCell(pattern, event, f, i, j) /\ g[<<i, j>>] = AtCell(pattern, event, g, i, j)
      BY <1>2
    <3>2. /\ f[<<i + 1, j>>] <=> g[<<i + 1, j>>]
          /\ j <= n => (f[<<i + 1, j + 1>>] <=> g[<<i + 1, j + 1>>])
      BY <2>2
    <3>3. AtCell(pattern, event, f, i, j) <=> AtCell(pattern, event, g, i, j)
      BY <2>3, <3>2 DEF AtCell
    <3> QED
      BY <3>1, <3>3
  <2>4. n + 1 \in Column
    <3>1. f[<<i, n + 1>>] <=> g[<<i, n + 1>>]
      <4>1. n + 1 \in 1..(n + 1) /\ ~(n + 1 <= n)
        OBVIOUS
      <4> HIDE DEF n
      <4> QED
        BY <2>3, <4>1
    <3> QED
      BY <3>1
  <2>5. ASSUME NEW j \in 1..n, \A k \in (j + 1)..(n + 1) : k \in Column
        PROVE  j \in Column
    <3>1. j + 1 \in Column
      BY <2>5
    <3> QED
      BY <2>3, <3>1
  <2> HIDE DEF Column
  <2>6. \A j \in 1..(n + 1) : j \in Column
    BY <2>4, <2>5, CountingDown
  <2> QED
    BY <2>6 DEF Column
<1> HIDE DEF Row
<1>5. \A i \in 1..(m + 1) : i \in Row
  BY <1>3, <1>4, CountingDown
<1>6. 1 \in Row
  BY <1>5
<1> QED
  BY <1>6 DEF Row

LEMMA SegmentsShare ==
    ASSUME NEW pattern, NEW event, Len(pattern) \in Nat, Len(event) \in Nat
    PROVE  SegmentsMatch(pattern, event) <=> Shares(pattern, event, 1, 1)
<1> DEFINE f == CHOOSE match : match = Table(pattern, event, match)
<1>1. f = Table(pattern, event, f)
  <2>1. \E match : match = Table(pattern, event, match)
    BY SharesFillTheTable
  <2> QED
    BY <2>1
<1>2. SegmentsMatch(pattern, event) = f[<<1, 1>>]
  BY DEF SegmentsMatch, Table, Cells
<1> HIDE DEF f
<1>3. f[<<1, 1>>] <=> ShareTable(pattern, event)[<<1, 1>>]
  BY <1>1, SharesFillTheTable, OneTable
<1>4. ShareTable(pattern, event)[<<1, 1>>] = Shares(pattern, event, 1, 1)
  BY DEF ShareTable, Cells
<1> QED
  BY <1>2, <1>3, <1>4

Starting(m, taken, f) == [i \in 1..(m + 1) |-> IF i = 1 THEN 1 ELSE f[i - 1] + taken[i - 1]]

LEMMA StartingExists ==
    ASSUME NEW m \in Nat, NEW taken \in [1..m -> Nat]
    PROVE  \E f : f = Starting(m, taken, f)
<1> DEFINE Upto(n, f) == f[1] = 1 /\ \A i \in 1..(m + 1) : i <= n /\ i # 1 => f[i] = f[i - 1] + taken[i - 1]
           T == {n \in 1..(m + 1) : \E f \in [1..(m + 1) -> Nat] : Upto(n, f)}
<1>1. 1 \in T
  <2> DEFINE f == [i \in 1..(m + 1) |-> 1]
  <2>1. f \in [1..(m + 1) -> Nat] /\ Upto(1, f)
    OBVIOUS
  <2> QED
    BY <2>1
<1>2. ASSUME NEW n \in 1..m, n \in T
      PROVE  n + 1 \in T
  <2>1. PICK f \in [1..(m + 1) -> Nat] : Upto(n, f)
    BY <1>2
  <2> DEFINE g == [f EXCEPT ![n + 1] = f[n] + taken[n]]
  <2>2. f[n] + taken[n] \in Nat
    OBVIOUS
  <2>3. g \in [1..(m + 1) -> Nat]
    BY <2>2
  <2>4. g[n + 1] = f[n] + taken[n] /\ \A i \in 1..(m + 1) : i # n + 1 => g[i] = f[i]
    OBVIOUS
  <2> HIDE DEF g
  <2>5. g[1] = 1
    BY <2>1, <2>4
  <2>6. ASSUME NEW i \in 1..(m + 1), i <= n + 1, i # 1
        PROVE  g[i] = g[i - 1] + taken[i - 1]
    <3>1. CASE i = n + 1
      <4>1. g[n] = f[n]
        BY <2>4
      <4> QED
        BY <2>4, <3>1, <4>1
    <3>2. CASE i # n + 1
      <4>1. i <= n /\ i - 1 \in 1..(m + 1) /\ i - 1 # n + 1
        BY <2>6, <3>2
      <4> QED
        BY <2>1, <2>4, <2>6, <3>2, <4>1
    <3> QED
      BY <3>1, <3>2
  <2>7. Upto(n + 1, g)
    BY <2>5, <2>6
  <2>8. n + 1 \in 1..(m + 1)
    OBVIOUS
  <2> HIDE DEF Upto
  <2> QED
    BY <2>3, <2>7, <2>8
<1> HIDE DEF T
<1>3. \A i \in 1..(m + 1) : i \in T
  BY <1>1, <1>2, CountingUp
<1>4. PICK f \in [1..(m + 1) -> Nat] : Upto(m + 1, f)
  <2>1. m + 1 \in T
    BY <1>3
  <2> HIDE DEF Upto
  <2> QED
    BY <2>1 DEF T
<1>5. \A i \in 1..(m + 1) : f[i] = IF i = 1 THEN 1 ELSE f[i - 1] + taken[i - 1]
  BY <1>4
<1>6. f = Starting(m, taken, f)
  BY <1>5 DEF Starting
<1> QED
  BY <1>6

SharedOut(pattern, event, taken, start) ==
    /\ start[Len(pattern) + 1] = Len(event) + 1
    /\ \A i \in DOMAIN pattern : pattern[i] # "**" =>
          /\ taken[i] = 1 /\ start[i] <= Len(event)
          /\ pattern[i] \in {"*", event[start[i]]}

LEMMA CoversMeans ==
    ASSUME NEW pattern, NEW event, Len(pattern) \in Nat, Len(event) \in Nat,
           DOMAIN pattern = 1..Len(pattern)
    PROVE  Covers(pattern, event) <=>
              \E taken \in [1..Len(pattern) -> 0..Len(event)] : \E start :
                 start = Starting(Len(pattern), taken, start) /\ SharedOut(pattern, event, taken, start)
<1> DEFINE m == Len(pattern)
           n == Len(event)
           Start(taken) == CHOOSE start : start = Starting(m, taken, start)
<1>1. Covers(pattern, event) <=> \E taken \in [1..m -> 0..n] : SharedOut(pattern, event, taken, Start(taken))
  BY DEF Covers, SharedOut, Starting
<1>2. \A taken \in [1..m -> 0..n] : Start(taken) = Starting(m, taken, Start(taken))
  <2> TAKE taken \in [1..m -> 0..n]
  <2>1. taken \in [1..m -> Nat]
    OBVIOUS
  <2>2. \E start : start = Starting(m, taken, start)
    BY <2>1, StartingExists
  <2> QED
    BY <2>2
<1>3. ASSUME NEW taken \in [1..m -> 0..n], NEW f, f = Starting(m, taken, f), NEW g, g = Starting(m, taken, g)
      PROVE  f = g
  <2> DEFINE T == {i \in 1..(m + 1) : f[i] = g[i]}
  <2>1. \A i \in 1..(m + 1) : /\ f[i] = IF i = 1 THEN 1 ELSE f[i - 1] + taken[i - 1]
                              /\ g[i] = IF i = 1 THEN 1 ELSE g[i - 1] + taken[i - 1]
    BY <1>3 DEF Starting
  <2>2. 1 \in T
    BY <2>1
  <2>3. ASSUME NEW i \in 1..m, i \in T PROVE i + 1 \in T
    <3>1. f[i + 1] = f[i] + taken[i] /\ g[i + 1] = g[i] + taken[i]
      BY <2>1
    <3> QED
      BY <2>3, <3>1
  <2> HIDE DEF T
  <2>4. \A i \in 1..(m + 1) : i \in T
    BY <2>2, <2>3, CountingUp
  <2>5. \A i \in 1..(m + 1) : f[i] = g[i]
    BY <2>4 DEF T
  <2>6. f = [i \in 1..(m + 1) |-> f[i]] /\ g = [i \in 1..(m + 1) |-> g[i]]
    BY <1>3 DEF Starting
  <2> QED
    BY <2>5, <2>6
<1> HIDE DEF Start
<1> QED
  BY <1>1, <1>2, <1>3

LEMMA CoversShares ==
    ASSUME NEW pattern, NEW event, Len(pattern) \in Nat, Len(event) \in Nat,
           DOMAIN pattern = 1..Len(pattern)
    PROVE  Covers(pattern, event) <=> Shares(pattern, event, 1, 1)
<1> DEFINE m == Len(pattern)
           n == Len(event)
<1>1. ASSUME NEW taken \in [1..m -> 0..n], NEW start, start = Starting(m, taken, start),
             SharedOut(pattern, event, taken, start)
      PROVE  Shares(pattern, event, 1, 1)
  <2> DEFINE T == {i \in 1..(m + 1) : start[i] \in Nat /\ start[i] >= 1}
             U == {i \in 1..(m + 1) : start[i] <= n + 1}
  <2>1. start[1] = 1 /\ \A i \in 1..m : start[i + 1] = start[i] + taken[i]
    BY <1>1 DEF Starting
  <2>2. 1 \in T /\ \A i \in 1..m : i \in T => i + 1 \in T
    <3>1. 1 \in T
      BY <2>1
    <3>2. ASSUME NEW i \in 1..m, i \in T PROVE i + 1 \in T
      <4>1. start[i + 1] = start[i] + taken[i] /\ taken[i] \in Nat /\ start[i] \in Nat /\ start[i] >= 1
        BY <2>1, <3>2
      <4>2. i + 1 \in 1..(m + 1)
        OBVIOUS
      <4> QED
        BY <4>1, <4>2
    <3> QED
      BY <3>1, <3>2
  <2>3. \A i \in 1..(m + 1) : i \in T
    <3> HIDE DEF T
    <3> QED
      BY <2>2, CountingUp
  <2>4. m + 1 \in U
    BY <1>1 DEF SharedOut
  <2>5. ASSUME NEW i \in 1..m, i + 1 \in U PROVE i \in U
    <3>1. start[i] \in Nat /\ start[i + 1] = start[i] + taken[i] /\ start[i + 1] <= n + 1
      BY <2>1, <2>3, <2>5
    <3> QED
      BY <3>1
  <2>6. \A i \in 1..(m + 1) : i \in U
    <3>1. \A i \in 1..m : (\A j \in (i + 1)..(m + 1) : j \in U) => i \in U
      BY <2>5
    <3> HIDE DEF U
    <3> QED
      BY <2>4, <3>1, CountingDown
  <2>7. start = [i \in 1..(m + 1) |-> start[i]]
    BY <1>1 DEF Starting
  <2>8. start \in Places(pattern, event)
    BY <2>3, <2>6, <2>7 DEF Places
  <2>9. \A i \in 1..m : start[i] <= start[i + 1]
    BY <2>1, <2>3
  <2>10. StartsAt(pattern, event, 1, 1, start)
    BY <1>1, <2>1, <2>9 DEF StartsAt, SharedOut
  <2> QED
    BY <2>8, <2>10 DEF Shares
<1>2. ASSUME NEW starts \in Places(pattern, event), StartsAt(pattern, event, 1, 1, starts)
      PROVE  \E taken \in [1..m -> 0..n] : \E start :
                start = Starting(m, taken, start) /\ SharedOut(pattern, event, taken, start)
  <2> DEFINE taken == [i \in 1..m |-> starts[i + 1] - starts[i]]
  <2>1. starts[1] = 1 /\ starts[m + 1] = n + 1 /\ \A i \in 1..m : starts[i] <= starts[i + 1]
    BY <1>2 DEF StartsAt
  <2>2. \A i \in 1..m : starts[i] \in 1..(n + 1) /\ starts[i + 1] \in 1..(n + 1)
    BY DEF Places
  <2>3. taken \in [1..m -> 0..n] /\ \A i \in 1..m : starts[i + 1] = starts[i] + taken[i]
    <3>1. \A i \in 1..m : starts[i + 1] - starts[i] \in 0..n /\ starts[i + 1] = starts[i] + (starts[i + 1] - starts[i])
      <4> TAKE i \in 1..m
      <4>1. starts[i] \in 1..(n + 1) /\ starts[i + 1] \in 1..(n + 1) /\ starts[i] <= starts[i + 1]
        BY <2>1, <2>2
      <4> QED
        BY <4>1
    <3> QED
      BY <3>1
  <2>4. \A i \in 1..(m + 1) : starts[i] = IF i = 1 THEN 1 ELSE starts[i - 1] + taken[i - 1]
    <3> HIDE DEF taken
    <3> TAKE i \in 1..(m + 1)
    <3>1. CASE i = 1
      BY <2>1, <3>1
    <3>2. CASE i # 1
      <4>1. i - 1 \in 1..m /\ (i - 1) + 1 = i
        BY <3>2
      <4> QED
        BY <2>3, <3>2, <4>1
    <3> QED
      BY <3>1, <3>2
  <2>5. starts = Starting(m, taken, starts)
    <3> HIDE DEF taken
    <3> QED
      BY <2>4 DEF Starting, Places
  <2>6. \A i \in 1..m : pattern[i] # "**" => taken[i] = 1
    BY <1>2, <2>2 DEF StartsAt
  <2> HIDE DEF taken
  <2>7. SharedOut(pattern, event, taken, starts)
    BY <1>2, <2>1, <2>6 DEF SharedOut, StartsAt
  <2> QED
    BY <2>3, <2>5, <2>7
<1> QED
  BY <1>1, <1>2, CoversMeans DEF Shares

\* What names match, whether the stars mean anything or only themselves.
LEMMA NamesCovered ==
    ASSUME NEW S, NEW pattern \in Seq(S), NEW T, NEW event \in Seq(T)
    PROVE  /\ SegmentsMatch(pattern, event) <=> Covers(pattern, event)
           /\ Covers(pattern, event) /\ ~WildcardShaped(pattern) => pattern = event
           /\ Covers(event, event)
<1> DEFINE m == Len(pattern)
           n == Len(event)
<1>1. m \in Nat /\ n \in Nat /\ DOMAIN pattern = 1..m /\ DOMAIN event = 1..n
  BY LenProperties
<1>2. SegmentsMatch(pattern, event) <=> Covers(pattern, event)
  BY <1>1, SegmentsShare, CoversShares
<1>3. ASSUME Covers(pattern, event), ~WildcardShaped(pattern)
      PROVE  pattern = event
  <2>1. PICK starts \in Places(pattern, event) : StartsAt(pattern, event, 1, 1, starts)
    BY <1>1, <1>3, CoversShares DEF Shares
  <2>2. \A i \in 1..m : pattern[i] \notin {"*", "**", "a*"}
    BY <1>1, <1>3 DEF WildcardShaped
  <2> DEFINE U == {i \in 1..(m + 1) : starts[i] = i}
  <2>3. 1 \in U /\ \A i \in 1..m : i \in U => i + 1 \in U
    BY <1>1, <2>1, <2>2 DEF StartsAt
  <2>4. \A i \in 1..(m + 1) : i \in U
    <3> HIDE DEF U
    <3> QED
      BY <1>1, <2>3, CountingUp
  <2>5. m + 1 = n + 1 /\ \A i \in 1..m : pattern[i] = event[i]
    BY <1>1, <2>1, <2>2, <2>4 DEF StartsAt
  <2>6. m = n
    <3>1. m + 1 = n + 1
      BY <2>5
    <3> HIDE DEF m, n
    <3> QED
      BY <1>1, <3>1
  <2> QED
    BY <1>1, <2>5, <2>6
<1>4. Covers(event, event)
  <2> DEFINE starts == [i \in 1..(n + 1) |-> i]
  <2>1. starts \in Places(event, event)
    BY <1>1 DEF Places
  <2>2. StartsAt(event, event, 1, 1, starts)
    BY <1>1 DEF StartsAt
  <2>3. Shares(event, event, 1, 1)
    BY <2>1, <2>2 DEF Shares
  <2> QED
    BY <1>1, <2>3, CoversShares
<1> QED
  BY <1>2, <1>3, <1>4

-----------------------------------------------------------------------------
(***************************************************************************)
(* What the three extractors return depends on the wiring alone.           *)
(***************************************************************************)
EventHandlers == {EventHandler(l) : l \in Of("event", wiring.listeners)}
EventCalls == {EventInteraction(s) : s \in Resolved("event")}

EventCandidates(i) ==
    {h \in EventHandlers :
        /\ EventTargetsMatch(i.target, h.target)
        /\ i.application = 0 \/ h.application = 0 \/ i.application = h.application}

EventTiming(i) ==
    IF i.site.method = "emitAsync" THEN "asynchronous"
    ELSE IF \E h \in Retained(EventCandidates(i)) : h.listener.timing # "synchronous" THEN "unknown"
    ELSE "synchronous"

EventMatches(i) == {<<i.site, h.listener, "resolved">> : h \in Retained(EventCandidates(i))}

EventDiagnostics ==
    {<<"EVENT_EMITTER_CONFIGURATION_UNKNOWN", e>> :
        e \in {e \in wiring.emitters : e.configuration = "dynamic"}}
    \cup {<<"EVENT_EMITTER_CONFIGURATION_UNKNOWN", l>> :
        l \in {l \in Of("event", wiring.listeners) : l.timing = "unknown"}}
    \cup {<<"INTERACTION_TARGET_DYNAMIC", x>> :
        x \in {h \in EventHandlers : h.target.name = Dynamic} \cup {i \in EventCalls : i.target = Dynamic}}
    \cup {<<"EVENT_HANDLER_REGISTRATION_UNKNOWN", h>> :
        h \in {h \in EventHandlers : h.registrationState = "registration_unknown"}}
    \cup ReceiverDiagnostics("event")
    \cup UNION {FanOutDiagnostics(i.site, EventCandidates(i)) : i \in EventCalls}

LEMMA EventFactsAre ==
    /\ EventFacts.interactions = {[site |-> i.site, timing |-> EventTiming(i)] : i \in EventCalls}
    /\ EventFacts.matches = UNION {EventMatches(i) : i \in EventCalls}
    /\ EventFacts.diagnostics = EventDiagnostics
  BY DEF EventFacts, EventHandlers, EventCalls, EventCandidates, EventTiming, EventMatches, EventDiagnostics

JobCandidates(s) == {l \in Of("job", wiring.listeners) : s.queue # Dynamic /\ l.queue = s.queue}

JobDiagnostics ==
    {<<"INTERACTION_TARGET_DYNAMIC", x>> :
        x \in {l \in Of("job", wiring.listeners) : l.queue = Dynamic}
            \cup {s \in Resolved("job") : Dynamic \in {s.queue, s.job}}}
    \cup {<<"JOB_QUEUE_HANDLER_REGISTRATION_UNKNOWN", l>> :
        l \in {l \in Of("job", wiring.listeners) : ModulesOf(l.class) = {}}}
    \cup {<<"JOB_QUEUE_FILTER", l>> : l \in {l \in Of("job", wiring.listeners) :
        l.body.form # "none" /\ DispatchState(l.body) # "complete"}}
    \cup ReceiverDiagnostics("job")
    \cup UNION {FanOutDiagnostics(s, JobCandidates(s)) : s \in Resolved("job")}

JobBoundary(s) ==
    IF JobCandidates(s) # {} THEN "broker_or_worker_boundary"
    ELSE IF s.queue = Dynamic THEN "unknown"
    ELSE "external_or_unobserved"

LEMMA JobFactsAre ==
    /\ JobFacts.interactions = {[site |-> s, boundary |-> JobBoundary(s)] : s \in Resolved("job")}
    /\ JobFacts.matches = UNION {{<<s, l, "resolved">> : l \in Retained(JobCandidates(s))} : s \in Resolved("job")}
    /\ JobFacts.diagnostics = JobDiagnostics
  BY DEF JobFacts, JobCandidates, JobDiagnostics, JobBoundary

MessageHandlers == {MessageHandler(l) : l \in Of("message", wiring.listeners)}

MatchedSites == {s \in Resolved("message") : s.name # Dynamic /\ s.token # Dynamic /\ MessageApplication(s.class) # 0}

CompatibleHandlers(s) == {h \in MessageHandlers : PatternCompatible(s, h)}

MessageCandidates(s) == {h \in CompatibleHandlers(s) : TransportsMatch(s, h)}

MessageStatus(s) == IF RequestAmbiguous(s, Retained(MessageCandidates(s))) THEN "ambiguous" ELSE "resolved"

MessageBoundary(s) ==
    IF s \in MatchedSites /\ MessageCandidates(s) # {} THEN "broker_or_worker_boundary"
    ELSE IF Dynamic \in {s.name, s.token} \/ ClientTransport(s) = "none" THEN "unknown"
    ELSE "external_or_unobserved"

MessageDiagnostics ==
    {<<"MICROSERVICE_TRANSPORT_UNKNOWN", x>> :
        x \in {a \in MessageApplications : a.transport = "none"}
            \cup {h \in MessageHandlers : h.transport = "none"}
            \cup {s \in Resolved("message") : Cardinality(ClientsFor(s)) # 1 \/ ClientTransport(s) = "none"}}
    \cup {<<"INTERACTION_TARGET_DYNAMIC", x>> :
        x \in {h \in MessageHandlers : h.listener.name = Dynamic}
            \cup {s \in Resolved("message") : Dynamic \in {s.name, s.token}}}
    \cup {<<"MICROSERVICE_HANDLER_REGISTRATION_UNKNOWN", h>> :
        h \in {h \in MessageHandlers : h.registrationState = "registration_unknown"}}
    \cup {<<"MICROSERVICE_ACTIVATION_UNKNOWN", s>> :
        s \in {s \in Resolved("message") : s.mode = "request_response" /\ s.activation = "unknown"}}
    \cup {<<"MICROSERVICE_TRANSPORT_MISMATCH", s>> : s \in {s \in MatchedSites :
        /\ MessageCandidates(s) = {}
        /\ \E h \in CompatibleHandlers(s) :
              /\ "none" \notin {ClientTransport(s), h.transport}
              /\ h.transport # ClientTransport(s)}}
    \cup {<<"MICROSERVICE_REQUEST_HANDLER_AMBIGUOUS", s>> :
        s \in {s \in MatchedSites : RequestAmbiguous(s, Retained(MessageCandidates(s)))}}
    \cup ReceiverDiagnostics("message")
    \cup UNION {FanOutDiagnostics(s, MessageCandidates(s)) : s \in MatchedSites}

LEMMA MessageFactsAre ==
    /\ MessageFacts.interactions = {[site |-> s, boundary |-> MessageBoundary(s)] : s \in Resolved("message")}
    /\ MessageFacts.matches =
          UNION {{<<s, h.listener, MessageStatus(s)>> : h \in Retained(MessageCandidates(s))} : s \in MatchedSites}
    /\ MessageFacts.diagnostics = MessageDiagnostics
  BY DEF MessageFacts, MessageHandlers, MatchedSites, CompatibleHandlers, MessageCandidates, MessageStatus,
         MessageBoundary, MessageDiagnostics

EventsKnown ==
    /\ eventFacts.interactions = {[site |-> i.site, timing |-> EventTiming(i)] : i \in EventCalls}
    /\ eventFacts.matches = UNION {EventMatches(i) : i \in EventCalls}
    /\ eventFacts.diagnostics = EventDiagnostics

JobMatches(s) == {<<s, l, "resolved">> : l \in Retained(JobCandidates(s))}

JobsKnown ==
    /\ jobFacts.interactions = {[site |-> s, boundary |-> JobBoundary(s)] : s \in Resolved("job")}
    /\ jobFacts.matches = UNION {JobMatches(s) : s \in Resolved("job")}
    /\ jobFacts.diagnostics = JobDiagnostics

MessageMatches(s) == {<<s, h.listener, MessageStatus(s)>> : h \in Retained(MessageCandidates(s))}

MessagesKnown ==
    /\ messageFacts.interactions = {[site |-> s, boundary |-> MessageBoundary(s)] : s \in Resolved("message")}
    /\ messageFacts.matches = UNION {MessageMatches(s) : s \in MatchedSites}
    /\ messageFacts.diagnostics = MessageDiagnostics

TheOneOf(T) == IF Cardinality(T) = 1 THEN CHOOSE t \in T : TRUE ELSE "none"

LEMMA SameWiring ==
    ASSUME wiring' = wiring
    PROVE  /\ (\A k : Resolved(k)' = Resolved(k)) /\ EventCalls' = EventCalls /\ MatchedSites' = MatchedSites
           /\ \A i : EventTiming(i)' = EventTiming(i) /\ EventMatches(i)' = EventMatches(i)
           /\ \A s : JobMatches(s)' = JobMatches(s) /\ JobBoundary(s)' = JobBoundary(s)
           /\ \A s : MessageMatches(s)' = MessageMatches(s) /\ MessageBoundary(s)' = MessageBoundary(s)
           /\ EventDiagnostics' = EventDiagnostics /\ JobDiagnostics' = JobDiagnostics
           /\ MessageDiagnostics' = MessageDiagnostics
<1>1. \A a : ReachableModules(a)' = ReachableModules(a)
  BY DEF ReachableModules
<1>2. \A c : ModulesOf(c)' = ModulesOf(c)
  BY DEF ModulesOf
<1>3. EventApplications' = EventApplications /\ MessageApplications' = MessageApplications
  BY DEF EventApplications, MessageApplications
<1>4. \A c, S : ApplicationsForClass(c, S)' = ApplicationsForClass(c, S)
  BY <1>1, <1>2 DEF ApplicationsForClass
<1>5. \A c, S : ContextForClass(c, S)' = ContextForClass(c, S)
  BY <1>4 DEF ContextForClass
<1>6. \A S : Retained(S)' = Retained(S)
  BY DEF Retained
<1>7. \A i, S : FanOutDiagnostics(i, S)' = FanOutDiagnostics(i, S)
  BY DEF FanOutDiagnostics
<1>8. \A k : ReceiverDiagnostics(k)' = ReceiverDiagnostics(k) /\ Resolved(k)' = Resolved(k)
  BY DEF ReceiverDiagnostics, Resolved
<1>9. \A a : ConfigurationOf(a)' = ConfigurationOf(a) /\ ConfigurationKnown(a)' = ConfigurationKnown(a)
  <2>1. \A a : Registrations(a)' = Registrations(a)
    BY <1>1 DEF Registrations
  <2>2. \A a : ConfigurationOf(a)' = ConfigurationOf(a)
    BY <2>1 DEF ConfigurationOf
  <2> QED
    BY <2>2 DEF ConfigurationKnown
<1>10. \A S : RegistrationState(S)' = RegistrationState(S)
  BY <1>3, <1>9 DEF RegistrationState
<1>11. \A l, S : EventTarget(l, S)' = EventTarget(l, S)
  BY <1>9 DEF EventTarget
<1>12. \A l : EventHandler(l)' = EventHandler(l)
  BY <1>3, <1>4, <1>5, <1>9, <1>10, <1>11 DEF EventHandler
<1>13. \A s : EventInteraction(s)' = EventInteraction(s)
  BY <1>3, <1>5 DEF EventInteraction
<1>14. EventHandlers' = EventHandlers /\ EventCalls' = EventCalls
  BY <1>8, <1>12, <1>13 DEF EventHandlers, EventCalls
<1>15. \A i : EventCandidates(i)' = EventCandidates(i)
  BY <1>14 DEF EventCandidates
<1>16. \A i : Retained(EventCandidates(i))' = Retained(EventCandidates(i))
  BY <1>6, <1>15
<1>17. \A i : EventTiming(i)' = EventTiming(i) /\ EventMatches(i)' = EventMatches(i)
  BY <1>16 DEF EventTiming, EventMatches
<1>18. EventDiagnostics' = EventDiagnostics
  <2>1. \A i : FanOutDiagnostics(i.site, EventCandidates(i))' = FanOutDiagnostics(i.site, EventCandidates(i))
    BY <1>15 DEF FanOutDiagnostics
  <2> QED
    BY <1>8, <1>14, <2>1 DEF EventDiagnostics
<1>19. \A s : JobCandidates(s)' = JobCandidates(s)
  BY DEF JobCandidates
<1>20. \A s : JobMatches(s)' = JobMatches(s) /\ JobBoundary(s)' = JobBoundary(s)
  <2>1. \A s : Retained(JobCandidates(s))' = Retained(JobCandidates(s))
    BY <1>6, <1>19
  <2> QED
    BY <1>19, <2>1 DEF JobMatches, JobBoundary
<1>21. JobDiagnostics' = JobDiagnostics
  <2>1. \A s : FanOutDiagnostics(s, JobCandidates(s))' = FanOutDiagnostics(s, JobCandidates(s))
    BY <1>19 DEF FanOutDiagnostics
  <2> QED
    BY <1>2, <1>8, <2>1 DEF JobDiagnostics
<1>22. \A id : TransportOf(id)' = TransportOf(id)
  BY <1>3 DEF TransportOf
<1>23. \A c : MessageApplication(c)' = MessageApplication(c)
  BY <1>3, <1>5 DEF MessageApplication
<1>24. \A l : MessageHandler(l)' = MessageHandler(l)
  BY <1>3, <1>22, <1>23 DEF MessageHandler
<1>25. \A s : ClientsFor(s)' = ClientsFor(s) /\ ClientTransport(s)' = ClientTransport(s)
  <2>1. \A s : ClientsFor(s)' = ClientsFor(s)
    BY <1>2 DEF ClientsFor
  <2>2. \A s : ClientTransports(s)' = ClientTransports(s)
    BY <2>1 DEF ClientTransports
  <2> QED
    <3>1. \A s : ClientTransport(s) = TheOneOf(ClientTransports(s))
      BY DEF ClientTransport, TheOneOf
    <3>2. \A s : ClientTransport(s)' = TheOneOf(ClientTransports(s)')
      BY DEF ClientTransport, TheOneOf
    <3> QED
      BY <2>1, <2>2, <3>1, <3>2
<1>26. MessageHandlers' = MessageHandlers /\ MatchedSites' = MatchedSites
  BY <1>8, <1>23, <1>24 DEF MessageHandlers, MatchedSites
<1>27. \A s : CompatibleHandlers(s)' = CompatibleHandlers(s) /\ MessageCandidates(s)' = MessageCandidates(s)
  <2>1. \A s, h : PatternCompatible(s, h)' = PatternCompatible(s, h) /\ TransportsMatch(s, h)' = TransportsMatch(s, h)
    BY <1>23, <1>25 DEF PatternCompatible, TransportsMatch
  <2>2. \A s : CompatibleHandlers(s)' = CompatibleHandlers(s)
    BY <1>26, <2>1 DEF CompatibleHandlers
  <2> QED
    BY <2>1, <2>2 DEF MessageCandidates
<1>28. \A s : Retained(MessageCandidates(s))' = Retained(MessageCandidates(s))
  BY <1>6, <1>27
<1>29. \A s : MessageMatches(s)' = MessageMatches(s) /\ MessageBoundary(s)' = MessageBoundary(s)
  <2>1. \A s : MessageStatus(s)' = MessageStatus(s)
    BY <1>28 DEF MessageStatus
  <2> QED
    BY <1>25, <1>26, <1>27, <1>28, <2>1 DEF MessageMatches, MessageBoundary
<1>30. MessageDiagnostics' = MessageDiagnostics
  <2>1. \A s : FanOutDiagnostics(s, MessageCandidates(s))' = FanOutDiagnostics(s, MessageCandidates(s))
    BY <1>27 DEF FanOutDiagnostics
  <2> QED
    BY <1>3, <1>8, <1>25, <1>26, <1>27, <1>28, <2>1 DEF MessageDiagnostics
<1> QED
  BY <1>8, <1>14, <1>17, <1>18, <1>20, <1>21, <1>26, <1>29, <1>30

MatchesInv ==
    /\ WiringIsTyped(wiring)
    /\ eventFacts = NoFacts \/ EventsKnown
    /\ jobFacts = NoFacts \/ JobsKnown
    /\ messageFacts = NoFacts \/ MessagesKnown

LEMMA MatchesInvHolds == Spec => []MatchesInv
<1>1. ASSUME ScanInit PROVE MatchesInv
  <2>1. PICK family \in Repositories : \E r \in family : wiring = r.wiring
    BY <1>1 DEF ScanInit
  <2>2. WiringIsTyped(wiring)
    BY <2>1, RepositoriesAssumption
  <2> QED
    BY <1>1, <2>2 DEF ScanInit, MatchesInv
<1>2. ASSUME MatchesInv, [Next]_scanVars PROVE MatchesInv'
  <2>1. wiring' = wiring => /\ EventsKnown /\ UNCHANGED eventFacts => EventsKnown'
                            /\ JobsKnown /\ UNCHANGED jobFacts => JobsKnown'
                            /\ MessagesKnown /\ UNCHANGED messageFacts => MessagesKnown'
    BY SameWiring DEF EventsKnown, JobsKnown, MessagesKnown
  <2>2. UNCHANGED interactionVars => MatchesInv'
    BY <1>2, <2>1 DEF MatchesInv, interactionVars
  <2>3. ExtractEvents => MatchesInv'
    <3>1. ASSUME ExtractEvents PROVE EventsKnown'
      <4>1. wiring' = wiring /\ eventFacts' = EventFacts
        BY <3>1 DEF ExtractEvents
      <4> QED
        BY <4>1, SameWiring, EventFactsAre DEF EventsKnown
    <3> QED
      BY <1>2, <2>1, <3>1 DEF MatchesInv, ExtractEvents
  <2>4. ExtractJobs => MatchesInv'
    <3>1. ASSUME ExtractJobs PROVE JobsKnown'
      <4>1. wiring' = wiring /\ jobFacts' = JobFacts
        BY <3>1 DEF ExtractJobs
      <4>2. JobFacts.matches = UNION {JobMatches(s) : s \in Resolved("job")}
        BY JobFactsAre DEF JobMatches
      <4> QED
        BY <4>1, <4>2, SameWiring, JobFactsAre DEF JobsKnown
    <3> QED
      BY <1>2, <2>1, <3>1 DEF MatchesInv, ExtractJobs
  <2>5. ExtractMessages => MatchesInv'
    <3>1. ASSUME ExtractMessages PROVE MessagesKnown'
      <4>1. wiring' = wiring /\ messageFacts' = MessageFacts
        BY <3>1 DEF ExtractMessages
      <4>2. MessageFacts.matches = UNION {MessageMatches(s) : s \in MatchedSites}
        BY MessageFactsAre DEF MessageMatches
      <4> QED
        BY <4>1, <4>2, SameWiring, MessageFactsAre DEF MessagesKnown
    <3> QED
      BY <1>2, <2>1, <3>1 DEF MatchesInv, ExtractMessages
  <2>6. UNCHANGED interactionVars \/ ExtractEvents \/ ExtractJobs \/ ExtractMessages
    BY <1>2
       DEF scanVars, Next, Signal, Load, Cancel, ModulesThrow, ModuleMetadata, Guards, AuthorizationMetadata, Controls,
           Locks, Relationships, HttpRequests, EagerRequests, ServiceRequests, Interaction, Events, JobQueues,
           Messages, Persistence, Flow, SameMethod, InterMethod, StartRawSql, RawSqlStep, RawSqlThrew, Assemble,
           Ended, Extract
  <2> QED
    BY <2>2, <2>3, <2>4, <2>5, <2>6
<1> QED
  BY <1>1, <1>2, PTL DEF Spec

-----------------------------------------------------------------------------
(***************************************************************************)
(* The matching of a scan is honest, for every wiring.                     *)
(***************************************************************************)
LEMMA FiniteImage ==
    ASSUME NEW S, IsFiniteSet(S), NEW f
    PROVE  IsFiniteSet({f[x] : x \in S})
<1> DEFINE T == {f[x] : x \in S}
           g == [x \in S |-> f[x]]
<1>1. g \in Surjection(S, T)
  BY DEF Surjection
<1> HIDE DEF g, T
<1> QED
  BY <1>1, FS_Surjection DEF T

\* A finite set has subsets of every size.
LEMMA SubsetOfSize ==
    ASSUME NEW S, IsFiniteSet(S), NEW k \in Nat, k <= Cardinality(S)
    PROVE  \E T \in SUBSET S : Cardinality(T) = k
<1> DEFINE Sizes == {n \in Nat : n >= k /\ \E T \in SUBSET S : Cardinality(T) = n}
<1>1. Cardinality(S) \in Sizes
  BY FS_CardinalityType
<1>2. Sizes \in SUBSET Nat /\ Sizes # {}
  BY <1>1
<1> HIDE DEF Sizes
<1>3. PICK n \in Sizes : \A m \in Sizes : n <= m
  BY <1>2, LeastNumber
<1>4. n \in Nat /\ n >= k
  BY <1>3 DEF Sizes
<1>5. PICK T \in SUBSET S : Cardinality(T) = n
  BY <1>3 DEF Sizes
<1>6. CASE n # k
  <2>1. IsFiniteSet(T) /\ n > 0
    BY <1>4, <1>6, FS_Subset
  <2>2. PICK x : x \in T
    BY <1>5, <2>1, FS_EmptySet
  <2>3. Cardinality(T \ {x}) = n - 1
    BY <1>5, <2>1, <2>2, FS_RemoveElement
  <2>4. n - 1 \in Sizes
    BY <1>4, <1>5, <1>6, <2>1, <2>3 DEF Sizes
  <2> QED
    BY <1>3, <1>4, <2>4
<1> QED
  BY <1>5, <1>6

LEMMA RetainedIs ==
    ASSUME WiringIsTyped(wiring), NEW C, IsFiniteSet(C)
    PROVE  /\ Retained(C) \subseteq C
           /\ \A x : FanOutDiagnostics(x, C) = {} => Retained(C) = C
<1>1. Cardinality(C) \in Nat /\ wiring.fanOut \in Nat
  BY FS_CardinalityType DEF WiringIsTyped
<1>2. CASE Cardinality(C) <= wiring.fanOut
  BY <1>2 DEF Retained
<1>3. CASE Cardinality(C) > wiring.fanOut
  <2>1. \E kept \in SUBSET C : Cardinality(kept) = wiring.fanOut
    BY <1>1, <1>3, SubsetOfSize
  <2>2. Retained(C) \in SUBSET C
    BY <1>1, <1>3, <2>1 DEF Retained
  <2>3. \A x : FanOutDiagnostics(x, C) # {}
    BY <1>3 DEF FanOutDiagnostics
  <2> QED
    BY <2>2, <2>3
<1> QED
  BY <1>1, <1>2, <1>3

LEMMA TheOnlyIs ==
    ASSUME NEW A, IsFiniteSet(A)
    PROVE  \/ \E a : A = {a} /\ TheOnly(A) = a.id
           \/ Cardinality(A) # 1 /\ TheOnly(A) = 0
<1>1. CASE Cardinality(A) = 1
  <2>1. PICK a : A = {a}
    BY <1>1, FS_Singleton
  <2>2. (CHOOSE b \in A : TRUE) = a
    BY <2>1
  <2> QED
    BY <1>1, <2>1, <2>2 DEF TheOnly
<1>2. CASE Cardinality(A) # 1
  BY <1>2 DEF TheOnly
<1> QED
  BY <1>1, <1>2

LEMMA FiniteApplications ==
    ASSUME WiringIsTyped(wiring), NEW S, S \subseteq wiring.applications
    PROVE  /\ IsFiniteSet(S)
           /\ \A c : IsFiniteSet(ApplicationsForClass(c, S)) /\ ApplicationsForClass(c, S) \subseteq wiring.applications
<1>1. IsFiniteSet(S)
  BY FS_Subset DEF WiringIsTyped
<1>2. \A c : ApplicationsForClass(c, S) \in SUBSET S
  BY DEF ApplicationsForClass
<1> QED
  BY <1>1, <1>2, FS_Subset

\* The context of a class is the one of its applications, if there is one.
LEMMA ContextIs ==
    ASSUME WiringIsTyped(wiring), NEW S, S \subseteq wiring.applications, NEW c
    PROVE  /\ ContextForClass(c, S) # 0 =>
                 \E a \in wiring.applications : ApplicationsForClass(c, S) = {a} /\ ContextForClass(c, S) = a.id
           /\ \A a \in ApplicationsForClass(c, S) : ContextForClass(c, S) \in {0, a.id}
           /\ Cardinality(ApplicationsForClass(c, S)) = 1 => ContextForClass(c, S) # 0
<1> DEFINE A == ApplicationsForClass(c, S)
<1>1. IsFiniteSet(A) /\ A \subseteq wiring.applications
  BY FiniteApplications
<1>2. ContextForClass(c, S) = TheOnly(A)
  BY DEF ContextForClass
<1> HIDE DEF A
<1>3. CASE \E a : A = {a} /\ TheOnly(A) = a.id
  <2>1. PICK a : A = {a} /\ TheOnly(A) = a.id
    BY <1>3
  <2>2. a \in wiring.applications /\ a.id # 0
    BY <1>1, <2>1 DEF WiringIsTyped
  <2> QED
    BY <1>2, <2>1, <2>2 DEF A
<1>4. CASE Cardinality(A) # 1 /\ TheOnly(A) = 0
  BY <1>2, <1>4 DEF A
<1> QED
  BY <1>1, <1>3, <1>4, TheOnlyIs

ProvenFor(l) == {a \in ApplicationsForClass(l.class, EventApplications) : ConfigurationKnown(a)}

LEMMA EventRecords ==
    /\ \A s : /\ EventInteraction(s).site = s
              /\ EventInteraction(s).application = ContextForClass(s.class, EventApplications)
              /\ EventInteraction(s).target = IF WildcardShaped(s.name) THEN Dynamic ELSE s.name
    /\ \A l : /\ EventHandler(l).listener = l
              /\ EventHandler(l).target = EventTarget(l, ApplicationsForClass(l.class, EventApplications))
              /\ EventHandler(l).application =
                    IF Cardinality(ProvenFor(l)) = 1 THEN TheOnly(ProvenFor(l))
                    ELSE ContextForClass(l.class, EventApplications)
<1>1. \A s : /\ EventInteraction(s).site = s
             /\ EventInteraction(s).application = ContextForClass(s.class, EventApplications)
             /\ EventInteraction(s).target = IF WildcardShaped(s.name) THEN Dynamic ELSE s.name
  BY DEF EventInteraction
<1>2. \A l : /\ EventHandler(l).listener = l
             /\ EventHandler(l).target = EventTarget(l, ApplicationsForClass(l.class, EventApplications))
             /\ EventHandler(l).application =
                   IF Cardinality(ProvenFor(l)) = 1 THEN TheOnly(ProvenFor(l))
                   ELSE ContextForClass(l.class, EventApplications)
  BY DEF EventHandler, ProvenFor
<1> QED
  BY <1>1, <1>2

LEMMA EventHandlersFinite ==
    ASSUME WiringIsTyped(wiring)
    PROVE  IsFiniteSet(EventHandlers) /\ \A i : IsFiniteSet(EventCandidates(i)) /\ EventCandidates(i) \subseteq EventHandlers
<1> DEFINE f == [l \in wiring.listeners |-> EventHandler(l)]
<1>1. IsFiniteSet({f[l] : l \in Of("event", wiring.listeners)})
  <2>1. IsFiniteSet(Of("event", wiring.listeners))
    BY FS_Subset DEF WiringIsTyped, Of
  <2> HIDE DEF f
  <2> QED
    BY <2>1, FiniteImage
<1>2. {f[l] : l \in Of("event", wiring.listeners)} = EventHandlers
  BY DEF EventHandlers, Of
<1>3. IsFiniteSet(EventHandlers)
  BY <1>1, <1>2
<1>4. \A i : EventCandidates(i) \in SUBSET EventHandlers
  BY DEF EventCandidates
<1> QED
  BY <1>3, <1>4, FS_Subset

\* A handler belongs to an application it shares with an emission, if to any.
LEMMA HandlerContext ==
    ASSUME WiringIsTyped(wiring), NEW l
    PROVE  /\ \A a \in ApplicationsForClass(l.class, EventApplications) :
                 ConfigurationKnown(a) => EventHandler(l).application \in {0, a.id}
           /\ \A a : ApplicationsForClass(l.class, EventApplications) = {a} => EventHandler(l).application = a.id
<1> DEFINE A == ApplicationsForClass(l.class, EventApplications)
           P == ProvenFor(l)
<1>1. EventApplications \subseteq wiring.applications
  BY DEF EventApplications
<1>2. IsFiniteSet(A) /\ P \in SUBSET A
  BY <1>1, FiniteApplications DEF ProvenFor
<1>3. IsFiniteSet(P)
  BY <1>2, FS_Subset
<1>4. EventHandler(l).application = IF Cardinality(P) = 1 THEN TheOnly(P) ELSE ContextForClass(l.class, EventApplications)
  BY EventRecords
<1>5. \A a \in A : ContextForClass(l.class, EventApplications) \in {0, a.id}
  BY <1>1, ContextIs
<1>6. \A a : A = {a} => ContextForClass(l.class, EventApplications) = a.id
  <2> TAKE a
  <2> HAVE A = {a}
  <2>1. Cardinality(A) = 1
    BY FS_Singleton
  <2>2. ContextForClass(l.class, EventApplications) # 0 /\ a \in A
    BY <1>1, <2>1, ContextIs
  <2> QED
    BY <1>5, <2>2
<1>7. \A a \in A : ConfigurationKnown(a) => a \in P
  BY DEF ProvenFor
<1>8. CASE Cardinality(P) # 1
  BY <1>4, <1>5, <1>6, <1>8
<1>9. CASE Cardinality(P) = 1
  <2>1. PICK b : P = {b} /\ TheOnly(P) = b.id
    BY <1>3, <1>9, TheOnlyIs
  <2>2. EventHandler(l).application = b.id
    BY <1>4, <1>9, <2>1
  <2> HIDE DEF A, P
  <2>3. \A a \in A : ConfigurationKnown(a) => a = b
    BY <1>7, <2>1
  <2>4. \A a : A = {a} => a = b
    BY <1>2, <2>1
  <2> QED
    BY <2>2, <2>3, <2>4 DEF A
<1> QED
  BY <1>8, <1>9

\* With known configurations, the target of a listener is what it listens to.
LEMMA TargetIs ==
    ASSUME WiringIsTyped(wiring), NEW l \in Of("event", wiring.listeners), NEW S,
           EventTarget(l, S).name # Dynamic
    PROVE  /\ EventTarget(l, S).name = l.name
           /\ ~EventTarget(l, S).pattern /\ WildcardShaped(l.name) => \A a \in S : ConfigurationOf(a) = "exact"
           /\ EventTarget(l, S).pattern => WildcardShaped(l.name) /\ \A a \in S : ConfigurationOf(a) = "wildcard"
<1> DEFINE C == {ConfigurationOf(a) : a \in S}
           literal == [name |-> l.name, pattern |-> FALSE]
           dynamic == [name |-> Dynamic, pattern |-> FALSE]
           starred == [name |-> l.name, pattern |-> TRUE]
<1>1. EventTarget(l, S) = IF ~WildcardShaped(l.name) THEN literal
                          ELSE IF C = {"wildcard"} /\ ValidPattern(l.name) THEN starred
                          ELSE IF C = {"exact"} THEN literal
                          ELSE dynamic
  BY DEF EventTarget
<1>2. EventTarget(l, S) # dynamic
  BY DEF Dynamic
<1>3. \A a \in S : ConfigurationOf(a) \in C
  OBVIOUS
<1> HIDE DEF C
<1>4. CASE ~WildcardShaped(l.name)
  BY <1>1, <1>4
<1>5. CASE WildcardShaped(l.name) /\ C = {"wildcard"} /\ ValidPattern(l.name)
  <2>1. EventTarget(l, S) = starred
    BY <1>1, <1>5
  <2> QED
    BY <1>3, <1>5, <2>1
<1>6. CASE WildcardShaped(l.name) /\ C = {"exact"}
  <2>1. EventTarget(l, S) = literal
    BY <1>1, <1>6
  <2> QED
    BY <1>3, <1>6, <2>1
<1> QED
  BY <1>1, <1>2, <1>4, <1>5, <1>6

NothingDynamic ==
    /\ \A h \in EventHandlers : h.target.name # Dynamic
    /\ \A i \in EventCalls : i.target # Dynamic /\ FanOutDiagnostics(i.site, EventCandidates(i)) = {}

LEMMA EventsDiagnosed ==
    ASSUME EventDiagnostics = {}
    PROVE  NothingDynamic
<1>1. ASSUME NEW x \in {h \in EventHandlers : h.target.name = Dynamic} \cup {i \in EventCalls : i.target = Dynamic}
      PROVE  FALSE
  <2>1. <<"INTERACTION_TARGET_DYNAMIC", x>> \in EventDiagnostics
    BY <1>1 DEF EventDiagnostics
  <2> QED
    BY <2>1
<1>2. ASSUME NEW i \in EventCalls PROVE FanOutDiagnostics(i.site, EventCandidates(i)) = {}
  BY DEF EventDiagnostics
<1> QED
  BY <1>1, <1>2 DEF NothingDynamic

LEMMA EventFound ==
    ASSUME WiringIsTyped(wiring), NothingDynamic, NEW s \in Resolved("event"),
           NEW l \in Of("event", wiring.listeners), RunsEvent(s, l)
    PROVE  EventHandler(l) \in EventCandidates(EventInteraction(s))
<1> DEFINE i == EventInteraction(s)
           h == EventHandler(l)
           A == ApplicationsForClass(l.class, EventApplications)
           t == EventTarget(l, A)
<1>1. i \in EventCalls /\ h \in EventHandlers
  BY DEF EventCalls, EventHandlers
<1>2. /\ i.application = ContextForClass(s.class, EventApplications)
      /\ i.target = s.name /\ s.name # Dynamic /\ ~WildcardShaped(s.name)
  <2>1. i.target # Dynamic
    BY <1>1 DEF NothingDynamic
  <2> QED
    BY <2>1, EventRecords
<1>3. h.target = t /\ t.name # Dynamic
  <2>1. h.target.name # Dynamic
    BY <1>1 DEF NothingDynamic
  <2> QED
    BY <2>1, EventRecords
<1>4. PICK a \in EventApplications :
         /\ a \in ApplicationsForClass(s.class, EventApplications)
         /\ a \in A
         /\ \/ ConfigurationOf(a) = "exact" /\ l.name = s.name
            \/ ConfigurationOf(a) = "wildcard" /\ Covers(l.name, s.name)
  BY DEF RunsEvent
<1>5. i.application \in {0, a.id} /\ h.application \in {0, a.id}
  <2>1. EventApplications \subseteq wiring.applications
    BY DEF EventApplications
  <2>2. ConfigurationKnown(a)
    BY <1>4 DEF ConfigurationKnown
  <2> QED
    BY <1>2, <1>4, <2>1, <2>2, ContextIs, HandlerContext
<1>6. /\ l.name \in Seq(ToSet(l.name)) /\ s.name \in Seq(ToSet(s.name))
  BY DEF WiringIsTyped, Of, Resolved
<1>7. /\ t.name = l.name
      /\ ~t.pattern /\ WildcardShaped(l.name) => ConfigurationOf(a) = "exact"
      /\ t.pattern => ConfigurationOf(a) = "wildcard"
  <2> HIDE DEF A
  <2>1. /\ t.name = l.name
        /\ ~t.pattern /\ WildcardShaped(l.name) => \A b \in A : ConfigurationOf(b) = "exact"
        /\ t.pattern => WildcardShaped(l.name) /\ \A b \in A : ConfigurationOf(b) = "wildcard"
    BY <1>3, TargetIs
  <2> QED
    BY <1>4, <2>1
<1> HIDE DEF i, h, A, t
<1>8. EventTargetsMatch(i.target, h.target)
  <2>1. CASE t.pattern
    <3>1. SegmentsMatch(l.name, s.name)
      BY <1>4, <1>6, <1>7, <2>1, NamesCovered
    <3> QED
      BY <1>2, <1>3, <1>7, <2>1, <3>1 DEF EventTargetsMatch
  <2>2. CASE ~t.pattern
    <3>1. l.name = s.name
      BY <1>4, <1>6, <1>7, <2>2, NamesCovered
    <3> QED
      BY <1>2, <1>3, <1>7, <2>2, <3>1 DEF EventTargetsMatch
  <2> QED
    BY <2>1, <2>2
<1> QED
  BY <1>1, <1>5, <1>8 DEF EventCandidates, i, h

LEMMA EventsMissNone ==
    ASSUME WiringIsTyped(wiring), EventsKnown, eventFacts.diagnostics = {},
           NEW i \in eventFacts.interactions, NEW l \in Of("event", wiring.listeners), RunsEvent(i.site, l)
    PROVE  /\ <<i.site, l, "resolved">> \in eventFacts.matches
           /\ i.timing = "synchronous" => l.timing = "synchronous"
<1>1. NothingDynamic
  BY EventsDiagnosed DEF EventsKnown
<1>2. PICK x \in EventCalls : i = [site |-> x.site, timing |-> EventTiming(x)]
  BY DEF EventsKnown
<1>3. PICK s \in Resolved("event") : x = EventInteraction(s)
  BY DEF EventCalls
<1>4. x.site = s /\ i.site = s /\ i.timing = EventTiming(x)
  BY <1>2, <1>3, EventRecords
<1>5. EventHandler(l) \in EventCandidates(x)
  BY <1>1, <1>3, <1>4, EventFound
<1>6. Retained(EventCandidates(x)) = EventCandidates(x)
  <2>1. FanOutDiagnostics(x.site, EventCandidates(x)) = {}
    BY <1>1 DEF NothingDynamic
  <2>2. IsFiniteSet(EventCandidates(x))
    BY EventHandlersFinite
  <2> QED
    BY <2>1, <2>2, RetainedIs
<1>7. EventHandler(l).listener = l
  BY EventRecords
<1>8. <<s, l, "resolved">> \in EventMatches(x)
  BY <1>4, <1>5, <1>6, <1>7 DEF EventMatches
<1>9. EventTiming(x) = "synchronous" => l.timing = "synchronous"
  BY <1>5, <1>6, <1>7 DEF EventTiming
<1> QED
  BY <1>4, <1>8, <1>9 DEF EventsKnown

LEMMA EventsAreReal ==
    ASSUME WiringIsTyped(wiring), EventsKnown, NEW match \in eventFacts.matches
    PROVE  Covers(match[2].name, match[1].name) /\ ~Apart(match[1], match[2], EventApplications)
<1>1. PICK i \in EventCalls : match \in EventMatches(i)
  BY DEF EventsKnown
<1>2. PICK s \in Resolved("event") : i = EventInteraction(s)
  BY DEF EventCalls
<1>3. Retained(EventCandidates(i)) \subseteq EventCandidates(i)
  BY EventHandlersFinite, RetainedIs
<1>4. PICK h \in EventCandidates(i) : match = <<i.site, h.listener, "resolved">>
  BY <1>1, <1>3 DEF EventMatches
<1>5. PICK l \in Of("event", wiring.listeners) : h = EventHandler(l)
  BY DEF EventCandidates, EventHandlers
<1>6. match[1] = s /\ match[2] = l
  BY <1>2, <1>4, <1>5, EventRecords
<1> DEFINE A == ApplicationsForClass(l.class, EventApplications)
           B == ApplicationsForClass(s.class, EventApplications)
           t == EventTarget(l, A)
<1>7. /\ EventTargetsMatch(i.target, h.target)
      /\ i.application = 0 \/ h.application = 0 \/ i.application = h.application
  BY DEF EventCandidates
<1>8. h.target = t /\ t.name # Dynamic /\ i.target = s.name
  <2>1. h.target = t /\ i.target \in {Dynamic, s.name}
    BY <1>2, <1>5, EventRecords
  <2> QED
    BY <1>7, <2>1 DEF EventTargetsMatch
<1>9. Covers(l.name, s.name)
  <2>1. l.name \in Seq(ToSet(l.name)) /\ s.name \in Seq(ToSet(s.name))
    BY DEF WiringIsTyped, Of, Resolved
  <2>2. t.name = l.name
    BY <1>8, TargetIs
  <2> HIDE DEF t
  <2>3. SegmentsMatch(l.name, s.name) \/ l.name = s.name
    BY <1>7, <1>8, <2>2 DEF EventTargetsMatch
  <2> QED
    BY <2>1, <2>3, NamesCovered
<1>10. ASSUME Cardinality(A) = 1, Cardinality(B) = 1, A # B
       PROVE  FALSE
  <2>1. EventApplications \subseteq wiring.applications
    BY DEF EventApplications
  <2>2. IsFiniteSet(A) /\ A \subseteq wiring.applications /\ IsFiniteSet(B) /\ B \subseteq wiring.applications
    BY <2>1, FiniteApplications
  <2>3. PICK a : A = {a}
    BY <1>10, <2>2, FS_Singleton
  <2>4. PICK b : B = {b}
    BY <1>10, <2>2, FS_Singleton
  <2>5. a.id # 0 /\ b.id # 0 /\ (a.id = b.id => a = b)
    BY <2>2, <2>3, <2>4 DEF WiringIsTyped
  <2>6. h.application = a.id
    BY <1>5, <2>3, HandlerContext
  <2>7. i.application = b.id
    <3>1. i.application = ContextForClass(s.class, EventApplications)
      BY <1>2, EventRecords
    <3>2. ContextForClass(s.class, EventApplications) # 0 /\ ContextForClass(s.class, EventApplications) \in {0, b.id}
      BY <1>10, <2>1, <2>4, ContextIs
    <3> QED
      BY <3>1, <3>2
  <2> QED
    BY <1>7, <1>10, <2>3, <2>4, <2>5, <2>6, <2>7
<1> QED
  BY <1>6, <1>9, <1>10 DEF Apart

LEMMA JobsFinite ==
    ASSUME WiringIsTyped(wiring)
    PROVE  \A s : IsFiniteSet(JobCandidates(s))
<1>1. \A s : JobCandidates(s) \in SUBSET wiring.listeners
  BY DEF JobCandidates, Of
<1> QED
  BY <1>1, FS_Subset DEF WiringIsTyped

LEMMA JobsMissNone ==
    ASSUME WiringIsTyped(wiring), JobsKnown, jobFacts.diagnostics = {},
           NEW i \in jobFacts.interactions, NEW l \in Of("job", wiring.listeners), l.queue = i.site.queue
    PROVE  <<i.site, l, "resolved">> \in jobFacts.matches
<1>1. PICK s \in Resolved("job") : i = [site |-> s, boundary |-> JobBoundary(s)]
  BY DEF JobsKnown
<1>2. i.site = s
  BY <1>1
<1>3. JobDiagnostics = {}
  BY DEF JobsKnown
<1>4. l.queue # Dynamic
  <2>1. l.queue = Dynamic => <<"INTERACTION_TARGET_DYNAMIC", l>> \in JobDiagnostics
    BY DEF JobDiagnostics
  <2> QED
    BY <1>3, <2>1
<1>5. l \in JobCandidates(s)
  BY <1>2, <1>4 DEF JobCandidates
<1>6. FanOutDiagnostics(s, JobCandidates(s)) = {}
  <2>1. FanOutDiagnostics(s, JobCandidates(s)) \subseteq JobDiagnostics
    BY DEF JobDiagnostics
  <2> QED
    BY <1>3, <2>1
<1>7. Retained(JobCandidates(s)) = JobCandidates(s)
  BY <1>6, JobsFinite, RetainedIs
<1>8. <<s, l, "resolved">> \in JobMatches(s)
  BY <1>5, <1>7 DEF JobMatches
<1> QED
  BY <1>2, <1>8 DEF JobsKnown

LEMMA JobsAreReal ==
    ASSUME WiringIsTyped(wiring), JobsKnown, NEW match \in jobFacts.matches
    PROVE  match[1].queue = match[2].queue /\ match[1].queue # Dynamic
<1>1. PICK s \in Resolved("job") : match \in JobMatches(s)
  BY DEF JobsKnown
<1>2. Retained(JobCandidates(s)) \subseteq JobCandidates(s)
  BY JobsFinite, RetainedIs
<1>3. PICK l \in JobCandidates(s) : match = <<s, l, "resolved">>
  BY <1>1, <1>2 DEF JobMatches
<1> QED
  BY <1>3 DEF JobCandidates

LEMMA MessageRecords ==
    \A l : /\ MessageHandler(l).listener = l
           /\ MessageHandler(l).application = MessageApplication(l.class)
  BY DEF MessageHandler

LEMMA MessagesFinite ==
    ASSUME WiringIsTyped(wiring)
    PROVE  \A s : IsFiniteSet(MessageCandidates(s))
<1> DEFINE f == [l \in wiring.listeners |-> MessageHandler(l)]
<1>1. IsFiniteSet({f[l] : l \in Of("message", wiring.listeners)})
  <2>1. IsFiniteSet(Of("message", wiring.listeners))
    BY FS_Subset DEF WiringIsTyped, Of
  <2> HIDE DEF f
  <2> QED
    BY <2>1, FiniteImage
<1>2. {f[l] : l \in Of("message", wiring.listeners)} = MessageHandlers
  BY DEF MessageHandlers, Of
<1>3. IsFiniteSet(MessageHandlers)
  BY <1>1, <1>2
<1>4. \A s : MessageCandidates(s) \in SUBSET MessageHandlers
  BY DEF MessageCandidates, CompatibleHandlers
<1> QED
  BY <1>3, <1>4, FS_Subset

\* Nothing is said of the message that is sent.
Unremarkable(s) ==
    /\ s.name # Dynamic /\ s.token # Dynamic /\ ClientTransport(s) # "none"
    /\ s \in MatchedSites => /\ FanOutDiagnostics(s, MessageCandidates(s)) = {}
                             /\ ~RequestAmbiguous(s, Retained(MessageCandidates(s)))

LEMMA MessagesDiagnosed ==
    ASSUME MessageDiagnostics = {}, NEW s \in Resolved("message")
    PROVE  Unremarkable(s)
<1>1. ~(Dynamic \in {s.name, s.token})
  <2>1. Dynamic \in {s.name, s.token} => <<"INTERACTION_TARGET_DYNAMIC", s>> \in MessageDiagnostics
    BY DEF MessageDiagnostics
  <2> QED
    BY <2>1
<1>2. ClientTransport(s) # "none"
  <2>1. ClientTransport(s) = "none" => <<"MICROSERVICE_TRANSPORT_UNKNOWN", s>> \in MessageDiagnostics
    BY DEF MessageDiagnostics
  <2> QED
    BY <2>1
<1>3. ASSUME s \in MatchedSites
      PROVE  /\ FanOutDiagnostics(s, MessageCandidates(s)) = {}
             /\ ~RequestAmbiguous(s, Retained(MessageCandidates(s)))
  <2>1. RequestAmbiguous(s, Retained(MessageCandidates(s))) =>
            <<"MICROSERVICE_REQUEST_HANDLER_AMBIGUOUS", s>> \in MessageDiagnostics
    BY <1>3 DEF MessageDiagnostics
  <2>2. FanOutDiagnostics(s, MessageCandidates(s)) \subseteq MessageDiagnostics
    BY <1>3 DEF MessageDiagnostics
  <2> QED
    BY <2>1, <2>2
<1> QED
  BY <1>1, <1>2, <1>3 DEF Unremarkable

LEMMA MessageFound ==
    ASSUME NEW s \in Resolved("message"), Unremarkable(s),
           NEW l \in Of("message", wiring.listeners), RunsMessage(s, l)
    PROVE  s \in MatchedSites /\ MessageHandler(l) \in MessageCandidates(s)
<1> DEFINE h == MessageHandler(l)
<1>1. s \in MatchedSites
  BY DEF MatchedSites, Unremarkable, RunsMessage
<1>2. h \in MessageHandlers
  BY DEF MessageHandlers
<1>3. PatternCompatible(s, h)
  BY MessageRecords DEF PatternCompatible, RunsMessage, Unremarkable
<1>4. TransportsMatch(s, h)
  BY DEF TransportsMatch, RunsMessage, Unremarkable
<1> QED
  BY <1>1, <1>2, <1>3, <1>4 DEF MessageCandidates, CompatibleHandlers

LEMMA MessagesMissNone ==
    ASSUME WiringIsTyped(wiring), MessagesKnown, messageFacts.diagnostics = {},
           NEW i \in messageFacts.interactions
    PROVE  LET run == {l \in Of("message", wiring.listeners) : RunsMessage(i.site, l)}
           IN  /\ \A l \in run : <<i.site, l, "resolved">> \in messageFacts.matches
               /\ i.site.mode = "request_response" => Cardinality(run) <= 1
<1>1. PICK s \in Resolved("message") : i = [site |-> s, boundary |-> MessageBoundary(s)]
  BY DEF MessagesKnown
<1>2. i.site = s
  BY <1>1
<1> DEFINE run == {l \in Of("message", wiring.listeners) : RunsMessage(s, l)}
           C == MessageCandidates(s)
<1>3. Unremarkable(s)
  BY MessagesDiagnosed DEF MessagesKnown
<1>4. \A l \in run : s \in MatchedSites /\ MessageHandler(l) \in C
  BY <1>3, MessageFound
<1>5. s \in MatchedSites => Retained(C) = C
  BY <1>3, MessagesFinite, RetainedIs DEF Unremarkable
<1>6. ASSUME NEW l \in run
      PROVE  <<s, l, "resolved">> \in messageFacts.matches
  <2>1. s \in MatchedSites /\ MessageHandler(l) \in Retained(C)
    BY <1>4, <1>5
  <2>2. MessageStatus(s) = "resolved"
    BY <1>3, <2>1 DEF MessageStatus, Unremarkable
  <2>3. <<s, l, "resolved">> \in MessageMatches(s)
    BY <2>1, <2>2, MessageRecords DEF MessageMatches
  <2> QED
    BY <2>1, <2>3 DEF MessagesKnown
<1>7. ASSUME s.mode = "request_response"
      PROVE  Cardinality(run) <= 1
  <2>1. IsFiniteSet(run) /\ IsFiniteSet(C)
    <3>1. run \in SUBSET wiring.listeners
      BY DEF Of
    <3> HIDE DEF run
    <3> QED
      BY <3>1, FS_Subset, MessagesFinite DEF WiringIsTyped
  <2>2. CASE run = {}
    <3>1. Cardinality(run) = 0
      BY <2>2, FS_EmptySet
    <3> QED
      BY <3>1
  <2>3. CASE run # {}
    <3>1. PICK l : l \in run
      BY <2>3
    <3> HIDE DEF run, C
    <3>2. ~(Cardinality(C) > 1)
      BY <1>3, <1>4, <1>5, <1>7, <3>1 DEF Unremarkable, RequestAmbiguous, C
    <3>3. Cardinality(C) = 1
      <4>1. Cardinality(C) # 0 /\ Cardinality(C) \in Nat
        BY <1>4, <2>1, <3>1, FS_EmptySet, FS_CardinalityType
      <4> QED
        BY <3>2, <4>1
    <3>4. PICK h : C = {h}
      BY <2>1, <3>3, FS_Singleton
    <3>5. \A k \in run : MessageHandler(k) = h
      BY <1>4, <3>4
    <3>6. \A k \in run : k = l
      BY <3>1, <3>5, MessageRecords
    <3>7. run = {l}
      BY <3>1, <3>6
    <3>8. Cardinality(run) = 1
      BY <3>7, FS_Singleton
    <3> QED
      BY <3>8
  <2> QED
    BY <2>2, <2>3
<1> QED
  BY <1>2, <1>6, <1>7

LEMMA MessagesAreReal ==
    ASSUME WiringIsTyped(wiring), MessagesKnown, NEW match \in messageFacts.matches
    PROVE  RunsMessage(match[1], match[2]) /\ ~Apart(match[1], match[2], MessageApplications)
<1>1. PICK s \in MatchedSites : match \in MessageMatches(s)
  BY DEF MessagesKnown
<1>2. Retained(MessageCandidates(s)) \subseteq MessageCandidates(s)
  BY MessagesFinite, RetainedIs
<1>3. PICK h \in MessageCandidates(s) : match = <<s, h.listener, MessageStatus(s)>>
  BY <1>1, <1>2 DEF MessageMatches
<1>4. PICK l \in Of("message", wiring.listeners) : h = MessageHandler(l)
  BY DEF MessageCandidates, CompatibleHandlers, MessageHandlers
<1>5. match[1] = s /\ match[2] = l
  BY <1>3, <1>4, MessageRecords
<1>6. PatternCompatible(s, h) /\ TransportsMatch(s, h)
  BY DEF MessageCandidates, CompatibleHandlers
<1>7. MessageApplication(s.class) # 0 /\ MessageApplication(l.class) = MessageApplication(s.class)
  BY <1>4, <1>6, MessageRecords DEF MatchedSites, PatternCompatible
<1>8. RunsMessage(s, l)
  BY <1>4, <1>6, <1>7, MessageRecords DEF RunsMessage, PatternCompatible, TransportsMatch
<1>9. ApplicationsForClass(s.class, MessageApplications) = ApplicationsForClass(l.class, MessageApplications)
  <2>1. MessageApplications \subseteq wiring.applications
    BY DEF MessageApplications
  <2>2. PICK a \in wiring.applications :
            ApplicationsForClass(s.class, MessageApplications) = {a} /\ MessageApplication(s.class) = a.id
    BY <1>7, <2>1, ContextIs DEF MessageApplication
  <2>3. PICK b \in wiring.applications :
            ApplicationsForClass(l.class, MessageApplications) = {b} /\ MessageApplication(l.class) = b.id
    BY <1>7, <2>1, ContextIs DEF MessageApplication
  <2>4. a = b
    BY <1>7, <2>2, <2>3 DEF WiringIsTyped
  <2> QED
    BY <2>2, <2>3, <2>4
<1> QED
  BY <1>5, <1>8, <1>9 DEF Apart

\* No handler of an event, a job or a message is missed without a
\* diagnostic, and none is matched that it cannot run (matchInteractions of
\* nest-event-emitter.ts, nest-bullmq.ts and nest-microservices.ts).
THEOREM HandlersAreMatched == Spec => []MatchingIsHonest
<1>1. ASSUME MatchesInv PROVE MatchingIsHonest
  <2>1. WiringIsTyped(wiring)
    BY <1>1 DEF MatchesInv
  <2>2. \/ eventFacts.interactions = {} /\ eventFacts.matches = {}
        \/ EventsKnown
    BY <1>1 DEF MatchesInv, NoFacts
  <2>8. \/ jobFacts.interactions = {} /\ jobFacts.matches = {}
        \/ JobsKnown
    BY <1>1 DEF MatchesInv, NoFacts
  <2>9. \/ messageFacts.interactions = {} /\ messageFacts.matches = {}
        \/ MessagesKnown
    BY <1>1 DEF MatchesInv, NoFacts
  <2>3. eventFacts.diagnostics = {} =>
            \A i \in eventFacts.interactions, l \in Of("event", wiring.listeners) :
                RunsEvent(i.site, l) =>
                    /\ <<i.site, l, "resolved">> \in eventFacts.matches
                    /\ i.timing = "synchronous" => l.timing = "synchronous"
    BY <2>1, <2>2, EventsMissNone
  <2>4. jobFacts.diagnostics = {} =>
            \A i \in jobFacts.interactions, l \in Of("job", wiring.listeners) :
                l.queue = i.site.queue => <<i.site, l, "resolved">> \in jobFacts.matches
    BY <2>1, <2>8, JobsMissNone
  <2>5. messageFacts.diagnostics = {} =>
            \A i \in messageFacts.interactions :
                LET run == {l \in Of("message", wiring.listeners) : RunsMessage(i.site, l)}
                IN  /\ \A l \in run : <<i.site, l, "resolved">> \in messageFacts.matches
                    /\ i.site.mode = "request_response" => Cardinality(run) <= 1
    BY <2>1, <2>9, MessagesMissNone
  <2>6. NoHandlerIsSilentlyMissed
    BY <2>3, <2>4, <2>5 DEF NoHandlerIsSilentlyMissed
  <2>7. MatchesAreReal
    BY <2>1, <2>2, <2>8, <2>9, EventsAreReal, JobsAreReal, MessagesAreReal DEF MatchesAreReal
  <2> QED
    BY <2>6, <2>7 DEF MatchingIsHonest
<1> QED
  BY <1>1, MatchesInvHolds, PTL

-----------------------------------------------------------------------------
(***************************************************************************)
(* The declarations a call is looked up to.                                *)
(***************************************************************************)
Declarations(c, name) == {[class |-> c, name |-> name, overload |-> i] : i \in 1..Class(c).declares[name]}

FoundBy(f, k, name) ==
    IF k = "none" THEN {}
    ELSE IF name \in DOMAIN Class(k).declares THEN Declarations(k, name)
    ELSE f[Class(k).extends]

LEMMA LookupExists ==
    ASSUME NEW name, CodebaseIsTyped(codebase)
    PROVE  \E f : f = [k \in Classes \cup {"none"} |-> FoundBy(f, k, name)]
<1> DEFINE K == Classes \cup {"none"}
           D == UNION {Declarations(c, name) : c \in Classes}
           Having(R) == [k \in K |-> {x \in D : <<k, x>> \in R}]
           Closed == {R \in SUBSET (K \X D) : \A k \in K : \A x \in FoundBy(Having(R), k, name) : <<k, x>> \in R}
           Least == {e \in K \X D : \A R \in Closed : e \in R}
<1>1. \A c \in Classes : Class(c).extends \in K /\ c # "none"
  BY DEF CodebaseIsTyped, Classes, Class
<1>2. \A R, k : k \in K => FoundBy(Having(R), k, name) \subseteq D
  BY <1>1 DEF FoundBy
<1>3. ASSUME NEW R, NEW Q, R \subseteq Q, NEW k \in K
      PROVE  FoundBy(Having(R), k, name) \subseteq FoundBy(Having(Q), k, name)
  BY <1>1, <1>3 DEF FoundBy
<1> HIDE DEF Having, D
<1>4. Least \in Closed
  <2>1. ASSUME NEW k \in K, NEW x \in FoundBy(Having(Least), k, name)
        PROVE  <<k, x>> \in Least
    <3>1. x \in D
      BY <1>2
    <3>2. ASSUME NEW R \in Closed PROVE <<k, x>> \in R
      <4>1. Least \subseteq R
        OBVIOUS
      <4>2. x \in FoundBy(Having(R), k, name)
        <5> HIDE DEF Least, Closed
        <5> QED
          BY <1>3, <4>1
      <4> QED
        BY <4>2
    <3> QED
      BY <3>1, <3>2
  <2> QED
    BY <2>1
<1> DEFINE After == {e \in K \X D : e[2] \in FoundBy(Having(Least), e[1], name)}
<1>5. After \subseteq Least
  <2> HIDE DEF Least
  <2>1. \A k \in K : \A x \in FoundBy(Having(Least), k, name) : <<k, x>> \in Least
    BY <1>4
  <2> QED
    BY <2>1
<1>6. After \in Closed
  <2>1. ASSUME NEW k \in K, NEW x \in FoundBy(Having(After), k, name)
        PROVE  <<k, x>> \in After
    <3>1. x \in FoundBy(Having(Least), k, name)
      <4> HIDE DEF After, Least
      <4> QED
        BY <1>3, <1>5
    <3>2. x \in D
      BY <1>2
    <3> QED
      BY <3>1, <3>2
  <2> QED
    BY <2>1
<1>7. Least \subseteq After
  BY <1>6
<1>8. \A k \in K : Having(Least)[k] = FoundBy(Having(Least), k, name)
  <2> HIDE DEF Least
  <2>1. \A k \in K : Having(Least)[k] = {x \in D : <<k, x>> \in Least}
    BY DEF Having
  <2>2. \A k \in K : \A x \in D : <<k, x>> \in Least <=> x \in FoundBy(Having(Least), k, name)
    BY <1>5, <1>7
  <2> QED
    BY <2>1, <2>2, <1>2
<1>9. Having(Least) = [k \in K |-> Having(Least)[k]]
  BY DEF Having
<1>10. Having(Least) = [k \in K |-> FoundBy(Having(Least), k, name)]
  <2> HIDE DEF Least
  <2> QED
    BY <1>8, <1>9
<1> QED
  BY <1>10

LEMMA LookupIs ==
    ASSUME NEW name, CodebaseIsTyped(codebase)
    PROVE  /\ Lookup("none", name) = {}
           /\ \A c \in Classes : Lookup(c, name) =
                IF name \in DOMAIN Class(c).declares THEN Declarations(c, name) ELSE Lookup(Class(c).extends, name)
<1> DEFINE K == Classes \cup {"none"}
           found == CHOOSE f : f = [k \in K |-> FoundBy(f, k, name)]
<1>1. found = [k \in K |-> FoundBy(found, k, name)]
  BY LookupExists
<1>2. \A c : Lookup(c, name) = found[c]
  BY DEF Lookup, FoundBy, Declarations
<1> HIDE DEF found
<1>3. \A k \in K : found[k] = FoundBy(found, k, name)
  BY <1>1
<1>4. "none" \notin Classes
  BY DEF CodebaseIsTyped, Classes
<1> QED
  BY <1>2, <1>3, <1>4 DEF FoundBy

\* A call is looked up to declarations of one class.
LEMMA LookupShape ==
    ASSUME NEW name, CodebaseIsTyped(codebase)
    PROVE  \A c \in Classes \cup {"none"} : \E k : \A t \in Lookup(c, name) : t.name = name /\ t.class = k
<1> DEFINE Fine(c) == \E k : \A t \in Lookup(c, name) : t.name = name /\ t.class = k
           Bad == {c \in Classes : ~Fine(c)}
<1>1. Fine("none")
  BY LookupIs
<1>2. ASSUME Bad # {} PROVE FALSE
  <2>1. PICK c \in Bad : Class(c).extends \notin Bad
    <3>1. Bad \in SUBSET Classes
      OBVIOUS
    <3> HIDE DEF Bad
    <3> QED
      BY <1>2, <3>1 DEF CodebaseIsTyped, Classes, Class
  <2>2. c \in Classes /\ ~Fine(c)
    BY <2>1
  <2>3. Class(c).extends \in Classes \cup {"none"}
    BY <2>2 DEF CodebaseIsTyped, Classes, Class
  <2>4. Fine(Class(c).extends)
    BY <1>1, <2>1, <2>3
  <2>5. CASE name \in DOMAIN Class(c).declares
    BY <2>2, <2>5, LookupIs DEF Declarations
  <2>6. CASE name \notin DOMAIN Class(c).declares
    BY <2>2, <2>4, <2>6, LookupIs
  <2> QED
    BY <2>5, <2>6
<1> QED
  BY <1>1, <1>2

LookupIn(base, c, name) ==
    LET found[k \in DOMAIN base.classes \cup {"none"}] ==
            IF k = "none" THEN {}
            ELSE IF name \in DOMAIN base.classes[k].declares
            THEN {[class |-> k, name |-> name, overload |-> i] : i \in 1..base.classes[k].declares[name]}
            ELSE found[base.classes[k].extends]
    IN  found[c]

LEMMA LookupInCodebase == \A c, name : Lookup(c, name) = LookupIn(codebase, c, name)
  BY DEF Lookup, LookupIn, Class, Classes

\* What the extractor returns.
CallsFound ==
    [injections |-> MergedCalls(Injections), calls |-> MergedCalls(CallsOfSites),
     observations |-> Observations, diagnostics |-> TokenDiagnostics \cup TargetDiagnostics]

LEMMA SameCodebase ==
    ASSUME codebase' = codebase
    PROVE  CallsFound' = CallsFound
<1>1. \A c, name : Lookup(c, name)' = Lookup(c, name)
  <2>1. (\A c, name : Lookup(c, name) = LookupIn(codebase, c, name))'
    BY LookupInCodebase, PTL
  <2>2. \A c, name : Lookup(c, name)' = LookupIn(codebase', c, name)
    BY <2>1
  <2> QED
    BY <2>2, LookupInCodebase
<1>2. \A c : Class(c)' = Class(c)
  BY DEF Class
<1>3. Classes' = Classes /\ codebase.sites' = codebase.sites
  BY DEF Classes
<1>4. \A c, p : Parameter(c, p)' = Parameter(c, p) /\ ParametersOf(c)' = ParametersOf(c) /\ Assignments(c)' = Assignments(c)
  BY <1>2 DEF Parameter, ParametersOf, Assignments
<1>5. RecognizedOwners' = RecognizedOwners
  BY <1>2, <1>3 DEF RecognizedOwners
<1>6. \A c, m : Assigning(c, m)' = Assigning(c, m) /\ Direct(c, m)' = Direct(c, m)
  BY <1>4 DEF Assigning, Direct
<1>7. \A c, p : MembersOf(c, p)' = MembersOf(c, p)
  <2> TAKE c, p
  <2>1. {i \in Direct(c, p) : Direct(c, p) = {i} /\ Assigning(c, Assignments(c)[i].member) = {i}}'
        = {i \in Direct(c, p) : Direct(c, p) = {i} /\ Assigning(c, Assignments(c)[i].member) = {i}}
    BY <1>4, <1>6
  <2>2. ExplicitAssignment(c, p)' = ExplicitAssignment(c, p)
    BY <1>4, <2>1 DEF ExplicitAssignment
  <2> QED
    BY <1>4, <2>2 DEF MembersOf
<1>8. \A c : Injecting(c)' = Injecting(c)
  BY <1>4 DEF Injecting
<1>9. Injections' = Injections
  BY <1>4, <1>5, <1>8 DEF Injections, InjectionsOf
<1>10. TokenDiagnostics' = TokenDiagnostics
  BY <1>4, <1>5, <1>8 DEF TokenDiagnostics, TokenDiagnosticsOf
<1>11. \A c : BoundMembers(c)' = BoundMembers(c)
  BY <1>7, <1>8 DEF BoundMembers
<1>12. SearchedSites' = SearchedSites
  BY <1>3, <1>5, <1>11 DEF SearchedSites
<1>13. OnMembers' = OnMembers /\ OnThis' = OnThis
  BY <1>11, <1>12 DEF OnMembers, OnThis
<1>14. \A s : LocalTargets(s)' = LocalTargets(s)
  BY <1>1 DEF LocalTargets
<1>15. \A c, m, name : MemberTargets(c, m, name)' = MemberTargets(c, m, name)
  BY <1>1, <1>2 DEF MemberTargets
<1>16. \A s : Forwarded(s)' = Forwarded(s)
  BY <1>2, <1>11, <1>14, <1>15 DEF Forwarded
<1>17. CallsOfSites' = CallsOfSites /\ Observations' = Observations
  BY <1>13, <1>14, <1>15, <1>16 DEF CallsOfSites, CallsOnThis, CallsOnMembers, Observations, Calls, Observed
<1>18. TargetDiagnostics' = TargetDiagnostics
  BY <1>13, <1>15 DEF TargetDiagnostics
<1> QED
  BY <1>9, <1>10, <1>17, <1>18 DEF CallsFound

-----------------------------------------------------------------------------
(***************************************************************************)
(* No executed call is left out.                                           *)
(***************************************************************************)
CallsKnown == CodebaseIsTyped(codebase) /\ callFacts = CallsFound

\* The fact a call gives is merged, and its ends with it.
LEMMA CallsPublished ==
    ASSUME CallsKnown, NEW x, NEW s, NEW targets, NEW rule, NEW t \in targets,
           x.site = s, x.target = <<t.class, t.name>>,
           Calls(s, targets, rule) \subseteq CallsOfSites
    PROVE  PublishedCall(x)
<1> DEFINE f == [from |-> <<s.class, s.method>>, to |-> <<t.class, t.name, t.overload>>, rule |-> rule, status |-> CallStatus(targets)]
           a == [f EXCEPT !.status = "ambiguous"]
<1>1. f \in CallsOfSites
  BY DEF Calls
<1>2. callFacts.calls = MergedCalls(CallsOfSites)
  BY DEF CallsKnown, CallsFound
<1>3. a.from = <<s.class, s.method>> /\ a.to = <<t.class, t.name, t.overload>> /\ a.status = "ambiguous"
  OBVIOUS
<1>4. f.from = <<s.class, s.method>> /\ f.to = <<t.class, t.name, t.overload>>
  OBVIOUS
<1> HIDE DEF f
<1>5. a \in CallsOfSites => a \in callFacts.calls
  <2> HIDE DEF a
  <2> QED
    BY <1>2, <1>3 DEF MergedCalls
<1>6. a \notin CallsOfSites => f \in callFacts.calls
  BY <1>1, <1>2 DEF MergedCalls
<1> HIDE DEF a
<1>7. \E g \in callFacts.calls : g.from = <<s.class, s.method>> /\ g.to = <<t.class, t.name, t.overload>>
  BY <1>3, <1>4, <1>5, <1>6
<1> QED
  BY <1>7 DEF PublishedCall

LEMMA LookedUpCalls ==
    ASSUME CallsKnown, NEW x, NEW k, NEW name,
           x.target \in Implementation(k, name)
    PROVE  \E t \in Lookup(k, name) : x.target = <<t.class, t.name>>
  BY DEF Implementation

\* The call is of a class whose calls are searched, and not dispatched.
LEMMA SeenCallsAreDirect ==
    ASSUME CallsKnown, NEW x, NEW k, NEW name, ~Dispatched(x), x.static = k,
           k \in Classes \cup {"none"}, NEW o \in Classes, x.target \in Implementation(o, name)
    PROVE  /\ x.target[2] = name
           /\ Lookup(k, name) # {} => \E t \in Lookup(k, name) : x.target = <<t.class, t.name>>
<1>1. x.target[2] = name
  <2>1. PICK t \in Lookup(o, name) : x.target = <<t.class, t.name>>
    BY DEF Implementation
  <2>2. t.name = name
    BY LookupShape DEF CallsKnown
  <2> QED
    BY <2>1, <2>2
<1>2. Lookup(k, name) # {} => Implementation(k, name) # {}
  BY DEF Implementation
<1>3. Lookup(k, name) # {} => x.target \in Implementation(k, name)
  BY <1>1, <1>2 DEF Dispatched
<1> QED
  BY <1>1, <1>3 DEF Implementation

LEMMA HeldParameters ==
    ASSUME CallsKnown, NEW c \in Classes, NEW m
    PROVE  Holding(c, m) \ {"other"} \subseteq ParametersOf(c)
<1>1. \A i \in Assigning(c, m) : Assignments(c)[i].parameter \in ParametersOf(c) \cup {"other"}
  BY DEF CallsKnown, CodebaseIsTyped, Assigning, Assignments, ParametersOf, Class, Classes
<1> QED
  BY <1>1 DEF Holding, LastAssignments

\* Each site gives its calls.
LEMMA SitesGive ==
    ASSUME NEW x
    PROVE  /\ x \in OnThis => /\ Calls(x, LocalTargets(x), "same_class") \subseteq CallsOfSites
                             /\ Calls(x, Forwarded(x), "bound_callback") \subseteq CallsOfSites
           /\ x \in OnMembers => Calls(x, MemberTargets(x.class, x.member, x.name), "injected_member") \subseteq CallsOfSites
<1>1. CallsOnThis \subseteq CallsOfSites /\ CallsOnMembers \subseteq CallsOfSites
  BY DEF CallsOfSites
<1>2. ASSUME x \in OnThis
      PROVE  Calls(x, LocalTargets(x), "same_class") \cup Calls(x, Forwarded(x), "bound_callback") \subseteq CallsOnThis
  BY <1>2 DEF CallsOnThis
<1>3. ASSUME x \in OnMembers
      PROVE  Calls(x, MemberTargets(x.class, x.member, x.name), "injected_member") \subseteq CallsOnMembers
  BY <1>3 DEF CallsOnMembers
<1> QED
  BY <1>1, <1>2, <1>3

LEMMA ExecutedOnThis ==
    ASSUME NEW s, NEW x \in ExecutedAt(s), s.member = "this"
    PROVE  \/ \E o \in ObjectsOfClass(s.class) : x \in Executed(s, s.class, o, s.name)
           \/ /\ s.callback # NoCallback
              /\ \E o \in Objects(s.class, s.callback.member) :
                     x \in Executed(s, Class(s.class).members[s.callback.member], o, s.callback.name)
<1>1. x \in OnItself(s) \/ (CallsBack(s) /\ x \in ByCallback(s))
  BY DEF ExecutedAt
<1>2. CASE x \in OnItself(s)
  BY <1>2 DEF OnItself
<1>3. CASE CallsBack(s) /\ x \in ByCallback(s)
  BY <1>3 DEF CallsBack, ByCallback
<1> QED
  BY <1>1, <1>2, <1>3

LEMMA ExecutedFrom ==
    ASSUME NEW s, NEW x \in ExecutedAt(s)
    PROVE  x.site = s
<1>1. \A k, o, name : \A y \in Executed(s, k, o, name) : y.site = s
  BY DEF Executed
<1>2. CASE s.member # "this"
  <2>1. PICK o \in Objects(s.class, s.member) : x \in Executed(s, Class(s.class).members[s.member], o, s.name)
    BY <1>2 DEF ExecutedAt, OnMember
  <2> QED
    BY <1>1, <2>1
<1>3. CASE s.member = "this"
  <2>1. \/ \E o \in ObjectsOfClass(s.class) : x \in Executed(s, s.class, o, s.name)
        \/ \E o \in Objects(s.class, s.callback.member) :
               x \in Executed(s, Class(s.class).members[s.callback.member], o, s.callback.name)
    BY <1>3, ExecutedOnThis
  <2> QED
    BY <1>1, <2>1
<1> QED
  BY <1>2, <1>3

LEMMA CallsAreAccountedFor ==
    ASSUME CallsKnown, NEW x \in ExecutedCalls, ~UnseenCall(x)
    PROVE  PublishedCall(x) \/ DiagnosedCall(x)
<1>1. PICK s \in codebase.sites : x \in ExecutedAt(s)
  BY DEF ExecutedCalls
<1> DEFINE c == s.class
<1>2. /\ c \in Classes
      /\ s.member # "this" => s.member \in DOMAIN Class(c).members
      /\ s.callback # NoCallback => s.callback.member \in DOMAIN Class(c).members
      /\ \A m \in DOMAIN Class(c).members : m # "this" /\ Class(c).members[m] \in Classes \cup {"none"}
  BY DEF CallsKnown, CodebaseIsTyped, Classes, Class, NoCallback
<1>3. x.site = s
  BY <1>1, ExecutedFrom
<1>4. s \in SearchedSites /\ c \in RecognizedOwners
  BY <1>3 DEF UnseenCall, NothingInjected, SearchedSites
<1>5. ~Dispatched(x)
  BY DEF UnseenCall
<1>6. /\ \A m : Objects(c, m) \subseteq Classes
      /\ ObjectsOfClass(c) \subseteq Classes
  BY DEF Objects, ObjectsOfClass, Extending
<1>7. CASE s.member # "this"
  <2>1. PICK o \in Objects(c, s.member) :
           x \in Executed(s, Class(c).members[s.member], o, s.name)
    BY <1>1, <1>7 DEF ExecutedAt, OnMember
  <2> DEFINE k == Class(c).members[s.member]
  <2>2. x.static = k /\ x.target \in Implementation(o, s.name) /\ k \in Classes \cup {"none"} /\ o \in Classes
    BY <2>1, <1>2, <1>6, <1>7 DEF Executed
  <2> HIDE DEF k
  <2>3. Lookup(k, s.name) # {} => \E t \in Lookup(k, s.name) : x.target = <<t.class, t.name>>
    BY <2>2, <1>5, SeenCallsAreDirect
  <2>4. MemberTargets(c, s.member, s.name) = Lookup(k, s.name)
    BY DEF MemberTargets, k
  <2>5. CASE s.member \in BoundMembers(c)
    <3>1. s \in OnMembers
      BY <1>4, <2>5 DEF OnMembers
    <3>2. CASE Lookup(k, s.name) # {}
      <4>1. PICK t \in Lookup(k, s.name) : x.target = <<t.class, t.name>>
        BY <2>3, <3>2
      <4>2. Calls(s, MemberTargets(c, s.member, s.name), "injected_member") \subseteq CallsOfSites
        BY <3>1, SitesGive
      <4> QED
        BY <1>3, <2>4, <4>1, <4>2, CallsPublished
    <3>3. CASE Lookup(k, s.name) = {}
      <4>1. [code |-> "CALL_TARGET_UNRESOLVED", class |-> s.class, of |-> s.at] \in TargetDiagnostics
        BY <3>1, <3>3, <2>4 DEF TargetDiagnostics
      <4> QED
        BY <4>1, <1>3 DEF DiagnosedCall, CallsKnown, CallsFound
    <3> QED
      BY <3>2, <3>3
  <2>6. CASE s.member \notin BoundMembers(c)
    <3>1. PICK p \in Holding(c, s.member) \ {"other"} : Parameter(c, p).kind = "token"
      BY <1>3, <1>7, <2>6 DEF UnseenCall, UnboundMember
    <3>2. p \in ParametersOf(c)
      <4>1. Holding(c, s.member) \ {"other"} \subseteq ParametersOf(c)
        BY <1>2, HeldParameters
      <4> QED
        BY <3>1, <4>1
    <3>3. p \notin Injecting(c)
      BY <3>1 DEF Injecting
    <3>4. [code |-> "DI_TOKEN_UNSUPPORTED", class |-> c, of |-> p] \in TokenDiagnostics
      BY <1>4, <3>1, <3>2, <3>3 DEF TokenDiagnostics, TokenDiagnosticsOf
    <3> QED
      BY <1>3, <3>1, <3>4 DEF DiagnosedCall, CallsKnown, CallsFound
  <2> QED
    BY <2>5, <2>6
<1>8. CASE s.member = "this"
  <2>1. LocalTargets(s) # {}
    BY <1>3, <1>8 DEF UnseenCall, Inherited
  <2>2. s \in OnThis
    BY <1>4, <1>8 DEF OnThis
  <2>3. CASE \E o \in ObjectsOfClass(c) : x \in Executed(s, c, o, s.name)
    <3>1. PICK o \in ObjectsOfClass(c) : x \in Executed(s, c, o, s.name)
      BY <2>3
    <3>2. x.static = c /\ x.target \in Implementation(o, s.name) /\ o \in Classes
      BY <3>1, <1>6 DEF Executed
    <3>3. Lookup(c, s.name) # {}
      BY <2>1 DEF LocalTargets
    <3>4. PICK t \in Lookup(c, s.name) : x.target = <<t.class, t.name>>
      BY <1>2, <1>5, <3>2, <3>3, SeenCallsAreDirect
    <3>5. t \in LocalTargets(s)
      <4> DEFINE name == s.name
      <4>1. CodebaseIsTyped(codebase) /\ c \in Classes \cup {"none"}
        BY <1>2 DEF CallsKnown
      <4> HIDE DEF name, c
      <4>2. PICK j : \A u \in Lookup(c, name) : u.name = name /\ u.class = j
        BY <4>1, LookupShape
      <4> USE DEF name, c
      <4> QED
        BY <2>1, <3>4, <4>2 DEF LocalTargets
    <3>6. Calls(s, LocalTargets(s), "same_class") \subseteq CallsOfSites
      BY <2>2, SitesGive
    <3> QED
      BY <1>3, <3>4, <3>5, <3>6, CallsPublished
  <2>4. CASE ~\E o \in ObjectsOfClass(c) : x \in Executed(s, c, o, s.name)
    <3> DEFINE k == Class(c).members[s.callback.member]
               name == s.callback.name
    <3>1. /\ s.callback # NoCallback
          /\ \E o \in Objects(c, s.callback.member) : x \in Executed(s, k, o, name)
      BY <1>1, <1>8, <2>4, ExecutedOnThis
    <3>2. PICK o \in Objects(c, s.callback.member) : x \in Executed(s, k, o, name)
      BY <3>1
    <3>3. x.static = k /\ x.target \in Implementation(o, name) /\ k \in Classes \cup {"none"} /\ o \in Classes
      BY <3>1, <3>2, <1>2, <1>6 DEF Executed
    <3> HIDE DEF k
    <3>4. x.target[2] = name
      BY <1>5, <3>3, SeenCallsAreDirect
    <3>5. Forwarded(s) # {}
      BY <1>3, <3>1, <3>4 DEF UnseenCall, Unforwarded, IsCallback
    <3>6. Forwarded(s) = Lookup(k, name)
      BY <3>5 DEF Forwarded, MemberTargets, k
    <3>7. PICK t \in Lookup(k, name) : x.target = <<t.class, t.name>>
      BY <1>5, <3>3, <3>5, <3>6, SeenCallsAreDirect
    <3>8. Calls(s, Forwarded(s), "bound_callback") \subseteq CallsOfSites
      BY <2>2, SitesGive
    <3> QED
      BY <1>3, <3>6, <3>7, <3>8, CallsPublished
  <2> QED
    BY <2>3, <2>4
<1> QED
  BY <1>7, <1>8

\* No member that the constructor binds is this.
LEMMA ProvidedMembers ==
    ASSUME CodebaseIsTyped(codebase), NEW c \in Classes
    PROVE  "this" \notin BoundMembers(c)
<1>1. \A p \in ParametersOf(c) : Parameter(c, p).property # "this"
  BY DEF CodebaseIsTyped, ParametersOf, Parameter, Class, Classes
<1>2. \A i \in DOMAIN Assignments(c) : Assignments(c)[i].member # "this"
  BY DEF CodebaseIsTyped, Assignments, Class, Classes
<1>3. \A p \in ParametersOf(c) : "this" \notin MembersOf(c, p)
  BY <1>1, <1>2 DEF MembersOf, ExplicitAssignment, Direct
<1> QED
  BY <1>3 DEF BoundMembers, Injecting

-----------------------------------------------------------------------------
(***************************************************************************)
(* No recorded call is made up.                                            *)
(***************************************************************************)
\* Each recorded call is of a site, by one of the three rules.
LEMMA RecordedCalls ==
    ASSUME CallsKnown, NEW f \in callFacts.calls
    PROVE  \E s \in codebase.sites : \E targets : \E t \in targets :
               /\ f.from = <<s.class, s.method>> /\ f.to[1] = t.class /\ f.to[2] = t.name
               /\ \/ s \in OnThis /\ targets = LocalTargets(s) /\ f.rule = "same_class"
                  \/ s \in OnThis /\ targets = Forwarded(s) /\ f.rule = "bound_callback"
                  \/ s \in OnMembers /\ targets = MemberTargets(s.class, s.member, s.name) /\ f.rule = "injected_member"
<1>1. f \in CallsOfSites
  BY DEF CallsKnown, CallsFound, MergedCalls
<1>2. \A s, targets, rule : f \in Calls(s, targets, rule) =>
         \E t \in targets : f.from = <<s.class, s.method>> /\ f.to[1] = t.class /\ f.to[2] = t.name /\ f.rule = rule
  BY DEF Calls
<1>3. OnThis \subseteq codebase.sites /\ OnMembers \subseteq codebase.sites
  BY DEF OnThis, OnMembers, SearchedSites
<1>4. CASE f \in CallsOnThis
  <2>1. PICK s \in OnThis : f \in Calls(s, LocalTargets(s), "same_class") \/ f \in Calls(s, Forwarded(s), "bound_callback")
    BY <1>4 DEF CallsOnThis
  <2>2. CASE f \in Calls(s, LocalTargets(s), "same_class")
    BY <1>2, <1>3, <2>2
  <2>3. CASE f \in Calls(s, Forwarded(s), "bound_callback")
    BY <1>2, <1>3, <2>3
  <2> QED
    BY <2>1, <2>2, <2>3
<1>5. CASE f \in CallsOnMembers
  <2>1. PICK s \in OnMembers : f \in Calls(s, MemberTargets(s.class, s.member, s.name), "injected_member")
    BY <1>5 DEF CallsOnMembers
  <2> QED
    BY <1>2, <1>3, <2>1
<1> QED
  BY <1>1, <1>4, <1>5 DEF CallsOfSites

\* An object with the method makes the call, or another one in its place.
LEMMA ObjectsMakeCalls ==
    ASSUME CallsKnown, NEW s \in codebase.sites, NEW static \in Classes \cup {"none"}, NEW name,
           NEW t \in Lookup(static, name), NEW o \in Classes, Lookup(o, name) # {},
           Executed(s, static, o, name) \subseteq ExecutedAt(s)
    PROVE  \/ \E x \in ExecutedCalls : x.site = s /\ x.target = <<t.class, t.name>>
           \/ DeclaredWider(s.class, name)
<1>1. PICK u \in Lookup(o, name) : TRUE
  OBVIOUS
<1>2. CodebaseIsTyped(codebase)
  BY DEF CallsKnown
<1>3. u.name = name
  BY <1>1, <1>2, LookupShape
<1>4. PICK k : \A d \in Lookup(static, name) : d.name = name /\ d.class = k
  BY <1>2, LookupShape
<1> DEFINE x == [site |-> s, static |-> static, target |-> <<u.class, u.name>>]
<1>5. x \in ExecutedCalls
  <2>1. <<u.class, u.name>> \in Implementation(o, name)
    BY <1>1 DEF Implementation
  <2>2. x \in Executed(s, static, o, name)
    BY <2>1 DEF Executed
  <2> QED
    BY <2>2 DEF ExecutedCalls
<1>6. x.site = s /\ x.static = static /\ x.target = <<u.class, u.name>> /\ x.target[2] = name
  BY <1>3
<1> HIDE DEF x
<1>7. <<t.class, t.name>> \in Implementation(static, name) /\ \A y \in Implementation(static, name) : y = <<t.class, t.name>>
  BY <1>4 DEF Implementation
<1>8. CASE x.target = <<t.class, t.name>>
  BY <1>5, <1>6, <1>8
<1>9. CASE x.target # <<t.class, t.name>>
  <2>1. Dispatched(x)
    BY <1>6, <1>7, <1>9 DEF Dispatched
  <2> QED
    BY <1>5, <1>6, <2>1 DEF DeclaredWider
<1> QED
  BY <1>8, <1>9

LEMMA RecordedCallsAreMade ==
    ASSUME CallsKnown, NEW f \in callFacts.calls
    PROVE  \/ \E x \in ExecutedCalls : <<x.site.class, x.site.method>> = f.from /\ x.target = <<f.to[1], f.to[2]>>
           \/ DeclaredWider(f.from[1], f.to[2]) \/ NoReceiver(f)
<1>1. PICK s \in codebase.sites : \E targets : \E t \in targets :
               /\ f.from = <<s.class, s.method>> /\ f.to[1] = t.class /\ f.to[2] = t.name
               /\ \/ s \in OnThis /\ targets = LocalTargets(s) /\ f.rule = "same_class"
                  \/ s \in OnThis /\ targets = Forwarded(s) /\ f.rule = "bound_callback"
                  \/ s \in OnMembers /\ targets = MemberTargets(s.class, s.member, s.name) /\ f.rule = "injected_member"
  BY RecordedCalls
<1>2. PICK targets : \E t \in targets :
               /\ f.from = <<s.class, s.method>> /\ f.to[1] = t.class /\ f.to[2] = t.name
               /\ \/ s \in OnThis /\ targets = LocalTargets(s) /\ f.rule = "same_class"
                  \/ s \in OnThis /\ targets = Forwarded(s) /\ f.rule = "bound_callback"
                  \/ s \in OnMembers /\ targets = MemberTargets(s.class, s.member, s.name) /\ f.rule = "injected_member"
  BY <1>1
<1>3. PICK t \in targets : f.from = <<s.class, s.method>> /\ f.to[1] = t.class /\ f.to[2] = t.name
  BY <1>2
<1> DEFINE member == IF f.rule = "injected_member" THEN s.member ELSE s.callback.member
           static == IF f.rule = "same_class" THEN s.class ELSE Class(s.class).members[member]
           name == CalledName(s, f.rule)
           objects == Receivers(s, f.rule)
<1>4. /\ s.class \in Classes
      /\ s.member # "this" => s.member \in DOMAIN Class(s.class).members
      /\ s.callback # NoCallback => s.callback.member \in DOMAIN Class(s.class).members
      /\ \A m \in DOMAIN Class(s.class).members : m # "this" /\ Class(s.class).members[m] \in Classes \cup {"none"}
  BY DEF CallsKnown, CodebaseIsTyped, Classes, Class, NoCallback
<1>5. objects \subseteq Classes
  BY DEF Receivers, Objects, ObjectsOfClass, Extending
<1>6. /\ static \in Classes \cup {"none"} /\ t \in Lookup(static, name)
      /\ f.rule = "injected_member" <=> s.member # "this"
      /\ \A o \in objects : Executed(s, static, o, name) \subseteq ExecutedAt(s)
  <2>1. CASE s \in OnThis /\ targets = LocalTargets(s) /\ f.rule = "same_class"
    <3>1. static = s.class /\ name = s.name /\ objects = ObjectsOfClass(s.class) /\ s.member = "this"
      BY <2>1 DEF CalledName, Receivers, OnThis
    <3>2. t \in Lookup(static, name)
      BY <2>1, <3>1, <1>3 DEF LocalTargets
    <3>3. \A o \in objects : Executed(s, static, o, name) \subseteq ExecutedAt(s)
      <4>1. OnItself(s) \subseteq ExecutedAt(s)
        BY <3>1 DEF ExecutedAt
      <4>2. \A o \in ObjectsOfClass(s.class) : Executed(s, s.class, o, s.name) \subseteq OnItself(s)
        BY DEF OnItself
      <4> QED
        BY <3>1, <4>1, <4>2
    <3> QED
      BY <1>4, <2>1, <3>1, <3>2, <3>3
  <2>2. CASE s \in OnThis /\ targets = Forwarded(s) /\ f.rule = "bound_callback"
    <3>1. /\ static = Class(s.class).members[s.callback.member] /\ name = s.callback.name
          /\ objects = Objects(s.class, s.callback.member) /\ s.member = "this"
      BY <2>2 DEF CalledName, Receivers, OnThis
    <3>2. Forwarded(s) # {}
      BY <1>3, <2>2
    <3>3. /\ s.callback # NoCallback /\ LocalTargets(s) # {} /\ Class(s.class).invokes[s.name] = "calls"
          /\ Forwarded(s) = MemberTargets(s.class, s.callback.member, s.callback.name)
      BY <3>2 DEF Forwarded
    <3>4. t \in Lookup(static, name)
      BY <1>3, <2>2, <3>1, <3>3 DEF MemberTargets
    <3>5. CallsBack(s)
      <4>1. PICK d \in Lookup(s.class, s.name) : d.class = s.class
        BY <3>3 DEF LocalTargets
      <4> QED
        BY <3>3, <4>1 DEF CallsBack
    <3>6. \A o \in objects : Executed(s, static, o, name) \subseteq ExecutedAt(s)
      <4>1. ByCallback(s) \subseteq ExecutedAt(s)
        BY <3>1, <3>5 DEF ExecutedAt
      <4>2. \A o \in Objects(s.class, s.callback.member) :
               Executed(s, Class(s.class).members[s.callback.member], o, s.callback.name) \subseteq ByCallback(s)
        BY DEF ByCallback
      <4> QED
        BY <3>1, <4>1, <4>2
    <3>7. static \in Classes \cup {"none"}
      BY <1>4, <3>1, <3>3
    <3> QED
      BY <2>2, <3>1, <3>4, <3>6, <3>7
  <2>3. CASE s \in OnMembers /\ targets = MemberTargets(s.class, s.member, s.name) /\ f.rule = "injected_member"
    <3>1. s.member # "this"
      BY <1>4, <2>3, ProvidedMembers DEF OnMembers, CallsKnown
    <3>2. static = Class(s.class).members[s.member] /\ name = s.name /\ objects = Objects(s.class, s.member)
      BY <2>3 DEF CalledName, Receivers
    <3>3. t \in Lookup(static, name)
      BY <1>3, <2>3, <3>2 DEF MemberTargets
    <3>4. \A o \in objects : Executed(s, static, o, name) \subseteq ExecutedAt(s)
      <4>1. OnMember(s) \subseteq ExecutedAt(s)
        BY <3>1 DEF ExecutedAt
      <4>2. \A o \in Objects(s.class, s.member) : Executed(s, Class(s.class).members[s.member], o, s.name) \subseteq OnMember(s)
        BY DEF OnMember
      <4> QED
        BY <3>2, <4>1, <4>2
    <3>5. static \in Classes \cup {"none"}
      BY <1>4, <3>1, <3>2
    <3> QED
      BY <2>3, <3>1, <3>3, <3>4, <3>5
  <2> QED
    BY <1>2, <2>1, <2>2, <2>3
<1>7. f.to[2] = name
  <2>1. t.name = name
    BY <1>6, LookupShape DEF CallsKnown
  <2> QED
    BY <1>3, <2>1
<1>8. CASE \A o \in objects : Lookup(o, name) = {}
  BY <1>1, <1>3, <1>6, <1>7, <1>8 DEF NoReceiver
<1>9. CASE ~\A o \in objects : Lookup(o, name) = {}
  <2>1. PICK o \in objects : Lookup(o, name) # {}
    BY <1>9
  <2>2. o \in Classes /\ Executed(s, static, o, name) \subseteq ExecutedAt(s)
    BY <1>5, <1>6, <2>1
  <2> HIDE DEF static, name, objects
  <2>3. \/ \E x \in ExecutedCalls : x.site = s /\ x.target = <<t.class, t.name>>
        \/ DeclaredWider(s.class, name)
    BY <1>1, <1>6, <2>1, <2>2, ObjectsMakeCalls
  <2> QED
    BY <1>3, <1>7, <2>3
<1> QED
  BY <1>8, <1>9

-----------------------------------------------------------------------------
CallsInv ==
    /\ CodebaseIsTyped(codebase)
    /\ step = "outbound" => callFacts = CallsFound

LEMMA CallsInvHolds == Spec => []CallsInv
<1>1. ASSUME ScanInit PROVE CallsInv
  <2>1. PICK family \in Repositories : \E r \in family : codebase = r.codebase
    BY <1>1 DEF ScanInit
  <2>2. CodebaseIsTyped(codebase)
    BY <2>1, RepositoriesAssumption
  <2> QED
    BY <1>1, <2>2 DEF CallsInv, ScanInit
<1>2. ASSUME CallsInv, [Next]_scanVars PROVE CallsInv'
  <2>1. codebase' = codebase
    BY <1>2
       DEF Next, scanVars, callVars, Signal, Load, Cancel, ModulesThrow, ModuleMetadata, Guards, AuthorizationMetadata,
           Controls, Locks, Relationships, ExtractCalls, HttpRequests, EagerRequests, ServiceRequests, Interaction,
           Events, JobQueues, Messages, Persistence, Flow, SameMethod, InterMethod, StartRawSql, RawSqlStep,
           RawSqlThrew, Assemble, Ended, Extract
  <2>2. CodebaseIsTyped(codebase)'
    BY <1>2, <2>1 DEF CallsInv
  <2>3. step' # "outbound" \/ Relationships \/ UNCHANGED <<step, callFacts>>
    BY <1>2
       DEF Next, scanVars, callVars, Signal, Load, Cancel, ModulesThrow, ModuleMetadata, Guards, AuthorizationMetadata,
           Controls, Locks, HttpRequests, EagerRequests, ServiceRequests, Interaction,
           Events, JobQueues, Messages, Persistence, Flow, SameMethod, InterMethod, StartRawSql, RawSqlStep,
           RawSqlThrew, Assemble, Ended, Extract, AfterAwaits
  <2>4. CASE step' # "outbound"
    BY <2>2, <2>4 DEF CallsInv
  <2>5. CASE Relationships
    <3>1. callFacts' = CallsFound
      BY <2>5 DEF Relationships, Extract, ExtractCalls, CallsFound
    <3> QED
      BY <2>1, <2>2, <3>1, SameCodebase DEF CallsInv
  <2>6. CASE UNCHANGED <<step, callFacts>>
    <3>1. CallsFound' = CallsFound
      BY <2>1, SameCodebase
    <3>2. (step = "outbound" => callFacts = CallsFound)'
      BY <1>2, <2>6, <3>1 DEF CallsInv
    <3> QED
      BY <2>2, <3>2 DEF CallsInv
  <2> QED
    BY <2>3, <2>4, <2>5, <2>6
<1> QED
  BY <1>1, <1>2, PTL DEF Spec

\* Every call a method may make on an injected member or on itself is
\* recorded, or has a diagnostic, up to the calls the extractor is known not
\* to see, and a call that is recorded is made in some execution
\* (extractClassRelationships).
THEOREM CallsHonest == Spec => []CallsAreHonest
<1>1. ASSUME CallsInv PROVE CallsAreHonest
  <2>1. SUFFICES ASSUME step = "outbound"
                 PROVE  /\ \A x \in ExecutedCalls : PublishedCall(x) \/ DiagnosedCall(x) \/ UnseenCall(x)
                        /\ \A f \in callFacts.calls :
                              \/ \E x \in ExecutedCalls :
                                    <<x.site.class, x.site.method>> = f.from /\ x.target = <<f.to[1], f.to[2]>>
                              \/ DeclaredWider(f.from[1], f.to[2]) \/ NoReceiver(f)
    BY DEF CallsAreHonest, CallsAreReal
  <2>2. CallsKnown
    BY <1>1, <2>1 DEF CallsInv, CallsKnown
  <2> QED
    BY <2>2, CallsAreAccountedFor, RecordedCallsAreMade
<1> QED
  BY <1>1, CallsInvHolds, PTL

-----------------------------------------------------------------------------
(***************************************************************************)
(* The callbacks under a lock: which parameters may reach a lock is a least *)
(* set, and the propagation covers it unless it reports something.         *)
(***************************************************************************)
\* A set that has 0, and with every number up to N the next, has them all.
LEMMA CountingFromZero ==
    ASSUME NEW N \in Nat, NEW T, 0 \in T, \A n \in 1..N : n - 1 \in T => n \in T
    PROVE  \A n \in 0..N : n \in T
<1> SUFFICES ASSUME (0..N) \ T # {} PROVE FALSE
  OBVIOUS
<1>1. PICK m \in (0..N) \ T : \A l \in (0..N) \ T : m <= l
  BY LeastNumber, (0..N) \ T \in SUBSET Nat
<1>2. m # 0 /\ m \in 1..N /\ m - 1 \in 0..N /\ ~(m <= m - 1)
  BY <1>1
<1>3. m - 1 \in T
  BY <1>1, <1>2
<1> QED
  BY <1>1, <1>2, <1>3

-----------------------------------------------------------------------------
(***************************************************************************)
(* Steps taken one after the other.                                        *)
(***************************************************************************)
LEMMA MaxIs ==
    ASSUME NEW S \in SUBSET Nat, NEW n \in S, \A m \in S : m <= n
    PROVE  Max(S) = n
<1>1. \A x \in S : (\A y \in S : x >= y) => x = n
  OBVIOUS
<1>2. n \in S /\ \A y \in S : n >= y
  OBVIOUS
<1> QED
  BY <1>1, <1>2 DEF Max

LEMMA MaxIsIn ==
    ASSUME NEW N \in Nat, NEW S \in SUBSET (1..N), S # {}
    PROVE  Max(S) \in S
<1> DEFINE T == {k \in 0..N : N - k \in S}
<1>1. T \in SUBSET Nat /\ T # {}
  <2>1. PICK x \in S : TRUE
    OBVIOUS
  <2>2. N - x \in 0..N /\ N - (N - x) = x
    OBVIOUS
  <2>3. N - x \in T
    BY <2>2
  <2>4. \A k \in T : k \in Nat
    OBVIOUS
  <2> HIDE DEF T
  <2> QED
    BY <2>3, <2>4
<1> HIDE DEF T
<1>2. PICK k \in T : \A l \in T : k <= l
  BY <1>1, LeastNumber
<1>3. k \in 0..N /\ N - k \in S
  BY DEF T
<1>4. \A m \in S : m <= N - k
  <2> TAKE m \in S
  <2>1. N - m \in 0..N /\ N - (N - m) = m /\ m \in 0..N
    OBVIOUS
  <2>2. N - m \in T
    BY <2>1 DEF T
  <2>3. k <= N - m
    BY <1>2, <2>2
  <2> QED
    BY <1>3, <2>1, <2>3
<1>5. S \in SUBSET Nat
  OBVIOUS
<1> QED
  BY <1>3, <1>4, <1>5, MaxIs

\* The steps up to n, folded over the sets of their numbers.
Folded(n, base, move, iter) ==
    \A S \in SUBSET (1..n) :
        iter[S] = IF S = {} THEN base ELSE move[Max(S)][iter[S \ {Max(S)}]]

\* The function by which FoldLeft is defined exists, if the steps stay in a set.
LEMMA FoldExists ==
    ASSUME NEW A, NEW base \in A, NEW N \in Nat, NEW move \in [1..N -> [A -> A]]
    PROVE  \E iter \in [SUBSET (1..N) -> A] : Folded(N, base, move, iter)
<1> DEFINE Folds(n, iter) == Folded(n, base, move, iter)
           T == {n \in 0..N : \E iter \in [SUBSET (1..n) -> A] : Folds(n, iter)}
<1>1. 0 \in T
  <2> DEFINE iter == [S \in SUBSET (1..0) |-> base]
  <2>1. iter \in [SUBSET (1..0) -> A]
    OBVIOUS
  <2>2. \A S \in SUBSET (1..0) : S = {}
    OBVIOUS
  <2>3. Folds(0, iter)
    BY <2>2 DEF Folded
  <2> HIDE DEF iter, Folds
  <2>4. \E h \in [SUBSET (1..0) -> A] : Folds(0, h)
    BY <2>1, <2>3
  <2> QED
    BY <2>4, 0 \in 0..N
<1>2. ASSUME NEW n \in 1..N, n - 1 \in T PROVE n \in T
  <2>1. PICK h \in [SUBSET (1..(n - 1)) -> A] : Folds(n - 1, h)
    BY <1>2
  <2> DEFINE g == [S \in SUBSET (1..n) |->
                        IF n \in S THEN move[n][h[S \ {n}]] ELSE h[S]]
  <2>2. \A S \in SUBSET (1..n) :
            /\ S \ {n} \in SUBSET (1..(n - 1))
            /\ n \notin S => S \in SUBSET (1..(n - 1))
    OBVIOUS
  <2>3. g \in [SUBSET (1..n) -> A]
    <3>1. \A S \in SUBSET (1..n) : h[S \ {n}] \in A /\ (n \notin S => h[S] \in A)
      BY <2>2
    <3>2. move[n] \in [A -> A]
      BY n \in 1..N
    <3> QED
      BY <3>1, <3>2
  <2>4. ASSUME NEW S \in SUBSET (1..n)
        PROVE  g[S] = IF S = {} THEN base ELSE move[Max(S)][g[S \ {Max(S)}]]
    <3>1. CASE n \in S
      <4>1. Max(S) = n
        <5>1. S \in SUBSET Nat /\ \A m \in S : m <= n
          BY <2>4
        <5> QED
          BY <3>1, <5>1, MaxIs
      <4>2. S \ {n} \in SUBSET (1..n) /\ n \notin S \ {n}
        OBVIOUS
      <4>3. g[S \ {n}] = h[S \ {n}]
        BY <4>2
      <4>4. g[S] = move[n][h[S \ {n}]]
        BY <3>1
      <4> HIDE DEF g
      <4> QED
        BY <3>1, <4>1, <4>3, <4>4
    <3>2. CASE n \notin S
      <4>1. S \in SUBSET (1..(n - 1)) /\ S \ {Max(S)} \in SUBSET (1..(n - 1))
        BY <2>2, <3>2
      <4>2. S \ {Max(S)} \in SUBSET (1..n) /\ n \notin S \ {Max(S)}
        BY <3>2
      <4>3. g[S] = h[S] /\ g[S \ {Max(S)}] = h[S \ {Max(S)}]
        BY <3>2, <4>2
      <4>4. h[S] = IF S = {} THEN base ELSE move[Max(S)][h[S \ {Max(S)}]]
        BY <2>1, <4>1 DEF Folded
      <4> HIDE DEF g
      <4> QED
        BY <4>3, <4>4
    <3> QED
      BY <3>1, <3>2
  <2> HIDE DEF g
  <2>5. Folds(n, g)
    BY <2>4 DEF Folded
  <2> HIDE DEF Folds
  <2> QED
    BY <2>3, <2>5
<1>3. N \in T
  <2> HIDE DEF T
  <2> QED
    BY <1>1, <1>2, CountingFromZero, N \in 0..N
<1> QED
  BY <1>3

\* The same as far as the steps are known.
FoldedWithin(n, A, base, move, iter) ==
    \A S \in SUBSET (1..n) :
        iter[S] = IF S = {} THEN base
                  ELSE IF iter[S \ {Max(S)}] \in A THEN move[Max(S)][iter[S \ {Max(S)}]]
                  ELSE iter[S]

\* The steps taken one after the other.
Taken(N, base, move, after) ==
    /\ after[0] = base
    /\ \A n \in 1..N : after[n] = move[n][after[n - 1]]

\* What such a function gives for the numbers up to n is what the first n
\* steps give, one after the other.
LEMMA FoldRuns ==
    ASSUME NEW A, NEW base \in A, NEW N \in Nat, NEW move \in [1..N -> [A -> A]],
           NEW iter, FoldedWithin(N, A, base, move, iter)
    PROVE  \E after \in [0..N -> A] : Taken(N, base, move, after) /\ after[N] = iter[1..N]
<1> DEFINE after == [n \in 0..N |-> iter[1..n]]
           T == {n \in 0..N : iter[1..n] \in A}
<1>0. FoldedWithin(N, A, base, move, iter)
  OBVIOUS
<1>1. iter[1..0] = base
  <2>1. 1..0 = {} /\ {} \in SUBSET (1..N)
    OBVIOUS
  <2> QED
    BY <1>0, <2>1 DEF FoldedWithin
<1>2. ASSUME NEW n \in 1..N, iter[1..(n - 1)] \in A
      PROVE  iter[1..n] = move[n][iter[1..(n - 1)]]
  <2>1. 1..n \in SUBSET (1..N) /\ 1..n # {} /\ (1..n) \ {n} = 1..(n - 1)
    <3>1. \A m \in 1..n : m \in 1..N /\ (m # n => m \in 1..(n - 1))
      OBVIOUS
    <3>2. \A m \in 1..(n - 1) : m \in 1..n /\ m # n
      OBVIOUS
    <3>3. n \in 1..n
      OBVIOUS
    <3> QED
      BY <3>1, <3>2, <3>3
  <2>2. Max(1..n) = n
    <3>1. n \in 1..n /\ 1..n \in SUBSET Nat /\ \A m \in 1..n : m <= n
      OBVIOUS
    <3> QED
      BY <3>1, MaxIs
  <2> QED
    BY <1>0, <1>2, <2>1, <2>2 DEF FoldedWithin
<1>3. 0 \in T
  BY <1>1
<1>4. ASSUME NEW n \in 1..N, n - 1 \in T PROVE n \in T
  <2>1. iter[1..(n - 1)] \in A
    BY <1>4
  <2>2. move[n] \in [A -> A]
    BY n \in 1..N
  <2>3. iter[1..n] \in A
    BY <1>2, <2>1, <2>2
  <2> QED
    BY <2>3
<1>5. \A n \in 0..N : n \in T
  <2> HIDE DEF T
  <2> QED
    BY <1>3, <1>4, CountingFromZero
<1>6. after \in [0..N -> A]
  BY <1>5
<1>7. ASSUME NEW n \in 1..N PROVE after[n] = move[n][after[n - 1]]
  <2>1. n \in 0..N /\ n - 1 \in 0..N
    OBVIOUS
  <2>2. iter[1..(n - 1)] \in A
    BY <1>5, <2>1
  <2>3. after[n] = iter[1..n] /\ after[n - 1] = iter[1..(n - 1)]
    BY <2>1
  <2> HIDE DEF after
  <2> QED
    BY <1>2, <2>2, <2>3
<1>8. after[0] = base /\ after[N] = iter[1..N]
  BY <1>1
<1> HIDE DEF after
<1> QED
  BY <1>6, <1>7, <1>8 DEF Taken

\* Steps can be taken one after the other.
LEMMA StepsRun ==
    ASSUME NEW A, NEW base \in A, NEW N \in Nat, NEW move \in [1..N -> [A -> A]]
    PROVE  \E after \in [0..N -> A] : Taken(N, base, move, after)
<1>1. PICK iter \in [SUBSET (1..N) -> A] : Folded(N, base, move, iter)
  BY FoldExists
<1>2. \A S \in SUBSET (1..N) : S \ {Max(S)} \in SUBSET (1..N) /\ iter[S \ {Max(S)}] \in A
  <2> TAKE S \in SUBSET (1..N)
  <2>1. S \ {Max(S)} \in SUBSET (1..N)
    OBVIOUS
  <2> QED
    BY <2>1
<1>3. FoldedWithin(N, A, base, move, iter)
  BY <1>1, <1>2 DEF Folded, FoldedWithin
<1> QED
  BY <1>3, FoldRuns

-----------------------------------------------------------------------------
(***************************************************************************)
(* Lists in the order of their keys.                                       *)
(***************************************************************************)
\* Sequences of numbers of one length are totally ordered.
LEMMA BeforeOrders ==
    ASSUME NEW N \in Nat, NEW s \in [1..N -> Int], NEW t \in [1..N -> Int], NEW u \in [1..N -> Int]
    PROVE  /\ ~Before(s, s)
           /\ Before(s, t) /\ Before(t, u) => Before(s, u)
           /\ s # t => Before(s, t) \/ Before(t, s)
<1>1. ~Before(s, s)
  BY DEF Before
<1>2. ASSUME Before(s, t), Before(t, u) PROVE Before(s, u)
  <2>1. PICK n \in 1..N : s[n] < t[n] /\ \A m \in 1..(n - 1) : s[m] = t[m]
    BY <1>2 DEF Before
  <2>2. PICK k \in 1..N : t[k] < u[k] /\ \A m \in 1..(k - 1) : t[m] = u[m]
    BY <1>2 DEF Before
  <2>3. CASE n <= k
    <3>1. s[n] < u[n]
      BY <2>1, <2>2, <2>3
    <3>2. \A m \in 1..(n - 1) : s[m] = u[m]
      BY <2>1, <2>2, <2>3
    <3> QED
      BY <3>1, <3>2 DEF Before
  <2>4. CASE k < n
    <3>1. s[k] < u[k]
      BY <2>1, <2>2, <2>4
    <3>2. \A m \in 1..(k - 1) : s[m] = u[m]
      BY <2>1, <2>2, <2>4
    <3> QED
      BY <3>1, <3>2 DEF Before
  <2> QED
    BY <2>3, <2>4
<1>3. ASSUME s # t PROVE Before(s, t) \/ Before(t, s)
  <2> DEFINE T == {n \in 1..N : s[n] # t[n]}
  <2>1. T \in SUBSET Nat /\ T # {}
    BY <1>3
  <2>2. PICK n \in T : \A m \in T : n <= m
    BY <2>1, LeastNumber
  <2>3. n \in 1..N /\ s[n] # t[n] /\ \A m \in 1..(n - 1) : s[m] = t[m]
    BY <2>2
  <2>4. CASE s[n] < t[n]
    BY <2>3, <2>4 DEF Before
  <2>5. CASE t[n] < s[n]
    BY <2>3, <2>5 DEF Before
  <2>6. s[n] \in Int /\ t[n] \in Int
    BY <2>3
  <2> QED
    BY <2>3, <2>4, <2>5, <2>6
<1> QED
  BY <1>1, <1>2, <1>3

Below(S, key, x) == {y \in S : Before(key[y], key[x])}

IsListOf(list, length) == list = [n \in 1..length |-> list[n]]

KeysOf(S, key) ==
    (\E N \in Nat : key \in [S -> [1..N -> Int]]) /\ \A x, y \in S : key[x] = key[y] => x = y

\* The element at n is the one that has n - 1 before it.
Placed(S, key, list) ==
    \A n \in 1..Cardinality(S) :
        (\E x \in S : Cardinality(Below(S, key, x)) = n - 1)
        => list[n] \in S /\ Cardinality(Below(S, key, list[n])) = n - 1

\* Each element has a place, and there are no others.
LEMMA Ordered ==
    ASSUME NEW S, IsFiniteSet(S), NEW key, KeysOf(S, key),
           NEW list, IsListOf(list, Cardinality(S)), Placed(S, key, list)
    PROVE  /\ list \in Seq(S) /\ Len(list) = Cardinality(S)
           /\ \A x \in S : \E n \in 1..Cardinality(S) : list[n] = x
<1> DEFINE C == Cardinality(S)
           below(x) == Below(S, key, x)
           rank == [x \in S |-> Cardinality(Below(S, key, x))]
<1>10. PICK N \in Nat : key \in [S -> [1..N -> Int]]
  BY DEF KeysOf
<1>11. \A x \in S : \A y \in S : key[x] = key[y] => x = y
  BY DEF KeysOf
<1>12. \A n \in 1..Cardinality(S) :
          (\E x \in S : Cardinality(Below(S, key, x)) = n - 1)
          => list[n] \in S /\ Cardinality(Below(S, key, list[n])) = n - 1
  BY DEF Placed
<1>0. /\ \A x \in S : ~Before(key[x], key[x])
      /\ \A x, y, z \in S : Before(key[x], key[y]) /\ Before(key[y], key[z]) => Before(key[x], key[z])
      /\ \A x, y \in S : key[x] # key[y] => Before(key[x], key[y]) \/ Before(key[y], key[x])
  <2>1. \A x \in S : key[x] \in [1..N -> Int]
    BY <1>10
  <2> QED
    BY <2>1, BeforeOrders
<1>1. C \in Nat
  BY FS_CardinalityType
<1>2. ASSUME NEW x \in S PROVE rank[x] \in 0..(C - 1)
  <2>1. x \notin below(x)
    BY <1>0 DEF Below
  <2>2. IsFiniteSet(S \ {x}) /\ Cardinality(S \ {x}) = C - 1
    BY FS_RemoveElement
  <2>3. below(x) \subseteq S \ {x}
    BY <2>1 DEF Below
  <2>4. IsFiniteSet(below(x)) /\ Cardinality(below(x)) <= C - 1
    BY <2>2, <2>3, FS_Subset
  <2>5. Cardinality(below(x)) \in Nat
    BY <2>4, FS_CardinalityType
  <2> QED
    BY <1>1, <2>4, <2>5
<1>3. ASSUME NEW x \in S, NEW y \in S, Before(key[x], key[y]) PROVE rank[x] < rank[y]
  <2>1. below(x) \subseteq below(y) /\ x \in below(y) /\ x \notin below(x)
    BY <1>0, <1>3 DEF Below
  <2>2. IsFiniteSet(below(y)) /\ IsFiniteSet(below(y) \ {x}) /\ Cardinality(below(y) \ {x}) = Cardinality(below(y)) - 1
    <3>1. IsFiniteSet(below(y))
      BY FS_Subset DEF Below
    <3> QED
      BY <2>1, <3>1, FS_RemoveElement
  <2>3. below(x) \subseteq below(y) \ {x}
    BY <2>1
  <2>4. Cardinality(below(x)) <= Cardinality(below(y) \ {x})
    BY <2>2, <2>3, FS_Subset
  <2>5. Cardinality(below(x)) \in Int /\ Cardinality(below(y)) \in Int
    BY <1>2
  <2>6. rank[x] = Cardinality(below(x)) /\ rank[y] = Cardinality(below(y))
    OBVIOUS
  <2> HIDE DEF below
  <2> QED
    BY <2>2, <2>4, <2>5, <2>6
<1>4. \A x \in S : \A y \in S : rank[x] = rank[y] => x = y
  <2> SUFFICES ASSUME NEW x \in S, NEW y \in S, x # y PROVE rank[x] # rank[y]
    OBVIOUS
  <2>1. key[x] # key[y]
    BY <1>11
  <2>2. Before(key[x], key[y]) \/ Before(key[y], key[x])
    BY <1>0, <2>1
  <2>3. rank[x] \in Int /\ rank[y] \in Int
    BY <1>2
  <2>4. rank[x] < rank[y] \/ rank[y] < rank[x]
    BY <1>3, <2>2
  <2> QED
    BY <2>3, <2>4
<1>5. \A k \in 0..(C - 1) : \E x \in S : rank[x] = k
  <2>1. rank \in [S -> 0..(C - 1)]
    BY <1>2
  <2>2. rank \in Injection(S, 0..(C - 1))
    BY <1>4, <2>1 DEF Injection, IsInjective
  <2>3. IsFiniteSet(0..(C - 1)) /\ Cardinality(0..(C - 1)) = C
    <3>1. ASSUME NEW k \in Nat PROVE IsFiniteSet(0..(k - 1)) /\ Cardinality(0..(k - 1)) = k
      <4>1. k - 1 \in Int /\ 0 \in Int
        OBVIOUS
      <4>2. /\ IsFiniteSet(0..(k - 1))
            /\ Cardinality(0..(k - 1)) = IF 0 > k - 1 THEN 0 ELSE (k - 1) - 0 + 1
        BY <4>1, FS_Interval
      <4> QED
        BY <4>2
    <3> QED
      BY <1>1, <3>1
  <2>4. rank \in Surjection(S, 0..(C - 1))
    BY <2>2, <2>3, FS_Injection
  <2> QED
    BY <2>4 DEF Surjection
<1>6. ASSUME NEW n \in 1..C PROVE list[n] \in S /\ rank[list[n]] = n - 1
  <2>1. n - 1 \in 0..(C - 1)
    BY <1>1
  <2>2. \E x \in S : rank[x] = n - 1
    BY <1>5, <2>1
  <2>3. \A x \in S : rank[x] = Cardinality(Below(S, key, x))
    OBVIOUS
  <2> QED
    BY <1>12, <2>2, <2>3
<1>7. ASSUME NEW x \in S PROVE \E n \in 1..C : list[n] = x
  <2>0. rank[x] \in 0..(C - 1)
    BY <1>2
  <2>1. rank[x] + 1 \in 1..C /\ (rank[x] + 1) - 1 = rank[x]
    BY <1>1, <2>0
  <2>2. list[rank[x] + 1] \in S /\ rank[list[rank[x] + 1]] = rank[x]
    BY <1>6, <2>1
  <2> QED
    BY <1>4, <2>1, <2>2
<1>8. list \in [1..C -> S]
  BY <1>6 DEF IsListOf
<1>9. list \in Seq(S) /\ Len(list) = C
  <2>1. \A k \in Nat : \A f \in [1..k -> S] : f \in Seq(S) /\ Len(f) = k
    OBVIOUS
  <2> QED
    BY <1>1, <1>8, <2>1
<1> QED
  BY <1>7, <1>9

-----------------------------------------------------------------------------
(***************************************************************************)
(* The first summaries.                                                    *)
(***************************************************************************)
AllSummaries == [method : Nat, parameter : Nat, terminal : Nat, flow : Seq(Nat \X Nat \X Nat)]

Seed(m, p, at) == [method |-> m, parameter |-> p, terminal |-> at, flow |-> <<<<m, p, 0>>>>]

LEMMA DirectAre ==
    ASSUME LockingIsTyped(locking)
    PROVE  /\ IsFiniteSet(DirectSummaries)
           /\ \A s \in DirectSummaries :
                 /\ s = Seed(s.method, s.parameter, s.terminal)
                 /\ s.method \in Nat /\ s.parameter \in Nat /\ s.terminal \in Nat
                 /\ <<s.method, s.parameter>> \in locking.callable
                 /\ s \in AllSummaries /\ DOMAIN s.flow = {1} /\ s.flow[1][3] = 0
<1> DEFINE L == {u \in Terminals : u.inline}
           P(u) == {p \in u.invokes : <<u.method, p>> \in locking.callable}
           F(u) == {Seed(u.method, p, u.at) : p \in P(u)}
           f == [u \in L |-> F(u)]
<1>1. \A u \in L : u \in locking.usings /\ u.at \in Nat /\ u.method \in Nat /\ IsFiniteSet(u.invokes)
  BY DEF LockingIsTyped, Terminals
<1>2. DirectSummaries = UNION {F(u) : u \in L}
  BY DEF DirectSummaries, Seed
<1>3. IsFiniteSet(L)
  <2>1. L \subseteq locking.usings
    BY DEF Terminals
  <2> QED
    BY <2>1, FS_Subset DEF LockingIsTyped
<1>4. ASSUME NEW u \in L PROVE IsFiniteSet(F(u))
  <2> DEFINE g == [p \in P(u) |-> Seed(u.method, p, u.at)]
  <2>1. IsFiniteSet(P(u))
    BY <1>1, FS_Subset
  <2>2. F(u) = {g[p] : p \in P(u)}
    OBVIOUS
  <2> HIDE DEF F, g, P
  <2> QED
    BY <2>1, <2>2, FiniteImage
<1>5. IsFiniteSet(DirectSummaries)
  <2>1. {F(u) : u \in L} = {f[u] : u \in L}
    OBVIOUS
  <2> HIDE DEF F, L
  <2>2. IsFiniteSet({f[u] : u \in L})
    <3> HIDE DEF f
    <3> QED
      BY <1>3, FiniteImage
  <2>3. \A T \in {F(u) : u \in L} : IsFiniteSet(T)
    BY <1>4
  <2> QED
    BY <1>2, <2>1, <2>2, <2>3, FS_UNION
<1>6. ASSUME NEW s \in DirectSummaries
      PROVE  /\ s = Seed(s.method, s.parameter, s.terminal)
             /\ s.method \in Nat /\ s.parameter \in Nat /\ s.terminal \in Nat
             /\ <<s.method, s.parameter>> \in locking.callable
             /\ s \in AllSummaries /\ DOMAIN s.flow = {1} /\ s.flow[1][3] = 0
  <2>0. PICK u \in L : \E p \in P(u) : s = Seed(u.method, p, u.at)
    BY <1>2
  <2>1. PICK p \in P(u) : s = Seed(u.method, p, u.at)
    BY <2>0
  <2>2. s.method = u.method /\ s.parameter = p /\ s.terminal = u.at /\ s.flow = <<<<u.method, p, 0>>>>
    BY <2>1 DEF Seed
  <2>3. <<u.method, p>> \in locking.callable /\ p \in Nat
    BY DEF LockingIsTyped
  <2>4. u.method \in Nat /\ u.at \in Nat
    BY <1>1
  <2>5. <<<<u.method, p, 0>>>> \in Seq(Nat \X Nat \X Nat)
    BY <2>3, <2>4
  <2>6. s \in AllSummaries
    BY <2>1, <2>3, <2>4, <2>5 DEF AllSummaries, Seed
  <2> QED
    BY <2>1, <2>2, <2>3, <2>4, <2>6
<1> QED
  BY <1>5, <1>6

LEMMA SeedKeys ==
    ASSUME LockingIsTyped(locking)
    PROVE  \E key \in [DirectSummaries -> [1..3 -> Int]] :
               /\ \A x, y \in DirectSummaries : key[x] = key[y] => x = y
               /\ \A x, y \in DirectSummaries : SeedOrder(y, x) <=> Before(key[y], key[x])
<1> DEFINE S == DirectSummaries
           key == [s \in S |-> <<s.method, s.terminal, s.parameter>>]
<1>1. \A s \in S : s.method \in Nat /\ s.terminal \in Nat /\ s.parameter \in Nat
  BY DirectAre
<1>2. key \in [S -> [1..3 -> Int]]
  <2>1. \A a, b, c \in Nat : <<a, b, c>> \in [1..3 -> Int]
    OBVIOUS
  <2> HIDE DEF S
  <2> QED
    BY <1>1, <2>1
<1>3. \A x, y \in S : key[x] = key[y] => x = y
  <2> SUFFICES ASSUME NEW x \in S, NEW y \in S, key[x] = key[y] PROVE x = y
    OBVIOUS
  <2>1. x = Seed(x.method, x.parameter, x.terminal) /\ y = Seed(y.method, y.parameter, y.terminal)
    BY DirectAre
  <2>2. x.method = y.method /\ x.terminal = y.terminal /\ x.parameter = y.parameter
    OBVIOUS
  <2> QED
    BY <2>1, <2>2
<1>4. \A x, y \in S : SeedOrder(y, x) <=> Before(key[y], key[x])
  <2> HIDE DEF S
  <2> QED
    BY DEF SeedOrder
<1> HIDE DEF key
<1> QED
  BY <1>2, <1>3, <1>4

LEMMA FoundAre ==
    ASSUME LockingIsTyped(locking), NEW found, IsListOf(found, Cardinality(DirectSummaries)),
           \A n \in 1..Cardinality(DirectSummaries) :
               found[n] = CHOOSE x \in DirectSummaries : Cardinality({y \in DirectSummaries : SeedOrder(y, x)}) = n - 1
    PROVE  /\ found \in Seq(DirectSummaries)
           /\ \A s \in DirectSummaries : \E n \in 1..Len(found) : found[n] = s
<1> DEFINE S == DirectSummaries
<1>1. PICK key \in [S -> [1..3 -> Int]] :
          /\ \A x, y \in S : key[x] = key[y] => x = y
          /\ \A x, y \in S : SeedOrder(y, x) <=> Before(key[y], key[x])
  BY SeedKeys
<1>2. ASSUME NEW x \in S PROVE {y \in S : SeedOrder(y, x)} = Below(S, key, x)
  BY <1>1 DEF Below
<1>3. ASSUME NEW n \in 1..Cardinality(S), NEW x \in S, Cardinality(Below(S, key, x)) = n - 1
      PROVE  found[n] \in S /\ Cardinality(Below(S, key, found[n])) = n - 1
  <2> DEFINE Is(z) == Cardinality({y \in S : SeedOrder(y, z)}) = n - 1
  <2>1. \A z \in S : Is(z) <=> Cardinality(Below(S, key, z)) = n - 1
    BY <1>2
  <2>2. found[n] = CHOOSE z \in S : Is(z)
    OBVIOUS
  <2> HIDE DEF Is, S
  <2>3. found[n] \in S /\ Is(found[n])
    BY <1>3, <2>1, <2>2
  <2> QED
    BY <2>1, <2>3
<1>4. IsFiniteSet(S)
  BY DirectAre
<1>5. IsListOf(found, Cardinality(S))
  OBVIOUS
<1> HIDE DEF S
<1>6. /\ found \in Seq(S) /\ Len(found) = Cardinality(S)
      /\ \A x \in S : \E n \in 1..Cardinality(S) : found[n] = x
  <2>1. KeysOf(S, key)
    BY <1>1, 3 \in Nat DEF KeysOf
  <2>2. Placed(S, key, found)
    BY <1>3 DEF Placed
  <2> QED
    BY <1>4, <1>5, <2>1, <2>2, Ordered
<1>7. /\ found \in Seq(S)
      /\ \A s \in S : \E n \in 1..Len(found) : found[n] = s
  BY <1>6
<1> QED
  BY <1>7 DEF S

-----------------------------------------------------------------------------
(***************************************************************************)
(* The forwarding edges and the arguments.                                 *)
(***************************************************************************)
LEMMA FiniteUnion ==
    ASSUME NEW S, IsFiniteSet(S), NEW f, \A x \in S : IsFiniteSet(f[x])
    PROVE  IsFiniteSet(UNION {f[x] : x \in S})
<1> DEFINE T == {f[x] : x \in S}
<1>1. IsFiniteSet(T)
  BY FiniteImage
<1>2. \A X \in T : IsFiniteSet(X)
  OBVIOUS
<1> HIDE DEF T
<1>3. IsFiniteSet(UNION T)
  BY <1>1, <1>2, FS_UNION
<1> QED
  BY <1>3 DEF T

\* The call that an edge is made of.
EdgeOf(e, c) ==
    /\ c \in VisibleCalls /\ ~c.optional /\ ~c.spread
    /\ c.at = e.call /\ c.method = e.method
    /\ Target(c) = e.target /\ e.target # 0 /\ c.candidates = {e.target}
    /\ e.position \in DOMAIN c.arguments /\ c.arguments[e.position] = e.parameter

LEMMA CallTargetIs ==
    ASSUME LockingIsTyped(locking), NEW c \in locking.calls
    PROVE  /\ c.at \in Nat \ {0} /\ c.method \in Nat \ {0} /\ IsFiniteSet(c.candidates)
           /\ Target(c) # 0 <=> ~c.optional /\ Cardinality(c.candidates) = 1
           /\ Target(c) # 0 => c.candidates = {Target(c)}
           /\ \A m \in c.candidates : ~c.optional /\ Cardinality(c.candidates) = 1 => Target(c) = m
<1>1. c.at \in Nat \ {0} /\ c.method \in Nat \ {0} /\ IsFiniteSet(c.candidates) /\ c.candidates \subseteq Nat \ {0}
  BY DEF LockingIsTyped
<1>2. ASSUME ~c.optional, Cardinality(c.candidates) = 1
      PROVE  Target(c) # 0 /\ c.candidates = {Target(c)}
  <2>1. PICK m : c.candidates = {m}
    BY <1>1, <1>2, FS_Singleton
  <2>2. Target(c) = CHOOSE x \in c.candidates : TRUE
    BY <1>2 DEF Target
  <2>3. Target(c) = m
    BY <2>1, <2>2
  <2> QED
    BY <1>1, <2>1, <2>3
<1>3. Target(c) # 0 => ~c.optional /\ Cardinality(c.candidates) = 1
  BY DEF Target
<1> QED
  BY <1>1, <1>2, <1>3

LEMMA EdgesAre ==
    ASSUME LockingIsTyped(locking)
    PROVE  /\ IsFiniteSet(ForwardingEdges)
           /\ \A e \in ForwardingEdges :
                 /\ e = [method |-> e.method, parameter |-> e.parameter, call |-> e.call,
                         target |-> e.target, position |-> e.position]
                 /\ {e.method, e.parameter, e.call, e.target, e.position} \subseteq Nat \ {0}
                 /\ {<<e.method, e.parameter>>, <<e.target, e.position>>} \subseteq locking.callable
                 /\ \E c \in locking.calls : EdgeOf(e, c)
           /\ \A c \in VisibleCalls : \A i \in DOMAIN c.arguments :
                 /\ Target(c) # 0 /\ ~c.spread
                 /\ <<c.method, c.arguments[i]>> \in locking.callable /\ <<Target(c), i>> \in locking.callable
                 => \E e \in ForwardingEdges :
                        e.method = c.method /\ e.parameter = c.arguments[i] /\ e.call = c.at
                        /\ e.target = Target(c) /\ e.position = i
<1> DEFINE L == {c \in VisibleCalls : Target(c) # 0 /\ ~c.spread}
           D(c) == {i \in DOMAIN c.arguments : /\ <<c.method, c.arguments[i]>> \in locking.callable
                                               /\ <<Target(c), i>> \in locking.callable}
           E(c, i) == [method |-> c.method, parameter |-> c.arguments[i], call |-> c.at, target |-> Target(c), position |-> i]
           F(c) == {E(c, i) : i \in D(c)}
           f == [c \in L |-> F(c)]
<1>1. ForwardingEdges = UNION {F(c) : c \in L}
  BY DEF ForwardingEdges
<1>2. \A c \in VisibleCalls : c \in locking.calls
  BY DEF VisibleCalls
<1>3. IsFiniteSet(L)
  <2>1. L \subseteq locking.calls
    BY <1>2
  <2> QED
    BY <2>1, FS_Subset DEF LockingIsTyped
<1>4. ASSUME NEW c \in L PROVE IsFiniteSet(F(c))
  <2> DEFINE g == [i \in D(c) |-> E(c, i)]
  <2>1. c.arguments \in Seq(Int)
    BY <1>2 DEF LockingIsTyped
  <2>2. D(c) \subseteq 1..Len(c.arguments) /\ Len(c.arguments) \in Nat
    BY <2>1
  <2>3. IsFiniteSet(1..Len(c.arguments))
    <3>1. 1 \in Int /\ Len(c.arguments) \in Int
      BY <2>2
    <3> QED
      BY <3>1, FS_Interval
  <2>4. IsFiniteSet(D(c))
    BY <2>2, <2>3, FS_Subset
  <2>5. F(c) = {g[i] : i \in D(c)}
    OBVIOUS
  <2> HIDE DEF F, g, D
  <2> QED
    BY <2>4, <2>5, FiniteImage
<1>5. IsFiniteSet(ForwardingEdges)
  <2>1. {F(c) : c \in L} = {f[c] : c \in L} /\ \A c \in L : f[c] = F(c)
    OBVIOUS
  <2> HIDE DEF F, L, f
  <2>2. \A c \in L : IsFiniteSet(f[c])
    BY <1>4, <2>1
  <2> QED
    BY <1>1, <1>3, <2>1, <2>2, FiniteUnion
<1>6. ASSUME NEW e \in ForwardingEdges
      PROVE  /\ e = [method |-> e.method, parameter |-> e.parameter, call |-> e.call,
                     target |-> e.target, position |-> e.position]
             /\ {e.method, e.parameter, e.call, e.target, e.position} \subseteq Nat \ {0}
             /\ {<<e.method, e.parameter>>, <<e.target, e.position>>} \subseteq locking.callable
             /\ \E c \in locking.calls : EdgeOf(e, c)
  <2>1. PICK c \in L : \E i \in D(c) : e = E(c, i)
    BY <1>1
  <2>2. PICK i \in D(c) : e = E(c, i)
    BY <2>1
  <2>3. e.method = c.method /\ e.parameter = c.arguments[i] /\ e.call = c.at /\ e.target = Target(c) /\ e.position = i
    BY <2>2
  <2>4. c \in locking.calls /\ c \in VisibleCalls /\ Target(c) # 0 /\ ~c.spread
    BY <1>2
  <2>5. i \in DOMAIN c.arguments /\ <<c.method, c.arguments[i]>> \in locking.callable /\ <<Target(c), i>> \in locking.callable
    OBVIOUS
  <2> HIDE DEF L, D, E
  <2>6. c.method \in Nat \ {0} /\ c.arguments[i] \in Nat \ {0} /\ Target(c) \in Nat \ {0} /\ i \in Nat \ {0}
    BY <2>5 DEF LockingIsTyped
  <2>7. c.at \in Nat \ {0} /\ ~c.optional /\ c.candidates = {Target(c)}
    BY <2>4, CallTargetIs
  <2>8. EdgeOf(e, c)
    BY <2>3, <2>4, <2>5, <2>7 DEF EdgeOf
  <2>9. e = [method |-> e.method, parameter |-> e.parameter, call |-> e.call, target |-> e.target, position |-> e.position]
    BY <2>2 DEF E
  <2> QED
    BY <2>3, <2>4, <2>5, <2>6, <2>7, <2>8, <2>9
<1>7. ASSUME NEW c \in VisibleCalls, NEW i \in DOMAIN c.arguments, Target(c) # 0, ~c.spread,
             <<c.method, c.arguments[i]>> \in locking.callable, <<Target(c), i>> \in locking.callable
      PROVE  \E e \in ForwardingEdges :
                 e.method = c.method /\ e.parameter = c.arguments[i] /\ e.call = c.at
                 /\ e.target = Target(c) /\ e.position = i
  <2>1. c \in L /\ i \in D(c)
    BY <1>7
  <2>2. E(c, i) \in F(c)
    BY <2>1
  <2>3. E(c, i) \in ForwardingEdges
    BY <1>1, <2>1, <2>2
  <2> QED
    BY <2>3
<1> QED
  BY <1>5, <1>6, <1>7

LEMMA PassedAre ==
    ASSUME LockingIsTyped(locking)
    PROVE  /\ IsFiniteSet(PassedArguments)
           /\ \A h \in PassedArguments : h[1] \in locking.calls /\ h[2] \in DOMAIN h[1].arguments
           /\ \A c \in locking.calls : \A i \in DOMAIN c.arguments : <<c, i>> \in PassedArguments
<1> DEFINE F(c) == {<<c, i>> : i \in DOMAIN c.arguments}
           f == [c \in locking.calls |-> F(c)]
<1>1. PassedArguments = UNION {F(c) : c \in locking.calls}
  BY DEF PassedArguments
<1>2. ASSUME NEW c \in locking.calls PROVE IsFiniteSet(F(c))
  <2> DEFINE g == [i \in DOMAIN c.arguments |-> <<c, i>>]
  <2>1. c.arguments \in Seq(Int)
    BY DEF LockingIsTyped
  <2>2. DOMAIN c.arguments = 1..Len(c.arguments) /\ Len(c.arguments) \in Int /\ 1 \in Int
    BY <2>1
  <2>3. IsFiniteSet(DOMAIN c.arguments)
    BY <2>2, FS_Interval
  <2>4. F(c) = {g[i] : i \in DOMAIN c.arguments}
    OBVIOUS
  <2> HIDE DEF F, g
  <2> QED
    BY <2>3, <2>4, FiniteImage
<1>3. IsFiniteSet(PassedArguments)
  <2>1. {F(c) : c \in locking.calls} = {f[c] : c \in locking.calls} /\ \A c \in locking.calls : f[c] = F(c)
    OBVIOUS
  <2>2. IsFiniteSet(locking.calls)
    BY DEF LockingIsTyped
  <2> HIDE DEF F, f
  <2>3. \A c \in locking.calls : IsFiniteSet(f[c])
    BY <1>2, <2>1
  <2> QED
    BY <1>1, <2>1, <2>2, <2>3, FiniteUnion
<1> QED
  BY <1>1, <1>3

-----------------------------------------------------------------------------
(***************************************************************************)
(* The parameters that may reach a lock.                                   *)
(***************************************************************************)
DirectPairs == {<<s.method, s.parameter>> : s \in DirectSummaries}

Wider(pairs) ==
    pairs \cup {<<h[1].method, h[1].arguments[h[2]]>> : h \in {h \in Handing(pairs) : h[1].arguments[h[2]] > 0}}

AllPairs == Nat \X Nat

LEMMA WiderIs ==
    ASSUME LockingIsTyped(locking)
    PROVE  /\ \A pairs \in SUBSET AllPairs : Wider(pairs) \in SUBSET AllPairs
           /\ DirectPairs \in SUBSET AllPairs
<1>1. ASSUME NEW pairs \in SUBSET AllPairs PROVE Wider(pairs) \in SUBSET AllPairs
  <2>1. ASSUME NEW h \in Handing(pairs), h[1].arguments[h[2]] > 0
        PROVE  <<h[1].method, h[1].arguments[h[2]]>> \in AllPairs
    <3>1. h \in PassedArguments
      BY DEF Handing
    <3>2. h[1] \in locking.calls /\ h[2] \in DOMAIN h[1].arguments
      BY <3>1, PassedAre
    <3>3. h[1].method \in Nat /\ h[1].arguments \in Seq(Int)
      BY <3>2 DEF LockingIsTyped
    <3>4. h[1].arguments[h[2]] \in Int
      BY <3>2, <3>3
    <3> QED
      BY <2>1, <3>3, <3>4 DEF AllPairs
  <2> QED
    BY <2>1 DEF Wider
<1>2. DirectPairs \in SUBSET AllPairs
  BY DirectAre DEF DirectPairs, AllPairs
<1> QED
  BY <1>1, <1>2

LEMMA LockedIs ==
    ASSUME LockingIsTyped(locking), NEW N, N = Cardinality(PassedArguments)
    PROVE  \E locked \in [0..N -> SUBSET AllPairs] :
               /\ locked[0] = DirectPairs
               /\ \A n \in 1..N : locked[n] = Wider(locked[n - 1])
               /\ LockedParameters = locked[N]
<1> DEFINE A == SUBSET AllPairs
           move == [n \in 1..N |-> [pairs \in A |-> Wider(pairs)]]
           Is(f) == f = [n \in 0..N |-> IF n = 0 THEN DirectPairs ELSE Wider(f[n - 1])]
<1>1. N \in Nat
  <2>1. IsFiniteSet(PassedArguments)
    BY PassedAre
  <2> QED
    BY <2>1, FS_CardinalityType
<1>2. LockedParameters = (CHOOSE f : Is(f))[N]
  BY DEF LockedParameters, DirectPairs, Wider
<1>3. DirectPairs \in A /\ \A pairs \in A : Wider(pairs) \in A
  BY WiderIs
<1> HIDE DEF A
<1>4. move \in [1..N -> [A -> A]] /\ \A n \in 1..N : \A pairs \in A : move[n][pairs] = Wider(pairs)
  BY <1>3
<1> HIDE DEF move
<1>5. PICK after \in [0..N -> A] : Taken(N, DirectPairs, move, after)
  BY <1>1, <1>3, <1>4, StepsRun
<1>6. /\ after[0] = DirectPairs
      /\ \A n \in 1..N : after[n] = Wider(after[n - 1])
  <2>1. \A n \in 1..N : n - 1 \in 0..N
    BY <1>1
  <2> QED
    BY <1>4, <1>5, <2>1 DEF Taken
<1>7. Is(after)
  <2>1. \A n \in 0..N : after[n] = IF n = 0 THEN DirectPairs ELSE Wider(after[n - 1])
    BY <1>1, <1>6
  <2> QED
    BY <1>5, <2>1
<1> DEFINE locked == CHOOSE f : Is(f)
<1>8. Is(locked)
  BY <1>7
<1>9. ASSUME NEW f, Is(f)
      PROVE  f[0] = DirectPairs /\ \A n \in 1..N : f[n] = Wider(f[n - 1])
  <2>1. 0 \in 0..N /\ \A n \in 1..N : n \in 0..N /\ n # 0
    BY <1>1
  <2> QED
    BY <1>9, <2>1
<1>10. \A f : Is(f) => DOMAIN f = 0..N /\ f = [n \in 0..N |-> f[n]]
  OBVIOUS
<1> HIDE DEF Is
<1>11. /\ locked[0] = DirectPairs
       /\ \A n \in 1..N : locked[n] = Wider(locked[n - 1])
       /\ locked = [n \in 0..N |-> locked[n]]
  BY <1>8, <1>9, <1>10
<1>12. locked[N] = LockedParameters
  BY <1>2
<1> HIDE DEF locked
<1> DEFINE T == {n \in 0..N : locked[n] \in A}
<1>13. 0 \in T
  BY <1>1, <1>3, <1>11
<1>14. \A n \in 1..N : n - 1 \in T => n \in T
  <2>1. \A n \in 1..N : n \in 0..N
    BY <1>1
  <2> QED
    BY <1>3, <1>11, <2>1
<1>15. \A n \in 0..N : n \in T
  <2> HIDE DEF T
  <2> QED
    BY <1>1, <1>13, <1>14, CountingFromZero
<1>16. locked \in [0..N -> A]
  BY <1>11, <1>15
<1> QED
  BY <1>11, <1>12, <1>16 DEF A

\* They are the least set that is closed under handing on.
LEMMA LockedAre ==
    ASSUME LockingIsTyped(locking)
    PROVE  /\ LockedParameters \in SUBSET AllPairs
           /\ DirectPairs \subseteq LockedParameters
           /\ Wider(LockedParameters) = LockedParameters
           /\ \A pairs \in SUBSET AllPairs :
                 DirectPairs \subseteq pairs /\ (\A known \in SUBSET pairs : Wider(known) \subseteq pairs)
                 => LockedParameters \subseteq pairs
<1> DEFINE N == Cardinality(PassedArguments)
           Image == {<<h[1].method, h[1].arguments[h[2]]>> : h \in PassedArguments}
<1>1. N \in Nat /\ IsFiniteSet(PassedArguments)
  <2>1. IsFiniteSet(PassedArguments)
    BY PassedAre
  <2> QED
    BY <2>1, FS_CardinalityType
<1>2. IsFiniteSet(Image) /\ Cardinality(Image) <= N /\ Cardinality(Image) \in Nat
  <2> DEFINE g == [h \in PassedArguments |-> <<h[1].method, h[1].arguments[h[2]]>>]
  <2>1. g \in Surjection(PassedArguments, Image)
    BY DEF Surjection
  <2> HIDE DEF g, Image
  <2> QED
    BY <1>1, <2>1, FS_Surjection, FS_CardinalityType
<1>3. PICK locked \in [0..N -> SUBSET AllPairs] :
          /\ locked[0] = DirectPairs
          /\ \A n \in 1..N : locked[n] = Wider(locked[n - 1])
          /\ LockedParameters = locked[N]
  BY LockedIs
<1>4. \A pairs : pairs \subseteq Wider(pairs) /\ Wider(pairs) \subseteq pairs \cup Image
  BY DEF Wider, Handing
<1> HIDE DEF N, Image
<1> DEFINE D == DirectPairs
           T == {n \in 0..N : D \subseteq locked[n] /\ locked[n] \ D \subseteq Image}
<1>5. \A n \in 0..N : n \in T
  <2>1. 0 \in T
    BY <1>1, <1>3
  <2>2. ASSUME NEW n \in 1..N, n - 1 \in T PROVE n \in T
    <3>1. locked[n] = Wider(locked[n - 1]) /\ n \in 0..N
      BY <1>1, <1>3
    <3> QED
      BY <1>4, <2>2, <3>1
  <2> HIDE DEF T
  <2> QED
    BY <1>1, <2>1, <2>2, CountingFromZero
<1>6. \A n \in 0..N : D \subseteq locked[n] /\ locked[n] \ D \subseteq Image
  BY <1>5
<1> DEFINE U == {n \in 0..N : Wider(locked[n]) = locked[n] \/ Cardinality(locked[n] \ D) >= n}
<1>7. \A n \in 0..N : n \in U
  <2>1. 0 \in U
    <3>1. 0 \in 0..N /\ IsFiniteSet(locked[0] \ D)
      BY <1>1, <1>2, <1>6, FS_Subset
    <3>2. Cardinality(locked[0] \ D) \in Nat
      BY <3>1, FS_CardinalityType
    <3> QED
      BY <3>1, <3>2
  <2>2. ASSUME NEW n \in 1..N, n - 1 \in U PROVE n \in U
    <3>1. locked[n] = Wider(locked[n - 1]) /\ n \in 0..N /\ n - 1 \in 0..N
      BY <1>1, <1>3
    <3>2. CASE Wider(locked[n - 1]) = locked[n - 1]
      BY <3>1, <3>2
    <3>3. CASE Wider(locked[n - 1]) # locked[n - 1]
      <4> DEFINE a == locked[n - 1] \ D
                 b == locked[n] \ D
      <4>1. a \subseteq b /\ a # b
        <5>1. locked[n - 1] \subseteq locked[n] /\ locked[n] # locked[n - 1]
          BY <1>4, <3>1, <3>3
        <5>2. PICK x : x \in locked[n] /\ x \notin locked[n - 1]
          BY <5>1
        <5>3. x \notin D
          BY <1>6, <3>1, <5>2
        <5> QED
          BY <5>1, <5>2, <5>3
      <4>2. IsFiniteSet(b) /\ IsFiniteSet(a)
        BY <1>2, <1>6, <3>1, FS_Subset
      <4>3. Cardinality(a) >= n - 1
        BY <2>2, <3>3
      <4>4. Cardinality(a) \in Nat /\ Cardinality(b) \in Nat
        BY <4>2, FS_CardinalityType
      <4> HIDE DEF a, b
      <4>5. Cardinality(a) <= Cardinality(b) /\ Cardinality(a) # Cardinality(b)
        BY <4>1, <4>2, FS_Subset
      <4>6. Cardinality(b) >= n
        BY <4>3, <4>4, <4>5
      <4> QED
        BY <3>1, <4>6 DEF b
    <3> QED
      BY <3>2, <3>3
  <2> HIDE DEF U
  <2> QED
    BY <1>1, <2>1, <2>2, CountingFromZero
<1>8. N \in 0..N
  BY <1>1
<1>9. Wider(locked[N]) = locked[N]
  <2>1. CASE Cardinality(locked[N] \ D) >= N
    <3>1. locked[N] \ D \subseteq Image
      BY <1>6, <1>8
    <3> DEFINE b == locked[N] \ D
    <3>2. Cardinality(b) \in Nat /\ Cardinality(b) >= N /\ Cardinality(b) <= Cardinality(Image)
      BY <1>2, <2>1, <3>1, FS_Subset, FS_CardinalityType
    <3>3. Cardinality(b) = Cardinality(Image)
      BY <1>1, <1>2, <3>2
    <3> HIDE DEF b
    <3>4. b = Image
      BY <1>2, <3>1, <3>3, FS_Subset DEF b
    <3>5. Image \subseteq locked[N]
      BY <3>4 DEF b
    <3> QED
      BY <1>4, <3>5
  <2> QED
    BY <1>7, <1>8, <2>1
<1>10. ASSUME NEW pairs \in SUBSET AllPairs, D \subseteq pairs, \A known \in SUBSET pairs : Wider(known) \subseteq pairs
       PROVE  LockedParameters \subseteq pairs
  <2> DEFINE V == {n \in 0..N : locked[n] \subseteq pairs}
  <2>1. 0 \in V
    BY <1>1, <1>3, <1>10
  <2>2. ASSUME NEW n \in 1..N, n - 1 \in V PROVE n \in V
    <3>1. locked[n] = Wider(locked[n - 1]) /\ n \in 0..N
      BY <1>1, <1>3
    <3>2. locked[n - 1] \in SUBSET pairs
      BY <2>2
    <3>3. Wider(locked[n - 1]) \subseteq pairs
      BY <1>10, <3>2
    <3> QED
      BY <3>1, <3>3
  <2>3. \A n \in 0..N : n \in V
    <3> HIDE DEF V
    <3> QED
      BY <1>1, <2>1, <2>2, CountingFromZero
  <2> QED
    BY <1>3, <1>8, <2>3
<1>11. LockedParameters \in SUBSET AllPairs
  BY <1>3, <1>8
<1> QED
  BY <1>3, <1>6, <1>8, <1>9, <1>10, <1>11

-----------------------------------------------------------------------------
(***************************************************************************)
(* The pairs of an edge and a summary.                                     *)
(***************************************************************************)
Keys(known) == {Key(s) : s \in known}

\* The summaries that are kept.
GoodSummaries(known) ==
    /\ IsFiniteSet(known) /\ known \subseteq AllSummaries
    /\ \A s, t \in known : Key(s) = Key(t) => s = t
    /\ \A s \in known :
          /\ <<s.method, s.parameter>> \in locking.callable \cap LockedParameters
          /\ \A n \in DOMAIN s.flow : s.flow[n][3] = 0 \/ \E e \in ForwardingEdges : e.call = s.flow[n][3]

Meets(edge, summary) == summary.method = edge.target /\ summary.parameter = edge.position

Matching(known) == {pair \in ForwardingEdges \X known : Meets(pair[1], pair[2])}

PairOrder(p, q) ==
    Before(<<p[1].method, p[1].parameter, p[1].call, p[1].position, p[2].terminal>>,
           <<q[1].method, q[1].parameter, q[1].call, q[1].position, q[2].terminal>>)

LEMMA PairKeys ==
    ASSUME LockingIsTyped(locking), NEW known, GoodSummaries(known), NEW S, S = Matching(known)
    PROVE  /\ IsFiniteSet(S)
           /\ \E key :
                 /\ KeysOf(S, key)
                 /\ \A x, y \in S : PairOrder(y, x) <=> Before(key[y], key[x])
<1> DEFINE key == [p \in S |-> <<p[1].method, p[1].parameter, p[1].call, p[1].position, p[2].terminal>>]
<1>1. ASSUME NEW p \in S
      PROVE  /\ p[1] \in ForwardingEdges /\ p[2] \in known /\ p = <<p[1], p[2]>> /\ Meets(p[1], p[2])
  BY DEF Matching
<1>2. IsFiniteSet(S)
  <2>1. IsFiniteSet(ForwardingEdges) /\ IsFiniteSet(known)
    BY EdgesAre DEF GoodSummaries
  <2>2. IsFiniteSet(ForwardingEdges \X known)
    BY <2>1, FS_Product
  <2> QED
    BY <2>2, FS_Subset DEF Matching
<1>3. key \in [S -> [1..5 -> Int]]
  <2>1. ASSUME NEW p \in S
        PROVE  /\ p[1].method \in Int /\ p[1].parameter \in Int /\ p[1].call \in Int
               /\ p[1].position \in Int /\ p[2].terminal \in Int
    <3>1. p[2] \in AllSummaries
      BY <1>1 DEF GoodSummaries
    <3>2. ASSUME NEW e \in ForwardingEdges PROVE {e.method, e.parameter, e.call, e.position} \subseteq Int
      <4>1. {e.method, e.parameter, e.call, e.target, e.position} \subseteq Nat \ {0}
        BY EdgesAre
      <4> QED
        BY <4>1
    <3>3. p[1] \in ForwardingEdges
      BY <1>1
    <3>4. p[2].terminal \in Int
      BY <3>1 DEF AllSummaries
    <3> QED
      BY <3>2, <3>3, <3>4
  <2>2. \A a, b, c, d, e \in Int : <<a, b, c, d, e>> \in [1..5 -> Int]
    OBVIOUS
  <2> QED
    BY <2>1, <2>2
<1>4. ASSUME NEW x \in S, NEW y \in S, key[x] = key[y] PROVE x = y
  <2>1. /\ x[1].method = y[1].method /\ x[1].parameter = y[1].parameter /\ x[1].call = y[1].call
        /\ x[1].position = y[1].position /\ x[2].terminal = y[2].terminal
    BY <1>4
  <2>2. PICK c \in locking.calls : EdgeOf(x[1], c)
    BY <1>1, EdgesAre
  <2>3. PICK d \in locking.calls : EdgeOf(y[1], d)
    BY <1>1, EdgesAre
  <2>4. c = d
    BY <2>1, <2>2, <2>3 DEF EdgeOf, LockingIsTyped
  <2>5. x[1].target = y[1].target
    BY <2>2, <2>3, <2>4 DEF EdgeOf
  <2>6. x[1] = y[1]
    <3>1. \A e \in ForwardingEdges :
              e = [method |-> e.method, parameter |-> e.parameter, call |-> e.call,
                   target |-> e.target, position |-> e.position]
      BY EdgesAre
    <3>2. x[1] \in ForwardingEdges /\ y[1] \in ForwardingEdges
      BY <1>1
    <3> QED
      BY <2>1, <2>5, <3>1, <3>2
  <2>7. Key(x[2]) = Key(y[2])
    BY <1>1, <2>1, <2>6 DEF Key, Meets
  <2>8. x[2] = y[2]
    BY <1>1, <2>7 DEF GoodSummaries
  <2> QED
    BY <1>1, <2>6, <2>8
<1>5. ASSUME NEW x \in S, NEW y \in S PROVE PairOrder(y, x) <=> Before(key[y], key[x])
  BY DEF PairOrder
<1> HIDE DEF key
<1>6. KeysOf(S, key)
  BY <1>3, <1>4, 5 \in Nat DEF KeysOf
<1> QED
  BY <1>2, <1>5, <1>6

LEMMA PairsAre ==
    ASSUME LockingIsTyped(locking), NEW S, S = Matching(summaries), GoodSummaries(summaries)
    PROVE  /\ Pairs \in Seq(S)
           /\ \A p \in S : \E n \in 1..Len(Pairs) : Pairs[n] = p
<1>1. Pairs = [n \in 1..Cardinality(S) |-> CHOOSE x \in S : Cardinality({y \in S : PairOrder(y, x)}) = n - 1]
  BY DEF Pairs, InOrder, Matching, Meets, PairOrder
<1>2. IsFiniteSet(S)
  BY PairKeys
<1>3. PICK key : KeysOf(S, key) /\ \A x, y \in S : PairOrder(y, x) <=> Before(key[y], key[x])
  BY PairKeys
<1>4. ASSUME NEW x \in S PROVE {y \in S : PairOrder(y, x)} = Below(S, key, x)
  BY <1>3 DEF Below
<1>5. ASSUME NEW n \in 1..Cardinality(S), NEW x \in S, Cardinality(Below(S, key, x)) = n - 1
      PROVE  Pairs[n] \in S /\ Cardinality(Below(S, key, Pairs[n])) = n - 1
  <2> DEFINE Is(z) == Cardinality({y \in S : PairOrder(y, z)}) = n - 1
  <2>1. \A z \in S : Is(z) <=> Cardinality(Below(S, key, z)) = n - 1
    BY <1>4
  <2>2. Pairs[n] = CHOOSE z \in S : Is(z)
    BY <1>1
  <2> HIDE DEF Is
  <2>3. Pairs[n] \in S /\ Is(Pairs[n])
    BY <1>5, <2>1, <2>2
  <2> QED
    BY <2>1, <2>3
<1>6. IsListOf(Pairs, Cardinality(S))
  <2> DEFINE g(n) == CHOOSE x \in S : Cardinality({y \in S : PairOrder(y, x)}) = n - 1
  <2>1. Pairs = [n \in 1..Cardinality(S) |-> g(n)]
    BY <1>1
  <2> HIDE DEF g
  <2> QED
    BY <2>1 DEF IsListOf
<1>7. /\ Pairs \in Seq(S) /\ Len(Pairs) = Cardinality(S)
      /\ \A x \in S : \E n \in 1..Cardinality(S) : Pairs[n] = x
  <2>1. KeysOf(S, key)
    BY <1>3
  <2>2. Placed(S, key, Pairs)
    BY <1>5 DEF Placed
  <2> QED
    BY <1>2, <1>6, <2>1, <2>2, Ordered
<1> QED
  BY <1>7

-----------------------------------------------------------------------------
(***************************************************************************)
(* A turn of the propagation.                                              *)
(***************************************************************************)
LEMMA EdgeHands ==
    ASSUME LockingIsTyped(locking), NEW e \in ForwardingEdges, <<e.target, e.position>> \in LockedParameters
    PROVE  <<e.method, e.parameter>> \in LockedParameters
<1>1. PICK c \in locking.calls : EdgeOf(e, c)
  BY EdgesAre
<1>2. e.parameter \in Nat \ {0}
  <2>1. {e.method, e.parameter, e.call, e.target, e.position} \subseteq Nat \ {0}
    BY EdgesAre
  <2> QED
    BY <2>1
<1> DEFINE h == <<c, e.position>>
<1>3. h \in PassedArguments
  BY <1>1, PassedAre DEF EdgeOf
<1>4. MayHand(h[1], h[2], LockedParameters)
  <2>1. <<e.target, e.position>>[1] \in c.candidates /\ <<e.target, e.position>>[2] = e.position
    BY <1>1 DEF EdgeOf
  <2> QED
    BY <2>1 DEF MayHand
<1>5. h \in Handing(LockedParameters)
  BY <1>1, <1>3, <1>4 DEF Handing, EdgeOf
<1>6. h[1].method = e.method /\ h[1].arguments[h[2]] = e.parameter
  BY <1>1 DEF EdgeOf
<1> HIDE DEF h
<1>7. <<e.method, e.parameter>> \in Wider(LockedParameters)
  <2>1. h \in {g \in Handing(LockedParameters) : g[1].arguments[g[2]] > 0}
    BY <1>2, <1>5, <1>6
  <2> QED
    BY <1>6, <2>1 DEF Wider
<1> QED
  BY <1>7, LockedAre

AllIssues == [kind : {"cycle", "hop_limit", "state_limit"}, method : Nat, parameter : Nat, call : Nat]

Passes ==
    {pass \in [summaries : SUBSET AllSummaries, issues : SUBSET AllIssues] : GoodSummaries(pass.summaries)}

LEMMA ExtendedIs ==
    ASSUME LockingIsTyped(locking), NEW known, GoodSummaries(known), NEW pair \in Matching(known),
           NEW x, x = Extended(pair[1], pair[2])
    PROVE  /\ x \in AllSummaries
           /\ <<x.method, x.parameter>> \in locking.callable \cap LockedParameters
           /\ \A n \in DOMAIN x.flow : x.flow[n][3] = 0 \/ \E e \in ForwardingEdges : e.call = x.flow[n][3]
<1> DEFINE e == pair[1]
           s == pair[2]
<1>1. e \in ForwardingEdges /\ s \in known /\ Meets(e, s)
  BY DEF Matching
<1> HIDE DEF e, s
<1>2. x = [method |-> e.method, parameter |-> e.parameter, terminal |-> s.terminal,
           flow |-> <<<<e.method, e.parameter, e.call>>>> \o s.flow]
  BY DEF Extended, e, s
<1>3. e.method \in Nat /\ e.parameter \in Nat /\ e.call \in Nat /\ <<e.method, e.parameter>> \in locking.callable
  <2>1. /\ {e.method, e.parameter, e.call, e.target, e.position} \subseteq Nat \ {0}
        /\ {<<e.method, e.parameter>>, <<e.target, e.position>>} \subseteq locking.callable
    BY <1>1, EdgesAre
  <2> QED
    BY <2>1
<1>4. /\ s \in AllSummaries /\ <<s.method, s.parameter>> \in LockedParameters
      /\ \A n \in DOMAIN s.flow : s.flow[n][3] = 0 \/ \E d \in ForwardingEdges : d.call = s.flow[n][3]
  BY <1>1 DEF GoodSummaries
<1>5. <<e.method, e.parameter>> \in LockedParameters
  BY <1>1, <1>4, EdgeHands DEF Meets
<1>6. s.terminal \in Nat /\ s.flow \in Seq(Nat \X Nat \X Nat)
  BY <1>4 DEF AllSummaries
<1> DEFINE a == <<e.method, e.parameter, e.call>>
           b == s.flow
<1>7. a \in Nat \X Nat \X Nat /\ a[3] = e.call
  BY <1>3
<1>8. x.method = e.method /\ x.parameter = e.parameter /\ x.flow = <<a>> \o b
  BY <1>2
<1>9. b \in Seq(Nat \X Nat \X Nat)
  BY <1>6
<1>10. \A n \in DOMAIN b : b[n][3] = 0 \/ \E d \in ForwardingEdges : d.call = b[n][3]
  BY <1>4
<1> HIDE DEF a, b
<1>11. /\ <<a>> \o b \in Seq(Nat \X Nat \X Nat)
       /\ DOMAIN (<<a>> \o b) = 1..(Len(b) + 1) /\ (<<a>> \o b)[1] = a
       /\ \A n \in 2..(Len(b) + 1) : n - 1 \in DOMAIN b /\ (<<a>> \o b)[n] = b[n - 1]
  <2>1. Len(b) \in Nat /\ DOMAIN b = 1..Len(b)
    BY <1>9
  <2>2. /\ <<a>> \o b \in Seq(Nat \X Nat \X Nat)
        /\ Len(<<a>> \o b) = Len(b) + 1
        /\ \A n \in 1..(Len(b) + 1) : (<<a>> \o b)[n] = IF n <= 1 THEN <<a>>[n] ELSE b[n - 1]
    BY <1>7, <1>9
  <2>3. DOMAIN (<<a>> \o b) = 1..(Len(b) + 1)
    BY <2>2
  <2>4. 1 \in 1..(Len(b) + 1)
    BY <2>1
  <2> QED
    BY <2>1, <2>2, <2>3, <2>4
<1>12. ASSUME NEW n \in DOMAIN (<<a>> \o b)
       PROVE  (<<a>> \o b)[n][3] = 0 \/ \E d \in ForwardingEdges : d.call = (<<a>> \o b)[n][3]
  <2>1. CASE n = 1
    BY <1>1, <1>7, <1>11, <2>1
  <2>2. CASE n # 1
    <3>1. n \in 2..(Len(b) + 1)
      BY <1>9, <1>11, <2>2
    <3> QED
      BY <1>10, <1>11, <3>1
  <2> QED
    BY <2>1, <2>2
<1>13. x \in AllSummaries
  <2>1. x = [method |-> e.method, parameter |-> e.parameter, terminal |-> s.terminal, flow |-> <<a>> \o b]
    BY <1>2 DEF a, b
  <2> QED
    BY <1>3, <1>6, <1>11, <2>1 DEF AllSummaries
<1> QED
  BY <1>3, <1>5, <1>8, <1>12, <1>13

LEMMA FollowKeeps ==
    ASSUME LockingIsTyped(locking), NEW known, GoodSummaries(known), NEW pair \in Matching(known),
           NEW pass \in Passes, NEW after, after = Follow(pass, pair)
    PROVE  /\ after \in Passes
           /\ Keys(pass.summaries) \subseteq Keys(after.summaries) /\ pass.issues \subseteq after.issues
           /\ after.issues = {} => Key(Extended(pair[1], pair[2])) \in Keys(after.summaries)
<1> DEFINE x == Extended(pair[1], pair[2])
           existing == SameKey(pass.summaries, x)
           With(kind) == [pass EXCEPT !.issues = @ \cup {IssueOf(kind, pair[1])}]
           Taking == [pass EXCEPT !.summaries = (@ \ existing) \cup {x}]
<1>1. /\ x \in AllSummaries
      /\ <<x.method, x.parameter>> \in locking.callable \cap LockedParameters
      /\ \A n \in DOMAIN x.flow : x.flow[n][3] = 0 \/ \E e \in ForwardingEdges : e.call = x.flow[n][3]
  BY ExtendedIs
<1>2. /\ pass = [summaries |-> pass.summaries, issues |-> pass.issues]
      /\ pass.summaries \subseteq AllSummaries /\ pass.issues \subseteq AllIssues /\ GoodSummaries(pass.summaries)
  BY DEF Passes
<1>3. after = IF Limited(pass.issues) THEN pass
              ELSE IF OnPath(pair[1], pair[2]) THEN With("cycle")
              ELSE IF Hops(pair[2]) >= MaxForwardingHops THEN With("hop_limit")
              ELSE IF \E s \in existing : ~Better(x, s) THEN pass
              ELSE IF existing = {} /\ Cardinality(pass.summaries) >= MaxFlowStates THEN With("state_limit")
              ELSE Taking
  BY DEF Follow
<1>4. existing = {s \in pass.summaries : Key(s) = Key(x)}
  BY DEF SameKey
<1> HIDE DEF x, existing
<1>5. ASSUME NEW kind \in {"cycle", "hop_limit", "state_limit"}
      PROVE  /\ With(kind) \in Passes /\ With(kind).summaries = pass.summaries
             /\ pass.issues \subseteq With(kind).issues /\ With(kind).issues # {}
  <2>1. IssueOf(kind, pair[1]) \in AllIssues
    <3>1. pair[1] \in ForwardingEdges
      BY DEF Matching
    <3>2. {pair[1].method, pair[1].parameter, pair[1].call, pair[1].target, pair[1].position} \subseteq Nat \ {0}
      BY <3>1, EdgesAre
    <3> QED
      BY <3>2 DEF IssueOf, AllIssues
  <2>2. With(kind) = [summaries |-> pass.summaries, issues |-> pass.issues \cup {IssueOf(kind, pair[1])}]
    BY <1>2
  <2> QED
    BY <1>2, <2>1, <2>2 DEF Passes
<1> HIDE DEF With
<1>6. /\ Taking.summaries = (pass.summaries \ existing) \cup {x} /\ Taking.issues = pass.issues
      /\ Taking \in [summaries : SUBSET AllSummaries, issues : SUBSET AllIssues]
  <2>1. Taking = [summaries |-> (pass.summaries \ existing) \cup {x}, issues |-> pass.issues]
    BY <1>2
  <2> HIDE DEF Taking
  <2> QED
    BY <1>1, <1>2, <2>1
<1> HIDE DEF Taking
<1>7. GoodSummaries((pass.summaries \ existing) \cup {x})
  <2> DEFINE Y == (pass.summaries \ existing) \cup {x}
  <2>1. IsFiniteSet(Y)
    <3>1. IsFiniteSet(pass.summaries)
      BY <1>2 DEF GoodSummaries
    <3>2. IsFiniteSet(pass.summaries \ existing)
      BY <3>1, FS_Subset
    <3> QED
      BY <3>2, FS_AddElement
  <2>2. Y \subseteq AllSummaries
    BY <1>1, <1>2
  <2>3. ASSUME NEW s \in Y, NEW t \in Y, Key(s) = Key(t) PROVE s = t
    BY <1>2, <1>4, <2>3 DEF GoodSummaries
  <2>4. ASSUME NEW s \in Y
        PROVE  /\ <<s.method, s.parameter>> \in locking.callable \cap LockedParameters
               /\ \A n \in DOMAIN s.flow : s.flow[n][3] = 0 \/ \E e \in ForwardingEdges : e.call = s.flow[n][3]
    <3>1. CASE s = x
      BY <1>1, <3>1
    <3>2. CASE s \in pass.summaries
      BY <1>2, <3>2 DEF GoodSummaries
    <3> QED
      BY <3>1, <3>2
  <2> HIDE DEF Y
  <2>5. GoodSummaries(Y)
    BY <2>1, <2>2, <2>3, <2>4 DEF GoodSummaries
  <2> QED
    BY <2>5 DEF Y
<1>8. /\ Taking \in Passes /\ pass.issues \subseteq Taking.issues
      /\ Keys(pass.summaries) \subseteq Keys(Taking.summaries)
      /\ Key(x) \in Keys(Taking.summaries)
  <2>1. Taking \in Passes
    BY <1>6, <1>7 DEF Passes
  <2>2. x \in Taking.summaries /\ \A s \in pass.summaries : s \in Taking.summaries \/ Key(s) = Key(x)
    BY <1>4, <1>6
  <2> QED
    BY <1>6, <2>1, <2>2 DEF Keys
<1>9. \A s \in existing : s \in pass.summaries /\ Key(s) = Key(x)
  BY <1>4
<1>10. (\E s \in existing : ~Better(x, s)) => Key(x) \in Keys(pass.summaries)
  BY <1>9 DEF Keys
<1>11. Limited(pass.issues) => pass.issues # {}
  BY DEF Limited
<1>12. CASE after = pass
  <2>1. ASSUME after.issues = {} PROVE Key(x) \in Keys(pass.summaries)
    <3>1. ~Limited(pass.issues)
      BY <1>11, <1>12, <2>1
    <3>2. \A kind \in {"cycle", "hop_limit", "state_limit"} : after # With(kind)
      BY <1>5, <2>1
    <3>3. after = Taking => Key(x) \in Keys(pass.summaries)
      BY <1>8, <1>12
    <3>4. (\E s \in existing : ~Better(x, s)) \/ after = Taking
      BY <1>3, <3>1, <3>2
    <3> QED
      BY <1>10, <3>3, <3>4
  <2> QED
    BY <1>2, <1>12, <2>1 DEF x, Passes
<1>13. ASSUME NEW kind \in {"cycle", "hop_limit", "state_limit"}, after = With(kind)
       PROVE  /\ after \in Passes
              /\ Keys(pass.summaries) \subseteq Keys(after.summaries) /\ pass.issues \subseteq after.issues
              /\ after.issues # {}
  BY <1>5, <1>13
<1>14. CASE after = Taking
  BY <1>8, <1>14 DEF x
<1> QED
  BY <1>3, <1>12, <1>13, <1>14 DEF x

Turn == FoldLeft(Follow, [summaries |-> summaries, issues |-> lockIssues], Pairs)

\* Every pair of an edge and a summary is followed: when nothing is reported,
\* what it gives is known.
LEMMA TurnKeeps ==
    ASSUME LockingIsTyped(locking), GoodSummaries(summaries), lockIssues \subseteq AllIssues
    PROVE  /\ Turn \in Passes
           /\ Keys(summaries) \subseteq Keys(Turn.summaries) /\ lockIssues \subseteq Turn.issues
           /\ Turn.issues = {} =>
                 \A e \in ForwardingEdges : \A s \in summaries :
                     Meets(e, s) => Key(Extended(e, s)) \in Keys(Turn.summaries)
<1> DEFINE A == Passes
           M == Matching(summaries)
           base == [summaries |-> summaries, issues |-> lockIssues]
           seq == Pairs
           N == Len(seq)
           move == [n \in 1..N |-> [a \in A |-> Follow(a, seq[n])]]
           Recurs(iter) == iter = [S \in SUBSET (1..N) |->
                                    IF S = {} THEN base
                                    ELSE Follow(iter[S \ {Max(S)}], seq[Max(S)])]
<1>1. /\ seq \in Seq(M)
      /\ \A p \in M : \E n \in 1..N : seq[n] = p
  BY PairsAre
<1>2. N \in Nat /\ DOMAIN seq = 1..N /\ \A n \in 1..N : seq[n] \in M
  <2> HIDE DEF seq, M
  <2> QED
    BY <1>1
<1>3. base \in A /\ base.summaries = summaries /\ base.issues = lockIssues
  <2>1. summaries \subseteq AllSummaries
    BY DEF GoodSummaries
  <2> QED
    BY <2>1 DEF Passes
<1>4. Turn = (CHOOSE iter : Recurs(iter))[1..N]
  <2>1. Turn = (CHOOSE iter : iter = [S \in SUBSET DOMAIN seq |->
                                    IF S = {} THEN base
                                    ELSE Follow(iter[S \ {Max(S)}], seq[Max(S)])])[DOMAIN seq]
    BY DEF Turn, FoldLeft, MapThenFoldSet
  <2> HIDE DEF base, seq
  <2> QED
    BY <1>2, <2>1
<1> HIDE DEF base, seq, N, M
<1>5. ASSUME NEW n \in 1..N, NEW a \in A
      PROVE  /\ Follow(a, seq[n]) \in A
             /\ Keys(a.summaries) \subseteq Keys(Follow(a, seq[n]).summaries) /\ a.issues \subseteq Follow(a, seq[n]).issues
             /\ Follow(a, seq[n]).issues = {} =>
                   Key(Extended(seq[n][1], seq[n][2])) \in Keys(Follow(a, seq[n]).summaries)
  <2>1. seq[n] \in Matching(summaries)
    BY <1>2 DEF M
  <2> QED
    BY <2>1, FollowKeeps
<1> HIDE DEF A
<1>6. move \in [1..N -> [A -> A]]
  BY <1>5
<1>7. \A n \in 1..N : \A a \in A : move[n][a] = Follow(a, seq[n])
  OBVIOUS
<1> HIDE DEF move
<1>8. \E iter : Recurs(iter)
  <2>1. PICK iter \in [SUBSET (1..N) -> A] : Folded(N, base, move, iter)
    BY <1>2, <1>3, <1>6, FoldExists
  <2>2. ASSUME NEW S \in SUBSET (1..N)
        PROVE  iter[S] = IF S = {} THEN base ELSE Follow(iter[S \ {Max(S)}], seq[Max(S)])
    <3>1. iter[S] = IF S = {} THEN base ELSE move[Max(S)][iter[S \ {Max(S)}]]
      BY <2>1 DEF Folded
    <3>2. CASE S # {}
      <4>1. Max(S) \in 1..N
        BY <1>2, <3>2, MaxIsIn
      <4>2. iter[S \ {Max(S)}] \in A
        BY <2>1
      <4> QED
        BY <1>7, <3>1, <3>2, <4>1, <4>2
    <3> QED
      BY <3>1, <3>2
  <2>3. Recurs(iter)
    BY <2>1, <2>2
  <2> QED
    BY <2>3
<1>9. PICK iter : iter = CHOOSE f : Recurs(f)
  OBVIOUS
<1>10. Recurs(iter) /\ Turn = iter[1..N]
  BY <1>4, <1>8, <1>9
<1>11. \A S \in SUBSET (1..N) : iter[S] = IF S = {} THEN base ELSE Follow(iter[S \ {Max(S)}], seq[Max(S)])
  BY <1>10
<1> HIDE DEF Recurs
<1>12. FoldedWithin(N, A, base, move, iter)
  <2>1. ASSUME NEW S \in SUBSET (1..N), S # {}, iter[S \ {Max(S)}] \in A
        PROVE  iter[S] = move[Max(S)][iter[S \ {Max(S)}]]
    <3>1. Max(S) \in 1..N
      BY <1>2, <2>1, MaxIsIn
    <3> QED
      BY <1>7, <1>11, <2>1, <3>1
  <2> QED
    BY <1>11, <2>1 DEF FoldedWithin
<1>13. PICK after \in [0..N -> A] : Taken(N, base, move, after) /\ after[N] = iter[1..N]
  BY <1>2, <1>3, <1>6, <1>12, FoldRuns
<1>14. /\ after[0] = base
       /\ \A n \in 1..N : n - 1 \in 0..N /\ after[n - 1] \in A /\ after[n] = Follow(after[n - 1], seq[n])
  <2>1. \A n \in 1..N : n - 1 \in 0..N
    BY <1>2
  <2> QED
    BY <1>7, <1>13, <2>1 DEF Taken
<1> DEFINE FollowedTo(n) ==
               /\ Keys(summaries) \subseteq Keys(after[n].summaries) /\ lockIssues \subseteq after[n].issues
               /\ after[n].issues = {} =>
                     \A m \in 1..n : Key(Extended(seq[m][1], seq[m][2])) \in Keys(after[n].summaries)
           T == {n \in 0..N : FollowedTo(n)}
<1>15. 0 \in T
  BY <1>2, <1>3, <1>14
<1>16. ASSUME NEW n \in 1..N, n - 1 \in T PROVE n \in T
  <2>1. after[n - 1] \in A /\ after[n] = Follow(after[n - 1], seq[n]) /\ n \in 0..N
    BY <1>2, <1>14
  <2>2. FollowedTo(n - 1)
    BY <1>16
  <2>3. /\ Keys(after[n - 1].summaries) \subseteq Keys(after[n].summaries) /\ after[n - 1].issues \subseteq after[n].issues
        /\ after[n].issues = {} => Key(Extended(seq[n][1], seq[n][2])) \in Keys(after[n].summaries)
    BY <1>5, <2>1
  <2>4. \A m \in 1..n : m = n \/ m \in 1..(n - 1)
    BY <1>2
  <2>5. FollowedTo(n)
    BY <2>2, <2>3, <2>4
  <2> HIDE DEF FollowedTo
  <2> QED
    BY <2>1, <2>5
<1>17. FollowedTo(N)
  <2> HIDE DEF T
  <2>1. N \in T
    BY <1>2, <1>15, <1>16, CountingFromZero
  <2> QED
    BY <2>1 DEF T
<1>18. Turn = after[N] /\ after[N] \in A
  BY <1>2, <1>10, <1>13
<1>19. ASSUME Turn.issues = {}, NEW e \in ForwardingEdges, NEW s \in summaries, Meets(e, s)
       PROVE  Key(Extended(e, s)) \in Keys(Turn.summaries)
  <2>1. <<e, s>> \in M
    BY <1>19 DEF M, Matching
  <2>2. PICK m \in 1..N : seq[m] = <<e, s>>
    BY <1>1, <2>1 DEF N
  <2>3. seq[m][1] = e /\ seq[m][2] = s
    BY <2>2
  <2>4. Key(Extended(seq[m][1], seq[m][2])) \in Keys(after[N].summaries)
    BY <1>17, <1>18, <1>19
  <2> QED
    BY <1>18, <2>3, <2>4
<1> QED
  BY <1>17, <1>18, <1>19 DEF A

-----------------------------------------------------------------------------
(***************************************************************************)
(* The invariant of the propagation.                                       *)
(***************************************************************************)
FirstKnown == Keys(DirectSummaries) \subseteq Keys(summaries)

\* Nothing is left to follow.
AllFollowed ==
    \A e \in ForwardingEdges : \A s \in summaries : Meets(e, s) => Key(Extended(e, s)) \in Keys(summaries)

LocksInv ==
    /\ LockingIsTyped(locking) /\ lockIssues \subseteq AllIssues /\ GoodSummaries(summaries)
    /\ lockState # "terminals" /\ lockIssues = {} => FirstKnown
    /\ lockState \in {"sites", "extracted"} /\ lockIssues = {} => AllFollowed
    /\ lockState = "extracted" => FlowDiagnostics \cup SiteDiagnostics \subseteq lockFacts.diagnostics

LockedIsLeast ==
    LockingIsTyped(locking) =>
        /\ LockedParameters \in SUBSET AllPairs
        /\ DirectPairs \subseteq LockedParameters
        /\ Wider(LockedParameters) = LockedParameters
        /\ \A pairs \in SUBSET AllPairs :
              DirectPairs \subseteq pairs /\ (\A known \in SUBSET pairs : Wider(known) \subseteq pairs)
              => LockedParameters \subseteq pairs

LEMMA LockedLeast == LockedIsLeast
  BY LockedAre DEF LockedIsLeast

LEMMA WiderGrows ==
    ASSUME NEW pairs, NEW known \in SUBSET pairs
    PROVE  Wider(known) \subseteq Wider(pairs)
<1>1. \A c, p : MayHand(c, p, known) => MayHand(c, p, pairs)
  BY DEF MayHand
<1>2. Handing(known) \subseteq Handing(pairs)
  BY <1>1 DEF Handing
<1> QED
  BY <1>2 DEF Wider

LEMMA SameLocking ==
    ASSUME locking' = locking, LockingIsTyped(locking)
    PROVE  /\ LockingIsTyped(locking)' /\ DirectSummaries' = DirectSummaries
           /\ ForwardingEdges' = ForwardingEdges /\ LockedParameters' = LockedParameters
<1>1. DirectSummaries' = DirectSummaries /\ VisibleCalls' = VisibleCalls /\ PassedArguments' = PassedArguments
  BY DEF DirectSummaries, Terminals, VisibleCalls, PassedArguments
<1>2. ForwardingEdges' = ForwardingEdges
  BY <1>1 DEF ForwardingEdges, Target
<1>3. DirectPairs' = DirectPairs
  BY <1>1 DEF DirectPairs
<1>4. \A pairs : Handing(pairs)' = Handing(pairs)
  BY <1>1, <1>2 DEF Handing, MayHand
<1>5. \A pairs : Wider(pairs)' = Wider(pairs)
  BY <1>4 DEF Wider
<1>6. LockingIsTyped(locking)'
  OBVIOUS
<1>7. LockedIsLeast'
  BY LockedLeast, PTL
<1>8. /\ LockedParameters' \in SUBSET AllPairs /\ DirectPairs \subseteq LockedParameters'
      /\ (Wider(LockedParameters))' = LockedParameters'
      /\ \A pairs \in SUBSET AllPairs :
            DirectPairs \subseteq pairs /\ (\A known \in SUBSET pairs : Wider(known) \subseteq pairs)
            => LockedParameters' \subseteq pairs
  BY <1>3, <1>5, <1>6, <1>7 DEF LockedIsLeast
<1>9. /\ LockedParameters \in SUBSET AllPairs /\ DirectPairs \subseteq LockedParameters
      /\ Wider(LockedParameters) = LockedParameters
      /\ \A pairs \in SUBSET AllPairs :
            DirectPairs \subseteq pairs /\ (\A known \in SUBSET pairs : Wider(known) \subseteq pairs)
            => LockedParameters \subseteq pairs
  BY LockedAre
<1>10. Wider(LockedParameters') = LockedParameters'
  <2>1. (Wider(LockedParameters))' = Wider(LockedParameters')
    BY <1>1, <1>2 DEF Wider, Handing, MayHand
  <2> QED
    BY <1>8, <2>1
<1>11. LockedParameters' \subseteq LockedParameters
  <2>1. \A known \in SUBSET LockedParameters : Wider(known) \subseteq LockedParameters
    BY <1>9, WiderGrows
  <2> QED
    BY <1>8, <1>9, <2>1
<1>12. LockedParameters \subseteq LockedParameters'
  <2>1. PICK later : later = LockedParameters'
    OBVIOUS
  <2>2. \A known \in SUBSET later : Wider(known) \subseteq later
    BY <1>10, <2>1, WiderGrows
  <2> QED
    BY <1>8, <1>9, <2>1, <2>2
<1> QED
  BY <1>1, <1>2, <1>6, <1>11, <1>12

LEMMA SameSummaries ==
    ASSUME LocksInv, UNCHANGED lockVars
    PROVE  LocksInv'
<1>1. /\ LockingIsTyped(locking)' /\ DirectSummaries' = DirectSummaries
      /\ ForwardingEdges' = ForwardingEdges /\ LockedParameters' = LockedParameters
  BY SameLocking DEF LocksInv, lockVars
<1>2. /\ locking' = locking /\ lockState' = lockState /\ summaries' = summaries
      /\ lockIssues' = lockIssues /\ lockFacts' = lockFacts
  BY DEF lockVars
<1>3. GoodSummaries(summaries)' /\ FirstKnown' = FirstKnown /\ AllFollowed' = AllFollowed
  BY <1>1, <1>2 DEF LocksInv, GoodSummaries, FirstKnown, AllFollowed, Keys
<1>4. FlowDiagnostics' = FlowDiagnostics /\ SiteDiagnostics' = SiteDiagnostics
  BY <1>2
     DEF FlowDiagnostics, SiteDiagnostics, UnprovenSites, ProvenForwardingCalls, AmbiguousCalls, SiteCalls,
         VisibleCalls, Target, SummarizedParameters, CandidateParameters, IsInline, Site
<1> QED
  BY <1>1, <1>2, <1>3, <1>4 DEF LocksInv

LEMMA FirstAreGood ==
    ASSUME LockingIsTyped(locking), NEW known \in SUBSET DirectSummaries
    PROVE  GoodSummaries(known)
<1>1. IsFiniteSet(known)
  BY DirectAre, FS_Subset
<1>2. known \subseteq AllSummaries
  BY DirectAre
<1>3. ASSUME NEW s \in known, NEW t \in known, Key(s) = Key(t) PROVE s = t
  <2>1. s = Seed(s.method, s.parameter, s.terminal) /\ t = Seed(t.method, t.parameter, t.terminal)
    BY DirectAre
  <2>2. s.method = t.method /\ s.parameter = t.parameter /\ s.terminal = t.terminal
    BY <1>3 DEF Key
  <2> QED
    BY <2>1, <2>2
<1>4. ASSUME NEW s \in known
      PROVE  /\ <<s.method, s.parameter>> \in locking.callable \cap LockedParameters
             /\ \A n \in DOMAIN s.flow : s.flow[n][3] = 0
  <2>1. s \in DirectSummaries
    OBVIOUS
  <2>2. <<s.method, s.parameter>> \in locking.callable /\ DOMAIN s.flow = {1} /\ s.flow[1][3] = 0
    BY <2>1, DirectAre
  <2>3. <<s.method, s.parameter>> \in LockedParameters
    BY <2>1, LockedAre DEF DirectPairs
  <2> QED
    BY <2>2, <2>3
<1> QED
  BY <1>1, <1>2, <1>3, <1>4 DEF GoodSummaries

LEMMA TerminalsKeep ==
    ASSUME LocksInv, FindTerminals
    PROVE  LocksInv'
<1> DEFINE found == InOrder(DirectSummaries, SeedOrder)
           cut == Len(found) > MaxFlowStates
           issue == [kind |-> "state_limit", method |-> found[MaxFlowStates + 1].method,
                     parameter |-> found[MaxFlowStates + 1].parameter,
                     call |-> found[MaxFlowStates + 1].terminal]
<1>1. /\ lockState = "terminals"
      /\ summaries' = Range(SubSeq(found, 1, IF cut THEN MaxFlowStates ELSE Len(found)))
      /\ lockIssues' = IF ~cut THEN {} ELSE {issue}
      /\ lockState' = IF found = <<>> \/ cut THEN "sites" ELSE "propagating"
      /\ UNCHANGED <<locking, lockFacts>>
  BY DEF FindTerminals
<1>2. found = [n \in 1..Cardinality(DirectSummaries) |->
                  CHOOSE x \in DirectSummaries : Cardinality({y \in DirectSummaries : SeedOrder(y, x)}) = n - 1]
  BY DEF InOrder
<1> HIDE DEF found
<1>3. IsListOf(found, Cardinality(DirectSummaries))
  <2> DEFINE g(n) == CHOOSE x \in DirectSummaries : Cardinality({y \in DirectSummaries : SeedOrder(y, x)}) = n - 1
  <2>1. found = [n \in 1..Cardinality(DirectSummaries) |-> g(n)]
    BY <1>2
  <2> HIDE DEF g
  <2> QED
    BY <2>1 DEF IsListOf
<1>4. \A n \in 1..Cardinality(DirectSummaries) :
          found[n] = CHOOSE x \in DirectSummaries : Cardinality({y \in DirectSummaries : SeedOrder(y, x)}) = n - 1
  BY <1>2
<1>5. LockingIsTyped(locking)
  BY DEF LocksInv
<1>6. /\ found \in Seq(DirectSummaries)
      /\ \A s \in DirectSummaries : \E n \in 1..Len(found) : found[n] = s
  BY <1>3, <1>4, <1>5, FoundAre
<1>7. MaxFlowStates \in Nat \ {0} /\ Len(found) \in Nat
  BY <1>6, LockLimitsAssumption
<1>8. ASSUME NEW k \in 0..Len(found)
      PROVE  /\ Range(SubSeq(found, 1, k)) \subseteq DirectSummaries
             /\ k = Len(found) => DirectSummaries \subseteq Range(SubSeq(found, 1, k))
  <2>1. /\ SubSeq(found, 1, k) \in Seq(DirectSummaries) /\ Len(SubSeq(found, 1, k)) = k
        /\ \A n \in 1..k : SubSeq(found, 1, k)[n] = found[n]
    BY <1>6
  <2>2. DOMAIN SubSeq(found, 1, k) = 1..k
    BY <2>1
  <2>3. \A n \in 1..k : found[n] \in DirectSummaries
    BY <1>6
  <2> QED
    BY <1>6, <2>1, <2>2, <2>3 DEF Range
<1>9. summaries' \in SUBSET DirectSummaries /\ (~cut => DirectSummaries \subseteq summaries')
  <2>1. CASE cut
    <3>1. MaxFlowStates \in 0..Len(found)
      BY <1>7, <2>1
    <3> QED
      BY <1>1, <1>8, <2>1, <3>1
  <2>2. CASE ~cut
    <3>1. Len(found) \in 0..Len(found)
      BY <1>7
    <3> QED
      BY <1>1, <1>8, <2>2, <3>1
  <2> QED
    BY <2>1, <2>2
<1>10. lockIssues' \subseteq AllIssues
  <2>1. CASE cut
    <3>1. MaxFlowStates + 1 \in 1..Len(found)
      BY <1>7, <2>1
    <3>2. found[MaxFlowStates + 1] \in DirectSummaries
      BY <1>6, <3>1
    <3>3. found[MaxFlowStates + 1] \in AllSummaries
      BY <1>5, <3>2, DirectAre
    <3>4. issue \in AllIssues
      BY <3>3 DEF AllIssues, AllSummaries
    <3> HIDE DEF issue, cut
    <3> QED
      BY <1>1, <2>1, <3>4
  <2> QED
    BY <1>1, <2>1
<1>11. /\ LockingIsTyped(locking)' /\ DirectSummaries' = DirectSummaries
       /\ ForwardingEdges' = ForwardingEdges /\ LockedParameters' = LockedParameters
  BY <1>1, <1>5, SameLocking
<1>12. GoodSummaries(summaries)'
  <2>1. PICK later : later = summaries'
    OBVIOUS
  <2>2. GoodSummaries(later)
    BY <1>5, <1>9, <2>1, FirstAreGood
  <2> QED
    BY <1>1, <1>11, <2>1, <2>2 DEF GoodSummaries
<1>13. lockIssues' = {} => FirstKnown'
  <2>1. lockIssues' = {} => ~cut
    BY <1>1
  <2> QED
    BY <1>9, <1>11, <2>1 DEF FirstKnown, Keys
<1>14. lockState' \in {"sites", "extracted"} /\ lockIssues' = {} => AllFollowed'
  <2>1. SUFFICES ASSUME lockState' = "sites", lockIssues' = {} PROVE AllFollowed'
    BY <1>1
  <2>2. ~cut
    BY <1>1, <2>1
  <2>3. found = <<>>
    BY <1>1, <2>1, <2>2
  <2>4. DirectSummaries = {}
    <3>1. Len(found) = 0
      BY <2>3
    <3> QED
      BY <1>6, <3>1
  <2>5. summaries' = {}
    BY <1>9, <2>4
  <2> QED
    BY <2>5 DEF AllFollowed
<1>15. lockState' # "extracted"
  BY <1>1
<1> QED
  BY <1>10, <1>11, <1>12, <1>13, <1>14, <1>15 DEF LocksInv

LEMMA PropagateKeeps ==
    ASSUME LocksInv, Propagate
    PROVE  LocksInv'
<1>1. /\ lockState = "propagating"
      /\ summaries' = Turn.summaries /\ lockIssues' = Turn.issues
      /\ lockState' = IF Turn.summaries = summaries \/ Limited(Turn.issues) THEN "sites" ELSE "propagating"
      /\ UNCHANGED <<locking, lockFacts>>
  BY DEF Propagate, Turn
<1>2. LockingIsTyped(locking) /\ GoodSummaries(summaries) /\ lockIssues \subseteq AllIssues
  BY DEF LocksInv
<1>3. /\ Turn \in Passes
      /\ Keys(summaries) \subseteq Keys(Turn.summaries) /\ lockIssues \subseteq Turn.issues
      /\ Turn.issues = {} =>
            \A e \in ForwardingEdges : \A s \in summaries :
                Meets(e, s) => Key(Extended(e, s)) \in Keys(Turn.summaries)
  BY <1>2, TurnKeeps
<1>4. GoodSummaries(Turn.summaries) /\ Turn.issues \subseteq AllIssues
  BY <1>3 DEF Passes
<1>5. /\ LockingIsTyped(locking)' /\ DirectSummaries' = DirectSummaries
      /\ ForwardingEdges' = ForwardingEdges /\ LockedParameters' = LockedParameters
  BY <1>1, <1>2, SameLocking
<1>6. GoodSummaries(summaries)'
  <2>1. PICK later : later = summaries'
    OBVIOUS
  <2>2. GoodSummaries(later)
    BY <1>1, <1>4, <2>1
  <2> QED
    BY <1>1, <1>5, <2>1, <2>2 DEF GoodSummaries
<1>7. lockIssues' = {} => FirstKnown'
  <2>1. lockIssues' = {} => Keys(DirectSummaries) \subseteq Keys(summaries)
    BY <1>1, <1>3 DEF LocksInv, FirstKnown
  <2>2. lockIssues' = {} => Keys(DirectSummaries) \subseteq Keys(summaries')
    BY <1>1, <1>3, <2>1
  <2> QED
    BY <1>5, <2>2 DEF FirstKnown, Keys
<1>8. lockState' \in {"sites", "extracted"} /\ lockIssues' = {} => AllFollowed'
  <2>1. SUFFICES ASSUME lockState' = "sites", lockIssues' = {} PROVE AllFollowed'
    BY <1>1
  <2>2. ~Limited(Turn.issues)
    BY <1>1, <2>1 DEF Limited
  <2>3. Turn.summaries = summaries
    BY <1>1, <2>1, <2>2
  <2>4. AllFollowed
    BY <1>1, <1>3, <2>1, <2>3 DEF AllFollowed
  <2>5. summaries' = summaries
    BY <1>1, <2>3
  <2> QED
    BY <1>5, <2>4, <2>5 DEF AllFollowed, Keys
<1>9. lockState' # "extracted"
  BY <1>1
<1> QED
  BY <1>1, <1>4, <1>5, <1>6, <1>7, <1>8, <1>9 DEF LocksInv

LEMMA ProjectKeeps ==
    ASSUME LocksInv, ProjectSites
    PROVE  LocksInv'
<1>1. /\ lockState = "sites" /\ lockState' = "extracted"
      /\ FlowDiagnostics \cup SiteDiagnostics \subseteq lockFacts'.diagnostics
      /\ UNCHANGED <<locking, summaries, lockIssues>>
  <2> DEFINE direct == UNION {DirectDiagnostics(u) : u \in Terminals}
  <2>1. lockFacts' = [sections |-> {DirectSection(u) : u \in {u \in Terminals : u.inline}}
                                   \cup {WrapperSection(site) : site \in ProjectedSites},
                      diagnostics |-> direct \cup FlowDiagnostics \cup SiteDiagnostics]
    BY DEF ProjectSites
  <2> HIDE DEF direct
  <2>2. lockFacts'.diagnostics = direct \cup FlowDiagnostics \cup SiteDiagnostics
    BY <2>1
  <2>3. lockState = "sites" /\ lockState' = "extracted" /\ UNCHANGED <<locking, summaries, lockIssues>>
    BY DEF ProjectSites
  <2> QED
    BY <2>2, <2>3
<1>2. /\ LockingIsTyped(locking)' /\ DirectSummaries' = DirectSummaries
      /\ ForwardingEdges' = ForwardingEdges /\ LockedParameters' = LockedParameters
  BY <1>1, SameLocking DEF LocksInv
<1>3. GoodSummaries(summaries)' /\ FirstKnown' = FirstKnown /\ AllFollowed' = AllFollowed
  BY <1>1, <1>2 DEF LocksInv, GoodSummaries, FirstKnown, AllFollowed, Keys
<1>4. FlowDiagnostics' = FlowDiagnostics /\ SiteDiagnostics' = SiteDiagnostics
  BY <1>1
     DEF FlowDiagnostics, SiteDiagnostics, UnprovenSites, ProvenForwardingCalls, AmbiguousCalls, SiteCalls,
         VisibleCalls, Target, SummarizedParameters, CandidateParameters, IsInline, Site
<1> QED
  BY <1>1, <1>2, <1>3, <1>4 DEF LocksInv

LEMMA LocksInvHolds == Spec => []LocksInv
<1>1. ASSUME ScanInit PROVE LocksInv
  <2>1. PICK family \in Repositories : \E r \in family : locking = r.locking
    BY <1>1 DEF ScanInit
  <2>2. LockingIsTyped(locking)
    BY <2>1, RepositoriesAssumption
  <2>3. GoodSummaries({})
    BY <2>2, FirstAreGood
  <2> QED
    BY <1>1, <2>2, <2>3 DEF LocksInv, ScanInit
<1>2. ASSUME LocksInv, [Next]_scanVars PROVE LocksInv'
  <2>1. ExtractLocks \/ UNCHANGED lockVars
    BY <1>2
       DEF Next, scanVars, Signal, Load, Cancel, ModulesThrow, ModuleMetadata, Guards, AuthorizationMetadata,
           Controls, Locks, Relationships, HttpRequests, EagerRequests, ServiceRequests, Interaction,
           Events, JobQueues, Messages, Persistence, Flow, SameMethod, InterMethod, StartRawSql, RawSqlStep,
           RawSqlThrew, Assemble, Ended, Extract
  <2> QED
    BY <1>2, <2>1, SameSummaries, TerminalsKeep, PropagateKeeps, ProjectKeeps DEF ExtractLocks
<1> QED
  BY <1>1, <1>2, PTL DEF Spec

-----------------------------------------------------------------------------
(***************************************************************************)
(* What the sites are projected from.                                      *)
(***************************************************************************)
LEMMA SummarizedIs ==
    ASSUME NEW m, NEW p
    PROVE  p \in SummarizedParameters(m) <=> \E s \in summaries : s.method = m /\ s.parameter = p
  BY DEF SummarizedParameters

LEMMA UnprovenIs ==
    ASSUME NEW c \in SiteCalls
    PROVE  /\ \A p \in SummarizedParameters(Target(c)) :
                 Target(c) # 0 /\ ~IsInline(c, p) => Site(c, p) \in UnprovenSites
           /\ c.optional /\ Cardinality(c.candidates) = 1 /\ CandidateParameters(c) # {}
              => Site(c, Min(CandidateParameters(c))) \in UnprovenSites
<1> DEFINE F(d) == {Site(d, p) : p \in {p \in SummarizedParameters(Target(d)) : ~IsInline(d, p)}}
           L == {d \in SiteCalls : Target(d) # 0}
           H == {d \in SiteCalls : d.optional /\ Cardinality(d.candidates) = 1 /\ CandidateParameters(d) # {}}
           G == {Site(d, Min(CandidateParameters(d))) : d \in H}
<1>1. UnprovenSites = (UNION {F(d) : d \in L}) \cup G
  BY DEF UnprovenSites
<1>4. G \subseteq UnprovenSites
  <2> HIDE DEF F, G, L
  <2> QED
    BY <1>1
<1>2. ASSUME NEW p \in SummarizedParameters(Target(c)), Target(c) # 0, ~IsInline(c, p)
      PROVE  Site(c, p) \in UnprovenSites
  <2>1. c \in L /\ Site(c, p) \in F(c)
    BY <1>2
  <2> HIDE DEF F, G, L
  <2> QED
    BY <1>1, <2>1
<1>3. ASSUME c.optional, Cardinality(c.candidates) = 1, CandidateParameters(c) # {}
      PROVE  Site(c, Min(CandidateParameters(c))) \in UnprovenSites
  <2>1. c \in H
    BY <1>3
  <2> HIDE DEF H
  <2>2. Site(c, Min(CandidateParameters(c))) \in G
    BY <2>1
  <2> HIDE DEF G
  <2> QED
    BY <1>4, <2>2
<1> QED
  BY <1>2, <1>3

\* A projected callback is handed to a lock.
LEMMA ProjectedAreHanded ==
    ASSUME LocksInv, NEW site \in ProjectedSites
    PROVE  <<site.call, site.position>> \in HandedToLock
<1>1. PICK c \in SiteCalls : /\ Target(c) # 0
                             /\ \E p \in SummarizedParameters(Target(c)) : IsInline(c, p) /\ site = Site(c, p)
  BY DEF ProjectedSites
<1>2. PICK p \in SummarizedParameters(Target(c)) : IsInline(c, p) /\ site = Site(c, p)
  BY <1>1
<1>3. site.call = c /\ site.position = p
  BY <1>2 DEF Site
<1>4. c \in VisibleCalls /\ c \in locking.calls /\ c.method \in locking.roles
  BY DEF SiteCalls, VisibleCalls
<1>5. LockingIsTyped(locking) /\ GoodSummaries(summaries)
  BY DEF LocksInv
<1>6. PICK s \in summaries : s.method = Target(c) /\ s.parameter = p
  BY <1>2, SummarizedIs
<1>7. <<Target(c), p>> \in LockedParameters
  BY <1>5, <1>6 DEF GoodSummaries
<1>8. Target(c) \in c.candidates
  BY <1>1, <1>4, <1>5, CallTargetIs
<1>9. MayHand(c, p, LockedParameters)
  <2>1. <<Target(c), p>>[1] \in c.candidates /\ <<Target(c), p>>[2] = p
    BY <1>8
  <2> QED
    BY <1>7, <2>1 DEF MayHand
<1>10. <<c, p>> \in PassedArguments
  BY <1>2, <1>4, <1>5, PassedAre DEF IsInline
<1> DEFINE h == <<c, p>>
<1>11. h[1] = c /\ h[2] = p
  OBVIOUS
<1> HIDE DEF h
<1>12. h \in HandedToLock
  BY <1>4, <1>9, <1>10, <1>11 DEF Handing, HandedToLock, h
<1> QED
  BY <1>3, <1>12 DEF h

Unreported ==
    /\ LocksInv /\ lockState = "extracted" /\ lockFacts.diagnostics = {} /\ ~OutsideNest /\ ~BesideForwarding

LEMMA UnreportedIs ==
    ASSUME Unreported
    PROVE  /\ LockingIsTyped(locking) /\ GoodSummaries(summaries) /\ FirstKnown /\ AllFollowed
           /\ \A limited \in BOOLEAN : AmbiguousCalls(limited) = {}
           /\ \A site \in UnprovenSites :
                 /\ site.call.at \in ProvenForwardingCalls /\ site.position \in DOMAIN site.call.arguments
                 /\ <<site.call.method, site.call.arguments[site.position]>> \in locking.callable
<1>1. FlowDiagnostics = {} /\ SiteDiagnostics = {}
  BY DEF Unreported, LocksInv
<1>2. lockIssues = {}
  <2>1. SUFFICES ASSUME NEW issue \in lockIssues PROVE FALSE
    OBVIOUS
  <2>2. issue.method \in locking.roles
    BY DEF Unreported, OutsideNest
  <2> QED
    BY <1>1, <2>2 DEF FlowDiagnostics
<1>3. FirstKnown /\ AllFollowed
  BY <1>2 DEF Unreported, LocksInv
<1>4. AmbiguousCalls(TRUE) = {} /\ AmbiguousCalls(FALSE) = {}
  BY <1>1 DEF SiteDiagnostics
<1>5. ASSUME NEW site \in UnprovenSites
      PROVE  /\ site.call.at \in ProvenForwardingCalls /\ site.position \in DOMAIN site.call.arguments
             /\ <<site.call.method, site.call.arguments[site.position]>> \in locking.callable
  <2>1. site.call.at \in ProvenForwardingCalls
    BY <1>1 DEF SiteDiagnostics
  <2> QED
    BY <2>1 DEF Unreported, BesideForwarding
<1> QED
  BY <1>3, <1>4, <1>5 DEF Unreported, LocksInv

\* A call on the path of a summary is the call of an edge.
LEMMA ProvenIsExact ==
    ASSUME LocksInv, NEW c \in locking.calls, c.at \in ProvenForwardingCalls
    PROVE  Target(c) # 0 /\ ~c.optional /\ ~c.spread
<1>1. LockingIsTyped(locking) /\ GoodSummaries(summaries)
  BY DEF LocksInv
<1>2. PICK s \in summaries : \E n \in DOMAIN s.flow : c.at = s.flow[n][3]
  BY DEF ProvenForwardingCalls
<1>3. PICK n \in DOMAIN s.flow : c.at = s.flow[n][3]
  BY <1>2
<1>4. c.at # 0
  BY <1>1, CallTargetIs
<1>5. PICK e \in ForwardingEdges : e.call = c.at
  BY <1>1, <1>3, <1>4 DEF GoodSummaries
<1>6. PICK d \in locking.calls : EdgeOf(e, d)
  BY <1>1, EdgesAre
<1>7. d = c
  BY <1>1, <1>5, <1>6 DEF EdgeOf, LockingIsTyped
<1> QED
  BY <1>6, <1>7 DEF EdgeOf

\* What a call in a class with a role hands to a parameter with a summary is
\* projected, or forwarded.
LEMMA HandedIsSeen ==
    ASSUME Unreported, NEW c \in SiteCalls, NEW i \in DOMAIN c.arguments, NEW m \in c.candidates,
           NEW p, p \in SummarizedParameters(m), c.spread \/ p = i
    PROVE  /\ Target(c) = m /\ m # 0 /\ ~c.spread /\ p = i
           /\ \/ Site(c, i) \in ProjectedSites /\ c.arguments[i] = Inline
              \/ /\ c.at \in ProvenForwardingCalls
                 /\ <<c.method, c.arguments[i]>> \in locking.callable
<1>0. LockingIsTyped(locking) /\ LocksInv
  BY DEF Unreported, LocksInv
<1>1. c \in VisibleCalls /\ c \in locking.calls
  BY DEF SiteCalls, VisibleCalls
<1>2. p \in CandidateParameters(c)
  BY DEF CandidateParameters
<1>3. Cardinality(c.candidates) = 1
  <2>1. IsFiniteSet(c.candidates)
    BY <1>0, <1>1, CallTargetIs
  <2>2. Cardinality(c.candidates) \in Nat /\ Cardinality(c.candidates) # 0
    BY <2>1, FS_CardinalityType, FS_EmptySet
  <2>3. ~(Cardinality(c.candidates) > 1)
    <3>1. SUFFICES ASSUME Cardinality(c.candidates) > 1 PROVE FALSE
      OBVIOUS
    <3>2. c \in AmbiguousCalls(Cardinality(c.candidates) > MaxTargetCandidates)
      BY <1>2, <3>1 DEF AmbiguousCalls
    <3>3. (Cardinality(c.candidates) > MaxTargetCandidates) \in BOOLEAN
      OBVIOUS
    <3> QED
      BY <3>2, <3>3, UnreportedIs
  <2> QED
    BY <2>2, <2>3
<1>4. ~c.optional
  <2>1. SUFFICES ASSUME c.optional PROVE FALSE
    OBVIOUS
  <2>2. Site(c, Min(CandidateParameters(c))) \in UnprovenSites
    BY <1>2, <1>3, <2>1, UnprovenIs
  <2>3. Site(c, Min(CandidateParameters(c))).call = c
    BY DEF Site
  <2>4. c.at \in ProvenForwardingCalls
    BY <2>2, <2>3, UnreportedIs
  <2> QED
    BY <1>0, <1>1, <2>1, <2>4, ProvenIsExact
<1>5. Target(c) = m /\ Target(c) # 0
  BY <1>0, <1>1, <1>3, <1>4, CallTargetIs
<1>6. CASE IsInline(c, p)
  <2>1. ~c.spread /\ p = i /\ c.arguments[i] = Inline
    BY <1>6 DEF IsInline
  <2>2. Site(c, i) \in ProjectedSites
    BY <1>5, <1>6, <2>1 DEF ProjectedSites
  <2> QED
    BY <1>5, <2>1, <2>2
<1>7. CASE ~IsInline(c, p)
  <2>1. Site(c, p) \in UnprovenSites
    BY <1>5, <1>7, UnprovenIs
  <2>2. Site(c, p).call = c /\ Site(c, p).position = p
    BY DEF Site
  <2>3. c.at \in ProvenForwardingCalls /\ <<c.method, c.arguments[p]>> \in locking.callable
    BY <2>1, <2>2, UnreportedIs
  <2>4. ~c.spread
    BY <1>0, <1>1, <2>3, ProvenIsExact
  <2> QED
    BY <1>5, <2>3, <2>4
<1> QED
  BY <1>6, <1>7

\* Every parameter that may reach a lock has a summary.
LEMMA LockedAreSummarized ==
    ASSUME Unreported
    PROVE  \A pair \in LockedParameters : pair[2] \in SummarizedParameters(pair[1])
<1> DEFINE P == {<<s.method, s.parameter>> : s \in summaries}
<1>0. /\ LockingIsTyped(locking) /\ GoodSummaries(summaries) /\ FirstKnown /\ AllFollowed
  BY UnreportedIs
<1>1. P \in SUBSET AllPairs
  BY <1>0 DEF GoodSummaries, AllSummaries, AllPairs
<1>2. \A pair \in P : pair[2] \in SummarizedParameters(pair[1]) /\ pair \in locking.callable
  BY <1>0, SummarizedIs DEF GoodSummaries
<1>3. ASSUME NEW s, Key(s) \in Keys(summaries) PROVE <<s.method, s.parameter>> \in P
  <2>1. PICK t \in summaries : Key(t) = Key(s)
    BY <1>3 DEF Keys
  <2>2. t.method = s.method /\ t.parameter = s.parameter
    BY <2>1 DEF Key
  <2> QED
    BY <2>2
<1>4. DirectPairs \subseteq P
  <2>1. \A s \in DirectSummaries : Key(s) \in Keys(summaries)
    BY <1>0 DEF FirstKnown, Keys
  <2> QED
    BY <1>3, <2>1 DEF DirectPairs
<1>5. ASSUME NEW c \in VisibleCalls, NEW i \in DOMAIN c.arguments, Target(c) # 0, ~c.spread,
             <<c.method, c.arguments[i]>> \in locking.callable, <<Target(c), i>> \in P
      PROVE  <<c.method, c.arguments[i]>> \in P
  <2>1. PICK s \in summaries : s.method = Target(c) /\ s.parameter = i
    BY <1>5
  <2>2. <<Target(c), i>> \in locking.callable
    BY <1>2, <1>5
  <2>3. PICK e \in ForwardingEdges : /\ e.method = c.method /\ e.parameter = c.arguments[i] /\ e.call = c.at
                                     /\ e.target = Target(c) /\ e.position = i
    BY <1>0, <1>5, <2>2, EdgesAre
  <2>4. Key(Extended(e, s)) \in Keys(summaries)
    BY <1>0, <2>1, <2>3 DEF AllFollowed, Meets
  <2>5. Extended(e, s).method = c.method /\ Extended(e, s).parameter = c.arguments[i]
    BY <2>3 DEF Extended
  <2> QED
    BY <1>3, <2>4, <2>5
<1> HIDE DEF P
<1>6. ASSUME NEW known \in SUBSET P, NEW h \in Handing(known), h[1].arguments[h[2]] > 0
      PROVE  <<h[1].method, h[1].arguments[h[2]]>> \in P
  <2> DEFINE c == h[1]
             i == h[2]
  <2>1. h \in PassedArguments /\ c \in VisibleCalls /\ MayHand(c, i, known)
        /\ (c.method \in locking.roles \/ \E e \in ForwardingEdges : e.call = c.at /\ e.position = i)
    BY DEF Handing
  <2>2. c \in locking.calls /\ i \in DOMAIN c.arguments
    BY <1>0, <2>1, PassedAre
  <2>3. PICK pair \in known : pair[1] \in c.candidates /\ (c.spread \/ pair[2] = i)
    BY <2>1 DEF MayHand
  <2>4. pair \in P /\ pair = <<pair[1], pair[2]>>
    BY <1>1, <2>3 DEF AllPairs
  <2> HIDE DEF c, i
  <2>5. CASE c.method \in locking.roles
    <3>1. c \in SiteCalls
      BY <2>1, <2>5 DEF SiteCalls
    <3>2. pair[2] \in SummarizedParameters(pair[1])
      BY <1>2, <2>4
    <3>3. /\ Target(c) = pair[1] /\ pair[1] # 0 /\ ~c.spread /\ pair[2] = i
          /\ \/ Site(c, i) \in ProjectedSites /\ c.arguments[i] = Inline
             \/ /\ c.at \in ProvenForwardingCalls
                /\ <<c.method, c.arguments[i]>> \in locking.callable
      BY <2>2, <2>3, <3>1, <3>2, HandedIsSeen
    <3>4. c.arguments[i] # Inline
      BY <1>6 DEF Inline, c, i
    <3>5. <<c.method, c.arguments[i]>> \in P
      BY <1>5, <2>1, <2>2, <2>4, <3>3, <3>4
    <3> QED
      BY <3>5 DEF c, i
  <2>6. CASE \E e \in ForwardingEdges : e.call = c.at /\ e.position = i
    <3>1. PICK e \in ForwardingEdges : e.call = c.at /\ e.position = i
      BY <2>6
    <3>2. PICK d \in locking.calls : EdgeOf(e, d)
      BY <1>0, EdgesAre
    <3>3. d = c
      BY <1>0, <2>2, <3>1, <3>2 DEF EdgeOf, LockingIsTyped
    <3>4. /\ Target(c) = e.target /\ Target(c) # 0 /\ ~c.spread /\ c.candidates = {Target(c)}
          /\ e.method = c.method /\ e.parameter = c.arguments[i]
      BY <3>1, <3>2, <3>3 DEF EdgeOf
    <3>5. pair = <<Target(c), i>>
      BY <2>3, <2>4, <3>4
    <3>6. <<e.method, e.parameter>> \in locking.callable
      BY <1>0, EdgesAre
    <3>7. <<c.method, c.arguments[i]>> \in P
      BY <1>5, <2>1, <2>2, <2>4, <3>4, <3>5, <3>6
    <3> QED
      BY <3>7 DEF c, i
  <2> QED
    BY <2>1, <2>5, <2>6 DEF c, i
<1>7. \A known \in SUBSET P : Wider(known) \subseteq P
  BY <1>6 DEF Wider
<1>8. LockedParameters \subseteq P
  BY <1>0, <1>1, <1>4, <1>7, LockedAre
<1> QED
  BY <1>2, <1>8

\* Every callback projected under a lock is handed to one, and with no
\* diagnostic every callback that may be handed to a lock is projected, or is a
\* parameter that is forwarded (extractRedlockCriticalSections).
THEOREM LocksHonest == Spec => []LocksAreHonest
<1>1. ASSUME LocksInv PROVE LocksAreHonest
  <2>1. SUFFICES ASSUME lockState = "extracted", lockFacts.diagnostics = {}, ~OutsideNest, ~BesideForwarding,
                        NEW h \in HandedToLock
                 PROVE  \/ Site(h[1], h[2]) \in ProjectedSites
                        \/ h[1].arguments[h[2]] > 0 /\ h[1].at \in ProvenForwardingCalls
    BY <1>1, ProjectedAreHanded DEF LocksAreHonest
  <2>2. Unreported
    BY <1>1, <2>1 DEF Unreported
  <2>3. LockingIsTyped(locking)
    BY <1>1 DEF LocksInv
  <2> DEFINE c == h[1]
             i == h[2]
  <2>4. h \in PassedArguments /\ c \in VisibleCalls /\ MayHand(c, i, LockedParameters) /\ c.method \in locking.roles
    BY DEF HandedToLock, Handing
  <2>5. c \in SiteCalls /\ i \in DOMAIN c.arguments
    BY <2>3, <2>4, PassedAre DEF SiteCalls
  <2>6. PICK pair \in LockedParameters : pair[1] \in c.candidates /\ (c.spread \/ pair[2] = i)
    BY <2>4 DEF MayHand
  <2>7. pair[2] \in SummarizedParameters(pair[1])
    BY <2>2, LockedAreSummarized
  <2> HIDE DEF c, i
  <2>8. \/ Site(c, i) \in ProjectedSites
        \/ c.at \in ProvenForwardingCalls /\ <<c.method, c.arguments[i]>> \in locking.callable
    BY <2>2, <2>5, <2>6, <2>7, HandedIsSeen
  <2>9. <<c.method, c.arguments[i]>> \in locking.callable => c.arguments[i] > 0
    <3>1. <<c.method, c.arguments[i]>> \in locking.callable => c.arguments[i] \in Nat \ {0}
      BY <2>3 DEF LockingIsTyped
    <3> QED
      BY <3>1
  <2> QED
    BY <2>8, <2>9 DEF c, i
<1> QED
  BY <1>1, LocksInvHolds, PTL

=============================================================================
