------------------------- MODULE AtomicFilesProofs -------------------------
(***************************************************************************)
(* Proofs about the batch writer, for any number of processes, any paths    *)
(* and any plans.  A step changes the call and the temporaries of one       *)
(* process only, so the inductive invariant has a part for each process,    *)
(* a predicate of its call and temporaries, and a part that ties the disk   *)
(* to the calls.                                                            *)
(***************************************************************************)
EXTENDS AtomicFiles, SequenceTheorems, TLAPS

(* Where the temporaries t stand at each point of a call c. *)
TempsInv(c, t) ==
    /\ c.pc = "idle" => t = <<>>
    /\ c.pc # "idle" => c.files \in Plans
    /\ c.pc \in {"idle", "staging", "writing"} => c.renamed = 0
    /\ c.pc = "staging" => \A i \in 1 .. Len(t) : t[i] = "whole"
    /\ c.pc = "writing" =>
          /\ Len(t) > 0
          /\ \A i \in 1 .. (Len(t) - 1) : t[i] = "whole"
    /\ c.pc \in {"committing", "returned"} =>
          /\ Len(t) = Len(c.files)
          /\ \A i \in 1 .. Len(t) : t[i] = IF i <= c.renamed THEN "none" ELSE "whole"
    /\ c.pc = "returned" => c.renamed = Len(c.files)

(* The prepared entries have different destinations. *)
DistinctInv(c, t) ==
    \A i, j \in 1 .. Len(t) : c.files[i] = c.files[j] => i = j

(* Errors, and what the catch block still has to remove. *)
ErrorInv(c, t) ==
    /\ c.pc \in {"idle", "staging", "writing", "committing", "returned"} =>
          c.error = "none" /\ c.removing = {} /\ ~c.rmFailed
    /\ c.error \in {"abort", "duplicate"} => c.renamed = 0
    /\ c.pc \in {"cleaning", "threw"} => c.error # "none"
    /\ (c.pc \in {"cleaning", "threw"} /\ ~c.rmFailed) =>
          \A i \in 1 .. Len(t) : t[i] # "none" => i \in c.removing

CallType(c, t) ==
    /\ c \in CallRecord
    /\ t \in Seq(TempStates)
    /\ Len(t) <= Len(c.files)
    /\ c.renamed <= Len(t)
    /\ c.removing \subseteq 1 .. Len(t)

CallInv(c, t) ==
    CallType(c, t) /\ TempsInv(c, t) /\ DistinctInv(c, t) /\ ErrorInv(c, t)

(* Every file on disk was renamed there by the call whose contents it holds. *)
DiskInv ==
    \A f \in Paths :
        disk[f] # Absent =>
            \E q \in Procs : \E i \in 1 .. call[q].renamed :
                disk[f] = Content(q, i) /\ call[q].files[i] = f

(* Every renamed file is still on disk, or another process replaced it. *)
OrderInv ==
    \A p \in Procs : \A i \in 1 .. call[p].renamed :
        \/ disk[call[p].files[i]] = Content(p, i)
        \/ \E q \in Procs \ {p} : call[p].files[i] \in PublishedBy(q)

(* What the writer keeps even where others remove files from the disk; the
   commands that call it rely on this part. *)
WriterInv ==
    /\ TypeOK
    /\ \A p \in Procs : CallInv(call[p], temps[p])
    /\ DiskInv

IInv == WriterInv /\ OrderInv

----------------------------------------------------------------------------
(* How a step of one process changes the state.                             *)

(* The plan of a call is a sequence of paths. *)
LEMMA FilesType ==
    ASSUME NEW c \in CallRecord
    PROVE  /\ c.files \in Seq(Paths)
           /\ Len(c.files) \in Nat
           /\ \A i \in 1 .. Len(c.files) : c.files[i] \in Paths
<1>1. c.files \in Plans \cup {<<>>}
  BY DEF CallRecord
<1>2. <<>> \in Seq(Paths)
  BY EmptySeq
<1>3. c.files \in Seq(Paths)
  BY <1>1, <1>2, PlansAssumption
<1> QED
  BY <1>3, LenProperties, ElementOfSeq

(* A step of p that leaves its call in a state that satisfies CallInv leaves
   every call in one. *)
LEMMA LocalStep ==
    ASSUME TypeOK, \A q \in Procs : CallInv(call[q], temps[q]),
           NEW p \in Procs, NEW c, NEW t, CallInv(c, t),
           call' = [call EXCEPT ![p] = c],
           temps' = [temps EXCEPT ![p] = t],
           disk' \in [Paths -> AllContents]
    PROVE  /\ TypeOK'
           /\ \A q \in Procs : CallInv(call'[q], temps'[q])
           /\ call'[p] = c
           /\ \A q \in Procs \ {p} : call'[q] = call[q]
<1>1. c \in CallRecord /\ t \in Seq(TempStates)
  BY DEF CallInv, CallType
<1>2. call' \in [Procs -> CallRecord] /\ temps' \in [Procs -> Seq(TempStates)]
  BY <1>1 DEF TypeOK
<1>3. /\ call'[p] = c /\ temps'[p] = t
      /\ \A q \in Procs \ {p} : call'[q] = call[q] /\ temps'[q] = temps[q]
  BY DEF TypeOK
<1>4. \A q \in Procs : CallInv(call'[q], temps'[q])
  BY <1>3
<1>5. TypeOK'
  BY <1>2, <1>4 DEF TypeOK, CallInv, CallType, Prepared
<1> QED
  BY <1>3, <1>4, <1>5

(* A step that renames nothing. *)
KeepsRenamed ==
    /\ disk' = disk
    /\ \A q \in Procs :
          /\ call'[q].renamed = call[q].renamed
          /\ call[q].renamed > 0 => call'[q].files = call[q].files

(* It keeps what ties the disk to the calls. *)
LEMMA SameDisk ==
    ASSUME DiskInv, KeepsRenamed, \A q \in Procs : call[q].renamed \in Nat
    PROVE  DiskInv'
BY DEF DiskInv, KeepsRenamed, Content

(* It keeps the order of the renames, too. *)
LEMMA SameOrder ==
    ASSUME WriterInv, OrderInv, KeepsRenamed
    PROVE  OrderInv'
<1>1. \A q \in Procs : call[q].renamed \in Nat
  BY DEF WriterInv, TypeOK, CallRecord
<1> SUFFICES ASSUME NEW p \in Procs, NEW i \in 1 .. call'[p].renamed
             PROVE  \/ disk'[call'[p].files[i]] = Content(p, i)
                    \/ \E q \in Procs \ {p} : call'[p].files[i] \in PublishedBy(q)'
  BY DEF OrderInv, Content
<1>2. i \in 1 .. call[p].renamed /\ call'[p].files = call[p].files /\ disk' = disk
  BY <1>1 DEF KeepsRenamed
<1>3. \A q \in Procs : PublishedBy(q)' = PublishedBy(q)
  BY <1>2 DEF PublishedBy
<1> QED
  BY <1>2, <1>3 DEF OrderInv

(* A step of p that renames nothing: what has to be shown of it. *)
LEMMA QuietStep ==
    ASSUME WriterInv, NEW p \in Procs, NEW c, NEW t, CallInv(c, t),
           call' = [call EXCEPT ![p] = c],
           temps' = [temps EXCEPT ![p] = t],
           disk' = disk,
           c.renamed = call[p].renamed,
           c.renamed > 0 => c.files = call[p].files
    PROVE  WriterInv' /\ KeepsRenamed
<1>1. disk' \in [Paths -> AllContents]
  BY DEF WriterInv, TypeOK
<1>2. /\ TypeOK'
      /\ \A q \in Procs : CallInv(call'[q], temps'[q])
      /\ call'[p] = c
      /\ \A q \in Procs \ {p} : call'[q] = call[q]
  BY <1>1, LocalStep DEF WriterInv
<1>3. \A q \in Procs : call[q].renamed \in Nat
  BY DEF WriterInv, TypeOK, CallRecord
<1>4. KeepsRenamed
  BY <1>2 DEF KeepsRenamed
<1>5. DiskInv'
  BY <1>3, <1>4, SameDisk DEF WriterInv
<1> QED
  BY <1>2, <1>4, <1>5 DEF WriterInv

(* What is known of the call and the temporaries of p before a step. *)
LEMMA Before ==
    ASSUME WriterInv, NEW p \in Procs
    PROVE  /\ call[p] \in CallRecord
           /\ temps[p] \in Seq(TempStates)
           /\ Len(temps[p]) \in Nat
           /\ DOMAIN temps[p] = 1 .. Len(temps[p])
           /\ CallInv(call[p], temps[p])
           /\ temps = [temps EXCEPT ![p] = temps[p]]
           /\ Len(call[p].files) \in Nat
           /\ \A i \in 1 .. Len(call[p].files) : call[p].files[i] \in Paths
<1>1. call[p] \in CallRecord /\ temps[p] \in Seq(TempStates)
  BY DEF WriterInv, TypeOK
<1>2. Len(temps[p]) \in Nat /\ DOMAIN temps[p] = 1 .. Len(temps[p])
  BY <1>1, LenProperties
<1>3. temps = [temps EXCEPT ![p] = temps[p]]
  BY DEF WriterInv, TypeOK
<1> QED
  BY <1>1, <1>2, <1>3, FilesType DEF WriterInv

----------------------------------------------------------------------------
(* Each action preserves the invariant.                                     *)

(* Invoke gives an idle call its plan: nothing is prepared yet. *)
LEMMA InvokeStep ==
    ASSUME WriterInv, NEW p \in Procs, NEW files \in Plans, Invoke(p, files)
    PROVE  WriterInv' /\ KeepsRenamed
<1> DEFINE c == [call[p] EXCEPT !.pc = "staging", !.files = files]
<1> USE Before
<1>1. c \in CallRecord
  BY DEF CallRecord, PCs
<1>2. Len(c.files) \in Nat
  BY <1>1, FilesType
<1>3. Len(temps[p]) = 0 /\ c.renamed = 0 /\ call[p].renamed = 0
  BY EmptySeq DEF CallInv, TempsInv, Invoke, CallRecord
<1>4. c.error = "none" /\ c.removing = {} /\ ~c.rmFailed /\ c.pc = "staging"
  BY <1>1 DEF CallInv, ErrorInv, Invoke, CallRecord
<1>5. CallInv(c, temps[p])
  BY <1>1, <1>2, <1>3, <1>4 DEF CallInv, CallType, TempsInv, DistinctInv, ErrorInv
<1>6. call' = [call EXCEPT ![p] = c]
  BY DEF Invoke, WriterInv, TypeOK
<1>7. temps' = [temps EXCEPT ![p] = temps[p]] /\ disk' = disk
  BY DEF Invoke
<1>8. c.renamed = call[p].renamed /\ ~(c.renamed > 0)
  BY <1>3
<1> HIDE DEF c
<1> QED
  BY <1>5, <1>6, <1>7, <1>8, QuietStep

(* Entering the catch block, with any state of the temporaries. *)
LEMMA FailStep ==
    ASSUME WriterInv, NEW p \in Procs, NEW why \in Errors \ {"none"},
           call[p].pc \in {"staging", "writing", "committing"},
           why \in {"abort", "duplicate"} => call[p].renamed = 0,
           NEW t \in Seq(TempStates), Len(t) = Len(temps[p]),
           temps' = [temps EXCEPT ![p] = t], Fail(p, why), disk' = disk
    PROVE  WriterInv' /\ KeepsRenamed
<1> DEFINE c == [call[p] EXCEPT !.pc = "cleaning", !.error = why,
                                !.removing = DOMAIN temps[p]]
<1>1. c \in CallRecord
  <2>1. call[p] \in CallRecord /\ DOMAIN temps[p] \in SUBSET Nat
    BY Before
  <2> QED
    BY <2>1 DEF CallRecord, PCs
<1> USE Before
<1>2. /\ c.pc = "cleaning" /\ c.error = why /\ c.removing = 1 .. Len(t)
      /\ c.renamed = call[p].renamed /\ c.files = call[p].files
  BY DEF CallRecord
<1>3. CallType(c, t)
  BY <1>1, <1>2 DEF CallInv, CallType
<1>4. DistinctInv(c, t)
  BY <1>2 DEF CallInv, DistinctInv
<1>5. TempsInv(c, t) /\ ErrorInv(c, t)
  BY <1>2 DEF CallInv, TempsInv, ErrorInv
<1>6. call' = [call EXCEPT ![p] = c]
  BY DEF Fail, WriterInv, TypeOK
<1>7. CallInv(c, t)
  BY <1>3, <1>4, <1>5 DEF CallInv
<1> HIDE DEF c
<1> QED
  BY <1>2, <1>6, <1>7, QuietStep

(* Fail with the temporaries untouched. *)
LEMMA FailQuietly ==
    ASSUME WriterInv, NEW p \in Procs, NEW why \in Errors \ {"none"},
           call[p].pc \in {"staging", "writing", "committing"},
           why \in {"abort", "duplicate"} => call[p].renamed = 0,
           Fail(p, why), UNCHANGED <<disk, temps>>
    PROVE  WriterInv' /\ KeepsRenamed
BY Before, FailStep

(* A refused entry sends the call to its catch block. *)
LEMMA StageRefusedStep ==
    ASSUME WriterInv, NEW p \in Procs, StageRefused(p)
    PROVE  WriterInv' /\ KeepsRenamed
<1>1. call[p].pc = "staging" /\ call[p].renamed = 0
  BY Before DEF StageRefused, CallInv, TempsInv
<1> QED
  BY <1>1, FailQuietly DEF StageRefused, Errors

(* So does the last abort check, *)
LEMMA AbortBeforeCommitStep ==
    ASSUME WriterInv, NEW p \in Procs, AbortBeforeCommit(p)
    PROVE  WriterInv' /\ KeepsRenamed
<1>1. call[p].pc = "staging" /\ call[p].renamed = 0
  BY Before DEF AbortBeforeCommit, AllPrepared, CallInv, TempsInv
<1> QED
  BY <1>1, FailQuietly DEF AbortBeforeCommit, Errors

(* a mkdir that fails, *)
LEMMA MakeDirectoryFailsStep ==
    ASSUME WriterInv, NEW p \in Procs, MakeDirectoryFails(p)
    PROVE  WriterInv' /\ KeepsRenamed
BY FailQuietly DEF MakeDirectoryFails, Stageable, Errors

(* and a rename that fails. *)
LEMMA RenameFailsStep ==
    ASSUME WriterInv, NEW p \in Procs, RenameFails(p)
    PROVE  WriterInv' /\ KeepsRenamed
BY FailQuietly DEF RenameFails, Errors

(* The new entry has another destination than those before it. *)
LEMMA PrepareStep ==
    ASSUME WriterInv, NEW p \in Procs, Prepare(p)
    PROVE  WriterInv' /\ KeepsRenamed
<1> DEFINE c == [call[p] EXCEPT !.pc = "writing"]
           t == Append(temps[p], "none")
           n == Len(temps[p])
<1> USE Before
<1>1. c \in CallRecord
  BY DEF CallRecord, PCs
<1>2. /\ t \in Seq(TempStates) /\ Len(t) = n + 1
      /\ \A i \in 1 .. n : t[i] = temps[p][i]
  BY DEF TempStates
<1>3. /\ c.pc = "writing" /\ c.files = call[p].files /\ c.renamed = call[p].renamed
      /\ c.error = call[p].error /\ c.removing = call[p].removing
      /\ c.rmFailed = call[p].rmFailed
  BY DEF CallRecord
<1>4. /\ call[p].pc = "staging" /\ n + 1 <= Len(c.files)
      /\ \A i \in 1 .. n : c.files[i] # c.files[n + 1]
  BY <1>3 DEF Prepare, Stageable, Next1, Prepared, Repeated
<1>5. CallType(c, t)
  BY <1>1, <1>2, <1>3, <1>4 DEF CallInv, CallType, CallRecord
<1>6. TempsInv(c, t)
  BY <1>2, <1>3, <1>4 DEF CallInv, TempsInv
<1>7. DistinctInv(c, t)
  <2> SUFFICES ASSUME NEW i \in 1 .. n + 1, NEW j \in 1 .. n + 1,
                      c.files[i] = c.files[j]
               PROVE  i = j
    BY <1>2 DEF DistinctInv
  <2>1. \A k, l \in 1 .. n : c.files[k] = c.files[l] => k = l
    BY <1>3 DEF CallInv, DistinctInv
  <2>2. n \in Nat
    OBVIOUS
  <2> HIDE DEF c, t, n
  <2>3. (i \in 1 .. n \/ i = n + 1) /\ (j \in 1 .. n \/ j = n + 1)
    BY <2>2
  <2> QED
    BY <1>4, <2>1, <2>3
<1>8. ErrorInv(c, t)
  BY <1>3, <1>4 DEF CallInv, ErrorInv
<1>9. call' = [call EXCEPT ![p] = c] /\ temps' = [temps EXCEPT ![p] = t] /\ disk' = disk
  BY DEF Prepare, WriterInv, TypeOK
<1>10. CallInv(c, t)
  BY <1>5, <1>6, <1>7, <1>8 DEF CallInv
<1> HIDE DEF c, t
<1> QED
  BY <1>3, <1>9, <1>10, QuietStep

(* The step replaces the k-th temporary of p by v; the result is t. *)
ReplacesTemp(p, k, v, t) ==
    /\ t \in Seq(TempStates)
    /\ Len(t) = Len(temps[p])
    /\ \A j \in 1 .. Len(t) : t[j] = IF j = k THEN v ELSE temps[p][j]
    /\ temps' = [temps EXCEPT ![p] = t]

(* One temporary replaced: their number and the other ones stay. *)
LEMMA SetTemp ==
    ASSUME WriterInv, NEW p \in Procs, NEW k \in 1 .. Len(temps[p]), NEW v \in TempStates,
           temps' = [temps EXCEPT ![p][k] = v]
    PROVE  \E t : ReplacesTemp(p, k, v, t)
<1> DEFINE t == [temps[p] EXCEPT ![k] = v]
<1>1. temps[p] \in Seq(TempStates)
  BY Before
<1>2. /\ t \in Seq(TempStates)
      /\ Len(t) = Len(temps[p])
      /\ \A j \in 1 .. Len(temps[p]) : t[j] = IF j = k THEN v ELSE temps[p][j]
  BY <1>1, ExceptSeq
<1>3. temps' = [temps EXCEPT ![p] = t]
  BY DEF WriterInv, TypeOK
<1>4. ReplacesTemp(p, k, v, t)
  BY <1>2, <1>3 DEF ReplacesTemp
<1> QED
  BY <1>4

(* A finished write makes the last temporary whole. *)
LEMMA WriteTempStep ==
    ASSUME WriterInv, NEW p \in Procs, WriteTemp(p)
    PROVE  WriterInv' /\ KeepsRenamed
<1> DEFINE c == [call[p] EXCEPT !.pc = "staging"]
<1>0. call[p].pc = "writing"
  BY DEF WriteTemp
<1>1. PICK k \in 1 .. Len(temps[p]) : k = Len(temps[p])
  BY <1>0, Before DEF CallInv, TempsInv
<1>2. PICK v \in TempStates : v = "whole" /\ temps' = [temps EXCEPT ![p][k] = v]
  BY <1>1 DEF WriteTemp, Prepared, TempStates
<1>a. PICK t : ReplacesTemp(p, k, v, t)
  BY <1>1, <1>2, SetTemp
<1>3. /\ t \in Seq(TempStates) /\ Len(t) = Len(temps[p])
      /\ \A j \in 1 .. Len(t) : t[j] = IF j = k THEN v ELSE temps[p][j]
      /\ temps' = [temps EXCEPT ![p] = t]
  BY <1>a DEF ReplacesTemp
<1> USE Before
<1>4. c \in CallRecord
  BY DEF CallRecord, PCs
<1>5. /\ c.pc = "staging" /\ c.files = call[p].files /\ c.renamed = call[p].renamed
      /\ c.error = call[p].error /\ c.removing = call[p].removing
      /\ c.rmFailed = call[p].rmFailed
  BY DEF CallRecord
<1>6. CallType(c, t)
  BY <1>3, <1>4, <1>5 DEF CallInv, CallType
<1>7. TempsInv(c, t)
  BY <1>0, <1>1, <1>2, <1>3, <1>5 DEF CallInv, TempsInv
<1>8. DistinctInv(c, t) /\ ErrorInv(c, t)
  BY <1>0, <1>3, <1>5 DEF CallInv, DistinctInv, ErrorInv
<1>9. call' = [call EXCEPT ![p] = c] /\ disk' = disk
  BY DEF WriteTemp, WriterInv, TypeOK
<1>10. CallInv(c, t)
  BY <1>6, <1>7, <1>8 DEF CallInv
<1> HIDE DEF c
<1> QED
  BY <1>3, <1>5, <1>9, <1>10, QuietStep

(* A failed write leaves a temporary the catch block removes. *)
LEMMA WriteTempFailsStep ==
    ASSUME WriterInv, NEW p \in Procs, WriteTempFails(p)
    PROVE  WriterInv' /\ KeepsRenamed
<1> DEFINE k == Len(temps[p])
<1>1. call[p].pc = "writing" /\ call[p].renamed = 0 /\ k \in 1 .. Len(temps[p])
  BY Before DEF WriteTempFails, CallInv, TempsInv
<1>2. PICK left \in TempStates : temps' = [temps EXCEPT ![p][k] = left]
  BY DEF WriteTempFails, Prepared
<1>a. PICK t : ReplacesTemp(p, k, left, t)
  BY <1>1, <1>2, SetTemp
<1>3. t \in Seq(TempStates) /\ Len(t) = Len(temps[p]) /\ temps' = [temps EXCEPT ![p] = t]
  BY <1>a DEF ReplacesTemp
<1>4. PICK why \in {"io", "abort"} : Fail(p, why)
  BY DEF WriteTempFails
<1>5. why \in Errors \ {"none"} /\ disk' = disk
  BY <1>4 DEF Errors, WriteTempFails
<1>6. /\ call[p].pc \in {"staging", "writing", "committing"}
      /\ why \in {"abort", "duplicate"} => call[p].renamed = 0
  BY <1>1
<1> QED
  BY <1>3, <1>4, <1>5, <1>6, FailStep

(* A quiet step of p that leaves the temporaries alone. *)
LEMMA CallStep ==
    ASSUME WriterInv, NEW p \in Procs, NEW c, CallInv(c, temps[p]),
           call' = [call EXCEPT ![p] = c], UNCHANGED <<disk, temps>>,
           c.renamed = call[p].renamed, c.files = call[p].files
    PROVE  WriterInv' /\ KeepsRenamed
<1>1. temps' = [temps EXCEPT ![p] = temps[p]] /\ disk' = disk
  BY Before
<1> QED
  BY <1>1, QuietStep

(* At the commit point every temporary is whole, and the entries differ. *)
LEMMA BeginCommitStep ==
    ASSUME WriterInv, NEW p \in Procs, BeginCommit(p)
    PROVE  WriterInv' /\ KeepsRenamed
<1> DEFINE c == [call[p] EXCEPT !.pc = "committing"]
<1>1. call[p] \in CallRecord /\ CallInv(call[p], temps[p])
  BY Before
<1>2. c \in CallRecord
  BY <1>1 DEF CallRecord, PCs
<1>3. c = [call[p] EXCEPT !.pc = "committing"] /\ c.pc = "committing"
      /\ c.files = call[p].files /\ c.renamed = call[p].renamed
      /\ c.error = call[p].error /\ c.removing = call[p].removing
      /\ c.rmFailed = call[p].rmFailed
  BY <1>1 DEF CallRecord
<1>4. call[p].pc = "staging" /\ Len(temps[p]) = Len(call[p].files)
  BY DEF BeginCommit, AllPrepared, Prepared
<1>5. call' = [call EXCEPT ![p] = c]
  BY DEF BeginCommit, WriterInv, TypeOK
<1> HIDE DEF c
<1>6. CallInv(c, temps[p])
  BY <1>1, <1>2, <1>3, <1>4 DEF CallInv, CallType, TempsInv, DistinctInv, ErrorInv
<1> QED
  BY <1>3, <1>5, <1>6, CallStep DEF BeginCommit

(* The call returns when every temporary has been renamed away. *)
LEMMA ReturnStep ==
    ASSUME WriterInv, NEW p \in Procs, Return(p)
    PROVE  WriterInv' /\ KeepsRenamed
<1> DEFINE c == [call[p] EXCEPT !.pc = "returned"]
<1>1. call[p] \in CallRecord /\ CallInv(call[p], temps[p])
  BY Before
<1>2. c \in CallRecord
  BY <1>1 DEF CallRecord, PCs
<1>3. c.pc = "returned"
      /\ c.files = call[p].files /\ c.renamed = call[p].renamed
      /\ c.error = call[p].error /\ c.removing = call[p].removing
      /\ c.rmFailed = call[p].rmFailed
  BY <1>1 DEF CallRecord
<1>4. call[p].pc = "committing" /\ call[p].renamed = Len(call[p].files)
  BY DEF Return
<1>5. call' = [call EXCEPT ![p] = c]
  BY DEF Return, WriterInv, TypeOK
<1> HIDE DEF c
<1>6. CallInv(c, temps[p])
  BY <1>1, <1>2, <1>3, <1>4 DEF CallInv, CallType, TempsInv, DistinctInv, ErrorInv
<1> QED
  BY <1>3, <1>5, <1>6, CallStep DEF Return

(* Throwing keeps the removals in flight. *)
LEMMA ThrowStep ==
    ASSUME WriterInv, NEW p \in Procs, Throw(p)
    PROVE  WriterInv' /\ KeepsRenamed
<1> DEFINE c == [call[p] EXCEPT !.pc = "threw",
                                !.error = IF call[p].rmFailed THEN "io" ELSE call[p].error]
<1>1. call[p] \in CallRecord /\ CallInv(call[p], temps[p])
  BY Before
<1>2. c \in CallRecord
  BY <1>1 DEF CallRecord, PCs, Errors
<1>3. c.pc = "threw" /\ c.error \in {"io", call[p].error}
      /\ c.files = call[p].files /\ c.renamed = call[p].renamed
      /\ c.removing = call[p].removing /\ c.rmFailed = call[p].rmFailed
  BY <1>1 DEF CallRecord
<1>4. call[p].pc = "cleaning"
  BY DEF Throw
<1>5. call' = [call EXCEPT ![p] = c]
  BY Zenon DEF Throw
<1> HIDE DEF c
<1>6. CallInv(c, temps[p])
  BY <1>1, <1>2, <1>3, <1>4 DEF CallInv, CallType, TempsInv, DistinctInv, ErrorInv
<1> QED
  BY <1>3, <1>5, <1>6, CallStep DEF Throw

(* A removal that fails is remembered in rmFailed. *)
LEMMA RemoveTempFailsStep ==
    ASSUME WriterInv, NEW p \in Procs, RemoveTempFails(p)
    PROVE  WriterInv' /\ KeepsRenamed
<1>0. PICK i \in call[p].removing :
         call' = [call EXCEPT ![p] = [@ EXCEPT !.removing = call[p].removing \ {i},
                                               !.rmFailed = TRUE]]
  BY DEF RemoveTempFails
<1> DEFINE c == [call[p] EXCEPT !.removing = call[p].removing \ {i}, !.rmFailed = TRUE]
<1>1. call[p] \in CallRecord /\ CallInv(call[p], temps[p])
  BY Before
<1>2. c \in CallRecord
  BY <1>1 DEF CallRecord
<1>3. c.pc = call[p].pc /\ c.error = call[p].error
      /\ c.files = call[p].files /\ c.renamed = call[p].renamed
      /\ c.removing = call[p].removing \ {i} /\ c.rmFailed
  BY <1>1 DEF CallRecord
<1>4. call[p].pc \in {"cleaning", "threw"}
  BY DEF RemoveTempFails
<1>5. call' = [call EXCEPT ![p] = c]
  BY <1>0 DEF WriterInv, TypeOK
<1> HIDE DEF c
<1>6. CallInv(c, temps[p])
  BY <1>1, <1>2, <1>3, <1>4 DEF CallInv, CallType, TempsInv, DistinctInv, ErrorInv
<1> QED
  BY <1>3, <1>5, <1>6, CallStep DEF RemoveTempFails

(* The signal changes nothing but the flag, *)
LEMMA SignalStep ==
    ASSUME WriterInv, NEW p \in Procs, call' = [call EXCEPT ![p].aborted = TRUE],
           UNCHANGED <<disk, temps>>
    PROVE  WriterInv' /\ KeepsRenamed
<1> DEFINE c == [call[p] EXCEPT !.aborted = TRUE]
<1>1. call[p] \in CallRecord /\ CallInv(call[p], temps[p])
  BY Before
<1>2. c \in CallRecord
  BY <1>1 DEF CallRecord
<1>3. c.pc = call[p].pc /\ c.error = call[p].error
      /\ c.files = call[p].files /\ c.renamed = call[p].renamed
      /\ c.removing = call[p].removing /\ c.rmFailed = call[p].rmFailed
  BY <1>1 DEF CallRecord
<1>5. call' = [call EXCEPT ![p] = c]
  BY DEF WriterInv, TypeOK
<1> HIDE DEF c
<1>6. CallInv(c, temps[p])
  BY <1>1, <1>2, <1>3 DEF CallInv, CallType, TempsInv, DistinctInv, ErrorInv
<1> QED
  BY <1>3, <1>5, <1>6, CallStep

(* whenever it comes. *)
LEMMA InterruptStep ==
    ASSUME WriterInv, NEW p \in Procs, Interrupt(p)
    PROVE  WriterInv' /\ KeepsRenamed
BY SignalStep DEF Interrupt

(* The end of a process leaves everything as it is, *)
LEMMA EndStep ==
    ASSUME WriterInv, NEW p \in Procs, call[p].files \in Plans,
           call' = [call EXCEPT ![p].pc = "dead"], UNCHANGED <<disk, temps>>
    PROVE  WriterInv' /\ KeepsRenamed
<1> DEFINE c == [call[p] EXCEPT !.pc = "dead"]
<1>1. call[p] \in CallRecord /\ CallInv(call[p], temps[p])
  BY Before
<1>2. c \in CallRecord
  BY <1>1 DEF CallRecord, PCs
<1>3. c.pc = "dead" /\ c.error = call[p].error
      /\ c.files = call[p].files /\ c.renamed = call[p].renamed
      /\ c.removing = call[p].removing /\ c.rmFailed = call[p].rmFailed
  BY <1>1 DEF CallRecord
<1>5. call' = [call EXCEPT ![p] = c]
  BY DEF WriterInv, TypeOK
<1> HIDE DEF c
<1>6. CallInv(c, temps[p])
  BY <1>1, <1>2, <1>3 DEF CallInv, CallType, TempsInv, DistinctInv, ErrorInv
<1> QED
  BY <1>3, <1>5, <1>6, CallStep

(* and so does a kill during the call. *)
LEMMA CrashStep ==
    ASSUME WriterInv, NEW p \in Procs, Crash(p)
    PROVE  WriterInv' /\ KeepsRenamed
<1>1. call[p].files \in Plans
  BY Before DEF Crash, Running, CallInv, TempsInv
<1> QED
  BY <1>1, EndStep DEF Crash

(* A removal that succeeds leaves no temporary at its entry. *)
LEMMA RemoveTempStep ==
    ASSUME WriterInv, NEW p \in Procs, RemoveTemp(p)
    PROVE  WriterInv' /\ KeepsRenamed
<1>0. PICK i \in call[p].removing :
         /\ temps' = [temps EXCEPT ![p][i] = "none"]
         /\ call' = [call EXCEPT ![p].removing = @ \ {i}]
  BY DEF RemoveTemp
<1> DEFINE c == [call[p] EXCEPT !.removing = @ \ {i}]
<1>1. call[p] \in CallRecord /\ CallInv(call[p], temps[p])
  BY Before
<1>2. c \in CallRecord
  BY <1>1 DEF CallRecord
<1>3. c.pc = call[p].pc /\ c.error = call[p].error
      /\ c.files = call[p].files /\ c.renamed = call[p].renamed
      /\ c.removing = call[p].removing \ {i} /\ c.rmFailed = call[p].rmFailed
  BY <1>1 DEF CallRecord
<1>4. call[p].pc \in {"cleaning", "threw"} /\ disk' = disk
  BY DEF RemoveTemp
<1>5. call' = [call EXCEPT ![p] = c]
  BY <1>0 DEF WriterInv, TypeOK
<1> HIDE DEF c
<1>6. i \in 1 .. Len(temps[p])
  BY <1>1 DEF CallInv, CallType
<1>7. PICK v \in TempStates : v = "none" /\ temps' = [temps EXCEPT ![p][i] = v]
  BY <1>0 DEF TempStates
<1>8. PICK t : ReplacesTemp(p, i, v, t)
  BY <1>6, <1>7, SetTemp
<1>9. /\ t \in Seq(TempStates) /\ Len(t) = Len(temps[p])
      /\ \A j \in 1 .. Len(t) : t[j] = IF j = i THEN "none" ELSE temps[p][j]
      /\ temps' = [temps EXCEPT ![p] = t]
  BY <1>7, <1>8 DEF ReplacesTemp
<1>10. CallType(c, t)
  BY <1>1, <1>2, <1>3, <1>6, <1>9 DEF CallInv, CallType, CallRecord
<1>11. TempsInv(c, t) /\ DistinctInv(c, t)
  BY <1>1, <1>3, <1>4, <1>9 DEF CallInv, TempsInv, DistinctInv
<1>12. ErrorInv(c, t)
  BY <1>1, <1>3, <1>4, <1>9 DEF CallInv, ErrorInv
<1>13. CallInv(c, t)
  BY <1>10, <1>11, <1>12 DEF CallInv
<1> QED
  BY <1>3, <1>4, <1>5, <1>9, <1>13, QuietStep

(* The step renames the next file of p's plan, a whole one, into place. *)
Places(p) ==
    /\ call[p].pc = "committing"
    /\ call[p].renamed + 1 \in 1 .. Len(temps[p])
    /\ disk' = [disk EXCEPT ![call[p].files[call[p].renamed + 1]] =
                                Content(p, call[p].renamed + 1)]
    /\ call' = [call EXCEPT ![p].renamed = @ + 1]

(* The only step that changes the disk. *)
LEMMA RenameStep ==
    ASSUME WriterInv, NEW p \in Procs, Rename(p)
    PROVE  WriterInv' /\ Places(p)
<1> DEFINE i == call[p].renamed + 1
           c == [call[p] EXCEPT !.renamed = @ + 1]
           f == call[p].files[i]
<1>1. call[p] \in CallRecord /\ CallInv(call[p], temps[p]) /\ temps[p] \in Seq(TempStates)
      /\ Len(temps[p]) \in Nat
  BY Before
<1>2. call[p].pc = "committing" /\ i <= Len(call[p].files) /\ Renamed(p, i)
  <2>1. call[p].renamed \in Nat /\ Len(call[p].files) \in Nat
    BY Before DEF CallRecord
  <2> QED
    BY <2>1 DEF Rename
<1>3. /\ call[p].renamed \in Nat /\ i \in 1 .. Len(temps[p]) /\ temps[p][i] = "whole"
      /\ f \in Paths
  BY <1>1, <1>2, FilesType DEF CallInv, TempsInv, CallRecord
<1>4. disk' = [disk EXCEPT ![f] = Content(p, i)]
  BY <1>2, <1>3 DEF Renamed
<1>5. c \in CallRecord
  BY <1>1 DEF CallRecord
<1>6. c.pc = call[p].pc /\ c.error = call[p].error
      /\ c.files = call[p].files /\ c.renamed = i
      /\ c.removing = call[p].removing /\ c.rmFailed = call[p].rmFailed
  BY <1>1 DEF CallRecord
<1>7. call' = [call EXCEPT ![p] = c]
  BY <1>2 DEF Renamed, WriterInv, TypeOK
<1>8. PICK v \in TempStates : v = "none" /\ temps' = [temps EXCEPT ![p][i] = v]
  BY <1>2 DEF Renamed, TempStates
<1> HIDE DEF c
<1>9. PICK t : ReplacesTemp(p, i, v, t)
  <2> HIDE DEF i
  <2> QED
    BY <1>3, <1>8, SetTemp
<1>10. /\ t \in Seq(TempStates) /\ Len(t) = Len(temps[p])
       /\ \A j \in 1 .. Len(t) : t[j] = IF j = i THEN "none" ELSE temps[p][j]
       /\ temps' = [temps EXCEPT ![p] = t]
  BY <1>8, <1>9 DEF ReplacesTemp
<1>11. CallInv(c, t)
  <2>1. CallType(c, t)
    BY <1>1, <1>3, <1>5, <1>6, <1>10 DEF CallInv, CallType
  <2>2. TempsInv(c, t)
    BY <1>1, <1>2, <1>3, <1>6, <1>10 DEF CallInv, TempsInv
  <2>3. DistinctInv(c, t)
    BY <1>1, <1>6, <1>10 DEF CallInv, DistinctInv
  <2>4. ErrorInv(c, t)
    BY <1>1, <1>2, <1>6, <1>10 DEF CallInv, ErrorInv
  <2> QED
    BY <2>1, <2>2, <2>3, <2>4 DEF CallInv
<1>12. disk' \in [Paths -> AllContents]
  <2>1. Content(p, i) \in AllContents
    BY <1>3 DEF Content, AllContents
  <2> QED
    BY <1>4, <2>1 DEF WriterInv, TypeOK
<1>13. /\ TypeOK'
       /\ \A q \in Procs : CallInv(call'[q], temps'[q])
       /\ call'[p] = c
       /\ \A q \in Procs \ {p} : call'[q] = call[q]
  BY <1>7, <1>10, <1>11, <1>12, LocalStep DEF WriterInv
<1>14. disk'[f] = Content(p, i) /\ \A g \in Paths \ {f} : disk'[g] = disk[g]
  BY <1>3, <1>4 DEF WriterInv, TypeOK
<1>15. \A q \in Procs : call'[q].files = call[q].files /\ call[q].renamed \in Nat
  BY <1>6, <1>13 DEF WriterInv, TypeOK, CallRecord
<1>16. \A q \in Procs : \A k \in 1 .. call'[q].renamed :
          k \in 1 .. call[q].renamed \/ (q = p /\ k = i)
  BY <1>3, <1>6, <1>13, <1>15
<1> HIDE DEF i, f
<1>17. DiskInv'
  <2> SUFFICES ASSUME NEW g \in Paths, disk'[g] # Absent
               PROVE  \E q \in Procs : \E k \in 1 .. call'[q].renamed :
                         disk'[g] = Content(q, k) /\ call'[q].files[k] = g
    BY DEF DiskInv, Content
  <2>1. CASE g = f
    <3>1. i \in 1 .. call'[p].renamed
      BY <1>3, <1>6, <1>13
    <3>2. call'[p].files[i] = f
      BY <1>15 DEF f
    <3> QED
      BY <2>1, <3>1, <3>2, <1>14
  <2>2. CASE g # f
    <3>1. disk'[g] = disk[g]
      BY <2>2, <1>14
    <3>2. PICK q \in Procs : \E k \in 1 .. call[q].renamed :
             disk[g] = Content(q, k) /\ call[q].files[k] = g
      BY <3>1 DEF WriterInv, DiskInv
    <3>3. PICK k \in 1 .. call[q].renamed :
             disk[g] = Content(q, k) /\ call[q].files[k] = g
      BY <3>2
    <3>4. k \in 1 .. call'[q].renamed
      BY <1>3, <1>6, <1>13, <1>15 DEF i
    <3> QED
      BY <3>1, <3>3, <3>4, <1>15
  <2> QED
    BY <2>1, <2>2
<1>18. Places(p)
  BY <1>2, <1>3, <1>4 DEF Places, Renamed, i, f
<1> QED
  BY <1>13, <1>17, <1>18 DEF WriterInv

(* The new file has another destination than those renamed before it, so the
   contents of those stay. *)
LEMMA PlacesInOrder ==
    ASSUME WriterInv, OrderInv, NEW p \in Procs, Places(p)
    PROVE  OrderInv'
<1> DEFINE i == call[p].renamed + 1
           f == call[p].files[i]
<1>1. call[p] \in CallRecord /\ CallInv(call[p], temps[p]) /\ Len(temps[p]) \in Nat
      /\ Len(call[p].files) \in Nat
  BY Before
<1>2. i \in 1 .. Len(temps[p]) /\ call[p].renamed \in Nat
  BY <1>1 DEF Places, CallRecord
<1>3. i \in 1 .. Len(call[p].files) /\ f \in Paths
  BY <1>1, <1>2, FilesType DEF CallInv, CallType
<1>4. disk' = [disk EXCEPT ![f] = Content(p, i)]
  BY DEF Places
<1>14. disk'[f] = Content(p, i) /\ \A g \in Paths \ {f} : disk'[g] = disk[g]
  BY <1>3, <1>4 DEF WriterInv, TypeOK
<1>15. \A q \in Procs :
          /\ call'[q].files = call[q].files /\ call[q].renamed \in Nat
          /\ call'[q].renamed = IF q = p THEN i ELSE call[q].renamed
  BY DEF Places, WriterInv, TypeOK, CallRecord
<1>16. \A q \in Procs : \A k \in 1 .. call'[q].renamed :
          k \in 1 .. call[q].renamed \/ (q = p /\ k = i)
  BY <1>2, <1>15
<1> HIDE DEF i, f
<1>17. OrderInv'
  <2> SUFFICES ASSUME NEW q \in Procs, NEW k \in 1 .. call'[q].renamed
               PROVE  \/ disk'[call'[q].files[k]] = Content(q, k)
                      \/ \E r \in Procs \ {q} : call'[q].files[k] \in PublishedBy(r)'
    BY DEF OrderInv, Content
  <2> DEFINE g == call[q].files[k]
  <2>1. call'[q].files[k] = g
    BY <1>15
  <2>2. CASE q = p /\ k = i
    BY <2>1, <2>2, <1>14 DEF f
  <2>3. CASE k \in 1 .. call[q].renamed /\ g # f
    <3>1. g \in Paths
      <4>1. call[q] \in CallRecord /\ Len(call[q].files) \in Nat /\ Len(temps[q]) \in Nat
            /\ \A j \in 1 .. Len(call[q].files) : call[q].files[j] \in Paths
        BY Before
      <4>2. call[q].renamed <= Len(call[q].files) /\ call[q].renamed \in Nat
        BY <4>1, Before DEF CallInv, CallType, CallRecord
      <4> QED
        BY <4>1, <4>2, <2>3
    <3>2. disk'[g] = disk[g]
      BY <2>3, <3>1, <1>14
    <3>3. \/ disk[g] = Content(q, k)
          \/ \E r \in Procs \ {q} : g \in PublishedBy(r)
      BY <2>3 DEF OrderInv
    <3>4. \A r \in Procs : g \in PublishedBy(r) => g \in PublishedBy(r)'
      BY <3>2 DEF PublishedBy
    <3> QED
      BY <2>1, <3>2, <3>3, <3>4
  <2>4. CASE k \in 1 .. call[q].renamed /\ g = f
    <3>1. q # p
      <4>1. \A a, b \in 1 .. Len(temps[p]) : call[p].files[a] = call[p].files[b] => a = b
        BY <1>1 DEF CallInv, DistinctInv
      <4>2. ASSUME q = p PROVE FALSE
        <5>1. k \in 1 .. Len(temps[p]) /\ k # i
          BY <4>2, <2>4, <1>2 DEF i
        <5>2. call[p].files[k] = call[p].files[i]
          BY <4>2, <2>4 DEF f
        <5> QED
          BY <5>1, <5>2, <4>1, <1>2
      <4> QED
        BY <4>2
    <3>2. f \in PublishedBy(p)'
      <4>1. i \in Nat
        BY <1>2 DEF i
      <4>2. disk'[f] \in {p} \X Nat
        BY <4>1, <1>14 DEF Content
      <4> QED
        BY <4>2, <1>3 DEF PublishedBy
    <3> QED
      BY <2>1, <2>4, <3>1, <3>2
  <2> QED
    BY <2>2, <2>3, <2>4, <1>16
<1> QED
  BY <1>17

(* What a step of p's call, or an I/O error in it, does to the call. *)
LEMMA CallAdvances ==
    ASSUME WriterInv, NEW p \in Procs, Step(p) \/ IOError(p)
    PROVE  /\ \A q \in Procs \ {p} : call'[q] = call[q]
           /\ call'[p].files = call[p].files
           /\ call[p].pc \in {"staging", "writing", "committing", "cleaning", "threw"}
           /\ call'[p].pc \in {"staging", "writing", "committing", "cleaning",
                                "returned", "threw"}
           /\ call[p].pc = "threw" => call[p].removing # {} /\ call'[p].pc = "threw"
<1> DEFINE Advances ==
      /\ \A q \in Procs \ {p} : call'[q] = call[q]
      /\ call'[p].files = call[p].files
      /\ call[p].pc \in {"staging", "writing", "committing", "cleaning", "threw"}
      /\ call'[p].pc \in {"staging", "writing", "committing", "cleaning",
                           "returned", "threw"}
      /\ call[p].pc = "threw" => call[p].removing # {} /\ call'[p].pc = "threw"
<1>0. call \in [Procs -> CallRecord]
  BY DEF WriterInv, TypeOK
<1>1. CASE \E why \in Errors : Fail(p, why) /\ Running(p)
  BY <1>0, <1>1 DEF Fail, Running, CallRecord
<1>2. CASE StageRefused(p) \/ AbortBeforeCommit(p) \/ MakeDirectoryFails(p)
           \/ WriteTempFails(p) \/ RenameFails(p)
  <2>1. \E why \in Errors : Fail(p, why)
    BY <1>2 DEF StageRefused, AbortBeforeCommit, MakeDirectoryFails, WriteTempFails,
                RenameFails, Errors
  <2>2. Running(p)
    BY <1>2 DEF StageRefused, AbortBeforeCommit, AllPrepared, MakeDirectoryFails, Stageable,
                WriteTempFails, RenameFails, Running
  <2> QED
    BY <1>1, <2>1, <2>2
<1>3. CASE Prepare(p)
  BY <1>0, <1>3 DEF Prepare, Stageable, CallRecord
<1>4. CASE WriteTemp(p)
  BY <1>0, <1>4 DEF WriteTemp, CallRecord
<1>5. CASE BeginCommit(p)
  BY <1>0, <1>5 DEF BeginCommit, AllPrepared, CallRecord
<1>6. CASE Rename(p)
  BY <1>0, <1>6 DEF Rename, Renamed, CallRecord
<1>7. CASE Return(p)
  BY <1>0, <1>7 DEF Return, CallRecord
<1>8. CASE RemoveTemp(p)
  BY <1>0, <1>8 DEF RemoveTemp, CallRecord
<1>9. CASE Throw(p)
  <2>1. call' = [call EXCEPT ![p] = [call[p] EXCEPT
                    !.pc = "threw",
                    !.error = IF call[p].rmFailed THEN "io" ELSE call[p].error]]
    BY <1>9, Zenon DEF Throw
  <2>2. call[p].pc = "cleaning"
    BY <1>9 DEF Throw
  <2> QED
    BY <1>0, <2>1, <2>2 DEF CallRecord
<1>10. CASE RemoveTempFails(p)
  BY <1>0, <1>10 DEF RemoveTempFails, CallRecord
<1>11. Advances
  BY <1>2, <1>3, <1>4, <1>5, <1>6, <1>7, <1>8, <1>9, <1>10
  DEF Step, Stage, Commit, CleanUp, IOError
<1> QED
  BY <1>11

(* Only an I/O error makes a call fail on one. *)
LEMMA StepIsFaultless ==
    ASSUME WriterInv, NEW p \in Procs,
           \/ Step(p)
           \/ \E why \in {"abort", "duplicate"} : Fail(p, why),
           call[p].error # "io", ~call[p].rmFailed
    PROVE  call'[p].error # "io" /\ ~call'[p].rmFailed
<1>0. call \in [Procs -> CallRecord]
  BY DEF WriterInv, TypeOK
<1>1. CASE \E why \in {"abort", "duplicate"} : Fail(p, why)
  BY <1>0, <1>1 DEF Fail, CallRecord
<1>2. CASE StageRefused(p) \/ AbortBeforeCommit(p)
  BY <1>1, <1>2 DEF StageRefused, AbortBeforeCommit
<1>3. CASE Prepare(p)
  BY <1>0, <1>3 DEF Prepare, CallRecord
<1>4. CASE WriteTemp(p)
  BY <1>0, <1>4 DEF WriteTemp, CallRecord
<1>5. CASE BeginCommit(p)
  BY <1>0, <1>5 DEF BeginCommit, CallRecord
<1>6. CASE Rename(p)
  BY <1>0, <1>6 DEF Rename, Renamed, CallRecord
<1>7. CASE Return(p)
  BY <1>0, <1>7 DEF Return, CallRecord
<1>8. CASE RemoveTemp(p)
  BY <1>0, <1>8 DEF RemoveTemp, CallRecord
<1>9. CASE Throw(p)
  <2>1. call' = [call EXCEPT ![p] = [call[p] EXCEPT
                    !.pc = "threw",
                    !.error = IF call[p].rmFailed THEN "io" ELSE call[p].error]]
    BY <1>9, Zenon DEF Throw
  <2> QED
    BY <1>0, <2>1 DEF CallRecord
<1> QED
  BY <1>1, <1>2, <1>3, <1>4, <1>5, <1>6, <1>7, <1>8, <1>9 DEF Step, Stage, Commit, CleanUp

----------------------------------------------------------------------------
(* The theorems.                                                            *)

(* An I/O error renames nothing. *)
LEMMA ErrorRenamesNothing ==
    ASSUME WriterInv, NEW p \in Procs, IOError(p)
    PROVE  WriterInv' /\ KeepsRenamed
BY MakeDirectoryFailsStep, WriteTempFailsStep, RenameFailsStep, RemoveTempFailsStep
   DEF IOError

(* The invariant holds at the start, *)
LEMMA InitInv == Init => IInv
<1> SUFFICES ASSUME Init PROVE IInv
  OBVIOUS
<1>1. \A p \in Procs : call[p] = IdleCall /\ temps[p] = <<>>
  BY DEF Init
<1>2. IdleCall \in CallRecord /\ <<>> \in Seq(TempStates) /\ Len(<<>>) = 0
  BY EmptySeq DEF IdleCall, CallRecord, PCs, Errors
<1>a. CallInv(IdleCall, <<>>)
  <2>1. /\ IdleCall.pc = "idle" /\ IdleCall.files = <<>> /\ IdleCall.renamed = 0
        /\ IdleCall.removing = {} /\ IdleCall.rmFailed = FALSE
        /\ IdleCall.error = "none"
    BY DEF IdleCall
  <2>2. CallType(IdleCall, <<>>)
    BY <1>2, <2>1 DEF CallType
  <2>3. TempsInv(IdleCall, <<>>) /\ ErrorInv(IdleCall, <<>>)
    BY <2>1 DEF TempsInv, ErrorInv
  <2>4. DistinctInv(IdleCall, <<>>)
    BY <1>2 DEF DistinctInv
  <2> QED
    BY <2>2, <2>3, <2>4 DEF CallInv
<1>3. \A p \in Procs : CallInv(call[p], temps[p])
  BY <1>1, <1>a
<1>4. TypeOK
  <2>1. disk \in [Paths -> AllContents]
    BY DEF Init, AllContents
  <2>2. temps \in [Procs -> Seq(TempStates)] /\ call \in [Procs -> CallRecord]
    BY <1>2 DEF Init
  <2> QED
    BY <2>1, <2>2, <1>3 DEF TypeOK, CallInv, CallType, Prepared
<1>5. DiskInv
  BY DEF Init, DiskInv
<1>6. OrderInv
  BY <1>1 DEF OrderInv, IdleCall
<1> QED
  BY <1>3, <1>4, <1>5, <1>6 DEF IInv, WriterInv

(* and every step keeps the part the commands rely on, and either renames
   nothing or places a file. *)
LEMMA WriterNext ==
    ASSUME WriterInv, NEW p \in Procs,
           \/ \E files \in Plans : Invoke(p, files)
           \/ Step(p) \/ IOError(p) \/ Interrupt(p) \/ Crash(p)
    PROVE  WriterInv' /\ (KeepsRenamed \/ Places(p))
<1>1. CASE \E files \in Plans : Invoke(p, files)
  BY <1>1, InvokeStep
<1>2. CASE Stage(p)
  BY <1>2, StageRefusedStep, PrepareStep, WriteTempStep DEF Stage
<1>3. CASE Commit(p)
  BY <1>3, BeginCommitStep, AbortBeforeCommitStep, RenameStep, ReturnStep DEF Commit
<1>4. CASE CleanUp(p)
  BY <1>4, RemoveTempStep, ThrowStep DEF CleanUp
<1>5. CASE IOError(p)
  BY <1>5, ErrorRenamesNothing
<1>6. CASE Interrupt(p) \/ Crash(p)
  BY <1>6, InterruptStep, CrashStep
<1> QED
  BY <1>1, <1>2, <1>3, <1>4, <1>5, <1>6 DEF Step

(* So every step keeps the invariant. *)
LEMMA NextInv == IInv /\ [Next]_vars => IInv'
<1> SUFFICES ASSUME IInv, [Next]_vars PROVE IInv'
  OBVIOUS
<1>1. CASE UNCHANGED vars
  BY <1>1 DEF vars, IInv, WriterInv, TypeOK, Prepared, DiskInv, OrderInv, PublishedBy,
              Content
<1>2. CASE Next
  BY <1>2, WriterNext, SameOrder, PlacesInOrder DEF Next, IInv
<1> QED
  BY <1>1, <1>2

(* The invariant holds in every state the writer reaches. *)
THEOREM Invariance == Spec => []IInv
BY InitInv, NextInv, PTL DEF Spec

(* So does the part without the order of the renames. *)
LEMMA WriterInvariance == Spec => []WriterInv
<1>1. IInv => WriterInv
  BY DEF IInv
<1> QED
  BY <1>1, Invariance, PTL

(* Type correctness, with the bounds on the counters of a call. *)
THEOREM Typing == Spec => []TypeOK
<1>1. WriterInv => TypeOK
  BY DEF WriterInv
<1> QED
  BY <1>1, WriterInvariance, PTL

(* No destination ever shows a file whose write was cut short. *)
THEOREM WholeFiles == Spec => []WholeFilesOnly
<1>1. WriterInv => WholeFilesOnly
  <2> SUFFICES ASSUME WriterInv, NEW f \in Paths, disk[f] = Torn PROVE FALSE
    BY DEF WholeFilesOnly
  <2>1. PICK q \in Procs : \E i \in 1 .. call[q].renamed : disk[f] = Content(q, i)
    BY MarkersAssumption DEF WriterInv, DiskInv
  <2>2. PICK i \in 1 .. call[q].renamed : Torn = <<q, i>>
    BY <2>1 DEF Content
  <2>3. i \in Nat
    BY DEF WriterInv, TypeOK, CallRecord
  <2> QED
    BY <2>2, <2>3, MarkersAssumption
<1> QED
  BY <1>1, WriterInvariance, PTL

(* A file p's contents are at is one p renamed there. *)
LEMMA OnDisk ==
    ASSUME WriterInv, NEW p \in Procs, NEW f \in PublishedBy(p)
    PROVE  \E i \in 1 .. call[p].renamed :
              disk[f] = Content(p, i) /\ call[p].files[i] = f
<1>1. PICK k \in Nat : disk[f] = <<p, k>> /\ f \in Paths
  BY DEF PublishedBy
<1>2. <<p, k>> \in Procs \X Nat
  OBVIOUS
<1>3. disk[f] # Absent
  BY <1>1, <1>2, MarkersAssumption
<1>4. PICK q \in Procs : \E i \in 1 .. call[q].renamed :
         disk[f] = <<q, i>> /\ call[q].files[i] = f
  BY <1>1, <1>3 DEF WriterInv, DiskInv, Content
<1>5. PICK i \in 1 .. call[q].renamed : <<p, k>> = <<q, i>> /\ call[q].files[i] = f
  BY <1>1, <1>4
<1>6. q = p /\ i = k
  BY <1>5
<1> QED
  BY <1>1, <1>5, <1>6 DEF Content

(* A call that stopped on cancellation or on a repeated destination has
   replaced no file. *)
THEOREM RefusedCalls == Spec => []RefusedCallsPublishNothing
<1>1. WriterInv => RefusedCallsPublishNothing
  <2> SUFFICES ASSUME WriterInv, NEW p \in Procs, call[p].error \in {"abort", "duplicate"},
                      NEW f \in PublishedBy(p)
               PROVE  FALSE
    BY DEF RefusedCallsPublishNothing
  <2>1. call[p].renamed = 0
    BY DEF WriterInv, CallInv, ErrorInv
  <2>2. \E i \in 1 .. call[p].renamed : TRUE
    BY OnDisk
  <2> QED
    BY <2>1, <2>2
<1> QED
  BY <1>1, WriterInvariance, PTL

(* Files appear on disk in plan order. *)
THEOREM PlanOrder == Spec => []EarlierFilesFirst
<1>1. IInv => EarlierFilesFirst
  <2> SUFFICES ASSUME IInv, NEW p \in Procs, NEW i \in 1 .. Len(call[p].files),
                      NEW j \in 1 .. Len(call[p].files),
                      j < i, disk[call[p].files[i]] = Content(p, i)
               PROVE  \/ disk[call[p].files[j]] = Content(p, j)
                      \/ \E q \in Procs \ {p} : call[p].files[j] \in PublishedBy(q)
    BY DEF EarlierFilesFirst
  <2>0. WriterInv
    BY DEF IInv
  <2>1. call[p].files[i] \in Paths /\ Len(call[p].files) \in Nat
    BY <2>0, Before
  <2>2. Content(p, i) # Absent
    BY <2>1, MarkersAssumption DEF Content
  <2>3. PICK q \in Procs : \E k \in 1 .. call[q].renamed : Content(p, i) = Content(q, k)
    BY <2>1, <2>2 DEF IInv, WriterInv, DiskInv
  <2>4. i \in 1 .. call[p].renamed
    BY <2>3 DEF Content
  <2>5. j \in 1 .. call[p].renamed
    BY <2>1, <2>4 DEF IInv, WriterInv, TypeOK, CallRecord
  <2> QED
    BY <2>5 DEF IInv, OrderInv
<1> QED
  BY <1>1, Invariance, PTL

(* Temporaries do not outlive a call whose rm calls all succeeded. *)
THEOREM TempsRemoved == Spec => []NoStrayTemps
<1>1. WriterInv => NoStrayTemps
  <2> SUFFICES ASSUME WriterInv, NEW p \in Procs,
                      \/ call[p].pc = "returned"
                      \/ call[p].pc = "threw" /\ call[p].removing = {} /\ ~call[p].rmFailed,
                      NEW i \in DOMAIN temps[p]
               PROVE  temps[p][i] = "none"
    BY DEF NoStrayTemps
  <2>1. i \in 1 .. Len(temps[p]) /\ CallInv(call[p], temps[p])
    BY Before
  <2>2. CASE call[p].pc = "returned"
    BY <2>1, <2>2 DEF CallInv, TempsInv
  <2>3. CASE call[p].pc = "threw" /\ call[p].removing = {} /\ ~call[p].rmFailed
    BY <2>1, <2>3 DEF CallInv, ErrorInv
  <2> QED
    BY <2>2, <2>3
<1> QED
  BY <1>1, WriterInvariance, PTL

----------------------------------------------------------------------------
(* Refinement of AtomicPublication.                                         *)

(* A step of p changes the mapped state of p only. *)
LEMMA MapUpdate ==
    ASSUME WriterInv, NEW p \in Procs, NEW c, call' = [call EXCEPT ![p] = c]
    PROVE  /\ [q \in Procs |-> PhaseOf(call[q])]' =
                 [[q \in Procs |-> PhaseOf(call[q])] EXCEPT ![p] = PhaseOf(c)]
           /\ [q \in Procs |-> PlanOf(call[q])]' =
                 [[q \in Procs |-> PlanOf(call[q])] EXCEPT ![p] = PlanOf(c)]
           /\ [q \in Procs |-> call[q].renamed]' =
                 [[q \in Procs |-> call[q].renamed] EXCEPT ![p] = c.renamed]
<1>1. \A q \in Procs : call'[q] = IF q = p THEN c ELSE call[q]
  BY DEF WriterInv, TypeOK
<1>2. [q \in Procs |-> PhaseOf(call[q])]' =
          [[q \in Procs |-> PhaseOf(call[q])] EXCEPT ![p] = PhaseOf(c)]
  <2>1. \A q \in Procs : PhaseOf(call[q])' = IF q = p THEN PhaseOf(c) ELSE PhaseOf(call[q])
    BY <1>1 DEF PhaseOf
  <2> QED
    BY <2>1
<1>3. [q \in Procs |-> PlanOf(call[q])]' =
          [[q \in Procs |-> PlanOf(call[q])] EXCEPT ![p] = PlanOf(c)]
  <2>1. \A q \in Procs : PlanOf(call[q])' = IF q = p THEN PlanOf(c) ELSE PlanOf(call[q])
    BY <1>1 DEF PlanOf
  <2> QED
    BY <2>1
<1>4. [q \in Procs |-> call[q].renamed]' =
          [[q \in Procs |-> call[q].renamed] EXCEPT ![p] = c.renamed]
  <2>1. \A q \in Procs : call[q].renamed' = IF q = p THEN c.renamed ELSE call[q].renamed
    BY <1>1
  <2> QED
    BY <2>1
<1> QED
  BY <1>2, <1>3, <1>4

(* A step of p that shows nothing. *)
LEMMA Stutter ==
    ASSUME WriterInv, NEW p \in Procs, NEW c, call' = [call EXCEPT ![p] = c], disk' = disk,
           PhaseOf(c) = PhaseOf(call[p]), PlanOf(c) = PlanOf(call[p]),
           c.renamed = call[p].renamed
    PROVE  UNCHANGED Abstract!vars
BY MapUpdate DEF Abstract!vars

(* A step of p that gives its batch up. *)
LEMMA GivenUp ==
    ASSUME WriterInv, NEW p \in Procs, NEW c, call' = [call EXCEPT ![p] = c], disk' = disk,
           call[p].pc \in {"staging", "writing", "committing"},
           c.pc \in {"cleaning", "dead"},
           c.renamed = call[p].renamed
    PROVE  Abstract!Next
<1>1. /\ PhaseOf(call[p]) \in {"open", "committing"}
      /\ PhaseOf(c) = "given up" /\ PlanOf(c) = <<>>
  BY DEF PhaseOf, PlanOf
<1>2. [q \in Procs |-> PhaseOf(call[q])][p] \in {"open", "committing"}
  BY <1>1
<1>3. [q \in Procs |-> call[q].renamed]' = [q \in Procs |-> call[q].renamed]
  BY MapUpdate
<1>4. /\ [q \in Procs |-> PhaseOf(call[q])]' =
            [[q \in Procs |-> PhaseOf(call[q])] EXCEPT ![p] = "given up"]
      /\ [q \in Procs |-> PlanOf(call[q])]' =
            [[q \in Procs |-> PlanOf(call[q])] EXCEPT ![p] = <<>>]
  <2>1. /\ [q \in Procs |-> PhaseOf(call[q])]' =
               [[q \in Procs |-> PhaseOf(call[q])] EXCEPT ![p] = PhaseOf(c)]
        /\ [q \in Procs |-> PlanOf(call[q])]' =
               [[q \in Procs |-> PlanOf(call[q])] EXCEPT ![p] = PlanOf(c)]
    BY MapUpdate
  <2> QED
    BY <1>1, <2>1
<1>5. Abstract!GiveUp(p)
  BY <1>2, <1>3, <1>4 DEF Abstract!GiveUp
<1> QED
  BY <1>5 DEF Abstract!Next

(* Entering the catch block gives the batch up. *)
LEMMA FailMaps ==
    ASSUME WriterInv, NEW p \in Procs, NEW why, Fail(p, why), disk' = disk,
           call[p].pc \in {"staging", "writing", "committing"}
    PROVE  Abstract!Next
<1> DEFINE c == [call[p] EXCEPT !.pc = "cleaning", !.error = why,
                                !.removing = DOMAIN temps[p]]
<1>1. c.pc = "cleaning" /\ c.renamed = call[p].renamed
  BY Before DEF CallRecord
<1>2. call' = [call EXCEPT ![p] = c]
  BY DEF Fail, WriterInv, TypeOK
<1> HIDE DEF c
<1> QED
  BY <1>1, <1>2, GivenUp

(* The step that begins to rename is the commit point. *)
LEMMA BeginCommitMaps ==
    ASSUME WriterInv, NEW p \in Procs, BeginCommit(p)
    PROVE  Abstract!Next
<1> DEFINE c == [call[p] EXCEPT !.pc = "committing"]
           files == call[p].files
<1>1. call[p] \in CallRecord /\ CallInv(call[p], temps[p])
      /\ call[p].pc = "staging" /\ Len(temps[p]) = Len(files) /\ disk' = disk
  BY Before DEF BeginCommit, AllPrepared, Prepared
<1>2. c.pc = "committing" /\ c.files = files /\ c.renamed = call[p].renamed
  BY <1>1 DEF CallRecord
<1>3. call' = [call EXCEPT ![p] = c]
  BY DEF BeginCommit, WriterInv, TypeOK
<1>4. files \in Plans /\ DOMAIN files = 1 .. Len(files)
  <2>1. files \in Seq(Paths)
    BY <1>1, FilesType
  <2> QED
    BY <1>1, <2>1, LenProperties DEF CallInv, TempsInv
<1>5. Abstract!Distinct(files)
  BY <1>1, <1>4 DEF Abstract!Distinct, CallInv, DistinctInv
<1> HIDE DEF c
<1>6. PhaseOf(call[p]) = "open" /\ PhaseOf(c) = "committing" /\ PlanOf(c) = files
  BY <1>1, <1>2 DEF PhaseOf, PlanOf
<1>7. /\ [q \in Procs |-> PhaseOf(call[q])]' =
            [[q \in Procs |-> PhaseOf(call[q])] EXCEPT ![p] = PhaseOf(c)]
      /\ [q \in Procs |-> PlanOf(call[q])]' =
            [[q \in Procs |-> PlanOf(call[q])] EXCEPT ![p] = PlanOf(c)]
  BY <1>3, MapUpdate
<1>8. [q \in Procs |-> call[q].renamed]' = [q \in Procs |-> call[q].renamed]
  BY <1>2, <1>3, MapUpdate
<1> HIDE DEF files
<1>9. Abstract!Commit(p)
  BY <1>1, <1>4, <1>5, <1>6, <1>7, <1>8 DEF Abstract!Commit
<1> QED
  BY <1>9 DEF Abstract!Next

(* A rename puts the next file of the plan in place. *)
LEMMA RenameMaps ==
    ASSUME WriterInv, NEW p \in Procs, Rename(p)
    PROVE  Abstract!Next
<1> DEFINE c == [call[p] EXCEPT !.renamed = @ + 1]
           i == call[p].renamed + 1
<1>1. call[p] \in CallRecord /\ CallInv(call[p], temps[p]) /\ Len(call[p].files) \in Nat
  BY Before
<1>2. /\ call[p].pc = "committing" /\ i <= Len(call[p].files)
      /\ call[p].renamed \in Nat /\ Renamed(p, i)
  BY <1>1 DEF Rename, CallRecord
<1>3. temps[p][i] = "whole"
  BY <1>1, <1>2 DEF CallInv, TempsInv
<1>4. disk' = [disk EXCEPT ![call[p].files[i]] = <<p, i>>]
  BY <1>2, <1>3 DEF Renamed, Content
<1>5. c.pc = "committing" /\ c.files = call[p].files /\ c.renamed = i
  BY <1>1, <1>2 DEF CallRecord
<1>6. call' = [call EXCEPT ![p] = c]
  BY <1>2 DEF Renamed, WriterInv, TypeOK
<1> HIDE DEF c
<1>7. /\ PhaseOf(call[p]) = "committing" /\ PhaseOf(c) = "committing"
      /\ PlanOf(call[p]) = call[p].files /\ PlanOf(c) = call[p].files
  BY <1>2, <1>5 DEF PhaseOf, PlanOf
<1>8. /\ [q \in Procs |-> PhaseOf(call[q])]' =
            [[q \in Procs |-> PhaseOf(call[q])] EXCEPT ![p] = PhaseOf(c)]
      /\ [q \in Procs |-> PlanOf(call[q])]' =
            [[q \in Procs |-> PlanOf(call[q])] EXCEPT ![p] = PlanOf(c)]
      /\ [q \in Procs |-> call[q].renamed]' =
            [[q \in Procs |-> call[q].renamed] EXCEPT ![p] = c.renamed]
  BY <1>6, MapUpdate
<1>9. /\ [q \in Procs |-> PhaseOf(call[q])]' = [q \in Procs |-> PhaseOf(call[q])]
      /\ [q \in Procs |-> PlanOf(call[q])]' = [q \in Procs |-> PlanOf(call[q])]
  <2>1. [q \in Procs |-> PhaseOf(call[q])]' = [q \in Procs |-> PhaseOf(call[q])]
    BY <1>7, <1>8
  <2>2. [q \in Procs |-> PlanOf(call[q])]' = [q \in Procs |-> PlanOf(call[q])]
    BY <1>7, <1>8
  <2> QED
    BY <2>1, <2>2
<1>10. Abstract!Place(p)
  BY <1>2, <1>4, <1>5, <1>7, <1>8, <1>9 DEF Abstract!Place
<1> QED
  BY <1>10 DEF Abstract!Next

(* A call that returns has completed its batch. *)
LEMMA ReturnMaps ==
    ASSUME WriterInv, NEW p \in Procs, Return(p)
    PROVE  Abstract!Next
<1> DEFINE c == [call[p] EXCEPT !.pc = "returned"]
<1>1. call[p] \in CallRecord /\ CallInv(call[p], temps[p])
  BY Before
<1>2. call[p].pc = "committing" /\ call[p].renamed = Len(call[p].files) /\ disk' = disk
  BY DEF Return
<1>3. c.pc = "returned" /\ c.files = call[p].files /\ c.renamed = call[p].renamed
  BY <1>1 DEF CallRecord
<1>4. call' = [call EXCEPT ![p] = c]
  BY DEF Return, WriterInv, TypeOK
<1> HIDE DEF c
<1>5. /\ PhaseOf(call[p]) = "committing" /\ PhaseOf(c) = "complete"
      /\ PlanOf(call[p]) = call[p].files /\ PlanOf(c) = call[p].files
  BY <1>2, <1>3 DEF PhaseOf, PlanOf
<1>6. /\ [q \in Procs |-> PhaseOf(call[q])]' =
            [[q \in Procs |-> PhaseOf(call[q])] EXCEPT ![p] = PhaseOf(c)]
      /\ [q \in Procs |-> PlanOf(call[q])]' =
            [[q \in Procs |-> PlanOf(call[q])] EXCEPT ![p] = PlanOf(c)]
      /\ [q \in Procs |-> call[q].renamed]' =
            [[q \in Procs |-> call[q].renamed] EXCEPT ![p] = c.renamed]
  BY <1>4, MapUpdate
<1>7. /\ [q \in Procs |-> call[q].renamed]' = [q \in Procs |-> call[q].renamed]
      /\ [q \in Procs |-> PlanOf(call[q])]' = [q \in Procs |-> PlanOf(call[q])]
  <2>1. [q \in Procs |-> call[q].renamed]' = [q \in Procs |-> call[q].renamed]
    BY <1>3, <1>6
  <2>2. [q \in Procs |-> PlanOf(call[q])]' = [q \in Procs |-> PlanOf(call[q])]
    BY <1>5, <1>6
  <2> QED
    BY <2>1, <2>2
<1>8. Abstract!Complete(p)
  BY <1>2, <1>5, <1>6, <1>7 DEF Abstract!Complete
<1> QED
  BY <1>8 DEF Abstract!Next

(* A step that only moves the call between points the abstraction does not
   tell apart. *)
LEMMA HiddenMaps ==
    ASSUME WriterInv, NEW p \in Procs,
           \/ \E files \in Plans : Invoke(p, files)
           \/ Prepare(p) \/ WriteTemp(p)
           \/ RemoveTemp(p) \/ RemoveTempFails(p) \/ Throw(p) \/ Interrupt(p)
    PROVE  UNCHANGED Abstract!vars
<1>1. call[p] \in CallRecord
  BY Before
<1>2. CASE \E files \in Plans : Invoke(p, files)
  <2>1. PICK files \in Plans : Invoke(p, files)
    BY <1>2
  <2> DEFINE c == [call[p] EXCEPT !.pc = "staging", !.files = files]
  <2>2. c.pc = "staging" /\ c.renamed = call[p].renamed /\ call[p].pc = "idle"
    BY <1>1, <2>1 DEF CallRecord, Invoke
  <2>3. call' = [call EXCEPT ![p] = c] /\ disk' = disk
    BY <2>1 DEF Invoke, WriterInv, TypeOK
  <2> HIDE DEF c
  <2>4. PhaseOf(c) = PhaseOf(call[p]) /\ PlanOf(c) = PlanOf(call[p])
    BY <2>2 DEF PhaseOf, PlanOf
  <2> QED
    BY <2>2, <2>3, <2>4, Stutter
<1>3. CASE Prepare(p) \/ WriteTemp(p)
  <2>1. PICK pc \in {"writing", "staging"} : call' = [call EXCEPT ![p].pc = pc]
    BY <1>3 DEF Prepare, WriteTemp
  <2> DEFINE c == [call[p] EXCEPT !.pc = pc]
  <2>2. c.pc = pc /\ c.renamed = call[p].renamed /\ call[p].pc \in {"staging", "writing"}
    BY <1>1, <1>3 DEF CallRecord, Prepare, Stageable, WriteTemp
  <2>3. call' = [call EXCEPT ![p] = c] /\ disk' = disk
    BY <1>3, <2>1 DEF WriterInv, TypeOK, Prepare, WriteTemp
  <2> HIDE DEF c
  <2>4. PhaseOf(c) = PhaseOf(call[p]) /\ PlanOf(c) = PlanOf(call[p])
    BY <2>2 DEF PhaseOf, PlanOf
  <2> QED
    BY <2>2, <2>3, <2>4, Stutter
<1>4. CASE RemoveTemp(p)
  <2>1. PICK i : call' = [call EXCEPT ![p].removing = @ \ {i}]
    BY <1>4 DEF RemoveTemp
  <2> DEFINE c == [call[p] EXCEPT !.removing = @ \ {i}]
  <2>2. c.pc = call[p].pc /\ c.renamed = call[p].renamed /\ c.files = call[p].files
    BY <1>1 DEF CallRecord
  <2>3. call' = [call EXCEPT ![p] = c] /\ disk' = disk
    BY <1>4, <2>1 DEF WriterInv, TypeOK, RemoveTemp
  <2> HIDE DEF c
  <2>4. PhaseOf(c) = PhaseOf(call[p]) /\ PlanOf(c) = PlanOf(call[p])
    BY <2>2 DEF PhaseOf, PlanOf
  <2> QED
    BY <2>2, <2>3, <2>4, Stutter
<1>7. CASE RemoveTempFails(p)
  <2>1. PICK i : call' = [call EXCEPT ![p] = [@ EXCEPT !.removing = call[p].removing \ {i},
                                               !.rmFailed = TRUE]]
    BY <1>7 DEF RemoveTempFails
  <2> DEFINE c == [call[p] EXCEPT !.removing = call[p].removing \ {i}, !.rmFailed = TRUE]
  <2>2. c.pc = call[p].pc /\ c.renamed = call[p].renamed /\ c.files = call[p].files
    BY <1>1 DEF CallRecord
  <2>3. call' = [call EXCEPT ![p] = c] /\ disk' = disk
    BY <1>7, <2>1 DEF WriterInv, TypeOK, RemoveTempFails
  <2> HIDE DEF c
  <2>4. PhaseOf(c) = PhaseOf(call[p]) /\ PlanOf(c) = PlanOf(call[p])
    BY <2>2 DEF PhaseOf, PlanOf
  <2> QED
    BY <2>2, <2>3, <2>4, Stutter
<1>5. CASE Throw(p)
  <2> DEFINE c == [call[p] EXCEPT !.pc = "threw",
                                  !.error = IF call[p].rmFailed THEN "io" ELSE call[p].error]
  <2>1. c.pc = "threw" /\ c.renamed = call[p].renamed /\ call[p].pc = "cleaning"
    BY <1>1, <1>5 DEF CallRecord, Throw
  <2>2. call' = [call EXCEPT ![p] = c] /\ disk' = disk
    BY <1>5, Zenon DEF Throw
  <2> HIDE DEF c
  <2>3. PhaseOf(c) = PhaseOf(call[p]) /\ PlanOf(c) = PlanOf(call[p])
    BY <2>1 DEF PhaseOf, PlanOf
  <2> QED
    BY <2>1, <2>2, <2>3, Stutter
<1>6. CASE Interrupt(p)
  <2> DEFINE c == [call[p] EXCEPT !.aborted = TRUE]
  <2>1. c.pc = call[p].pc /\ c.renamed = call[p].renamed /\ c.files = call[p].files
    BY <1>1 DEF CallRecord
  <2>2. call' = [call EXCEPT ![p] = c] /\ disk' = disk
    BY <1>6 DEF Interrupt, WriterInv, TypeOK
  <2> HIDE DEF c
  <2>3. PhaseOf(c) = PhaseOf(call[p]) /\ PlanOf(c) = PlanOf(call[p])
    BY <2>1 DEF PhaseOf, PlanOf
  <2> QED
    BY <2>1, <2>2, <2>3, Stutter
<1> QED
  BY <1>2, <1>3, <1>4, <1>5, <1>6, <1>7

(* A process killed in its catch block had given its batch up already. *)
LEMMA CrashMaps ==
    ASSUME WriterInv, NEW p \in Procs, Crash(p)
    PROVE  Abstract!Next \/ UNCHANGED Abstract!vars
<1> DEFINE c == [call[p] EXCEPT !.pc = "dead"]
<1>1. c.pc = "dead" /\ c.renamed = call[p].renamed
  BY Before DEF CallRecord
<1>2. call' = [call EXCEPT ![p] = c] /\ disk' = disk
  BY DEF Crash, WriterInv, TypeOK
<1> HIDE DEF c
<1>3. CASE call[p].pc \in {"staging", "writing", "committing"}
  BY <1>1, <1>2, <1>3, GivenUp
<1>4. CASE call[p].pc = "cleaning"
  <2>1. PhaseOf(c) = PhaseOf(call[p]) /\ PlanOf(c) = PlanOf(call[p])
    BY <1>1, <1>4 DEF PhaseOf, PlanOf
  <2> QED
    BY <1>1, <1>2, <2>1, Stutter
<1> QED
  BY <1>3, <1>4 DEF Crash, Running

(* The initial states map to initial states, *)
LEMMA InitMaps == Init => Abstract!Init
<1> SUFFICES ASSUME Init PROVE Abstract!Init
  OBVIOUS
<1>1. \A p \in Procs : call[p] = IdleCall
  BY DEF Init
<1>2. IdleCall.pc = "idle" /\ IdleCall.renamed = 0
  BY DEF IdleCall
<1>3. \A p \in Procs : PhaseOf(call[p]) = "open" /\ PlanOf(call[p]) = <<>>
                       /\ call[p].renamed = 0
  BY <1>1, <1>2 DEF PhaseOf, PlanOf
<1> QED
  BY <1>3 DEF Abstract!Init, Init

(* and every step maps to a step of the batch promise, or to none. *)
LEMMA NextMaps == WriterInv /\ [Next]_vars => [Abstract!Next]_(Abstract!vars)
<1> SUFFICES ASSUME WriterInv, [Next]_vars
             PROVE  Abstract!Next \/ UNCHANGED Abstract!vars
  OBVIOUS
<1>1. CASE UNCHANGED vars
  BY <1>1 DEF vars, Abstract!vars, PhaseOf, PlanOf
<1>2. CASE Next
  <2>1. PICK p \in Procs :
           \/ \E files \in Plans : Invoke(p, files)
           \/ Step(p) \/ IOError(p) \/ Interrupt(p) \/ Crash(p)
    BY <1>2 DEF Next
  <2>2. CASE StageRefused(p) \/ AbortBeforeCommit(p) \/ MakeDirectoryFails(p)
             \/ WriteTempFails(p) \/ RenameFails(p)
    <3>1. \E why : Fail(p, why)
      BY <2>2 DEF StageRefused, AbortBeforeCommit, MakeDirectoryFails, WriteTempFails,
                  RenameFails
    <3>2. call[p].pc \in {"staging", "writing", "committing"} /\ disk' = disk
      BY <2>2 DEF StageRefused, AbortBeforeCommit, MakeDirectoryFails, WriteTempFails,
                  RenameFails, AllPrepared, Stageable
    <3> QED
      BY <3>1, <3>2, FailMaps
  <2>3. CASE \/ \E files \in Plans : Invoke(p, files)
             \/ Prepare(p) \/ WriteTemp(p)
             \/ RemoveTemp(p) \/ RemoveTempFails(p) \/ Throw(p) \/ Interrupt(p)
    BY <2>3, HiddenMaps
  <2>4. CASE BeginCommit(p) \/ Rename(p) \/ Return(p) \/ Crash(p)
    BY <2>4, BeginCommitMaps, RenameMaps, ReturnMaps, CrashMaps
  <2> QED
    BY <2>1, <2>2, <2>3, <2>4 DEF Step, Stage, Commit, CleanUp, IOError
<1> QED
  BY <1>1, <1>2

(* The writer keeps the promise of AtomicPublication: seen from its callers, a
   batch commits at one point and then appears file by file, in order. *)
THEOREM Implementation == Spec => ImplementsAtomicPublication
BY InitMaps, NextMaps, WriterInvariance, PTL DEF Spec, Abstract!Spec, ImplementsAtomicPublication
=============================================================================
