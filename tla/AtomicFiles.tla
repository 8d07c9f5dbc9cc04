---------------------------- MODULE AtomicFiles ----------------------------
(***************************************************************************)
(* The batch writer every command publishes through                        *)
(* (src/src/output/atomic-files.ts, writeTextFilesAtomically).             *)
(*                                                                         *)
(* A call stages every file of its plan under a temporary name beside the  *)
(* destination, then renames the temporaries in plan order.  Staging stops *)
(* on cancellation, on a destination named twice and on an I/O error; the  *)
(* renames stop on an I/O error only.  Every stop removes the temporaries. *)
(*                                                                         *)
(* Each element of Procs is one process making one call, so a process's    *)
(* SIGINT is the abort signal of its call.  Processes share the disk.  The *)
(* contents of the i-th file of p's plan are the pair <<p, i>>.            *)
(***************************************************************************)
EXTENDS Naturals, Sequences, FiniteSets

CONSTANTS
    Procs,      \* processes, each making one call
    Paths,      \* destination paths
    Plans,      \* plans a call may be given: sequences of paths
    Absent,     \* no file at a path
    Torn        \* contents of a file whose write was cut short

ASSUME PlansAssumption == Plans \subseteq Seq(Paths)
ASSUME MarkersAssumption ==
    /\ Absent # Torn
    /\ Absent \notin Procs \X Nat
    /\ Torn \notin Procs \X Nat

VARIABLES
    disk,       \* contents at each destination path
    temps,      \* temps[p]: the temporary file of each entry pushed on `prepared`
    call        \* call[p]: the state of p's call

vars == <<disk, temps, call>>

\* Where a call is: inside the loop that stages ("staging" between entries,
\* "writing" while a temporary is written), in the rename loop, in the catch
\* block, or over.
PCs == {"idle", "staging", "writing", "committing", "cleaning",
        "returned", "threw", "dead"}

\* The error a call ended on.
Errors == {"none", "abort", "duplicate", "io"}

CallRecord ==
    [ pc       : PCs,
      files    : Plans \cup {<<>>},   \* destinations, in plan order
      renamed  : Nat,                 \* entries renamed into place
      removing : SUBSET Nat,          \* entries whose rm is still in flight
      rmFailed : BOOLEAN,             \* some rm of the catch block failed
      aborted  : BOOLEAN,             \* signal.aborted
      error    : Errors ]

IdleCall ==
    [ pc |-> "idle", files |-> <<>>, renamed |-> 0,
      removing |-> {}, rmFailed |-> FALSE, aborted |-> FALSE, error |-> "none" ]

Running(p) == call[p].pc \in {"staging", "writing", "committing", "cleaning"}

Content(p, i) == <<p, i>>

AllContents == {Absent, Torn} \cup (Procs \X Nat)

\* A temporary holds nothing, part of its contents, or all of them.
TempStates == {"none", "part", "whole"}

Init ==
    /\ disk = [f \in Paths |-> Absent]
    /\ temps = [p \in Procs |-> <<>>]
    /\ call = [p \in Procs |-> IdleCall]

----------------------------------------------------------------------------
(* The catch block: every prepared entry's temporary is removed, all of    *)
(* them at once, and the error is thrown again.                            *)

\* Wrong: forgets the entry pushed last.
FailForgetsLast(p, why) ==
    call' = [call EXCEPT ![p] = [@ EXCEPT !.pc = "cleaning",
                                          !.error = why,
                                          !.removing = 1 .. (Len(temps[p]) - 1)]]

Fail(p, why) ==
    call' = [call EXCEPT ![p] = [@ EXCEPT !.pc = "cleaning",
                                          !.error = why,
                                          !.removing = DOMAIN temps[p]]]

Prepared(p) == Len(temps[p])         \* entries pushed on `prepared`
Next1(p) == Prepared(p) + 1          \* the plan index to stage next

\* Wrong: compares with all entries but the one just before.
RepeatedSkipsNeighbour(files, i) == \E j \in 1 .. (i - 2) : files[j] = files[i]

\* `destinations.has(destination)`: an earlier entry has the same path.
Repeated(files, i) == \E j \in 1 .. (i - 1) : files[j] = files[i]

Invoke(p, files) ==
    /\ call[p].pc = "idle"
    /\ call' = [call EXCEPT ![p] = [@ EXCEPT !.pc = "staging", !.files = files]]
    /\ UNCHANGED <<disk, temps>>

\* The abort check comes before the duplicate check; both leave the loop
\* before the entry is pushed on `prepared`.
StageRefused(p) ==
    /\ call[p].pc = "staging"
    /\ Next1(p) <= Len(call[p].files)
    /\ \/ /\ call[p].aborted
          /\ Fail(p, "abort")
       \/ /\ ~call[p].aborted
          /\ Repeated(call[p].files, Next1(p))
          /\ Fail(p, "duplicate")
    /\ UNCHANGED <<disk, temps>>

\* Wrong: the loop runs one entry too far.
StageablePastTheEnd(p) ==
    /\ call[p].pc = "staging"
    /\ Next1(p) <= Len(call[p].files) + 1
    /\ ~Repeated(SubSeq(call[p].files, 1, Prepared(p)), Prepared(p))

Stageable(p) ==
    /\ call[p].pc = "staging"
    /\ Next1(p) <= Len(call[p].files)
    /\ ~Repeated(call[p].files, Next1(p))

MakeDirectoryFails(p) ==
    /\ Stageable(p)
    /\ ~call[p].aborted
    /\ Fail(p, "io")
    /\ UNCHANGED <<disk, temps>>

\* mkdir, then the entry is pushed before its temporary is written.
Prepare(p) ==
    /\ Stageable(p)
    /\ ~call[p].aborted
    /\ temps' = [temps EXCEPT ![p] = Append(@, "none")]
    /\ call' = [call EXCEPT ![p].pc = "writing"]
    /\ UNCHANGED disk

WriteTemp(p) ==
    /\ call[p].pc = "writing"
    /\ temps' = [temps EXCEPT ![p][Prepared(p)] = "whole"]
    /\ call' = [call EXCEPT ![p].pc = "staging"]
    /\ UNCHANGED disk

\* Wrong: the rejection of writeFile is swallowed.
WriteTempFailsUnnoticed(p) ==
    /\ call[p].pc = "writing"
    /\ \E left \in TempStates :
          temps' = [temps EXCEPT ![p][Prepared(p)] = left]
    /\ call' = [call EXCEPT ![p].pc = "staging"]
    /\ UNCHANGED disk

\* writeFile rejects, on an I/O error or because the signal fired while it
\* ran; what it had written so far stays behind.
WriteTempFails(p) ==
    /\ call[p].pc = "writing"
    /\ \E left \in TempStates :
          temps' = [temps EXCEPT ![p][Prepared(p)] = left]
    /\ \/ Fail(p, "io")
       \/ call[p].aborted /\ Fail(p, "abort")
    /\ UNCHANGED disk

AllPrepared(p) ==
    /\ call[p].pc = "staging"
    /\ Prepared(p) = Len(call[p].files)

\* The last abort check: past it the signal is not looked at again.
BeginCommit(p) ==
    /\ AllPrepared(p)
    /\ ~call[p].aborted
    /\ call' = [call EXCEPT ![p].pc = "committing"]
    /\ UNCHANGED <<disk, temps>>

AbortBeforeCommit(p) ==
    /\ AllPrepared(p)
    /\ call[p].aborted
    /\ Fail(p, "abort")
    /\ UNCHANGED <<disk, temps>>

\* rename moves whatever the temporary holds over the destination.
Renamed(p, i) ==
    /\ temps[p][i] # "none"
    /\ disk' = [disk EXCEPT ![call[p].files[i]] =
                    IF temps[p][i] = "whole" THEN Content(p, i) ELSE Torn]
    /\ temps' = [temps EXCEPT ![p][i] = "none"]
    /\ call' = [call EXCEPT ![p].renamed = @ + 1]

\* Wrong: the renames run concurrently.
RenameAnyOrder(p) ==
    /\ call[p].pc = "committing"
    /\ \E i \in DOMAIN call[p].files : Renamed(p, i)

\* Wrong: the signal is still looked at between two renames.
RenameUnlessAborted(p) ==
    /\ call[p].pc = "committing"
    /\ call[p].renamed < Len(call[p].files)
    /\ IF call[p].aborted
       THEN Fail(p, "abort") /\ UNCHANGED <<disk, temps>>
       ELSE Renamed(p, call[p].renamed + 1)

\* One rename after the other.
Rename(p) ==
    /\ call[p].pc = "committing"
    /\ call[p].renamed < Len(call[p].files)
    /\ Renamed(p, call[p].renamed + 1)

RenameFails(p) ==
    /\ call[p].pc = "committing"
    /\ call[p].renamed < Len(call[p].files)
    /\ Fail(p, "io")
    /\ UNCHANGED <<disk, temps>>

Return(p) ==
    /\ call[p].pc = "committing"
    /\ call[p].renamed = Len(call[p].files)
    /\ call' = [call EXCEPT ![p].pc = "returned"]
    /\ UNCHANGED <<disk, temps>>

\* One of the concurrent rm calls settles.  With `force` a temporary that
\* is already gone is no error.  Promise.all rejects on the first failure,
\* so the others may settle after the call has thrown.
RemoveTemp(p) ==
    /\ call[p].pc \in {"cleaning", "threw"}
    /\ \E i \in call[p].removing :
          /\ temps' = [temps EXCEPT ![p][i] = "none"]
          /\ call' = [call EXCEPT ![p].removing = @ \ {i}]
    /\ UNCHANGED disk

RemoveTempFails(p) ==
    /\ call[p].pc \in {"cleaning", "threw"}
    /\ \E i \in call[p].removing :
          call' = [call EXCEPT ![p] = [@ EXCEPT !.removing = call[p].removing \ {i},
                                                !.rmFailed = TRUE]]
    /\ UNCHANGED <<disk, temps>>

\* The error of a failed rm replaces the one being handled.
Throw(p) ==
    /\ call[p].pc = "cleaning"
    /\ call[p].removing = {} \/ call[p].rmFailed
    /\ call' = [call EXCEPT ![p] = [@ EXCEPT
                    !.pc = "threw",
                    !.error = IF call[p].rmFailed THEN "io" ELSE call[p].error]]
    /\ UNCHANGED <<disk, temps>>

----------------------------------------------------------------------------
(* The environment: the first SIGINT aborts the signal, and a process may  *)
(* be killed at any point (the second SIGINT, which finds the once-only    *)
(* handler gone, does that too).                                           *)

Interrupt(p) ==
    /\ Running(p)
    /\ ~call[p].aborted
    /\ call' = [call EXCEPT ![p].aborted = TRUE]
    /\ UNCHANGED <<disk, temps>>

Crash(p) ==
    /\ Running(p)
    /\ call' = [call EXCEPT ![p].pc = "dead"]
    /\ UNCHANGED <<disk, temps>>

----------------------------------------------------------------------------

Stage(p) == StageRefused(p) \/ Prepare(p) \/ WriteTemp(p)

Commit(p) == BeginCommit(p) \/ AbortBeforeCommit(p) \/ Rename(p) \/ Return(p)

CleanUp(p) == RemoveTemp(p) \/ Throw(p)

IOError(p) ==
    \/ MakeDirectoryFails(p)
    \/ WriteTempFails(p)
    \/ RenameFails(p)
    \/ RemoveTempFails(p)

Step(p) == Stage(p) \/ Commit(p) \/ CleanUp(p)

Next ==
    \E p \in Procs :
        \/ \E files \in Plans : Invoke(p, files)
        \/ Step(p)
        \/ IOError(p)
        \/ Interrupt(p)
        \/ Crash(p)

Spec == Init /\ [][Next]_vars

\* Each await of a live process settles, so a call's own steps are weakly
\* fair; errors, signals and crashes are not.
FairSpec == Spec /\ \A p \in Procs : WF_vars(Step(p))

----------------------------------------------------------------------------
(* Properties.                                                             *)

TypeOK ==
    /\ disk \in [Paths -> AllContents]
    /\ temps \in [Procs -> Seq(TempStates)]
    /\ call \in [Procs -> CallRecord]
    /\ \A p \in Procs :
          /\ Prepared(p) <= Len(call[p].files)
          /\ call[p].renamed <= Prepared(p)
          /\ call[p].removing \subseteq 1 .. Prepared(p)

PublishedBy(p) == {f \in Paths : disk[f] \in {p} \X Nat}

\* A destination never shows a file whose write was cut short, whatever was
\* interrupted (writeFile goes to the temporary, only whole ones are renamed).
WholeFilesOnly == \A f \in Paths : disk[f] # Torn

\* Files appear in plan order: while the i-th file of a plan is on disk, each
\* earlier one is too, or another process has replaced it.  This is what lets
\* the last file of a plan serve as its completeness marker.
EarlierFilesFirst ==
    \A p \in Procs : \A i, j \in 1 .. Len(call[p].files) :
        (j < i /\ disk[call[p].files[i]] = Content(p, i)) =>
            \/ disk[call[p].files[j]] = Content(p, j)
            \/ \E q \in Procs \ {p} : call[p].files[j] \in PublishedBy(q)

\* A call that stopped on cancellation or on a repeated destination has
\* replaced nothing.
RefusedCallsPublishNothing ==
    \A p \in Procs :
        call[p].error \in {"abort", "duplicate"} => PublishedBy(p) = {}

\* Temporaries do not outlive the call: a call that returned has none, and one
\* that threw has none once its rm calls have settled without an error.
NoStrayTemps ==
    \A p \in Procs :
        (\/ call[p].pc = "returned"
         \/ call[p].pc = "threw" /\ call[p].removing = {} /\ ~call[p].rmFailed)
        => \A i \in DOMAIN temps[p] : temps[p][i] = "none"

\* Once a call starts to rename, cancellation no longer stops it: unless an
\* I/O error or a kill intervenes it reaches the end of its plan.
CommitRunsToTheEnd ==
    \A p \in Procs :
        call[p].pc = "committing" ~>
            \/ call[p].pc = "returned"
            \/ call[p].pc = "dead"
            \/ call[p].error = "io"

----------------------------------------------------------------------------
(* Refinement: the batch promise of AtomicPublication.  Everything up to    *)
(* BeginCommit is "open", and the plan shows from the commit point on.      *)

PhaseOf(c) ==
    IF c.pc \in {"idle", "staging", "writing"} THEN "open"
    ELSE IF c.pc = "committing" THEN "committing"
    ELSE IF c.pc = "returned" THEN "complete"
    ELSE "given up"

PlanOf(c) == IF c.pc \in {"committing", "returned"} THEN c.files ELSE <<>>

Abstract == INSTANCE AtomicPublication WITH
    phase  <- [p \in Procs |-> PhaseOf(call[p])],
    plan   <- [p \in Procs |-> PlanOf(call[p])],
    placed <- [p \in Procs |-> call[p].renamed]

\* Every step of the writer is a step the batch promise allows, or none.
ImplementsAtomicPublication == Abstract!Spec
=============================================================================
