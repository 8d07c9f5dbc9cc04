------------------------- MODULE AtomicPublication -------------------------
(***************************************************************************)
(* What a batch write promises its callers, with staging left out: up to   *)
(* its commit point a batch may be given up without a trace; from there    *)
(* on whole files replace their destinations one by one, in plan order,    *)
(* until the batch is complete or an error ends it.  AtomicFiles           *)
(* implements this (the renames are the only steps the disk shows).        *)
(***************************************************************************)
EXTENDS Naturals, Sequences

CONSTANTS Procs, Paths, Plans, Absent

VARIABLES
    disk,       \* contents at each destination path
    phase,      \* phase[p]: "open", "committing", "complete" or "given up"
    plan,       \* plan[p]: the plan committed to, empty before and once given up
    placed      \* placed[p]: how many of its files are in place

vars == <<disk, phase, plan, placed>>

Distinct(files) ==
    \A i, j \in DOMAIN files : files[i] = files[j] => i = j

Init ==
    /\ disk = [f \in Paths |-> Absent]
    /\ phase = [p \in Procs |-> "open"]
    /\ plan = [p \in Procs |-> <<>>]
    /\ placed = [p \in Procs |-> 0]

\* The commit point.  No batch that names a path twice gets here.
Commit(p) ==
    /\ phase[p] = "open"
    /\ \E files \in Plans :
          /\ Distinct(files)
          /\ plan' = [plan EXCEPT ![p] = files]
    /\ phase' = [phase EXCEPT ![p] = "committing"]
    /\ UNCHANGED <<disk, placed>>

Place(p) ==
    LET i == placed[p] + 1 IN
    /\ phase[p] = "committing"
    /\ i <= Len(plan[p])
    /\ disk' = [disk EXCEPT ![plan[p][i]] = <<p, i>>]
    /\ placed' = [placed EXCEPT ![p] = i]
    /\ UNCHANGED <<phase, plan>>

Complete(p) ==
    /\ phase[p] = "committing"
    /\ placed[p] = Len(plan[p])
    /\ phase' = [phase EXCEPT ![p] = "complete"]
    /\ UNCHANGED <<disk, plan, placed>>

GiveUp(p) ==
    /\ phase[p] \in {"open", "committing"}
    /\ phase' = [phase EXCEPT ![p] = "given up"]
    /\ plan' = [plan EXCEPT ![p] = <<>>]
    /\ UNCHANGED <<disk, placed>>

Next == \E p \in Procs : Commit(p) \/ Place(p) \/ Complete(p) \/ GiveUp(p)

Spec == Init /\ [][Next]_vars
=============================================================================
