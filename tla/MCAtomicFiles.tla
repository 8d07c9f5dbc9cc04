--------------------------- MODULE MCAtomicFiles ---------------------------
(* Two processes write overlapping plans of two files, one of which names   *)
(* a destination twice.                                                     *)
EXTENDS AtomicFiles

CONSTANTS p1, p2, f1, f2

MCPlans == {<<f1, f2>>, <<f2, f1>>, <<f1, f1>>}
=============================================================================
