--------------------------- MODULE MCPublication ---------------------------
(* Two processes run commands one after the other; every constant is given  *)
(* its value in the configurations.                                         *)
EXTENDS Publication, TLC

CONSTANTS p1, p2, t1, t2

Symmetry == Permutations({p1, p2})
=============================================================================
