----------------------------- MODULE MCRunStore -----------------------------
(* A small instance of RunStore for TLC.                                   *)
EXTENDS RunStore, TLC
CONSTANTS p1, p2, i1, i2

Symmetry == Permutations({p1, p2}) \cup Permutations({i1, i2})
=============================================================================
