------------------------------ MODULE MCRuntime ------------------------------
(* Small instances of Runtime and of its refinement of Admission.          *)
EXTENDS RuntimeRefinement

CONSTANTS r1, k1   \* a run and a compilation

OneRunOneCompile == {r1, k1}
=============================================================================
