---------------------------- MODULE MCModuleCache -----------------------------
(* A small instance of ModuleCache: four modules, one of which fits no     *)
(* cache and one of which fits only an empty one.                          *)
EXTENDS ModuleCache, TLC

CONSTANTS r1, r2, r3, r4, r5

Sizes == <<1, 2, 3, 4>>

Executions == Permutations(Runs)
=============================================================================
