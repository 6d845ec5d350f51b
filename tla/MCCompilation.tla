---------------------------- MODULE MCCompilation -----------------------------
(* A small instance of Compilation: one guarded call, two of a runtime with *)
(* another plugin, and a permit less than there are calls.                 *)
EXTENDS Compilation, TLC

CONSTANTS c1, c2, c3, p1, p2

TwoPlugins == (c1 :> p1) @@ (c2 :> p2) @@ (c3 :> p2)
=============================================================================
