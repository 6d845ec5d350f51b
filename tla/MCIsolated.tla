----------------------------- MODULE MCIsolated ------------------------------
(* Small instances of Isolated.                                            *)
EXTENDS Isolated
=============================================================================
