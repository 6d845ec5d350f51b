------------------------------ MODULE MCSandbox -------------------------------
(* A small instance of Sandbox.                                            *)
EXTENDS Sandbox
=============================================================================
