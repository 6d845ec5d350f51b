----------------------------- MODULE MCExecution -----------------------------
(* Small instances of Execution.  The guest is the bridge's: no batches of *)
(* a free one.                                                             *)
EXTENDS Execution

NoBatches == {}
=============================================================================
