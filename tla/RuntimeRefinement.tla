-------------------------- MODULE RuntimeRefinement --------------------------
(***************************************************************************)
(* Runtime.tla implements Admission.tla: the questions are the calls in    *)
(* the mailbox, the slots are the entries of state.jobs.                   *)
(***************************************************************************)
EXTENDS Runtime

Promise == INSTANCE Admission WITH
    asked   <- {c \in Calls : "call" \in inbox[c]},
    held    <- jobs,
    running <- {c \in Calls : Working(c)},
    left    <- {c \in Calls : caller[c] = "dead"},
    replies <- replies

\* Every behaviour of the server, its callers and its workers is one the
\* promise allows: admission below capacity, one answer per caller, a slot
\* until the work has stopped, and nothing more lost in a crash.
KeepsPromise == Promise!Spec
=============================================================================
