------------------------------ MODULE Admission ------------------------------
(***************************************************************************)
(* What Javex.Runtime promises its callers, without its processes, its     *)
(* messages or its clock.  A call that was asked is refused or given one   *)
(* of MaxConcurrency slots; an admitted call has work running for it; its  *)
(* caller may be answered before that work has stopped, but the slot is    *)
(* given back only after; no caller is answered twice, and none is left    *)
(* without an answer when its slot is given back, unless it went away.     *)
(* When the server dies every slot and every question is lost, but work    *)
(* that was running is still there until it stops.                         *)
(* "Work" is that of a worker process: when one is killed its work counts  *)
(* as stopped here, though native code it was in may go on.                *)
(*                                                                         *)
(* Runtime.tla implements this specification (RuntimeRefinement.tla).      *)
(***************************************************************************)
EXTENDS Naturals, Sequences, FiniteSets

CONSTANTS Calls, MaxConcurrency

VARIABLES
    asked,    \* calls in the server's mailbox
    held,     \* calls that hold a slot
    running,  \* calls with work still running for them
    left,     \* callers that died
    replies   \* the answers given to each caller

vars == <<asked, held, running, left, replies>>

Refusals == {"rejected", "busy", "timeout"}
Outcomes == {"ok", "error", "timeout", "trap"}

Init ==
    /\ asked = {}
    /\ held = {}
    /\ running = {}
    /\ left = {}
    /\ replies = [c \in Calls |-> <<>>]

HasSlot == Cardinality(held) < MaxConcurrency

\* Every answer is the first one.
Answer(c, a) ==
    /\ replies[c] = <<>>
    /\ replies' = [replies EXCEPT ![c] = <<a>>]

Ask(c) ==
    /\ c \notin asked \cup held \cup running
    /\ asked' = asked \cup {c}
    /\ UNCHANGED <<held, running, left, replies>>

\* A call is told that the server is busy only when every slot is held.
Refuse(c) ==
    /\ c \in asked
    /\ asked' = asked \ {c}
    /\ \E a \in Refusals : (a = "busy" => ~HasSlot) /\ Answer(c, a)
    /\ UNCHANGED <<held, running, left>>

Admit(c) ==
    /\ c \in asked
    /\ HasSlot
    /\ asked' = asked \ {c}
    /\ held' = held \cup {c}
    /\ running' = running \cup {c}
    /\ UNCHANGED <<left, replies>>

TimeOut(c) ==
    /\ c \in held
    /\ Answer(c, "timeout")
    /\ UNCHANGED <<asked, held, running, left>>

\* The work stops; the slot is still held.
Halt(c) ==
    /\ c \in running
    /\ running' = running \ {c}
    /\ UNCHANGED <<asked, held, left, replies>>

Release(c) ==
    /\ c \in held \ running
    /\ held' = held \ {c}
    /\ \/ \E a \in Outcomes : Answer(c, a)
       \/ /\ replies[c] # <<>> \/ c \in left
          /\ UNCHANGED replies
    /\ UNCHANGED <<asked, running, left>>

Leave(c) ==
    /\ left' = left \cup {c}
    /\ UNCHANGED <<asked, held, running, replies>>

Collapse ==
    /\ asked' = {}
    /\ held' = {}
    /\ UNCHANGED <<running, left, replies>>

Next ==
    \/ \E c \in Calls :
          \/ Ask(c)
          \/ Refuse(c)
          \/ Admit(c)
          \/ TimeOut(c)
          \/ Halt(c)
          \/ Release(c)
          \/ Leave(c)
    \/ Collapse

Spec == Init /\ [][Next]_vars
=============================================================================
