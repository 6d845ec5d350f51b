------------------------------- MODULE Sandbox -------------------------------
(***************************************************************************)
(* What the host does around one execution of a guest: the sandbox of      *)
(* native/javex_nif/src/sandbox.rs with its control, its limiter and its   *)
(* verdict, and the output pipes of native/javex_nif/src/output.rs.        *)
(*                                                                         *)
(* A call into the sandbox -- Execution::start, then one                   *)
(* Execution::advance after another -- runs host code, then Wasm, and ends *)
(* in Sandbox::finish, which says how the run ended if it did.  Meanwhile  *)
(* other threads cancel, the clock passes the deadline, and the epoch      *)
(* thread ticks.                                                           *)
(*                                                                         *)
(* Wasmtime is modelled from its use: a limiter or a pipe that returns an  *)
(* error ends the call into Wasm with it, and fd_write asks the pipe       *)
(* before each chunk how much it would take.                               *)
(***************************************************************************)
EXTENDS Naturals, FiniteSets

CONSTANTS
    MaxMemory,      \* max_memory
    MaxOutput,      \* max_output
    MaxStderr,      \* max_stderr
    Sizes           \* how much the guest may write, or grow by, at a time

ASSUME SandboxAssumption ==
    /\ MaxMemory \in Nat \ {0}
    /\ MaxOutput \in Nat
    /\ MaxStderr \in Nat
    /\ Sizes \subseteq Nat \ {0}

Streams  == {"stdout", "stderr"}
Memories == {"provider", "program"}
Capacity == [stdout |-> MaxOutput, stderr |-> MaxStderr]

VARIABLES
    pc,           \* where the run is
    stage,        \* in start or, later, in advance
    result,       \* what the closure in start or advance returned
    verdict,      \* how the run ended
    resumable,    \* does the provider export javex-step-v1?
    cancelled,    \* Control.cancelled
    expired,      \* has Control.deadline passed?
    due,          \* has the epoch reached the store's deadline?
    memory,       \* bytes of each linear memory
    memory_bytes, \* Limiter.memory_bytes
    refused,      \* Limiter.exceeded
    bytes,        \* length of State.bytes of each pipe
    exceeded,     \* State.exceeded of each pipe
    left,         \* what fd_write still has to write
    offered       \* what the guest has asked to write so far

controlVars == <<cancelled, expired, due>>
limiterVars == <<memory, memory_bytes, refused>>
pipeVars    == <<bytes, exceeded, left, offered>>
vars == <<pc, stage, result, verdict, resumable, controlVars, limiterVars, pipeVars>>

Init ==
    /\ pc = "start"
    /\ stage = "start"
    /\ result = "none"
    /\ verdict = "none"
    /\ resumable \in {"no", "yes"}
    /\ cancelled = "no"
    /\ expired = "no"
    /\ due = "no"
    /\ memory = [m \in Memories |-> 0]
    /\ memory_bytes = 0
    /\ refused = "no"
    /\ bytes = [s \in Streams |-> 0]
    /\ exceeded = [s \in Streams |-> "no"]
    /\ left = [s \in Streams |-> 0]
    /\ offered = [s \in Streams |-> 0]

-----------------------------------------------------------------------------
(* Other threads.                                                          *)

Cancel ==
    /\ cancelled' = "yes"
    /\ UNCHANGED <<pc, stage, result, verdict, resumable, expired, due, limiterVars,
                   pipeVars>>

Expire ==
    /\ expired' = "yes"
    /\ UNCHANGED <<pc, stage, result, verdict, resumable, cancelled, due, limiterVars,
                   pipeVars>>

\* The epoch thread never stops.
Tick ==
    /\ due = "no"
    /\ due' = "yes"
    /\ UNCHANGED <<pc, stage, result, verdict, resumable, cancelled, expired, limiterVars,
                   pipeVars>>

-----------------------------------------------------------------------------
(* Host code.                                                              *)

\* Control::check
Stopped == cancelled = "yes" \/ expired = "yes"

End(kind) ==
    /\ pc' = "done"
    /\ verdict' = kind
    /\ UNCHANGED <<stage, result, resumable, controlVars, limiterVars, pipeVars>>

\* The closure of start or advance returns.
Returns(value) ==
    /\ pc' = "result"
    /\ result' = value
    /\ UNCHANGED <<stage, verdict, resumable>>

Moves(from, to) ==
    /\ pc = from
    /\ pc' = to
    /\ UNCHANGED <<stage, result, verdict, resumable, controlVars, limiterVars, pipeVars>>

\* The input or the module is too long.
StartRefused ==
    /\ pc = "start"
    /\ \E kind \in {"input_limit", "module_limit"} : End(kind)

\* Sandbox::new.  A control that is stopped already is no verdict of finish.
Enter ==
    \/ Stopped /\ pc = "start" /\ End("trap")
    \/ ~Stopped /\ Moves("start", "host")

\* The control is looked at between the steps of host code.
HostStops ==
    /\ pc = "host"
    /\ Stopped
    /\ Returns("error")
    /\ UNCHANGED <<controlVars, limiterVars, pipeVars>>

\* The module does not compile or lacks an export, or a frame is too long.
HostFails ==
    /\ pc = "host"
    /\ Returns("error")
    /\ UNCHANGED <<controlVars, limiterVars, pipeVars>>

CallGuest == ~Stopped /\ Moves("host", "guest")

-----------------------------------------------------------------------------
(* The guest.                                                              *)

GuestReturns ==
    /\ pc = "guest"
    /\ \E value \in {"ok", "unreachable", "fuel", "error"} : Returns(value)
    /\ UNCHANGED <<controlVars, limiterVars, pipeVars>>

\* The callback of the epoch deadline: the guest is stopped, or goes on for
\* one more tick.
EpochCheck ==
    /\ pc = "guest"
    /\ due = "yes"
    /\ \/ Stopped /\ Returns("error") /\ due' = due
       \/ ~Stopped /\ due' = "no" /\ UNCHANGED <<pc, stage, result, verdict, resumable>>
    /\ UNCHANGED <<cancelled, expired, limiterVars, pipeVars>>

\* Wrong: each memory is held against the limit alone.
FitsAlone(m, n) == memory[m] + n <= MaxMemory

Fits(m, n) == n <= MaxMemory - memory_bytes

\* memory_growing, when a memory is made or memory.grow is executed.  The
\* growth counts even if the operating system then has no memory to give.
Grow(m, n) ==
    /\ pc = "guest"
    /\ Fits(m, n)
    /\ memory_bytes' = memory_bytes + n
    /\ \/ memory' = [memory EXCEPT ![m] = @ + n]
       \/ UNCHANGED memory
    /\ UNCHANGED <<pc, stage, result, verdict, resumable, controlVars, refused, pipeVars>>

Refuse ==
    /\ refused' = "yes"
    /\ Returns("error")
    /\ UNCHANGED <<controlVars, memory, memory_bytes, pipeVars>>

GrowTooMuch(m, n) ==
    /\ pc = "guest"
    /\ ~Fits(m, n)
    /\ Refuse

\* StoreLimits: the maximum a memory or table declares, or table_elements.
GrowBeyondStore ==
    /\ pc = "guest"
    /\ Refuse

-----------------------------------------------------------------------------
(* The pipes.                                                              *)

\* fd_write
Write(s, n) ==
    /\ pc = "guest"
    /\ pc' = "writing"
    /\ left' = [left EXCEPT ![s] = n]
    /\ offered' = [offered EXCEPT ![s] = @ + n]
    /\ UNCHANGED <<stage, result, verdict, resumable, controlVars, limiterVars, bytes,
                   exceeded>>

Available(s) == Capacity[s] - bytes[s]

\* Wrong: a full pipe offers nothing.
CheckWriteExact(s) == Available(s)

\* check_write: a full pipe offers a byte, so that writing it fails.
CheckWrite(s) == IF Available(s) > 1 THEN Available(s) ELSE 1

\* Wrong: as much as the pipe offers is taken for written.
ChunkOffered(s) == CheckWrite(s)

\* What fd_write writes at a time: as much as the pipe offers.
Chunk(s) == IF left[s] < CheckWrite(s) THEN left[s] ELSE CheckWrite(s)

\* Wrong: what does not fit is left out.
WriteFailsTruncating(s) ==
    /\ pc = "writing"
    /\ left[s] > 0
    /\ Chunk(s) > Available(s)
    /\ pc' = "guest"
    /\ bytes' = [bytes EXCEPT ![s] = Capacity[s]]
    /\ left' = [left EXCEPT ![s] = 0]
    /\ UNCHANGED <<stage, result, verdict, resumable, controlVars, limiterVars, offered,
                   exceeded>>

\* append: the pipe keeps the prefix that fits, and the call ends.
WriteFails(s) ==
    /\ pc = "writing"
    /\ left[s] > 0
    /\ Chunk(s) > Available(s)
    /\ bytes' = [bytes EXCEPT ![s] = Capacity[s]]
    /\ exceeded' = [exceeded EXCEPT ![s] = "yes"]
    /\ Returns("error")
    /\ UNCHANGED <<controlVars, limiterVars, left, offered>>

\* append: everything fits.
WriteChunk(s) ==
    /\ pc = "writing"
    /\ left[s] > 0
    /\ Chunk(s) <= Available(s)
    /\ bytes' = [bytes EXCEPT ![s] = @ + Chunk(s)]
    /\ left' = [left EXCEPT ![s] = @ - Chunk(s)]
    /\ pc' = IF left'[s] = 0 THEN "guest" ELSE "writing"
    /\ UNCHANGED <<stage, result, verdict, resumable, controlVars, limiterVars, exceeded,
                   offered>>

-----------------------------------------------------------------------------
(* The verdict.                                                            *)

\* How an error of Wasmtime is reported if nothing else was wrong.
ErrorKind ==
    CASE result = "fuel" -> "fuel_exhausted"
      [] result = "unreachable" /\ bytes["stderr"] > 0 -> "js_error"
      [] OTHER -> "trap"

\* Wrong: what the call returned comes before the limits.
FinishResultFirst ==
    IF result # "ok" THEN ErrorKind
    ELSE IF cancelled = "yes" THEN "cancelled"
    ELSE IF expired = "yes" THEN "timeout"
    ELSE "ok"

\* Sandbox::finish
Verdict ==
    IF cancelled = "yes" THEN "cancelled"
    ELSE IF expired = "yes" THEN "timeout"
    ELSE IF refused = "yes" THEN "oom"
    ELSE IF exceeded["stdout"] = "yes" THEN "output_limit"
    ELSE IF exceeded["stderr"] = "yes" THEN "diagnostic_limit"
    ELSE IF result = "ok" THEN "ok"
    ELSE ErrorKind

FinishFails ==
    /\ pc = "result"
    /\ Verdict # "ok"
    /\ End(Verdict)

\* start returns an execution.
Started ==
    /\ pc = "result"
    /\ Verdict = "ok"
    /\ stage = "start"
    /\ pc' = "idle"
    /\ stage' = "step"
    /\ result' = "none"
    /\ UNCHANGED <<verdict, resumable, controlVars, limiterVars, pipeVars>>

\* Progress::Pending: the guest waits for completions.
Pending ==
    /\ stage = "step"
    /\ Verdict = "ok"
    /\ Moves("result", "idle")

\* The guest's own result: a value, an exception, a limit of the bridge's,
\* or no JSON.
Settled ==
    /\ pc = "result"
    /\ stage = "step"
    /\ Verdict = "ok"
    /\ \E kind \in {"ok", "js_error", "diagnostic_limit", "callback_limit", "trap"} :
          End(kind)

\* The next advance, if the run is not given up.  A guest that cannot be
\* resumed has ended with start.
Advance == resumable = "yes" /\ Moves("idle", "host")

Complete ==
    /\ pc = "idle"
    /\ resumable = "no"
    /\ End("ok")

-----------------------------------------------------------------------------
Host   == Enter \/ HostStops \/ CallGuest
Writes == \E s \in Streams : WriteFails(s) \/ WriteChunk(s)
Ends   == FinishFails \/ Started \/ Pending \/ Settled

Guest ==
    \/ GuestReturns
    \/ \E m \in Memories, n \in Sizes : Grow(m, n) \/ GrowTooMuch(m, n)
    \/ GrowBeyondStore
    \/ \E s \in Streams, n \in Sizes : Write(s, n)

Next ==
    \/ Cancel
    \/ Expire
    \/ Tick
    \/ StartRefused
    \/ Host
    \/ HostFails
    \/ Guest
    \/ EpochCheck
    \/ Writes
    \/ Ends
    \/ Advance
    \/ Complete

Spec == Init /\ [][Next]_vars

\* Host code goes on, the epoch thread ticks, and compiled Wasm looks at the
\* epoch.  The guest need not return, and nobody need cancel.
FairSpec ==
    /\ Spec
    /\ WF_vars(Tick)
    /\ WF_vars(Host)
    /\ WF_vars(EpochCheck)
    /\ WF_vars(Writes)
    /\ WF_vars(Ends)

-----------------------------------------------------------------------------
(* Properties.                                                             *)

\* Every variable has its type.
TypeOK ==
    /\ pc \in {"start", "host", "guest", "writing", "result", "idle", "done"}
    /\ stage \in {"start", "step"}
    /\ result \in {"none", "ok", "unreachable", "fuel", "error"}
    /\ verdict \in {"none", "ok", "cancelled", "timeout", "oom", "output_limit",
                    "diagnostic_limit", "fuel_exhausted", "js_error", "trap",
                    "input_limit", "module_limit", "callback_limit"}
    /\ resumable \in {"no", "yes"}
    /\ cancelled \in {"no", "yes"}
    /\ expired \in {"no", "yes"}
    /\ due \in {"no", "yes"}
    /\ memory \in [Memories -> Nat]
    /\ memory_bytes \in Nat
    /\ refused \in {"no", "yes"}
    /\ bytes \in [Streams -> Nat]
    /\ exceeded \in [Streams -> {"no", "yes"}]
    /\ left \in [Streams -> Nat]
    /\ offered \in [Streams -> Nat]

\* The memories of one run share one budget, and each pipe has its own; the
\* unsigned subtractions of the limiter and of the pipes never wrap.
BudgetsHold ==
    /\ memory["provider"] + memory["program"] <= memory_bytes
    /\ memory_bytes <= MaxMemory
    /\ \A s \in Streams : bytes[s] <= Capacity[s]

\* A run that reports a value was refused nothing, and its output is all
\* that the guest wrote: a limit never shortens a result silently.
NothingLost ==
    verdict = "ok" => refused = "no" /\ bytes = offered

\* A run that met a limit says so, unless it was stopped as well, whatever
\* the guest and Wasmtime made of the failure; and no other run says so.
VerdictTellsCause ==
    /\ verdict # "none" =>
          /\ refused = "yes" => verdict \in {"cancelled", "timeout", "oom"}
          /\ exceeded["stdout"] = "yes" =>
                verdict \in {"cancelled", "timeout", "output_limit"}
          /\ exceeded["stderr"] = "yes" =>
                verdict \in {"cancelled", "timeout", "diagnostic_limit"}
    /\ verdict = "cancelled" => cancelled = "yes"
    /\ verdict = "timeout" => expired = "yes"
    /\ verdict = "oom" => refused = "yes"
    /\ verdict = "output_limit" => offered["stdout"] > MaxOutput

\* A run that is cancelled, or whose deadline passes, leaves native code,
\* even if its guest loops for ever or writes more than its pipes hold.
StopsWhenTold ==
    Stopped /\ pc \in {"start", "host", "guest", "writing", "result"}
        ~> pc \in {"idle", "done"}
=============================================================================
