---------------------------- MODULE SandboxProofs -----------------------------
(***************************************************************************)
(* Proofs about Sandbox.tla, for every budget and for writes and growths   *)
(* of any size.                                                            *)
(***************************************************************************)
EXTENDS Sandbox, TLAPS

-----------------------------------------------------------------------------
(* The inductive invariant.                                                *)

\* Both memories are within what has been counted, and that within the limit.
MemoryInv ==
    /\ memory["provider"] + memory["program"] <= memory_bytes
    /\ memory_bytes <= MaxMemory

\* What was offered is in the pipe or still to be written, and a pipe is
\* exceeded by more than it holds.
PipeInv(s) ==
    /\ bytes[s] <= Capacity[s]
    /\ offered[s] = bytes[s] + left[s]
    /\ exceeded[s] = "yes" => offered[s] > Capacity[s]
    /\ left[s] > 0 => pc = "writing" \/ exceeded[s] = "yes"

\* One write at a time; the first limit that is met ends the call.
OneCause ==
    /\ \A s, t \in Streams : left[s] > 0 /\ left[t] > 0 => s = t
    /\ \A s, t \in Streams : exceeded[s] = "yes" /\ exceeded[t] = "yes" => s = t
    /\ \A s \in Streams : exceeded[s] = "yes" => pc \in {"result", "done"} /\ refused = "no"
    /\ refused = "yes" => pc \in {"result", "done"}

\* What has been reported stays true.
VerdictInv ==
    /\ pc = "done" <=> verdict # "none"
    /\ verdict = "ok" => refused = "no" /\ \A s \in Streams : left[s] = 0
    /\ VerdictTellsCause

IInv ==
    /\ TypeOK
    /\ MemoryInv
    /\ \A s \in Streams : PipeInv(s)
    /\ OneCause
    /\ VerdictInv

-----------------------------------------------------------------------------
LEMMA CapacityType == \A s \in Streams : Capacity[s] \in Nat
  BY SandboxAssumption DEF Streams, Capacity

\* Before anything has been met no limit has.
LEMMA Unmet ==
    ASSUME IInv, pc \notin {"result", "done"}
    PROVE  /\ refused = "no"
           /\ verdict = "none"
           /\ \A s \in Streams : exceeded[s] = "no"
           /\ pc # "writing" => \A s \in Streams : left[s] = 0
  BY DEF IInv, TypeOK, OneCause, VerdictInv, PipeInv

\* finish names a cause that is there, and the one that ended the call.
LEMMA Causes ==
    ASSUME TypeOK, OneCause
    PROVE  /\ Verdict \in {"ok", "cancelled", "timeout", "oom", "output_limit",
                           "diagnostic_limit", "fuel_exhausted", "js_error", "trap"}
           /\ Verdict = "ok" => refused = "no" /\ \A s \in Streams : exceeded[s] = "no"
           /\ refused = "yes" => Verdict \in {"cancelled", "timeout", "oom"}
           /\ exceeded["stdout"] = "yes" =>
                 Verdict \in {"cancelled", "timeout", "output_limit"}
           /\ exceeded["stderr"] = "yes" =>
                 Verdict \in {"cancelled", "timeout", "diagnostic_limit"}
           /\ Verdict = "cancelled" => cancelled = "yes"
           /\ Verdict = "timeout" => expired = "yes"
           /\ Verdict = "oom" => refused = "yes"
           /\ Verdict = "output_limit" => exceeded["stdout"] = "yes"
<1>1. ErrorKind \in {"fuel_exhausted", "js_error", "trap"}
  BY DEF ErrorKind
<1>2. "stdout" \in Streams /\ "stderr" \in Streams /\ \A s \in Streams : s \in {"stdout", "stderr"}
  BY DEF Streams
<1>3. QED
  BY <1>1, <1>2 DEF Verdict, TypeOK, OneCause

LEMMA InitInv == Init => IInv
<1> SUFFICES ASSUME Init PROVE IInv
  OBVIOUS
<1>1. TypeOK
  BY DEF Init, TypeOK
<1>2. MemoryInv
  BY SandboxAssumption DEF Init, MemoryInv, Memories
<1>3. \A s \in Streams : PipeInv(s)
  BY CapacityType DEF Init, PipeInv
<1>4. OneCause
  BY DEF Init, OneCause
<1>5. VerdictInv
  BY DEF Init, VerdictInv, VerdictTellsCause, Streams
<1>6. QED
  BY <1>1, <1>2, <1>3, <1>4, <1>5 DEF IInv

-----------------------------------------------------------------------------
\* A step that touches neither limits nor pipes, and reports nothing.
LEMMA QuietStep ==
    ASSUME IInv, pc # "done", pc' # "done", TypeOK',
           UNCHANGED <<verdict, limiterVars, pipeVars>>,
           \A s \in Streams : left[s] > 0 /\ exceeded[s] = "no" => pc' = "writing",
           refused = "yes" \/ (\E s \in Streams : exceeded[s] = "yes") => pc' = "result"
    PROVE  IInv'
<1>1. MemoryInv' /\ OneCause'
  BY DEF IInv, MemoryInv, OneCause, limiterVars, pipeVars, TypeOK
<1>2. \A s \in Streams : PipeInv(s)'
  BY DEF IInv, PipeInv, limiterVars, pipeVars, TypeOK
<1>3. VerdictInv'
  BY DEF IInv, VerdictInv, VerdictTellsCause
<1>4. QED
  BY <1>1, <1>2, <1>3 DEF IInv

\* The run ends, with a verdict that is true.
LEMMA EndStep ==
    ASSUME IInv, pc # "done", NEW kind, End(kind), TypeOK', kind # "none",
           kind = "ok" => refused = "no" /\ \A s \in Streams : left[s] = 0,
           refused = "yes" => kind \in {"cancelled", "timeout", "oom"},
           exceeded["stdout"] = "yes" => kind \in {"cancelled", "timeout", "output_limit"},
           exceeded["stderr"] = "yes" => kind \in {"cancelled", "timeout", "diagnostic_limit"},
           kind = "cancelled" => cancelled = "yes",
           kind = "timeout" => expired = "yes",
           kind = "oom" => refused = "yes",
           kind = "output_limit" => exceeded["stdout"] = "yes",
           \A s \in Streams : left[s] > 0 => exceeded[s] = "yes"
    PROVE  IInv'
<1> USE DEF End, limiterVars, pipeVars, controlVars
<1>1. MemoryInv' /\ OneCause'
  BY DEF IInv, MemoryInv, OneCause
<1>2. \A s \in Streams : PipeInv(s)'
  BY DEF IInv, PipeInv
<1>3. kind = "output_limit" => offered["stdout"] > MaxOutput
  BY DEF IInv, PipeInv, Streams, Capacity
<1>4. VerdictInv'
  BY <1>3 DEF IInv, VerdictInv, VerdictTellsCause
<1>5. QED
  BY <1>1, <1>2, <1>4 DEF IInv

-----------------------------------------------------------------------------
(* Every step preserves the invariant.                                     *)

\* What a step of host code, of the guest or of a pipe leaves alone.
LEMMA TypeOKStep == TypeOK /\ (\A s \in Streams : PipeInv(s)) /\ [Next]_vars => TypeOK'
<1> SUFFICES ASSUME TypeOK, \A s \in Streams : PipeInv(s), [Next]_vars PROVE TypeOK'
  OBVIOUS
<1> USE CapacityType, SandboxAssumption
    DEF TypeOK, limiterVars, pipeVars, controlVars
<1>1. CASE Cancel \/ Expire \/ Tick
  BY <1>1 DEF Cancel, Expire, Tick
<1>2. ASSUME NEW kind, End(kind),
             kind \in {"ok", "cancelled", "timeout", "oom", "output_limit",
                       "diagnostic_limit", "fuel_exhausted", "js_error", "trap",
                       "input_limit", "module_limit", "callback_limit"}
      PROVE  TypeOK'
  BY <1>2 DEF End
<1>3. CASE StartRefused \/ Enter \/ HostStops \/ HostFails \/ CallGuest
  BY <1>2, <1>3 DEF StartRefused, Enter, HostStops, HostFails, CallGuest, Moves, Returns
<1>4. CASE GuestReturns \/ EpochCheck \/ GrowBeyondStore
  BY <1>4 DEF GuestReturns, EpochCheck, GrowBeyondStore, Refuse, Returns
<1>5. ASSUME NEW m \in Memories, NEW n \in Sizes, Grow(m, n) \/ GrowTooMuch(m, n)
      PROVE  TypeOK'
  BY <1>5 DEF Grow, GrowTooMuch, Refuse, Returns
<1>6. ASSUME NEW s \in Streams, NEW n \in Sizes, Write(s, n) PROVE TypeOK'
  BY <1>6 DEF Write
<1>7. ASSUME NEW s \in Streams, WriteFails(s) PROVE TypeOK'
  BY <1>7 DEF WriteFails, Returns
<1>8. ASSUME NEW s \in Streams, WriteChunk(s) PROVE TypeOK'
  <2>1. Available(s) \in Nat /\ CheckWrite(s) \in Nat
    BY DEF PipeInv, Available, CheckWrite
  <2>2. Chunk(s) \in Nat /\ Chunk(s) <= left[s]
    BY <2>1 DEF Chunk
  <2>3. QED
    BY <1>8, <2>2 DEF WriteChunk
<1>9. CASE FinishFails
  <2>1. ErrorKind \in {"fuel_exhausted", "js_error", "trap"}
    BY DEF ErrorKind
  <2>2. Verdict \in {"ok", "cancelled", "timeout", "oom", "output_limit",
                     "diagnostic_limit", "fuel_exhausted", "js_error", "trap"}
    BY <2>1 DEF Verdict
  <2>3. QED
    BY <1>2, <1>9, <2>2 DEF FinishFails
<1>10. CASE Started \/ Pending \/ Settled \/ Advance \/ Complete
  BY <1>2, <1>10 DEF Started, Pending, Settled, Advance, Complete, Moves
<1>11. CASE UNCHANGED vars
  BY <1>11 DEF vars
<1>12. QED
  BY <1>1, <1>3, <1>4, <1>5, <1>6, <1>7, <1>8, <1>9, <1>10, <1>11
     DEF Next, Host, Guest, Writes, Ends

LEMMA InvStep == IInv /\ [Next]_vars => IInv'
<1> SUFFICES ASSUME IInv, [Next]_vars PROVE IInv'
  OBVIOUS
<1>0. TypeOK'
  BY TypeOKStep DEF IInv
<1>1. CASE Cancel \/ Expire \/ Tick
  <2>1. UNCHANGED <<pc, verdict, limiterVars, pipeVars>> /\ TypeOK
        /\ (cancelled = "yes" => cancelled' = "yes")
        /\ (expired = "yes" => expired' = "yes")
    BY <1>1 DEF Cancel, Expire, Tick, IInv
  <2>2. MemoryInv' /\ OneCause' /\ \A s \in Streams : PipeInv(s)'
    BY <2>1 DEF IInv, MemoryInv, OneCause, PipeInv, limiterVars, pipeVars
  <2>3. VerdictInv'
    BY <2>1 DEF IInv, VerdictInv, VerdictTellsCause, limiterVars, pipeVars
  <2>4. QED
    BY <1>0, <2>2, <2>3 DEF IInv
<1>2. CASE StartRefused \/ (Enter /\ Stopped)
  <2>1. PICK kind \in {"input_limit", "module_limit", "trap"} : pc = "start" /\ End(kind)
    BY <1>2 DEF StartRefused, Enter
  <2>2. "stdout" \in Streams /\ "stderr" \in Streams
    BY DEF Streams
  <2>3. QED
    BY <1>0, <2>1, <2>2, Unmet, EndStep DEF IInv, TypeOK
<1>3. CASE (Enter /\ ~Stopped) \/ HostStops \/ HostFails \/ CallGuest \/ Advance
  BY <1>0, <1>3, Unmet, QuietStep
     DEF Enter, Stopped, HostStops, HostFails, CallGuest, Advance, Moves, Returns
<1>4. CASE GuestReturns \/ EpochCheck
  BY <1>0, <1>4, Unmet, QuietStep DEF GuestReturns, EpochCheck, Returns
<1>5. ASSUME NEW m \in Memories, NEW n \in Sizes, Grow(m, n) PROVE IInv'
  <2> USE DEF Grow
  <2>1. MemoryInv'
    BY <1>5, SandboxAssumption DEF IInv, TypeOK, MemoryInv, Memories, Fits
  <2>2. (\A s \in Streams : PipeInv(s)') /\ OneCause'
    BY <1>5 DEF IInv, PipeInv, OneCause, pipeVars
  <2>3. VerdictInv'
    BY <1>5 DEF IInv, VerdictInv, VerdictTellsCause, pipeVars, controlVars
  <2>4. QED
    BY <1>0, <2>1, <2>2, <2>3 DEF IInv
<1>6. ASSUME pc = "guest", Refuse PROVE IInv'
  <2> USE DEF Refuse, Returns
  <2>1. MemoryInv' /\ (\A s \in Streams : PipeInv(s)') /\ OneCause'
    BY <1>6, Unmet DEF IInv, MemoryInv, PipeInv, OneCause, pipeVars
  <2>2. VerdictInv'
    BY <1>6, Unmet DEF IInv, VerdictInv, VerdictTellsCause, pipeVars, controlVars
  <2>3. QED
    BY <1>0, <2>1, <2>2 DEF IInv
<1>7. ASSUME NEW s \in Streams, NEW n \in Sizes, Write(s, n) PROVE IInv'
  <2> USE DEF Write
  <2>1. MemoryInv'
    BY <1>7 DEF IInv, MemoryInv, limiterVars
  <2>2. (\A t \in Streams : PipeInv(t)') /\ OneCause'
    BY <1>7, Unmet, SandboxAssumption DEF IInv, TypeOK, PipeInv, OneCause, limiterVars
  <2>3. VerdictInv'
    BY <1>7, Unmet DEF IInv, VerdictInv, VerdictTellsCause, limiterVars, controlVars
  <2>4. QED
    BY <1>0, <2>1, <2>2, <2>3 DEF IInv
<1>8. ASSUME NEW s \in Streams, WriteFails(s) PROVE IInv'
  <2> USE DEF WriteFails, Returns
  <2>1. MemoryInv'
    BY <1>8 DEF IInv, MemoryInv, limiterVars
  <2>2. /\ bytes[s] = Capacity[s]
        /\ offered[s] > Capacity[s]
    <3>1. /\ Capacity[s] \in Nat /\ bytes[s] \in Nat /\ left[s] \in Nat
          /\ bytes[s] <= Capacity[s]
          /\ offered[s] = bytes[s] + left[s]
      BY CapacityType DEF IInv, TypeOK, PipeInv
    <3>2. Chunk(s) > Available(s)
      BY <1>8
    <3>3. Available(s) = 0 /\ left[s] > 0
      BY <1>8, <3>1, <3>2 DEF Chunk, CheckWrite, Available
    <3>4. QED
      BY <3>1, <3>3 DEF Available
  <2>3. (\A t \in Streams : PipeInv(t)') /\ OneCause'
    BY <1>8, <2>2, Unmet, CapacityType DEF IInv, TypeOK, PipeInv, OneCause, limiterVars
  <2>4. VerdictInv'
    BY <1>8, Unmet DEF IInv, VerdictInv, VerdictTellsCause, limiterVars, controlVars
  <2>5. QED
    BY <1>0, <2>1, <2>3, <2>4 DEF IInv
<1>9. ASSUME NEW s \in Streams, WriteChunk(s) PROVE IInv'
  <2> DEFINE n == Chunk(s)
  <2>1. /\ n \in Nat
        /\ n <= left[s]
        /\ n <= Capacity[s] - bytes[s]
    BY <1>9, CapacityType
       DEF IInv, TypeOK, PipeInv, WriteChunk, Chunk, CheckWrite, Available
  <2>2. /\ pc = "writing"
        /\ bytes' = [bytes EXCEPT ![s] = @ + n]
        /\ left' = [left EXCEPT ![s] = @ - n]
        /\ pc' = IF left'[s] = 0 THEN "guest" ELSE "writing"
        /\ UNCHANGED <<verdict, cancelled, expired, limiterVars, exceeded, offered>>
    BY <1>9 DEF WriteChunk, controlVars
  <2> HIDE DEF n
  <2>3. MemoryInv'
    BY <2>2 DEF IInv, MemoryInv, limiterVars
  <2>4. \A t \in Streams \ {s} : left[t] = 0
    BY <1>9 DEF WriteChunk, IInv, TypeOK, OneCause
  <2>5. \A t \in Streams : PipeInv(t)'
    BY <2>1, <2>2, <2>4, CapacityType DEF IInv, TypeOK, PipeInv
  <2>6. OneCause'
    BY <2>1, <2>2, <2>4 DEF IInv, TypeOK, OneCause, limiterVars
  <2>7. VerdictInv'
    BY <2>2, Unmet DEF IInv, VerdictInv, VerdictTellsCause, limiterVars
  <2>8. QED
    BY <1>0, <2>3, <2>5, <2>6, <2>7 DEF IInv
<1>10. CASE FinishFails
  <2>1. End(Verdict) /\ pc = "result" /\ Verdict # "ok" /\ Verdict # "none"
    BY <1>10, Causes DEF FinishFails, IInv
  <2>2. \A s \in Streams : left[s] > 0 => exceeded[s] = "yes"
    BY <2>1 DEF IInv, PipeInv
  <2>3. QED
    BY <1>0, <2>1, <2>2, Causes, EndStep DEF IInv
<1>11. CASE Started \/ Pending
  <2>1. pc = "result" /\ pc' = "idle" /\ UNCHANGED <<verdict, limiterVars, pipeVars>>
        /\ refused = "no" /\ \A s \in Streams : exceeded[s] = "no"
    BY <1>11, Causes DEF Started, Pending, Moves, IInv
  <2>2. \A s \in Streams : left[s] > 0 => exceeded[s] = "yes"
    BY <2>1 DEF IInv, PipeInv
  <2>3. QED
    BY <1>0, <2>1, <2>2, QuietStep
<1>12. CASE Settled \/ Complete
  <2>1. PICK kind \in {"ok", "js_error", "diagnostic_limit", "callback_limit", "trap"} :
          End(kind) /\ pc \in {"result", "idle"}
    BY <1>12 DEF Settled, Complete
  <2>2. refused = "no" /\ \A s \in Streams : exceeded[s] = "no"
    BY <1>12, Causes, Unmet DEF Settled, Complete, IInv
  <2>3. \A s \in Streams : left[s] = 0
    BY <2>1, <2>2 DEF IInv, PipeInv, TypeOK
  <2>4. "stdout" \in Streams /\ "stderr" \in Streams
    BY DEF Streams
  <2>5. QED
    BY <1>0, <2>1, <2>2, <2>3, <2>4, EndStep
<1>13. CASE UNCHANGED vars
  <2>1. MemoryInv' /\ OneCause' /\ \A s \in Streams : PipeInv(s)'
    BY <1>13 DEF IInv, MemoryInv, OneCause, PipeInv, vars, limiterVars, pipeVars
  <2>2. VerdictInv'
    BY <1>13 DEF IInv, VerdictInv, VerdictTellsCause, vars, limiterVars, pipeVars, controlVars
  <2>3. QED
    BY <1>0, <2>1, <2>2 DEF IInv
<1>14. QED
  BY <1>1, <1>2, <1>3, <1>4, <1>5, <1>6, <1>7, <1>8, <1>9, <1>10, <1>11, <1>12, <1>13
     DEF Next, Host, Guest, Writes, Ends, Enter, GrowTooMuch, GrowBeyondStore

LEMMA Invariance == Spec => []IInv
<1>1. QED
  BY InitInv, InvStep, PTL DEF Spec

-----------------------------------------------------------------------------
(* Theorems.                                                               *)

\* Every variable of the sandbox has its type.
THEOREM TypeCorrect == Spec => []TypeOK
<1>1. IInv => TypeOK
  BY DEF IInv
<1>2. QED
  BY <1>1, Invariance, PTL

\* Limiter and Output: the budgets of memory and output hold, and their
\* unsigned subtractions never wrap.
THEOREM BudgetTheorem == Spec => []BudgetsHold
<1>1. IInv => BudgetsHold
  BY DEF IInv, MemoryInv, PipeInv, BudgetsHold
<1>2. QED
  BY <1>1, Invariance, PTL

\* Output::append and finish: a run that reports a value was refused nothing
\* and all that its guest wrote is there.
THEOREM NothingLostTheorem == Spec => []NothingLost
<1>1. ASSUME IInv PROVE NothingLost
  <2>1. SUFFICES ASSUME verdict = "ok" PROVE refused = "no" /\ bytes = offered
    BY DEF NothingLost
  <2>2. \A s \in Streams : offered[s] = bytes[s]
    BY <1>1, <2>1 DEF IInv, TypeOK, VerdictInv, PipeInv
  <2>3. QED
    BY <1>1, <2>1, <2>2 DEF IInv, TypeOK, VerdictInv
<1>2. QED
  BY <1>1, Invariance, PTL

\* finish: of several causes one that is there is reported, and a limit that
\* was met is not passed over.
THEOREM VerdictTheorem == Spec => []VerdictTellsCause
<1>1. IInv => VerdictTellsCause
  BY DEF IInv, VerdictInv
<1>2. QED
  BY <1>1, Invariance, PTL

-----------------------------------------------------------------------------
(* The end of a stopped run is under way.                                  *)

\* What a run does once it is stopped, step by step: it stays stopped, the
\* tick that will interrupt it is not used up, native code is not entered
\* again and what has been returned is the end.
StopTakesEffect ==
    [][Stopped =>
          /\ Stopped'
          /\ due = "yes" => due' = "yes"
          /\ pc' \in {"guest", "writing"} => pc \in {"guest", "writing"}
          /\ pc = "result" => pc' \in {"result", "done"}]_vars

\* A write that is under way has something to write, and every step of it
\* writes a byte or ends the call: a full pipe keeps no guest in fd_write.
WritingInv == pc = "writing" => \E s \in Streams : left[s] > 0

Headway ==
    pc = "writing" /\ UNCHANGED controlVars =>
        pc' = "result" \/ \E s \in Streams : left'[s] < left[s]

WritesGoOn == []WritingInv /\ [][Headway]_vars

\* Which steps can move a run that is in fd_write.
LEMMA Writers ==
    ASSUME [Next]_vars, pc = "writing", ~UNCHANGED vars, UNCHANGED controlVars, TypeOK
    PROVE  Writes
<1>1. ~Cancel /\ ~Expire /\ ~Tick
  BY DEF Cancel, Expire, Tick, controlVars, vars, TypeOK
<1>2. ~StartRefused /\ ~Host /\ ~HostFails /\ ~EpochCheck /\ ~Ends /\ ~Advance /\ ~Complete
  BY DEF StartRefused, Host, Enter, HostStops, CallGuest, HostFails, EpochCheck, Ends,
       FinishFails, Started, Pending, Settled, Advance, Complete, Moves
<1>3. ~Guest
  BY DEF Guest, GuestReturns, Grow, GrowTooMuch, GrowBeyondStore, Write
<1>4. QED
  BY <1>1, <1>2, <1>3 DEF Next

LEMMA WritingStep == IInv /\ WritingInv /\ [Next]_vars => WritingInv'
<1> SUFFICES ASSUME IInv, WritingInv, [Next]_vars, pc' = "writing"
             PROVE  \E s \in Streams : left'[s] > 0
  BY DEF WritingInv
<1>0. TypeOK /\ TypeOK'
  BY TypeOKStep DEF IInv
<1>1. CASE Cancel \/ Expire \/ Tick \/ UNCHANGED vars
  BY <1>1 DEF Cancel, Expire, Tick, vars, pipeVars, WritingInv
<1>2. ASSUME NEW s \in Streams, NEW n \in Sizes, Write(s, n)
      PROVE  \E t \in Streams : left'[t] > 0
  BY <1>0, <1>2, SandboxAssumption DEF Write, TypeOK
<1>3. ASSUME NEW s \in Streams, WriteChunk(s)
      PROVE  \E t \in Streams : left'[t] > 0
  <2>1. left'[s] # 0 /\ left'[s] \in Nat
    BY <1>0, <1>3 DEF WriteChunk, TypeOK
  <2>2. QED
    BY <2>1
<1>4. ~WriteFails("stdout") /\ ~WriteFails("stderr")
  BY DEF WriteFails, Returns
<1>5. ~StartRefused /\ ~Host /\ ~HostFails /\ ~EpochCheck /\ ~Advance /\ ~Complete
  <2>1. ~StartRefused /\ ~Complete
    BY DEF StartRefused, Complete, End
  <2>2. ~Host /\ ~HostFails /\ ~Advance
    BY DEF Host, Enter, HostStops, CallGuest, HostFails, Advance, Moves, Returns, End
  <2>3. ~EpochCheck
    BY DEF EpochCheck, Returns
  <2>4. QED
    BY <2>1, <2>2, <2>3
<1>6. ~Ends
  BY DEF Ends, FinishFails, Started, Pending, Settled, Moves, End
<1>7. ~GuestReturns /\ ~GrowBeyondStore
  BY DEF GuestReturns, GrowBeyondStore, Refuse, Returns
<1>8. \A m \in Memories, n \in Sizes : ~Grow(m, n) /\ ~GrowTooMuch(m, n)
  BY DEF Grow, GrowTooMuch, Refuse, Returns
<1>9. QED
  BY <1>1, <1>2, <1>3, <1>4, <1>5, <1>6, <1>7, <1>8 DEF Next, Guest, Writes, Streams

\* output.rs: check_write offers at least one byte, so that a write to a full
\* pipe fails instead of waiting for room that never comes.
THEOREM WriteTheorem == Spec => WritesGoOn
<1>1. Init => WritingInv
  BY DEF Init, WritingInv
<1>2. IInv /\ [Next]_vars => [Headway]_vars
  <2> SUFFICES ASSUME IInv, [Next]_vars, ~UNCHANGED vars, pc = "writing",
                      UNCHANGED controlVars
               PROVE  pc' = "result" \/ \E s \in Streams : left'[s] < left[s]
    BY DEF Headway
  <2>0. TypeOK
    BY DEF IInv
  <2>1. PICK s \in Streams : WriteFails(s) \/ WriteChunk(s)
    BY <2>0, Writers DEF Writes
  <2>2. CASE WriteFails(s)
    BY <2>2 DEF WriteFails, Returns
  <2>3. CASE WriteChunk(s)
    <3>1. left[s] \in Nat /\ left[s] > 0 /\ Available(s) \in Nat
      BY <2>0, <2>3, CapacityType DEF WriteChunk, TypeOK, IInv, PipeInv, Available
    <3>2. CheckWrite(s) \in Nat /\ CheckWrite(s) >= 1
      BY <3>1 DEF CheckWrite
    <3>3. Chunk(s) \in Nat /\ Chunk(s) >= 1 /\ Chunk(s) <= left[s]
      BY <3>1, <3>2 DEF Chunk
    <3>4. left'[s] = left[s] - Chunk(s)
      BY <2>0, <2>3 DEF WriteChunk, TypeOK
    <3>5. left'[s] < left[s]
      BY <3>1, <3>3, <3>4
    <3>6. QED
      BY <3>5
  <2>4. QED
    BY <2>1, <2>2, <2>3
<1>3. QED
  BY <1>1, <1>2, WritingStep, Invariance, PTL DEF Spec, WritesGoOn

\* Control::check, the epoch callback and finish: whatever the guest and the
\* clock do meanwhile, a stopped run only goes towards its end.
THEOREM StopTheorem == Spec => StopTakesEffect
<1>1. IInv /\ [Next]_vars
         => [Stopped =>
                /\ Stopped'
                /\ due = "yes" => due' = "yes"
                /\ pc' \in {"guest", "writing"} => pc \in {"guest", "writing"}
                /\ pc = "result" => pc' \in {"result", "done"}]_vars
  <2> SUFFICES ASSUME IInv, Next, Stopped
               PROVE  /\ Stopped'
                      /\ due = "yes" => due' = "yes"
                      /\ pc' \in {"guest", "writing"} => pc \in {"guest", "writing"}
                      /\ pc = "result" => pc' \in {"result", "done"}
    OBVIOUS
  <2> USE DEF controlVars
  <2>1. CASE Cancel \/ Expire \/ Tick
    BY <2>1 DEF Cancel, Expire, Tick, Stopped
  <2>2. CASE StartRefused \/ Host \/ HostFails \/ Advance \/ Complete
    BY <2>2 DEF StartRefused, Host, Enter, HostStops, CallGuest, HostFails, Advance, Complete,
         Moves, Returns, End, Stopped
  <2>3. CASE EpochCheck
    BY <2>3 DEF EpochCheck, Returns, Stopped
  <2>4. CASE Guest
    <3>1. pc = "guest" /\ UNCHANGED controlVars
      BY <2>4 DEF Guest, GuestReturns, Grow, GrowTooMuch, GrowBeyondStore, Refuse, Write
    <3>2. QED
      BY <3>1 DEF Stopped
  <2>5. CASE Writes
    <3>1. pc = "writing" /\ UNCHANGED controlVars
      BY <2>5 DEF Writes, WriteFails, WriteChunk
    <3>2. QED
      BY <3>1 DEF Stopped
  <2>6. CASE Ends
    <3>1. Verdict # "ok"
      BY DEF Verdict, Stopped
    <3>2. FinishFails
      BY <2>6, <3>1 DEF Ends, Started, Pending, Settled
    <3>3. QED
      BY <3>2 DEF FinishFails, End, Stopped
  <2>7. QED
    BY <2>1, <2>2, <2>3, <2>4, <2>5, <2>6 DEF Next
<1>2. QED
  BY <1>1, Invariance, PTL DEF Spec, StopTakesEffect
=============================================================================
