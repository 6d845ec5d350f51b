---------------------------- MODULE RuntimeProofs ----------------------------
(***************************************************************************)
(* Proofs about Runtime.tla, for every set of calls, every capacity, both  *)
(* backends and any number of restarts.                                    *)
(***************************************************************************)
EXTENDS RuntimeRefinement, FiniteSetTheorems, TLAPS

-----------------------------------------------------------------------------
(* The inductive invariant: what the handlers know of one call.            *)

\* A question is in the mailbox of the server it was asked, alone.
QuestionInv(c) ==
    /\ caller[c] = "idle" =>
          c \notin connected /\ worker[c] = "none" /\ replies[c] = <<>>
    /\ c \notin connected => inbox[c] = {}
    /\ "call" \in inbox[c] =>
          inbox[c] = {"call"} /\ worker[c] = "none" /\ replies[c] = <<>>

\* At most one reply, and none yet where one is owed.
ReplyInv(c) ==
    /\ c \in from => replies[c] = <<>>
    /\ replies[c] = <<>> \/ \E a \in Answers : replies[c] = <<a>>

\* A job and its worker: work on a living server has a job, a job has a
\* worker that runs or a message that will release it, and the messages of a
\* worker are those of its control point.
WorkerInv(c) ==
    /\ c \in jobs => worker[c] # "none" /\ caller[c] # "idle"
    /\ Working(c) /\ c \in connected => c \in jobs
    /\ worker[c] \in {"finishing", "sent"} => result[c] \in {"ok", "error"}
    /\ "result" \in inbox[c] =>
          /\ c \in jobs
          /\ worker[c] \in {"sent", "gone"}
          /\ result[c] \in {"ok", "error"}
    /\ "worker_down" \in inbox[c] => c \in jobs /\ worker[c] \in {"abandoned", "gone"}
    /\ "caller_down" \in inbox[c] => c \in jobs /\ caller[c] = "dead"
    /\ "timeout" \in inbox[c] => c \in expired

CallInv(c) == QuestionInv(c) /\ ReplyInv(c) /\ WorkerInv(c)

ServerInv ==
    /\ TypeOK
    /\ \A c \in Calls : CallInv(c)
    /\ NoCallForgotten
    /\ AbandonedIsCancelled
    /\ JobIsBounded
    /\ NoLeakedSlot

SlotInv == IsFiniteSet(jobs) /\ Cardinality(jobs) <= MaxConcurrency

IInv == ServerInv /\ SlotInv

-----------------------------------------------------------------------------
\* Replies are sequences of at most one element, made by one Append.
LEMMA OneElement ==
    /\ Len(<<>>) = 0
    /\ \A a \in Answers : /\ Append(<<>>, a) = <<a>>
                          /\ <<a>> # <<>>
                          /\ Len(<<a>>) = 1
                          /\ <<a>> \in Seq(Answers)
    /\ \A s \in Seq(Answers), a \in Answers : Append(s, a) \in Seq(Answers)
  BY DEF Answers

LEMMA OwedReply ==
    ASSUME NEW c \in Calls, NEW a \in Answers, replies \in [Calls -> Seq(Answers)],
           ReplyInv(c), ReplyIfOwed(c, a)
    PROVE  replies' = IF c \in from THEN [replies EXCEPT ![c] = <<a>>] ELSE replies
  BY OneElement DEF ReplyInv, ReplyIfOwed, Reply

\* Only native code and a wait are interrupted.
LEMMA InterruptedWorks ==
    ASSUME NEW c \in Calls, Interrupted(c)
    PROVE  worker[c] \in {"native", "waiting"}
  BY DEF Interrupted, InterruptedNative, InterruptedWait, InterruptedIsolated,
         IsolatedDeadline

\* The initial state satisfies the invariant.
LEMMA InitInv == Init => IInv
<1> SUFFICES ASSUME Init PROVE IInv
  OBVIOUS
<1> USE RuntimeAssumption, OneElement DEF Init, Working
<1>1. TypeOK
  BY DEF TypeOK, CallerState, WorkerState, Messages, Answers, Backends
<1>2. \A c \in Calls : CallInv(c)
  BY DEF CallInv, QuestionInv, ReplyInv, WorkerInv
<1>3. NoCallForgotten /\ AbandonedIsCancelled /\ JobIsBounded /\ NoLeakedSlot
  BY DEF NoCallForgotten, AbandonedIsCancelled, JobIsBounded, NoLeakedSlot
<1>4. SlotInv
  BY FS_EmptySet DEF SlotInv
<1>5. QED
  BY <1>1, <1>2, <1>3, <1>4 DEF IInv, ServerInv

\* Every step of a caller, a timer, a worker or the server preserves what
\* the handlers know of each call.
LEMMA ServerInvStep == ServerInv /\ [Next]_vars => ServerInv'
<1> SUFFICES ASSUME ServerInv, [Next]_vars PROVE ServerInv'
  OBVIOUS
<1> USE RuntimeAssumption, OneElement
    DEF ServerInv, TypeOK, CallInv, QuestionInv, ReplyInv, WorkerInv,
        NoCallForgotten, AbandonedIsCancelled, JobIsBounded, NoLeakedSlot,
        Working, serverVars, workVars, cancelVars,
        CallerState, WorkerState, Messages, Backends
<1>1. ASSUME NEW c \in Calls, Call(c) PROVE ServerInv'
  <2>1. inbox[c] = {} /\ c \notin connected /\ c \notin jobs
    BY <1>1 DEF Call
  <2>2. CASE server = "up"
    <3>1. inbox' = [inbox EXCEPT ![c] = {"call"}]
      BY <1>1, <2>2 DEF Call
    <3>2. caller' = [caller EXCEPT ![c] = "waiting"]
      BY <1>1, <2>2 DEF Call
    <3>3. connected' = connected \cup {c}
      BY <1>1, <2>2 DEF Call
    <3>4. TypeOK'
      BY <1>1, <2>1, <3>1, <3>2, <3>3 DEF Call
    <3>5. \A d \in Calls : QuestionInv(d)'
      BY <1>1, <2>1, <3>1, <3>2, <3>3 DEF Call
    <3>6. \A d \in Calls : ReplyInv(d)'
      BY <1>1, <2>1, <3>1, <3>2, <3>3 DEF Call
    <3>7. \A d \in Calls : WorkerInv(d)'
      BY <1>1, <2>1, <3>1, <3>2, <3>3 DEF Call
    <3>8. NoCallForgotten' 
      BY <1>1, <2>1, <3>1, <3>2, <3>3 DEF Call
    <3>9. AbandonedIsCancelled' /\ JobIsBounded' /\ NoLeakedSlot'
      BY <1>1, <2>1, <3>1, <3>2, <3>3 DEF Call
    <3>10. QED
      BY <3>4, <3>5, <3>6, <3>7, <3>8, <3>9
  <2>3. CASE server = "down"
    <3>2. caller' = [caller EXCEPT ![c] = "runtime_down"] /\ UNCHANGED <<inbox, connected>>
      BY <1>1, <2>3 DEF Call
    <3>4. TypeOK'
      BY <1>1, <2>1, <3>2 DEF Call
    <3>5. \A d \in Calls : CallInv(d)'
      BY <1>1, <2>1, <3>2 DEF Call
    <3>8. NoCallForgotten' 
      BY <1>1, <2>1, <3>2 DEF Call
    <3>9. AbandonedIsCancelled' /\ JobIsBounded' /\ NoLeakedSlot'
      BY <1>1, <2>1, <3>2 DEF Call
    <3>10. QED
      BY <3>4, <3>5, <3>8, <3>9
  <2>4. QED
    BY <2>2, <2>3
<1>2. ASSUME NEW c \in Calls, Expire(c) PROVE ServerInv'
  BY <1>2 DEF Expire
<1>3. ASSUME NEW c \in Calls, CallerReturns(c) PROVE ServerInv'
  BY <1>3 DEF CallerReturns
<1>4. ASSUME NEW c \in Calls, CallerSeesDown(c) PROVE ServerInv'
  BY <1>4 DEF CallerSeesDown
<1>5. ASSUME NEW c \in Calls, CallerDies(c) PROVE ServerInv'
  BY <1>5 DEF CallerDies
<1>6. ASSUME NEW c \in Calls, RejectCall(c) PROVE ServerInv'
  <2>1. replies' = [replies EXCEPT ![c] = <<"rejected">>] /\ "rejected" \in Answers
    BY <1>6 DEF RejectCall, Reply, Answers
  <2>2. QED
    BY <1>6, <2>1 DEF RejectCall, Take
<1>7. ASSUME NEW c \in Calls, BusyCall(c) PROVE ServerInv'
  <2>1. replies' = [replies EXCEPT ![c] = <<"busy">>] /\ "busy" \in Answers
    BY <1>7 DEF BusyCall, Reply, Answers
  <2>2. QED
    BY <1>7, <2>1 DEF BusyCall, Take
<1>8. ASSUME NEW c \in Calls, LateCall(c) PROVE ServerInv'
  <2>1. replies' = [replies EXCEPT ![c] = <<"timeout">>] /\ "timeout" \in Answers
    BY <1>8 DEF LateCall, Reply, Answers
  <2>2. QED
    BY <1>8, <2>1 DEF LateCall, Take
<1>9. ASSUME NEW c \in Calls, StartJob(c) PROVE ServerInv'
  BY <1>9 DEF StartJob, ArmTimer
<1>10. ASSUME NEW c \in Calls, TimerFires(c) PROVE ServerInv'
  BY <1>10 DEF TimerFires
<1>11. ASSUME NEW c \in Calls, HandleResult(c) PROVE ServerInv'
  <2>1. Outcome(c) \in Answers
    BY <1>11 DEF HandleResult, Outcome, Answers
  <2>2. replies' = IF c \in from THEN [replies EXCEPT ![c] = <<Outcome(c)>>]
                   ELSE replies
    BY <1>11, <2>1, OwedReply DEF HandleResult
  <2>3. TypeOK'
    BY <1>11, <2>1, <2>2 DEF HandleResult, ReleaseJob
  <2>4. \A d \in Calls : CallInv(d)'
    BY <1>11, <2>1, <2>2 DEF HandleResult, ReleaseJob
  <2>5. QED
    BY <1>11, <2>1, <2>2, <2>3, <2>4 DEF HandleResult, ReleaseJob
<1>12. ASSUME NEW c \in Calls, HandleTimeout(c) PROVE ServerInv'
  <2>1. "timeout" \in Answers
    BY <1>12 DEF HandleTimeout, Answers
  <2>2. replies' = IF c \in from THEN [replies EXCEPT ![c] = <<"timeout">>]
                   ELSE replies
    BY <1>12, <2>1, OwedReply DEF HandleTimeout
  <2>3. TypeOK'
    BY <1>12, <2>1, <2>2 DEF HandleTimeout, Cancel, Settle, Take
  <2>4. \A d \in Calls : CallInv(d)'
    BY <1>12, <2>1, <2>2 DEF HandleTimeout, Cancel, Settle, Take
  <2>5. /\ c \in cancels' /\ (backend = "in_process" => c \in control')
        /\ cancels \subseteq cancels' /\ control \subseteq control'
    BY <1>12 DEF HandleTimeout, Cancel
  <2>6. jobs' = jobs /\ from' = from \ {c} /\ UNCHANGED <<caller, backend>>
    BY <1>12 DEF HandleTimeout, Settle
  <2>7. inbox' = [inbox EXCEPT ![c] = @ \ {"timeout"}]
    BY <1>12 DEF HandleTimeout, Take
  <2>8. c \in from => replies'[c] = <<"timeout">>
    BY <2>2
  <2>9. \A d \in Calls \ {c} : replies'[d] = replies[d]
    BY <2>2
  <2>10. NoCallForgotten'
    BY <1>12, <2>1, <2>2, <2>6, <2>7, <2>8, <2>9 DEF HandleTimeout
  <2>11. JobIsBounded'
    BY <1>12, <2>5, <2>6, <2>7 DEF HandleTimeout
  <2>12. NoLeakedSlot'
    <3>1. worker' = worker
      BY <1>12 DEF HandleTimeout
    <3>2. SUFFICES ASSUME NEW d \in jobs
                   PROVE  Working(d)' \/ inbox'[d] \cap {"result", "worker_down"} # {}
      BY <2>6
    <3>3. d \in Calls
      OBVIOUS
    <3>4. Working(d) \/ inbox[d] \cap {"result", "worker_down"} # {}
      OBVIOUS
    <3>5. inbox'[d] \cap {"result", "worker_down"} = inbox[d] \cap {"result", "worker_down"}
      BY <2>7, <3>3
    <3>6. QED
      BY <3>1, <3>4, <3>5
  <2>13. AbandonedIsCancelled'
    BY <2>2, <2>5, <2>6, <2>8, <2>9
  <2>14. QED
    BY <2>3, <2>4, <2>10, <2>11, <2>12, <2>13
<1>13. ASSUME NEW c \in Calls, StaleTimeout(c) PROVE ServerInv'
  BY <1>13 DEF StaleTimeout, Take
<1>14. ASSUME NEW c \in Calls, HandleWorkerDown(c) PROVE ServerInv'
  <2>1. "trap" \in Answers
    BY <1>14 DEF HandleWorkerDown, Answers
  <2>2. replies' = IF c \in from THEN [replies EXCEPT ![c] = <<"trap">>]
                   ELSE replies
    BY <1>14, <2>1, OwedReply DEF HandleWorkerDown
  <2>3. TypeOK'
    BY <1>14, <2>1, <2>2 DEF HandleWorkerDown, ReleaseJob
  <2>4. \A d \in Calls : CallInv(d)'
    BY <1>14, <2>1, <2>2 DEF HandleWorkerDown, ReleaseJob
  <2>5. QED
    BY <1>14, <2>1, <2>2, <2>3, <2>4 DEF HandleWorkerDown, ReleaseJob
<1>15. ASSUME NEW c \in Calls, HandleCallerDown(c) PROVE ServerInv'
  BY <1>15 DEF HandleCallerDown, Cancel, Settle, Take
<1>16. ASSUME Stop PROVE ServerInv'
  BY <1>16 DEF Stop, ServerGone
<1>17. ASSUME Kill PROVE ServerInv'
  BY <1>17 DEF Kill, ServerGone
<1>18. ASSUME Restart PROVE ServerInv'
  BY <1>18 DEF Restart
<1>19. ASSUME NEW c \in Calls, Yields(c) PROVE ServerInv'
  BY <1>19 DEF Yields
<1>20. ASSUME NEW c \in Calls, Resumes(c) PROVE ServerInv'
  BY <1>20 DEF Resumes
<1>21. ASSUME NEW c \in Calls, NativeReturns(c) PROVE ServerInv'
  BY <1>21 DEF NativeReturns, Finish
<1>22. ASSUME NEW c \in Calls, CallbackFails(c) PROVE ServerInv'
  BY <1>22 DEF CallbackFails, Finish
<1>23. ASSUME NEW c \in Calls, Interrupt(c) PROVE ServerInv'
  <2>1. worker[c] \in {"native", "waiting"}
    BY <1>23, InterruptedWorks DEF Interrupt
  <2>2. QED
    BY <1>23, <2>1 DEF Interrupt, Finish
<1>24. ASSUME NEW c \in Calls, SendResult(c) PROVE ServerInv'
  <2>1. TypeOK'
    BY <1>24 DEF SendResult
  <2>2. \A d \in Calls : CallInv(d)'
    BY <1>24 DEF SendResult
  <2>3. NoCallForgotten' /\ AbandonedIsCancelled' /\ JobIsBounded'
    BY <1>24 DEF SendResult
  <2>4. NoLeakedSlot'
    BY <1>24 DEF SendResult
  <2>5. QED
    BY <2>1, <2>2, <2>3, <2>4
<1>25. ASSUME NEW c \in Calls, WorkerExits(c) PROVE ServerInv'
  <2>1. TypeOK'
    BY <1>25 DEF WorkerExits, Exit
  <2>2. \A d \in Calls : CallInv(d)'
    BY <1>25 DEF WorkerExits, Exit
  <2>3. NoCallForgotten' /\ AbandonedIsCancelled' /\ JobIsBounded'
    BY <1>25 DEF WorkerExits, Exit
  <2>4. NoLeakedSlot'
    BY <1>25 DEF WorkerExits, Exit
  <2>5. QED
    BY <2>1, <2>2, <2>3, <2>4
<1>26. ASSUME NEW c \in Calls, WorkerCrashes(c) PROVE ServerInv'
  <2>1. TypeOK'
    BY <1>26 DEF WorkerCrashes, Exit
  <2>2. \A d \in Calls : CallInv(d)'
    BY <1>26 DEF WorkerCrashes, Exit
  <2>3. NoCallForgotten' /\ AbandonedIsCancelled' /\ JobIsBounded'
    BY <1>26 DEF WorkerCrashes, Exit
  <2>4. NoLeakedSlot'
    BY <1>26 DEF WorkerCrashes, Exit
  <2>5. QED
    BY <2>1, <2>2, <2>3, <2>4
<1>27. ASSUME NEW c \in Calls, WorkerKilled(c) PROVE ServerInv'
  <2>1. TypeOK'
    BY <1>27 DEF WorkerKilled, Exit
  <2>2. \A d \in Calls : CallInv(d)'
    BY <1>27 DEF WorkerKilled, Exit
  <2>3. NoCallForgotten' /\ AbandonedIsCancelled' /\ JobIsBounded'
    BY <1>27 DEF WorkerKilled, Exit
  <2>4. NoLeakedSlot'
    BY <1>27 DEF WorkerKilled, Exit
  <2>5. QED
    BY <2>1, <2>2, <2>3, <2>4
<1>28. ASSUME NEW c \in Calls, AbandonedEnds(c) PROVE ServerInv'
  BY <1>28 DEF AbandonedEnds
<1>29. CASE UNCHANGED vars
  BY <1>29 DEF vars
<1>30. QED
  BY <1>1, <1>2, <1>3, <1>4, <1>5, <1>6, <1>7, <1>8, <1>9, <1>10, <1>11, <1>12, <1>13, <1>14, <1>15, <1>16, <1>17, <1>18, <1>19, <1>20, <1>21, <1>22, <1>23, <1>24, <1>25, <1>26, <1>27, <1>28,
     <1>29
     DEF Next, CallerStep, ServerStep, HandleCall, WorkerStep

\* A job is only added below the capacity.
LEMMA SlotInvStep == IInv /\ [Next]_vars => SlotInv'
<1> SUFFICES ASSUME IInv, [Next]_vars PROVE SlotInv'
  OBVIOUS
<1>1. IsFiniteSet(jobs) /\ Cardinality(jobs) <= MaxConcurrency
  BY DEF IInv, SlotInv
<1>2. Cardinality(jobs) \in Nat /\ MaxConcurrency \in Nat
  BY <1>1, FS_CardinalityType, RuntimeAssumption
<1>3. CASE jobs' = jobs
  BY <1>1, <1>3 DEF SlotInv
<1>4. CASE jobs' = {}
  BY <1>2, <1>4, FS_EmptySet DEF SlotInv
<1>5. ASSUME NEW c \in Calls, jobs' = jobs \ {c} PROVE SlotInv'
  BY <1>1, <1>2, <1>5, FS_RemoveElement DEF SlotInv
<1>6. ASSUME NEW c \in Calls, StartJob(c) PROVE SlotInv'
  <2>1. jobs' = jobs \cup {c} /\ Cardinality(jobs) < MaxConcurrency
    BY <1>6 DEF StartJob, HasRoom
  <2>2. QED
    BY <1>1, <1>2, <2>1, FS_AddElement DEF SlotInv
<1>7. QED
  BY <1>3, <1>4, <1>5, <1>6
     DEF Next, CallerStep, ServerStep, HandleCall, WorkerStep, vars, serverVars,
         Call, Expire, CallerReturns, CallerSeesDown, CallerDies, RejectCall,
         BusyCall, LateCall, TimerFires, HandleResult, HandleTimeout,
         StaleTimeout, HandleWorkerDown, HandleCallerDown, ReleaseJob, Stop,
         Kill, ServerGone, Restart, Yields, Resumes, NativeReturns,
         CallbackFails, Interrupt, Finish, SendResult, WorkerExits,
         WorkerCrashes, WorkerKilled, AbandonedEnds, Exit

\* The invariant holds in every reachable state.
LEMMA Invariance == Spec => []IInv
<1>1. IInv /\ [Next]_vars => IInv'
  BY ServerInvStep, SlotInvStep DEF IInv
<1>2. QED
  BY <1>1, InitInv, PTL DEF Spec

-----------------------------------------------------------------------------
(* Theorems.                                                               *)

\* The variables keep their types, whatever the calls and the capacity.
THEOREM TypeCorrect == Spec => []TypeOK
<1>1. IInv => TypeOK
  BY DEF IInv, ServerInv
<1>2. QED
  BY <1>1, Invariance, PTL

\* One server never runs more than max_concurrency worker processes, those of
\* abandoned calls included: each of them has an entry in state.jobs.
THEOREM CapacityTheorem == Spec => []CapacityRespected
<1>1. ASSUME IInv PROVE CapacityRespected
  <2> DEFINE W == {c \in connected : Working(c)}
  <2>1. W \subseteq jobs
    BY <1>1 DEF IInv, ServerInv, TypeOK, CallInv, WorkerInv
  <2>2. IsFiniteSet(jobs) /\ Cardinality(jobs) <= MaxConcurrency
    BY <1>1 DEF IInv, SlotInv
  <2>3. /\ IsFiniteSet(W)
        /\ Cardinality(W) <= Cardinality(jobs)
    BY <2>1, <2>2, FS_Subset
  <2>4. Cardinality(W) \in Nat /\ Cardinality(jobs) \in Nat /\ MaxConcurrency \in Nat
    BY <2>2, <2>3, FS_CardinalityType, RuntimeAssumption
  <2>5. QED
    BY <2>2, <2>3, <2>4 DEF CapacityRespected
<1>2. QED
  BY <1>1, Invariance, PTL

\* No caller is answered twice, whichever of the result, the timeout and the
\* two DOWNs comes first.
THEOREM OneReplyTheorem == Spec => []OneReply
<1>1. ASSUME IInv PROVE OneReply
  <2>1. ASSUME NEW c \in Calls PROVE Len(replies[c]) <= 1
    <3>1. replies[c] = <<>> \/ \E a \in Answers : replies[c] = <<a>>
      BY <1>1 DEF IInv, ServerInv, CallInv, ReplyInv
    <3>2. CASE replies[c] = <<>>
      BY <3>2, OneElement
    <3>3. ASSUME NEW a \in Answers, replies[c] = <<a>>
          PROVE  Len(replies[c]) <= 1
      <4>1. Len(<<a>>) = 1
        BY OneElement
      <4>2. QED
        BY <3>3, <4>1
    <3>4. QED
      BY <3>1, <3>2, <3>3
  <2>2. QED
    BY <2>1 DEF OneReply
<1>2. QED
  BY <1>1, Invariance, PTL

\* The server keeps track of every call: a waiting caller is owed its reply,
\* an abandoned job is told to stop, every job has an end, and every slot is
\* on its way back once its worker has ended.
THEOREM NothingForgotten == Spec => []NothingIsForgotten
<1>1. IInv => NothingIsForgotten
  BY DEF IInv, ServerInv, NothingIsForgotten
<1>2. QED
  BY <1>1, Invariance, PTL

\* A living server frees a slot only when the worker process has ended, and
\* before its native code has only when the process was killed.
THEOREM SlotTheorem == Spec => SlotRetained
<1>1. ASSUME IInv, [Next]_vars, NEW c \in jobs \ jobs', server' = "up"
      PROVE  ~Working(c) /\ (worker[c] = "abandoned" => "worker_down" \in inbox[c])
  <2>1. c \in Calls /\ CallInv(c)
    BY <1>1 DEF IInv, ServerInv, TypeOK
  <2>2. \/ HandleResult(c)
        \/ HandleWorkerDown(c)
    BY <1>1
       DEF Next, CallerStep, ServerStep, HandleCall, WorkerStep, vars,
           serverVars, Call, Expire, CallerReturns, CallerSeesDown, CallerDies,
           RejectCall, BusyCall, LateCall, StartJob, TimerFires, HandleResult,
           HandleTimeout, StaleTimeout, HandleWorkerDown, HandleCallerDown,
           ReleaseJob, Stop, Kill, ServerGone, Restart, Yields, Resumes,
           NativeReturns, CallbackFails, Interrupt, Finish, SendResult,
           WorkerExits, WorkerCrashes, WorkerKilled, AbandonedEnds, Exit
  <2>3. QED
    BY <2>1, <2>2 DEF HandleResult, HandleWorkerDown, CallInv, WorkerInv, Working
<1>2. IInv /\ [Next]_vars
        => [\A c \in jobs \ jobs' :
               server' = "up" =>
                   /\ ~Working(c)
                   /\ worker[c] = "abandoned" => "worker_down" \in inbox[c]]_vars
  BY <1>1
<1>3. QED
  BY <1>2, Invariance, PTL DEF Spec, SlotRetained

\* An answer is recognised by the step that appends it.
LEMMA AppendTells ==
    ASSUME NEW s \in Seq(Answers), NEW a \in Answers
    PROVE  /\ Append(s, a) # s
           /\ \A b \in Answers : Append(s, a) = Append(s, b) => a = b
<1>1. Len(Append(s, a)) = Len(s) + 1 /\ Len(s) \in Nat
  OBVIOUS
<1>2. \A b \in Answers : Append(s, b)[Len(s) + 1] = b
  OBVIOUS
<1>3. QED
  BY <1>1, <1>2

\* A success is only ever reported before the deadline, a timeout only
\* after it.
THEOREM DeadlineTheorem == Spec => DeadlineDecides
<1> DEFINE Timely(c) ==
        /\ replies'[c] = Append(replies[c], "ok") => c \notin expired
        /\ replies'[c] = Append(replies[c], "timeout") => c \in expired
<1>1. ASSUME IInv, [Next]_vars, NEW c \in Calls PROVE Timely(c)
  <2>1. /\ replies \in [Calls -> Seq(Answers)]
        /\ "ok" \in Answers /\ "timeout" \in Answers
    BY <1>1 DEF IInv, ServerInv, TypeOK, Answers
  <2>2. CASE replies'[c] = replies[c]
    BY <2>1, <2>2, AppendTells
  <2>3. ASSUME NEW a \in Answers, Reply(c, a),
               a = "ok" => c \notin expired, a = "timeout" => c \in expired
        PROVE  Timely(c)
    <3>1. replies'[c] = Append(replies[c], a)
      BY <2>1, <2>3 DEF Reply
    <3>2. QED
      BY <2>1, <2>3, <3>1, AppendTells
  <2>4. ASSUME NEW d \in Calls, NEW a, Reply(d, a), d # c PROVE Timely(c)
    <3>1. replies'[c] = replies[c]
      BY <2>1, <2>4 DEF Reply
    <3>2. QED
      BY <2>2, <3>1
  <2>5. CASE UNCHANGED replies
    BY <2>2, <2>5
  <2>6. ASSUME NEW d \in Calls,
               \/ RejectCall(d) \/ BusyCall(d) \/ LateCall(d)
               \/ HandleResult(d) \/ HandleTimeout(d) \/ HandleWorkerDown(d)
        PROVE  Timely(c)
    <3>1. CASE UNCHANGED replies
      BY <2>5, <3>1
    <3>2. CASE d # c
      BY <2>4, <2>6, <3>1, <3>2
         DEF RejectCall, BusyCall, LateCall, HandleResult, HandleTimeout,
             HandleWorkerDown, ReplyIfOwed
    <3>3. CASE d = c
      <4>1. "result" \in inbox[c] => Outcome(c) \in Answers /\ (Outcome(c) = "timeout" <=> c \in expired)
        BY <1>1 DEF IInv, ServerInv, CallInv, WorkerInv, Outcome, Answers
      <4>2. "timeout" \in inbox[c] => c \in expired
        BY <1>1 DEF IInv, ServerInv, CallInv, WorkerInv
      <4>3. {"rejected", "busy", "timeout", "trap"} \subseteq Answers
        BY DEF Answers
      <4>4. QED
        BY <2>3, <2>6, <3>1, <3>3, <4>1, <4>2, <4>3
           DEF RejectCall, BusyCall, LateCall, HandleResult, HandleTimeout,
               HandleWorkerDown, ReplyIfOwed
    <3>4. QED
      BY <3>2, <3>3
  <2>7. QED
    BY <1>1, <2>5, <2>6
       DEF Next, CallerStep, ServerStep, HandleCall, WorkerStep, vars,
           Call, Expire, CallerReturns, CallerSeesDown, CallerDies, StartJob,
           TimerFires, StaleTimeout, HandleCallerDown, Stop, Kill, Restart,
           Yields, Resumes, NativeReturns, CallbackFails, Interrupt, Finish,
           SendResult, WorkerExits, WorkerCrashes, WorkerKilled, AbandonedEnds,
           Exit
<1>2. IInv /\ [Next]_vars => [\A c \in Calls : Timely(c)]_vars
  BY <1>1
<1>3. QED
  BY <1>2, Invariance, PTL DEF Spec, DeadlineDecides

-----------------------------------------------------------------------------
(* Runtime.tla implements Admission.tla: every step of the server, its     *)
(* callers, its timers and its workers is a step of the promise or leaves  *)
(* what the promise speaks of alone.                                       *)

asked   == {c \in Calls : "call" \in inbox[c]}
running == {c \in Calls : Working(c)}
left    == {c \in Calls : caller[c] = "dead"}

\* What the promise sees of a state.
seen == <<asked, jobs, running, left, replies>>

\* What the invariant says of the call a handler is about.
LEMMA CallFacts ==
    ASSUME IInv, NEW c \in Calls
    PROVE  /\ caller[c] = "idle" => /\ inbox[c] = {}
                                    /\ c \notin asked \cup jobs \cup running
           /\ "call" \in inbox[c] => c \in asked /\ replies[c] = <<>> /\ c \notin running
           /\ "result" \in inbox[c] => c \in jobs \ running /\ result[c] \in {"ok", "error"}
           /\ "worker_down" \in inbox[c] => c \in jobs \ running
           /\ c \in from => replies[c] = <<>>
           /\ c \in jobs \ from => replies[c] # <<>> \/ c \in left
  BY OneElement
     DEF IInv, ServerInv, TypeOK, CallInv, QuestionInv, ReplyInv, WorkerInv,
         AbandonedIsCancelled, Working, asked, running, left, Answers

\* A reply that is owed is the first one.
LEMMA FirstReply ==
    ASSUME IInv, NEW c \in Calls, NEW a \in Answers, Reply(c, a), replies[c] = <<>>
    PROVE  replies' = [replies EXCEPT ![c] = <<a>>]
  BY OneElement DEF Reply

\* Admission counts as Runtime does.
LEMMA SameCount == Promise!HasSlot <=> HasRoom
  BY Zenon DEF Promise!HasSlot, HasRoom, Promise!Cardinality, Cardinality

\* Steps the promise does not see.
LEMMA Unseen ==
    ASSUME IInv, NEW c \in Calls,
           \/ Expire(c) \/ CallerReturns(c) \/ CallerSeesDown(c) \/ TimerFires(c)
           \/ StaleTimeout(c) \/ HandleCallerDown(c)
           \/ Yields(c) \/ Resumes(c) \/ NativeReturns(c) \/ CallbackFails(c)
           \/ Interrupt(c) \/ WorkerExits(c) \/ AbandonedEnds(c)
    PROVE  UNCHANGED seen
<1> USE DEF IInv, ServerInv, TypeOK, seen, asked, running, left, Working,
            serverVars, workVars, Finish, Take
<1>1. CASE Expire(c) \/ CallerReturns(c) \/ CallerSeesDown(c)
  BY <1>1 DEF Expire, CallerReturns, CallerSeesDown
<1>2. CASE TimerFires(c) \/ StaleTimeout(c) \/ HandleCallerDown(c)
  <2>1. UNCHANGED <<jobs, caller, worker, replies>>
    BY <1>2 DEF TimerFires, StaleTimeout, HandleCallerDown
  <2>2. \A d \in Calls : "call" \in inbox'[d] <=> "call" \in inbox[d]
    <3>1. CASE TimerFires(c)
      BY <3>1 DEF TimerFires
    <3>2. CASE StaleTimeout(c) \/ HandleCallerDown(c)
      BY <3>2 DEF StaleTimeout, HandleCallerDown
    <3>3. QED
      BY <1>2, <3>1, <3>2
  <2>3. QED
    BY <2>1, <2>2
<1>3. CASE Yields(c) \/ Resumes(c)
  BY <1>3 DEF Yields, Resumes
<1>4. CASE NativeReturns(c) \/ CallbackFails(c) \/ Interrupt(c)
  BY <1>4, InterruptedWorks DEF NativeReturns, CallbackFails, Interrupt
<1>5. CASE WorkerExits(c)
  BY <1>5 DEF WorkerExits, Exit
<1>6. CASE AbandonedEnds(c)
  BY <1>6 DEF AbandonedEnds
<1>7. QED
  BY <1>1, <1>2, <1>3, <1>4, <1>5, <1>6

-----------------------------------------------------------------------------
\* Each remaining step is the step of the promise it is named for.
LEMMA StepRefines == IInv /\ [Next]_vars => [Promise!Next]_Promise!vars
<1> SUFFICES ASSUME IInv, [Next]_vars
             PROVE  Promise!Next \/ UNCHANGED seen
  BY DEF seen, asked, running, left, Promise!vars
<1> USE DEF asked, running, left
<1>1. ASSUME NEW c \in Calls, Call(c) PROVE Promise!Ask(c) \/ UNCHANGED seen
  <2>1. c \notin asked \cup jobs \cup running /\ running' = running /\ left' = left
    BY <1>1, CallFacts DEF Call, Working, workVars, IInv, ServerInv, TypeOK
  <2>2. asked' = asked \cup {c} \/ UNCHANGED asked
    BY <1>1 DEF Call, IInv, ServerInv, TypeOK
  <2>3. UNCHANGED <<jobs, replies>>
    BY <1>1 DEF Call
  <2>4. QED
    BY <2>1, <2>2, <2>3 DEF Promise!Ask, seen
<1>2. ASSUME NEW c \in Calls, CallerDies(c) PROVE Promise!Leave(c)
  <2>1. UNCHANGED <<asked, jobs, running, replies>>
    BY <1>2 DEF CallerDies, Working, serverVars, workVars, IInv, ServerInv, TypeOK
  <2>2. left' = left \cup {c}
    BY <1>2 DEF CallerDies, IInv, ServerInv, TypeOK
  <2>3. QED
    BY <2>1, <2>2 DEF Promise!Leave
<1>3. ASSUME NEW c \in Calls, RejectCall(c) \/ BusyCall(c) \/ LateCall(c)
      PROVE  Promise!Refuse(c)
  <2>1. UNCHANGED <<jobs, running, left>> /\ Take(c, "call") /\ "call" \in inbox[c]
    BY <1>3 DEF RejectCall, BusyCall, LateCall, serverVars, workVars, Working
  <2>2. asked' = asked \ {c} /\ c \in asked /\ replies[c] = <<>>
    BY <2>1, CallFacts DEF Take, IInv, ServerInv, TypeOK
  <2>3. PICK a \in Promise!Refusals : Reply(c, a) /\ (a = "busy" => ~HasRoom)
    BY <1>3 DEF RejectCall, BusyCall, LateCall, Promise!Refusals
  <2>4. replies' = [replies EXCEPT ![c] = <<a>>]
    BY <2>2, <2>3, FirstReply DEF Promise!Refusals, Answers
  <2>5. QED
    BY <2>1, <2>2, <2>3, <2>4, SameCount DEF Promise!Refuse, Promise!Answer
<1>4. ASSUME NEW c \in Calls, StartJob(c) PROVE Promise!Admit(c)
  <2>1. asked' = asked \ {c} /\ c \in asked /\ UNCHANGED <<left, replies>>
    BY <1>4 DEF StartJob, IInv, ServerInv, TypeOK
  <2>2. running' = running \cup {c} /\ jobs' = jobs \cup {c}
    BY <1>4 DEF StartJob, Working, IInv, ServerInv, TypeOK
  <2>3. QED
    BY <1>4, <2>1, <2>2, SameCount DEF StartJob, Promise!Admit
<1>5. ASSUME NEW c \in Calls, HandleTimeout(c)
      PROVE  Promise!TimeOut(c) \/ UNCHANGED seen
  <2>1. UNCHANGED <<asked, jobs, running, left>> /\ c \in jobs
    BY <1>5 DEF HandleTimeout, Take, Working, workVars, IInv, ServerInv, TypeOK
  <2>2. CASE c \in from
    <3>1. replies[c] = <<>> /\ Reply(c, "timeout")
      BY <1>5, <2>2, CallFacts DEF HandleTimeout, ReplyIfOwed
    <3>2. replies' = [replies EXCEPT ![c] = <<"timeout">>]
      BY <3>1, FirstReply DEF Answers
    <3>3. QED
      BY <2>1, <3>1, <3>2 DEF Promise!TimeOut, Promise!Answer
  <2>3. CASE c \notin from
    BY <1>5, <2>1, <2>3 DEF HandleTimeout, ReplyIfOwed, seen
  <2>4. QED
    BY <2>2, <2>3
<1>6. ASSUME NEW c \in Calls, HandleResult(c) \/ HandleWorkerDown(c)
      PROVE  Promise!Release(c)
  <2>1. c \in jobs \ running /\ jobs' = jobs \ {c}
    BY <1>6, CallFacts DEF HandleResult, HandleWorkerDown, ReleaseJob
  <2>2. UNCHANGED <<asked, running, left>>
    <3>1. CASE HandleResult(c)
      BY <3>1 DEF HandleResult, ReleaseJob, Working, workVars, IInv, ServerInv, TypeOK
    <3>2. CASE HandleWorkerDown(c)
      BY <3>2 DEF HandleWorkerDown, ReleaseJob, Working, workVars, IInv, ServerInv, TypeOK
    <3>3. QED
      BY <1>6, <3>1, <3>2
  <2>3. \E a \in Promise!Outcomes : ReplyIfOwed(c, a)
    BY <1>6, CallFacts DEF HandleResult, HandleWorkerDown, Outcome, Promise!Outcomes
  <2>4. CASE c \in from
    <3>1. PICK a \in Promise!Outcomes : Reply(c, a)
      BY <2>3, <2>4 DEF ReplyIfOwed
    <3>2. replies[c] = <<>>
      BY <2>4, CallFacts
    <3>3. replies' = [replies EXCEPT ![c] = <<a>>]
      BY <3>1, <3>2, FirstReply DEF Promise!Outcomes, Answers
    <3>4. QED
      BY <2>1, <2>2, <3>2, <3>3 DEF Promise!Release, Promise!Answer
  <2>5. CASE c \notin from
    <3>1. UNCHANGED replies
      BY <2>3, <2>5 DEF ReplyIfOwed
    <3>2. replies[c] # <<>> \/ c \in left
      BY <2>1, <2>5, CallFacts
    <3>3. QED
      BY <2>1, <2>2, <3>1, <3>2 DEF Promise!Release
  <2>6. QED
    BY <2>4, <2>5
<1>7. ASSUME NEW c \in Calls, SendResult(c) \/ WorkerCrashes(c) \/ WorkerKilled(c)
      PROVE  Promise!Halt(c)
  <2>1. UNCHANGED <<asked, jobs, left, replies>>
    <3>1. /\ UNCHANGED <<jobs, caller, replies>>
          /\ \A d \in Calls : "call" \in inbox'[d] <=> "call" \in inbox[d]
      <4>1. CASE SendResult(c)
        BY <4>1 DEF SendResult, serverVars, IInv, ServerInv, TypeOK
      <4>2. CASE WorkerCrashes(c)
        BY <4>2 DEF WorkerCrashes, Exit, serverVars, IInv, ServerInv, TypeOK
      <4>3. CASE WorkerKilled(c)
        BY <4>3 DEF WorkerKilled, Exit, serverVars, IInv, ServerInv, TypeOK
      <4>4. QED
        BY <1>7, <4>1, <4>2, <4>3
    <3>2. QED
      BY <3>1
  <2>2. running' = running \ {c} /\ c \in running
    BY <1>7 DEF SendResult, WorkerCrashes, WorkerKilled, Exit, Working, IInv, ServerInv, TypeOK
  <2>3. QED
    BY <2>1, <2>2 DEF Promise!Halt
<1>8. ASSUME Stop \/ Kill PROVE Promise!Collapse
  BY <1>8 DEF Stop, Kill, ServerGone, Working, workVars, Promise!Collapse
<1>9. ASSUME Restart PROVE UNCHANGED seen
  BY <1>9 DEF Restart, Working, workVars, seen
<1>10. CASE UNCHANGED vars
  BY <1>10 DEF vars, serverVars, workVars, Working, seen
<1>11. QED
  BY <1>1, <1>2, <1>3, <1>4, <1>5, <1>6, <1>7, <1>8, <1>9, <1>10, Unseen
     DEF Next, CallerStep, ServerStep, HandleCall, WorkerStep, Promise!Next

\* Everything the server, its callers and its workers do is allowed by the
\* promise of Admission.tla.
THEOREM Implementation == Spec => KeepsPromise
<1>1. Init => Promise!Init
  BY DEF Init, Promise!Init, Working
<1>2. QED
  BY <1>1, StepRefines, Invariance, PTL DEF Spec, KeepsPromise, Promise!Spec
=============================================================================
