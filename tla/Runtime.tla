------------------------------- MODULE Runtime -------------------------------
(***************************************************************************)
(* The runtime server of lib/javex/runtime.ex: a GenServer that admits a   *)
(* bounded number of executions and compilations, runs each on a           *)
(* monitored worker process, and answers its caller exactly once -- with   *)
(* the result, a timeout, a trap, or a refusal.  The callers, the workers  *)
(* and the death and restart of the server are part of the model; what a   *)
(* worker does while it "runs" is abstracted to its control points.        *)
(*                                                                         *)
(* One call of Javex.run or Javex.compile is one element of Calls; it      *)
(* stands for the calling process, the worker pid and the map entry        *)
(* state.jobs[pid] alike, since each of them is made once per call.        *)
(*                                                                         *)
(* Time is the set `expired' of the calls whose deadline                   *)
(* `started + timeout' has passed: the code compares now() with nothing    *)
(* else.  The server's mailbox is a set of messages per call: Erlang       *)
(* orders only the signals of one sender, and the one order the handlers   *)
(* rely on -- a worker's result before its DOWN -- is a guard below.       *)
(***************************************************************************)
EXTENDS Naturals, Sequences, FiniteSets

CONSTANTS
    Calls,           \* calls of Javex.run and Javex.compile
    Compiles,        \* those that are compilations; the rest are runs
    MaxConcurrency,  \* the :max_concurrency option
    MaxRestarts      \* bound on the restarts of the server by its supervisor

\* Options.runtime refuses a :max_concurrency below 1.
ASSUME RuntimeAssumption ==
    /\ Compiles \subseteq Calls
    /\ MaxConcurrency \in Nat \ {0}
    /\ MaxRestarts \in Nat

VARIABLES
    backend,    \* the :backend option, chosen at the start and kept
    server,     \* is the server process alive: "up" or "down"
    restarts,   \* how often it was restarted
    connected,  \* calls made to the present incarnation of the server
    caller,     \* state of each calling process
    replies,    \* the replies sent to each caller, in order
    expired,    \* calls whose deadline has passed
    inbox,      \* messages to the server about each call, not yet handled
    jobs,       \* domain of state.jobs
    from,       \* jobs whose `from' field is not nil
    timers,     \* jobs whose deadline timer is armed
    worker,     \* control point of each worker process
    result,     \* the result a finished worker has computed
    control,    \* calls whose Native control was cancelled
    cancels     \* workers that were sent :cancel

serverVars == <<backend, server, restarts, connected, jobs, from, timers>>
workVars   == <<worker, result>>
cancelVars == <<control, cancels>>
vars == <<serverVars, caller, replies, expired, inbox, workVars, cancelVars>>

Backends    == {"in_process", "isolated"}
Messages    == {"call", "result", "timeout", "worker_down", "caller_down"}
Answers     == {"rejected", "busy", "timeout", "ok", "error", "trap"}
CallerState == {"idle", "waiting", "returned", "runtime_down", "dead"}
\* "native": in a NIF, or (isolated) in the receive loop around the port;
\* "waiting": in the receive of continue_native; "finishing": a result is
\* computed, Callbacks.stop runs; "sent": {:result, ..} was sent;
\* "abandoned": the process was killed inside native code, which goes on: a
\* dirty NIF is not interrupted, and an OS process has yet to notice.
WorkerState == {"none", "native", "waiting", "finishing", "sent", "abandoned",
                "gone"}

\* A worker process whose execution, or whose callbacks, may still be running.
Working(c) == worker[c] \in {"native", "waiting", "finishing"}

Init ==
    /\ backend \in Backends
    /\ server = "up"
    /\ restarts = 0
    /\ connected = {}
    /\ jobs = {}
    /\ from = {}
    /\ timers = {}
    /\ caller = [c \in Calls |-> "idle"]
    /\ replies = [c \in Calls |-> <<>>]
    /\ expired = {}
    /\ inbox = [c \in Calls |-> {}]
    /\ worker = [c \in Calls |-> "none"]
    /\ result = [c \in Calls |-> "none"]
    /\ control = {}
    /\ cancels = {}

-----------------------------------------------------------------------------
(* Callers: GenServer.call with an infinite timeout.                       *)

\* With no process registered under the name the call exits at once.
Call(c) ==
    /\ caller[c] = "idle"
    /\ IF server = "up"
       THEN /\ caller' = [caller EXCEPT ![c] = "waiting"]
            /\ inbox' = [inbox EXCEPT ![c] = {"call"}]
            /\ connected' = connected \cup {c}
       ELSE /\ caller' = [caller EXCEPT ![c] = "runtime_down"]
            /\ UNCHANGED <<inbox, connected>>
    /\ UNCHANGED <<backend, server, restarts, jobs, from, timers, replies,
                   expired, workVars, cancelVars>>

\* The clock reaches started + timeout.
Expire(c) ==
    /\ caller[c] # "idle"
    /\ c \notin expired
    /\ expired' = expired \cup {c}
    /\ UNCHANGED <<serverVars, caller, replies, inbox, workVars, cancelVars>>

CallerReturns(c) ==
    /\ caller[c] = "waiting"
    /\ replies[c] # <<>>
    /\ caller' = [caller EXCEPT ![c] = "returned"]
    /\ UNCHANGED <<serverVars, replies, expired, inbox, workVars, cancelVars>>

\* GenServer.call monitors the server: its death makes the call exit, which
\* run/4 and compile/5 turn into :runtime_down.
CallerSeesDown(c) ==
    /\ caller[c] = "waiting"
    /\ replies[c] = <<>>
    /\ c \notin connected
    /\ caller' = [caller EXCEPT ![c] = "runtime_down"]
    /\ UNCHANGED <<serverVars, replies, expired, inbox, workVars, cancelVars>>

\* A caller may be killed while it waits, or after it got its answer while
\* its job still holds the slot; a job's monitor on it then fires.
CallerDies(c) ==
    /\ caller[c] \in {"waiting", "returned"}
    /\ caller' = [caller EXCEPT ![c] = "dead"]
    /\ inbox' = IF c \in jobs
                THEN [inbox EXCEPT ![c] = @ \cup {"caller_down"}]
                ELSE inbox
    /\ UNCHANGED <<serverVars, replies, expired, workVars, cancelVars>>

-----------------------------------------------------------------------------
(* Server: replies, cancellation and the release of a job.                 *)

Reply(c, answer) == replies' = [replies EXCEPT ![c] = Append(@, answer)]

\* `if job.from, do: GenServer.reply(..)'
ReplyIfOwed(c, answer) ==
    IF c \in from THEN Reply(c, answer) ELSE UNCHANGED replies

\* Fault: the worker's mailbox is forgotten.
CancelFlagOnly(c) ==
    /\ control' = IF backend = "in_process" THEN control \cup {c} ELSE control
    /\ UNCHANGED cancels

\* cancel/2: only an in-process job has a Native control to raise.
Cancel(c) ==
    /\ control' = IF backend = "in_process" THEN control \cup {c} ELSE control
    /\ cancels' = cancels \cup {c}

\* Fault: the timer of a finished job stays armed.
ReleaseJobKeepsTimer(c, msg) ==
    /\ jobs' = jobs \ {c}
    /\ from' = from \ {c}
    /\ UNCHANGED timers
    /\ inbox' = [inbox EXCEPT ![c] = @ \ {msg, "worker_down", "caller_down"}]

\* cleanup/1 and the removal of the job: the timer is cancelled (a message
\* it already sent stays), both monitors go with the DOWNs they delivered.
\* Every part of it is void when there is no such job.
ReleaseJob(c, msg) ==
    /\ jobs' = jobs \ {c}
    /\ from' = from \ {c}
    /\ timers' = timers \ {c}
    /\ inbox' = [inbox EXCEPT ![c] = @ \ {msg, "worker_down", "caller_down"}]

\* Fault: the job still owes the reply it has given.
SettleNothing(c) == c \in Calls /\ UNCHANGED from

\* put_in(state.jobs[pid].from, nil)
Settle(c) == from' = from \ {c}

Take(c, msg) == inbox' = [inbox EXCEPT ![c] = @ \ {msg}]

\* Fault: one job too many.
HasRoomOffByOne == Cardinality(jobs) <= MaxConcurrency

HasRoom == Cardinality(jobs) < MaxConcurrency

-----------------------------------------------------------------------------
(* Server: handle_call.                                                    *)

\* Refused before admission is considered: invalid options, a module over
\* its limit or compiled against another provider.  A compilation's options
\* were validated by its caller.
RejectCall(c) ==
    /\ "call" \in inbox[c]
    /\ c \notin Compiles
    /\ Reply(c, "rejected")
    /\ Take(c, "call")
    /\ UNCHANGED <<serverVars, caller, expired, workVars, cancelVars>>

BusyCall(c) ==
    /\ "call" \in inbox[c]
    /\ ~HasRoom
    /\ Reply(c, "busy")
    /\ Take(c, "call")
    /\ UNCHANGED <<serverVars, caller, expired, workVars, cancelVars>>

LateCall(c) ==
    /\ "call" \in inbox[c]
    /\ HasRoom
    /\ c \in expired
    /\ Reply(c, "timeout")
    /\ Take(c, "call")
    /\ UNCHANGED <<serverVars, caller, expired, workVars, cancelVars>>

\* Fault: the native deadline is trusted and no timer is set.
ArmNoTimer(c) == c \in Calls /\ UNCHANGED timers

\* Process.send_after(self(), {:timeout, pid}, remaining)
ArmTimer(c) == timers' = timers \cup {c}

\* start_job/5.  Monitoring a caller that is already dead delivers its DOWN
\* at once.
StartJob(c) ==
    /\ "call" \in inbox[c]
    /\ HasRoom
    /\ c \notin expired
    /\ jobs' = jobs \cup {c}
    /\ from' = from \cup {c}
    /\ ArmTimer(c)
    /\ worker' = [worker EXCEPT ![c] = "native"]
    /\ inbox' = [inbox EXCEPT ![c] =
                    IF caller[c] = "dead" THEN {"caller_down"} ELSE {}]
    /\ UNCHANGED <<backend, server, restarts, connected, caller, replies,
                   expired, result, cancelVars>>

HandleCall(c) == RejectCall(c) \/ BusyCall(c) \/ LateCall(c) \/ StartJob(c)

-----------------------------------------------------------------------------
(* Server: handle_info and the timer service.                              *)

TimerFires(c) ==
    /\ c \in timers
    /\ c \in expired
    /\ timers' = timers \ {c}
    /\ inbox' = [inbox EXCEPT ![c] = @ \cup {"timeout"}]
    /\ UNCHANGED <<backend, server, restarts, connected, jobs, from, caller,
                   replies, expired, workVars, cancelVars>>

\* Fault: a result computed in time is passed on too late.
OutcomeAnyTime(c) == result[c]

\* A result that arrives past the deadline is answered as a timeout.
Outcome(c) == IF c \in expired THEN "timeout" ELSE result[c]

HandleResult(c) ==
    /\ "result" \in inbox[c]
    /\ ReplyIfOwed(c, Outcome(c))
    /\ ReleaseJob(c, "result")
    /\ UNCHANGED <<backend, server, restarts, connected, caller, expired,
                   workVars, cancelVars>>

\* Fault: the timeout gives the slot back at once.
HandleTimeoutFreesSlot(c) ==
    /\ "timeout" \in inbox[c]
    /\ c \in jobs
    /\ Cancel(c)
    /\ ReplyIfOwed(c, "timeout")
    /\ ReleaseJob(c, "timeout")
    /\ UNCHANGED <<backend, server, restarts, connected, caller, expired,
                   workVars>>

\* The caller is answered; the job keeps its slot until the worker ends.
HandleTimeout(c) ==
    /\ "timeout" \in inbox[c]
    /\ c \in jobs
    /\ Cancel(c)
    /\ ReplyIfOwed(c, "timeout")
    /\ Settle(c)
    /\ Take(c, "timeout")
    /\ UNCHANGED <<backend, server, restarts, connected, jobs, timers, caller,
                   expired, workVars>>

\* The timer's message outlived its job.
StaleTimeout(c) ==
    /\ "timeout" \in inbox[c]
    /\ c \notin jobs
    /\ Take(c, "timeout")
    /\ UNCHANGED <<serverVars, caller, replies, expired, workVars,
                   cancelVars>>

\* Fault: the job of a crashed worker is dropped without an answer.
HandleWorkerDownSilently(c) ==
    /\ "worker_down" \in inbox[c]
    /\ "result" \notin inbox[c]
    /\ ReleaseJob(c, "worker_down")
    /\ UNCHANGED <<backend, server, restarts, connected, caller, replies,
                   expired, workVars, cancelVars>>

\* The worker ended without a result: it sends one before it exits, and the
\* DOWN comes behind it.
HandleWorkerDown(c) ==
    /\ "worker_down" \in inbox[c]
    /\ "result" \notin inbox[c]
    /\ ReplyIfOwed(c, "trap")
    /\ ReleaseJob(c, "worker_down")
    /\ UNCHANGED <<backend, server, restarts, connected, caller, expired,
                   workVars, cancelVars>>

\* Fault: work for a dead caller runs on.
HandleCallerDownOnly(c) ==
    /\ "caller_down" \in inbox[c]
    /\ Settle(c)
    /\ Take(c, "caller_down")
    /\ UNCHANGED <<backend, server, restarts, connected, jobs, timers, caller,
                   replies, expired, workVars, cancelVars>>

HandleCallerDown(c) ==
    /\ "caller_down" \in inbox[c]
    /\ Cancel(c)
    /\ Settle(c)
    /\ Take(c, "caller_down")
    /\ UNCHANGED <<backend, server, restarts, connected, jobs, timers, caller,
                   replies, expired, workVars>>

-----------------------------------------------------------------------------
(* Server: death and restart.  Nothing of its state survives; its timers   *)
(* and the messages in its mailbox are lost.                               *)

ServerGone ==
    /\ server' = "down"
    /\ connected' = {}
    /\ jobs' = {}
    /\ from' = {}
    /\ timers' = {}
    /\ inbox' = [c \in Calls |-> {}]

\* GenServer.stop, or a crash of a handler: terminate/2 cancels every job.
Stop ==
    /\ server = "up"
    /\ ServerGone
    /\ control' = IF backend = "in_process" THEN control \cup jobs ELSE control
    /\ cancels' = cancels \cup jobs
    /\ UNCHANGED <<backend, restarts, caller, replies, expired, workVars>>

\* An exit signal, a supervisor's :shutdown included: the server does not
\* trap exits, so terminate/2 does not run.
Kill ==
    /\ server = "up"
    /\ ServerGone
    /\ UNCHANGED <<backend, restarts, caller, replies, expired, workVars,
                   cancelVars>>

Restart ==
    /\ server = "down"
    /\ restarts < MaxRestarts
    /\ server' = "up"
    /\ restarts' = restarts + 1
    /\ UNCHANGED <<backend, connected, jobs, from, timers, caller, replies,
                   expired, inbox, workVars, cancelVars>>

-----------------------------------------------------------------------------
(* Workers.                                                                *)

\* In process, JavaScript awaits host callbacks: Native.run_start or
\* run_step returned :continue_, which Sandbox::finish lets through only
\* before the deadline and a cancellation.
Yields(c) ==
    /\ worker[c] = "native"
    /\ backend = "in_process"
    /\ c \notin Compiles
    /\ c \notin control \cup expired
    /\ worker' = [worker EXCEPT ![c] = "waiting"]
    /\ UNCHANGED <<serverVars, caller, replies, expired, inbox, result,
                   cancelVars>>

\* A callback's reply is taken back into the guest.
Resumes(c) ==
    /\ worker[c] = "waiting"
    /\ worker' = [worker EXCEPT ![c] = "native"]
    /\ UNCHANGED <<serverVars, caller, replies, expired, inbox, result,
                   cancelVars>>

Finish(c, r) ==
    /\ worker' = [worker EXCEPT ![c] = "finishing"]
    /\ result' = [result EXCEPT ![c] = r]
    /\ UNCHANGED <<serverVars, caller, replies, expired, inbox, cancelVars>>

\* Native code finishes by itself.  In process, Sandbox::finish turns a
\* result into an error once the control is cancelled or past its deadline.
NativeReturns(c) ==
    /\ worker[c] = "native"
    /\ \E r \in {"ok", "error"} :
          /\ backend = "in_process" /\ c \in control \cup expired => r = "error"
          /\ Finish(c, r)

\* :callback_error, or the broker's DOWN.
CallbackFails(c) ==
    /\ worker[c] = "waiting"
    /\ Finish(c, "error")

\* In process, native code looks at its control and at its deadline.
InterruptedNative(c) ==
    /\ backend = "in_process"
    /\ worker[c] = "native"
    /\ c \in control \cup expired

\* Fault: a guest that waits for completions knows :cancel alone.
InterruptedWaitByCancel(c) == worker[c] = "waiting" /\ c \in cancels

\* A guest that waits for completions receives :cancel or the server's DOWN.
InterruptedWait(c) ==
    /\ worker[c] = "waiting"
    /\ c \in cancels \/ c \notin connected

\* Around the port of an isolated worker both are passed on to its process.
InterruptedIsolated(c) ==
    /\ backend = "isolated"
    /\ worker[c] = "native"
    /\ c \in cancels \/ c \notin connected

\* That process has a deadline of its own.
IsolatedDeadline(c) ==
    /\ backend = "isolated"
    /\ worker[c] = "native"
    /\ c \in expired

\* What ends the work from outside.
Interrupted(c) ==
    \/ InterruptedNative(c)
    \/ InterruptedWait(c)
    \/ InterruptedIsolated(c)
    \/ IsolatedDeadline(c)

Interrupt(c) == Interrupted(c) /\ Finish(c, "error")

\* The callbacks are stopped; a server that is gone does not get the result.
SendResult(c) ==
    /\ worker[c] = "finishing"
    /\ worker' = [worker EXCEPT ![c] = "sent"]
    /\ inbox' = IF c \in connected
                THEN [inbox EXCEPT ![c] = @ \cup {"result"}]
                ELSE inbox
    /\ UNCHANGED <<serverVars, caller, replies, expired, result, cancelVars>>

\* The end of the worker process, with its work at control point `left'; the
\* job's monitor, if it still has one, fires.
Exit(c, left) ==
    /\ worker' = [worker EXCEPT ![c] = left]
    /\ inbox' = IF c \in jobs
                THEN [inbox EXCEPT ![c] = @ \cup {"worker_down"}]
                ELSE inbox
    /\ UNCHANGED <<serverVars, caller, replies, expired, result, cancelVars>>

WorkerExits(c) == worker[c] = "sent" /\ Exit(c, "gone")

\* An exception no rescue covers, of a NIF that has returned, say; or a kill
\* outside native code.
WorkerCrashes(c) == Working(c) /\ Exit(c, "gone")

\* An exit signal while the process is in native code, or the failure of the
\* port it is linked to.  Its DOWN frees the slot like any other.
WorkerKilled(c) == worker[c] = "native" /\ Exit(c, "abandoned")

\* Native code without a process ends, by itself or interrupted.
AbandonedEnds(c) ==
    /\ worker[c] = "abandoned"
    /\ worker' = [worker EXCEPT ![c] = "gone"]
    /\ UNCHANGED <<serverVars, caller, replies, expired, inbox, result,
                   cancelVars>>

\* A dirty NIF is stopped by its control or its deadline; the process behind
\* a closed port reads the end of its pipe.
AbandonedStops(c) ==
    /\ backend = "in_process" => c \in control \cup expired
    /\ AbandonedEnds(c)

-----------------------------------------------------------------------------
CallerStep(c) == Call(c) \/ CallerReturns(c) \/ CallerSeesDown(c) \/ CallerDies(c)

ServerStep(c) ==
    \/ HandleCall(c)
    \/ HandleResult(c)
    \/ HandleTimeout(c)
    \/ StaleTimeout(c)
    \/ HandleWorkerDown(c)
    \/ HandleCallerDown(c)

WorkerStep(c) ==
    \/ Yields(c)
    \/ Resumes(c)
    \/ NativeReturns(c)
    \/ CallbackFails(c)
    \/ Interrupt(c)
    \/ SendResult(c)
    \/ WorkerExits(c)
    \/ WorkerCrashes(c)
    \/ WorkerKilled(c)
    \/ AbandonedEnds(c)

Next ==
    \/ \E c \in Calls : \/ CallerStep(c)
                        \/ Expire(c)
                        \/ TimerFires(c)
                        \/ ServerStep(c)
                        \/ WorkerStep(c)
    \/ Stop
    \/ Kill
    \/ Restart

Spec == Init /\ [][Next]_vars

\* What a worker does without the help of JavaScript, of a callback or of the
\* compiler, none of which need end by themselves.
WorkerProgress(c) ==
    \/ Interrupt(c)
    \/ SendResult(c)
    \/ WorkerExits(c)
    \/ AbandonedStops(c)

\* Time passes, timers fire, the server works off its mailbox, interrupted
\* work stops, a finished worker delivers and exits, and callers read their
\* mailboxes.  Nobody need die, and nothing need restart the server.
Fairness ==
    \A c \in Calls :
        /\ WF_vars(Expire(c))
        /\ WF_vars(TimerFires(c))
        /\ WF_vars(ServerStep(c))
        /\ WF_vars(WorkerProgress(c))
        /\ WF_vars(CallerReturns(c) \/ CallerSeesDown(c))

FairSpec == Spec /\ Fairness

-----------------------------------------------------------------------------
(* Properties.                                                             *)

\* Every variable has its type; a job's `from' and its timer live no longer
\* than the job, though a message of the timer may.
TypeOK ==
    /\ backend \in Backends
    /\ server \in {"up", "down"}
    /\ restarts \in 0..MaxRestarts
    /\ connected \subseteq Calls
    /\ jobs \subseteq connected
    /\ from \subseteq jobs
    /\ timers \subseteq jobs
    /\ caller \in [Calls -> CallerState]
    /\ replies \in [Calls -> Seq(Answers)]
    /\ expired \subseteq Calls
    /\ inbox \in [Calls -> SUBSET Messages]
    /\ worker \in [Calls -> WorkerState]
    /\ result \in [Calls -> {"none", "ok", "error"}]
    /\ control \subseteq Calls
    /\ cancels \subseteq Calls

\* "Saturation returns :busy": whatever was answered, timed out, cancelled
\* or crashed in the meantime, one server never has more than
\* max_concurrency worker processes at work.
CapacityRespected ==
    Cardinality({c \in connected : Working(c)}) <= MaxConcurrency

\* "Calls cancelled or timed out retain their slot until native work
\* actually stops": no step of a living server frees the slot of a worker
\* process that is still at work.  The slot of a process that was killed is
\* freed by its DOWN and nothing else, though its native code may go on.
SlotRetained ==
    [][\A c \in jobs \ jobs' :
          server' = "up" =>
              /\ ~Working(c)
              /\ worker[c] = "abandoned" => "worker_down" \in inbox[c]]_vars

\* The race of the result, the timer, the worker's DOWN and the caller's
\* DOWN never lets two of them answer the same caller.
OneReply == \A c \in Calls : Len(replies[c]) <= 1

\* A caller that waits on a living server has its question in the mailbox,
\* or a job that still owes it the reply.
NoCallForgotten ==
    \A c \in connected :
        caller[c] = "waiting" /\ replies[c] = <<>> =>
            "call" \in inbox[c] \/ c \in from

\* A job owes nobody a reply only because its caller died or was told of the
\* timeout, and its worker was told to stop in the same step.
AbandonedIsCancelled ==
    \A c \in jobs \ from :
        /\ c \in cancels
        /\ backend = "in_process" => c \in control
        /\ caller[c] = "dead" \/ replies[c] = <<"timeout">>

\* No job can wait for callbacks without end: its deadline is still to come,
\* is in the mailbox, or has cancelled the worker.
JobIsBounded ==
    \A c \in jobs :
        c \in timers \/ "timeout" \in inbox[c] \/ c \in cancels

\* A slot is held by a worker that runs, or its release is in the mailbox.
NoLeakedSlot ==
    \A c \in jobs :
        Working(c) \/ inbox[c] \cap {"result", "worker_down"} # {}

\* What the server holds is owed to somebody and will be let go: no caller, no
\* cancellation, no deadline and no slot is dropped by any order of the
\* result, the timer, the DOWNs, a kill and a restart.
NothingIsForgotten ==
    /\ NoCallForgotten
    /\ AbandonedIsCancelled
    /\ JobIsBounded
    /\ NoLeakedSlot

\* "The overall deadline remains :timeout": no success is reported past the
\* deadline, even one that was computed in time, and no timeout before it.
DeadlineDecides ==
    [][\A c \in Calls :
          /\ replies'[c] = Append(replies[c], "ok") => c \notin expired
          /\ replies'[c] = Append(replies[c], "timeout") => c \in expired]_vars

\* Every caller gets out of its GenServer.call.
EveryCallEnds == \A c \in Calls : caller[c] = "waiting" ~> caller[c] # "waiting"

\* Native code, the wait for callbacks and what a killed process left behind.
Busy(c) == Working(c) \/ worker[c] = "abandoned"

\* All work that was admitted stops: on a server that lives, that was stopped
\* and cancelled it, that was killed and did not, or that is back with no
\* memory of it; also what a killed worker left behind in native code.
WorkStops == \A c \in Calls : Busy(c) ~> ~Busy(c)

\* Every slot is given back.
SlotsReturn == \A c \in Calls : c \in jobs ~> c \notin jobs
=============================================================================
