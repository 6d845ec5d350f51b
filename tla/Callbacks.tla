------------------------------ MODULE Callbacks ------------------------------
(***************************************************************************)
(* Host callbacks of one execution: the broker process of                  *)
(* lib/javex/callbacks.ex, the linked and monitored child process it       *)
(* starts for each granted request, and the worker process that drives the *)
(* guest (continue_native and execute in lib/javex/runtime.ex).            *)
(*                                                                         *)
(* The guest is free here: whenever it yields it may ask for any of a set  *)
(* of batches, repeated and unacceptable requests included.  Execution.tla *)
(* replaces it by the guest that bridge.js makes.                          *)
(*                                                                         *)
(* Of the signals in flight only the order of one sender's is kept: the    *)
(* worker's dispatches before its stop or its DOWN, a child's result       *)
(* before its DOWN, and the broker's replies, error and DOWN as they were  *)
(* sent.  `late' holds the callbacks whose deadline -- the run's or their  *)
(* own, whichever is first -- has passed.                                  *)
(***************************************************************************)
EXTENDS Naturals, Sequences, FiniteSets

CONSTANTS
    Ids,            \* ids of requests, 1..1024 in the code
    MaxCalls,       \* max_callback_calls
    MaxConcurrent,  \* max_callback_concurrency
    Batches         \* the batches of requests the guest may make

\* A request is for a granted callback, for one that is not granted, or is
\* refused for its id, its name or its argument.
Requests == [id : Ids, kind : {"granted", "denied", "invalid"}]

ASSUME CallbacksAssumption ==
    /\ MaxCalls \in Nat \ {0}
    /\ MaxConcurrent \in Nat \ {0}
    /\ Batches \subseteq Seq(Requests)

VARIABLES
    driver,      \* the worker: where it is in execute/6
    pending,     \* requests the guest has made and has no completion for
    mail,        \* messages of the broker to the worker
    cancelled,   \* is a :cancel or the server's DOWN in the worker's mailbox?
    broker,      \* the broker process
    dispatches,  \* batches sent to the broker and not yet received
    batch,       \* what is left of the batch in dispatch_batch
    signals,     \* what else the worker sent the broker: "stop", "parent_down"
    seen,        \* state.seen
    jobs,        \* domain of state.jobs
    got,         \* the result field of each job
    timers,      \* jobs whose timer is armed
    inbox,       \* messages to the broker about each child
    child,       \* each callback process
    doomed,      \* children with an exit signal under way
    late         \* callbacks whose deadline has passed

workerVars == <<driver, pending, cancelled>>
brokerVars == <<broker, batch, seen, jobs, got, timers>>
vars == <<workerVars, mail, dispatches, signals, brokerVars, inbox, child,
          doomed, late>>

Results  == {"value", "fatal"}
Sent     == Results \cup {"too_late"}      \* by a child, before it ends
Timeouts == {"timeout", "too_late"}        \* :callback_timeout, timer's or child's
Letters  == [kind : {"reply"}, id : Ids] \cup [kind : {"error", "down"}]

Alive(i) == child[i] \in {"spawned", "running", "reported"}

Init ==
    /\ driver = "native"
    /\ pending = {}
    /\ mail = <<>>
    /\ cancelled = "no"
    /\ broker = "up"
    /\ dispatches = <<>>
    /\ batch = <<>>
    /\ signals = {}
    /\ seen = {}
    /\ jobs = {}
    /\ got = [i \in Ids |-> "none"]
    /\ timers = {}
    /\ inbox = [i \in Ids |-> {}]
    /\ child = [i \in Ids |-> "none"]
    /\ doomed = {}
    /\ late = {}

-----------------------------------------------------------------------------
(* Time.                                                                   *)

\* The deadline of one started callback passes.
CallbackExpires(i) ==
    /\ Alive(i) \/ i \in timers
    /\ i \notin late
    /\ late' = late \cup {i}
    /\ UNCHANGED <<workerVars, mail, dispatches, signals, brokerVars, inbox,
                   child, doomed>>

\* The run's deadline bounds every callback's, those not yet asked for too.
RunExpires ==
    /\ late # Ids
    /\ late' = Ids
    /\ UNCHANGED <<workerVars, mail, dispatches, signals, brokerVars, inbox,
                   child, doomed>>

TimerFires(i) ==
    /\ i \in timers \cap late
    /\ timers' = timers \ {i}
    /\ inbox' = [inbox EXCEPT ![i] = @ \cup {"timeout"}]
    /\ UNCHANGED <<workerVars, mail, dispatches, signals, broker, batch, seen,
                   jobs, got, child, doomed, late>>

-----------------------------------------------------------------------------
(* The worker.                                                             *)

\* Native code returned :continue_: the requests go to the broker, whether
\* it still reads them or not, and the worker waits.
Yield(b) ==
    /\ driver = "native"
    /\ driver' = "waiting"
    /\ pending' = pending \cup {b[n].id : n \in DOMAIN b}
    /\ dispatches' = IF broker = "up"
                     THEN Append(dispatches, b)
                     ELSE dispatches
    /\ UNCHANGED <<cancelled, mail, signals, brokerVars, inbox, child,
                   doomed, late>>

\* The `after' of execute/6: Callbacks.stop.  Nothing the broker has sent
\* is read any more.
Leave ==
    /\ driver' = "stopping"
    /\ signals' = signals \cup {"stop"}
    /\ mail' = <<>>

\* Native code returned a result, or encoding the input failed.
Settle ==
    /\ driver = "native"
    /\ Leave
    /\ UNCHANGED <<pending, cancelled, dispatches, brokerVars, inbox,
                   child, doomed, late>>

\* :callback_reply: its completion goes into the guest.
TakeReply ==
    /\ driver = "waiting"
    /\ mail # <<>>
    /\ Head(mail).kind = "reply"
    /\ driver' = "native"
    /\ pending' = pending \ {Head(mail).id}
    /\ mail' = Tail(mail)
    /\ UNCHANGED <<cancelled, dispatches, signals, brokerVars, inbox, child,
                   doomed, late>>

\* :callback_error, or the DOWN of the broker.
TakeFailure ==
    /\ driver = "waiting"
    /\ mail # <<>>
    /\ Head(mail).kind \in {"error", "down"}
    /\ Leave
    /\ UNCHANGED <<pending, cancelled, dispatches, brokerVars, inbox, child,
                   doomed, late>>

\* The server sends :cancel, or its own DOWN reaches the worker.
Cancel ==
    /\ driver \in {"native", "waiting"}
    /\ cancelled = "no"
    /\ cancelled' = "yes"
    /\ UNCHANGED <<driver, pending, mail, dispatches, signals, brokerVars, inbox,
                   child, doomed, late>>

TakeCancel ==
    /\ driver = "waiting"
    /\ cancelled = "yes"
    /\ Leave
    /\ UNCHANGED <<pending, cancelled, dispatches, brokerVars, inbox,
                   child, doomed, late>>

\* The DOWN that Callbacks.stop awaits; the result may now be sent.
Finish ==
    /\ driver = "stopping"
    /\ broker \in {"gone", "killed"}
    /\ driver' = "finished"
    /\ UNCHANGED <<pending, cancelled, mail, dispatches, signals, brokerVars,
                   inbox, child, doomed, late>>

\* The worker is killed: no `after' runs, the broker's monitor fires.
Die ==
    /\ driver \in {"native", "waiting", "stopping"}
    /\ driver' = "dead"
    /\ signals' = signals \cup {"parent_down"}
    /\ mail' = <<>>
    /\ UNCHANGED <<pending, cancelled, dispatches, brokerVars, inbox,
                   child, doomed, late>>

-----------------------------------------------------------------------------
(* The broker.                                                             *)

\* send(state.parent, ..): read only by a worker still in continue_native.
Tell(letter) ==
    mail' = IF driver \in {"native", "waiting"} THEN Append(mail, letter) ELSE mail

Reply(i) == Tell([kind |-> "reply", id |-> i])

\* Wrong: the children are awaited and not killed.
EndLoopAwaitsOnly(state, remaining) ==
    /\ broker' = state
    /\ batch' = <<>>
    /\ timers' = {}
    /\ jobs' = remaining
    /\ got' = [i \in Ids |-> "none"]
    /\ inbox' = [i \in Ids |-> {}]
    /\ dispatches' = <<>>
    /\ UNCHANGED <<workerVars, signals, seen, child, late, doomed>>

\* cleanup/1: timers are cancelled and every child is killed; the broker
\* goes on to await their DOWNs, and nothing else of its mailbox.
EndLoop(state, remaining) ==
    /\ broker' = state
    /\ batch' = <<>>
    /\ timers' = {}
    /\ jobs' = remaining
    /\ got' = [i \in Ids |-> "none"]
    /\ doomed' = doomed \cup remaining
    /\ inbox' = [i \in Ids |-> {}]
    /\ dispatches' = <<>>
    /\ UNCHANGED <<workerVars, signals, seen, child, late>>

\* Wrong: the loop ends and leaves the children to themselves.
CleanupNothing(remaining) == EndLoop("cleaning", {})

Cleanup(remaining) == EndLoop("cleaning", remaining)

\* fail/3
Fail(remaining) ==
    /\ Tell([kind |-> "error"])
    /\ Cleanup(remaining)

Listening == broker = "up" /\ batch = <<>>

\* A frame with more requests than max_callback_concurrency is refused.
ReceiveDispatch ==
    /\ Listening
    /\ dispatches # <<>>
    /\ Len(Head(dispatches)) <= MaxConcurrent
    /\ batch' = Head(dispatches)
    /\ dispatches' = Tail(dispatches)
    /\ UNCHANGED <<workerVars, mail, signals, broker, seen, jobs, got, timers,
                   inbox, child, doomed, late>>

RefuseDispatch ==
    /\ Listening
    /\ dispatches # <<>>
    /\ Len(Head(dispatches)) > MaxConcurrent
    /\ Fail(jobs)

\* Wrong: only an id whose callback is under way counts as used.
AdmittedAgain(i) ==
    /\ i \notin jobs
    /\ Cardinality(seen) < MaxCalls
    /\ Cardinality(jobs) < MaxConcurrent

\* admitted?/2
Admitted(i) ==
    /\ i \notin seen
    /\ Cardinality(seen) < MaxCalls
    /\ Cardinality(jobs) < MaxConcurrent

NextRequest(kind) ==
    /\ broker = "up"
    /\ batch # <<>>
    /\ Head(batch).kind = kind
    /\ Admitted(Head(batch).id)

\* Wrong: the child is left to look at its deadline itself.
StartCallbackUntimed ==
    /\ NextRequest("granted")
    /\ LET i == Head(batch).id IN
          /\ seen' = seen \cup {i}
          /\ jobs' = jobs \cup {i}
          /\ child' = [child EXCEPT ![i] = "spawned"]
    /\ batch' = Tail(batch)
    /\ UNCHANGED <<workerVars, mail, dispatches, signals, broker, got, timers,
                   inbox, doomed, late>>

\* start_callback/4
StartCallback ==
    /\ NextRequest("granted")
    /\ LET i == Head(batch).id IN
          /\ seen' = seen \cup {i}
          /\ jobs' = jobs \cup {i}
          /\ timers' = timers \cup {i}
          /\ child' = [child EXCEPT ![i] = "spawned"]
    /\ batch' = Tail(batch)
    /\ UNCHANGED <<workerVars, mail, dispatches, signals, broker, got, inbox,
                   doomed, late>>

\* reject_request/2: the denial is a completion of its own ...
DenyRequest ==
    /\ NextRequest("denied")
    /\ Reply(Head(batch).id)
    /\ seen' = seen \cup {Head(batch).id}
    /\ batch' = Tail(batch)
    /\ UNCHANGED <<workerVars, dispatches, signals, broker, jobs, got, timers,
                   inbox, child, doomed, late>>

\* ... unless it is longer than max_callback_output.
DenialTooLong ==
    /\ NextRequest("denied")
    /\ Fail(jobs)

\* A request that is not acceptable ends the run, and with it the callbacks
\* that the requests before it in the batch have started.
RefuseRequest ==
    /\ broker = "up"
    /\ batch # <<>>
    /\ Head(batch).kind = "invalid" \/ ~Admitted(Head(batch).id)
    /\ Fail(jobs)

\* Wrong: the reply does not wait for the DOWN that frees the job.
ReceiveResultReplies(i) ==
    /\ Listening
    /\ i \in jobs
    /\ "value" \in inbox[i]
    /\ Reply(i)
    /\ got' = [got EXCEPT ![i] = "value"]
    /\ inbox' = [inbox EXCEPT ![i] = @ \ {"value"}]
    /\ UNCHANGED <<workerVars, dispatches, signals, broker, batch, seen, jobs,
                   timers, child, doomed, late>>

ReceiveResult(i) ==
    /\ Listening
    /\ i \in jobs
    /\ \E r \in Results \cap inbox[i] :
          /\ got' = [got EXCEPT ![i] = r]
          /\ inbox' = [inbox EXCEPT ![i] = @ \ {r}]
    /\ UNCHANGED <<workerVars, mail, dispatches, signals, broker, batch, seen,
                   jobs, timers, child, doomed, late>>

ChildEnded(i) ==
    /\ Listening
    /\ "down" \in inbox[i]
    /\ Sent \cap inbox[i] = {}
    /\ i \in jobs

\* Wrong: a child that ended without a result has nothing to answer.
ReceiveDownSilently(i) ==
    /\ ChildEnded(i)
    /\ got[i] # "fatal"
    /\ IF got[i] = "none" THEN UNCHANGED mail ELSE Reply(i)
    /\ jobs' = jobs \ {i}
    /\ timers' = timers \ {i}
    /\ got' = [got EXCEPT ![i] = "none"]
    /\ inbox' = [inbox EXCEPT ![i] = @ \ {"down"}]
    /\ UNCHANGED <<workerVars, dispatches, signals, broker, batch, seen,
                   child, doomed, late>>

\* Wrong: the timer of a child that has ended runs on.
ReceiveDownKeepsTimer(i) ==
    /\ ChildEnded(i)
    /\ got[i] # "fatal"
    /\ Reply(i)
    /\ jobs' = jobs \ {i}
    /\ got' = [got EXCEPT ![i] = "none"]
    /\ inbox' = [inbox EXCEPT ![i] = @ \ {"down"}]
    /\ UNCHANGED <<workerVars, dispatches, signals, broker, batch, seen,
                   timers, child, doomed, late>>

\* The child ended: its result, or the error that it failed, is the reply.
ReceiveDown(i) ==
    /\ ChildEnded(i)
    /\ got[i] # "fatal"
    /\ Reply(i)
    /\ jobs' = jobs \ {i}
    /\ timers' = timers \ {i}
    /\ got' = [got EXCEPT ![i] = "none"]
    /\ inbox' = [inbox EXCEPT ![i] = @ \ {"down"}]
    /\ UNCHANGED <<workerVars, dispatches, signals, broker, batch, seen,
                   child, doomed, late>>

\* The result, or the error that stands in for it, is longer than
\* max_callback_output.
ReceiveFatal(i) ==
    /\ ChildEnded(i)
    /\ got[i] \in {"fatal", "none"}
    /\ Fail(jobs \ {i})

\* Wrong: a timeout is only noted.
ReceiveTimeoutIdly(i) ==
    /\ Listening
    /\ i \in jobs
    /\ \E t \in Timeouts \cap inbox[i] : inbox' = [inbox EXCEPT ![i] = @ \ {t}]
    /\ UNCHANGED <<workerVars, mail, dispatches, signals, brokerVars, child,
                   doomed, late>>

\* The run ends when a job's deadline does, whatever its child has sent since.
ReceiveTimeout(i) ==
    /\ Listening
    /\ Timeouts \cap inbox[i] # {}
    /\ i \in jobs
    /\ Fail(jobs)

\* The timer's message came just before it was cancelled.
DropTimeout(i) ==
    /\ Listening
    /\ "timeout" \in inbox[i]
    /\ i \notin jobs
    /\ inbox' = [inbox EXCEPT ![i] = @ \ {"timeout"}]
    /\ UNCHANGED <<workerVars, mail, dispatches, signals, brokerVars, child,
                   doomed, late>>

\* {:stop, token}, or the worker's DOWN; the worker's dispatches came first.
ReceiveStop ==
    /\ Listening
    /\ signals # {}
    /\ dispatches = <<>>
    /\ Cleanup(jobs)
    /\ UNCHANGED mail

\* Wrong: the broker ends once the exit signals are sent.
EndCleanupAtOnce ==
    /\ broker = "cleaning"
    /\ broker' = "gone"
    /\ jobs' = {}
    /\ Tell([kind |-> "down"])
    /\ UNCHANGED <<workerVars, dispatches, signals, batch, seen, got, timers,
                   inbox, child, doomed, late>>

\* Every DOWN that cleanup awaits has come: the broker ends.
EndCleanup ==
    /\ broker = "cleaning"
    /\ \A i \in jobs : ~Alive(i)
    /\ broker' = "gone"
    /\ jobs' = {}
    /\ Tell([kind |-> "down"])
    /\ UNCHANGED <<workerVars, dispatches, signals, batch, seen, got, timers,
                   inbox, child, doomed, late>>

\* Something kills the broker; its links take the children with it.
BrokerKilled ==
    /\ broker \in {"up", "cleaning"}
    /\ EndLoop("killed", jobs)
    /\ Tell([kind |-> "down"])

-----------------------------------------------------------------------------
(* The callback processes.                                                 *)

ChildMoves(i, from, to, messages) ==
    /\ child[i] = from
    /\ child' = [child EXCEPT ![i] = to]
    /\ inbox' = IF broker = "up"
                THEN [inbox EXCEPT ![i] = @ \cup messages]
                ELSE inbox
    /\ UNCHANGED <<workerVars, mail, dispatches, signals, brokerVars, doomed, late>>

\* User code starts only before the deadline.
ChildStarts(i) ==
    /\ i \notin late
    /\ ChildMoves(i, "spawned", "running", {})

ChildTooLate(i) ==
    /\ i \in late
    /\ ChildMoves(i, "spawned", "reported", {"too_late"})

ChildReports(i) ==
    \E r \in Results : ChildMoves(i, "running", "reported", {r})

ChildExits(i) == ChildMoves(i, "reported", "dead", {"down"})

\* The callback ends its own process without a result.
ChildCrashes(i) == ChildMoves(i, "running", "dead", {"down"})

ChildKilled(i) ==
    /\ i \in doomed
    /\ \E from \in {"spawned", "running", "reported"} :
          ChildMoves(i, from, "dead", {"down"})

-----------------------------------------------------------------------------
WorkerStep ==
    \/ Settle
    \/ TakeReply
    \/ TakeFailure
    \/ Cancel
    \/ TakeCancel
    \/ Finish
    \/ Die

BrokerStep ==
    \/ ReceiveDispatch
    \/ RefuseDispatch
    \/ StartCallback
    \/ DenyRequest
    \/ DenialTooLong
    \/ RefuseRequest
    \/ ReceiveStop
    \/ EndCleanup
    \/ \E i \in Ids :
          \/ ReceiveResult(i)
          \/ ReceiveDown(i)
          \/ ReceiveFatal(i)
          \/ ReceiveTimeout(i)
          \/ DropTimeout(i)

ChildStep(i) ==
    \/ ChildStarts(i)
    \/ ChildTooLate(i)
    \/ ChildReports(i)
    \/ ChildExits(i)
    \/ ChildCrashes(i)
    \/ ChildKilled(i)

Next ==
    \/ \E b \in Batches : Yield(b)
    \/ WorkerStep
    \/ BrokerStep
    \/ BrokerKilled
    \/ RunExpires
    \/ \E i \in Ids : ChildStep(i) \/ TimerFires(i) \/ CallbackExpires(i)

Spec == Init /\ [][Next]_vars

\* Time passes, timers fire, processes take the messages they are sent, a
\* spawned process starts, one with nothing left to do ends, and an exit
\* signal arrives.  User code -- the guest and the callbacks -- need not end.
Fairness ==
    /\ WF_vars(TakeReply \/ TakeFailure)
    /\ WF_vars(TakeCancel)
    /\ WF_vars(Finish)
    /\ WF_vars(BrokerStep)
    /\ \A i \in Ids :
          /\ WF_vars(CallbackExpires(i))
          /\ WF_vars(TimerFires(i))
          /\ WF_vars(ChildStarts(i) \/ ChildTooLate(i))
          /\ WF_vars(ChildExits(i))
          /\ WF_vars(ChildKilled(i))

FairSpec == Spec /\ Fairness

-----------------------------------------------------------------------------
(* Properties.                                                             *)

\* Every variable has its type.
TypeOK ==
    /\ driver \in {"native", "waiting", "stopping", "finished", "dead"}
    /\ pending \subseteq Ids
    /\ mail \in Seq(Letters)
    /\ cancelled \in {"no", "yes"}
    /\ broker \in {"up", "cleaning", "gone", "killed"}
    /\ dispatches \in Seq(Seq(Requests))
    /\ batch \in Seq(Requests)
    /\ signals \subseteq {"stop", "parent_down"}
    /\ seen \subseteq Ids
    /\ jobs \subseteq seen
    /\ got \in [Ids -> Results \cup {"none"}]
    /\ timers \subseteq jobs
    /\ inbox \in [Ids -> SUBSET (Sent \cup {"down", "timeout"})]
    /\ child \in [Ids -> {"none", "spawned", "running", "reported", "dead"}]
    /\ doomed \subseteq Ids
    /\ late \subseteq Ids

\* "Execution ends when its root settles, and cancels remaining callbacks
\* before returning": when the worker may send its result, no callback
\* process of the run is left, however the run ended.  Only a broker that is
\* killed from outside leaves that to its links.
NoCallbackOutlivesRun ==
    driver = "finished" /\ broker # "killed" => \A i \in Ids : ~Alive(i)

\* No more callbacks are alive than may run at once, and no more ids have had
\* one than calls may be made ...
CountsWithinBudget ==
    /\ Cardinality({i \in Ids : Alive(i)}) <= MaxConcurrent
    /\ Cardinality({i \in Ids : child[i] # "none"}) <= MaxCalls

\* ... and no step starts a callback for an id that has had one.
StartsNoneTwice ==
    \A i \in Ids : child'[i] = "spawned" => child[i] \in {"none", "spawned"}

\* The budgets hold whatever the guest asks for, repeated ids and more of
\* them than it may use included: never more than max_callback_concurrency
\* callbacks at a time, nor more than max_callback_calls in all.
WithinBudget == []CountsWithinBudget /\ [][StartsNoneTwice]_vars

\* A completion is for a request the guest waits on, and is the only one
\* for it: bridge.js throws on any other.
CompletionsExpected ==
    driver \in {"native", "waiting"} =>
        \A m \in DOMAIN mail : mail[m].kind = "reply" =>
            /\ mail[m].id \in pending
            /\ mail[m].id \notin jobs
            /\ \A n \in DOMAIN mail : mail[n] = mail[m] => n = m

\* What the guest waits for is on its way, as long as the worker would take
\* it: in a batch, in a job, in the worker's mailbox -- or the mailbox holds
\* the end of the run.
Holds(requests, i) == \E n \in DOMAIN requests : requests[n].id = i

NoRequestLost ==
    driver = "waiting" =>
        \/ \E m \in DOMAIN mail : mail[m].kind \in {"error", "down"}
        \/ /\ broker = "up"
           /\ \A i \in pending :
                 \/ i \in jobs
                 \/ Holds(batch, i)
                 \/ \E n \in DOMAIN dispatches : Holds(dispatches[n], i)
                 \/ \E m \in DOMAIN mail : mail[m] = [kind |-> "reply", id |-> i]

\* A request the guest waits for is at one place on its way, and its one
\* completion comes back to a promise that is still there.
RequestsAccounted == CompletionsExpected /\ NoRequestLost

\* A callback has a deadline until it is answered or killed.
CallbackIsBounded ==
    \A i \in Ids : Alive(i) =>
        i \in timers \/ inbox[i] # {} \/ i \in doomed

\* Every callback process ends: by itself, at its deadline, or with its run.
CallbacksEnd == \A i \in Ids : Alive(i) ~> ~Alive(i)

\* Callbacks.stop returns: the worker of a run that has settled, failed or
\* been cancelled gets to send its result.
StopReturns == driver = "stopping" ~> driver \in {"finished", "dead"}

\* A worker whose guest waits for requests is woken: by a completion, by the
\* end of the run, or because a callback's deadline passes.
WaitEnds == driver = "waiting" /\ pending # {} ~> driver # "waiting"
=============================================================================
