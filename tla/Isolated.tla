------------------------------ MODULE Isolated -------------------------------
(***************************************************************************)
(* One run of the isolated backend: the receive loop around the port in    *)
(* lib/javex/isolated.ex, the supervising process behind the port and the  *)
(* disposable child that executes the guest, both in                       *)
(* native/javex_nif/src/worker.rs.                                         *)
(*                                                                         *)
(* The worker's mailbox is one queue, in order of arrival: its receive     *)
(* takes whatever comes first.  The supervisor is four threads: the main   *)
(* loop that polls the child, the reader of its stdin, the writer to the   *)
(* child and the reader of the child's output; their flags and channel are *)
(* shared.  The child's stdin closes an instant before the child can be    *)
(* waited for.  The broker of callbacks.ex is free here: each request it   *)
(* is given is answered once, unless it fails.                             *)
(*                                                                         *)
(* Frames are within their size limits: what a child that forges frames or *)
(* a run whose traffic exceeds 64 MiB meets is not modelled.               *)
(***************************************************************************)
EXTENDS Naturals, Sequences

CONSTANTS
    MaxCalls,       \* max_callback_calls
    MaxConcurrent   \* max_callback_concurrency

ASSUME IsolatedAssumption ==
    /\ MaxCalls \in Nat
    /\ MaxConcurrent \in Nat \ {0}

VARIABLES
    \* lib/javex/isolated.ex
    mailbox,      \* of the worker process
    port,         \* "open" or "closed"
    result,       \* state.result: the child's final event
    failure,      \* state.failure
    cancelSent,   \* state.cancelled
    outcome,      \* what call/7 returns
    \* its surroundings
    broker,       \* the callbacks' broker
    owed,         \* requests the broker has been given and not answered
    cancelAsked,  \* was the worker sent :cancel, or its owner's DOWN?
    \* supervise
    stdin,        \* frames from the port not yet read
    received,     \* frames the stdin reader has read
    stdinReader,
    channel,      \* replies queued between the stdin reader and the writer
    writer,
    cancelled,    \* the AtomicBool of that name
    forwarded,    \* frames the output reader has read
    outputReader,
    overflow,     \* the AtomicBool of that name
    main,         \* the polling loop
    status,       \* the supervisor's exit status, or that it was killed
    expired,      \* has the deadline passed?
    \* child
    child,
    deathSignal,  \* was there a supervisor's death that the child asked to hear of?
    ending,       \* how the child's root settled, or that the child broke
    asked,        \* requests the guest has made
    answered,     \* completions the guest has been given
    replies,      \* completions in the child's stdin
    events        \* events in the child's stdout

workerVars == <<result, failure, cancelSent, outcome>>
outerVars  == <<broker, owed, cancelAsked>>
superVars  == <<received, stdinReader, channel, writer, cancelled, forwarded,
                outputReader, overflow, main, status>>
childVars  == <<child, deathSignal, ending, asked, answered>>
pipeVars   == <<stdin, replies, events>>
vars == <<mailbox, port, workerVars, outerVars, superVars, childVars, pipeVars,
          expired>>

Letters ==
    [kind : {"reply", "callback_error", "broker_down", "cancel", "ok", "error"}]
        \cup [kind : {"callbacks"}, requests : 0..MaxCalls]
        \cup [kind : {"exit"}, status : {"0", "124", "125", "126", "broken", "killed"}]
Failures == {"callback", "trap"}

\* The child holds its stdin open, and its stdout.
ChildOpen == child \in {"spawned", "armed", "starting", "running", "waiting", "settled"}

Init ==
    /\ mailbox = <<>>
    /\ port = "open"
    /\ result = "none"
    /\ failure = "none"
    /\ cancelSent = "no"
    /\ outcome = "none"
    /\ broker = "up"
    /\ owed = 0
    /\ cancelAsked = "no"
    /\ stdin = <<>>
    /\ received = 0
    /\ stdinReader = "up"
    /\ channel = 0
    /\ writer = "request"
    /\ cancelled = "no"
    /\ forwarded = 0
    /\ outputReader = "up"
    /\ overflow = "no"
    /\ main = "poll"
    /\ status = "none"
    /\ expired = "no"
    /\ child = "spawned"
    /\ deathSignal = "none"
    /\ ending = "none"
    /\ asked = 0
    /\ answered = 0
    /\ replies = 0
    /\ events = <<>>

-----------------------------------------------------------------------------
(* What happens around the worker while it is in its receive loop.         *)

Deliver(letter) == mailbox' = Append(mailbox, letter)

Expire ==
    /\ expired = "no"
    /\ expired' = "yes"
    /\ UNCHANGED <<mailbox, port, workerVars, outerVars, superVars, childVars,
                   pipeVars>>

\* The runtime sends :cancel, or dies.
AskCancel ==
    /\ outcome = "none"
    /\ cancelAsked = "no"
    /\ cancelAsked' = "yes"
    /\ Deliver([kind |-> "cancel"])
    /\ UNCHANGED <<port, workerVars, broker, owed, superVars, childVars, pipeVars,
                   expired>>

BrokerReplies ==
    /\ outcome = "none"
    /\ broker \in {"up", "refusing"}
    /\ owed > 0
    /\ owed' = owed - 1
    /\ Deliver([kind |-> "reply"])
    /\ UNCHANGED <<port, workerVars, broker, cancelAsked, superVars, childVars,
                   pipeVars, expired>>

\* A callback's fatal end, a request it does not admit, or a batch it refuses.
BrokerFails ==
    /\ outcome = "none"
    /\ broker = "refusing" \/ (broker = "up" /\ owed > 0)
    /\ broker' = "failed"
    /\ Deliver([kind |-> "callback_error"])
    /\ UNCHANGED <<port, workerVars, owed, cancelAsked, superVars, childVars,
                   pipeVars, expired>>

\* After it failed, or because something killed it.
BrokerEnds ==
    /\ outcome = "none"
    /\ broker # "gone"
    /\ broker' = "gone"
    /\ Deliver([kind |-> "broker_down"])
    /\ UNCHANGED <<port, workerVars, owed, cancelAsked, superVars, childVars,
                   pipeVars, expired>>

-----------------------------------------------------------------------------
(* The worker: receive_result.                                             *)

Takes(kinds) ==
    /\ outcome = "none"
    /\ mailbox # <<>>
    /\ Head(mailbox).kind \in kinds

\* The `after' of call/7 closes the port; nothing is received any more.
Return(value) ==
    /\ outcome' = value
    /\ port' = "closed"
    /\ mailbox' = <<>>

Pass ==
    /\ mailbox' = Tail(mailbox)
    /\ UNCHANGED <<port, outcome>>

\* Port.command raises when the supervisor's exit has closed the port; the
\* message that says so may be further behind in the mailbox.
Command(frame) ==
    \/ /\ port = "open"
       /\ stdin' = Append(stdin, frame)
       /\ Pass
    \/ /\ port = "closed"
       /\ Return("worker_error")
       /\ UNCHANGED stdin

\* Nothing is sent after a cancellation.
CommandOnce(frame) ==
    \/ /\ cancelSent = "no"
       /\ Command(frame)
    \/ /\ cancelSent = "yes"
       /\ Pass
       /\ UNCHANGED stdin

\* cancel/3
CancelChild ==
    /\ CommandOnce("cancel")
    /\ cancelSent' = "yes"
    /\ UNCHANGED <<result, outerVars, superVars, childVars, replies, events, expired>>

TakeCancel ==
    /\ Takes({"cancel"})
    /\ CancelChild
    /\ UNCHANGED failure

TakeCallbackError ==
    /\ Takes({"callback_error"})
    /\ failure' = "callback"
    /\ CancelChild

TakeBrokerDown ==
    /\ Takes({"broker_down"})
    /\ failure' = IF failure = "none" THEN "trap" ELSE failure
    /\ CancelChild

TakeReply ==
    /\ Takes({"reply"})
    /\ CommandOnce("reply")
    /\ UNCHANGED <<result, failure, cancelSent, outerVars, superVars, childVars,
                   replies, events, expired>>

\* dispatch_requests: a batch longer than :max_callback_concurrency fails as
\* soon as the broker comes to it; of a shorter one nothing is known here but
\* that some callbacks may have ended in time for it.
Dispatch(requests) ==
    \/ /\ broker = "up" /\ requests <= MaxConcurrent
       /\ owed' = owed + requests
       /\ UNCHANGED broker
    \/ /\ broker = "up" /\ requests > MaxConcurrent
       /\ broker' = "refusing"
       /\ UNCHANGED owed
    \/ /\ broker # "up"
       /\ UNCHANGED <<broker, owed>>

\* handle_event: the requests go to the broker.
TakeCallbacks ==
    /\ Takes({"callbacks"})
    /\ Pass
    /\ \/ cancelSent = "no" /\ Dispatch(Head(mailbox).requests)
       \/ cancelSent = "yes" /\ UNCHANGED <<broker, owed>>
    /\ UNCHANGED <<result, failure, cancelSent, cancelAsked, superVars, childVars,
                   pipeVars, expired>>

TakeResult ==
    /\ Takes({"ok", "error"})
    /\ Pass
    /\ result' = Head(mailbox).kind
    /\ UNCHANGED <<failure, cancelSent, outerVars, superVars, childVars, pipeVars,
                   expired>>

\* state.failure || worker_result(state, status)
Outcome(code) ==
    CASE failure # "none"              -> failure
      [] failure = "none" /\ code = "0" /\ result # "none" -> result
      [] failure = "none" /\ code = "124" -> "timeout"
      [] failure = "none" /\ code = "125" -> "cancelled"
      [] OTHER                         -> "worker_error"

TakeExit ==
    /\ Takes({"exit"})
    /\ Return(Outcome(Head(mailbox).status))
    /\ UNCHANGED <<result, failure, cancelSent, outerVars, superVars, childVars,
                   pipeVars, expired>>

\* Something kills the worker; its port goes with it.
WorkerKilled ==
    /\ outcome = "none"
    /\ Return("killed")
    /\ UNCHANGED <<result, failure, cancelSent, outerVars, superVars, childVars,
                   pipeVars, expired>>

-----------------------------------------------------------------------------
(* The supervisor: the thread that reads its stdin.                        *)

Supervising == main # "exited"

\* Wrong: the loop counts the replies and leaves no turn for the cancellation.
LastFrameAtOnce(n) == n = MaxCalls

\* 0..=max_callbacks
LastFrame(n) == n = MaxCalls + 1

\* Wrong: one reply fewer fits the channel.
ChannelFullEarly == channel + 1 >= MaxConcurrent

ChannelFull == channel >= MaxConcurrent

StopReading ==
    /\ stdinReader' = "ended"
    /\ cancelled' = "yes"

\* try_send fails on a full channel and on one whose receiver is gone.
ReadReply ==
    /\ Supervising
    /\ stdinReader = "up"
    /\ stdin # <<>>
    /\ Head(stdin) = "reply"
    /\ stdin' = Tail(stdin)
    /\ received' = received + 1
    /\ IF ChannelFull \/ writer = "ended"
       THEN /\ StopReading
            /\ UNCHANGED channel
       ELSE /\ channel' = channel + 1
            /\ IF LastFrame(received + 1)
               THEN StopReading
               ELSE UNCHANGED <<stdinReader, cancelled>>
    /\ UNCHANGED <<mailbox, port, workerVars, outerVars, writer, forwarded,
                   outputReader, overflow, main, status, childVars, replies,
                   events, expired>>

\* An empty frame is a cancellation.
ReadCancel ==
    /\ Supervising
    /\ stdinReader = "up"
    /\ stdin # <<>>
    /\ Head(stdin) = "cancel"
    /\ stdin' = Tail(stdin)
    /\ received' = received + 1
    /\ StopReading
    /\ UNCHANGED <<mailbox, port, workerVars, outerVars, channel, writer, forwarded,
                   outputReader, overflow, main, status, childVars, replies,
                   events, expired>>

\* The worker has closed the port.
ReadEof ==
    /\ Supervising
    /\ stdinReader = "up"
    /\ stdin = <<>>
    /\ port = "closed"
    /\ StopReading
    /\ UNCHANGED <<mailbox, port, workerVars, outerVars, received, channel, writer,
                   forwarded, outputReader, overflow, main, status, childVars,
                   pipeVars, expired>>

-----------------------------------------------------------------------------
(* The supervisor: the thread that writes to the child.                    *)

WriterMoves(to) ==
    /\ Supervising
    /\ writer' = to
    /\ UNCHANGED <<mailbox, port, workerVars, outerVars, received, stdinReader,
                   forwarded, outputReader, overflow, main, status, childVars,
                   stdin, events, expired>>

WriteRequest ==
    /\ writer = "request"
    /\ ChildOpen
    /\ WriterMoves("idle")
    /\ UNCHANGED <<channel, cancelled, replies>>

TakeFromChannel ==
    /\ writer = "idle"
    /\ channel > 0
    /\ channel' = channel - 1
    /\ WriterMoves("writing")
    /\ UNCHANGED <<cancelled, replies>>

\* As far as the pipe to the child has room for it.
WriteReply ==
    /\ writer = "writing"
    /\ ChildOpen
    /\ replies' = replies + 1
    /\ WriterMoves("idle")
    /\ UNCHANGED <<channel, cancelled>>

\* The child has closed its stdin: the write fails.
WriteFails ==
    /\ writer \in {"request", "writing"}
    /\ ~ChildOpen
    /\ cancelled' = "yes"
    /\ WriterMoves("ended")
    /\ UNCHANGED <<channel, replies>>

\* The other end of the channel is gone, and it is empty.
ChannelEnds ==
    /\ writer = "idle"
    /\ channel = 0
    /\ stdinReader = "ended"
    /\ cancelled' = "yes"
    /\ WriterMoves("ended")
    /\ UNCHANGED <<channel, replies>>

-----------------------------------------------------------------------------
(* The supervisor: the thread that reads the child's output.               *)

OutputMoves ==
    /\ Supervising
    /\ outputReader \in {"up", "final"}
    /\ UNCHANGED <<port, workerVars, outerVars, received, stdinReader, channel, writer,
                   cancelled, main, status, childVars, stdin, replies, expired>>

\* 0..=max_callbacks + 1 frames and no final one among them
TooManyFrames(n) == n = MaxCalls + 2

\* An event is passed on to the port while there is one to take it.
Forward ==
    /\ OutputMoves
    /\ outputReader = "up"
    /\ events # <<>>
    /\ events' = Tail(events)
    /\ forwarded' = forwarded + 1
    /\ IF port = "open"
       THEN Deliver(Head(events))
       ELSE UNCHANGED mailbox
    /\ outputReader' =
          CASE port = "closed"                  -> "failed"
            [] port = "open" /\ Head(events).kind \in {"ok", "error"} -> "final"
            [] port = "open" /\ TooManyFrames(forwarded + 1) -> "failed"
            [] OTHER                            -> "up"
    /\ overflow' = IF outputReader' = "failed" THEN "yes" ELSE overflow

\* The output ends: after the final event, or before it.
OutputEnds ==
    /\ OutputMoves
    /\ events = <<>>
    /\ ~ChildOpen
    /\ outputReader' = IF outputReader = "final" THEN "done" ELSE "failed"
    /\ overflow' = IF outputReader' = "failed" THEN "yes" ELSE "no"
    /\ UNCHANGED <<mailbox, forwarded, events>>

-----------------------------------------------------------------------------
(* The supervisor: the polling loop.                                       *)

MainMoves(to, code) ==
    /\ main' = to
    /\ status' = code
    /\ UNCHANGED <<mailbox, port, workerVars, outerVars, received, stdinReader, channel,
                   writer, cancelled, forwarded, outputReader, overflow, deathSignal,
                   ending, asked, answered, pipeVars, expired>>

\* child.try_wait()
Poll ==
    /\ main = "poll"
    /\ \/ child # "dead" /\ MainMoves("check", "none")
       \/ child = "dead" /\ ending = "broken" /\ MainMoves("exited", "broken")
       \/ child = "dead" /\ ending # "broken" /\ MainMoves("join", "none")
    /\ UNCHANGED child

\* Wrong: the supervisor leaves the deadline to the child.
ReasonWithoutDeadline ==
    CASE cancelled = "yes" -> "125"
      [] cancelled = "no" /\ overflow = "yes" -> "126"
      [] OTHER             -> "none"

Reason ==
    CASE cancelled = "yes" -> "125"
      [] cancelled = "no" /\ overflow = "yes" -> "126"
      [] cancelled = "no" /\ overflow = "no" /\ expired = "yes" -> "124"
      [] OTHER             -> "none"

Continue ==
    /\ main = "check"
    /\ Reason = "none"
    /\ MainMoves("poll", "none")
    /\ UNCHANGED child

\* child.kill() and child.wait(): what the child was doing is over, even if
\* it had ended by itself since it was polled.
KillChild ==
    /\ main = "check"
    /\ Reason # "none"
    /\ MainMoves("exited", Reason)
    /\ child' = "dead"

Join ==
    /\ main = "join"
    /\ outputReader \in {"done", "failed"}
    /\ MainMoves("exited", IF outputReader = "done" THEN "0" ELSE "126")
    /\ UNCHANGED child

\* The supervisor's exit closes the port.
PortExits ==
    /\ main = "exited"
    /\ port = "open"
    /\ port' = "closed"
    /\ Deliver([kind |-> "exit", status |-> status])
    /\ UNCHANGED <<workerVars, outerVars, superVars, childVars, pipeVars, expired>>

\* Something kills the supervisor.  The kernel tells the children that have
\* asked for it.
SupervisorKilled ==
    /\ Supervising
    /\ main' = "exited"
    /\ status' = "killed"
    /\ deathSignal' = IF child = "spawned" THEN "none" ELSE "sent"
    /\ UNCHANGED <<mailbox, port, workerVars, outerVars, received, stdinReader, channel,
                   writer, cancelled, forwarded, outputReader, overflow, child,
                   ending, asked, answered, pipeVars, expired>>

-----------------------------------------------------------------------------
(* The child.                                                              *)

ChildMoves(from, to) ==
    /\ child = from
    /\ child' = to
    /\ UNCHANGED <<mailbox, port, workerVars, outerVars, superVars, deathSignal, stdin,
                   expired>>

\* prctl(PR_SET_PDEATHSIG, SIGKILL)
Arm ==
    /\ ChildMoves("spawned", "armed")
    /\ UNCHANGED <<ending, asked, answered, replies, events>>

\* Wrong: the child that has asked for the signal relies on it.
CheckParentNot ==
    /\ ChildMoves("armed", "starting")
    /\ UNCHANGED <<ending, asked, answered, replies, events>>

\* getppid(): a supervisor that died before the child armed sends no signal.
CheckParent ==
    /\ \/ Supervising /\ ChildMoves("armed", "starting") /\ UNCHANGED ending
       \/ ~Supervising /\ ChildMoves("armed", "closed") /\ ending' = "broken"
    /\ UNCHANGED <<asked, answered, replies, events>>

ParentDeathSignal ==
    /\ deathSignal = "sent"
    /\ child # "dead"
    /\ child' = "dead"
    /\ UNCHANGED <<mailbox, port, workerVars, outerVars, superVars, deathSignal, ending,
                   asked, answered, pipeVars, expired>>

ChildStarts ==
    /\ writer # "request"
    /\ ChildMoves("starting", "running")
    /\ UNCHANGED <<ending, asked, answered, replies, events>>

\* Wrong: the guest's calls are not counted.
MayAskFreely(n) == n > 0 => asked - answered < MaxConcurrent

\* The bridge counts a call when it is entered, and looks at the number of
\* those outstanding before it runs toJSON of the argument: calls made there
\* pass the same check, so that all of a batch may rest on one free place.
MayAsk(n) ==
    /\ asked + n <= MaxCalls
    /\ n > 0 => asked - answered < MaxConcurrent

\* Progress::Pending: the requests made since the last one are written out,
\* none if the root waits for something else.
Yields(n) ==
    /\ MayAsk(n)
    /\ asked' = asked + n
    /\ events' = Append(events, [kind |-> "callbacks", requests |-> n])
    /\ ChildMoves("running", "waiting")
    /\ UNCHANGED <<ending, answered, replies>>

ReadsCompletion ==
    /\ replies > 0
    /\ replies' = replies - 1
    /\ answered' = answered + 1
    /\ ChildMoves("waiting", "running")
    /\ UNCHANGED <<ending, asked, events>>

\* The root settles, or the guest meets one of its limits: the final event.
Settles(value) ==
    /\ ending' = value
    /\ events' = Append(events, [kind |-> value])
    /\ ChildMoves("running", "settled")
    /\ UNCHANGED <<asked, answered, replies>>

\* A signal or an error ends the child without a final event.
Breaks ==
    /\ ending' = "broken"
    /\ \E from \in {"spawned", "armed", "starting", "running", "waiting"} : ChildMoves(from, "closed")
    /\ UNCHANGED <<asked, answered, replies, events>>

\* A process that exits closes its pipes, and can be waited for after that.
Closes ==
    /\ ChildMoves("settled", "closed")
    /\ UNCHANGED <<ending, asked, answered, replies, events>>

Exits ==
    /\ ChildMoves("closed", "dead")
    /\ UNCHANGED <<ending, asked, answered, replies, events>>

-----------------------------------------------------------------------------
OuterStep ==
    \/ Expire
    \/ AskCancel
    \/ BrokerReplies
    \/ BrokerFails
    \/ BrokerEnds
    \/ WorkerKilled

WorkerStep ==
    \/ TakeCancel
    \/ TakeCallbackError
    \/ TakeBrokerDown
    \/ TakeReply
    \/ TakeCallbacks
    \/ TakeResult
    \/ TakeExit

StdinStep  == ReadReply \/ ReadCancel \/ ReadEof
WriterStep == WriteRequest \/ TakeFromChannel \/ WriteReply \/ WriteFails \/ ChannelEnds
OutputStep == Forward \/ OutputEnds
MainStep   == Poll \/ Continue \/ KillChild \/ Join

Prepare == Arm \/ CheckParent

ChildStep ==
    \/ Prepare
    \/ ChildStarts
    \/ \E n \in 0..MaxCalls : Yields(n)
    \/ ReadsCompletion
    \/ \E value \in {"ok", "error"} : Settles(value)
    \/ Breaks
    \/ Closes
    \/ Exits
    \/ ParentDeathSignal

Next ==
    \/ OuterStep
    \/ WorkerStep
    \/ StdinStep
    \/ WriterStep
    \/ OutputStep
    \/ MainStep
    \/ SupervisorKilled
    \/ PortExits
    \/ ChildStep

Spec == Init /\ [][Next]_vars

\* The worker takes what it is sent, the supervisor's threads run, and an
\* exit completes; a child prepares itself before it reads anything, and the
\* kernel delivers its signal.  Neither the guest nor the clock is assumed to go on.
FairSpec ==
    /\ Spec
    /\ WF_vars(WorkerStep)
    /\ WF_vars(StdinStep)
    /\ WF_vars(OutputStep)
    /\ WF_vars(MainStep)
    /\ WF_vars(PortExits)
    /\ WF_vars(Prepare)
    /\ WF_vars(Exits)
    /\ WF_vars(ParentDeathSignal)

-----------------------------------------------------------------------------
(* Properties.                                                             *)

\* Every variable has its type; the loops' counters stay within their ranges.
TypeOK ==
    /\ mailbox \in Seq(Letters)
    /\ port \in {"open", "closed"}
    /\ result \in {"none", "ok", "error"}
    /\ failure \in Failures \cup {"none"}
    /\ cancelSent \in {"no", "yes"}
    /\ outcome \in Failures \cup {"none", "ok", "error", "timeout", "cancelled",
                                  "worker_error", "killed"}
    /\ broker \in {"up", "refusing", "failed", "gone"}
    /\ owed \in 0..MaxCalls
    /\ cancelAsked \in {"no", "yes"}
    /\ stdin \in Seq({"reply", "cancel"})
    /\ received \in 0..(MaxCalls + 1)
    /\ stdinReader \in {"up", "ended"}
    /\ channel \in 0..MaxConcurrent
    /\ writer \in {"request", "idle", "writing", "ended"}
    /\ cancelled \in {"no", "yes"}
    /\ forwarded \in 0..(MaxCalls + 2)
    /\ outputReader \in {"up", "final", "done", "failed"}
    /\ overflow \in {"no", "yes"}
    /\ main \in {"poll", "check", "join", "exited"}
    /\ status \in {"none", "0", "124", "125", "126", "broken", "killed"}
    /\ expired \in {"no", "yes"}
    /\ deathSignal \in {"none", "sent"}
    /\ child \in {"spawned", "armed", "starting", "running", "waiting", "settled", "closed", "dead"}
    /\ ending \in {"none", "ok", "error", "broken"}
    /\ asked \in 0..MaxCalls
    /\ answered \in 0..asked
    /\ replies \in 0..asked
    /\ events \in Seq(Letters)

\* Nothing but the guest has ended the run.
Undisturbed ==
    /\ cancelAsked = "no"
    /\ expired = "no"
    /\ broker = "up"
    /\ outcome # "killed"
    /\ status # "killed"

\* "Execution ends when the root module evaluation settles": a root that has
\* settled decides the outcome of a run that nothing else has ended, also if
\* callbacks it did not wait for are still under way.
SettledRootDecides ==
    outcome # "none" /\ Undisturbed /\ ending \in {"ok", "error"} => outcome = ending

\* A root that has awaited all it asked for decides the outcome of its run.
AwaitedRootDecides ==
    /\ outcome # "none"
    /\ Undisturbed
    /\ ending \in {"ok", "error"}
    /\ asked = answered
    => outcome = ending

\* A success is the child's own, and of a run whose callbacks have not
\* failed: callback limits and timeouts end the run whatever the guest does.
SuccessIsEarned ==
    outcome = "ok" => ending = "ok" /\ failure = "none"

\* The outcome of a run is its child's if nothing stands against it, and a
\* success only then.
OutcomeIsEarned == AwaitedRootDecides /\ SuccessIsEarned

\* A guest with more calls outstanding than its limit, by way of toJSON.
BeyondLimit == asked - answered > MaxConcurrent

\* The supervisor raises no flag without a cause: an overflow only if the
\* child broke or nobody takes its output, a cancellation only because it was
\* told to, the port was closed, or the child left before a write.  Replies
\* that come faster than the child takes them cancel the run of no guest but
\* one that has more calls outstanding than its limit.
FlagsHaveCause ==
    [][/\ overflow = "no" /\ overflow' = "yes" =>
              ending = "broken" \/ port = "closed"
       /\ cancelled = "no" /\ cancelled' = "yes" =>
              cancelSent = "yes" \/ port = "closed" \/ ~ChildOpen \/ BeyondLimit]_vars

\* A deadline or a cancellation ends the run, whatever the child does.
RunAnswers == cancelAsked = "yes" \/ expired = "yes" ~> outcome # "none"

\* No child outlives the worker it runs for, even before its deadline, nor
\* the supervisor that is killed at any moment of the child's start.
ChildStops == outcome # "none" ~> child = "dead"
=============================================================================
