------------------------------ MODULE Execution ------------------------------
(***************************************************************************)
(* One in-process run with the guest that the bridge of                    *)
(* native/javex_plugin/src/bridge.js makes of a JavaScript program: the    *)
(* broker, the children and the worker of Callbacks.tla, and instead of a  *)
(* guest that asks for anything one that calls Javex.Host.call.            *)
(*                                                                         *)
(* A call checks the limits first and enters its id into the map of        *)
(* pending promises last; in between, stringify(argument) runs the toJSON  *)
(* of the program, which may call again.  `nested' is the stack of calls   *)
(* that are in between.                                                    *)
(***************************************************************************)
EXTENDS Callbacks

CONSTANTS
    MaxNesting,     \* bound on calls made while another call is under way
    MaxCount        \* bound on the calls the program makes

ASSUME ExecutionAssumption ==
    /\ Ids = 1..MaxCalls
    /\ MaxNesting \in Nat
    /\ MaxCount \in Nat

VARIABLES
    count,      \* ids given
    nested,     \* ids of the calls under way, the outermost first
    promises,   \* keys of the bridge's map of pending promises
    requests,   \* requests not yet handed over
    fatal,      \* has the program exceeded a limit?
    outcome     \* how the run ended

bridgeVars == <<count, nested, promises, requests, fatal>>
allVars == <<vars, bridgeVars, outcome>>

BridgeInit ==
    /\ count = 0
    /\ nested = <<>>
    /\ promises = {}
    /\ requests = <<>>
    /\ fatal = "no"
    /\ outcome = "none"

-----------------------------------------------------------------------------
(* The program runs, and calls.                                            *)

\* Wrong: only the calls that are pending are counted.
HasTurnUncounted(id) == Cardinality(promises) < MaxConcurrent

HasTurn(id) == id <= MaxCalls /\ Cardinality(promises) < MaxConcurrent

Runs == driver = "native" /\ UNCHANGED <<vars, outcome>>

\* The limits are checked; the call is under way.
Enter ==
    /\ Runs
    /\ Len(nested) <= MaxNesting
    /\ count < MaxCount
    /\ HasTurn(count + 1)
    /\ count' = count + 1
    /\ nested' = Append(nested, count + 1)
    /\ UNCHANGED <<promises, requests, fatal>>

\* A limit is exceeded.  The program may catch the exception and go on.
Exceed ==
    /\ Runs
    /\ Len(nested) <= MaxNesting
    /\ count < MaxCount
    /\ ~HasTurn(count + 1)
    /\ count' = count + 1
    /\ fatal' = "yes"
    /\ UNCHANGED <<nested, promises, requests>>

\* The id of the call that goes on.
Innermost == nested[Len(nested)]

Leaving ==
    /\ Runs
    /\ nested # <<>>
    /\ nested' = SubSeq(nested, 1, Len(nested) - 1)
    /\ UNCHANGED count

\* The name or the argument will not do: the promise is rejected.
Reject ==
    /\ Leaving
    /\ UNCHANGED <<promises, requests, fatal>>

\* The argument is longer than max_callback_input.
TooLong ==
    /\ Leaving
    /\ fatal' = "yes"
    /\ UNCHANGED <<promises, requests>>

\* Wrong: the request carries the counter, not the call's own id.
RegisterCounter(kind) ==
    /\ Leaving
    /\ promises' = promises \cup {Innermost}
    /\ requests' = Append(requests, [id |-> count, kind |-> kind])
    /\ UNCHANGED fatal

\* The bridge has checked what the broker checks, but for the grants.
Register(kind) ==
    /\ Leaving
    /\ promises' = promises \cup {Innermost}
    /\ requests' = Append(requests, [id |-> Innermost, kind |-> kind])
    /\ UNCHANGED fatal

-----------------------------------------------------------------------------
(* A step of the guest ends.                                               *)

StepEnds == driver = "native" /\ nested = <<>>

\* The root has not settled and has nothing left to do: Progress::Pending.
HandOver ==
    /\ StepEnds
    /\ fatal = "no"
    /\ Yield(requests)
    /\ requests' = <<>>
    /\ UNCHANGED <<count, nested, promises, fatal, outcome>>

End(value) ==
    /\ Settle
    /\ outcome' = value
    /\ UNCHANGED bridgeVars

\* A limit was exceeded, whether the root has settled or not, and however.
EndExceeded ==
    /\ StepEnds
    /\ fatal = "yes"
    /\ End("callback_limit")

\* Wrong: how the root settled comes before the limits it exceeded.
EndSettledAnyway ==
    /\ StepEnds
    /\ \E value \in {"ok", "js_error"} : End(value)

\* The root has settled.
EndSettled ==
    /\ StepEnds
    /\ fatal = "no"
    /\ \E value \in {"ok", "js_error"} : End(value)

\* Native code is interrupted, or one of its own limits is exceeded.
EndInterrupted == End("trap")

\* The bridge throws on a completion it has no promise for.
Resume ==
    /\ TakeReply
    /\ promises' = promises \ {Head(mail).id}
    /\ UNCHANGED <<count, nested, requests, fatal, outcome>>

EndWaiting(step, value) ==
    /\ step
    /\ outcome' = value
    /\ UNCHANGED bridgeVars

Besides(step) ==
    /\ step
    /\ UNCHANGED <<bridgeVars, outcome>>

-----------------------------------------------------------------------------
GuestStep ==
    \/ Enter
    \/ Exceed
    \/ Reject
    \/ TooLong
    \/ \E kind \in {"granted", "denied"} : Register(kind)
    \/ HandOver
    \/ EndExceeded
    \/ EndSettled
    \/ EndInterrupted
    \/ Resume

ExecutionInit == Init /\ BridgeInit

ExecutionNext ==
    \/ GuestStep
    \/ EndWaiting(TakeFailure, Head(mail).kind)
    \/ EndWaiting(TakeCancel, "cancelled")
    \/ Besides(Cancel)
    \/ Besides(Finish)
    \/ Besides(Die)
    \/ Besides(BrokerStep)
    \/ Besides(BrokerKilled)
    \/ Besides(RunExpires)
    \/ \E i \in Ids : Besides(ChildStep(i) \/ TimerFires(i) \/ CallbackExpires(i))

ExecutionSpec == ExecutionInit /\ [][ExecutionNext]_allVars

-----------------------------------------------------------------------------
(* Properties.                                                             *)

\* Two ledgers of one budget agree: the broker's own limits, kept by other
\* rules in another process, refuse nothing that the bridge has let through,
\* as long as calls within calls have not taken the bridge beyond its limit.
BrokerAcceptsBridge ==
    broker = "up" /\ Cardinality(promises) <= MaxConcurrent =>
        /\ \A n \in DOMAIN dispatches : Len(dispatches[n]) <= MaxConcurrent
        /\ batch # <<>> => Admitted(Head(batch).id)

\* Every promise of a waiting guest is one the worker waits for too: none is
\* forgotten, and each completion has the promise the bridge looks up.
PromisesMatch ==
    /\ driver = "waiting" => promises = pending /\ requests = <<>>
    /\ driver = "native" => pending \subseteq promises
    /\ driver \in {"native", "waiting"} =>
          \A m \in DOMAIN mail : mail[m].kind = "reply" => mail[m].id \in promises

\* "Callback limits ... terminate the run ..., even if JS catches an
\* exception": a program that exceeded a limit neither succeeds nor gets
\* another completion or callback.
LimitIsFatal ==
    fatal = "yes" => driver # "waiting" /\ outcome \notin {"ok", "js_error"}

\* The bridge's guest is one of the free guests of Callbacks: what is checked
\* and proved there for whatever a guest may ask holds of this one.
GuestBatches ==
    UNION {[1..n -> [id : Ids, kind : {"granted", "denied"}]] : n \in 0..MaxCalls}

Guest == INSTANCE Callbacks WITH Batches <- GuestBatches

ImplementsCallbacks == Guest!Spec
=============================================================================
