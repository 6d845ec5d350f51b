--------------------------- MODULE ExecutionProofs ----------------------------
(***************************************************************************)
(* Proofs about Execution.tla, for every limit and however deep calls are  *)
(* made within calls: what the bridge of a JavaScript program asks of the  *)
(* broker, which Callbacks.tla leaves to a free guest.                     *)
(***************************************************************************)
EXTENDS Execution, CallbacksProofs, SequenceTheorems

-----------------------------------------------------------------------------
(* The inductive invariant.                                                *)

BridgeRequests == [id : Ids, kind : {"granted", "denied"}]

\* An id is given out once, so that the calls under way and the requests not
\* yet handed over are no more than there are ids.
BridgeType ==
    /\ count \in Nat
    /\ nested \in Seq(Ids)
    /\ requests \in Seq(BridgeRequests)
    /\ promises \subseteq Ids
    /\ Len(nested) + Len(requests) <= count
    /\ Len(nested) + Len(requests) <= MaxCalls

\* What the bridge has a promise for is what the worker waits for, and what
\* it will wait for once the requests are handed over.
PromiseInv ==
    Active =>
        /\ driver = "waiting" => requests = <<>>
        /\ \A i \in Ids : i \in promises <=> i \in pending \/ Holds(requests, i)

\* A limit is exceeded while the guest runs, and it runs no further.
LimitInv ==
    /\ fatal = "yes" => driver # "waiting" /\ outcome \notin {"ok", "js_error"}
    /\ outcome # "none" => ~Active

GuestInv == ControlInv /\ RequestsInv /\ BridgeType /\ PromiseInv

-----------------------------------------------------------------------------
(* Every step but the hand-over is one of any guest.                       *)

LEMMA Calls ==
    /\ MaxCalls \in Nat \ {0}
    /\ Ids = 1..MaxCalls
  BY CallbacksAssumption, ExecutionAssumption

LEMMA BridgeRequestsAre ==
    /\ \A r \in BridgeRequests : r \in Requests
    /\ \A b \in Seq(BridgeRequests) : b \in Seq(Requests)
<1>1. \A r \in BridgeRequests : r \in Requests
  BY DEF BridgeRequests, Requests
<1>2. QED
  BY <1>1

Others ==
    \/ WorkerStep
    \/ BrokerStep
    \/ BrokerKilled
    \/ RunExpires
    \/ \E i \in Ids : ChildStep(i) \/ TimerFires(i) \/ CallbackExpires(i)

LEMMA OtherSteps ==
    ASSUME [ExecutionNext]_allVars, ~HandOver
    PROVE  Others \/ UNCHANGED vars
<1> USE DEF Besides, EndWaiting, Others, WorkerStep
<1>1. CASE GuestStep
  <2>1. CASE Enter \/ Exceed \/ Reject \/ TooLong \/ \E kind \in {"granted", "denied"} : Register(kind)
    BY <2>1 DEF Enter, Exceed, Reject, TooLong, Register, Leaving, Runs
  <2>2. CASE EndExceeded \/ EndSettled \/ EndInterrupted
    BY <2>2 DEF EndExceeded, EndSettled, EndInterrupted, End
  <2>3. CASE Resume
    BY <2>3 DEF Resume
  <2>4. QED
    BY <1>1, <2>1, <2>2, <2>3 DEF GuestStep
<1>2. CASE UNCHANGED allVars
  BY <1>2 DEF allVars
<1>3. CASE ExecutionNext /\ ~GuestStep
  BY <1>3 DEF ExecutionNext
<1>4. QED
  BY <1>1, <1>2, <1>3

\* What each step does to the bridge.
LEMMA BridgeKept ==
    ASSUME [ExecutionNext]_allVars, ~GuestStep
    PROVE  UNCHANGED bridgeVars
  BY DEF ExecutionNext, Besides, EndWaiting, allVars

-----------------------------------------------------------------------------
(* The parts of the invariant.                                             *)

LEMMA BrokerParts ==
    ASSUME GuestInv, [ExecutionNext]_allVars
    PROVE  ControlInv' /\ RequestsInv'
<1>1. CASE HandOver
  <2>1. requests \in Seq(Requests) /\ Yield(requests)
    BY <1>1, BridgeRequestsAre DEF HandOver, GuestInv, BridgeType
  <2>2. QED
    BY <2>1, YieldControl, YieldRequests DEF GuestInv
<1>2. CASE ~HandOver
  <2>1. [Next]_vars
    BY <1>2, OtherSteps DEF Others, Next
  <2>2. QED
    BY <2>1, ControlInvStep, RequestsStep DEF GuestInv
<1>3. QED
  BY <1>1, <1>2

LEMMA Stacks ==
    ASSUME NEW stack \in Seq(Ids), stack # <<>>
    PROVE  /\ stack[Len(stack)] \in Ids
           /\ SubSeq(stack, 1, Len(stack) - 1) \in Seq(Ids)
           /\ Len(SubSeq(stack, 1, Len(stack) - 1)) = Len(stack) - 1
           /\ Len(stack) \in Nat \ {0}
           /\ \A n \in 1..(Len(stack) - 1) : SubSeq(stack, 1, Len(stack) - 1)[n] = stack[n]
<1> DEFINE rest == SubSeq(stack, 1, Len(stack) - 1)
<1>1. Len(stack) \in Nat \ {0} /\ stack[Len(stack)] \in Ids
  OBVIOUS
<1>2. 1 \in Int /\ Len(stack) - 1 \in Int /\ \A n \in 1..(Len(stack) - 1) : stack[n] \in Ids
  OBVIOUS
<1>3. /\ rest \in Seq(Ids)
      /\ Len(rest) = IF 1 <= Len(stack) - 1 THEN (Len(stack) - 1) - 1 + 1 ELSE 0
      /\ \A n \in 1..((Len(stack) - 1) - 1 + 1) : rest[n] = stack[1 + n - 1]
  BY <1>2, SubSeqProperties
<1> HIDE DEF rest
<1>4. Len(rest) = Len(stack) - 1
  <2>1. \A n \in Nat \ {0} : (IF 1 <= n - 1 THEN (n - 1) - 1 + 1 ELSE 0) = n - 1
    OBVIOUS
  <2>2. QED
    BY <1>1, <1>3, <2>1
<1>5. \A n \in 1..(Len(stack) - 1) : rest[n] = stack[n]
  BY <1>1, <1>3
<1>6. QED
  BY <1>1, <1>3, <1>4, <1>5 DEF rest

LEMMA TypeStep ==
    ASSUME BridgeType, [ExecutionNext]_allVars
    PROVE  BridgeType'
<1> USE Calls DEF BridgeType
<1>1. CASE Enter
  <2>1. count + 1 \in Ids
    BY <1>1 DEF Enter, HasTurn
  <2>2. /\ nested' \in Seq(Ids) /\ Len(nested') = Len(nested) + 1
        /\ count' = count + 1 /\ count + 1 <= MaxCalls
        /\ requests' = requests /\ promises' = promises
    BY <1>1, <2>1 DEF Enter, HasTurn
  <2>3. QED
    BY <2>2
<1>2. CASE Exceed
  <2>1. count' = count + 1 /\ nested' = nested /\ requests' = requests /\ promises' = promises
    BY <1>2 DEF Exceed
  <2>2. Len(nested) \in Nat /\ Len(requests) \in Nat
    OBVIOUS
  <2>3. QED
    BY <2>1, <2>2
<1>3. CASE Reject \/ TooLong
  <2>1. nested # <<>> /\ nested' = SubSeq(nested, 1, Len(nested) - 1)
        /\ UNCHANGED <<count, promises, requests>>
    BY <1>3 DEF Reject, TooLong, Leaving
  <2>2. nested' \in Seq(Ids) /\ Len(nested') = Len(nested) - 1 /\ Len(nested) \in Nat
    BY <2>1, Stacks
  <2>3. Len(requests) \in Nat
    OBVIOUS
  <2>4. QED
    BY <2>1, <2>2, <2>3
<1>4. ASSUME NEW kind \in {"granted", "denied"}, Register(kind) PROVE BridgeType'
  <2> DEFINE r == [id |-> Innermost, kind |-> kind]
  <2>1. /\ nested # <<>> /\ nested' = SubSeq(nested, 1, Len(nested) - 1)
        /\ requests' = Append(requests, r)
        /\ promises' = promises \cup {Innermost}
        /\ count' = count
    BY <1>4 DEF Register, Leaving
  <2>2. /\ nested' \in Seq(Ids) /\ Len(nested') = Len(nested) - 1 /\ Innermost \in Ids
        /\ Len(nested) \in Nat
    BY <2>1, Stacks DEF Innermost
  <2>3. r \in BridgeRequests
    BY <2>2 DEF BridgeRequests
  <2> HIDE DEF r
  <2>4. requests' \in Seq(BridgeRequests) /\ Len(requests') = Len(requests) + 1
        /\ Len(requests) \in Nat
    BY <2>1, <2>3
  <2>5. Len(nested') + Len(requests') = Len(nested) + Len(requests)
    BY <2>2, <2>4
  <2>6. promises' \subseteq Ids
    BY <2>1, <2>2
  <2>7. QED
    BY <2>1, <2>2, <2>4, <2>5, <2>6
<1>5. CASE HandOver
  <2>1. requests' = <<>> /\ UNCHANGED <<count, nested, promises>>
    BY <1>5 DEF HandOver
  <2>2. <<>> \in Seq(BridgeRequests) /\ Len(<<>>) = 0 /\ Len(nested) \in Nat /\ Len(requests) \in Nat
    OBVIOUS
  <2>3. QED
    BY <2>1, <2>2
<1>6. CASE Resume
  BY <1>6 DEF Resume
<1>7. CASE EndExceeded \/ EndSettled \/ EndInterrupted \/ ~GuestStep
  <2>1. UNCHANGED bridgeVars
    BY <1>7, BridgeKept DEF EndExceeded, EndSettled, EndInterrupted, End
  <2>2. QED
    BY <2>1 DEF bridgeVars
<1>8. QED
  BY <1>1, <1>2, <1>3, <1>4, <1>5, <1>6, <1>7 DEF GuestStep

\* A registered request comes last.
LEMMA Registered ==
    ASSUME NEW b \in Seq(BridgeRequests), NEW r \in BridgeRequests, NEW i
    PROVE  Holds(Append(b, r), i) <=> Holds(b, i) \/ i = r.id
<1>1. /\ Len(b) \in Nat
      /\ DOMAIN b = 1..Len(b)
      /\ DOMAIN Append(b, r) = 1..(Len(b) + 1)
      /\ \A n \in DOMAIN b : Append(b, r)[n] = b[n]
      /\ Append(b, r)[Len(b) + 1] = r
  OBVIOUS
<1>2. \A n \in DOMAIN Append(b, r) : n \in DOMAIN b \/ n = Len(b) + 1
  BY <1>1
<1>3. DOMAIN b \subseteq DOMAIN Append(b, r) /\ Len(b) + 1 \in DOMAIN Append(b, r)
  BY <1>1
<1>4. QED
  BY <1>1, <1>2, <1>3 DEF Holds

LEMMA PromiseStep ==
    ASSUME GuestInv, [ExecutionNext]_allVars
    PROVE  PromiseInv'
<1> USE DEF workerVars
<1>1. CASE Enter \/ Exceed \/ Reject \/ TooLong
  <2>1. UNCHANGED <<driver, pending, promises, requests>>
    BY <1>1 DEF Enter, Exceed, Reject, TooLong, Leaving, Runs, vars
  <2>2. QED
    BY <2>1 DEF GuestInv, PromiseInv, Active, Holds
<1>2. ASSUME NEW kind \in {"granted", "denied"}, Register(kind) PROVE PromiseInv'
  <2> DEFINE r == [id |-> Innermost, kind |-> kind]
  <2>1. /\ nested # <<>> /\ requests' = Append(requests, r)
        /\ promises' = promises \cup {Innermost}
        /\ UNCHANGED <<driver, pending>> /\ driver = "native"
    BY <1>2 DEF Register, Leaving, Runs, vars
  <2>2. r \in BridgeRequests /\ r.id = Innermost
    BY <2>1, Stacks DEF Innermost, BridgeRequests, GuestInv, BridgeType
  <2> HIDE DEF r
  <2>3. \A i \in Ids : Holds(requests, i)' <=> Holds(requests, i) \/ i = Innermost
    <3>1. requests \in Seq(BridgeRequests)
      BY DEF GuestInv, BridgeType
    <3>2. \A i : Holds(Append(requests, r), i) <=> Holds(requests, i) \/ i = Innermost
      BY <2>2, <3>1, Registered
    <3>3. \A i : Holds(requests, i)' <=> Holds(requests', i)
      BY DEF Holds
    <3>4. QED
      BY <2>1, <3>2, <3>3
  <2>4. QED
    BY <2>1, <2>3 DEF GuestInv, PromiseInv, Active
<1>3. CASE HandOver
  <2>1. /\ driver = "native" /\ requests' = <<>> /\ promises' = promises
        /\ pending' = pending \cup {requests[n].id : n \in DOMAIN requests}
    BY <1>3 DEF HandOver, Yield
  <2>2. \A i \in Ids : i \in pending' <=> i \in pending \/ Holds(requests, i)
    BY <2>1 DEF Holds
  <2>3. \A i \in Ids : ~Holds(requests, i)'
    BY <2>1 DEF Holds
  <2>4. QED
    BY <2>1, <2>2, <2>3 DEF GuestInv, PromiseInv, Active
<1>4. CASE Resume
  <2>1. /\ driver = "waiting" /\ pending' = pending \ {Head(mail).id}
        /\ promises' = promises \ {Head(mail).id} /\ requests' = requests
    BY <1>4 DEF Resume, TakeReply
  <2>2. requests = <<>>
    BY <2>1 DEF GuestInv, PromiseInv, Active
  <2>3. \A i \in Ids : ~Holds(requests, i) /\ ~Holds(requests, i)'
    BY <2>1, <2>2 DEF Holds
  <2>4. QED
    BY <2>1, <2>2, <2>3 DEF GuestInv, PromiseInv, Active
<1>5. CASE EndExceeded \/ EndSettled \/ EndInterrupted
  BY <1>5 DEF EndExceeded, EndSettled, EndInterrupted, End, Settle, Leave, PromiseInv, Active
<1>6. CASE ~GuestStep
  <2>1. UNCHANGED bridgeVars
    BY <1>6, BridgeKept
  <2>2. Active' => UNCHANGED <<driver, pending>>
    BY <1>6 DEF ExecutionNext, allVars, vars, brokerVars, Besides, EndWaiting, TakeFailure, TakeCancel, Leave,
               Cancel, Finish, Die, BrokerStep, BrokerKilled, ReceiveDispatch,
               RefuseDispatch, StartCallback, DenyRequest, DenialTooLong, RefuseRequest,
               ReceiveStop, EndCleanup, ReceiveResult, ReceiveDown, ReceiveFatal,
               ReceiveTimeout, DropTimeout, Fail, Cleanup, EndLoop, RunExpires, ChildStep,
               ChildStarts, ChildTooLate, ChildReports, ChildExits, ChildCrashes,
               ChildKilled, ChildMoves, TimerFires, CallbackExpires, Active
  <2>3. QED
    BY <2>1, <2>2 DEF bridgeVars, GuestInv, PromiseInv, Active, Holds
<1>7. QED
  BY <1>1, <1>2, <1>3, <1>4, <1>5, <1>6 DEF GuestStep

LEMMA GuestInitially == ExecutionInit => GuestInv
<1> SUFFICES ASSUME ExecutionInit PROVE GuestInv
  OBVIOUS
<1>1. ControlInv
  BY InitInv DEF ExecutionInit, IInv
<1>2. RequestsInv
  BY DEF ExecutionInit, Init, RequestsInv, RequestInv, AnsweredOnce, Failed, Replied,
         Asked, Holds
<1>3. BridgeType
  BY Calls DEF ExecutionInit, BridgeInit, BridgeType
<1>4. PromiseInv
  BY DEF ExecutionInit, Init, BridgeInit, PromiseInv, Holds
<1>5. QED
  BY <1>1, <1>2, <1>3, <1>4 DEF GuestInv

LEMMA GuestInvariance == ExecutionSpec => []GuestInv
<1>1. GuestInv /\ [ExecutionNext]_allVars => GuestInv'
  BY BrokerParts, TypeStep, PromiseStep DEF GuestInv
<1>2. QED
  BY <1>1, GuestInitially, PTL DEF ExecutionSpec

-----------------------------------------------------------------------------
(* Theorems.                                                               *)

\* The promises of the bridge, the requests the worker waits for and the
\* completions on their way are the same.
THEOREM PromiseTheorem == ExecutionSpec => []PromisesMatch
<1>1. GuestInv => PromisesMatch
  <2> SUFFICES ASSUME GuestInv PROVE PromisesMatch
    OBVIOUS
  <2>1. pending \subseteq Ids /\ promises \subseteq Ids
    BY DEF GuestInv, ControlInv, TypeOK, BridgeType
  <2>2. driver = "waiting" => promises = pending /\ requests = <<>>
    <3> SUFFICES ASSUME driver = "waiting" PROVE promises = pending /\ requests = <<>>
      OBVIOUS
    <3>1. requests = <<>>
      BY DEF GuestInv, PromiseInv, Active
    <3>2. \A i \in Ids : ~Holds(requests, i)
      BY <3>1 DEF Holds
    <3>3. QED
      BY <2>1, <3>1, <3>2 DEF GuestInv, PromiseInv, Active
  <2>3. driver = "native" => pending \subseteq promises
    BY <2>1 DEF GuestInv, PromiseInv, Active
  <2>4. CompletionsExpected
    BY Accounted DEF GuestInv, RequestsAccounted
  <2>5. QED
    BY <2>2, <2>3, <2>4 DEF CompletionsExpected, PromisesMatch
<1>2. QED
  BY <1>1, GuestInvariance, PTL

\* A program that has exceeded a callback limit neither succeeds nor gets
\* another completion, whatever exceptions it catches.
THEOREM LimitTheorem == ExecutionSpec => []LimitIsFatal
<1>1. ExecutionInit => LimitInv
  BY DEF ExecutionInit, BridgeInit, LimitInv
<1>2. LimitInv /\ [ExecutionNext]_allVars => LimitInv'
  <2> SUFFICES ASSUME LimitInv, [ExecutionNext]_allVars PROVE LimitInv'
    OBVIOUS
  <2> USE DEF workerVars
  <2>1. CASE Enter \/ Exceed \/ Reject \/ TooLong \/ \E kind \in {"granted", "denied"} : Register(kind)
    BY <2>1 DEF Enter, Exceed, Reject, TooLong, Register, Leaving, Runs, vars, LimitInv, Active
  <2>2. CASE HandOver
    BY <2>2 DEF HandOver, Yield, LimitInv, Active
  <2>3. CASE Resume
    BY <2>3 DEF Resume, TakeReply, LimitInv, Active
  <2>4. CASE EndExceeded \/ EndSettled \/ EndInterrupted
    BY <2>4 DEF EndExceeded, EndSettled, EndInterrupted, End, Settle, Leave, bridgeVars,
                LimitInv, Active
  <2>5. CASE ~GuestStep
    <3>1. UNCHANGED bridgeVars
      BY <2>5, BridgeKept
    <3>2. CASE \/ EndWaiting(TakeFailure, Head(mail).kind)
               \/ EndWaiting(TakeCancel, "cancelled")
      BY <3>1, <3>2 DEF EndWaiting, TakeFailure, TakeCancel, Leave, bridgeVars, LimitInv, Active
    <3>3. CASE ~(\/ EndWaiting(TakeFailure, Head(mail).kind)
                 \/ EndWaiting(TakeCancel, "cancelled"))
      <4>1. outcome' = outcome
        BY <2>5, <3>3 DEF ExecutionNext, allVars, Besides
      <4>2. driver' = driver \/ ~Active'
        BY <2>5, <3>3
           DEF ExecutionNext, allVars, vars, brokerVars, Besides, Cancel, Finish, Die, BrokerStep, BrokerKilled,
               ReceiveDispatch, RefuseDispatch, StartCallback, DenyRequest,
               DenialTooLong, RefuseRequest, ReceiveStop, EndCleanup, ReceiveResult,
               ReceiveDown, ReceiveFatal, ReceiveTimeout, DropTimeout, Fail, Cleanup,
               EndLoop, RunExpires, ChildStep, ChildStarts, ChildTooLate, ChildReports,
               ChildExits, ChildCrashes, ChildKilled, ChildMoves, TimerFires,
               CallbackExpires, Active
      <4>3. QED
        BY <3>1, <4>1, <4>2 DEF bridgeVars, LimitInv, Active
    <3>4. QED
      BY <3>2, <3>3
  <2>6. QED
    BY <2>1, <2>2, <2>3, <2>4, <2>5 DEF GuestStep
<1>3. LimitInv => LimitIsFatal
  BY DEF LimitInv, LimitIsFatal
<1>4. QED
  BY <1>1, <1>2, <1>3, PTL DEF ExecutionSpec

LEMMA SameCount == \A S : Guest!Cardinality(S) = Cardinality(S)
  BY Zenon DEF Cardinality, Guest!Cardinality

\* The guest the bridge makes is one of those Callbacks is proved for.
THEOREM Implementation == ExecutionSpec => ImplementsCallbacks
<1>1. ExecutionInit => Guest!Init
  BY DEF ExecutionInit, Init, Guest!Init
<1>2. ASSUME GuestInv, [ExecutionNext]_allVars PROVE [Guest!Next]_vars
  <2>1. CASE HandOver
    <3>1. requests \in GuestBatches
      <4>1. requests \in [1..Len(requests) -> BridgeRequests] /\ Len(requests) \in 0..MaxCalls
        BY <1>2, Calls DEF GuestInv, BridgeType
      <4>2. QED
        BY <4>1 DEF GuestBatches, BridgeRequests
    <3>2. Yield(requests)
      BY <2>1 DEF HandOver
    <3>3. Guest!Yield(requests)
      BY <3>2 DEF Yield, Guest!Yield, brokerVars, Guest!brokerVars
    <3>4. QED
      BY <3>1, <3>3 DEF Guest!Next
  <2>2. CASE Others
    <3>1. WorkerStep => Guest!WorkerStep
      BY DEF WorkerStep, Settle, TakeReply, TakeFailure, Cancel, TakeCancel, Finish, Die,
             Leave, brokerVars,
             Guest!WorkerStep, Guest!Settle, Guest!TakeReply, Guest!TakeFailure,
             Guest!Cancel, Guest!TakeCancel, Guest!Finish, Guest!Die, Guest!Leave,
             Guest!brokerVars
    <3>2. BrokerStep => Guest!BrokerStep
      <4>1. ASSUME NEW remaining, Fail(remaining) PROVE Guest!Fail(remaining)
        BY <4>1 DEF Fail, Cleanup, EndLoop, Tell, workerVars, Guest!Fail, Guest!Cleanup,
                    Guest!EndLoop, Guest!Tell, Guest!workerVars
      <4>2. ASSUME NEW i \in Ids, ReceiveResult(i) \/ ReceiveDown(i) \/ DropTimeout(i)
            PROVE  Guest!ReceiveResult(i) \/ Guest!ReceiveDown(i) \/ Guest!DropTimeout(i)
        BY <4>2 DEF ReceiveResult, ReceiveDown, DropTimeout, ChildEnded, Listening, Results,
                    Sent, Reply, Tell, workerVars, brokerVars,
                    Guest!ReceiveResult, Guest!ReceiveDown, Guest!DropTimeout,
                    Guest!ChildEnded, Guest!Listening, Guest!Results, Guest!Sent,
                    Guest!Reply, Guest!Tell, Guest!workerVars, Guest!brokerVars
      <4>3. ASSUME NEW i \in Ids, ReceiveFatal(i) \/ ReceiveTimeout(i)
            PROVE  Guest!ReceiveFatal(i) \/ Guest!ReceiveTimeout(i)
        BY <4>1, <4>3 DEF ReceiveFatal, ReceiveTimeout, ChildEnded, Listening, Results,
                    Sent, Timeouts, Guest!ReceiveFatal, Guest!ReceiveTimeout,
                    Guest!ChildEnded, Guest!Listening, Guest!Results, Guest!Sent,
                    Guest!Timeouts
      <4>4. RefuseDispatch \/ RefuseRequest => Guest!RefuseDispatch \/ Guest!RefuseRequest
        BY <4>1, SameCount DEF RefuseDispatch, RefuseRequest, Admitted, Listening,
                    Guest!RefuseDispatch, Guest!RefuseRequest, Guest!Admitted,
                    Guest!Listening
      <4>5. ASSUME NEW kind, NextRequest(kind) PROVE Guest!NextRequest(kind)
        BY <4>5, SameCount DEF NextRequest, Admitted, Guest!NextRequest, Guest!Admitted
      <4>6. DenialTooLong => Guest!DenialTooLong
        BY <4>1, <4>5 DEF DenialTooLong, Guest!DenialTooLong
      <4>7. ReceiveDispatch => Guest!ReceiveDispatch
        BY DEF ReceiveDispatch, Listening, workerVars,
               Guest!ReceiveDispatch, Guest!Listening, Guest!workerVars
      <4>8. StartCallback => Guest!StartCallback
        BY <4>5 DEF StartCallback, workerVars, Guest!StartCallback, Guest!workerVars
      <4>9. DenyRequest => Guest!DenyRequest
        BY <4>5 DEF DenyRequest, Reply, Tell, workerVars,
                    Guest!DenyRequest, Guest!Reply, Guest!Tell, Guest!workerVars
      <4>10. ReceiveStop \/ EndCleanup => Guest!ReceiveStop \/ Guest!EndCleanup
        BY DEF ReceiveStop, EndCleanup, Listening, Cleanup, EndLoop, Alive, Tell,
               workerVars, Guest!ReceiveStop, Guest!EndCleanup, Guest!Listening,
               Guest!Cleanup, Guest!EndLoop, Guest!Alive, Guest!Tell, Guest!workerVars
      <4>11. QED
        BY <4>2, <4>3, <4>4, <4>6, <4>7, <4>8, <4>9, <4>10 DEF BrokerStep, Guest!BrokerStep
    <3>3. BrokerKilled => Guest!BrokerKilled
      BY DEF BrokerKilled, EndLoop, Tell, workerVars, Guest!BrokerKilled, Guest!EndLoop,
             Guest!Tell, Guest!workerVars
    <3>4. RunExpires => Guest!RunExpires
      BY DEF RunExpires, workerVars, brokerVars, Guest!RunExpires, Guest!workerVars,
             Guest!brokerVars
    <3>5. ASSUME NEW i \in Ids PROVE ChildStep(i) => Guest!ChildStep(i)
      BY DEF ChildStep, ChildStarts, ChildTooLate, ChildReports, ChildExits, ChildCrashes,
             ChildKilled, ChildMoves, Results, workerVars, brokerVars,
             Guest!ChildStep, Guest!ChildStarts, Guest!ChildTooLate, Guest!ChildReports,
             Guest!ChildExits, Guest!ChildCrashes, Guest!ChildKilled, Guest!ChildMoves,
             Guest!Results, Guest!workerVars, Guest!brokerVars
    <3>6. ASSUME NEW i \in Ids
          PROVE  TimerFires(i) \/ CallbackExpires(i) =>
                     Guest!TimerFires(i) \/ Guest!CallbackExpires(i)
      BY DEF TimerFires, CallbackExpires, Alive, workerVars, brokerVars,
             Guest!TimerFires, Guest!CallbackExpires, Guest!Alive, Guest!workerVars,
             Guest!brokerVars
    <3>7. QED
      BY <2>2, <3>1, <3>2, <3>3, <3>4, <3>5, <3>6 DEF Others, Guest!Next
  <2>3. QED
    BY <1>2, <2>1, <2>2, OtherSteps
<1>3. UNCHANGED vars => UNCHANGED Guest!vars
  BY DEF vars, workerVars, brokerVars, Guest!vars, Guest!workerVars, Guest!brokerVars
<1>4. ASSUME GuestInv, [ExecutionNext]_allVars PROVE [Guest!Next]_Guest!vars
  <2>1. Guest!Next \/ UNCHANGED vars
    BY <1>2, <1>4
  <2>2. QED
    BY <1>3, <2>1
<1>5. QED
  BY <1>1, <1>4, GuestInvariance, PTL DEF ExecutionSpec, ImplementsCallbacks, Guest!Spec
-----------------------------------------------------------------------------
(* The broker's ledger and the bridge's.                                   *)

OneEach(b)  == \A m, n \in DOMAIN b : b[m].id = b[n].id => m = n
Apart(a, b) == \A i \in Ids : ~(Holds(a, i) /\ Holds(b, i))

\* What the broker still has to look at is new to it, asked for once, and has
\* a promise; so has a job.
QueueInv ==
    /\ OneEach(batch)
    /\ \A k \in DOMAIN dispatches : OneEach(dispatches[k]) /\ Apart(batch, dispatches[k])
    /\ \A k, l \in DOMAIN dispatches : k # l => Apart(dispatches[k], dispatches[l])
    /\ \A i \in Ids : Asked(i) => i \notin seen /\ i \in promises
    /\ jobs \subseteq promises

\* Has the broker never heard of this id?
New(i) == i \notin seen /\ ~Asked(i)

\* The ids of the calls under way, of the requests not handed over and those
\* not given out are new.
FreshInv ==
    /\ OneEach(requests)
    /\ \A m, n \in DOMAIN nested : nested[m] = nested[n] => m = n
    /\ \A n \in DOMAIN nested :
          New(nested[n]) /\ nested[n] <= count /\ nested[n] \notin promises
    /\ \A i \in Ids : Holds(requests, i) => New(i) /\ i \in promises
    /\ \A i \in Ids : i > count => New(i) /\ i \notin promises

LedgerInv == GuestInv /\ QueueInv /\ FreshInv

\* What a step of anyone but the bridge does to the broker's queue.
QueueKept ==
    UNCHANGED <<batch, dispatches, seen>> /\ jobs' \subseteq jobs

QueueDropped ==
    batch' = <<>> /\ dispatches' = <<>> /\ seen' = seen /\ jobs' \subseteq jobs

QueueMoves ==
    /\ dispatches # <<>> /\ batch = <<>>
    /\ batch' = Head(dispatches) /\ dispatches' = Tail(dispatches)
    /\ UNCHANGED <<seen, jobs>>

QueueTakes ==
    /\ batch # <<>> /\ batch' = Tail(batch) /\ dispatches' = dispatches
    /\ seen' = seen \cup {Head(batch).id}
    /\ jobs' \subseteq jobs \cup {Head(batch).id}

LEMMA QueueSteps ==
    ASSUME ControlInv, Others \/ UNCHANGED vars
    PROVE  QueueKept \/ QueueDropped \/ QueueMoves \/ QueueTakes
<1> USE DEF brokerVars
<1>1. CASE WorkerStep
  BY <1>1 DEF WorkerStep, Settle, TakeReply, TakeFailure, Cancel, TakeCancel, Finish, Die,
              Leave, QueueKept
<1>2. CASE RefuseDispatch \/ DenialTooLong \/ RefuseRequest \/ ReceiveStop \/ BrokerKilled
  BY <1>2 DEF RefuseDispatch, DenialTooLong, RefuseRequest, ReceiveStop, BrokerKilled, Fail,
              Cleanup, EndLoop, QueueDropped
<1>3. CASE ReceiveDispatch
  BY <1>3 DEF ReceiveDispatch, Listening, QueueMoves
<1>4. CASE StartCallback \/ DenyRequest
  BY <1>4 DEF StartCallback, DenyRequest, NextRequest, QueueTakes
<1>5. CASE EndCleanup
  BY <1>5 DEF EndCleanup, QueueKept
<1>6. ASSUME NEW i \in Ids, ReceiveResult(i) \/ ReceiveDown(i) \/ DropTimeout(i)
      PROVE  QueueKept
  BY <1>6 DEF ReceiveResult, ReceiveDown, DropTimeout, QueueKept
<1>7. ASSUME NEW i \in Ids, ReceiveFatal(i) \/ ReceiveTimeout(i) PROVE QueueDropped
  BY <1>7 DEF ReceiveFatal, ReceiveTimeout, Fail, Cleanup, EndLoop, QueueDropped
<1>8. ASSUME NEW i \in Ids, ChildStep(i) \/ TimerFires(i) \/ CallbackExpires(i)
      PROVE  QueueKept
  BY <1>8 DEF ChildStep, ChildStarts, ChildTooLate, ChildReports, ChildExits, ChildCrashes,
              ChildKilled, ChildMoves, TimerFires, CallbackExpires, QueueKept
<1>9. CASE RunExpires \/ UNCHANGED vars
  BY <1>9 DEF RunExpires, vars, QueueKept
<1>10. QED
  BY <1>1, <1>2, <1>3, <1>4, <1>5, <1>6, <1>7, <1>8, <1>9 DEF Others, BrokerStep

\* Nothing becomes known to the broker that was not asked.
LEMMA NewKept ==
    ASSUME ControlInv, QueueInv, QueueKept \/ QueueDropped \/ QueueMoves \/ QueueTakes
    PROVE  /\ \A i \in Ids : Asked(i)' => Asked(i)
           /\ \A i \in Ids : New(i) => New(i)'
<1>1. CASE QueueKept
  BY <1>1 DEF QueueKept, Asked, New
<1>2. CASE QueueDropped
  BY <1>2 DEF QueueDropped, Asked, Holds, New
<1>3. CASE QueueMoves
  <2>1. \A i \in Ids : Asked(i)' <=> Asked(i)
    BY <1>3, DispatchTaken DEF QueueMoves, ControlInv, TypeOK
  <2>2. QED
    BY <1>3, <2>1 DEF QueueMoves, New
<1>4. CASE QueueTakes
  <2>1. Asked(Head(batch).id) /\ \A i \in Ids : Asked(i)' => Asked(i)
    BY <1>4, RequestTaken DEF QueueTakes, ControlInv, TypeOK
  <2>2. QED
    BY <1>4, <2>1 DEF QueueTakes, New
<1>5. QED
  BY <1>1, <1>2, <1>3, <1>4

LEMMA QueueMoved ==
    ASSUME ControlInv, QueueInv, QueueMoves, promises' = promises
    PROVE  QueueInv'
<1>1. /\ DOMAIN dispatches = 1..Len(dispatches)
      /\ Len(dispatches) \in Nat \ {0}
      /\ DOMAIN dispatches' = 1..(Len(dispatches) - 1)
      /\ \A k \in DOMAIN dispatches' : dispatches'[k] = dispatches[k + 1]
      /\ batch' = dispatches[1]
  BY DEF QueueMoves, ControlInv, TypeOK
<1>2. 1 \in DOMAIN dispatches /\ \A k \in DOMAIN dispatches' : k + 1 \in DOMAIN dispatches /\ k + 1 # 1
  BY <1>1
<1>3. OneEach(batch')
  BY <1>1, <1>2 DEF QueueInv
<1>4. \A k \in DOMAIN dispatches' : OneEach(dispatches'[k]) /\ Apart(batch', dispatches'[k])
  BY <1>1, <1>2 DEF QueueInv
<1>5. \A k, l \in DOMAIN dispatches' : k # l => Apart(dispatches'[k], dispatches'[l])
  <2> SUFFICES ASSUME NEW k \in DOMAIN dispatches', NEW l \in DOMAIN dispatches', k # l
               PROVE  Apart(dispatches'[k], dispatches'[l])
    OBVIOUS
  <2>1. k + 1 # l + 1
    BY <1>1
  <2>2. QED
    BY <1>1, <1>2, <2>1 DEF QueueInv
<1>6. \A i \in Ids : Asked(i)' => i \notin seen' /\ i \in promises'
  BY NewKept DEF QueueInv, QueueMoves
<1>7. QED
  BY <1>3, <1>4, <1>5, <1>6 DEF QueueInv, QueueMoves, OneEach, Apart, Holds

LEMMA QueueTaken ==
    ASSUME ControlInv, QueueInv, QueueTakes, promises' = promises
    PROVE  QueueInv'
<1>1. /\ DOMAIN batch = 1..Len(batch)
      /\ Len(batch) \in Nat \ {0}
      /\ DOMAIN batch' = 1..(Len(batch) - 1)
      /\ \A n \in DOMAIN batch' : batch'[n] = batch[n + 1]
      /\ Head(batch) = batch[1]
  BY DEF QueueTakes, ControlInv, TypeOK
<1>2. 1 \in DOMAIN batch /\ \A n \in DOMAIN batch' : n + 1 \in DOMAIN batch /\ n + 1 # 1
  BY <1>1
<1>3. OneEach(batch')
  <2> SUFFICES ASSUME NEW m \in DOMAIN batch', NEW n \in DOMAIN batch',
                      batch'[m].id = batch'[n].id
               PROVE  m = n
    BY DEF OneEach
  <2>1. m + 1 = n + 1
    BY <1>1, <1>2 DEF QueueInv, OneEach
  <2>2. QED
    BY <1>1, <2>1
<1>4. \A i \in Ids : Holds(batch', i) => Holds(batch, i) /\ i # Head(batch).id
  BY <1>1, <1>2 DEF QueueInv, OneEach, Holds
<1>5. \A k \in DOMAIN dispatches : Apart(batch', dispatches[k])
  BY <1>4 DEF QueueInv, Apart
<1>6. Head(batch).id \in Ids /\ Holds(batch, Head(batch).id)
  BY <1>1, <1>2, Frames DEF Holds, QueueTakes, ControlInv, TypeOK
<1>7. \A k \in DOMAIN dispatches : ~Holds(dispatches[k], Head(batch).id)
  BY <1>6 DEF QueueInv, Apart
<1>8. \A i \in Ids : Asked(i)' => Asked(i) /\ i # Head(batch).id
  <2> SUFFICES ASSUME NEW i \in Ids, Asked(i)' PROVE Asked(i) /\ i # Head(batch).id
    OBVIOUS
  <2>1. Holds(batch', i) \/ \E k \in DOMAIN dispatches : Holds(dispatches[k], i)
    BY DEF Asked, Holds, QueueTakes
  <2>2. QED
    BY <1>4, <1>7, <2>1 DEF Asked
<1>9. Head(batch).id \in promises
  BY <1>6 DEF QueueInv, Asked
<1>10. \A i \in Ids : Asked(i)' => i \notin seen' /\ i \in promises'
  BY <1>8 DEF QueueInv, QueueTakes
<1>11. jobs' \subseteq promises'
  BY <1>9 DEF QueueInv, QueueTakes
<1>12. QED
  BY <1>3, <1>5, <1>10, <1>11 DEF QueueInv, QueueTakes, OneEach, Apart, Holds

\* The requests handed over are new, and come last.
LEMMA HandedOver ==
    ASSUME LedgerInv, HandOver
    PROVE  QueueInv' /\ FreshInv'
<1>1. /\ nested = <<>> /\ requests' = <<>> /\ Yield(requests)
      /\ UNCHANGED <<count, nested, promises>>
  BY DEF HandOver, StepEnds
<1>2. UNCHANGED <<broker, batch, seen, jobs>>
  BY <1>1 DEF Yield, brokerVars
<1>3. \A i \in Ids : Asked(i)' => Asked(i) \/ Holds(requests, i)
  <2>1. CASE broker = "up"
    <3>1. dispatches' = Append(dispatches, requests)
      BY <1>1, <2>1 DEF Yield
    <3>2. dispatches \in Seq(Seq(Requests)) /\ requests \in Seq(Requests)
      BY BridgeRequestsAre DEF LedgerInv, GuestInv, BridgeType, ControlInv, TypeOK
    <3>3. QED
      BY <1>2, <3>1, <3>2, BatchAsked
  <2>2. CASE broker # "up"
    BY <1>1, <1>2, <2>2 DEF Yield, Asked
  <2>3. QED
    BY <2>1, <2>2
<1>4. \A i \in Ids : ~Holds(requests, i)'
  BY <1>1 DEF Holds
<1>5. FreshInv'
  <2>1. OneEach(requests)' /\ DOMAIN nested' = {}
    BY <1>1 DEF OneEach
  <2>2. \A i \in Ids : i > count => New(i)' /\ i \notin promises
    BY <1>2, <1>3 DEF LedgerInv, FreshInv, New
  <2>3. QED
    BY <1>1, <1>4, <2>1, <2>2 DEF FreshInv
<1>6. \A i \in Ids : Asked(i)' => i \notin seen' /\ i \in promises'
  BY <1>1, <1>2, <1>3 DEF LedgerInv, QueueInv, FreshInv, New
<1>7. CASE broker # "up"
  <2>1. dispatches' = dispatches
    BY <1>1, <1>7 DEF Yield
  <2>2. QED
    BY <1>1, <1>2, <1>5, <1>6, <2>1 DEF LedgerInv, QueueInv, OneEach, Apart, Holds
<1>8. CASE broker = "up"
  <2> DEFINE last == Len(dispatches) + 1
  <2>1. /\ DOMAIN dispatches = 1..Len(dispatches)
        /\ DOMAIN dispatches' = 1..last
        /\ \A k \in DOMAIN dispatches : dispatches'[k] = dispatches[k]
        /\ dispatches'[last] = requests
    <3>1. dispatches' = Append(dispatches, requests) /\ dispatches \in Seq(Seq(Requests))
      BY <1>1, <1>8 DEF Yield, LedgerInv, GuestInv, ControlInv, TypeOK
    <3>2. QED
      BY <3>1
  <2>2. Len(dispatches) \in Nat
    BY DEF LedgerInv, GuestInv, ControlInv, TypeOK
  <2>3. \A k \in DOMAIN dispatches' : k \in DOMAIN dispatches \/ k = last
    BY <2>1, <2>2
  <2> HIDE DEF last
  <2>4. /\ Apart(batch, requests)
        /\ \A k \in DOMAIN dispatches : Apart(dispatches[k], requests) /\ Apart(requests, dispatches[k])
    BY DEF LedgerInv, FreshInv, New, Asked, Apart
  <2>5. \A k \in DOMAIN dispatches' : OneEach(dispatches'[k]) /\ Apart(batch, dispatches'[k])
    BY <2>1, <2>3, <2>4 DEF LedgerInv, QueueInv, FreshInv
  <2>6. \A k, l \in DOMAIN dispatches' : k # l => Apart(dispatches'[k], dispatches'[l])
    BY <2>1, <2>3, <2>4 DEF LedgerInv, QueueInv
  <2>7. QED
    BY <1>1, <1>2, <1>5, <1>6, <2>5, <2>6 DEF LedgerInv, QueueInv, OneEach, Apart, Holds
<1>9. QED
  BY <1>7, <1>8, <1>5

LEMMA QueueUntouched ==
    ASSUME QueueInv, UNCHANGED <<batch, dispatches, seen, jobs>>, promises \subseteq promises'
    PROVE  QueueInv' /\ \A i \in Ids : New(i)' <=> New(i)
  BY DEF QueueInv, New, OneEach, Apart, Holds, Asked

LEMMA BridgeLedger ==
    ASSUME LedgerInv,
           Enter \/ Exceed \/ Reject \/ TooLong
           \/ \E kind \in {"granted", "denied"} : Register(kind)
    PROVE  QueueInv' /\ FreshInv'
<1>1. UNCHANGED <<batch, dispatches, seen, jobs>> /\ promises \subseteq promises'
  BY DEF Enter, Exceed, Reject, TooLong, Register, Leaving, Runs, vars, brokerVars
<1>2. QueueInv' /\ \A i \in Ids : New(i)' <=> New(i)
  BY <1>1, QueueUntouched DEF LedgerInv
<1>3. nested \in Seq(Ids) /\ count \in Nat /\ Ids \subseteq Nat /\ QueueInv /\ FreshInv
  BY Calls DEF LedgerInv, GuestInv, BridgeType
<1>4. \A n \in DOMAIN nested : nested[n] \in Ids
  BY <1>3
<1>5. CASE Enter
  <2>1. /\ count' = count + 1 /\ nested' = Append(nested, count + 1)
        /\ UNCHANGED <<promises, requests>> /\ count + 1 \in Ids
    BY <1>5, Calls, <1>3 DEF Enter, HasTurn
  <2>2. /\ DOMAIN nested = 1..Len(nested) /\ Len(nested) \in Nat
        /\ DOMAIN nested' = 1..(Len(nested) + 1)
        /\ \A n \in DOMAIN nested : nested'[n] = nested[n]
        /\ nested'[Len(nested) + 1] = count + 1
    BY <1>3, <2>1
  <2>3. \A n \in DOMAIN nested' : n \in DOMAIN nested \/ n = Len(nested) + 1
    BY <2>2
  <2>4. New(count + 1) /\ count + 1 \notin promises
    BY <1>3, <2>1 DEF FreshInv
  <2>5. \A n \in DOMAIN nested : nested[n] # count + 1 /\ nested[n] <= count + 1
    <3> SUFFICES ASSUME NEW n \in DOMAIN nested
                 PROVE  nested[n] # count + 1 /\ nested[n] <= count + 1
      OBVIOUS
    <3>1. nested[n] \in Nat /\ count \in Nat /\ nested[n] <= count
      BY <1>3, <1>4 DEF FreshInv
    <3>2. QED
      BY <3>1
  <2>6. \A m, n \in DOMAIN nested' : nested'[m] = nested'[n] => m = n
    BY <1>3, <2>2, <2>3, <2>5 DEF FreshInv
  <2>7. \A n \in DOMAIN nested' : nested'[n] \in Ids /\ New(nested'[n]) /\ nested'[n] <= count'
                                  /\ nested'[n] \notin promises'
    BY <1>3, <1>4, <2>1, <2>2, <2>3, <2>4, <2>5 DEF FreshInv
  <2>8. \A i \in Ids : i > count' => New(i) /\ i \notin promises'
    BY <1>3, <2>1 DEF FreshInv
  <2>9. \A i \in Ids : Holds(requests, i)' <=> Holds(requests, i)
    BY <2>1 DEF Holds
  <2>10. QED
    BY <1>2, <1>3, <2>1, <2>6, <2>7, <2>8, <2>9 DEF FreshInv, OneEach, New, Asked
<1>6. CASE Exceed
  <2>1. count' = count + 1 /\ UNCHANGED <<nested, promises, requests>>
    BY <1>6 DEF Exceed
  <2>2. \A n \in DOMAIN nested : nested[n] <= count'
    <3> SUFFICES ASSUME NEW n \in DOMAIN nested PROVE nested[n] <= count'
      OBVIOUS
    <3>1. nested[n] \in Nat /\ count \in Nat /\ nested[n] <= count
      BY <1>3, <1>4 DEF FreshInv
    <3>2. QED
      BY <2>1, <3>1
  <2>3. \A i \in Ids : i > count' => i > count
    BY <1>3, <2>1
  <2>4. \A i \in Ids : Holds(requests, i)' <=> Holds(requests, i)
    BY <2>1 DEF Holds
  <2>5. QED
    BY <1>2, <1>3, <1>4, <2>1, <2>2, <2>3, <2>4 DEF FreshInv, OneEach
<1>7. CASE Reject \/ TooLong \/ \E kind \in {"granted", "denied"} : Register(kind)
  <2>1. nested # <<>> /\ nested' = SubSeq(nested, 1, Len(nested) - 1) /\ count' = count
    BY <1>7 DEF Reject, TooLong, Register, Leaving
  <2>2. /\ Len(nested) \in Nat \ {0} /\ Len(nested') = Len(nested) - 1
        /\ nested' \in Seq(Ids)
        /\ \A n \in 1..(Len(nested) - 1) : nested'[n] = nested[n]
        /\ Innermost \in Ids
    BY <1>3, <2>1, Stacks DEF Innermost
  <2>3. /\ DOMAIN nested = 1..Len(nested)
        /\ DOMAIN nested' = 1..(Len(nested) - 1)
    BY <1>3, <2>2
  <2>4. /\ \A n \in DOMAIN nested' : n \in DOMAIN nested /\ nested'[n] = nested[n] /\ n # Len(nested)
        /\ Len(nested) \in DOMAIN nested
    BY <2>2, <2>3
  <2>5. \A m, n \in DOMAIN nested' : nested'[m] = nested'[n] => m = n
    BY <1>3, <2>4 DEF FreshInv
  <2>6. \A n \in DOMAIN nested' : nested'[n] # Innermost
    BY <1>3, <2>4 DEF FreshInv, Innermost
  <2>7. New(Innermost) /\ Innermost <= count /\ Innermost \notin promises
    BY <1>3, <2>4 DEF FreshInv, Innermost
  <2>8. CASE Reject \/ TooLong
    <3>1. UNCHANGED <<promises, requests>>
      BY <2>8 DEF Reject, TooLong
    <3>2. \A i \in Ids : Holds(requests, i)' <=> Holds(requests, i)
      BY <3>1 DEF Holds
    <3>3. QED
      BY <1>2, <1>3, <1>4, <2>1, <2>4, <2>5, <3>1, <3>2 DEF FreshInv, OneEach
  <2>9. ASSUME NEW kind \in {"granted", "denied"}, Register(kind) PROVE FreshInv'
    <3> DEFINE r == [id |-> Innermost, kind |-> kind]
    <3>1. promises' = promises \cup {Innermost} /\ requests' = Append(requests, r)
      BY <2>9 DEF Register
    <3>2. r \in BridgeRequests /\ r.id = Innermost /\ requests \in Seq(BridgeRequests)
      BY <2>2 DEF BridgeRequests, LedgerInv, GuestInv, BridgeType
    <3> HIDE DEF r
    <3>3. \A i \in Ids : Holds(requests, i)' <=> Holds(requests, i) \/ i = Innermost
      <4>1. \A i : Holds(Append(requests, r), i) <=> Holds(requests, i) \/ i = Innermost
        BY <3>2, Registered
      <4>2. \A i : Holds(requests, i)' <=> Holds(requests', i)
        BY DEF Holds
      <4>3. QED
        BY <3>1, <4>1, <4>2
    <3>4. ~Holds(requests, Innermost)
      BY <1>3, <2>2, <2>7 DEF FreshInv
    <3>5. OneEach(requests')
      <4>1. /\ DOMAIN requests = 1..Len(requests) /\ Len(requests) \in Nat
            /\ DOMAIN requests' = 1..(Len(requests) + 1)
            /\ \A n \in DOMAIN requests : requests'[n] = requests[n]
            /\ requests'[Len(requests) + 1] = r
        BY <3>1, <3>2
      <4>2. \A n \in DOMAIN requests' : n \in DOMAIN requests \/ n = Len(requests) + 1
        BY <4>1
      <4>3. \A n \in DOMAIN requests : requests[n].id # Innermost
        BY <3>4 DEF Holds
      <4>4. QED
        BY <1>3, <3>2, <4>1, <4>2, <4>3 DEF FreshInv, OneEach
    <3>6. \A n \in DOMAIN nested' :
              nested'[n] \in Ids /\ New(nested'[n]) /\ nested'[n] <= count /\ nested'[n] \notin promises'
      BY <1>3, <1>4, <2>4, <2>6, <3>1 DEF FreshInv
    <3>7. \A i \in Ids : i > count => i # Innermost
      BY <1>3, <2>2, <2>7
    <3>8. QED
      BY <1>2, <1>3, <2>1, <2>2, <2>5, <2>7, <3>1, <3>3, <3>5, <3>6, <3>7 DEF FreshInv, OneEach
  <2>10. QED
    BY <1>7, <1>2, <2>8, <2>9
<1>8. QED
  BY <1>2, <1>5, <1>6, <1>7

LEMMA ResumeLedger ==
    ASSUME LedgerInv, Resume
    PROVE  QueueInv' /\ FreshInv'
<1> DEFINE i == Head(mail).id
<1>1. /\ Active /\ driver = "waiting" /\ mail # <<>> /\ Head(mail).kind = "reply"
      /\ promises' = promises \ {i}
      /\ UNCHANGED <<batch, dispatches, seen, jobs, count, nested, requests>>
      /\ mail' = Tail(mail)
  BY DEF Resume, TakeReply, Active, brokerVars
<1>2. i \in Ids /\ Replied(i)
  BY <1>1, MailTaken DEF LedgerInv, GuestInv, ControlInv, TypeOK, RequestsInv
<1> HIDE DEF i
<1>3. i \in seen /\ i \notin jobs
  BY <1>1, <1>2 DEF LedgerInv, GuestInv, RequestsInv, RequestInv
<1>4. requests = <<>>
  BY <1>1 DEF LedgerInv, GuestInv, PromiseInv
<1>5. \A j \in Ids : /\ Asked(j)' <=> Asked(j)
                     /\ New(j)' <=> New(j)
                     /\ Holds(requests, j)' <=> Holds(requests, j)
  BY <1>1 DEF Asked, New, Holds
<1>6. QueueInv'
  BY <1>1, <1>3, <1>5 DEF LedgerInv, QueueInv, OneEach, Apart, Holds
<1>7. \A n \in DOMAIN nested : nested[n] \in Ids
  BY DEF LedgerInv, GuestInv, BridgeType
<1>8. \A j \in Ids : ~Holds(requests, j)
  BY <1>4 DEF Holds
<1>9. FreshInv'
  BY <1>1, <1>5, <1>7, <1>8 DEF LedgerInv, FreshInv, OneEach
<1>10. QED
  BY <1>6, <1>9

LEMMA LedgerStep ==
    ASSUME LedgerInv, [ExecutionNext]_allVars
    PROVE  QueueInv' /\ FreshInv'
<1>1. CASE Enter \/ Exceed \/ Reject \/ TooLong \/ \E kind \in {"granted", "denied"} : Register(kind)
  BY <1>1, BridgeLedger
<1>2. CASE HandOver
  BY <1>2, HandedOver
<1>3. CASE Resume
  BY <1>3, ResumeLedger
<1>4. CASE EndExceeded \/ EndSettled \/ EndInterrupted \/ ~GuestStep
  <2>1. UNCHANGED bridgeVars
    BY <1>4, BridgeKept DEF EndExceeded, EndSettled, EndInterrupted, End
  <2>2. Others \/ UNCHANGED vars
    BY <1>4, OtherSteps DEF EndExceeded, EndSettled, EndInterrupted, End, Others, WorkerStep,
                            GuestStep
  <2>3. QueueKept \/ QueueDropped \/ QueueMoves \/ QueueTakes
    BY <2>2, QueueSteps DEF LedgerInv, GuestInv
  <2>4. \A i \in Ids : New(i) => New(i)'
    BY <2>3, NewKept DEF LedgerInv, GuestInv
  <2>5. FreshInv'
    <3>1. \A n \in DOMAIN nested : nested[n] \in Ids
      BY DEF LedgerInv, GuestInv, BridgeType
    <3>2. QED
      BY <2>1, <2>4, <3>1 DEF bridgeVars, LedgerInv, FreshInv, OneEach, Holds
  <2>6. QueueInv'
    <3>1. CASE QueueKept
      BY <2>1, <3>1 DEF bridgeVars, QueueKept, LedgerInv, QueueInv, OneEach, Apart, Holds, Asked
    <3>2. CASE QueueDropped
      BY <2>1, <3>2 DEF bridgeVars, QueueDropped, LedgerInv, QueueInv, OneEach, Asked, Holds
    <3>3. CASE QueueMoves
      BY <2>1, <3>3, QueueMoved DEF bridgeVars, LedgerInv, GuestInv
    <3>4. CASE QueueTakes
      BY <2>1, <3>4, QueueTaken DEF bridgeVars, LedgerInv, GuestInv
    <3>5. QED
      BY <2>3, <3>1, <3>2, <3>3, <3>4
  <2>7. QED
    BY <2>5, <2>6
<1>5. QED
  BY <1>1, <1>2, <1>3, <1>4 DEF GuestStep

LEMMA LedgersAgree == LedgerInv => BrokerAcceptsBridge
<1> SUFFICES ASSUME LedgerInv, Cardinality(promises) <= MaxConcurrent
             PROVE  /\ \A n \in DOMAIN dispatches : Len(dispatches[n]) <= MaxConcurrent
                    /\ batch # <<>> => Admitted(Head(batch).id)
  BY DEF BrokerAcceptsBridge
<1>1. /\ dispatches \in Seq(Seq(Requests)) /\ batch \in Seq(Requests)
      /\ seen \subseteq Ids /\ jobs \subseteq seen /\ promises \subseteq Ids
      /\ QueueInv
  BY DEF LedgerInv, GuestInv, ControlInv, TypeOK, BridgeType
<1>2. IsFiniteSet(Ids) /\ Cardinality(Ids) = MaxCalls
  BY Calls, FS_Interval
<1>3. IsFiniteSet(promises) /\ Cardinality(promises) \in Nat /\ MaxConcurrent \in Nat
  BY <1>1, <1>2, FS_Subset, FS_CardinalityType, CallbacksAssumption
<1>4. ASSUME NEW n \in DOMAIN dispatches PROVE Len(dispatches[n]) <= MaxConcurrent
  <2> DEFINE d == dispatches[n]
             ids == [k \in 1..Len(d) |-> d[k].id]
  <2>1. d \in Seq(Requests) /\ OneEach(d)
    BY <1>1 DEF QueueInv
  <2>2. \A i \in Ids : Holds(d, i) => i \in promises
    BY <1>1 DEF QueueInv, Asked
  <2> HIDE DEF d
  <2>3. DOMAIN d = 1..Len(d) /\ Len(d) \in Nat /\ \A k \in 1..Len(d) : d[k] \in Requests
    BY <2>1
  <2>4. \A k \in 1..Len(d) : d[k].id \in promises
    BY <2>2, <2>3 DEF Holds, Requests
  <2>5. ids \in Injection(1..Len(d), promises)
    BY <2>1, <2>3, <2>4 DEF Injection, IsInjective, OneEach
  <2>6. Cardinality(1..Len(d)) <= Cardinality(promises)
    BY <1>3, <2>5, FS_Injection
  <2>7. Cardinality(1..Len(d)) = Len(d)
    <3>1. 1 \in Int /\ Len(d) \in Int
      BY <2>3
    <3>2. Cardinality(1..Len(d)) = IF 1 > Len(d) THEN 0 ELSE Len(d) - 1 + 1
      BY <3>1, FS_Interval
    <3>3. QED
      BY <2>3, <3>2
  <2>8. QED
    BY <1>3, <2>3, <2>6, <2>7 DEF d
<1>5. ASSUME batch # <<>> PROVE Admitted(Head(batch).id)
  <2> DEFINE i == Head(batch).id
  <2>1. i \in Ids /\ Holds(batch, i)
    <3>1. 1 \in DOMAIN batch /\ Head(batch) = batch[1]
      BY <1>1, <1>5
    <3>2. QED
      BY <1>1, <1>5, <3>1, Frames DEF Holds
  <2> HIDE DEF i
  <2>2. i \notin seen /\ i \in promises /\ i \notin jobs /\ jobs \subseteq promises
    BY <1>1, <2>1 DEF QueueInv, Asked
  <2>3. IsFiniteSet(seen) /\ IsFiniteSet(jobs)
    BY <1>1, <1>2, FS_Subset
  <2>4. /\ Cardinality(seen \cup {i}) = Cardinality(seen) + 1
        /\ Cardinality(jobs \cup {i}) = Cardinality(jobs) + 1
        /\ Cardinality(seen) \in Nat /\ Cardinality(jobs) \in Nat
    BY <2>2, <2>3, FS_AddElement, FS_CardinalityType
  <2>5. seen \cup {i} \in SUBSET Ids /\ jobs \cup {i} \in SUBSET promises
    BY <1>1, <2>1, <2>2
  <2>6. Cardinality(seen \cup {i}) <= MaxCalls /\ Cardinality(jobs \cup {i}) <= Cardinality(promises)
    BY <1>2, <1>3, <2>5, FS_Subset
  <2>7. Cardinality(seen) < MaxCalls /\ Cardinality(jobs) < MaxConcurrent
    BY <1>3, <2>4, <2>6, Calls
  <2>8. QED
    BY <2>2, <2>7 DEF Admitted, i
<1>6. QED
  BY <1>4, <1>5

\* What the bridge lets through, by its own count of calls and of promises,
\* the broker admits by its own.
THEOREM LedgerTheorem == ExecutionSpec => []BrokerAcceptsBridge
<1>1. ExecutionInit => LedgerInv
  <2> SUFFICES ASSUME ExecutionInit PROVE LedgerInv
    OBVIOUS
  <2>1. QueueInv
    BY DEF ExecutionInit, Init, BridgeInit, QueueInv, OneEach, Asked, Holds
  <2>2. FreshInv
    BY DEF ExecutionInit, Init, BridgeInit, FreshInv, OneEach, New, Asked, Holds
  <2>3. QED
    BY <2>1, <2>2, GuestInitially DEF LedgerInv
<1>2. LedgerInv /\ [ExecutionNext]_allVars => LedgerInv'
  BY LedgerStep, BrokerParts, TypeStep, PromiseStep DEF LedgerInv, GuestInv
<1>3. QED
  BY <1>1, <1>2, LedgersAgree, PTL DEF ExecutionSpec

\* The broker of a program's run keeps what it promises any guest: no callback
\* outlives the run, those alive and those started are within the budgets,
\* each is bounded, and each request the bridge hands over is accounted for.
THEOREM BrokerTheorem ==
    ExecutionSpec => /\ [](/\ NoCallbackOutlivesRun
                           /\ CallbackIsBounded
                           /\ RequestsAccounted)
                     /\ WithinBudget
<1>1. ExecutionInit => BudgetInv
  BY InitInv DEF ExecutionInit, IInv
<1>2. GuestInv /\ BudgetInv /\ [ExecutionNext]_allVars => BudgetInv'
  <2> SUFFICES ASSUME GuestInv, BudgetInv, [ExecutionNext]_allVars PROVE BudgetInv'
    OBVIOUS
  <2>1. CASE HandOver
    BY <2>1 DEF HandOver, Yield, brokerVars, BudgetInv
  <2>2. CASE ~HandOver
    <3>1. [Next]_vars
      BY <2>2, OtherSteps DEF Others, Next
    <3>2. QED
      BY <3>1, BudgetInvStep DEF GuestInv
  <2>3. QED
    BY <2>1, <2>2
<1>3. GuestInv /\ BudgetInv => /\ NoCallbackOutlivesRun
                               /\ CountsWithinBudget
                               /\ CallbackIsBounded
                               /\ RequestsAccounted
  BY Promised, Accounted DEF GuestInv, IInv
<1>4. GuestInv /\ [ExecutionNext]_allVars => [StartsNoneTwice]_vars
  <2> SUFFICES ASSUME GuestInv, [ExecutionNext]_allVars PROVE [StartsNoneTwice]_vars
    OBVIOUS
  <2>1. CASE HandOver
    <3>1. UNCHANGED child
      BY <2>1 DEF HandOver, Yield
    <3>2. QED
      BY <3>1 DEF StartsNoneTwice, GuestInv, ControlInv, TypeOK
  <2>2. CASE ~HandOver
    <3>1. [Next]_vars
      BY <2>2, OtherSteps DEF Others, Next
    <3>2. QED
      BY <3>1, StartedOnce DEF GuestInv
  <2>3. QED
    BY <2>1, <2>2
<1>5. QED
  BY <1>1, <1>2, <1>3, <1>4, GuestInvariance, PTL DEF ExecutionSpec, WithinBudget
=============================================================================
