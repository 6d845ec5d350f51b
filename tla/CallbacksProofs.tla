--------------------------- MODULE CallbacksProofs ---------------------------
(***************************************************************************)
(* Proofs about Callbacks.tla, for every set of ids, every budget and      *)
(* every guest.                                                            *)
(***************************************************************************)
EXTENDS Callbacks, FiniteSetTheorems, TLAPS

-----------------------------------------------------------------------------
(* The inductive invariant.                                                *)

\* What the broker knows of a callback process: each one that lives has a
\* job, its DOWN comes after its death, and while the broker listens its
\* timer is armed or has fired.
ChildInv(i) ==
    /\ child[i] # "none" => i \in seen
    /\ Alive(i) => i \in jobs
    /\ "down" \in inbox[i] => child[i] = "dead"
    /\ Alive(i) => IF broker = "up"
                   THEN i \in timers \/ "timeout" \in inbox[i]
                   ELSE i \in doomed

\* A run is finished after its broker, and the broker after its jobs.
EndInv ==
    /\ broker # "up" => timers = {}
    /\ broker = "gone" => jobs = {}
    /\ driver = "finished" => broker \in {"gone", "killed"}

BudgetInv ==
    /\ IsFiniteSet(seen)
    /\ Cardinality(seen) <= MaxCalls
    /\ Cardinality(jobs) <= MaxConcurrent

ControlInv == TypeOK /\ EndInv /\ \A i \in Ids : ChildInv(i)

IInv == ControlInv /\ BudgetInv

-----------------------------------------------------------------------------
\* The broker's letters are letters, and a mailbox of them stays one.
LEMMA Mailbox ==
    /\ \A i \in Ids : [kind |-> "reply", id |-> i] \in Letters
    /\ [kind |-> "error"] \in Letters
    /\ [kind |-> "down"] \in Letters
    /\ \A m \in Seq(Letters), l \in Letters : Append(m, l) \in Seq(Letters)
    /\ \A m \in Seq(Letters) : m # <<>> => Head(m) \in Letters /\ Tail(m) \in Seq(Letters)
    /\ \A l \in Letters : l.kind = "reply" => l.id \in Ids
    /\ <<>> \in Seq(Letters)
<1>1. \A i \in Ids : [kind |-> "reply", id |-> i] \in Letters
  BY DEF Letters
<1>2. [kind |-> "error"] \in Letters /\ [kind |-> "down"] \in Letters
  BY DEF Letters
<1>3. \A l \in Letters : l.kind = "reply" => l.id \in Ids
  BY DEF Letters
<1>4. \A m \in Seq(Letters), l \in Letters : Append(m, l) \in Seq(Letters)
  OBVIOUS
<1>5. \A m \in Seq(Letters) : m # <<>> => Head(m) \in Letters /\ Tail(m) \in Seq(Letters)
  OBVIOUS
<1>6. QED
  BY <1>1, <1>2, <1>3, <1>4, <1>5

\* Batches are taken apart one request at a time, and queued whole.
LEMMA Frames ==
    /\ \A b \in Seq(Requests) : b # <<>> => Head(b) \in Requests /\ Tail(b) \in Seq(Requests)
    /\ \A d \in Seq(Seq(Requests)) :
          d # <<>> => Head(d) \in Seq(Requests) /\ Tail(d) \in Seq(Seq(Requests))
    /\ \A d \in Seq(Seq(Requests)), b \in Seq(Requests) : Append(d, b) \in Seq(Seq(Requests))
    /\ \A r \in Requests : r.id \in Ids
    /\ <<>> \in Seq(Requests)
    /\ <<>> \in Seq(Seq(Requests))
<1>1. \A b \in Seq(Requests) : b # <<>> => Head(b) \in Requests /\ Tail(b) \in Seq(Requests)
  OBVIOUS
<1>2. \A d \in Seq(Seq(Requests)) :
          d # <<>> => Head(d) \in Seq(Requests) /\ Tail(d) \in Seq(Seq(Requests))
  OBVIOUS
<1>3. \A d \in Seq(Seq(Requests)), b \in Seq(Requests) : Append(d, b) \in Seq(Seq(Requests))
  OBVIOUS
<1>4. \A r \in Requests : r.id \in Ids
  BY DEF Requests
<1>5. QED
  BY <1>1, <1>2, <1>3, <1>4

LEMMA TellMail ==
    ASSUME mail \in Seq(Letters), NEW l \in Letters, Tell(l)
    PROVE  mail' \in Seq(Letters)
  BY Mailbox DEF Tell

\* The initial state satisfies the invariant.
LEMMA InitInv == Init => IInv
<1> SUFFICES ASSUME Init PROVE IInv
  OBVIOUS
<1>1. TypeOK
  BY Mailbox, Frames DEF Init, TypeOK, Results, Sent
<1>2. EndInv /\ \A i \in Ids : ChildInv(i)
  BY DEF Init, EndInv, ChildInv, Alive
<1>3. BudgetInv
  BY FS_EmptySet, CallbacksAssumption DEF Init, BudgetInv
<1>4. QED
  BY <1>1, <1>2, <1>3 DEF IInv, ControlInv

-----------------------------------------------------------------------------
(* The broker's loop ends.                                                 *)

LEMMA EndLoopStep ==
    ASSUME ControlInv, NEW remaining, remaining \subseteq jobs,
           NEW state, state \in {"cleaning", "killed"},
           broker \in {"up", "cleaning"},
           \A i \in jobs \ remaining : ~Alive(i),
           EndLoop(state, remaining), mail' \in Seq(Letters)
    PROVE  ControlInv'
<1> USE DEF ControlInv, TypeOK, EndLoop, workerVars
<1>1. TypeOK'
  BY Frames DEF Results, Sent
<1>2. EndInv'
  BY DEF EndInv
<1>3. \A i \in Ids : ChildInv(i)'
  BY DEF ChildInv, Alive
<1>4. QED
  BY <1>1, <1>2, <1>3

LEMMA FailStep ==
    ASSUME ControlInv, NEW remaining, remaining \subseteq jobs, broker = "up",
           \A i \in jobs \ remaining : ~Alive(i),
           Fail(remaining)
    PROVE  ControlInv'
<1>1. EndLoop("cleaning", remaining) /\ Tell([kind |-> "error"])
  BY DEF Fail, Cleanup
<1>2. mail' \in Seq(Letters)
  BY <1>1, Mailbox, TellMail DEF ControlInv, TypeOK
<1>3. QED
  BY <1>1, <1>2, EndLoopStep

LEMMA ChildMovesStep ==
    ASSUME ControlInv, NEW i \in Ids, NEW old, NEW new, NEW messages,
           old \in {"spawned", "running", "reported"},
           new \in {"running", "reported", "dead"},
           messages \subseteq Sent \cup {"down"},
           "down" \in messages => new = "dead",
           ChildMoves(i, old, new, messages)
    PROVE  ControlInv'
<1> USE DEF ControlInv, TypeOK, ChildMoves, workerVars, brokerVars
<1>1. TypeOK'
  BY DEF Sent, Results
<1>2. EndInv'
  BY DEF EndInv
<1>3. \A j \in Ids : ChildInv(j)'
  BY DEF ChildInv, Alive
<1>4. QED
  BY <1>1, <1>2, <1>3

LEMMA YieldControl ==
    ASSUME ControlInv, NEW b \in Seq(Requests), Yield(b)
    PROVE  ControlInv'
<1> USE DEF ControlInv, TypeOK, EndInv, ChildInv, Alive, workerVars, brokerVars
<1>1. \A n \in DOMAIN b : b[n] \in Requests
  OBVIOUS
<1>2. {b[n].id : n \in DOMAIN b} \subseteq Ids
  BY <1>1, Frames
<1>3. dispatches' \in Seq(Seq(Requests))
  BY Frames DEF Yield
<1>4. QED
  BY <1>2, <1>3 DEF Yield

\* Every step preserves the types and what the broker knows of each child.
LEMMA ControlInvStep == ControlInv /\ [Next]_vars => ControlInv'
<1> SUFFICES ASSUME ControlInv, [Next]_vars PROVE ControlInv'
  OBVIOUS
<1> USE CallbacksAssumption
    DEF ControlInv, TypeOK, EndInv, ChildInv, Alive, workerVars, brokerVars
<1>1. ASSUME NEW b \in Batches, Yield(b) PROVE ControlInv'
  <2>1. b \in Seq(Requests)
    OBVIOUS
  <2>2. QED
    BY <1>1, <2>1, YieldControl
<1>2. ASSUME Settle \/ TakeFailure \/ TakeCancel \/ Die PROVE ControlInv'
  BY <1>2, Mailbox DEF Settle, TakeFailure, TakeCancel, Die, Leave
<1>3. ASSUME TakeReply PROVE ControlInv'
  BY <1>3, Mailbox DEF TakeReply
<1>4. ASSUME Cancel \/ Finish PROVE ControlInv'
  BY <1>4 DEF Cancel, Finish
<1>5. ASSUME ReceiveDispatch PROVE ControlInv'
  BY <1>5, Frames DEF ReceiveDispatch
<1>6. ASSUME RefuseDispatch PROVE ControlInv'
  BY <1>6, FailStep DEF RefuseDispatch, Listening
<1>7. ASSUME StartCallback PROVE ControlInv'
  <2> DEFINE i == Head(batch).id
  <2>1. i \in Ids /\ batch' \in Seq(Requests)
    BY <1>7, Frames DEF StartCallback, NextRequest
  <2>2. broker = "up" /\ i \notin seen
    BY <1>7 DEF StartCallback, NextRequest, Admitted
  <2>3. /\ seen' = seen \cup {i}
        /\ jobs' = jobs \cup {i}
        /\ timers' = timers \cup {i}
        /\ child' = [child EXCEPT ![i] = "spawned"]
        /\ UNCHANGED <<workerVars, mail, dispatches, signals, broker, got, inbox,
                       doomed, late>>
    BY <1>7 DEF StartCallback
  <2> HIDE DEF i
  <2>4. TypeOK'
    BY <2>1, <2>3
  <2>5. \A j \in Ids : ChildInv(j)'
    BY <2>1, <2>2, <2>3
  <2>6. QED
    BY <2>2, <2>3, <2>4, <2>5
<1>8. ASSUME DenyRequest PROVE ControlInv'
  <2>1. Head(batch).id \in Ids /\ batch' \in Seq(Requests)
    BY <1>8, Frames DEF DenyRequest, NextRequest
  <2>2. mail' \in Seq(Letters)
    BY <1>8, <2>1, Mailbox, TellMail DEF DenyRequest, Reply
  <2>3. QED
    BY <1>8, <2>1, <2>2 DEF DenyRequest
<1>9. ASSUME DenialTooLong \/ RefuseRequest PROVE ControlInv'
  BY <1>9, FailStep DEF DenialTooLong, RefuseRequest, NextRequest
<1>10. ASSUME ReceiveStop PROVE ControlInv'
  BY <1>10, EndLoopStep DEF ReceiveStop, Cleanup, Listening
<1>11. ASSUME EndCleanup PROVE ControlInv'
  <2>1. mail' \in Seq(Letters)
    BY <1>11, Mailbox, TellMail DEF EndCleanup
  <2>2. QED
    BY <1>11, <2>1 DEF EndCleanup
<1>12. ASSUME BrokerKilled PROVE ControlInv'
  <2>1. mail' \in Seq(Letters)
    BY <1>12, Mailbox, TellMail DEF BrokerKilled
  <2>2. QED
    BY <1>12, <2>1, EndLoopStep DEF BrokerKilled
<1>13. ASSUME NEW i \in Ids, ReceiveResult(i) PROVE ControlInv'
  BY <1>13 DEF ReceiveResult, Results, Sent
<1>14. ASSUME NEW i \in Ids, ReceiveDown(i) PROVE ControlInv'
  <2>1. child[i] = "dead" /\ broker = "up"
    BY <1>14 DEF ReceiveDown, ChildEnded, Listening
  <2>2. mail' \in Seq(Letters)
    BY <1>14, Mailbox, TellMail DEF ReceiveDown, Reply
  <2>3. TypeOK'
    BY <1>14, <2>2 DEF ReceiveDown
  <2>4. \A j \in Ids : ChildInv(j)'
    BY <1>14, <2>1 DEF ReceiveDown
  <2>5. QED
    BY <1>14, <2>1, <2>3, <2>4 DEF ReceiveDown
<1>15. ASSUME NEW i \in Ids, ReceiveFatal(i) PROVE ControlInv'
  <2>1. child[i] = "dead" /\ broker = "up"
    BY <1>15 DEF ReceiveFatal, ChildEnded, Listening
  <2>2. QED
    BY <1>15, <2>1, FailStep DEF ReceiveFatal
<1>16. ASSUME NEW i \in Ids, ReceiveTimeout(i) PROVE ControlInv'
  BY <1>16, FailStep DEF ReceiveTimeout, Listening
<1>17. ASSUME NEW i \in Ids, DropTimeout(i) PROVE ControlInv'
  BY <1>17 DEF DropTimeout
<1>18. ASSUME NEW i \in Ids, ChildStep(i) PROVE ControlInv'
  <2>1. CASE ChildStarts(i)
    <3>1. ChildMoves(i, "spawned", "running", {})
      BY <2>1 DEF ChildStarts
    <3>2. QED
      BY <3>1, ChildMovesStep
  <2>2. CASE ChildTooLate(i)
    <3>1. ChildMoves(i, "spawned", "reported", {"too_late"})
      BY <2>2 DEF ChildTooLate
    <3>2. {"too_late"} \subseteq Sent \cup {"down"} /\ "down" \notin {"too_late"}
      BY DEF Sent
    <3>3. QED
      BY <3>1, <3>2, ChildMovesStep
  <2>3. CASE ChildReports(i)
    <3>1. PICK r \in Results : ChildMoves(i, "running", "reported", {r})
      BY <2>3 DEF ChildReports
    <3>2. {r} \subseteq Sent \cup {"down"} /\ "down" \notin {r}
      BY DEF Sent, Results
    <3>3. QED
      BY <3>1, <3>2, ChildMovesStep
  <2>4. ASSUME NEW old \in {"spawned", "running", "reported"},
               ChildMoves(i, old, "dead", {"down"})
        PROVE  ControlInv'
    <3>1. {"down"} \subseteq Sent \cup {"down"}
      OBVIOUS
    <3>2. QED
      BY <2>4, <3>1, ChildMovesStep
  <2>5. CASE ChildExits(i) \/ ChildCrashes(i) \/ ChildKilled(i)
    BY <2>4, <2>5 DEF ChildExits, ChildCrashes, ChildKilled
  <2>6. QED
    BY <1>18, <2>1, <2>2, <2>3, <2>4, <2>5 DEF ChildStep
<1>19. ASSUME NEW i \in Ids, TimerFires(i) PROVE ControlInv'
  BY <1>19 DEF TimerFires
<1>20. ASSUME RunExpires \/ \E i \in Ids : CallbackExpires(i) PROVE ControlInv'
  BY <1>20 DEF RunExpires, CallbackExpires
<1>21. CASE UNCHANGED vars
  BY <1>21 DEF vars
<1>22. QED
  BY <1>1, <1>2, <1>3, <1>4, <1>5, <1>6, <1>7, <1>8, <1>9, <1>10, <1>11, <1>12,
     <1>13, <1>14, <1>15, <1>16, <1>17, <1>18, <1>19, <1>20, <1>21
     DEF Next, WorkerStep, BrokerStep

-----------------------------------------------------------------------------
(* The budgets.                                                            *)

\* Jobs that end make room, and an admitted request had it.
LEMMA BudgetInvStep == ControlInv /\ BudgetInv /\ [Next]_vars => BudgetInv'
<1> SUFFICES ASSUME ControlInv, BudgetInv, [Next]_vars PROVE BudgetInv'
  OBVIOUS
<1> USE CallbacksAssumption
<1>1. IsFiniteSet(jobs) /\ Cardinality(jobs) \in Nat /\ Cardinality(seen) \in Nat
  BY FS_Subset, FS_CardinalityType DEF ControlInv, TypeOK, BudgetInv
<1>2. ASSUME seen' = seen, jobs' \subseteq jobs PROVE BudgetInv'
  <2>1. IsFiniteSet(jobs') /\ Cardinality(jobs') <= Cardinality(jobs)
    BY <1>1, <1>2, FS_Subset
  <2>2. Cardinality(jobs') \in Nat
    BY <2>1, FS_CardinalityType
  <2>3. QED
    BY <1>1, <1>2, <2>1, <2>2 DEF BudgetInv
<1>3. ASSUME NextRequest("granted") \/ NextRequest("denied"),
             seen' = seen \cup {Head(batch).id},
             jobs' = jobs \cup {Head(batch).id} \/ jobs' = jobs
      PROVE  BudgetInv'
  <2> DEFINE i == Head(batch).id
  <2>1. /\ i \notin seen
        /\ Cardinality(seen) < MaxCalls
        /\ Cardinality(jobs) < MaxConcurrent
    BY <1>3 DEF NextRequest, Admitted
  <2> HIDE DEF i
  <2>2. IsFiniteSet(seen \cup {i}) /\ Cardinality(seen \cup {i}) = Cardinality(seen) + 1
    BY <2>1, FS_AddElement DEF BudgetInv
  <2>3. i \notin jobs
    BY <2>1 DEF ControlInv, TypeOK
  <2>4. Cardinality(jobs \cup {i}) = Cardinality(jobs) + 1
    BY <1>1, <2>3, FS_AddElement
  <2>5. seen' = seen \cup {i} /\ (jobs' = jobs \cup {i} \/ jobs' = jobs)
    BY <1>3 DEF i
  <2>6. Cardinality(seen') <= MaxCalls
    BY <1>1, <2>1, <2>2, <2>5
  <2>7. Cardinality(jobs') <= MaxConcurrent
    <3>1. CASE jobs' = jobs \cup {i}
      <4>1. Cardinality(jobs') = Cardinality(jobs) + 1
        BY <2>4, <3>1
      <4>2. QED
        BY <1>1, <2>1, <4>1
    <3>2. CASE jobs' = jobs
      BY <3>2 DEF BudgetInv
    <3>3. QED
      BY <2>5, <3>1, <3>2
  <2>8. QED
    BY <2>2, <2>5, <2>6, <2>7 DEF BudgetInv
<1>4. CASE StartCallback
  BY <1>3, <1>4 DEF StartCallback
<1>5. CASE DenyRequest
  BY <1>3, <1>5 DEF DenyRequest
<1>6. CASE \E b \in Batches : Yield(b)
  BY <1>2, <1>6 DEF Yield, brokerVars
<1>7. CASE WorkerStep
  BY <1>2, <1>7 DEF WorkerStep, Settle, TakeReply, TakeFailure, Cancel, TakeCancel,
                    Finish, Die, Leave, brokerVars
<1>8. CASE RefuseDispatch \/ DenialTooLong \/ RefuseRequest \/ ReceiveStop \/ BrokerKilled
  BY <1>2, <1>8 DEF RefuseDispatch, DenialTooLong, RefuseRequest, ReceiveStop,
                    BrokerKilled, Fail, Cleanup, EndLoop
<1>9. CASE ReceiveDispatch \/ EndCleanup
  BY <1>2, <1>9 DEF ReceiveDispatch, EndCleanup
<1>10. CASE \E i \in Ids : ReceiveResult(i) \/ ReceiveDown(i) \/ ReceiveFatal(i)
                           \/ ReceiveTimeout(i) \/ DropTimeout(i)
  BY <1>2, <1>10 DEF ReceiveResult, ReceiveDown, ReceiveFatal, ReceiveTimeout,
                     DropTimeout, Fail, Cleanup, EndLoop, brokerVars
<1>11. CASE \E i \in Ids : ChildStep(i) \/ TimerFires(i) \/ CallbackExpires(i)
  BY <1>2, <1>11 DEF ChildStep, ChildStarts, ChildTooLate, ChildReports, ChildExits,
                     ChildCrashes, ChildKilled, ChildMoves, TimerFires,
                     CallbackExpires, brokerVars
<1>12. CASE RunExpires \/ UNCHANGED vars
  BY <1>2, <1>12 DEF RunExpires, vars, brokerVars
<1>13. QED
  BY <1>4, <1>5, <1>6, <1>7, <1>8, <1>9, <1>10, <1>11, <1>12 DEF Next, BrokerStep

LEMMA Invariance == Spec => []IInv
<1>1. IInv /\ [Next]_vars => IInv'
  BY ControlInvStep, BudgetInvStep DEF IInv
<1>2. QED
  BY <1>1, InitInv, PTL DEF Spec

-----------------------------------------------------------------------------
(* The way of a request and its completion.                                *)

\* Does the worker still take what the broker sends?
Active == driver \in {"native", "waiting"}

Completion(i)  == [kind |-> "reply", id |-> i]
Replied(i) == \E m \in DOMAIN mail : mail[m] = Completion(i)
Failed     == \E m \in DOMAIN mail : mail[m].kind \in {"error", "down"}

AnsweredOnce ==
    \A m, n \in DOMAIN mail : mail[m].kind = "reply" /\ mail[n] = mail[m] => n = m

\* Is the request with this id still to be looked at by the broker?
Asked(i) ==
    \/ Holds(batch, i)
    \/ \E n \in DOMAIN dispatches : Holds(dispatches[n], i)

RequestInv(i) ==
    /\ Replied(i) => i \in pending /\ i \in seen /\ i \notin jobs
    /\ i \in jobs => i \in pending
    /\ Asked(i) /\ i \notin seen => i \in pending
    /\ i \in pending => Failed \/ i \in jobs \/ Asked(i) \/ Replied(i)

RequestsInv ==
    Active =>
        /\ signals = {}
        /\ AnsweredOnce
        /\ Failed \/ broker = "up"
        /\ \A i \in Ids : RequestInv(i)

\* A letter comes last.
LEMMA MailGrows ==
    ASSUME mail \in Seq(Letters), Active, NEW l \in Letters, Tell(l)
    PROVE  /\ \A i \in Ids : Replied(i)' <=> Replied(i) \/ l = Completion(i)
           /\ Failed' <=> Failed \/ l.kind \in {"error", "down"}
           /\ AnsweredOnce /\ (\A i \in Ids : l = Completion(i) => ~Replied(i)) => AnsweredOnce'
<1>1. mail' = Append(mail, l)
  BY DEF Tell, Active
<1>2. /\ Len(mail) \in Nat
      /\ DOMAIN mail = 1..Len(mail)
      /\ DOMAIN mail' = 1..(Len(mail) + 1)
      /\ \A m \in DOMAIN mail : mail'[m] = mail[m]
      /\ mail'[Len(mail) + 1] = l
  BY <1>1
<1>3. \A m \in DOMAIN mail' : m \in DOMAIN mail \/ m = Len(mail) + 1
  BY <1>2
<1>4. DOMAIN mail \subseteq DOMAIN mail' /\ Len(mail) + 1 \in DOMAIN mail'
  BY <1>2
<1>5. \A i \in Ids : Replied(i)' <=> Replied(i) \/ l = Completion(i)
  BY <1>2, <1>3, <1>4 DEF Replied, Completion
<1>6. Failed' <=> Failed \/ l.kind \in {"error", "down"}
  BY <1>2, <1>3, <1>4 DEF Failed
<1>7. ASSUME AnsweredOnce, \A i \in Ids : l = Completion(i) => ~Replied(i) PROVE AnsweredOnce'
  <2>1. ASSUME NEW m \in DOMAIN mail, l.kind = "reply" PROVE mail[m] # l
    <3>1. PICK i \in Ids : l = Completion(i)
      BY <2>1 DEF Letters, Completion
    <3>2. QED
      BY <1>7, <3>1 DEF Replied
  <2>2. QED
    BY <1>2, <1>3, <1>7, <2>1 DEF AnsweredOnce
<1>8. QED
  BY <1>5, <1>6, <1>7

\* The first reply is taken.
LEMMA MailTaken ==
    ASSUME mail \in Seq(Letters), mail # <<>>, Head(mail).kind = "reply",
           mail' = Tail(mail), AnsweredOnce
    PROVE  /\ Head(mail).id \in Ids
           /\ Replied(Head(mail).id)
           /\ \A i \in Ids : Replied(i)' <=> Replied(i) /\ i # Head(mail).id
           /\ Failed' <=> Failed
           /\ AnsweredOnce'
<1>1. /\ Len(mail) \in Nat \ {0}
      /\ DOMAIN mail = 1..Len(mail)
      /\ DOMAIN mail' = 1..(Len(mail) - 1)
      /\ \A m \in DOMAIN mail' : mail'[m] = mail[m + 1]
      /\ Head(mail) = mail[1]
      /\ mail[1] \in Letters
  OBVIOUS
<1>2. PICK i \in Ids : mail[1] = Completion(i)
  BY <1>1 DEF Letters, Completion
<1>3. Head(mail).id = i /\ Replied(i)
  BY <1>1, <1>2 DEF Replied, Completion
<1>4. \A m \in DOMAIN mail : m = 1 \/ (m - 1 \in DOMAIN mail' /\ mail'[m - 1] = mail[m])
  BY <1>1
<1>5. \A m \in DOMAIN mail' : m + 1 \in DOMAIN mail /\ m + 1 # 1
  BY <1>1
<1>6. \A m \in DOMAIN mail : mail[m] = Completion(i) => m = 1
  BY <1>1, <1>2 DEF AnsweredOnce, Completion
<1>7. \A j \in Ids : Replied(j)' <=> Replied(j) /\ j # i
  <2> TAKE j \in Ids
  <2>1. ASSUME Replied(j)' PROVE Replied(j) /\ j # i
    BY <1>1, <1>5, <1>6, <2>1 DEF Replied, Completion
  <2>2. ASSUME Replied(j), j # i PROVE Replied(j)'
    <3>1. PICK m \in DOMAIN mail : mail[m] = Completion(j)
      BY <2>2 DEF Replied
    <3>2. m # 1
      BY <1>2, <2>2, <3>1 DEF Completion
    <3>3. m - 1 \in DOMAIN mail' /\ mail'[m - 1] = Completion(j)
      BY <1>4, <3>1, <3>2
    <3>4. QED
      BY <3>3 DEF Replied, Completion
  <2>3. QED
    BY <2>1, <2>2
<1>8. Failed' <=> Failed
  BY <1>1, <1>2, <1>4, <1>5 DEF Failed, Completion
<1>9. AnsweredOnce'
  <2> SUFFICES ASSUME NEW m \in DOMAIN mail', NEW n \in DOMAIN mail',
                      mail'[m].kind = "reply", mail'[n] = mail'[m]
               PROVE  n = m
    BY DEF AnsweredOnce
  <2>1. n + 1 = m + 1
    BY <1>1, <1>5 DEF AnsweredOnce
  <2>2. QED
    BY <1>1, <2>1
<1>10. QED
  BY <1>3, <1>7, <1>8, <1>9

LEMMA BatchAsked ==
    ASSUME dispatches \in Seq(Seq(Requests)), NEW b \in Seq(Requests),
           dispatches' = Append(dispatches, b), batch' = batch, NEW i
    PROVE  Asked(i)' <=> Asked(i) \/ Holds(b, i)
<1>1. /\ Len(dispatches) \in Nat
      /\ DOMAIN dispatches = 1..Len(dispatches)
      /\ DOMAIN dispatches' = 1..(Len(dispatches) + 1)
      /\ \A n \in DOMAIN dispatches : dispatches'[n] = dispatches[n]
      /\ dispatches'[Len(dispatches) + 1] = b
  OBVIOUS
<1>2. \A n \in DOMAIN dispatches' : n \in DOMAIN dispatches \/ n = Len(dispatches) + 1
  BY <1>1
<1>3. DOMAIN dispatches \subseteq DOMAIN dispatches' /\ Len(dispatches) + 1 \in DOMAIN dispatches'
  BY <1>1
<1>4. (\E n \in DOMAIN dispatches' : Holds(dispatches'[n], i))
      <=> (\E n \in DOMAIN dispatches : Holds(dispatches[n], i)) \/ Holds(b, i)
  BY <1>1, <1>2, <1>3
<1>5. QED
  BY <1>4 DEF Asked

LEMMA DispatchTaken ==
    ASSUME dispatches \in Seq(Seq(Requests)), dispatches # <<>>, batch = <<>>,
           batch' = Head(dispatches), dispatches' = Tail(dispatches), NEW i
    PROVE  Asked(i)' <=> Asked(i)
<1>1. /\ Len(dispatches) \in Nat \ {0}
      /\ DOMAIN dispatches = 1..Len(dispatches)
      /\ DOMAIN dispatches' = 1..(Len(dispatches) - 1)
      /\ \A n \in DOMAIN dispatches' : dispatches'[n] = dispatches[n + 1]
      /\ Head(dispatches) = dispatches[1]
  OBVIOUS
<1>2. \A n \in DOMAIN dispatches :
          n = 1 \/ (n - 1 \in DOMAIN dispatches' /\ dispatches'[n - 1] = dispatches[n])
  BY <1>1
<1>3. \A n \in DOMAIN dispatches' : n + 1 \in DOMAIN dispatches
  BY <1>1
<1>4. 1 \in DOMAIN dispatches
  BY <1>1
<1>5. ~Holds(batch, i)
  BY DEF Holds
<1>6. (\E n \in DOMAIN dispatches : Holds(dispatches[n], i))
      <=> Holds(Head(dispatches), i) \/ \E n \in DOMAIN dispatches' : Holds(dispatches'[n], i)
  BY <1>1, <1>2, <1>3, <1>4
<1>7. QED
  BY <1>5, <1>6 DEF Asked

LEMMA RequestTaken ==
    ASSUME batch \in Seq(Requests), batch # <<>>, batch' = Tail(batch),
           dispatches' = dispatches, NEW i
    PROVE  /\ Asked(Head(batch).id)
           /\ Asked(i)' => Asked(i)
           /\ Asked(i) => Asked(i)' \/ i = Head(batch).id
<1>1. /\ Len(batch) \in Nat \ {0}
      /\ DOMAIN batch = 1..Len(batch)
      /\ DOMAIN batch' = 1..(Len(batch) - 1)
      /\ \A n \in DOMAIN batch' : batch'[n] = batch[n + 1]
      /\ Head(batch) = batch[1]
  OBVIOUS
<1>2. \A n \in DOMAIN batch : n = 1 \/ (n - 1 \in DOMAIN batch' /\ batch'[n - 1] = batch[n])
  BY <1>1
<1>3. \A n \in DOMAIN batch' : n + 1 \in DOMAIN batch
  BY <1>1
<1>4. 1 \in DOMAIN batch
  BY <1>1
<1>5. Holds(batch, Head(batch).id)
  BY <1>1, <1>4 DEF Holds
<1>6. Holds(batch, i)' => Holds(batch, i)
  BY <1>1, <1>3 DEF Holds
<1>7. Holds(batch, i) => Holds(batch, i)' \/ i = Head(batch).id
  BY <1>1, <1>2 DEF Holds
<1>8. QED
  BY <1>5, <1>6, <1>7 DEF Asked

-----------------------------------------------------------------------------
(* Each step keeps every request on its way.                               *)

\* A worker that is through, or goes there, waits for nothing.
LEMMA Inactive == ASSUME ~Active' PROVE RequestsInv'
  BY DEF RequestsInv, Active

LEMMA YieldRequests ==
    ASSUME ControlInv, RequestsInv, NEW b \in Seq(Requests), Yield(b)
    PROVE  RequestsInv'
<1>1. /\ Active
      /\ UNCHANGED <<signals, mail, broker, batch, seen, jobs>>
      /\ pending' = pending \cup {b[n].id : n \in DOMAIN b}
  BY DEF Yield, Active, brokerVars
<1>2. AnsweredOnce' /\ (Failed' <=> Failed) /\ \A i \in Ids : Replied(i)' <=> Replied(i)
  BY <1>1 DEF RequestsInv, AnsweredOnce, Failed, Replied
<1>3. \A i \in Ids : i \in pending' <=> i \in pending \/ Holds(b, i)
  BY <1>1 DEF Holds
<1>4. CASE broker = "up"
  <2>1. dispatches' = Append(dispatches, b)
    BY <1>4 DEF Yield
  <2>2. \A i \in Ids : Asked(i)' <=> Asked(i) \/ Holds(b, i)
    BY <1>1, <2>1, BatchAsked DEF ControlInv, TypeOK
  <2>3. QED
    BY <1>1, <1>2, <1>3, <1>4, <2>2 DEF RequestsInv, RequestInv
<1>5. CASE broker # "up"
  <2>1. dispatches' = dispatches
    BY <1>5 DEF Yield
  <2>2. \A i \in Ids : Asked(i)' <=> Asked(i)
    BY <1>1, <2>1 DEF Asked
  <2>3. Failed
    BY <1>1, <1>5 DEF RequestsInv
  <2>4. QED
    BY <1>1, <1>2, <1>3, <2>2, <2>3 DEF RequestsInv, RequestInv
<1>6. QED
  BY <1>4, <1>5

\* A broker that fails, or is killed, says so.
LEMMA EndLoopRequests ==
    ASSUME ControlInv, RequestsInv, Active, NEW state, NEW remaining \in SUBSET jobs,
           EndLoop(state, remaining), NEW l \in Letters, l.kind \in {"error", "down"},
           Tell(l)
    PROVE  RequestsInv'
<1>1. /\ UNCHANGED <<driver, pending, signals, seen>>
      /\ jobs' \subseteq jobs
      /\ batch' = <<>> /\ dispatches' = <<>>
  BY DEF EndLoop, workerVars
<1>2. \A i \in Ids : l # Completion(i)
  BY DEF Completion
<1>3. Failed' /\ AnsweredOnce' /\ \A i \in Ids : Replied(i)' <=> Replied(i)
  BY <1>2, MailGrows DEF ControlInv, TypeOK, RequestsInv
<1>4. \A i \in Ids : ~Asked(i)'
  BY <1>1 DEF Asked, Holds
<1>5. QED
  BY <1>1, <1>3, <1>4 DEF RequestsInv, RequestInv

LEMMA FailRequests ==
    ASSUME ControlInv, RequestsInv, Active, NEW remaining \in SUBSET jobs, Fail(remaining)
    PROVE  RequestsInv'
<1>1. [kind |-> "error"] \in Letters
  BY Mailbox
<1>2. QED
  BY <1>1, EndLoopRequests DEF Fail, Cleanup

\* Steps that touch no letter, no request and no job.
LEMMA RequestsKept ==
    ASSUME RequestsInv, Active' => Active,
           UNCHANGED <<pending, mail, signals, broker, batch, dispatches, seen, jobs>>
    PROVE  RequestsInv'
  BY DEF RequestsInv, RequestInv, AnsweredOnce, Failed, Replied, Asked

LEMMA RequestsStep == ControlInv /\ RequestsInv /\ [Next]_vars => RequestsInv'
<1> SUFFICES ASSUME ControlInv, RequestsInv, [Next]_vars PROVE RequestsInv'
  OBVIOUS
<1> USE DEF workerVars, brokerVars
<1>1. CASE \E b \in Batches : Yield(b)
  BY <1>1, YieldRequests, CallbacksAssumption
<1>2. CASE Settle \/ TakeFailure \/ TakeCancel \/ Die \/ Finish
  <2>1. ~Active'
    BY <1>2 DEF Settle, TakeFailure, TakeCancel, Die, Finish, Leave, Active
  <2>2. QED
    BY <2>1, Inactive
<1>3. CASE TakeReply
  <2> DEFINE i == Head(mail).id
  <2>1. /\ Active /\ mail # <<>> /\ Head(mail).kind = "reply" /\ mail' = Tail(mail)
        /\ pending' = pending \ {i}
        /\ UNCHANGED <<signals, broker, batch, dispatches, seen, jobs>>
    BY <1>3 DEF TakeReply, Active
  <2>2. /\ i \in Ids /\ Replied(i) /\ (Failed' <=> Failed) /\ AnsweredOnce'
        /\ \A j \in Ids : Replied(j)' <=> Replied(j) /\ j # i
    BY <2>1, MailTaken DEF ControlInv, TypeOK, RequestsInv
  <2> HIDE DEF i
  <2>3. \A j \in Ids : Asked(j)' <=> Asked(j)
    BY <2>1 DEF Asked
  <2>4. i \in seen /\ i \notin jobs
    BY <2>1, <2>2 DEF RequestsInv, RequestInv
  <2>5. QED
    BY <2>1, <2>2, <2>3, <2>4 DEF RequestsInv, RequestInv
<1>4. CASE Cancel
  BY <1>4, RequestsKept DEF Cancel, Active
<1>5. CASE ~Active /\ (BrokerStep \/ BrokerKilled)
  <2>1. driver' = driver
    BY <1>5 DEF BrokerStep, BrokerKilled, ReceiveDispatch, RefuseDispatch, StartCallback,
                DenyRequest, DenialTooLong, RefuseRequest, ReceiveStop, EndCleanup,
                ReceiveResult, ReceiveDown, ReceiveFatal, ReceiveTimeout, DropTimeout,
                Fail, Cleanup, EndLoop
  <2>2. QED
    BY <1>5, <2>1, Inactive DEF Active
<1>6. CASE Active /\ ReceiveDispatch
  <2>1. \A i \in Ids : Asked(i)' <=> Asked(i)
    BY <1>6, DispatchTaken DEF ReceiveDispatch, Listening, ControlInv, TypeOK
  <2>2. QED
    BY <1>6, <2>1
       DEF ReceiveDispatch, RequestsInv, RequestInv, AnsweredOnce, Failed, Replied
<1>7. CASE Active /\ StartCallback
  <2> DEFINE i == Head(batch).id
  <2>1. /\ batch # <<>> /\ batch' = Tail(batch) /\ dispatches' = dispatches
        /\ seen' = seen \cup {i} /\ jobs' = jobs \cup {i} /\ i \notin seen
        /\ UNCHANGED <<driver, pending, mail, signals, broker>>
    BY <1>7 DEF StartCallback, NextRequest, Admitted
  <2>2. i \in Ids
    BY <2>1, Frames DEF ControlInv, TypeOK
  <2>3. /\ Asked(i)
        /\ \A j \in Ids : Asked(j)' => Asked(j)
        /\ \A j \in Ids : Asked(j) => Asked(j)' \/ j = i
    BY <2>1, RequestTaken DEF ControlInv, TypeOK
  <2> HIDE DEF i
  <2>4. AnsweredOnce' /\ (Failed' <=> Failed) /\ \A j \in Ids : Replied(j)' <=> Replied(j)
    BY <2>1, <1>7 DEF AnsweredOnce, Failed, Replied, RequestsInv
  <2>5. QED
    BY <1>7, <2>1, <2>2, <2>3, <2>4 DEF RequestsInv, RequestInv
<1>8. CASE Active /\ DenyRequest
  <2> DEFINE i == Head(batch).id
  <2>1. /\ batch # <<>> /\ batch' = Tail(batch) /\ dispatches' = dispatches
        /\ seen' = seen \cup {i} /\ i \notin seen /\ Reply(i)
        /\ UNCHANGED <<driver, pending, signals, broker, jobs>>
    BY <1>8 DEF DenyRequest, NextRequest, Admitted
  <2>2. i \in Ids
    BY <2>1, Frames DEF ControlInv, TypeOK
  <2>3. /\ Asked(i)
        /\ \A j \in Ids : Asked(j)' => Asked(j)
        /\ \A j \in Ids : Asked(j) => Asked(j)' \/ j = i
    BY <2>1, RequestTaken DEF ControlInv, TypeOK
  <2> HIDE DEF i
  <2>4. i \in pending /\ i \notin jobs /\ ~Replied(i)
    BY <1>8, <2>1, <2>2, <2>3 DEF RequestsInv, RequestInv, ControlInv, TypeOK
  <2>5. \A j \in Ids : Completion(i) = Completion(j) => j = i
    BY DEF Completion
  <2>6. /\ AnsweredOnce' /\ (Failed' <=> Failed)
        /\ \A j \in Ids : Replied(j)' <=> Replied(j) \/ j = i
    <3>1. Completion(i) \in Letters /\ Tell(Completion(i)) /\ Completion(i).kind = "reply"
      BY <2>1, <2>2, Mailbox DEF Reply, Completion
    <3>2. QED
      BY <1>8, <2>4, <2>5, <3>1, MailGrows DEF ControlInv, TypeOK, RequestsInv
  <2>7. QED
    BY <1>8, <2>1, <2>2, <2>3, <2>4, <2>6 DEF RequestsInv, RequestInv
<1>9. CASE Active /\ (RefuseDispatch \/ DenialTooLong \/ RefuseRequest)
  BY <1>9, FailRequests DEF RefuseDispatch, DenialTooLong, RefuseRequest
<1>10. CASE Active /\ ReceiveStop
  BY <1>10 DEF ReceiveStop, RequestsInv
<1>11. CASE Active /\ EndCleanup
  <2>1. /\ jobs' = {} /\ UNCHANGED <<driver, pending, signals, batch, dispatches, seen>>
        /\ Tell([kind |-> "down"])
    BY <1>11 DEF EndCleanup
  <2>2. [kind |-> "down"] \in Letters /\ \A i \in Ids : [kind |-> "down"] # Completion(i)
    BY Mailbox DEF Completion
  <2>3. Failed' /\ AnsweredOnce' /\ \A i \in Ids : Replied(i)' <=> Replied(i)
    BY <1>11, <2>1, <2>2, MailGrows DEF ControlInv, TypeOK, RequestsInv
  <2>4. \A i \in Ids : Asked(i)' <=> Asked(i)
    BY <2>1 DEF Asked
  <2>5. QED
    BY <1>11, <2>1, <2>3, <2>4 DEF RequestsInv, RequestInv
<1>12. CASE Active /\ BrokerKilled
  BY <1>12, EndLoopRequests, Mailbox DEF BrokerKilled
<1>13. ASSUME Active, NEW i \in Ids, ReceiveDown(i) PROVE RequestsInv'
  <2>1. /\ i \in jobs /\ jobs' = jobs \ {i} /\ Reply(i)
        /\ UNCHANGED <<driver, pending, signals, broker, batch, dispatches, seen>>
    BY <1>13 DEF ReceiveDown, ChildEnded
  <2>2. i \in pending /\ ~Replied(i) /\ i \in seen
    BY <1>13, <2>1 DEF RequestsInv, RequestInv, ControlInv, TypeOK
  <2>3. \A j \in Ids : Completion(i) = Completion(j) => j = i
    BY DEF Completion
  <2>4. /\ AnsweredOnce' /\ (Failed' <=> Failed)
        /\ \A j \in Ids : Replied(j)' <=> Replied(j) \/ j = i
    <3>1. Completion(i) \in Letters /\ Tell(Completion(i)) /\ Completion(i).kind = "reply"
      BY <2>1, Mailbox DEF Reply, Completion
    <3>2. QED
      BY <1>13, <2>2, <2>3, <3>1, MailGrows DEF ControlInv, TypeOK, RequestsInv
  <2>5. \A j \in Ids : Asked(j)' <=> Asked(j)
    BY <2>1 DEF Asked
  <2>6. QED
    BY <1>13, <2>1, <2>2, <2>4, <2>5 DEF RequestsInv, RequestInv
<1>14. ASSUME Active, NEW i \in Ids, ReceiveFatal(i) \/ ReceiveTimeout(i) PROVE RequestsInv'
  BY <1>14, FailRequests DEF ReceiveFatal, ReceiveTimeout
<1>15. ASSUME NEW i \in Ids,
              ReceiveResult(i) \/ DropTimeout(i) \/ ChildStep(i) \/ TimerFires(i)
                \/ CallbackExpires(i)
       PROVE  RequestsInv'
  BY <1>15, RequestsKept
     DEF ReceiveResult, DropTimeout, ChildStep, ChildStarts, ChildTooLate, ChildReports,
         ChildExits, ChildCrashes, ChildKilled, ChildMoves, TimerFires, CallbackExpires,
         Active
<1>16. CASE RunExpires \/ UNCHANGED vars
  BY <1>16, RequestsKept DEF RunExpires, vars, Active
<1>17. QED
  BY <1>1, <1>2, <1>3, <1>4, <1>5, <1>6, <1>7, <1>8, <1>9, <1>10, <1>11, <1>12, <1>13,
     <1>14, <1>15, <1>16
     DEF Next, WorkerStep, BrokerStep

LEMMA Accounted == ControlInv /\ RequestsInv => RequestsAccounted
<1> SUFFICES ASSUME ControlInv, RequestsInv PROVE RequestsAccounted
  OBVIOUS
<1>1. \A m \in DOMAIN mail : mail[m].kind = "reply" =>
          mail[m].id \in Ids /\ mail[m] = Completion(mail[m].id)
  <2> SUFFICES ASSUME NEW m \in DOMAIN mail, mail[m].kind = "reply"
               PROVE  mail[m].id \in Ids /\ mail[m] = Completion(mail[m].id)
    OBVIOUS
  <2>1. mail[m] \in Letters
    BY DEF ControlInv, TypeOK
  <2>2. QED
    BY <2>1 DEF Letters, Completion
<1>2. CompletionsExpected
  <2> SUFFICES ASSUME Active, NEW m \in DOMAIN mail, mail[m].kind = "reply"
               PROVE  /\ mail[m].id \in pending
                      /\ mail[m].id \notin jobs
                      /\ \A n \in DOMAIN mail : mail[n] = mail[m] => n = m
    BY DEF CompletionsExpected, Active
  <2>1. Replied(mail[m].id) /\ mail[m].id \in Ids
    BY <1>1 DEF Replied
  <2>2. QED
    BY <2>1 DEF RequestsInv, RequestInv, AnsweredOnce
<1>3. NoRequestLost
  <2> SUFFICES ASSUME driver = "waiting", ~Failed
               PROVE  /\ broker = "up"
                      /\ \A i \in pending : i \in jobs \/ Asked(i) \/ Replied(i)
    BY DEF NoRequestLost, Failed, Asked, Replied, Completion
  <2>1. pending \subseteq Ids /\ Active
    BY DEF ControlInv, TypeOK, Active
  <2>2. QED
    BY <2>1 DEF RequestsInv, RequestInv
<1>4. QED
  BY <1>2, <1>3 DEF RequestsAccounted

\* Every request the guest waits for is on its way to the broker, with it, or
\* on its way back -- or the end of the run is --, and comes back only once.
THEOREM RequestTheorem == Spec => []RequestsAccounted
<1>1. Init => RequestsInv
  BY DEF Init, RequestsInv, RequestInv, AnsweredOnce, Failed, Replied, Asked, Holds
<1>2. ControlInv /\ RequestsInv /\ [Next]_vars => ControlInv' /\ RequestsInv'
  BY ControlInvStep, RequestsStep
<1>3. Init => ControlInv
  BY InitInv DEF IInv
<1>4. QED
  BY <1>1, <1>2, <1>3, Accounted, PTL DEF Spec

-----------------------------------------------------------------------------
(* Theorems.                                                               *)

\* What the invariant promises of the run, its budget and its callbacks.
LEMMA Promised == IInv => /\ TypeOK
                          /\ NoCallbackOutlivesRun
                          /\ CallbackIsBounded
                          /\ CountsWithinBudget
<1> SUFFICES ASSUME IInv
             PROVE  TypeOK /\ NoCallbackOutlivesRun /\ CallbackIsBounded
                    /\ CountsWithinBudget
  OBVIOUS
<1>1. TypeOK /\ NoCallbackOutlivesRun /\ CallbackIsBounded
  BY DEF IInv, ControlInv, EndInv, ChildInv, NoCallbackOutlivesRun, CallbackIsBounded
<1>2. CountsWithinBudget
  <2> DEFINE Living == {i \in Ids : Alive(i)}
             Started == {i \in Ids : child[i] # "none"}
  <2>1. Living \subseteq jobs /\ Started \subseteq seen /\ jobs \subseteq seen
    BY DEF IInv, ControlInv, ChildInv, TypeOK
  <2>2. IsFiniteSet(seen) /\ IsFiniteSet(jobs)
    BY <2>1, FS_Subset DEF IInv, BudgetInv
  <2>3. /\ IsFiniteSet(Living) /\ Cardinality(Living) <= Cardinality(jobs)
        /\ IsFiniteSet(Started) /\ Cardinality(Started) <= Cardinality(seen)
    BY <2>1, <2>2, FS_Subset
  <2>4. /\ Cardinality(Living) \in Nat /\ Cardinality(jobs) \in Nat
        /\ Cardinality(Started) \in Nat /\ Cardinality(seen) \in Nat
    BY <2>2, <2>3, FS_CardinalityType
  <2>5. QED
    BY <2>3, <2>4, CallbacksAssumption DEF IInv, BudgetInv, CountsWithinBudget
<1>3. QED
  BY <1>1, <1>2

\* A callback is started for an id that is not among those seen.
LEMMA StartedOnce == ControlInv /\ [Next]_vars => [StartsNoneTwice]_vars
<1> SUFFICES ASSUME ControlInv, Next PROVE StartsNoneTwice
  BY DEF vars
<1> USE DEF StartsNoneTwice
<1>1. CASE StartCallback
  <2>1. PICK i : i = Head(batch).id /\ i \notin seen /\ child' = [child EXCEPT ![i] = "spawned"]
    BY <1>1 DEF StartCallback, NextRequest, Admitted
  <2>2. child \in [Ids -> {"none", "spawned", "running", "reported", "dead"}]
        /\ \A j \in Ids : child[j] # "none" => j \in seen
    BY DEF ControlInv, TypeOK, ChildInv
  <2>3. QED
    BY <2>1, <2>2
<1>2. CASE UNCHANGED child
  BY <1>2 DEF ControlInv, TypeOK
<1>3. CASE \E i \in Ids : ChildStep(i)
  <2>1. PICK i \in Ids : ChildStep(i)
    BY <1>3
  <2>2. PICK to \in {"running", "reported", "dead"} : child' = [child EXCEPT ![i] = to]
    BY <2>1 DEF ChildStep, ChildStarts, ChildTooLate, ChildReports, ChildExits,
         ChildCrashes, ChildKilled, ChildMoves
  <2>3. QED
    BY <2>2 DEF ControlInv, TypeOK
<1>4. CASE BrokerStep /\ ~StartCallback
  <2>1. UNCHANGED child
    BY <1>4 DEF BrokerStep, ReceiveDispatch, RefuseDispatch, DenyRequest, DenialTooLong,
         RefuseRequest, ReceiveStop, EndCleanup, ReceiveResult, ReceiveDown, ReceiveFatal,
         ReceiveTimeout, DropTimeout, Fail, Cleanup, EndLoop
  <2>2. QED
    BY <1>2, <2>1
<1>5. QED
  <2>1. CASE WorkerStep \/ \E b \in Batches : Yield(b)
    BY <1>2, <2>1 DEF WorkerStep, Yield, Settle, TakeReply, TakeFailure, Cancel, TakeCancel,
         Finish, Die, Leave
  <2>2. CASE BrokerKilled \/ RunExpires \/ \E i \in Ids : TimerFires(i) \/ CallbackExpires(i)
    BY <1>2, <2>2 DEF BrokerKilled, EndLoop, RunExpires, TimerFires, CallbackExpires
  <2>3. QED
    BY <1>1, <1>3, <1>4, <2>1, <2>2 DEF Next

\* Every variable of the broker, its children and the worker has its type.
THEOREM TypeCorrect == Spec => []TypeOK
  BY Promised, Invariance, PTL

\* Callbacks.stop: whatever the guest asked for and however the run ended,
\* a worker that gets to send its result leaves no callback process behind.
THEOREM RunTheorem == Spec => []NoCallbackOutlivesRun
  BY Promised, Invariance, PTL

\* admitted?: the callback processes alive are within
\* max_callback_concurrency, and those ever started within
\* max_callback_calls, though ids are only counted once.
THEOREM BudgetTheorem == Spec => WithinBudget
<1>1. IInv /\ [Next]_vars => [StartsNoneTwice]_vars
  BY StartedOnce DEF IInv
<1>2. QED
  BY <1>1, Promised, Invariance, PTL DEF Spec, WithinBudget

\* start_callback and cleanup: a callback process that lives has a timer, a
\* timeout on its way, or an exit signal.
THEOREM BoundTheorem == Spec => []CallbackIsBounded
  BY Promised, Invariance, PTL
=============================================================================
