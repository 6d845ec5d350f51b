---------------------------- MODULE IsolatedProofs ----------------------------
(***************************************************************************)
(* Proofs about Isolated.tla, for any budget of calls and any number of    *)
(* them under way at once.                                                 *)
(*                                                                         *)
(* The properties rest on a conservation law.  A request of the guest is   *)
(* in exactly one place until it is answered: in an event, in the worker's *)
(* mailbox, with the broker, in a frame of the supervisor's stdin, in its  *)
(* channel, with its writer or in the child's stdin.  It may be lost on    *)
(* the way, never doubled, so none of the supervisor's bounds is met by a  *)
(* guest that keeps its own; and where all requests have been answered     *)
(* none was lost, so no thread of the supervisor has given up.             *)
(***************************************************************************)
EXTENDS Isolated, SequenceTheorems, TLAPS

Final  == {"ok", "error"}
Frames == {"reply", "cancel"}

-----------------------------------------------------------------------------
(* The requests in a queue.                                                *)

\* How many of the guest's requests a letter, or a frame, stands for.
LetterWeight ==
    [l \in Letters |-> CASE l.kind = "reply"     -> 1
                         [] l.kind = "callbacks" -> l.requests
                         [] OTHER                -> 0]
FrameWeight == [f \in Frames |-> IF f = "reply" THEN 1 ELSE 0]

\* The weights of a queue add up to n: t gives them up to each place.
Sums(s, w, t) ==
    /\ t \in [0..Len(s) -> Nat]
    /\ t[0] = 0
    /\ \A i \in 1..Len(s) : t[i] = t[i - 1] + w[s[i]]
    /\ \A i, j \in 0..Len(s) : i <= j => t[i] <= t[j]

HasSum(s, w, n) == \E t : Sums(s, w, t) /\ n = t[Len(s)]

LEMMA SumOfNone ==
    ASSUME NEW w
    PROVE  HasSum(<<>>, w, 0)
<1> DEFINE t == [i \in 0..0 |-> 0]
<1>1. Len(<<>>) = 0
  BY EmptySeq
<1>2. Sums(<<>>, w, t)
  BY <1>1 DEF Sums
<1>3. QED
  BY <1>1, <1>2 DEF HasSum

LEMMA SumOfAppend ==
    ASSUME NEW S, NEW w \in [S -> Nat], NEW s \in Seq(S), NEW e \in S, NEW n,
           HasSum(s, w, n)
    PROVE  HasSum(Append(s, e), w, n + w[e])
<1>1. PICK t : Sums(s, w, t) /\ n = t[Len(s)]
  BY DEF HasSum
<1>2. /\ Append(s, e) \in Seq(S)
      /\ Len(Append(s, e)) = Len(s) + 1
      /\ \A i \in 1..Len(s) : Append(s, e)[i] = s[i]
      /\ Append(s, e)[Len(s) + 1] = e
  BY AppendProperties
<1> DEFINE all == Append(s, e)
           u == [i \in 0..(Len(s) + 1) |-> IF i <= Len(s) THEN t[i] ELSE n + w[e]]
<1>3. Len(s) \in Nat /\ w[e] \in Nat
  BY LenProperties
<1>4. /\ t \in [0..Len(s) -> Nat]
      /\ t[0] = 0
      /\ \A i \in 1..Len(s) : t[i] = t[i - 1] + w[s[i]]
      /\ \A i, j \in 0..Len(s) : i <= j => t[i] <= t[j]
      /\ n = t[Len(s)]
      /\ n \in Nat
  BY <1>1, <1>3 DEF Sums
<1>5. /\ u[Len(s) + 1] = n + w[e]
      /\ \A i \in 0..Len(s) : u[i] = t[i]
  BY <1>3
<1>6. u \in [0..(Len(s) + 1) -> Nat] /\ u[0] = 0
  BY <1>3, <1>4
<1>7. Len(all) = Len(s) + 1 /\ all[Len(s) + 1] = e /\ \A i \in 1..Len(s) : all[i] = s[i]
  BY <1>2
<1> HIDE DEF u, all
<1>8. \A i \in 1..(Len(s) + 1) : u[i] = u[i - 1] + w[all[i]]
  <2>1. TAKE i \in 1..(Len(s) + 1)
  <2>2. CASE i \in 1..Len(s)
    <3>1. i - 1 \in 0..Len(s) /\ i \in 0..Len(s)
      BY <2>2, <1>3
    <3>2. u[i] = t[i] /\ u[i - 1] = t[i - 1] /\ all[i] = s[i]
      BY <2>2, <3>1, <1>5, <1>7
    <3>3. QED
      BY <2>2, <3>2, <1>4
  <2>3. CASE i = Len(s) + 1
    <3>1. i - 1 = Len(s) /\ Len(s) \in 0..Len(s)
      BY <2>3, <1>3
    <3>2. QED
      BY <2>3, <3>1, <1>4, <1>5, <1>7
  <2>4. QED
    BY <2>2, <2>3, <1>3
<1>9. \A i, j \in 0..(Len(s) + 1) : i <= j => u[i] <= u[j]
  <2>1. TAKE i, j \in 0..(Len(s) + 1)
  <2>2. HAVE i <= j
  <2>3. CASE j \in 0..Len(s)
    BY <2>2, <2>3, <1>3, <1>4, <1>5
  <2>4. CASE j = Len(s) + 1 /\ i = j
    BY <2>4, <1>6
  <2>5. CASE j = Len(s) + 1 /\ i \in 0..Len(s)
    <3>1. i \in 0..Len(s) /\ Len(s) \in 0..Len(s) /\ i <= Len(s)
      BY <2>5, <1>3
    <3>2. t[i] <= t[Len(s)] /\ t[i] \in Nat
      BY <3>1, <1>4
    <3>3. QED
      BY <2>5, <3>2, <1>3, <1>4, <1>5
  <2>6. QED
    BY <2>2, <2>3, <2>4, <2>5, <1>3
<1>10. Sums(all, w, u)
  BY <1>6, <1>7, <1>8, <1>9 DEF Sums
<1>11. n + w[e] = u[Len(all)]
  BY <1>5, <1>7
<1>12. QED
  BY <1>10, <1>11 DEF HasSum, all

LEMMA SumOfTail ==
    ASSUME NEW S, NEW w \in [S -> Nat], NEW s \in Seq(S), s # <<>>, NEW n,
           HasSum(s, w, n)
    PROVE  /\ n \in Nat
           /\ w[Head(s)] \in Nat
           /\ w[Head(s)] <= n
           /\ HasSum(Tail(s), w, n - w[Head(s)])
<1>1. PICK t : Sums(s, w, t) /\ n = t[Len(s)]
  BY DEF HasSum
<1>2. /\ Head(s) \in S
      /\ Len(Tail(s)) = Len(s) - 1
      /\ \A i \in 1..Len(Tail(s)) : Tail(s)[i] = s[i + 1]
  BY HeadTailProperties
<1>3. Len(s) \in Nat /\ Len(s) >= 1 /\ w[Head(s)] \in Nat /\ Head(s) = s[1]
  BY <1>2, EmptySeq
<1> DEFINE rest == Tail(s)
           first == w[Head(s)]
           u == [i \in 0..(Len(s) - 1) |-> t[i + 1] - first]
<1>4. /\ t \in [0..Len(s) -> Nat]
      /\ t[0] = 0
      /\ \A i \in 1..Len(s) : t[i] = t[i - 1] + w[s[i]]
      /\ \A i, j \in 0..Len(s) : i <= j => t[i] <= t[j]
      /\ n = t[Len(s)]
      /\ n \in Nat
  BY <1>1, <1>3 DEF Sums
<1>5. t[1] = first
  <2>1. 1 \in 1..Len(s) /\ 1 - 1 = 0
    BY <1>3
  <2>2. t[1] = t[1 - 1] + w[s[1]]
    BY <2>1, <1>4
  <2>3. QED
    BY <2>1, <2>2, <1>3, <1>4
<1>6. \A i \in 0..(Len(s) - 1) :
         /\ u[i] = t[i + 1] - first
         /\ t[i + 1] \in Nat
         /\ first <= t[i + 1]
  <2>1. TAKE i \in 0..(Len(s) - 1)
  <2>2. i + 1 \in 0..Len(s) /\ 1 \in 0..Len(s) /\ 1 <= i + 1
    BY <1>3
  <2>3. t[i + 1] \in Nat /\ t[1] <= t[i + 1]
    BY <2>2, <1>4
  <2>4. QED
    BY <2>3, <1>5
<1>7. /\ Len(rest) = Len(s) - 1
      /\ \A i \in 1..(Len(s) - 1) : rest[i] = s[i + 1]
      /\ first \in Nat
  BY <1>2, <1>3
<1>8. u \in [0..(Len(s) - 1) -> Nat]
  BY <1>6, <1>7
<1> HIDE DEF u, rest, first
<1>9. u[0] = 0
  BY <1>3, <1>5, <1>6, <1>7
<1>10. \A i \in 1..(Len(s) - 1) : u[i] = u[i - 1] + w[rest[i]]
  <2>1. TAKE i \in 1..(Len(s) - 1)
  <2>2. i \in 0..(Len(s) - 1) /\ i - 1 \in 0..(Len(s) - 1) /\ i - 1 + 1 = i
        /\ i + 1 \in 1..Len(s) /\ i + 1 - 1 = i
    BY <1>3
  <2>3. t[i + 1] = t[i] + w[s[i + 1]] /\ rest[i] = s[i + 1]
    BY <2>2, <1>4, <1>7
  <2>4. u[i] = t[i + 1] - first /\ u[i - 1] = t[i] - first
    BY <2>2, <1>6
  <2>5. t[i] \in Nat /\ w[s[i + 1]] \in Nat
    <3>1. i \in 0..Len(s) /\ s[i + 1] \in S
      BY <2>2, <1>3, ElementOfSeq
    <3>2. QED
      BY <3>1, <1>4
  <2>6. QED
    BY <2>3, <2>4, <2>5, <1>7
<1>11. \A i, j \in 0..(Len(s) - 1) : i <= j => u[i] <= u[j]
  <2>1. TAKE i, j \in 0..(Len(s) - 1)
  <2>2. HAVE i <= j
  <2>3. t[i + 1] <= t[j + 1] /\ t[i + 1] \in Nat /\ t[j + 1] \in Nat
    <3>1. i + 1 \in 0..Len(s) /\ j + 1 \in 0..Len(s) /\ i + 1 <= j + 1
      BY <2>2, <1>3
    <3>2. QED
      BY <3>1, <1>4
  <2>4. u[i] = t[i + 1] - first /\ u[j] = t[j + 1] - first
    BY <1>6
  <2>5. first \in Nat
    BY <1>7
  <2>6. QED
    BY <2>3, <2>4, <2>5
<1>12. Sums(rest, w, u) /\ n - first = u[Len(rest)]
  <2>1. u[Len(s) - 1] = t[Len(s) - 1 + 1] - first /\ Len(s) - 1 + 1 = Len(s)
    BY <1>3, <1>6
  <2>2. QED
    BY <2>1, <1>4, <1>7, <1>8, <1>9, <1>10, <1>11 DEF Sums
<1>13. first <= n
  BY <1>3, <1>4, <1>5 DEF first
<1>14. QED
  BY <1>3, <1>4, <1>12, <1>13 DEF HasSum, rest, first

-----------------------------------------------------------------------------
(* The inductive invariant.                                                *)

TypeInv ==
    /\ mailbox \in Seq(Letters)
    /\ port \in {"open", "closed"}
    /\ result \in {"none", "ok", "error"}
    /\ failure \in Failures \cup {"none"}
    /\ cancelSent \in {"no", "yes"}
    /\ outcome \in Failures \cup {"none", "ok", "error", "timeout", "cancelled",
                                  "worker_error", "killed"}
    /\ broker \in {"up", "refusing", "failed", "gone"}
    /\ owed \in Nat
    /\ cancelAsked \in {"no", "yes"}
    /\ stdin \in Seq(Frames)
    /\ received \in 0..(MaxCalls + 1)
    /\ stdinReader \in {"up", "ended"}
    /\ channel \in 0..MaxConcurrent
    /\ writer \in {"request", "idle", "writing", "ended"}
    /\ cancelled \in {"no", "yes"}
    /\ forwarded \in 0..(MaxCalls + 2)
    /\ outputReader \in {"up", "final", "done", "failed"}
    /\ overflow \in {"no", "yes"}
    /\ main \in {"poll", "check", "join", "exited"}
    /\ status \in {"none", "0", "124", "125", "126", "broken", "killed"}
    /\ expired \in {"no", "yes"}
    /\ deathSignal \in {"none", "sent"}
    /\ child \in {"spawned", "armed", "starting", "running", "waiting", "settled",
                  "closed", "dead"}
    /\ ending \in {"none", "ok", "error", "broken"}
    /\ asked \in 0..MaxCalls
    /\ answered \in Nat
    /\ replies \in Nat
    /\ events \in Seq(Letters)

\* A reader that has read all it may has stopped.
BoundInv ==
    /\ stdinReader = "up" => received <= MaxCalls
    /\ outputReader = "up" => forwarded <= MaxCalls + 1

\* How far the processes and the threads can have come together.
StageInv ==
    /\ main = "exited" <=> status # "none"
    /\ outcome # "none" => port = "closed" /\ mailbox = <<>>
    /\ outcome \notin {"none", "killed"} => main = "exited"
    /\ port = "closed" => main = "exited" \/ outcome = "killed"
    /\ main = "join" => child = "dead"
    /\ stdinReader = "ended" \/ writer = "ended" => cancelled = "yes"
    /\ child \in {"running", "waiting", "settled"} \/ ending \in Final => writer # "request"
    /\ ending = "none" => child \notin {"settled", "closed"}
    /\ ending = "none" /\ child = "dead" => main = "exited"
    /\ ending # "none" => child \in {"settled", "closed", "dead"}
    /\ child = "settled" => ending \in Final
    /\ main = "exited" /\ status # "killed" => child = "dead"
    /\ deathSignal = "sent" => main = "exited"

\* What the flags of the supervisor and its exit status say of the run.
StatusInv ==
    /\ overflow = "yes" <=> outputReader = "failed"
    /\ outputReader = "failed" => ending = "broken" \/ outcome = "killed"
    /\ outputReader \in {"final", "done"} => ending \in Final
    /\ status = "0" => outputReader = "done"
    /\ status = "broken" => ending = "broken"
    /\ status = "126" => outputReader = "failed"
    /\ status = "125" => cancelled = "yes"
    /\ status = "124" => expired = "yes"

\* What must have happened for a letter to be in the mailbox.
LetterInv(l) ==
    /\ l.kind = "cancel" => cancelAsked = "yes"
    /\ l.kind \in {"callback_error", "broker_down"} => broker # "up"
    /\ l.kind \in Final => l.kind = ending
    /\ l.kind = "exit" => main = "exited" /\ l.status = status

\* The final event has reached the worker, or is in the first n letters.
FinalAmong(n) == result # "none" \/ \E k \in 1..n : mailbox[k].kind \in Final

CauseInv ==
    /\ \A k \in 1..Len(mailbox) : LetterInv(mailbox[k])
    /\ \A k \in 1..Len(mailbox) :
          mailbox[k].kind = "exit" /\ status = "0" => FinalAmong(k - 1)
    /\ outputReader \in {"final", "done"} => outcome # "none" \/ FinalAmong(Len(mailbox))
    /\ cancelSent = "yes" => cancelAsked = "yes" \/ broker # "up"
    /\ failure # "none" => broker # "up"
    /\ \A k \in 1..Len(stdin) : stdin[k] = "cancel" => cancelSent = "yes"
    /\ result \in {"none", ending}
    /\ outcome = "ok" => ending = "ok" /\ failure = "none"

\* The child's output: requests, one event for each time it waits, and the
\* final event last.
EventInv ==
    /\ \A k \in 1..Len(events) :
          \/ events[k].kind = "callbacks"
          \/ k = Len(events) /\ ending \in Final /\ events[k].kind = ending
    /\ outputReader = "up" /\ ending \in Final =>
          events # <<>> /\ events[Len(events)].kind \in Final
    /\ forwarded + Len(events) <= answered + 1
    /\ child \in {"spawned", "armed", "starting", "running"} =>
          forwarded + Len(events) <= answered

\* The requests that have left the queues and are not lost.
Held ==
    owed + channel + (IF writer = "writing" THEN 1 ELSE 0) + replies + answered

\* No thread of the supervisor has given up on a child that settles, and no
\* outcome but the child's has been returned.
Stands ==
    /\ cancelled = "yes" => ~ChildOpen /\ ending \notin Final
    /\ outcome # "none" /\ ending \in Final => outcome = ending

\* The conservation law, for q requests in the mailbox, the events and stdin:
\* none is doubled, and if none is lost nothing stands against the child.
Flow(q) ==
    /\ q + Held <= asked
    /\ stdinReader = "up" => q + owed + received <= asked
    /\ q + Held = asked /\ Undisturbed => Stands

Queued(m, e, i) ==
    /\ HasSum(mailbox, LetterWeight, m)
    /\ HasSum(events, LetterWeight, e)
    /\ HasSum(stdin, FrameWeight, i)

FlowInv == \E m, e, i \in Nat : Queued(m, e, i) /\ Flow(m + e + i)

IInv == TypeInv /\ BoundInv /\ StageInv /\ StatusInv /\ CauseInv /\ EventInv /\ FlowInv

-----------------------------------------------------------------------------
(* Letters.                                                                *)

LEMMA LetterKinds ==
    /\ \A k \in {"reply", "callback_error", "broker_down", "cancel", "ok", "error"} :
          [kind |-> k] \in Letters
    /\ \A n \in 0..MaxCalls : [kind |-> "callbacks", requests |-> n] \in Letters
    /\ \A s \in {"0", "124", "125", "126", "broken", "killed"} :
          [kind |-> "exit", status |-> s] \in Letters
    /\ \A l \in Letters : l.kind = "callbacks" => l.requests \in 0..MaxCalls
  BY DEF Letters

LEMMA Weights ==
    /\ LetterWeight \in [Letters -> Nat]
    /\ \A l \in Letters :
          /\ l.kind = "reply" => LetterWeight[l] = 1
          /\ l.kind = "callbacks" => LetterWeight[l] = l.requests
          /\ l.kind \notin {"reply", "callbacks"} => LetterWeight[l] = 0
    /\ FrameWeight \in [Frames -> Nat]
    /\ FrameWeight["reply"] = 1
    /\ FrameWeight["cancel"] = 0
<1>1. \A l \in Letters :
         (CASE l.kind = "reply" -> 1 [] l.kind = "callbacks" -> l.requests [] OTHER -> 0) \in Nat
  BY LetterKinds, IsolatedAssumption
<1>2. QED
  BY <1>1 DEF LetterWeight, FrameWeight, Frames

\* The first letter of the worker's mailbox.
LEMMA FirstLetter ==
    ASSUME TypeInv, NEW kinds, Takes(kinds)
    PROVE  /\ mailbox # <<>>
           /\ Head(mailbox) \in Letters
           /\ Head(mailbox).kind \in kinds
           /\ Head(mailbox) = mailbox[1]
           /\ Len(mailbox) \in Nat \ {0}
           /\ Tail(mailbox) \in Seq(Letters)
           /\ Len(Tail(mailbox)) = Len(mailbox) - 1
           /\ \A k \in 1..(Len(mailbox) - 1) : Tail(mailbox)[k] = mailbox[k + 1]
<1>1. mailbox \in Seq(Letters) /\ mailbox # <<>> /\ Head(mailbox).kind \in kinds
  BY DEF TypeInv, Takes
<1>2. QED
  BY <1>1, HeadTailProperties, EmptySeq

\* A queue that grows or shrinks is still one of letters, or of frames.
LEMMA Queues ==
    ASSUME TypeInv
    PROVE  /\ <<>> \in Seq(Letters)
           /\ \A l \in Letters : /\ Append(mailbox, l) \in Seq(Letters)
                                /\ Append(events, l) \in Seq(Letters)
           /\ \A f \in Frames : Append(stdin, f) \in Seq(Frames)
           /\ mailbox # <<>> => Tail(mailbox) \in Seq(Letters)
           /\ events # <<>> => Tail(events) \in Seq(Letters) /\ Head(events) \in Letters
           /\ stdin # <<>> => Tail(stdin) \in Seq(Frames)
<1>1. mailbox \in Seq(Letters) /\ events \in Seq(Letters) /\ stdin \in Seq(Frames)
  BY DEF TypeInv
<1>2. QED
  BY <1>1, AppendProperties, HeadTailProperties, EmptySeq

-----------------------------------------------------------------------------
(* Types and bounds.                                                       *)

LEMMA TypeKept ==
    TypeInv /\ BoundInv /\ StageInv /\ [Next]_vars => TypeInv' /\ BoundInv'
<1> SUFFICES ASSUME TypeInv, BoundInv, StageInv, [Next]_vars
             PROVE  TypeInv' /\ BoundInv'
  OBVIOUS
<1> USE DEF workerVars, outerVars, superVars, childVars, pipeVars
<1>0. MaxCalls \in Nat /\ MaxConcurrent \in Nat
  BY IsolatedAssumption
<1>1. CASE Expire \/ AskCancel \/ BrokerReplies \/ BrokerFails \/ BrokerEnds
  <2>1. mailbox' \in Seq(Letters)
    BY <1>1, LetterKinds, Queues
       DEF Expire, AskCancel, BrokerReplies, BrokerFails, BrokerEnds, Deliver, TypeInv
  <2>2. CASE Expire \/ AskCancel
    BY <2>1, <2>2 DEF Expire, AskCancel, TypeInv, BoundInv
  <2>3. CASE BrokerReplies
    BY <2>1, <2>3 DEF BrokerReplies, TypeInv, BoundInv
  <2>4. CASE BrokerFails \/ BrokerEnds
    BY <2>1, <2>4 DEF BrokerFails, BrokerEnds, TypeInv, BoundInv
  <2>5. QED
    BY <1>1, <2>2, <2>3, <2>4
<1>2. CASE WorkerKilled
  BY <1>2 DEF WorkerKilled, Return, TypeInv, BoundInv
<1>3. CASE TakeCancel \/ TakeCallbackError \/ TakeBrokerDown
  <2>1. mailbox' \in Seq(Letters) /\ stdin' \in Seq(Frames)
    BY <1>3, FirstLetter, Queues DEF TakeCancel, TakeCallbackError, TakeBrokerDown, CancelChild,
         CommandOnce, Command, Pass, Return, TypeInv, Frames
  <2>2. QED
    BY <1>3, <2>1 DEF TakeCancel, TakeCallbackError, TakeBrokerDown, CancelChild,
         CommandOnce, Command, Pass, Return, TypeInv, BoundInv, Failures
<1>4. CASE TakeReply
  <2>1. mailbox' \in Seq(Letters) /\ stdin' \in Seq(Frames)
    BY <1>4, FirstLetter, Queues DEF TakeReply, CommandOnce, Command, Pass, Return, TypeInv, Frames
  <2>2. QED
    BY <1>4, <2>1
       DEF TakeReply, CommandOnce, Command, Pass, Return, TypeInv, BoundInv
<1>5. CASE TakeCallbacks
  <2>1. mailbox' \in Seq(Letters) /\ Head(mailbox).requests \in 0..MaxCalls
    BY <1>5, FirstLetter, LetterKinds DEF TakeCallbacks, Pass
  <2>2. owed' \in Nat
    BY <1>5, <2>1, <1>0 DEF TakeCallbacks, Dispatch, TypeInv
  <2>3. broker' \in {broker, "refusing"}
    BY <1>5 DEF TakeCallbacks, Dispatch
  <2>4. QED
    BY <1>5, <2>1, <2>2, <2>3 DEF TakeCallbacks, Pass, TypeInv, BoundInv
<1>6. CASE TakeResult
  <2>1. mailbox' \in Seq(Letters) /\ result' \in {"ok", "error"}
    BY <1>6, FirstLetter DEF TakeResult, Pass
  <2>2. QED
    BY <1>6, <2>1 DEF TakeResult, Pass, TypeInv, BoundInv
<1>7. CASE TakeExit
  <2>1. outcome' \in Failures \cup {"ok", "error", "timeout", "cancelled", "worker_error"}
    BY <1>7 DEF TakeExit, Return, Outcome, TypeInv
  <2>2. QED
    BY <1>7, <2>1 DEF TakeExit, Return, TypeInv, BoundInv
<1>8. CASE ReadReply \/ ReadCancel
  <2>1. stdin' \in Seq(Frames)
    BY <1>8, Queues DEF ReadReply, ReadCancel
  <2>2. received' \in 0..(MaxCalls + 1)
    BY <1>8, <1>0 DEF ReadReply, ReadCancel, TypeInv, BoundInv
  <2>3. channel' \in 0..MaxConcurrent
    <3>1. channel \in 0..MaxConcurrent
      BY DEF TypeInv
    <3>2. UNCHANGED channel \/ (channel < MaxConcurrent /\ channel' = channel + 1)
      <4>1. UNCHANGED channel \/ (~ChannelFull /\ channel' = channel + 1)
        BY <1>8 DEF ReadReply, ReadCancel
      <4>2. ~ChannelFull => channel < MaxConcurrent
        BY <3>1, <1>0 DEF ChannelFull
      <4>3. QED
        BY <4>1, <4>2
    <3>3. channel < MaxConcurrent => channel + 1 \in 0..MaxConcurrent
      BY <3>1, <1>0
    <3>4. QED
      BY <3>1, <3>2, <3>3
  <2>4. stdinReader' = "up" => received' <= MaxCalls
    BY <1>8, <1>0, <2>2 DEF ReadReply, ReadCancel, StopReading, LastFrame
  <2>5. stdinReader' \in {"up", "ended"} /\ cancelled' \in {"no", "yes"}
    BY <1>8 DEF ReadReply, ReadCancel, StopReading, TypeInv
  <2>6. UNCHANGED <<mailbox, port, workerVars, outerVars, writer, forwarded,
                    outputReader, overflow, main, status, childVars, replies, events, expired>>
    BY <1>8 DEF ReadReply, ReadCancel
  <2>7. QED
    BY <2>1, <2>2, <2>3, <2>4, <2>5, <2>6 DEF TypeInv, BoundInv
<1>9. CASE ReadEof
  BY <1>9 DEF ReadEof, StopReading, TypeInv, BoundInv
<1>10. CASE WriteRequest \/ TakeFromChannel \/ WriteReply \/ WriteFails \/ ChannelEnds
  <2>1. CASE TakeFromChannel
    BY <1>0, <2>1 DEF TakeFromChannel, WriterMoves, TypeInv, BoundInv
  <2>2. CASE WriteReply
    BY <2>2 DEF WriteReply, WriterMoves, TypeInv, BoundInv
  <2>3. CASE WriteRequest \/ WriteFails \/ ChannelEnds
    BY <2>3 DEF WriteRequest, WriteFails, ChannelEnds, WriterMoves, TypeInv, BoundInv
  <2>4. QED
    BY <1>10, <2>1, <2>2, <2>3
<1>11. CASE Forward
  <2>1. events \in Seq(Letters) /\ events # <<>> /\ Head(events) \in Letters
    BY <1>11, Queues DEF Forward, TypeInv
  <2>2. mailbox' \in Seq(Letters) /\ events' \in Seq(Letters)
    BY <1>11, <2>1, Queues DEF Forward, OutputMoves, Deliver, TypeInv
  <2>3. /\ outputReader' \in {"up", "final", "failed"}
        /\ overflow' \in {"no", "yes"}
    BY <1>11 DEF Forward, OutputMoves, TypeInv
  <2>4. forwarded' \in 0..(MaxCalls + 2)
    <3>1. forwarded' = forwarded + 1 /\ forwarded <= MaxCalls + 1
      BY <1>11 DEF Forward, BoundInv
    <3>2. forwarded \in Nat
      BY <1>0 DEF TypeInv
    <3>3. QED
      BY <1>0, <3>1, <3>2
  <2>5. outputReader' = "up" => forwarded' <= MaxCalls + 1
    <3>1. HAVE outputReader' = "up"
    <3>2. ~TooManyFrames(forwarded + 1)
      BY <1>11, <3>1 DEF Forward, OutputMoves, TypeInv
    <3>3. QED
      BY <1>11, <3>2, <2>4, <1>0 DEF TooManyFrames, Forward
  <2>6. UNCHANGED <<port, workerVars, outerVars, received, stdinReader, channel, writer,
                    cancelled, main, status, childVars, stdin, replies, expired>>
    BY <1>11 DEF Forward, OutputMoves
  <2>7. QED
    BY <2>2, <2>3, <2>4, <2>5, <2>6 DEF TypeInv, BoundInv
<1>12. CASE OutputEnds
  BY <1>12 DEF OutputEnds, OutputMoves, TypeInv, BoundInv
<1>13. CASE Poll \/ Continue \/ KillChild \/ Join
  <2>1. main' \in {"poll", "check", "join", "exited"}
        /\ status' \in {"none", "0", "124", "125", "126", "broken"}
        /\ child' \in {child, "dead"}
    BY <1>13 DEF Poll, Continue, KillChild, Join, MainMoves, Reason
  <2>2. UNCHANGED <<mailbox, port, workerVars, outerVars, received, stdinReader, channel,
                    writer, cancelled, forwarded, outputReader, overflow, deathSignal,
                    ending, asked, answered, pipeVars, expired>>
    BY <1>13 DEF Poll, Continue, KillChild, Join, MainMoves
  <2>3. QED
    BY <2>1, <2>2 DEF TypeInv, BoundInv
<1>14. CASE SupervisorKilled
  BY <1>14 DEF SupervisorKilled, TypeInv, BoundInv
<1>15. CASE PortExits
  <2>1. mailbox' \in Seq(Letters)
    BY <1>15, LetterKinds, Queues DEF PortExits, Deliver, StageInv, TypeInv
  <2>2. QED
    BY <1>15, <2>1 DEF PortExits, TypeInv, BoundInv
<1>16. CASE Prepare \/ ChildStarts \/ Breaks \/ Closes \/ Exits \/ ParentDeathSignal
  BY <1>16 DEF Prepare, Arm, CheckParent, ChildStarts, Breaks, Closes, Exits,
       ParentDeathSignal, ChildMoves, TypeInv, BoundInv
<1>17. ASSUME NEW n \in 0..MaxCalls, Yields(n)
       PROVE  TypeInv' /\ BoundInv'
  <2>1. events' \in Seq(Letters)
    BY <1>17, LetterKinds, Queues DEF Yields
  <2>2. QED
    BY <1>17, <1>0, <2>1 DEF Yields, MayAsk, ChildMoves, TypeInv, BoundInv
<1>18. CASE ReadsCompletion
  BY <1>18, <1>0 DEF ReadsCompletion, ChildMoves, TypeInv, BoundInv
<1>19. ASSUME NEW value \in {"ok", "error"}, Settles(value)
       PROVE  TypeInv' /\ BoundInv'
  <2>1. events' \in Seq(Letters)
    BY <1>19, LetterKinds, Queues DEF Settles
  <2>2. QED
    BY <1>19, <2>1 DEF Settles, ChildMoves, TypeInv, BoundInv
<1>20. CASE UNCHANGED vars
  BY <1>20 DEF vars, TypeInv, BoundInv
<1>21. QED
  BY <1>1, <1>2, <1>3, <1>4, <1>5, <1>6, <1>7, <1>8, <1>9, <1>10, <1>11, <1>12, <1>13,
     <1>14, <1>15, <1>16, <1>17, <1>18, <1>19, <1>20
     DEF Next, OuterStep, WorkerStep, StdinStep, WriterStep, OutputStep, MainStep, ChildStep

-----------------------------------------------------------------------------
(* Stages.                                                                 *)

LEMMA StageKept == TypeInv /\ StageInv /\ CauseInv /\ [Next]_vars => StageInv'
<1> SUFFICES ASSUME TypeInv, StageInv, CauseInv, [Next]_vars PROVE StageInv'
  OBVIOUS
<1> USE DEF workerVars, outerVars, superVars, childVars, pipeVars, StageInv
<1>1. CASE Expire \/ AskCancel \/ BrokerReplies \/ BrokerFails \/ BrokerEnds
  <2>1. outcome = "none" \/ UNCHANGED mailbox
    BY <1>1 DEF Expire, AskCancel, BrokerReplies, BrokerFails, BrokerEnds
  <2>2. UNCHANGED <<port, workerVars, superVars, childVars>>
    BY <1>1 DEF Expire, AskCancel, BrokerReplies, BrokerFails, BrokerEnds
  <2>3. QED
    BY <2>1, <2>2
<1>2. CASE WorkerKilled
  BY <1>2 DEF WorkerKilled, Return
<1>3. CASE TakeCancel \/ TakeCallbackError \/ TakeBrokerDown \/ TakeReply
  <2>1. /\ UNCHANGED <<superVars, childVars>>
        /\ \/ UNCHANGED <<port, outcome>>
           \/ /\ port = "closed" /\ outcome' = "worker_error"
              /\ port' = "closed" /\ mailbox' = <<>>
        /\ outcome = "none"
    BY <1>3 DEF TakeCancel, TakeCallbackError, TakeBrokerDown, TakeReply, CancelChild,
         CommandOnce, Command, Pass, Return, Takes
  <2>2. QED
    BY <2>1
<1>4. CASE TakeCallbacks \/ TakeResult
  BY <1>4 DEF TakeCallbacks, TakeResult, Pass, Takes
<1>5. CASE TakeExit
  <2>1. 1 \in 1..Len(mailbox) /\ mailbox[1].kind = "exit"
    BY <1>5, FirstLetter DEF TakeExit
  <2>2. main = "exited" /\ UNCHANGED <<superVars, childVars>>
    BY <1>5, <2>1 DEF TakeExit, CauseInv, LetterInv
  <2>3. QED
    BY <1>5, <2>2 DEF TakeExit, Return
<1>6. CASE ReadReply
  <2>1. UNCHANGED <<mailbox, port, outcome, main, status, childVars, writer>>
    BY <1>6 DEF ReadReply
  <2>2. \/ stdinReader' = "ended" /\ cancelled' = "yes"
        \/ UNCHANGED <<stdinReader, cancelled>>
    BY <1>6 DEF ReadReply, StopReading
  <2>3. QED
    BY <2>1, <2>2
<1>7. CASE ReadCancel \/ ReadEof
  BY <1>7 DEF ReadCancel, ReadEof, StopReading
<1>8. CASE WriteRequest \/ TakeFromChannel \/ WriteReply
  BY <1>8 DEF WriteRequest, TakeFromChannel, WriteReply, WriterMoves
<1>9. CASE WriteFails \/ ChannelEnds
  BY <1>9 DEF WriteFails, ChannelEnds, WriterMoves
<1>10. CASE Forward \/ OutputEnds
  <2>1. /\ UNCHANGED <<port, workerVars, stdinReader, writer, cancelled, main, status,
                       childVars>>
        /\ UNCHANGED mailbox \/ port = "open"
    BY <1>10 DEF Forward, OutputEnds, OutputMoves
  <2>2. QED
    BY <2>1
<1>11. CASE Poll \/ Continue
  BY <1>11 DEF Poll, Continue, MainMoves
<1>12. CASE KillChild
  BY <1>12 DEF KillChild, MainMoves, Reason, Final
<1>13. CASE Join
  BY <1>13 DEF Join, MainMoves
<1>14. CASE SupervisorKilled
  BY <1>14 DEF SupervisorKilled, Supervising
<1>15. CASE PortExits
  BY <1>15 DEF PortExits
<1>16. CASE Arm \/ ChildStarts \/ Closes
  BY <1>16 DEF Arm, ChildStarts, Closes, ChildMoves, Final
<1>17. CASE CheckParent
  BY <1>17 DEF CheckParent, ChildMoves, Final
<1>18. CASE Breaks
  BY <1>18 DEF Breaks, ChildMoves, Final
<1>19. CASE Exits
  BY <1>19 DEF Exits, ChildMoves
<1>20. CASE ParentDeathSignal
  BY <1>20 DEF ParentDeathSignal
<1>21. ASSUME NEW n \in 0..MaxCalls, Yields(n) PROVE StageInv'
  BY <1>21 DEF Yields, ChildMoves
<1>22. CASE ReadsCompletion
  BY <1>22 DEF ReadsCompletion, ChildMoves
<1>23. ASSUME NEW value \in {"ok", "error"}, Settles(value) PROVE StageInv'
  BY <1>23 DEF Settles, ChildMoves, Final
<1>24. CASE UNCHANGED vars
  BY <1>24 DEF vars
<1>25. QED
  BY <1>1, <1>2, <1>3, <1>4, <1>5, <1>6, <1>7, <1>8, <1>9, <1>10, <1>11, <1>12, <1>13,
     <1>14, <1>15, <1>16, <1>17, <1>18, <1>19, <1>20, <1>21, <1>22, <1>23, <1>24
     DEF Next, OuterStep, WorkerStep, StdinStep, WriterStep, OutputStep, MainStep,
         ChildStep, Prepare

-----------------------------------------------------------------------------
(* The supervisor's flags and its status.                                  *)

\* No more is answered or held than was asked for.
LEMMA Conserved ==
    ASSUME TypeInv, FlowInv
    PROVE  /\ owed \in 0..asked
           /\ channel + answered <= asked
           /\ replies \in 0..asked
           /\ answered \in 0..asked
           /\ asked <= MaxCalls
<1>1. PICK m, e, i \in Nat : Flow(m + e + i)
  BY DEF FlowInv
<1>2. m + e + i \in Nat /\ m + e + i + Held <= asked
  BY <1>1 DEF Flow
<1>3. /\ owed \in Nat /\ channel \in Nat /\ replies \in Nat /\ answered \in Nat
      /\ asked \in Nat /\ asked <= MaxCalls
      /\ (IF writer = "writing" THEN 1 ELSE 0) \in Nat
  BY IsolatedAssumption DEF TypeInv
<1>4. QED
  BY <1>2, <1>3 DEF Held

\* What the reader of the output finds first.
LEMMA FirstEvent ==
    ASSUME TypeInv, EventInv, events # <<>>
    PROVE  /\ Head(events) \in Letters
           /\ Head(events) = events[1]
           /\ Len(events) \in Nat \ {0}
           /\ Tail(events) \in Seq(Letters)
           /\ Len(Tail(events)) = Len(events) - 1
           /\ \A k \in 1..(Len(events) - 1) : Tail(events)[k] = events[k + 1]
           /\ \/ Head(events).kind = "callbacks"
              \/ Len(events) = 1 /\ ending \in Final /\ Head(events).kind = ending
<1>1. events \in Seq(Letters)
  BY DEF TypeInv
<1>2. /\ Head(events) \in Letters
      /\ Head(events) = events[1]
      /\ Len(events) \in Nat \ {0}
      /\ Tail(events) \in Seq(Letters)
      /\ Len(Tail(events)) = Len(events) - 1
      /\ \A k \in 1..(Len(events) - 1) : Tail(events)[k] = events[k + 1]
  BY <1>1, HeadTailProperties, EmptySeq
<1>3. 1 \in 1..Len(events)
  BY <1>2
<1>4. QED
  BY <1>2, <1>3 DEF EventInv

\* The reader of the output never gives up on a child within its budget
\* while the port is open.
LEMMA ForwardFits ==
    ASSUME TypeInv, EventInv, FlowInv, Forward
    PROVE  ~TooManyFrames(forwarded + 1)
<1>1. events # <<>>
  BY DEF Forward
<1>2. Len(events) \in Nat \ {0} /\ forwarded \in Nat /\ answered \in Nat
      /\ forwarded + Len(events) <= answered + 1
  BY <1>1, FirstEvent, IsolatedAssumption DEF EventInv, TypeInv
<1>3. answered <= MaxCalls /\ MaxCalls \in Nat
  BY <1>2, Conserved, IsolatedAssumption DEF TypeInv
<1>4. QED
  BY <1>2, <1>3 DEF TooManyFrames

LEMMA StatusKept ==
    TypeInv /\ StageInv /\ StatusInv /\ EventInv /\ FlowInv /\ [Next]_vars => StatusInv'
<1> SUFFICES ASSUME TypeInv, StageInv, StatusInv, EventInv, FlowInv, [Next]_vars
             PROVE  StatusInv'
  OBVIOUS
<1> USE DEF workerVars, outerVars, superVars, childVars, pipeVars, StatusInv
<1>1. CASE Expire \/ AskCancel \/ BrokerReplies \/ BrokerFails \/ BrokerEnds \/ PortExits
  <2>1. UNCHANGED <<outcome, superVars, childVars>> /\ (expired = "yes" => expired' = "yes")
    BY <1>1 DEF Expire, AskCancel, BrokerReplies, BrokerFails, BrokerEnds, PortExits
  <2>2. QED
    BY <2>1
<1>2. CASE WorkerKilled
  BY <1>2 DEF WorkerKilled, Return
<1>3. CASE WorkerStep
  <2>1. outcome = "none" /\ UNCHANGED <<superVars, childVars, expired>>
    BY <1>3 DEF WorkerStep, TakeCancel, TakeCallbackError, TakeBrokerDown, TakeReply,
         TakeCallbacks, TakeResult, TakeExit, CancelChild, Takes
  <2>2. QED
    BY <2>1
<1>4. CASE ReadReply
  <2>1. UNCHANGED <<outcome, forwarded, outputReader, overflow, main, status, childVars, expired>>
        /\ (cancelled = "yes" => cancelled' = "yes")
    BY <1>4 DEF ReadReply, StopReading
  <2>2. QED
    BY <2>1
<1>5. CASE ReadCancel \/ ReadEof
  BY <1>5 DEF ReadCancel, ReadEof, StopReading
<1>6. CASE WriterStep
  BY <1>6 DEF WriterStep, WriteRequest, TakeFromChannel, WriteReply, WriteFails,
       ChannelEnds, WriterMoves
<1>7. CASE Forward
  <2>1. /\ outputReader = "up" /\ main # "exited"
        /\ UNCHANGED <<outcome, port, main, status, cancelled, childVars, expired>>
    BY <1>7 DEF Forward, OutputMoves, Supervising
  <2>2. CASE port = "closed"
    <3>1. outcome = "killed"
      BY <2>1, <2>2 DEF StageInv
    <3>2. outputReader' = "failed" /\ overflow' = "yes"
      BY <1>7, <2>2 DEF Forward
    <3>3. QED
      BY <2>1, <3>1, <3>2 DEF StageInv
  <2>3. CASE port = "open"
    <3>1. ~TooManyFrames(forwarded + 1)
      BY <1>7, ForwardFits
    <3>2. \/ outputReader' = "up"
          \/ outputReader' = "final" /\ Head(events).kind \in {"ok", "error"}
      BY <1>7, <2>3, <3>1 DEF Forward
    <3>3. events # <<>> /\ overflow' = overflow
      BY <1>7, <3>2 DEF Forward
    <3>4. outputReader' = "final" => ending \in Final
      BY <3>2, <3>3, FirstEvent
    <3>5. QED
      BY <2>1, <3>2, <3>3, <3>4 DEF StageInv
  <2>4. QED
    BY <2>2, <2>3 DEF TypeInv
<1>8. CASE OutputEnds
  <2>1. /\ outputReader \in {"up", "final"} /\ main # "exited" /\ events = <<>> /\ ~ChildOpen
        /\ UNCHANGED <<outcome, port, main, status, cancelled, childVars, expired>>
    BY <1>8 DEF OutputEnds, OutputMoves, Supervising
  <2>2. outputReader = "up" => ending = "broken"
    <3>1. HAVE outputReader = "up"
    <3>2. ending \notin Final
      BY <2>1, <3>1 DEF EventInv
    <3>3. ending # "none"
      BY <2>1 DEF StageInv, ChildOpen, TypeInv
    <3>4. QED
      BY <3>2, <3>3 DEF TypeInv, Final
  <2>3. /\ outputReader = "up" => outputReader' = "failed" /\ overflow' = "yes"
        /\ outputReader = "final" => outputReader' = "done" /\ overflow' = "no"
    BY <1>8 DEF OutputEnds
  <2>4. QED
    BY <2>1, <2>2, <2>3 DEF StageInv
<1>9. CASE Poll \/ Continue
  BY <1>9 DEF Poll, Continue, MainMoves
<1>10. CASE KillChild
  BY <1>10 DEF KillChild, MainMoves, Reason, TypeInv
<1>11. CASE Join
  BY <1>11 DEF Join, MainMoves
<1>12. CASE SupervisorKilled
  BY <1>12 DEF SupervisorKilled
<1>13. CASE ChildStep
  <2>1. ending = "none" \/ UNCHANGED ending
    BY <1>13 DEF ChildStep, Prepare, Arm, CheckParent, ChildStarts, Yields, ReadsCompletion,
         Settles, Breaks, Closes, Exits, ParentDeathSignal, ChildMoves, StageInv
  <2>2. UNCHANGED <<outcome, superVars, expired>>
    BY <1>13 DEF ChildStep, Prepare, Arm, CheckParent, ChildStarts, Yields, ReadsCompletion,
         Settles, Breaks, Closes, Exits, ParentDeathSignal, ChildMoves
  <2>3. QED
    BY <2>1, <2>2 DEF Final
<1>14. CASE UNCHANGED vars
  BY <1>14 DEF vars
<1>15. QED
  BY <1>1, <1>2, <1>3, <1>4, <1>5, <1>6, <1>7, <1>8, <1>9, <1>10, <1>11, <1>12, <1>13, <1>14
     DEF Next, OuterStep, StdinStep, OutputStep, MainStep

-----------------------------------------------------------------------------
(* Events.                                                                 *)

LEMMA EventKept == TypeInv /\ StageInv /\ EventInv /\ [Next]_vars => EventInv'
<1> SUFFICES ASSUME TypeInv, StageInv, EventInv, [Next]_vars PROVE EventInv'
  OBVIOUS
<1> USE DEF workerVars, outerVars, superVars, childVars, pipeVars
<1>0. events \in Seq(Letters) /\ Len(events) \in Nat /\ forwarded \in Nat /\ answered \in Nat
  BY LenProperties, IsolatedAssumption DEF TypeInv
<1>1. CASE OuterStep \/ StdinStep \/ WriterStep \/ MainStep \/ SupervisorKilled \/ PortExits
  <2>1. UNCHANGED <<events, ending, forwarded, answered, outputReader>>
    BY <1>1 DEF OuterStep, Expire, AskCancel, BrokerReplies, BrokerFails, BrokerEnds,
         WorkerKilled, StdinStep, ReadReply, ReadCancel, ReadEof, WriterStep, WriteRequest,
         TakeFromChannel, WriteReply, WriteFails, ChannelEnds, WriterMoves, MainStep, Poll,
         Continue, KillChild, Join, MainMoves, SupervisorKilled, PortExits
  <2>2. child' \in {child, "dead"}
    BY <1>1 DEF OuterStep, Expire, AskCancel, BrokerReplies, BrokerFails, BrokerEnds,
         WorkerKilled, StdinStep, ReadReply, ReadCancel, ReadEof, WriterStep, WriteRequest,
         TakeFromChannel, WriteReply, WriteFails, ChannelEnds, WriterMoves, MainStep, Poll,
         Continue, KillChild, Join, MainMoves, SupervisorKilled, PortExits
  <2>3. QED
    BY <2>1, <2>2 DEF EventInv
<1>2. CASE WorkerStep
  <2>1. UNCHANGED <<events, child, ending, forwarded, answered, outputReader>>
    BY <1>2 DEF WorkerStep, TakeCancel, TakeCallbackError, TakeBrokerDown, TakeReply,
         TakeCallbacks, TakeResult, TakeExit, CancelChild
  <2>2. QED
    BY <2>1 DEF EventInv
<1>3. CASE Forward
  <2>1. /\ events # <<>> /\ events' = Tail(events) /\ forwarded' = forwarded + 1
        /\ outputReader = "up"
        /\ UNCHANGED <<child, ending, answered, port>>
    BY <1>3 DEF Forward, OutputMoves
  <2>2. /\ Len(events) \in Nat \ {0}
        /\ Len(events') = Len(events) - 1
        /\ \A k \in 1..(Len(events) - 1) : events'[k] = events[k + 1]
    BY <2>1, FirstEvent
  <2>3. ASSUME NEW k \in 1..Len(events')
        PROVE  \/ events'[k].kind = "callbacks"
               \/ k = Len(events') /\ ending \in Final /\ events'[k].kind = ending
    <3>1. k + 1 \in 1..Len(events) /\ events'[k] = events[k + 1]
          /\ (k + 1 = Len(events) => k = Len(events'))
      BY <2>2
    <3>2. QED
      BY <3>1 DEF EventInv
  <2>4. outputReader' = "up" /\ ending \in Final =>
           events' # <<>> /\ events'[Len(events')].kind \in Final
    <3>1. HAVE outputReader' = "up" /\ ending \in Final
    <3>2. events[Len(events)].kind \in Final
      BY <2>1, <3>1 DEF EventInv
    <3>3. Head(events).kind \notin {"ok", "error"} \/ port # "open"
      BY <1>3, <3>1 DEF Forward
    <3>4. port = "open"
      BY <1>3, <3>1 DEF Forward, TypeInv
    <3>5. Len(events) # 1
      BY <2>1, <3>2, <3>3, <3>4, FirstEvent DEF Final
    <3>6. Len(events') \in 1..(Len(events) - 1) /\ Len(events') + 1 = Len(events)
      BY <2>2, <3>5
    <3>7. events'[Len(events')] = events[Len(events)]
      BY <2>2, <3>6
    <3>8. events' # <<>>
      BY <3>6, EmptySeq
    <3>9. QED
      BY <3>2, <3>7, <3>8
  <2>5. forwarded' + Len(events') = forwarded + Len(events)
    BY <1>0, <2>1, <2>2
  <2>6. QED
    BY <2>1, <2>3, <2>4, <2>5 DEF EventInv
<1>4. CASE OutputEnds
  <2>1. UNCHANGED <<events, child, ending, forwarded, answered>> /\ outputReader' # "up"
    BY <1>4 DEF OutputEnds, OutputMoves
  <2>2. QED
    BY <2>1 DEF EventInv
<1>5. CASE Prepare \/ ChildStarts \/ Breaks \/ Closes \/ Exits \/ ParentDeathSignal
  <2>1. /\ UNCHANGED <<events, forwarded, answered, outputReader>>
        /\ UNCHANGED ending \/ (ending = "none" /\ ending' = "broken")
    BY <1>5 DEF Prepare, Arm, CheckParent, ChildStarts, Breaks, Closes, Exits,
         ParentDeathSignal, ChildMoves, StageInv
  <2>2. child' \in {"spawned", "armed", "starting", "running"} =>
           child \in {"spawned", "armed", "starting", "running"}
    BY <1>5 DEF Prepare, Arm, CheckParent, ChildStarts, Breaks, Closes, Exits,
         ParentDeathSignal, ChildMoves
  <2>3. QED
    BY <2>1, <2>2 DEF EventInv, Final
<1>6. CASE \/ \E n \in 0..MaxCalls : Yields(n)
           \/ \E value \in {"ok", "error"} : Settles(value)
  <2>1. PICK l \in Letters :
           /\ events' = Append(events, l)
           /\ \/ l.kind = "callbacks" /\ UNCHANGED ending
              \/ l.kind \in Final /\ ending' = l.kind
    BY <1>6, LetterKinds DEF Yields, Settles, Final
  <2>2. /\ child = "running" /\ child' \in {"waiting", "settled"} /\ ending = "none"
        /\ UNCHANGED <<forwarded, answered, outputReader>>
    BY <1>6 DEF Yields, Settles, ChildMoves, StageInv
  <2>3. /\ Len(events') = Len(events) + 1
        /\ \A k \in 1..Len(events) : events'[k] = events[k]
        /\ events'[Len(events) + 1] = l
    BY <1>0, <2>1, AppendProperties
  <2>4. \A k \in 1..Len(events) : events[k].kind = "callbacks"
    BY <2>2 DEF EventInv, Final
  <2>5. ASSUME NEW k \in 1..Len(events')
        PROVE  \/ events'[k].kind = "callbacks"
               \/ k = Len(events') /\ ending' \in Final /\ events'[k].kind = ending'
    <3>1. k \in 1..Len(events) \/ k = Len(events) + 1
      BY <1>0, <2>3
    <3>2. QED
      BY <2>1, <2>3, <2>4, <3>1 DEF Final
  <2>6. ending' \in Final => events' # <<>> /\ events'[Len(events')].kind \in Final
    <3>1. HAVE ending' \in Final
    <3>2. l.kind \in Final
      BY <2>1, <2>2, <3>1 DEF Final
    <3>3. Len(events') # 0
      BY <1>0, <2>3
    <3>4. QED
      BY <2>3, <3>2, <3>3, EmptySeq
  <2>7. forwarded + Len(events') <= answered + 1
    BY <1>0, <2>2, <2>3 DEF EventInv
  <2>8. QED
    BY <2>2, <2>5, <2>6, <2>7 DEF EventInv
<1>7. CASE ReadsCompletion
  <2>1. /\ UNCHANGED <<events, ending, forwarded, outputReader>>
        /\ answered' = answered + 1
    BY <1>7 DEF ReadsCompletion, ChildMoves
  <2>2. QED
    BY <1>0, <2>1 DEF EventInv
<1>8. CASE UNCHANGED vars
  BY <1>8 DEF vars, EventInv
<1>9. QED
  BY <1>1, <1>2, <1>3, <1>4, <1>5, <1>6, <1>7, <1>8 DEF Next, OutputStep, ChildStep

-----------------------------------------------------------------------------
(* Which steps move what.                                                  *)

LEMMA Movers ==
    ASSUME [Next]_vars
    PROVE  /\ UNCHANGED cancelAsked \/ AskCancel
           /\ \/ UNCHANGED broker
              \/ BrokerFails \/ BrokerEnds
              \/ TakeCallbacks /\ broker = "up" /\ broker' = "refusing"
           /\ UNCHANGED expired \/ Expire
           /\ \/ UNCHANGED <<cancelSent, failure>>
              \/ TakeCancel \/ TakeCallbackError \/ TakeBrokerDown
           /\ UNCHANGED result \/ TakeResult
           /\ \/ UNCHANGED <<outcome, port>>
              \/ WorkerKilled \/ TakeExit \/ PortExits
              \/ TakeCancel \/ TakeCallbackError \/ TakeBrokerDown \/ TakeReply
           /\ \/ UNCHANGED stdin
              \/ TakeCancel \/ TakeCallbackError \/ TakeBrokerDown \/ TakeReply
              \/ ReadReply \/ ReadCancel
           /\ \/ UNCHANGED cancelled
              \/ ReadReply \/ ReadCancel \/ ReadEof \/ WriteFails \/ ChannelEnds
           /\ UNCHANGED <<outputReader, overflow>> \/ Forward \/ OutputEnds
           /\ UNCHANGED <<main, status>> \/ MainStep \/ SupervisorKilled
           /\ UNCHANGED <<child, ending>> \/ ChildStep \/ KillChild
<1> USE DEF workerVars, outerVars, superVars, childVars, pipeVars
<1>1. CASE OuterStep
  BY <1>1 DEF OuterStep, Expire, AskCancel, BrokerReplies, BrokerFails, BrokerEnds,
       WorkerKilled
<1>2. CASE TakeCancel \/ TakeCallbackError \/ TakeBrokerDown \/ TakeReply
  BY <1>2 DEF TakeCancel, TakeCallbackError, TakeBrokerDown, TakeReply, CancelChild
<1>3. CASE TakeCallbacks \/ TakeResult \/ TakeExit
  BY <1>3 DEF TakeCallbacks, TakeResult, TakeExit, Pass, Dispatch
<1>4. CASE StdinStep
  BY <1>4 DEF StdinStep, ReadReply, ReadCancel, ReadEof
<1>5. CASE WriterStep
  BY <1>5 DEF WriterStep, WriteRequest, TakeFromChannel, WriteReply, WriteFails,
       ChannelEnds, WriterMoves
<1>6. CASE OutputStep
  BY <1>6 DEF OutputStep, Forward, OutputEnds, OutputMoves
<1>7. CASE MainStep
  BY <1>7 DEF MainStep, Poll, Continue, KillChild, Join, MainMoves
<1>8. CASE SupervisorKilled \/ PortExits \/ UNCHANGED vars
  BY <1>8 DEF SupervisorKilled, PortExits, vars
<1>9. CASE ChildStep
  <2>1. UNCHANGED <<port, workerVars, outerVars, superVars, stdin, expired>>
    BY <1>9 DEF ChildStep, Prepare, Arm, CheckParent, ChildStarts, Yields, ReadsCompletion,
         Settles, Breaks, Closes, Exits, ParentDeathSignal, ChildMoves
  <2>2. QED
    BY <1>9, <2>1
<1>10. QED
  BY <1>1, <1>2, <1>3, <1>4, <1>5, <1>6, <1>7, <1>8, <1>9 DEF Next, WorkerStep

-----------------------------------------------------------------------------
(* Causes.                                                                 *)

\* Nothing that has happened is undone.
LEMMA NothingUndone ==
    ASSUME TypeInv, StageInv, [Next]_vars
    PROVE  /\ cancelAsked = "yes" => cancelAsked' = "yes"
           /\ broker # "up" => broker' # "up"
           /\ cancelSent = "yes" => cancelSent' = "yes"
           /\ port = "closed" => port' = "closed"
           /\ outcome # "none" => UNCHANGED <<outcome, failure>>
           /\ ending # "none" => ending' = ending
           /\ main = "exited" => main' = "exited" /\ status' = status
           /\ result # "none" => result' # "none"
           /\ ~ChildOpen => ~ChildOpen' /\ ending' = ending
           /\ cancelled = "yes" => cancelled' = "yes"
           /\ expired = "yes" => expired' = "yes"
<1>1. /\ cancelAsked = "yes" => cancelAsked' = "yes"
      /\ broker # "up" => broker' # "up"
      /\ expired = "yes" => expired' = "yes"
      /\ cancelSent = "yes" => cancelSent' = "yes"
      /\ result # "none" => result' # "none"
  BY Movers DEF AskCancel, BrokerFails, BrokerEnds, Expire, TakeCancel, TakeCallbackError,
       TakeBrokerDown, CancelChild, TakeResult, Takes
<1>2. port = "closed" => port' = "closed"
  <2>1. CASE UNCHANGED <<outcome, port>>
    BY <2>1
  <2>2. CASE WorkerKilled \/ TakeExit \/ PortExits
    BY <2>2 DEF WorkerKilled, TakeExit, PortExits, Return
  <2>3. CASE TakeCancel \/ TakeCallbackError \/ TakeBrokerDown \/ TakeReply
    BY <2>3 DEF TakeCancel, TakeCallbackError, TakeBrokerDown, TakeReply, CancelChild,
         CommandOnce, Command, Pass, Return
  <2>4. QED
    BY <2>1, <2>2, <2>3, Movers
<1>2a. outcome # "none" => UNCHANGED <<outcome, failure>>
  <2>1. SUFFICES ASSUME outcome # "none" PROVE UNCHANGED <<outcome, failure>>
    OBVIOUS
  <2>2. ~TakeCancel /\ ~TakeCallbackError /\ ~TakeBrokerDown /\ ~TakeReply /\ ~TakeExit
        /\ ~WorkerKilled
    BY <2>1 DEF TakeCancel, TakeCallbackError, TakeBrokerDown, TakeReply, TakeExit,
         WorkerKilled, Takes
  <2>3. UNCHANGED failure
    BY <2>2, Movers
  <2>4. UNCHANGED outcome
    <3>1. UNCHANGED <<outcome, port>> \/ PortExits
      BY <2>2, Movers
    <3>2. QED
      BY <3>1 DEF PortExits, workerVars
  <2>5. QED
    BY <2>3, <2>4
<1>3. cancelled = "yes" => cancelled' = "yes"
  BY Movers DEF ReadReply, ReadCancel, ReadEof, StopReading, WriteFails, ChannelEnds
<1>4. main = "exited" => main' = "exited" /\ status' = status
  BY Movers DEF MainStep, Poll, Continue, KillChild, Join, SupervisorKilled, Supervising
<1>5. /\ ending # "none" => ending' = ending
      /\ ~ChildOpen => ~ChildOpen' /\ ending' = ending
  <2>1. CASE ChildStep
    BY <2>1 DEF ChildStep, Prepare, Arm, CheckParent, ChildStarts, Yields, ReadsCompletion,
         Settles, Breaks, Closes, Exits, ParentDeathSignal, ChildMoves, ChildOpen,
         childVars, StageInv
  <2>2. CASE KillChild
    BY <2>2 DEF KillChild, MainMoves, ChildOpen
  <2>3. QED
    BY <2>1, <2>2, Movers DEF ChildOpen
<1>6. QED
  BY <1>1, <1>2, <1>2a, <1>3, <1>4, <1>5

\* A letter keeps its cause.
LEMMA LetterKept ==
    ASSUME TypeInv, StageInv, [Next]_vars, NEW l, LetterInv(l)
    PROVE  LetterInv(l)'
<1>1. ending \in Final => ending # "none"
  BY DEF Final
<1>2. QED
  BY <1>1, NothingUndone DEF LetterInv

\* What a step does to the mailbox.
MailboxMoves ==
    \/ UNCHANGED mailbox
    \/ mailbox' = <<>> /\ outcome' # "none"
    \/ /\ mailbox # <<>>
       /\ mailbox' = Tail(mailbox)
       /\ Head(mailbox).kind \in Final => result' # "none"
    \/ \E l \in Letters :
          /\ Deliver(l)
          /\ LetterInv(l)'
          /\ l.kind = "exit" /\ status' = "0" => FinalAmong(Len(mailbox))

LEMMA MailboxStep ==
    ASSUME TypeInv, StageInv, StatusInv, CauseInv, EventInv, [Next]_vars
    PROVE  MailboxMoves
<1> USE DEF workerVars, outerVars, superVars, childVars, pipeVars
<1>1. CASE Expire \/ StdinStep \/ WriterStep \/ OutputEnds
  BY <1>1 DEF Expire, StdinStep, ReadReply, ReadCancel, ReadEof, WriterStep, WriteRequest,
       TakeFromChannel, WriteReply, WriteFails, ChannelEnds, WriterMoves, OutputEnds,
       MailboxMoves
<1>2. CASE MainStep \/ SupervisorKilled \/ ChildStep \/ UNCHANGED vars
  BY <1>2 DEF MainStep, Poll, Continue, KillChild, Join, MainMoves, SupervisorKilled,
       ChildStep, Prepare, Arm, CheckParent, ChildStarts, Yields, ReadsCompletion, Settles,
       Breaks, Closes, Exits, ParentDeathSignal, ChildMoves, vars, MailboxMoves
<1>3. CASE AskCancel
  <2>1. Deliver([kind |-> "cancel"]) /\ cancelAsked' = "yes"
    BY <1>3 DEF AskCancel
  <2>2. LetterInv([kind |-> "cancel"])'
    BY <2>1 DEF LetterInv, Final
  <2>3. QED
    BY <2>1, <2>2, LetterKinds DEF MailboxMoves
<1>4. CASE BrokerReplies
  <2>1. Deliver([kind |-> "reply"]) /\ LetterInv([kind |-> "reply"])'
    BY <1>4 DEF BrokerReplies, LetterInv, Final
  <2>2. QED
    BY <2>1, LetterKinds DEF MailboxMoves
<1>5. CASE BrokerFails
  <2>1. Deliver([kind |-> "callback_error"]) /\ LetterInv([kind |-> "callback_error"])'
    BY <1>5 DEF BrokerFails, LetterInv, Final
  <2>2. QED
    BY <2>1, LetterKinds DEF MailboxMoves
<1>6. CASE BrokerEnds
  <2>1. Deliver([kind |-> "broker_down"]) /\ LetterInv([kind |-> "broker_down"])'
    BY <1>6 DEF BrokerEnds, LetterInv, Final
  <2>2. QED
    BY <2>1, LetterKinds DEF MailboxMoves
<1>7. CASE WorkerKilled \/ TakeExit
  <2>1. mailbox' = <<>> /\ outcome' # "none"
    BY <1>7 DEF WorkerKilled, TakeExit, Return, Outcome, TypeInv
  <2>2. QED
    BY <2>1 DEF MailboxMoves
<1>8. CASE TakeCancel \/ TakeCallbackError \/ TakeBrokerDown \/ TakeReply
  <2>1. /\ mailbox # <<>>
        /\ Head(mailbox).kind \notin Final
        /\ mailbox' = Tail(mailbox) \/ (mailbox' = <<>> /\ outcome' = "worker_error")
    BY <1>8 DEF TakeCancel, TakeCallbackError, TakeBrokerDown, TakeReply, CancelChild,
         CommandOnce, Command, Pass, Return, Takes, Final
  <2>2. QED
    BY <2>1 DEF MailboxMoves
<1>9. CASE TakeCallbacks \/ TakeResult
  <2>1. /\ mailbox # <<>>
        /\ mailbox' = Tail(mailbox)
        /\ Head(mailbox).kind \in Final => result' # "none"
    BY <1>9 DEF TakeCallbacks, TakeResult, Takes, Pass, Final
  <2>2. QED
    BY <2>1 DEF MailboxMoves
<1>10. CASE Forward
  <2>1. UNCHANGED mailbox \/ Deliver(Head(events))
    BY <1>10 DEF Forward
  <2>2. /\ Head(events) \in Letters
        /\ Head(events).kind = "callbacks" \/ Head(events).kind \in Final
        /\ Head(events).kind \in Final => Head(events).kind = ending'
    BY <1>10, FirstEvent DEF Forward, OutputMoves, Final
  <2>3. PICK l \in Letters : l = Head(events)
    BY <2>2
  <2>4. LetterInv(l)' /\ l.kind # "exit"
    BY <2>2, <2>3 DEF LetterInv, Final
  <2>5. QED
    BY <2>1, <2>3, <2>4 DEF MailboxMoves
<1>11. CASE PortExits
  <2>1. /\ Deliver([kind |-> "exit", status |-> status])
        /\ main = "exited" /\ port = "open" /\ UNCHANGED <<main, status>>
    BY <1>11 DEF PortExits
  <2>2. PICK l \in Letters : l = [kind |-> "exit", status |-> status]
    BY <2>1, LetterKinds DEF StageInv, TypeInv
  <2>3. LetterInv(l)'
    BY <2>1, <2>2 DEF LetterInv, Final
  <2>4. status = "0" => FinalAmong(Len(mailbox))
    BY <2>1 DEF StatusInv, StageInv, CauseInv
  <2>5. QED
    BY <2>1, <2>2, <2>3, <2>4 DEF MailboxMoves
<1>12. QED
  BY <1>1, <1>2, <1>3, <1>4, <1>5, <1>6, <1>7, <1>8, <1>9, <1>10, <1>11
     DEF Next, OuterStep, WorkerStep, OutputStep

\* The reply the supervisor reads is not its last frame, and it fits the
\* channel unless the guest has gone beyond its limit.
LEMMA ReplyFits ==
    ASSUME TypeInv, FlowInv, ReadReply
    PROVE  (ChannelFull => BeyondLimit) /\ ~LastFrame(received + 1)
<1>1. PICK m, e, i \in Nat : Queued(m, e, i) /\ Flow(m + e + i)
  BY DEF FlowInv
<1>2. stdin \in Seq(Frames) /\ stdin # <<>> /\ Head(stdin) = "reply" /\ stdinReader = "up"
  BY DEF ReadReply, TypeInv
<1>3. 1 <= i
  BY <1>1, <1>2, SumOfTail, Weights DEF Queued
<1>4. /\ owed \in Nat /\ channel \in Nat /\ replies \in Nat /\ answered \in Nat
      /\ asked \in Nat /\ received \in Nat /\ asked <= MaxCalls
      /\ (IF writer = "writing" THEN 1 ELSE 0) \in Nat
      /\ MaxCalls \in Nat /\ MaxConcurrent \in Nat
  BY IsolatedAssumption DEF TypeInv
<1>5. m + e + i + Held <= asked /\ m + e + i + owed + received <= asked
  BY <1>1, <1>2 DEF Flow
<1>6. 1 + channel + answered <= asked
  BY <1>3, <1>4, <1>5 DEF Held
<1>7. 1 + received <= asked
  BY <1>3, <1>4, <1>5
<1>8. QED
  BY <1>4, <1>6, <1>7 DEF BeyondLimit, ChannelFull, LastFrame

\* A final event that has arrived does not get lost before the worker returns.
LEMMA FinalKept ==
    ASSUME TypeInv, StageInv, MailboxMoves, [Next]_vars,
           NEW n \in 0..Len(mailbox), FinalAmong(n)
    PROVE  /\ UNCHANGED mailbox => FinalAmong(n)'
           /\ (\E l \in Letters : Deliver(l)) => FinalAmong(n)'
           /\ mailbox # <<>> /\ mailbox' = Tail(mailbox)
                 /\ (Head(mailbox).kind \in Final => result' # "none") => FinalAmong(n - 1)'
<1>1. result # "none" => result' # "none"
  BY NothingUndone
<1>2. mailbox \in Seq(Letters) /\ Len(mailbox) \in Nat
  BY LenProperties DEF TypeInv
<1>3. ASSUME NEW l \in Letters, Deliver(l) PROVE FinalAmong(n)'
  <2>1. \A k \in 1..n : mailbox'[k] = mailbox[k]
    BY <1>2, <1>3, AppendProperties DEF Deliver
  <2>2. QED
    BY <1>1, <2>1 DEF FinalAmong
<1>4. ASSUME mailbox # <<>>, mailbox' = Tail(mailbox),
             Head(mailbox).kind \in Final => result' # "none"
      PROVE  FinalAmong(n - 1)'
  <2>1. CASE result' # "none"
    BY <2>1 DEF FinalAmong
  <2>2. CASE result' = "none"
    <3>1. PICK k \in 1..n : mailbox[k].kind \in Final
      BY <1>1, <2>2 DEF FinalAmong
    <3>2. /\ Head(mailbox) = mailbox[1]
          /\ Len(Tail(mailbox)) = Len(mailbox) - 1
          /\ \A j \in 1..Len(Tail(mailbox)) : Tail(mailbox)[j] = mailbox[j + 1]
      BY <1>2, <1>4, HeadTailProperties
    <3>3. k # 1
      BY <1>4, <2>2, <3>1, <3>2
    <3>4. k - 1 \in 1..Len(Tail(mailbox)) /\ k - 1 \in 1..(n - 1) /\ k - 1 + 1 = k
      BY <1>2, <3>2, <3>3
    <3>5. mailbox'[k - 1].kind \in Final
      BY <1>4, <3>1, <3>2, <3>4
    <3>6. QED
      BY <3>4, <3>5 DEF FinalAmong
  <2>3. QED
    BY <2>1, <2>2
<1>5. QED
  BY <1>1, <1>3, <1>4 DEF FinalAmong

\* The letters of the mailbox.
LetterCauses ==
    /\ \A k \in 1..Len(mailbox) : LetterInv(mailbox[k])
    /\ \A k \in 1..Len(mailbox) :
          mailbox[k].kind = "exit" /\ status = "0" => FinalAmong(k - 1)
    /\ outputReader \in {"final", "done"} => outcome # "none" \/ FinalAmong(Len(mailbox))

LEMMA LettersKept ==
    ASSUME TypeInv, StageInv, StatusInv, CauseInv, EventInv, [Next]_vars
    PROVE  LetterCauses'
<1>1. mailbox \in Seq(Letters) /\ Len(mailbox) \in Nat
  BY LenProperties DEF TypeInv
<1>2. MailboxMoves
  BY MailboxStep
<1>3. \A l : LetterInv(l) => LetterInv(l)'
  <2>1. ASSUME NEW l, LetterInv(l) PROVE LetterInv(l)'
    BY <2>1, LetterKept
  <2>2. QED
    BY <2>1
<1>4. \A k \in 1..Len(mailbox) :
         mailbox[k].kind = "exit" => main = "exited" /\ status' = status
  BY NothingUndone DEF CauseInv, LetterInv
<1>5. /\ outputReader' \in {"final", "done"} /\ outputReader \notin {"final", "done"} =>
            /\ Forward
            /\ mailbox' = Append(mailbox, Head(events))
            /\ events # <<>>
            /\ Head(events).kind \in Final
  BY Movers DEF Forward, OutputEnds, Deliver, Final
<1>6. outcome # "none" => outcome' # "none"
  BY NothingUndone
<1>7. CASE UNCHANGED mailbox
  <2>1. \A k \in 1..Len(mailbox') : LetterInv(mailbox[k])
    BY <1>7 DEF CauseInv
  <2>2. ASSUME NEW k \in 1..Len(mailbox') PROVE LetterInv(mailbox[k])'
    <3>1. PICK l : l = mailbox[k] /\ LetterInv(l)
      BY <2>1
    <3>2. l = mailbox'[k] /\ LetterInv(l)'
      BY <1>3, <1>7, <3>1
    <3>3. QED
      BY <3>2 DEF LetterInv
  <2>3. ASSUME NEW k \in 1..Len(mailbox'), mailbox'[k].kind = "exit", status' = "0"
        PROVE  FinalAmong(k - 1)'
    <3>1. status = "0" /\ mailbox[k].kind = "exit"
      BY <1>4, <1>7, <2>3
    <3>2. k - 1 \in 0..Len(mailbox) /\ FinalAmong(k - 1)
      BY <1>1, <1>7, <3>1 DEF CauseInv
    <3>3. PICK j \in 0..Len(mailbox) : j = k - 1 /\ FinalAmong(j)
      BY <3>2
    <3>4. FinalAmong(j)'
      BY <1>2, <1>7, <3>3, FinalKept
    <3>5. QED
      BY <3>3, <3>4
  <2>4. outputReader' \in {"final", "done"} => outcome' # "none" \/ FinalAmong(Len(mailbox))'
    <3>1. HAVE outputReader' \in {"final", "done"}
    <3>2. outputReader \in {"final", "done"}
      <4>1. events # <<>> => mailbox' # Append(mailbox, Head(events))
        <5>1. HAVE events # <<>>
        <5>2. Len(Append(mailbox, Head(events))) = Len(mailbox) + 1
          BY <1>1, <5>1, FirstEvent, AppendProperties
        <5>3. QED
          BY <1>1, <1>7, <5>2
      <4>2. QED
        BY <1>5, <3>1, <4>1
    <3>3. CASE FinalAmong(Len(mailbox))
      <4>1. PICK j \in 0..Len(mailbox) : j = Len(mailbox) /\ FinalAmong(j)
        BY <1>1, <3>3
      <4>2. FinalAmong(j)' /\ j = Len(mailbox')
        BY <1>2, <1>7, <4>1, FinalKept
      <4>3. QED
        BY <4>2 DEF FinalAmong
    <3>4. QED
      BY <1>6, <3>2, <3>3 DEF CauseInv
  <2>5. QED
    BY <2>2, <2>3, <2>4 DEF LetterCauses
<1>8. CASE mailbox' = <<>> /\ outcome' # "none"
  <2>1. Len(mailbox') = 0
    BY <1>8, EmptySeq
  <2>2. QED
    BY <1>8, <2>1 DEF LetterCauses
<1>9. CASE /\ mailbox # <<>>
           /\ mailbox' = Tail(mailbox)
           /\ Head(mailbox).kind \in Final => result' # "none"
  <2>1. /\ Len(mailbox) \in Nat \ {0}
        /\ Len(mailbox') = Len(mailbox) - 1
        /\ \A k \in 1..Len(mailbox') : mailbox'[k] = mailbox[k + 1]
    BY <1>1, <1>9, HeadTailProperties, EmptySeq
  <2>2. ASSUME NEW k \in 1..Len(mailbox') PROVE LetterInv(mailbox[k])'
    <3>1. k + 1 \in 1..Len(mailbox)
      BY <2>1
    <3>2. PICK l : l = mailbox[k + 1] /\ LetterInv(l)
      BY <3>1 DEF CauseInv
    <3>3. l = mailbox'[k] /\ LetterInv(l)'
      BY <1>3, <2>1, <3>2
    <3>4. QED
      BY <3>3 DEF LetterInv
  <2>3. ASSUME NEW k \in 1..Len(mailbox'), mailbox'[k].kind = "exit", status' = "0"
        PROVE  FinalAmong(k - 1)'
    <3>1. k + 1 \in 1..Len(mailbox) /\ k + 1 - 1 = k /\ k \in 0..Len(mailbox)
      BY <2>1
    <3>2. status = "0" /\ mailbox[k + 1].kind = "exit"
      BY <1>4, <2>1, <2>3, <3>1
    <3>3. FinalAmong(k + 1 - 1)
      BY <3>1, <3>2 DEF CauseInv
    <3>4. FinalAmong(k)
      BY <3>1, <3>3
    <3>5. QED
      BY <1>2, <1>9, <3>1, <3>4, FinalKept
  <2>4. outputReader' \in {"final", "done"} => outcome' # "none" \/ FinalAmong(Len(mailbox))'
    <3>1. HAVE outputReader' \in {"final", "done"}
    <3>2. outputReader \in {"final", "done"}
      <4>1. events # <<>> => mailbox' # Append(mailbox, Head(events))
        <5>1. HAVE events # <<>>
        <5>2. Len(Append(mailbox, Head(events))) = Len(mailbox) + 1
          BY <1>1, <5>1, FirstEvent, AppendProperties
        <5>3. QED
          BY <1>1, <2>1, <5>2
      <4>2. QED
        BY <1>5, <3>1, <4>1
    <3>3. CASE FinalAmong(Len(mailbox))
      <4>1. PICK j \in 0..Len(mailbox) : j = Len(mailbox) /\ FinalAmong(j)
        BY <1>1, <3>3
      <4>2. FinalAmong(j - 1)' /\ j - 1 = Len(mailbox')
        BY <1>2, <1>9, <2>1, <4>1, FinalKept
      <4>3. QED
        BY <4>2 DEF FinalAmong
    <3>4. QED
      BY <1>6, <3>2, <3>3 DEF CauseInv
  <2>5. QED
    BY <2>2, <2>3, <2>4 DEF LetterCauses
<1>10. ASSUME NEW l \in Letters,
              Deliver(l),
              LetterInv(l)',
              l.kind = "exit" /\ status' = "0" => FinalAmong(Len(mailbox))
       PROVE  LetterCauses'
  <2>1. /\ Len(mailbox') = Len(mailbox) + 1
        /\ \A k \in 1..Len(mailbox) : mailbox'[k] = mailbox[k]
        /\ mailbox'[Len(mailbox) + 1] = l
    BY <1>1, <1>10, AppendProperties DEF Deliver
  <2>2. ASSUME NEW k \in 1..Len(mailbox') PROVE LetterInv(mailbox[k])'
    <3>1. CASE k \in 1..Len(mailbox)
      <4>1. PICK a : a = mailbox[k] /\ LetterInv(a)
        BY <3>1 DEF CauseInv
      <4>2. a = mailbox'[k] /\ LetterInv(a)'
        BY <1>3, <2>1, <3>1, <4>1
      <4>3. QED
        BY <4>2 DEF LetterInv
    <3>2. CASE k = Len(mailbox) + 1
      BY <1>10, <2>1, <3>2 DEF LetterInv
    <3>3. QED
      BY <1>1, <2>1, <3>1, <3>2
  <2>3. \A j \in 0..Len(mailbox) : FinalAmong(j) => FinalAmong(j)'
    BY <1>2, <1>10, FinalKept
  <2>4. ASSUME NEW k \in 1..Len(mailbox'), mailbox'[k].kind = "exit", status' = "0"
        PROVE  FinalAmong(k - 1)'
    <3>1. k - 1 \in 0..Len(mailbox)
      BY <1>1, <2>1
    <3>2. FinalAmong(k - 1)
      <4>1. CASE k \in 1..Len(mailbox)
        BY <1>4, <2>1, <2>4, <4>1 DEF CauseInv
      <4>2. CASE k = Len(mailbox) + 1
        <5>1. l.kind = "exit" /\ k - 1 = Len(mailbox)
          BY <1>1, <2>1, <2>4, <4>2
        <5>2. QED
          BY <1>10, <2>4, <5>1
      <4>3. QED
        BY <1>1, <2>1, <4>1, <4>2
    <3>3. QED
      BY <2>3, <3>1, <3>2
  <2>5. outputReader' \in {"final", "done"} => outcome' # "none" \/ FinalAmong(Len(mailbox))'
    <3>1. HAVE outputReader' \in {"final", "done"}
    <3>2. CASE outputReader \in {"final", "done"} /\ FinalAmong(Len(mailbox))
      <4>1. PICK j \in 0..Len(mailbox) : j = Len(mailbox) /\ FinalAmong(j)'
        BY <1>1, <2>3, <3>2
      <4>2. QED
        BY <1>1, <2>1, <4>1 DEF FinalAmong
    <3>3. CASE outputReader \notin {"final", "done"}
      <4>1. mailbox' = Append(mailbox, Head(events)) /\ Head(events).kind \in Final
            /\ events # <<>>
        BY <1>5, <3>1, <3>3
      <4>2. mailbox'[Len(mailbox) + 1] = Head(events)
        BY <1>1, <4>1, FirstEvent, AppendProperties
      <4>3. Len(mailbox) + 1 \in 1..Len(mailbox')
        BY <1>1, <2>1
      <4>4. QED
        BY <4>1, <4>2, <4>3 DEF FinalAmong
    <3>4. QED
      BY <1>6, <3>2, <3>3 DEF CauseInv
  <2>6. QED
    BY <2>2, <2>4, <2>5 DEF LetterCauses
<1>11. QED
  BY <1>2, <1>7, <1>8, <1>9, <1>10 DEF MailboxMoves

LEMMA CauseKept == IInv /\ [Next]_vars => CauseInv'
<1> SUFFICES ASSUME IInv, [Next]_vars PROVE CauseInv'
  OBVIOUS
<1>0. TypeInv /\ BoundInv /\ StageInv /\ StatusInv /\ CauseInv /\ EventInv /\ FlowInv
  BY DEF IInv
<1> USE DEF workerVars, outerVars, superVars, childVars, pipeVars
<1>1. LetterCauses'
  BY <1>0, LettersKept
<1>2. ASSUME NEW kinds, Takes(kinds)
      PROVE  LetterInv(Head(mailbox)) /\ Head(mailbox).kind \in kinds
  <2>1. 1 \in 1..Len(mailbox) /\ Head(mailbox) = mailbox[1] /\ Head(mailbox).kind \in kinds
    BY <1>0, <1>2, FirstLetter
  <2>2. LetterInv(mailbox[1])
    BY <1>0, <2>1 DEF CauseInv
  <2>3. QED
    BY <2>1, <2>2
\* Who cancels, and why.
<1>3. /\ cancelSent' = "yes" => cancelAsked' = "yes" \/ broker' # "up"
      /\ failure' # "none" => broker' # "up"
  <2>1. CASE UNCHANGED <<cancelSent, failure>>
    BY <1>0, <2>1, NothingUndone DEF CauseInv
  <2>2. CASE TakeCancel
    <3>1. LetterInv(Head(mailbox)) /\ Head(mailbox).kind = "cancel"
      BY <1>2, <2>2 DEF TakeCancel
    <3>2. cancelAsked = "yes" /\ UNCHANGED <<cancelAsked, broker, failure>>
      BY <2>2, <3>1 DEF TakeCancel, CancelChild, LetterInv
    <3>3. QED
      BY <1>0, <3>2 DEF CauseInv
  <2>3. CASE TakeCallbackError \/ TakeBrokerDown
    <3>1. LetterInv(Head(mailbox)) /\ Head(mailbox).kind \in {"callback_error", "broker_down"}
      BY <1>2, <2>3 DEF TakeCallbackError, TakeBrokerDown
    <3>2. broker # "up" /\ UNCHANGED broker
      BY <2>3, <3>1 DEF TakeCallbackError, TakeBrokerDown, CancelChild, LetterInv
    <3>3. QED
      BY <3>2
  <2>4. QED
    BY <2>1, <2>2, <2>3, Movers
\* Which frames there are.
<1>4. \A k \in 1..Len(stdin') : stdin'[k] = "cancel" => cancelSent' = "yes"
  <2>1. stdin \in Seq(Frames) /\ Len(stdin) \in Nat
    BY <1>0, LenProperties DEF TypeInv
  <2>2. cancelSent = "yes" => cancelSent' = "yes"
    BY <1>0, NothingUndone
  <2>3. CASE UNCHANGED stdin
    BY <1>0, <2>2, <2>3 DEF CauseInv
  <2>4. CASE stdin # <<>> /\ stdin' = Tail(stdin)
    <3>1. /\ Len(stdin') = Len(stdin) - 1
          /\ \A k \in 1..Len(stdin') : stdin'[k] = stdin[k + 1]
      BY <2>1, <2>4, HeadTailProperties
    <3>2. \A k \in 1..Len(stdin') : k + 1 \in 1..Len(stdin)
      BY <2>1, <3>1
    <3>3. QED
      BY <1>0, <2>2, <3>1, <3>2 DEF CauseInv
  <2>5. ASSUME NEW f \in Frames, stdin' = Append(stdin, f), f = "cancel" => cancelSent' = "yes"
        PROVE  \A k \in 1..Len(stdin') : stdin'[k] = "cancel" => cancelSent' = "yes"
    <3>1. /\ Len(stdin') = Len(stdin) + 1
          /\ \A k \in 1..Len(stdin) : stdin'[k] = stdin[k]
          /\ stdin'[Len(stdin) + 1] = f
      BY <2>1, <2>5, AppendProperties
    <3>2. \A k \in 1..Len(stdin') : k \in 1..Len(stdin) \/ k = Len(stdin) + 1
      BY <2>1, <3>1
    <3>3. QED
      BY <1>0, <2>2, <2>5, <3>1, <3>2 DEF CauseInv
  <2>6. \/ UNCHANGED stdin
        \/ stdin # <<>> /\ stdin' = Tail(stdin)
        \/ \E f \in Frames : stdin' = Append(stdin, f) /\ (f = "cancel" => cancelSent' = "yes")
    BY Movers DEF TakeCancel, TakeCallbackError, TakeBrokerDown, CancelChild, CommandOnce,
         Command, TakeReply, ReadReply, ReadCancel, Frames
  <2>7. QED
    BY <2>3, <2>4, <2>5, <2>6
\* Whose the result and the success are.
<1>5. result' \in {"none", ending'}
  <2>1. CASE TakeResult
    <3>1. LetterInv(Head(mailbox)) /\ Head(mailbox).kind \in Final
      BY <1>2, <2>1 DEF TakeResult, Final
    <3>2. QED
      BY <2>1, <3>1 DEF TakeResult, LetterInv
  <2>2. CASE UNCHANGED result
    <3>1. result # "none" => ending # "none" /\ ending' = ending
      BY <1>0, NothingUndone DEF CauseInv
    <3>2. QED
      BY <1>0, <2>2, <3>1 DEF CauseInv
  <2>3. QED
    BY <2>1, <2>2, Movers
<1>6. outcome' = "ok" => ending' = "ok" /\ failure' = "none"
  <2>1. CASE outcome # "none"
    BY <1>0, <2>1, NothingUndone DEF CauseInv
  <2>2. CASE outcome = "none" /\ outcome' = "ok"
    <3>1. TakeExit
      BY <2>2, Movers DEF WorkerKilled, PortExits, TakeCancel, TakeCallbackError,
           TakeBrokerDown, TakeReply, CancelChild, CommandOnce, Command, Pass, Return,
           workerVars
    <3>2. Outcome(Head(mailbox).status) = "ok" /\ UNCHANGED <<failure, ending>>
      BY <2>2, <3>1 DEF TakeExit, Return
    <3>3. failure = "none" /\ result = "ok"
      BY <1>0, <3>2 DEF Outcome, TypeInv, Failures
    <3>4. QED
      BY <1>0, <3>2, <3>3 DEF CauseInv
  <2>3. QED
    BY <2>1, <2>2
<1>7. QED
  BY <1>1, <1>3, <1>4, <1>5, <1>6 DEF CauseInv, LetterCauses

\* What makes the supervisor cancel.
LEMMA CancelCause ==
    ASSUME IInv, [Next]_vars, cancelled = "no", cancelled' = "yes"
    PROVE  cancelSent = "yes" \/ port = "closed" \/ ~ChildOpen \/ BeyondLimit
<1>0. TypeInv /\ StageInv /\ CauseInv /\ FlowInv
  BY DEF IInv
<1>1. CASE ReadReply
  <2>1. writer # "ended"
    BY <1>0 DEF StageInv
  <2>2. ChannelFull
    BY <1>0, <1>1, <2>1, ReplyFits DEF ReadReply
  <2>3. QED
    BY <1>0, <1>1, <2>2, ReplyFits
<1>2. CASE ReadCancel
  <2>1. stdin \in Seq(Frames) /\ stdin # <<>> /\ Head(stdin) = "cancel"
    BY <1>0, <1>2 DEF ReadCancel, TypeInv
  <2>2. 1 \in 1..Len(stdin) /\ stdin[1] = "cancel"
    BY <2>1, EmptySeq
  <2>3. QED
    BY <1>0, <2>2 DEF CauseInv
<1>3. CASE ReadEof
  BY <1>3 DEF ReadEof
<1>4. CASE WriteFails
  BY <1>4 DEF WriteFails
<1>5. CASE ChannelEnds
  BY <1>0, <1>5 DEF ChannelEnds, StageInv
<1>6. QED
  BY <1>1, <1>2, <1>3, <1>4, <1>5, Movers

\* What makes it report an overflow.
LEMMA OverflowCause ==
    ASSUME IInv, [Next]_vars, overflow = "no", overflow' = "yes"
    PROVE  ending = "broken" \/ port = "closed"
<1>0. TypeInv /\ StageInv /\ StatusInv /\ EventInv /\ FlowInv
  BY DEF IInv
<1>1. CASE Forward
  <2>1. port = "open" => outputReader' # "failed"
    BY <1>0, <1>1, ForwardFits DEF Forward
  <2>2. outputReader' = "failed"
    BY <1>1 DEF Forward
  <2>3. QED
    BY <1>0, <2>1, <2>2 DEF TypeInv
<1>2. CASE OutputEnds
  <2>1. outputReader = "up" /\ main # "exited" /\ events = <<>> /\ ~ChildOpen
    BY <1>2 DEF OutputEnds, OutputMoves, Supervising
  <2>2. ending \notin Final
    BY <1>0, <2>1 DEF EventInv
  <2>3. ending # "none"
    BY <1>0, <2>1 DEF StageInv, ChildOpen, TypeInv
  <2>4. QED
    BY <1>0, <2>2, <2>3 DEF TypeInv, Final
<1>3. QED
  BY <1>1, <1>2, Movers

-----------------------------------------------------------------------------
(* The conservation law.                                                   *)

\* The steps that lose a request as they give up: the worker, which cannot
\* send a reply, the writer, which cannot write one, and the reader, whose
\* channel does not take one.
Loses ==
    \/ Takes({"reply"}) /\ outcome' # "none"
    \/ writer = "writing" /\ writer' = "ended"
    \/ received' # received /\ Head(stdin) = "reply" /\ UNCHANGED channel

\* Where the queues held m, e and i requests they still add up, and with what
\* has left them to no more than before.
Balanced(m, e, i) ==
    \E m1, e1, i1 \in Nat :
       /\ HasSum(mailbox', LetterWeight, m1)
       /\ HasSum(events', LetterWeight, e1)
       /\ HasSum(stdin', FrameWeight, i1)
       /\ m1 + e1 + i1 + Held' + asked <= m + e + i + Held + asked'
       /\ Loses => m1 + e1 + i1 + Held' + asked < m + e + i + Held + asked'
       /\ stdinReader' = "up" =>
             /\ stdinReader = "up"
             /\ m1 + e1 + i1 + owed' + received' + asked <= m + e + i + owed + received + asked'

\* What the queues' own steps do to their sums.
LEMMA QueueSums ==
    ASSUME TypeInv, NEW m \in Nat, NEW e \in Nat, NEW i \in Nat, Queued(m, e, i)
    PROVE  /\ HasSum(<<>>, LetterWeight, 0)
           /\ \A l \in Letters : /\ HasSum(Append(mailbox, l), LetterWeight, m + LetterWeight[l])
                                /\ HasSum(Append(events, l), LetterWeight, e + LetterWeight[l])
           /\ \A f \in Frames : HasSum(Append(stdin, f), FrameWeight, i + FrameWeight[f])
           /\ mailbox # <<>> =>
                 /\ LetterWeight[Head(mailbox)] \in 0..m
                 /\ HasSum(Tail(mailbox), LetterWeight, m - LetterWeight[Head(mailbox)])
           /\ events # <<>> =>
                 /\ LetterWeight[Head(events)] \in 0..e
                 /\ HasSum(Tail(events), LetterWeight, e - LetterWeight[Head(events)])
           /\ stdin # <<>> =>
                 /\ FrameWeight[Head(stdin)] \in 0..i
                 /\ HasSum(Tail(stdin), FrameWeight, i - FrameWeight[Head(stdin)])
<1>1. mailbox \in Seq(Letters) /\ events \in Seq(Letters) /\ stdin \in Seq(Frames)
  BY DEF TypeInv
<1>2. LetterWeight \in [Letters -> Nat] /\ FrameWeight \in [Frames -> Nat]
  BY Weights
<1>3. HasSum(mailbox, LetterWeight, m) /\ HasSum(events, LetterWeight, e)
      /\ HasSum(stdin, FrameWeight, i)
  BY DEF Queued
<1>4. \A l \in Letters : /\ HasSum(Append(mailbox, l), LetterWeight, m + LetterWeight[l])
                        /\ HasSum(Append(events, l), LetterWeight, e + LetterWeight[l])
  BY <1>1, <1>2, <1>3, SumOfAppend
<1>5. \A f \in Frames : HasSum(Append(stdin, f), FrameWeight, i + FrameWeight[f])
  BY <1>1, <1>2, <1>3, SumOfAppend
<1>6. mailbox # <<>> =>
         /\ LetterWeight[Head(mailbox)] \in 0..m
         /\ HasSum(Tail(mailbox), LetterWeight, m - LetterWeight[Head(mailbox)])
  <2>1. HAVE mailbox # <<>>
  <2>2. /\ LetterWeight[Head(mailbox)] \in Nat
        /\ LetterWeight[Head(mailbox)] <= m
        /\ HasSum(Tail(mailbox), LetterWeight, m - LetterWeight[Head(mailbox)])
    BY <1>1, <1>2, <1>3, <2>1, SumOfTail
  <2>3. QED
    BY <2>2
<1>7. events # <<>> =>
         /\ LetterWeight[Head(events)] \in 0..e
         /\ HasSum(Tail(events), LetterWeight, e - LetterWeight[Head(events)])
  <2>1. HAVE events # <<>>
  <2>2. /\ LetterWeight[Head(events)] \in Nat
        /\ LetterWeight[Head(events)] <= e
        /\ HasSum(Tail(events), LetterWeight, e - LetterWeight[Head(events)])
    BY <1>1, <1>2, <1>3, <2>1, SumOfTail
  <2>3. QED
    BY <2>2
<1>8. stdin # <<>> =>
         /\ FrameWeight[Head(stdin)] \in 0..i
         /\ HasSum(Tail(stdin), FrameWeight, i - FrameWeight[Head(stdin)])
  <2>1. HAVE stdin # <<>>
  <2>2. /\ FrameWeight[Head(stdin)] \in Nat
        /\ FrameWeight[Head(stdin)] <= i
        /\ HasSum(Tail(stdin), FrameWeight, i - FrameWeight[Head(stdin)])
    BY <1>1, <1>2, <1>3, <2>1, SumOfTail
  <2>3. QED
    BY <2>2
<1>9. QED
  BY <1>4, <1>5, <1>6, <1>7, <1>8, SumOfNone

LEMMA Balance ==
    ASSUME TypeInv, TypeInv', StageInv, EventInv, [Next]_vars,
           NEW m \in Nat, NEW e \in Nat, NEW i \in Nat, Queued(m, e, i)
    PROVE  Balanced(m, e, i)
<1> USE DEF workerVars, outerVars, superVars, childVars, pipeVars
<1>0. /\ owed \in Nat /\ channel \in Nat /\ replies \in Nat
      /\ answered \in Nat /\ asked \in Nat /\ received \in Nat
  BY IsolatedAssumption DEF TypeInv
\* The values after the step, and what the writer has in hand.
<1>a. PICK w, owed1, channel1, w1, replies1, answered1, asked1, received1 \in Nat :
         /\ w = IF writer = "writing" THEN 1 ELSE 0
         /\ w1 = IF writer' = "writing" THEN 1 ELSE 0
         /\ owed1 = owed' /\ channel1 = channel' /\ replies1 = replies'
         /\ answered1 = answered' /\ asked1 = asked' /\ received1 = received'
  <2>1. /\ owed' \in Nat /\ channel' \in Nat /\ replies' \in Nat
        /\ answered' \in Nat /\ asked' \in Nat /\ received' \in Nat
    BY IsolatedAssumption DEF TypeInv
  <2>2. /\ (IF writer = "writing" THEN 1 ELSE 0) \in Nat
        /\ (IF writer' = "writing" THEN 1 ELSE 0) \in Nat
    OBVIOUS
  <2>3. QED
    BY <2>1, <2>2
<1>1. /\ HasSum(mailbox, LetterWeight, m)
      /\ HasSum(events, LetterWeight, e)
      /\ HasSum(stdin, FrameWeight, i)
  BY DEF Queued
<1>2. /\ Held = owed + channel + w + replies + answered
      /\ Held' = owed1 + channel1 + w1 + replies1 + answered1
  BY <1>a DEF Held
<1>3. ASSUME NEW m1 \in Nat, NEW e1 \in Nat, NEW i1 \in Nat,
             HasSum(mailbox', LetterWeight, m1),
             HasSum(events', LetterWeight, e1),
             HasSum(stdin', FrameWeight, i1),
             m1 + e1 + i1 + owed1 + channel1 + w1 + replies1 + answered1 + asked
                <= m + e + i + owed + channel + w + replies + answered + asked1,
             Loses =>
                m1 + e1 + i1 + owed1 + channel1 + w1 + replies1 + answered1 + asked
                   < m + e + i + owed + channel + w + replies + answered + asked1,
             stdinReader' = "up" =>
                /\ stdinReader = "up"
                /\ m1 + e1 + i1 + owed1 + received1 + asked
                      <= m + e + i + owed + received + asked1
      PROVE  Balanced(m, e, i)
  <2>1. /\ m1 + e1 + i1 + Held' + asked
              = m1 + e1 + i1 + owed1 + channel1 + w1 + replies1 + answered1 + asked
        /\ m + e + i + Held + asked1
              = m + e + i + owed + channel + w + replies + answered + asked1
    BY <1>0, <1>2
  <2>2. QED
    BY <1>a, <1>3, <2>1 DEF Balanced
\* The queues stay, or the mailbox gets a letter that is no request.
<1>4. ASSUME HasSum(mailbox', LetterWeight, m), UNCHANGED <<stdin, events>>,
             UNCHANGED <<owed, channel, writer, replies, answered, asked, received>>,
             stdinReader' = "up" => stdinReader = "up",
             UNCHANGED outcome
      PROVE  Balanced(m, e, i)
  <2>1. ~Loses /\ w1 = w
    BY <1>a, <1>4 DEF Loses, Takes
  <2>2. /\ owed1 = owed /\ channel1 = channel /\ replies1 = replies
        /\ answered1 = answered /\ asked1 = asked /\ received1 = received
    BY <1>a, <1>4
  <2>3. HasSum(events', LetterWeight, e) /\ HasSum(stdin', FrameWeight, i)
    BY <1>1, <1>4
  <2>4. QED
    BY <1>0, <1>3, <1>4, <2>1, <2>2, <2>3
<1>5. CASE AskCancel \/ BrokerFails \/ BrokerEnds \/ PortExits
  <2>1. PICK l \in Letters : mailbox' = Append(mailbox, l) /\ LetterWeight[l] = 0
    <3>1. CASE AskCancel \/ BrokerFails \/ BrokerEnds
      BY <3>1, LetterKinds, Weights DEF AskCancel, BrokerFails, BrokerEnds, Deliver
    <3>2. CASE PortExits
      <4>1. [kind |-> "exit", status |-> status] \in Letters
        BY <3>2, LetterKinds DEF PortExits, StageInv, TypeInv
      <4>2. QED
        BY <3>2, <4>1, Weights DEF PortExits, Deliver
    <3>3. QED
      BY <1>5, <3>1, <3>2
  <2>2. HasSum(mailbox', LetterWeight, m)
    <3>1. HasSum(mailbox', LetterWeight, m + 0)
      BY <2>1, QueueSums
    <3>2. QED
      BY <3>1
  <2>3. UNCHANGED <<owed, superVars, childVars, pipeVars, outcome>>
    BY <1>5 DEF AskCancel, BrokerFails, BrokerEnds, PortExits
  <2>4. QED
    BY <1>4, <2>2, <2>3
<1>6. CASE Expire \/ MainStep \/ SupervisorKilled \/ OutputEnds \/ Prepare \/ ChildStarts
           \/ Breaks \/ Closes \/ Exits \/ ParentDeathSignal \/ UNCHANGED vars
  <2>1. UNCHANGED <<mailbox, pipeVars, owed, channel, writer, answered, asked, received,
                    stdinReader, outcome>>
    BY <1>6 DEF Expire, MainStep, Poll, Continue, KillChild, Join, MainMoves,
         SupervisorKilled, OutputEnds, OutputMoves, Prepare, Arm, CheckParent, ChildStarts,
         Breaks, Closes, Exits, ParentDeathSignal, ChildMoves, vars
  <2>2. HasSum(mailbox', LetterWeight, m)
    BY <1>1, <2>1
  <2>3. QED
    BY <1>4, <2>1, <2>2
<1>7. CASE BrokerReplies
  <2>1. [kind |-> "reply"] \in Letters /\ LetterWeight[[kind |-> "reply"]] = 1
    BY LetterKinds, Weights
  <2>2. HasSum(mailbox', LetterWeight, m + 1)
    BY <1>7, <2>1, QueueSums DEF BrokerReplies, Deliver
  <2>3. /\ UNCHANGED <<superVars, childVars, pipeVars, outcome>>
        /\ owed' = owed - 1
    BY <1>7 DEF BrokerReplies
  <2>4. ~Loses /\ w1 = w
    BY <1>a, <2>3 DEF Loses, Takes
  <2>5. HasSum(events', LetterWeight, e) /\ HasSum(stdin', FrameWeight, i) /\ m + 1 \in Nat
    BY <1>1, <2>3
  <2>6. /\ owed1 = owed - 1 /\ channel1 = channel /\ replies1 = replies
        /\ answered1 = answered /\ asked1 = asked /\ received1 = received
        /\ stdinReader' = stdinReader
    BY <1>a, <2>3
  <2>7. m + 1 + owed1 = m + owed
    BY <1>0, <2>6
  <2>8. QED
    BY <1>0, <1>3, <2>2, <2>4, <2>5, <2>6, <2>7
<1>8. CASE WorkerKilled \/ TakeExit
  <2>1. /\ UNCHANGED <<owed, superVars, childVars, pipeVars>>
        /\ HasSum(mailbox', LetterWeight, 0)
    BY <1>8, QueueSums DEF WorkerKilled, TakeExit, Return
  <2>2. w1 = w /\ ~(writer = "writing" /\ writer' = "ended")
    BY <1>a, <2>1
  <2>3. Loses => 1 <= m
    <3>1. HAVE Loses
    <3>2. Takes({"reply"})
      BY <2>1, <2>2, <3>1 DEF Loses
    <3>3. LetterWeight[Head(mailbox)] = 1 /\ mailbox # <<>>
      BY <3>2, FirstLetter, Weights
    <3>4. QED
      BY <3>3, QueueSums
  <2>4. /\ owed1 = owed /\ channel1 = channel /\ replies1 = replies
        /\ answered1 = answered /\ asked1 = asked /\ received1 = received
        /\ stdinReader' = stdinReader
    BY <1>a, <2>1
  <2>5. HasSum(events', LetterWeight, e) /\ HasSum(stdin', FrameWeight, i)
    BY <1>1, <2>1
  <2>6. QED
    BY <1>0, <1>3, <2>1, <2>2, <2>3, <2>4, <2>5
\* The worker takes a letter.
<1>9. CASE TakeCancel \/ TakeCallbackError \/ TakeBrokerDown
  <2>1. mailbox # <<>> /\ Head(mailbox) \in Letters
        /\ Head(mailbox).kind \in {"cancel", "callback_error", "broker_down"}
    BY <1>9, FirstLetter DEF TakeCancel, TakeCallbackError, TakeBrokerDown
  <2>2. LetterWeight[Head(mailbox)] = 0
    BY <2>1, Weights
  <2>3. HasSum(Tail(mailbox), LetterWeight, m)
    <3>1. HasSum(Tail(mailbox), LetterWeight, m - 0)
      BY <2>1, <2>2, QueueSums
    <3>2. QED
      BY <3>1
  <2>4. HasSum(Append(stdin, "cancel"), FrameWeight, i)
    <3>1. HasSum(Append(stdin, "cancel"), FrameWeight, i + 0)
      BY QueueSums, Weights DEF Frames
    <3>2. QED
      BY <3>1
  <2>5. /\ mailbox' = Tail(mailbox) \/ mailbox' = <<>>
        /\ stdin' = stdin \/ stdin' = Append(stdin, "cancel")
        /\ UNCHANGED <<owed, superVars, childVars, replies, events>>
    BY <1>9 DEF TakeCancel, TakeCallbackError, TakeBrokerDown, CancelChild, CommandOnce,
         Command, Pass, Return
  <2>6. PICK m1 \in Nat : m1 <= m /\ HasSum(mailbox', LetterWeight, m1)
    <3>1. CASE mailbox' = Tail(mailbox)
      BY <2>3, <3>1
    <3>2. CASE mailbox' = <<>>
      <4>1. 0 \in Nat /\ 0 <= m /\ HasSum(mailbox', LetterWeight, 0)
        BY <3>2, QueueSums
      <4>2. QED
        BY <4>1
    <3>3. QED
      BY <2>5, <3>1, <3>2
  <2>7. HasSum(stdin', FrameWeight, i)
    BY <1>1, <2>4, <2>5
  <2>8. ~Loses /\ w1 = w
    BY <1>a, <2>1, <2>5 DEF Loses, Takes
  <2>9. /\ owed1 = owed /\ channel1 = channel /\ replies1 = replies
        /\ answered1 = answered /\ asked1 = asked /\ received1 = received
        /\ stdinReader' = stdinReader /\ HasSum(events', LetterWeight, e)
    BY <1>1, <1>a, <2>5
  <2>10. QED
    BY <1>0, <1>3, <2>6, <2>7, <2>8, <2>9
<1>10. CASE TakeReply
  <2>1. mailbox # <<>> /\ LetterWeight[Head(mailbox)] = 1
    BY <1>10, FirstLetter, Weights DEF TakeReply
  <2>2. 1 <= m /\ HasSum(Tail(mailbox), LetterWeight, m - 1)
    BY <2>1, QueueSums
  <2>3. HasSum(Append(stdin, "reply"), FrameWeight, i + 1)
    BY QueueSums, Weights DEF Frames
  <2>4. UNCHANGED <<owed, superVars, childVars, replies, events>>
    BY <1>10 DEF TakeReply
  <2>5. /\ owed1 = owed /\ channel1 = channel /\ replies1 = replies
        /\ answered1 = answered /\ asked1 = asked /\ received1 = received
        /\ w1 = w /\ stdinReader' = stdinReader /\ HasSum(events', LetterWeight, e)
    BY <1>1, <1>a, <2>4
  <2>6. CASE mailbox' = Tail(mailbox) /\ stdin' = Append(stdin, "reply") /\ UNCHANGED outcome
    <3>1. ~Loses
      BY <1>a, <2>4, <2>6 DEF Loses, Takes
    <3>2. PICK m1, i1 \in Nat : /\ m1 + 1 = m /\ i1 = i + 1
                               /\ HasSum(mailbox', LetterWeight, m1)
                               /\ HasSum(stdin', FrameWeight, i1)
      <4>1. m - 1 \in Nat /\ i + 1 \in Nat /\ (m - 1) + 1 = m
        BY <2>2
      <4>2. HasSum(mailbox', LetterWeight, m - 1) /\ HasSum(stdin', FrameWeight, i + 1)
        BY <2>2, <2>3, <2>6
      <4>3. QED
        BY <4>1, <4>2
    <3>3. QED
      BY <1>0, <1>3, <2>5, <3>1, <3>2
  <2>7. CASE (mailbox' = Tail(mailbox) \/ mailbox' = <<>>) /\ UNCHANGED stdin
    <3>1. PICK m1 \in Nat : m1 < m /\ HasSum(mailbox', LetterWeight, m1)
      <4>1. m - 1 \in Nat /\ m - 1 < m /\ 0 < m
        BY <2>2
      <4>2. CASE mailbox' = Tail(mailbox)
        BY <2>2, <4>1, <4>2
      <4>3. CASE mailbox' = <<>>
        BY <4>1, <4>3, QueueSums
      <4>4. QED
        BY <2>7, <4>2, <4>3
    <3>2. HasSum(stdin', FrameWeight, i)
      BY <1>1, <2>7
    <3>3. QED
      BY <1>0, <1>3, <2>5, <3>1, <3>2
  <2>8. QED
    BY <1>10, <2>6, <2>7 DEF TakeReply, CommandOnce, Command, Pass, Return
<1>11. CASE TakeCallbacks
  <2> DEFINE n == Head(mailbox).requests
  <2>1. mailbox # <<>> /\ Head(mailbox) \in Letters /\ Head(mailbox).kind = "callbacks"
    BY <1>11, FirstLetter DEF TakeCallbacks
  <2>2. LetterWeight[Head(mailbox)] = n
    BY <2>1, Weights
  <2>3. n \in 0..m /\ HasSum(Tail(mailbox), LetterWeight, m - n)
    BY <2>1, <2>2, QueueSums
  <2>4. /\ mailbox' = Tail(mailbox)
        /\ owed' = owed + n \/ owed' = owed
        /\ UNCHANGED <<superVars, childVars, pipeVars, outcome>>
    BY <1>11 DEF TakeCallbacks, Pass, Dispatch
  <2> HIDE DEF n
  <2>5. ~Loses /\ w1 = w
    BY <1>a, <2>4 DEF Loses, Takes
  <2>6. PICK m1 \in Nat : n \in Nat /\ m1 + n = m /\ HasSum(mailbox', LetterWeight, m1)
    <3>1. m - n \in Nat /\ n \in Nat /\ (m - n) + n = m
      BY <2>3
    <3>2. QED
      BY <2>3, <2>4, <3>1
  <2>7. owed1 <= owed + n
    BY <1>a, <1>0, <2>4, <2>6
  <2>8. HasSum(stdin', FrameWeight, i) /\ HasSum(events', LetterWeight, e)
    BY <1>1, <2>4
  <2>9. /\ channel1 = channel /\ replies1 = replies /\ answered1 = answered
        /\ asked1 = asked /\ received1 = received /\ stdinReader' = stdinReader
    BY <1>a, <2>4
  <2>10. m1 + owed1 <= m + owed
    BY <1>0, <2>6, <2>7
  <2>11. QED
    BY <1>0, <1>3, <2>5, <2>6, <2>8, <2>9, <2>10
<1>12. CASE TakeResult
  <2>1. mailbox # <<>> /\ LetterWeight[Head(mailbox)] = 0
    BY <1>12, FirstLetter, Weights DEF TakeResult
  <2>2. HasSum(Tail(mailbox), LetterWeight, m)
    <3>1. HasSum(Tail(mailbox), LetterWeight, m - 0)
      BY <2>1, QueueSums
    <3>2. QED
      BY <3>1
  <2>3. UNCHANGED <<owed, superVars, childVars, pipeVars, outcome>> /\ mailbox' = Tail(mailbox)
    BY <1>12 DEF TakeResult, Pass
  <2>4. QED
    BY <1>4, <2>2, <2>3
\* The supervisor's threads.
<1>13. CASE ReadReply
  <2>1. stdin # <<>> /\ Head(stdin) = "reply" /\ stdin' = Tail(stdin)
    BY <1>13 DEF ReadReply
  <2>2. PICK i1 \in Nat : i1 + 1 = i /\ HasSum(stdin', FrameWeight, i1)
    <3>1. 1 \in 0..i /\ HasSum(Tail(stdin), FrameWeight, i - 1)
      BY <2>1, QueueSums, Weights
    <3>2. i - 1 \in Nat /\ (i - 1) + 1 = i
      BY <3>1
    <3>3. QED
      BY <2>1, <3>1, <3>2
  <2>3. /\ UNCHANGED <<mailbox, outcome, owed, writer, childVars, replies, events>>
        /\ received' = received + 1
        /\ channel' = channel \/ channel' = channel + 1
        /\ stdinReader = "up"
    BY <1>13 DEF ReadReply
  <2>4. w1 = w /\ (Loses => channel1 = channel)
    BY <1>a, <2>3 DEF Loses, Takes
  <2>5. HasSum(mailbox', LetterWeight, m) /\ HasSum(events', LetterWeight, e)
    BY <1>1, <2>3
  <2>6. /\ i1 + channel1 <= i + channel
        /\ Loses => i1 + channel1 < i + channel
    <3>1. channel1 = channel \/ channel1 = channel + 1
      BY <1>a, <2>3
    <3>2. QED
      BY <1>0, <2>2, <2>4, <3>1
  <2>7. /\ owed1 = owed /\ replies1 = replies /\ answered1 = answered /\ asked1 = asked
        /\ received1 = received + 1 /\ stdinReader = "up"
    BY <1>a, <2>3
  <2>8. i1 + received1 = i + received
    BY <1>0, <2>2, <2>7
  <2>9. QED
    BY <1>0, <1>3, <2>2, <2>4, <2>5, <2>6, <2>7, <2>8
<1>14. CASE ReadCancel
  <2>1. stdin # <<>> /\ Head(stdin) = "cancel" /\ stdin' = Tail(stdin)
    BY <1>14 DEF ReadCancel
  <2>2. HasSum(stdin', FrameWeight, i)
    <3>1. HasSum(Tail(stdin), FrameWeight, i - 0)
      BY <2>1, QueueSums, Weights
    <3>2. QED
      BY <2>1, <3>1
  <2>3. /\ UNCHANGED <<mailbox, outcome, owed, channel, writer, childVars, replies, events>>
        /\ stdinReader' = "ended"
    BY <1>14 DEF ReadCancel, StopReading
  <2>4. ~Loses /\ w1 = w
    BY <1>a, <2>1, <2>3 DEF Loses, Takes
  <2>5. /\ owed1 = owed /\ channel1 = channel /\ replies1 = replies
        /\ answered1 = answered /\ asked1 = asked
        /\ HasSum(mailbox', LetterWeight, m) /\ HasSum(events', LetterWeight, e)
    BY <1>1, <1>a, <2>3
  <2>6. QED
    BY <1>0, <1>3, <2>2, <2>3, <2>4, <2>5
<1>15. CASE ReadEof
  <2>1. /\ UNCHANGED <<mailbox, pipeVars, outcome, owed, channel, writer, childVars, received>>
        /\ stdinReader' = "ended"
    BY <1>15 DEF ReadEof, StopReading
  <2>2. HasSum(mailbox', LetterWeight, m)
    BY <1>1, <2>1
  <2>3. QED
    BY <1>4, <2>1, <2>2
<1>16. CASE WriterStep
  <2>1. UNCHANGED <<mailbox, outcome, owed, stdin, events, answered, asked, received, stdinReader>>
    BY <1>16 DEF WriterStep, WriteRequest, TakeFromChannel, WriteReply, WriteFails,
         ChannelEnds, WriterMoves
  <2>2. \/ w1 = w /\ channel1 = channel /\ replies1 = replies /\ ~Loses
        \/ w1 = w + 1 /\ channel1 = channel - 1 /\ replies1 = replies /\ ~Loses
        \/ w1 = w - 1 /\ replies1 = replies + 1 /\ channel1 = channel /\ ~Loses
        \/ w1 = w - 1 /\ channel1 = channel /\ replies1 = replies
    <3>1. Loses => writer = "writing" /\ writer' = "ended"
      BY <1>a, <2>1 DEF Loses, Takes
    <3>2. CASE WriteRequest \/ TakeFromChannel \/ ChannelEnds
      BY <1>a, <3>1, <3>2 DEF WriteRequest, TakeFromChannel, ChannelEnds, WriterMoves
    <3>3. CASE WriteReply
      BY <1>a, <3>1, <3>3 DEF WriteReply, WriterMoves
    <3>4. CASE WriteFails
      BY <1>a, <3>1, <3>4 DEF WriteFails, WriterMoves
    <3>5. QED
      BY <1>16, <3>2, <3>3, <3>4 DEF WriterStep
  <2>3. /\ w1 + channel1 + replies1 <= w + channel + replies
        /\ Loses => w1 + channel1 + replies1 < w + channel + replies
    <3>1. CASE w1 = w /\ channel1 = channel /\ replies1 = replies /\ ~Loses
      BY <1>0, <3>1
    <3>2. CASE w1 = w + 1 /\ channel1 = channel - 1 /\ replies1 = replies /\ ~Loses
      BY <1>0, <3>2
    <3>3. CASE w1 = w - 1 /\ replies1 = replies + 1 /\ channel1 = channel /\ ~Loses
      BY <1>0, <3>3
    <3>4. CASE w1 = w - 1 /\ channel1 = channel /\ replies1 = replies
      BY <1>0, <3>4
    <3>5. QED
      BY <2>2, <3>1, <3>2, <3>3, <3>4
  <2>4. /\ HasSum(mailbox', LetterWeight, m)
        /\ HasSum(events', LetterWeight, e)
        /\ HasSum(stdin', FrameWeight, i)
    BY <1>1, <2>1
  <2>5. /\ owed1 = owed /\ answered1 = answered /\ asked1 = asked /\ received1 = received
        /\ stdinReader' = stdinReader
    BY <1>a, <2>1
  <2>6. QED
    BY <1>0, <1>3, <2>3, <2>4, <2>5
<1>17. CASE Forward
  <2> DEFINE n == LetterWeight[Head(events)]
  <2>1. events # <<>> /\ events' = Tail(events)
    BY <1>17 DEF Forward
  <2>2. n \in 0..e /\ HasSum(Tail(events), LetterWeight, e - n) /\ Head(events) \in Letters
    BY <2>1, QueueSums, FirstEvent
  <2>3. HasSum(Append(mailbox, Head(events)), LetterWeight, m + n)
    BY <2>2, QueueSums
  <2>4. mailbox' = mailbox \/ mailbox' = Append(mailbox, Head(events))
    BY <1>17 DEF Forward, Deliver
  <2> HIDE DEF n
  <2>5. PICK e1 \in Nat : n \in Nat /\ e1 + n = e /\ HasSum(events', LetterWeight, e1)
    <3>1. e - n \in Nat /\ n \in Nat /\ (e - n) + n = e
      BY <2>2
    <3>2. QED
      BY <2>1, <2>2, <3>1
  <2>6. PICK m1 \in Nat : m1 <= m + n /\ HasSum(mailbox', LetterWeight, m1)
    <3>1. m + n \in Nat /\ m <= m + n
      BY <2>5
    <3>2. CASE mailbox' = mailbox
      BY <1>1, <3>1, <3>2
    <3>3. CASE mailbox' = Append(mailbox, Head(events))
      <4>1. m + n <= m + n /\ HasSum(mailbox', LetterWeight, m + n)
        BY <2>3, <3>1, <3>3
      <4>2. QED
        BY <3>1, <4>1
    <3>4. QED
      BY <2>4, <3>2, <3>3
  <2>7. UNCHANGED <<outcome, owed, stdin, replies, answered, asked, received, stdinReader,
                    channel, writer>>
    BY <1>17 DEF Forward, OutputMoves
  <2>8. ~Loses /\ w1 = w /\ HasSum(stdin', FrameWeight, i)
    BY <1>a, <1>1, <2>7 DEF Loses, Takes
  <2>9. m1 + e1 <= m + e
    BY <2>5, <2>6
  <2>10. /\ owed1 = owed /\ channel1 = channel /\ replies1 = replies
         /\ answered1 = answered /\ asked1 = asked /\ received1 = received
         /\ stdinReader' = stdinReader
    BY <1>a, <2>7
  <2>11. QED
    BY <1>0, <1>3, <2>5, <2>6, <2>8, <2>9, <2>10
\* The child.
<1>18. ASSUME NEW n \in 0..MaxCalls, Yields(n) PROVE Balanced(m, e, i)
  <2>1. /\ [kind |-> "callbacks", requests |-> n] \in Letters
        /\ LetterWeight[[kind |-> "callbacks", requests |-> n]] = n
    BY LetterKinds, Weights
  <2>2. HasSum(events', LetterWeight, e + n)
    BY <1>18, <2>1, QueueSums DEF Yields
  <2>3. /\ UNCHANGED <<mailbox, outcome, owed, stdin, replies, answered, received,
                       stdinReader, channel, writer>>
        /\ asked' = asked + n
    BY <1>18 DEF Yields, ChildMoves
  <2>4. ~Loses /\ w1 = w
    BY <1>a, <2>3 DEF Loses, Takes
  <2>5. HasSum(mailbox', LetterWeight, m) /\ HasSum(stdin', FrameWeight, i)
    BY <1>1, <2>3
  <2>6. n \in Nat /\ e + n \in Nat
    BY IsolatedAssumption
  <2>7. /\ owed1 = owed /\ channel1 = channel /\ replies1 = replies
        /\ answered1 = answered /\ asked1 = asked + n /\ received1 = received
        /\ stdinReader' = stdinReader
    BY <1>a, <2>3
  <2>8. QED
    BY <1>0, <1>3, <2>2, <2>4, <2>5, <2>6, <2>7
<1>19. CASE ReadsCompletion
  <2>1. /\ UNCHANGED <<mailbox, outcome, owed, stdin, events, asked, received, stdinReader,
                       channel, writer>>
        /\ replies' = replies - 1
        /\ answered' = answered + 1
    BY <1>19 DEF ReadsCompletion, ChildMoves
  <2>2. ~Loses /\ w1 = w
    BY <1>a, <2>1 DEF Loses, Takes
  <2>3. /\ HasSum(mailbox', LetterWeight, m)
        /\ HasSum(events', LetterWeight, e)
        /\ HasSum(stdin', FrameWeight, i)
    BY <1>1, <2>1
  <2>4. /\ owed1 = owed /\ channel1 = channel /\ replies1 = replies - 1
        /\ answered1 = answered + 1 /\ asked1 = asked /\ received1 = received
        /\ stdinReader' = stdinReader
    BY <1>a, <2>1
  <2>5. replies1 + answered1 = replies + answered
    BY <1>0, <2>4
  <2>6. QED
    BY <1>0, <1>3, <2>2, <2>3, <2>4, <2>5
<1>20. ASSUME NEW value \in {"ok", "error"}, Settles(value) PROVE Balanced(m, e, i)
  <2>1. [kind |-> value] \in Letters /\ LetterWeight[[kind |-> value]] = 0
    BY LetterKinds, Weights
  <2>2. HasSum(events', LetterWeight, e)
    <3>1. HasSum(events', LetterWeight, e + 0)
      BY <1>20, <2>1, QueueSums DEF Settles
    <3>2. QED
      BY <3>1
  <2>3. UNCHANGED <<mailbox, outcome, owed, stdin, replies, answered, asked, received,
                    stdinReader, channel, writer>>
    BY <1>20 DEF Settles, ChildMoves
  <2>4. ~Loses /\ w1 = w
    BY <1>a, <2>3 DEF Loses, Takes
  <2>5. HasSum(mailbox', LetterWeight, m) /\ HasSum(stdin', FrameWeight, i)
    BY <1>1, <2>3
  <2>6. /\ owed1 = owed /\ channel1 = channel /\ replies1 = replies
        /\ answered1 = answered /\ asked1 = asked /\ received1 = received
        /\ stdinReader' = stdinReader
    BY <1>a, <2>3
  <2>7. QED
    BY <1>0, <1>3, <2>2, <2>4, <2>5, <2>6
<1>21. QED
  BY <1>5, <1>6, <1>7, <1>8, <1>9, <1>10, <1>11, <1>12, <1>13, <1>14, <1>15, <1>16, <1>17,
     <1>18, <1>19, <1>20
     DEF Next, OuterStep, WorkerStep, StdinStep, OutputStep, ChildStep

\* Where nothing is lost, what stands against the child comes from outside.
LEMMA StandsKept ==
    ASSUME IInv, [Next]_vars, ~Loses, Undisturbed', Stands
    PROVE  Stands'
<1>0. TypeInv /\ BoundInv /\ StageInv /\ StatusInv /\ CauseInv /\ EventInv /\ FlowInv
  BY DEF IInv
<1>1. Undisturbed /\ outcome' # "killed"
  <2>1. cancelAsked = "no" /\ expired = "no" /\ broker = "up"
    BY <1>0, NothingUndone DEF Undisturbed, TypeInv
  <2>2. outcome # "killed" /\ outcome' # "killed"
    BY <1>0, NothingUndone DEF Undisturbed
  <2>3. status # "killed"
    BY <1>0, NothingUndone DEF Undisturbed, StageInv
  <2>4. QED
    BY <2>1, <2>2, <2>3 DEF Undisturbed
<1>2. cancelAsked = "no" /\ broker = "up" /\ expired = "no" /\ outcome # "killed"
      /\ status # "killed"
  BY <1>1 DEF Undisturbed
\* No letter but a reply can make the worker give up before the exit.
<1>3. ~TakeCancel /\ ~TakeCallbackError /\ ~TakeBrokerDown
  <2>1. ASSUME NEW kinds, Takes(kinds)
        PROVE  LetterInv(Head(mailbox)) /\ Head(mailbox).kind \in kinds
    <3>1. 1 \in 1..Len(mailbox) /\ Head(mailbox) = mailbox[1]
          /\ Head(mailbox).kind \in kinds
      BY <1>0, <2>1, FirstLetter
    <3>2. QED
      BY <1>0, <3>1 DEF CauseInv
  <2>2. ~Takes({"cancel"}) /\ ~Takes({"callback_error"}) /\ ~Takes({"broker_down"})
    BY <1>2, <2>1 DEF LetterInv
  <2>3. QED
    BY <2>2 DEF TakeCancel, TakeCallbackError, TakeBrokerDown
\* No thread gives up but for a child that has left before it settled.
<1>4. cancelled' = "yes" => ~ChildOpen' /\ ending' \notin Final
  <2>1. CASE cancelled = "yes"
    BY <1>0, <2>1, NothingUndone DEF Stands
  <2>2. CASE cancelled = "no" /\ cancelled' = "yes"
    <3>1. CASE ReadReply
      <4>1. received' # received /\ Head(stdin) = "reply"
        BY <1>0, <3>1, IsolatedAssumption DEF ReadReply, TypeInv
      <4>2. channel' # channel
        BY <4>1 DEF Loses
      <4>3. QED
        BY <1>0, <2>2, <3>1, <4>2, ReplyFits DEF ReadReply
    <3>2. CASE ReadCancel
      <4>1. stdin \in Seq(Frames) /\ stdin # <<>> /\ Head(stdin) = "cancel"
        BY <1>0, <3>2 DEF ReadCancel, TypeInv
      <4>2. 1 \in 1..Len(stdin) /\ stdin[1] = "cancel"
        BY <4>1, EmptySeq
      <4>3. QED
        BY <1>0, <1>2, <4>2 DEF CauseInv
    <3>3. CASE ReadEof
      BY <1>0, <1>2, <3>3 DEF ReadEof, Supervising, StageInv
    <3>4. CASE WriteFails
      <4>1. writer = "request"
        BY <3>4 DEF WriteFails, WriterMoves, Loses
      <4>2. ~ChildOpen /\ ending \notin Final
        BY <1>0, <3>4, <4>1 DEF WriteFails, StageInv
      <4>3. QED
        BY <1>0, <4>2, NothingUndone
    <3>5. CASE ChannelEnds
      BY <1>0, <2>2, <3>5 DEF ChannelEnds, StageInv
    <3>6. QED
      BY <2>2, <3>1, <3>2, <3>3, <3>4, <3>5, Movers
  <2>3. QED
    BY <1>0, <2>1, <2>2 DEF TypeInv
\* The exit tells the child's end.
<1>5. outcome' # "none" /\ ending' \in Final => outcome' = ending'
  <2>1. SUFFICES ASSUME outcome' # "none", ending' \in Final PROVE outcome' = ending'
    OBVIOUS
  <2>2. CASE outcome # "none"
    <3>1. child = "dead"
      BY <1>0, <1>2, <2>2 DEF StageInv
    <3>2. ending' = ending /\ outcome' = outcome
      BY <1>0, <2>2, <3>1, NothingUndone DEF ChildOpen
    <3>3. QED
      BY <2>1, <2>2, <3>2 DEF Stands
  <2>3. CASE outcome = "none"
    <3>1. ~TakeReply
      <4>1. SUFFICES ASSUME TakeReply PROVE FALSE
        OBVIOUS
      <4>2. Takes({"reply"})
        BY <4>1 DEF TakeReply
      <4>3. QED
        BY <2>1, <4>2 DEF Loses
    <3>2. TakeExit
      BY <1>1, <1>3, <2>1, <2>3, <3>1, Movers DEF WorkerKilled, Return, PortExits, workerVars
    <3>3. /\ LetterInv(mailbox[1])
          /\ mailbox[1].kind = "exit"
          /\ Head(mailbox) = mailbox[1]
          /\ mailbox[1].kind = "exit" /\ status = "0" => FinalAmong(0)
      <4>1. /\ 1 \in 1..Len(mailbox) /\ 1 - 1 = 0
            /\ Head(mailbox) = mailbox[1] /\ Head(mailbox).kind = "exit"
        BY <1>0, <3>2, FirstLetter DEF TakeExit
      <4>2. QED
        BY <1>0, <4>1 DEF CauseInv
    <3>4. main = "exited" /\ Head(mailbox).status = status
      BY <3>3 DEF LetterInv
    <3>5. status = "0" => result # "none"
      BY <3>3 DEF FinalAmong
    <3>6. UNCHANGED ending /\ outcome' = Outcome(status)
      BY <3>2, <3>4 DEF TakeExit, Return, childVars
    <3>7. status = "0"
      <4>1. status # "none"
        BY <1>0, <3>4 DEF StageInv
      <4>2. status \notin {"broken", "126"}
        BY <1>0, <1>2, <2>1, <3>6 DEF StatusInv, Final
      <4>3. status # "125"
        BY <1>0, <2>1, <3>6 DEF StatusInv, Stands
      <4>4. status # "124"
        BY <1>0, <1>2 DEF StatusInv
      <4>5. QED
        BY <1>0, <1>2, <4>1, <4>2, <4>3, <4>4 DEF TypeInv
    <3>8. failure = "none" /\ result = ending
      BY <1>0, <1>2, <3>5, <3>7 DEF CauseInv
    <3>9. QED
      BY <3>5, <3>6, <3>7, <3>8 DEF Outcome
  <2>4. QED
    BY <2>2, <2>3
<1>6. QED
  BY <1>4, <1>5 DEF Stands

LEMMA FlowKept == IInv /\ TypeInv' /\ [Next]_vars => FlowInv'
<1> SUFFICES ASSUME IInv, TypeInv', [Next]_vars PROVE FlowInv'
  OBVIOUS
<1>0. TypeInv /\ BoundInv /\ StageInv /\ StatusInv /\ CauseInv /\ EventInv /\ FlowInv
  BY DEF IInv
<1>1. PICK m, e, i \in Nat : Queued(m, e, i) /\ Flow(m + e + i)
  BY <1>0 DEF FlowInv
<1>2. Balanced(m, e, i)
  BY <1>0, <1>1, Balance
<1>3. PICK m1, e1, i1 \in Nat :
         /\ HasSum(mailbox', LetterWeight, m1)
         /\ HasSum(events', LetterWeight, e1)
         /\ HasSum(stdin', FrameWeight, i1)
         /\ m1 + e1 + i1 + Held' + asked <= m + e + i + Held + asked'
         /\ Loses => m1 + e1 + i1 + Held' + asked < m + e + i + Held + asked'
         /\ stdinReader' = "up" =>
               /\ stdinReader = "up"
               /\ m1 + e1 + i1 + owed' + received' + asked
                     <= m + e + i + owed + received + asked'
  BY <1>2 DEF Balanced
\* The numbers, by names that do not change.
<1>4. PICK q, q1, h, h1, a, a1, o, o1, c, c1 \in Nat :
         /\ q = m + e + i /\ q1 = m1 + e1 + i1
         /\ h = Held /\ h1 = Held'
         /\ a = asked /\ a1 = asked'
         /\ o = owed /\ o1 = owed'
         /\ c = received /\ c1 = received'
  <2>1. m + e + i \in Nat /\ m1 + e1 + i1 \in Nat
    OBVIOUS
  <2>2. Held \in Nat /\ asked \in Nat /\ owed \in Nat /\ received \in Nat
    BY <1>0, IsolatedAssumption DEF Held, TypeInv
  <2>3. asked' \in Nat /\ owed' \in Nat /\ received' \in Nat
    BY IsolatedAssumption DEF TypeInv
  <2>4. Held' \in Nat
    <3>1. owed' \in Nat /\ channel' \in Nat /\ replies' \in Nat /\ answered' \in Nat
      BY IsolatedAssumption DEF TypeInv
    <3>2. (IF writer' = "writing" THEN 1 ELSE 0) \in Nat
      OBVIOUS
    <3>3. \A u, v, w, x, y \in Nat : u + v + w + x + y \in Nat
      OBVIOUS
    <3>4. QED
      BY <3>1, <3>2, <3>3 DEF Held
  <2>5. QED
    BY <2>1, <2>2, <2>3, <2>4
<1>5. /\ q + h <= a
      /\ stdinReader = "up" => q + o + c <= a
      /\ q + h = a /\ Undisturbed => Stands
  <2>1. Flow(q)
    BY <1>1, <1>4
  <2>2. QED
    BY <1>4, <2>1 DEF Flow
<1>6. /\ q1 + h1 + a <= q + h + a1
      /\ Loses => q1 + h1 + a < q + h + a1
      /\ stdinReader' = "up" => stdinReader = "up" /\ q1 + o1 + c1 + a <= q + o + c + a1
  BY <1>3, <1>4
<1>7. q1 + h1 <= a1
  BY <1>5, <1>6
<1>8. stdinReader' = "up" => q1 + o1 + c1 <= a1
  BY <1>5, <1>6
<1>9. q1 + h1 = a1 /\ Undisturbed' => Stands'
  <2>1. HAVE q1 + h1 = a1 /\ Undisturbed'
  <2>2. ~Loses /\ q + h = a
    BY <1>5, <1>6, <2>1
  <2>3. Undisturbed
    BY <1>0, <2>1, NothingUndone DEF Undisturbed, TypeInv, StageInv
  <2>4. Stands
    BY <1>5, <2>2, <2>3
  <2>5. QED
    BY <2>1, <2>2, <2>4, StandsKept
<1>10. Flow(m1 + e1 + i1)'
  <2>1. q1 + Held' <= asked'
    BY <1>4, <1>7
  <2>2. stdinReader' = "up" => q1 + owed' + received' <= asked'
    BY <1>4, <1>8
  <2>3. q1 + Held' = asked' /\ Undisturbed' => Stands'
    BY <1>4, <1>9
  <2>4. q1 = m1 + e1 + i1
    BY <1>4
  <2>5. QED
    BY <2>1, <2>2, <2>3, <2>4 DEF Flow
<1>11. Queued(m1, e1, i1)'
  BY <1>3 DEF Queued
<1>12. QED
  BY <1>10, <1>11 DEF FlowInv

-----------------------------------------------------------------------------
(* The theorems.                                                           *)

LEMMA Begins == Init => IInv
<1> SUFFICES ASSUME Init PROVE IInv
  OBVIOUS
<1>0. MaxCalls \in Nat /\ MaxConcurrent \in Nat
  BY IsolatedAssumption
<1>1. Len(mailbox) = 0 /\ Len(stdin) = 0 /\ Len(events) = 0
  BY EmptySeq DEF Init
<1>2. TypeInv /\ BoundInv
  BY <1>0, EmptySeq DEF Init, TypeInv, BoundInv
<1>3. StageInv /\ StatusInv
  BY DEF Init, StageInv, StatusInv, Final
<1>4. CauseInv /\ EventInv
  BY <1>1 DEF Init, CauseInv, EventInv, Final
<1>5. FlowInv
  <2>1. Queued(0, 0, 0)
    BY SumOfNone DEF Queued, Init
  <2>2. Held = 0 /\ asked = 0 /\ owed = 0 /\ received = 0 /\ cancelled = "no"
        /\ outcome = "none"
    BY DEF Held, Init
  <2>3. Flow(0 + 0 + 0)
    BY <2>2 DEF Flow, Stands
  <2>4. QED
    BY <2>1, <2>3 DEF FlowInv
<1>6. QED
  BY <1>2, <1>3, <1>4, <1>5 DEF IInv

LEMMA Inductive == IInv /\ [Next]_vars => IInv'
<1> SUFFICES ASSUME IInv, [Next]_vars PROVE IInv'
  OBVIOUS
<1>1. TypeInv /\ BoundInv /\ StageInv /\ StatusInv /\ CauseInv /\ EventInv /\ FlowInv
  BY DEF IInv
<1>2. TypeInv' /\ BoundInv'
  BY <1>1, TypeKept
<1>3. StageInv' /\ StatusInv' /\ EventInv'
  BY <1>1, StageKept, StatusKept, EventKept
<1>4. CauseInv'
  BY CauseKept
<1>5. FlowInv'
  BY <1>2, FlowKept
<1>6. QED
  BY <1>2, <1>3, <1>4, <1>5 DEF IInv

LEMMA Invariance == Spec => []IInv
  BY Begins, Inductive, PTL DEF Spec

\* Every variable has its type: no queue of the supervisor grows over its
\* limit, and the guest is given no more answers than it asked for.
THEOREM TypeCorrect == Spec => []TypeOK
<1>1. IInv => TypeOK
  <2> SUFFICES ASSUME IInv PROVE TypeOK
    OBVIOUS
  <2>1. TypeInv /\ FlowInv
    BY DEF IInv
  <2>2. owed \in 0..MaxCalls /\ answered \in 0..asked /\ replies \in 0..asked
    BY <2>1, Conserved, IsolatedAssumption DEF TypeInv
  <2>3. QED
    BY <2>1, <2>2 DEF TypeInv, TypeOK, Frames
<1>2. QED
  BY <1>1, Invariance, PTL

\* A root that has awaited all it asked for decides the outcome of a run that
\* nothing else has ended, and a success is the child's own: where every
\* request was answered none was lost, and no thread of isolated.ex or of the
\* supervisor in worker.rs has given up.
THEOREM OutcomeTheorem == Spec => []OutcomeIsEarned
<1>1. IInv => OutcomeIsEarned
  <2> SUFFICES ASSUME IInv PROVE OutcomeIsEarned
    OBVIOUS
  <2>1. TypeInv /\ CauseInv /\ FlowInv
    BY DEF IInv
  <2>2. AwaitedRootDecides
    <3>1. SUFFICES ASSUME outcome # "none", Undisturbed, ending \in Final, asked = answered
                   PROVE  outcome = ending
      BY DEF AwaitedRootDecides, Final
    <3>2. PICK m, e, i \in Nat : Flow(m + e + i)
      BY <2>1 DEF FlowInv
    <3>3. /\ owed \in Nat /\ channel \in Nat /\ replies \in Nat /\ answered \in Nat
          /\ (IF writer = "writing" THEN 1 ELSE 0) \in Nat
      BY <2>1, IsolatedAssumption DEF TypeInv
    <3>4. m + e + i + Held >= answered /\ m + e + i + Held \in Nat
      BY <3>3 DEF Held
    <3>5. m + e + i + Held = asked
      BY <3>1, <3>2, <3>3, <3>4 DEF Flow
    <3>6. QED
      BY <3>1, <3>2, <3>5 DEF Flow, Stands
  <2>3. SuccessIsEarned
    BY <2>1 DEF CauseInv, SuccessIsEarned
  <2>4. QED
    BY <2>2, <2>3 DEF OutcomeIsEarned
<1>2. QED
  BY <1>1, Invariance, PTL

\* The supervisor of worker.rs takes no guest within its budgets for one that
\* is not: its frame counts are never met, and its channel overflows only for
\* a guest that has more calls outstanding than its limit, whatever the bridge
\* lets through.
THEOREM FlagsTheorem == Spec => FlagsHaveCause
<1>1. IInv /\ [Next]_vars =>
         [/\ overflow = "no" /\ overflow' = "yes" =>
                ending = "broken" \/ port = "closed"
          /\ cancelled = "no" /\ cancelled' = "yes" =>
                cancelSent = "yes" \/ port = "closed" \/ ~ChildOpen \/ BeyondLimit]_vars
  BY CancelCause, OverflowCause
<1>2. QED
  BY <1>1, Invariance, PTL DEF Spec, FlagsHaveCause

-----------------------------------------------------------------------------
(* The end of a run is under way.                                          *)

InMail(kinds) == \E k \in 1..Len(mailbox) : mailbox[k].kind \in kinds

Interrupting == \E k \in 1..Len(stdin) : stdin[k] = "cancel"

\* What RunAnswers and ChildStops need of every state: a cancellation, the
\* failure of the broker and the exit of the supervisor are in a queue or
\* have been acted upon, a worker that has returned is missed by the
\* supervisor, and a child whose supervisor is gone ends by the kernel's
\* signal or by its own look at its parent.
EndIsUnderWay ==
    /\ outcome = "none" =>
          /\ cancelAsked = "yes" => cancelSent = "yes" \/ InMail({"cancel"})
          /\ broker \in {"failed", "gone"} =>
                cancelSent = "yes" \/ InMail({"callback_error", "broker_down"})
          /\ cancelSent = "yes" => Interrupting \/ cancelled = "yes" \/ main = "exited"
          /\ main = "exited" => port = "open" \/ InMail({"exit"})
    /\ outcome # "none" =>
          \/ main = "exited"
          \/ cancelled = "yes"
          \/ stdinReader = "up" /\ port = "closed"
    /\ main = "exited" =>
          child \in {"spawned", "armed", "closed", "dead"} \/ deathSignal = "sent"

NewsInv ==
    outcome = "none" =>
        /\ cancelAsked = "yes" => cancelSent = "yes" \/ InMail({"cancel"})
        /\ broker \in {"failed", "gone"} =>
              cancelSent = "yes" \/ InMail({"callback_error", "broker_down"})
        /\ port = "closed" => InMail({"exit"})

OrphanInv ==
    main = "exited" => child \in {"spawned", "armed", "closed", "dead"} \/ deathSignal = "sent"

InterruptInv ==
    outcome = "none" /\ cancelSent = "yes" =>
        Interrupting \/ cancelled = "yes" \/ main = "exited"

\* A letter that is put behind the others is there, and so are they.
LEMMA Delivered ==
    ASSUME TypeInv, NEW l \in Letters, Deliver(l)
    PROVE  /\ \A kinds : l.kind \in kinds => InMail(kinds)'
           /\ \A kinds : InMail(kinds) => InMail(kinds)'
<1>1. /\ Len(mailbox') = Len(mailbox) + 1
      /\ \A k \in 1..Len(mailbox) : mailbox'[k] = mailbox[k]
      /\ mailbox'[Len(mailbox) + 1] = l
      /\ Len(mailbox) \in Nat
  BY AppendProperties, LenProperties DEF TypeInv, Deliver
<1>2. \A k \in 1..Len(mailbox) : k \in 1..Len(mailbox')
  BY <1>1
<1>3. Len(mailbox) + 1 \in 1..Len(mailbox')
  BY <1>1
<1>4. QED
  BY <1>1, <1>2, <1>3 DEF InMail

\* Taking the first letter leaves the others.
LEMMA OthersLeft ==
    ASSUME TypeInv, mailbox # <<>>, mailbox' = Tail(mailbox),
           NEW kinds, Head(mailbox).kind \notin kinds, InMail(kinds)
    PROVE  InMail(kinds)'
<1>1. /\ Len(mailbox) \in Nat
      /\ Head(mailbox) = mailbox[1]
      /\ Len(mailbox') = Len(mailbox) - 1
      /\ \A k \in 1..Len(mailbox') : mailbox'[k] = mailbox[k + 1]
  BY HeadTailProperties, LenProperties DEF TypeInv
<1>2. PICK k \in 1..Len(mailbox) : mailbox[k].kind \in kinds
  BY DEF InMail
<1>3. k # 1
  BY <1>1, <1>2
<1>4. k - 1 \in 1..(Len(mailbox) - 1) /\ k - 1 + 1 = k
  BY <1>1, <1>2, <1>3
<1>5. mailbox'[k - 1].kind \in kinds
  BY <1>1, <1>2, <1>4
<1>6. QED
  BY <1>1, <1>4, <1>5 DEF InMail

\* Letters leave the mailbox of a worker that goes on by being taken.
LEMMA NoLetterLost ==
    ASSUME TypeInv, StageInv, [Next]_vars, outcome' = "none"
    PROVE  \/ \A kinds : InMail(kinds) => InMail(kinds)'
           \/ /\ WorkerStep
              /\ ~TakeExit
              /\ mailbox # <<>>
              /\ mailbox' = Tail(mailbox)
<1> USE DEF workerVars, outerVars, superVars, childVars, pipeVars
<1>1. CASE AskCancel \/ BrokerReplies \/ BrokerFails \/ BrokerEnds \/ PortExits
  <2>1. main = "exited" => status \in {"0", "124", "125", "126", "broken", "killed"}
    BY DEF StageInv, TypeInv
  <2>2. PICK l \in Letters : Deliver(l)
    BY <1>1, <2>1, LetterKinds
       DEF AskCancel, BrokerReplies, BrokerFails, BrokerEnds, PortExits
  <2>3. QED
    BY <2>2, Delivered
<1>2. CASE WorkerKilled \/ TakeExit
  <2>1. outcome' # "none"
    BY <1>2 DEF WorkerKilled, TakeExit, Return, Outcome, TypeInv, Failures
  <2>2. QED
    BY <2>1
<1>3. CASE TakeCancel \/ TakeCallbackError \/ TakeBrokerDown \/ TakeReply
           \/ TakeCallbacks \/ TakeResult
  <2>1. mailbox # <<>> /\ WorkerStep
    BY <1>3 DEF TakeCancel, TakeCallbackError, TakeBrokerDown, TakeReply, TakeCallbacks,
         TakeResult, Takes, WorkerStep
  <2>2. mailbox' = Tail(mailbox)
    BY <1>3 DEF TakeCancel, TakeCallbackError, TakeBrokerDown, TakeReply, TakeCallbacks,
         TakeResult, CancelChild, CommandOnce, Command, Pass, Return
  <2>3. CASE ~TakeExit
    BY <2>1, <2>2, <2>3
  <2>4. QED
    BY <1>2, <2>3
<1>4. CASE Forward
  <2>1. events # <<>> /\ Head(events) \in Letters
    BY <1>4, Queues DEF Forward
  <2>2. Deliver(Head(events)) \/ UNCHANGED mailbox
    BY <1>4 DEF Forward
  <2>3. QED
    BY <2>1, <2>2, Delivered DEF InMail
<1>5. CASE UNCHANGED mailbox
  BY <1>5 DEF InMail
<1>6. CASE Expire \/ StdinStep \/ WriterStep \/ OutputEnds
  <2>1. UNCHANGED mailbox
    BY <1>6 DEF Expire, StdinStep, ReadReply, ReadCancel, ReadEof, WriterStep, WriteRequest,
         TakeFromChannel, WriteReply, WriteFails, ChannelEnds, WriterMoves, OutputEnds
  <2>2. QED
    BY <1>5, <2>1
<1>7. CASE MainStep \/ SupervisorKilled \/ ChildStep \/ UNCHANGED vars
  <2>1. UNCHANGED mailbox
    BY <1>7 DEF MainStep, Poll, Continue, KillChild, Join, MainMoves, SupervisorKilled,
         ChildStep, Prepare, Arm, CheckParent, ChildStarts, Yields, ReadsCompletion, Settles,
         Breaks, Closes, Exits, ParentDeathSignal, ChildMoves, vars
  <2>2. QED
    BY <1>5, <2>1
<1>8. QED
  BY <1>1, <1>2, <1>3, <1>4, <1>6, <1>7 DEF Next, OuterStep, WorkerStep, OutputStep

\* News reaches the worker, and makes it interrupt the child.
LEMMA NewsKept ==
    ASSUME TypeInv, StageInv, NewsInv, [Next]_vars
    PROVE  NewsInv'
<1> SUFFICES ASSUME outcome' = "none" PROVE NewsInv'
  BY DEF NewsInv
<1> USE DEF workerVars, outerVars, superVars, childVars, pipeVars
<1>1. outcome = "none"
  BY NothingUndone
<1>2. cancelSent = "yes" => cancelSent' = "yes"
  BY NothingUndone
<1>3. cancelAsked' = "yes" => cancelSent' = "yes" \/ InMail({"cancel"})'
  <2>1. CASE AskCancel
    BY <2>1, LetterKinds, Delivered DEF AskCancel
  <2>2. CASE TakeCancel
    BY <2>2 DEF TakeCancel, CancelChild
  <2>3. CASE UNCHANGED cancelAsked /\ ~TakeCancel
    <3>1. CASE \A kinds : InMail(kinds) => InMail(kinds)'
      BY <1>1, <1>2, <2>3, <3>1 DEF NewsInv
    <3>2. CASE WorkerStep /\ ~TakeExit /\ mailbox # <<>> /\ mailbox' = Tail(mailbox)
      <4>1. Head(mailbox).kind \notin {"cancel"}
        BY <2>3, <3>2 DEF WorkerStep, TakeCallbackError, TakeBrokerDown, TakeReply,
             TakeCallbacks, TakeResult, Takes
      <4>2. InMail({"cancel"}) => InMail({"cancel"})'
        BY <3>2, <4>1, OthersLeft
      <4>3. QED
        BY <1>1, <1>2, <2>3, <4>2 DEF NewsInv
    <3>3. QED
      BY <3>1, <3>2, NoLetterLost
  <2>4. QED
    BY <2>1, <2>2, <2>3, Movers
<1>4. broker' \in {"failed", "gone"} =>
         cancelSent' = "yes" \/ InMail({"callback_error", "broker_down"})'
  <2>1. CASE BrokerFails \/ BrokerEnds
    BY <2>1, LetterKinds, Delivered DEF BrokerFails, BrokerEnds
  <2>2. CASE TakeCallbackError \/ TakeBrokerDown
    BY <2>2 DEF TakeCallbackError, TakeBrokerDown, CancelChild
  <2>3. CASE broker' \in {broker, "refusing"} /\ ~TakeCallbackError /\ ~TakeBrokerDown
    <3>1. CASE \A kinds : InMail(kinds) => InMail(kinds)'
      BY <1>1, <1>2, <2>3, <3>1 DEF NewsInv
    <3>2. CASE WorkerStep /\ ~TakeExit /\ mailbox # <<>> /\ mailbox' = Tail(mailbox)
      <4>1. Head(mailbox).kind \notin {"callback_error", "broker_down"}
        BY <2>3, <3>2 DEF WorkerStep, TakeCancel, TakeReply, TakeCallbacks, TakeResult, Takes
      <4>2. InMail({"callback_error", "broker_down"})
               => InMail({"callback_error", "broker_down"})'
        BY <3>2, <4>1, OthersLeft
      <4>3. QED
        BY <1>1, <1>2, <2>3, <4>2 DEF NewsInv
    <3>3. QED
      BY <3>1, <3>2, NoLetterLost
  <2>4. QED
    BY <2>1, <2>2, <2>3, Movers
<1>5. port' = "closed" => InMail({"exit"})'
  <2>1. CASE PortExits
    <3>1. status \in {"0", "124", "125", "126", "broken", "killed"}
      BY <2>1 DEF PortExits, StageInv, TypeInv
    <3>2. QED
      BY <2>1, <3>1, LetterKinds, Delivered DEF PortExits
  <2>2. CASE UNCHANGED port
    <3>1. CASE \A kinds : InMail(kinds) => InMail(kinds)'
      BY <1>1, <2>2, <3>1 DEF NewsInv
    <3>2. CASE WorkerStep /\ ~TakeExit /\ mailbox # <<>> /\ mailbox' = Tail(mailbox)
      <4>1. Head(mailbox).kind \notin {"exit"}
        BY <3>2 DEF WorkerStep, TakeCancel, TakeCallbackError, TakeBrokerDown, TakeReply,
             TakeCallbacks, TakeResult, Takes
      <4>2. InMail({"exit"}) => InMail({"exit"})'
        BY <3>2, <4>1, OthersLeft
      <4>3. QED
        BY <1>1, <2>2, <4>2 DEF NewsInv
    <3>3. QED
      BY <3>1, <3>2, NoLetterLost
  <2>3. CASE ~PortExits /\ port' # port
    <3>1. outcome' # "none"
      BY <2>3, Movers DEF WorkerKilled, TakeExit, TakeCancel, TakeCallbackError,
           TakeBrokerDown, TakeReply, CancelChild, CommandOnce, Command, Pass, Return,
           Outcome, TypeInv, Failures
    <3>2. QED
      BY <3>1
  <2>4. QED
    BY <2>1, <2>2, <2>3
<1>6. QED
  BY <1>3, <1>4, <1>5 DEF NewsInv

\* A supervisor exits after its child, or has the kernel tell it.
LEMMA OrphanKept ==
    ASSUME TypeInv, StageInv, OrphanInv, [Next]_vars
    PROVE  OrphanInv'
<1> USE DEF workerVars, outerVars, superVars, childVars, pipeVars
<1>1. CASE MainStep
  BY <1>1 DEF MainStep, Poll, Continue, KillChild, Join, MainMoves, StageInv, OrphanInv
<1>2. CASE SupervisorKilled
  BY <1>2 DEF SupervisorKilled, OrphanInv, TypeInv
<1>3. CASE ChildStep
  BY <1>3 DEF ChildStep, Prepare, Arm, CheckParent, ChildStarts, Yields, ReadsCompletion,
       Settles, Breaks, Closes, Exits, ParentDeathSignal, ChildMoves, Supervising, OrphanInv
<1>4. CASE UNCHANGED <<main, child, deathSignal>>
  BY <1>4 DEF OrphanInv
<1>5. CASE OuterStep \/ WorkerStep \/ PortExits \/ UNCHANGED vars
  <2>1. UNCHANGED <<main, child, deathSignal>>
    BY <1>5 DEF OuterStep, Expire, AskCancel, BrokerReplies, BrokerFails, BrokerEnds,
         WorkerKilled, WorkerStep, TakeCancel, TakeCallbackError, TakeBrokerDown, TakeReply,
         TakeCallbacks, TakeResult, TakeExit, CancelChild, PortExits, vars
  <2>2. QED
    BY <1>4, <2>1
<1>6. CASE StdinStep \/ WriterStep \/ OutputStep
  <2>1. UNCHANGED <<main, child, deathSignal>>
    BY <1>6 DEF StdinStep, ReadReply, ReadCancel, ReadEof, WriterStep, WriteRequest,
         TakeFromChannel, WriteReply, WriteFails, ChannelEnds, WriterMoves, OutputStep,
         Forward, OutputEnds, OutputMoves
  <2>2. QED
    BY <1>4, <2>1
<1>7. QED
  BY <1>1, <1>2, <1>3, <1>5, <1>6 DEF Next

\* A frame behind the others is in stdin, and the first is taken by its reader.
LEMMA Written ==
    ASSUME TypeInv
    PROVE  /\ \A f \in Frames : stdin' = Append(stdin, f) =>
                 /\ f = "cancel" => Interrupting'
                 /\ Interrupting => Interrupting'
           /\ stdin # <<>> /\ Head(stdin) = "reply" /\ stdin' = Tail(stdin) =>
                 (Interrupting => Interrupting')
<1>0. stdin \in Seq(Frames) /\ Len(stdin) \in Nat
  BY LenProperties DEF TypeInv
<1>1. ASSUME NEW f \in Frames, stdin' = Append(stdin, f)
      PROVE  /\ f = "cancel" => Interrupting'
             /\ Interrupting => Interrupting'
  <2>1. /\ Len(stdin') = Len(stdin) + 1
        /\ \A k \in 1..Len(stdin) : stdin'[k] = stdin[k]
        /\ stdin'[Len(stdin) + 1] = f
    BY <1>0, <1>1, AppendProperties
  <2>2. Len(stdin) + 1 \in 1..Len(stdin') /\ \A k \in 1..Len(stdin) : k \in 1..Len(stdin')
    BY <1>0, <2>1
  <2>3. QED
    BY <2>1, <2>2 DEF Interrupting
<1>2. ASSUME stdin # <<>>, Head(stdin) = "reply", stdin' = Tail(stdin), Interrupting
      PROVE  Interrupting'
  <2>1. /\ Head(stdin) = stdin[1]
        /\ Len(stdin') = Len(stdin) - 1
        /\ \A k \in 1..Len(stdin') : stdin'[k] = stdin[k + 1]
    BY <1>0, <1>2, HeadTailProperties
  <2>2. PICK k \in 1..Len(stdin) : stdin[k] = "cancel"
    BY <1>2 DEF Interrupting
  <2>3. k # 1
    BY <1>2, <2>1, <2>2
  <2>4. k - 1 \in 1..Len(stdin') /\ k - 1 + 1 = k
    BY <1>0, <2>1, <2>2, <2>3
  <2>5. stdin'[k - 1] = "cancel"
    BY <2>1, <2>2, <2>4
  <2>6. QED
    BY <2>4, <2>5 DEF Interrupting
<1>3. QED
  BY <1>1, <1>2

\* An interruption stays in stdin until the supervisor has read it.
LEMMA InterruptKept ==
    ASSUME TypeInv, StageInv, InterruptInv, [Next]_vars
    PROVE  InterruptInv'
<1> SUFFICES ASSUME outcome' = "none", cancelSent' = "yes"
             PROVE  Interrupting' \/ cancelled' = "yes" \/ main' = "exited"
  BY DEF InterruptInv
<1>1. outcome = "none"
  BY NothingUndone
<1>2. /\ cancelled = "yes" => cancelled' = "yes"
      /\ main = "exited" => main' = "exited"
  BY NothingUndone
<1>3. CASE TakeCancel \/ TakeCallbackError \/ TakeBrokerDown
  <2>1. CommandOnce("cancel")
    BY <1>3 DEF TakeCancel, TakeCallbackError, TakeBrokerDown, CancelChild
  <2>2. CASE cancelSent = "no" /\ port = "open" /\ stdin' = Append(stdin, "cancel")
    BY <2>2, Written DEF Frames
  <2>3. CASE cancelSent = "yes" /\ UNCHANGED stdin
    BY <1>1, <1>2, <2>3 DEF InterruptInv, Interrupting
  <2>4. QED
    BY <2>1, <2>2, <2>3 DEF CommandOnce, Command, Return
<1>4. CASE UNCHANGED cancelSent
  <2>0. Interrupting \/ cancelled = "yes" \/ main = "exited"
    BY <1>1, <1>4 DEF InterruptInv
  <2>1. CASE TakeReply
    <3>1. UNCHANGED stdin \/ stdin' = Append(stdin, "reply")
      BY <2>1 DEF TakeReply, CommandOnce, Command
    <3>2. Interrupting => Interrupting'
      BY <3>1, Written DEF Frames, Interrupting
    <3>3. QED
      BY <1>2, <2>0, <3>2
  <2>2. CASE ReadReply
    BY <1>2, <2>0, <2>2, Written DEF ReadReply
  <2>3. CASE ReadCancel
    BY <2>3 DEF ReadCancel, StopReading
  <2>4. CASE UNCHANGED stdin
    BY <1>2, <2>0, <2>4 DEF Interrupting
  <2>5. QED
    BY <1>3, <2>1, <2>2, <2>3, <2>4, Movers
<1>5. QED
  BY <1>3, <1>4, Movers

\* A run that has been told to end, or whose supervisor or broker is gone, is
\* never left without something that will end it: the safety half of what
\* isolated.ex and worker.rs promise of cancellations and of orphans.
THEOREM EndTheorem == Spec => []EndIsUnderWay
<1>1. Init => NewsInv /\ OrphanInv /\ InterruptInv
  BY DEF Init, NewsInv, OrphanInv, InterruptInv
<1>2. IInv /\ NewsInv /\ OrphanInv /\ InterruptInv /\ [Next]_vars
         => (NewsInv /\ OrphanInv /\ InterruptInv)'
  BY NewsKept, OrphanKept, InterruptKept DEF IInv
<1>3. IInv /\ NewsInv /\ OrphanInv /\ InterruptInv => EndIsUnderWay
  <2> SUFFICES ASSUME TypeInv, StageInv, NewsInv, OrphanInv, InterruptInv
               PROVE  EndIsUnderWay
    BY DEF IInv
  <2>1. ASSUME outcome = "none"
        PROVE  main = "exited" => port = "open" \/ InMail({"exit"})
    BY <2>1 DEF NewsInv, TypeInv
  <2>2. ASSUME outcome # "none"
        PROVE  \/ main = "exited"
               \/ cancelled = "yes"
               \/ stdinReader = "up" /\ port = "closed"
    BY <2>2 DEF StageInv, TypeInv
  <2>3. QED
    BY <2>1, <2>2 DEF NewsInv, OrphanInv, InterruptInv, EndIsUnderWay
<1>4. QED
  BY <1>1, <1>2, <1>3, Invariance, PTL DEF Spec
=============================================================================
