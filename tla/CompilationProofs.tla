-------------------------- MODULE CompilationProofs ---------------------------
(***************************************************************************)
(* Proofs about Compilation.tla, for any number of calls, plugins and      *)
(* permits.                                                                *)
(***************************************************************************)
EXTENDS Compilation, FiniteSetTheorems, SequenceTheorems, TLAPS

-----------------------------------------------------------------------------
(* The inductive invariant.                                                *)

\* The calls that hold a permit.
Holders == {c \in Calls : InCompile(c)}

PermitInv == COMPILING = Cardinality(Holders)

\* What the call c may be told.
Told(c) == {PluginOf[c]} \cup Errors

\* The module of each call is made by its own provider, from the time native
\* code works with it until the caller has it.
ProviderInv(c) ==
    /\ runtime[c] \in {PluginOf[c], None}
    /\ native[c] \in {"provided", "compiling"} => runtime[c] = PluginOf[c]
    /\ yield[c] \in {PluginOf[c], "error", None}
    /\ native[c] = "done" => yield[c] # None
    /\ \A n \in DOMAIN guardianBox[c] :
          guardianBox[c][n] = "compiled" => native[c] = "done"
    /\ callerBox[c] \in Seq(Told(c))
    /\ answer[c] \in Told(c) \cup {None}

\* Native code has not begun for a caller that has not called.
StartInv(c) == c \in Guarded /\ caller[c] = "idle" => native[c] = "none"

\* What a guardian may answer.
Replies(c) == Told(c) \ {"down"}

\* The mailbox of a caller goes with its guardian: one that waits has not
\* answered, one that has decided has answered once, and the DOWN of one that
\* is gone comes last.  Once the answer is taken only the DOWN may be there.
MailInv(c) ==
    /\ guardian[c] \in {"none", "waiting"} =>
          callerBox[c] = <<>> /\ caller[c] # "answered"
    /\ guardian[c] \in {"decided", "cancelled"} =>
          \/ callerBox[c] = <<>>
          \/ caller[c] = "waiting" /\ \E m \in Replies(c) : callerBox[c] = <<m>>
    /\ guardian[c] = "gone" =>
          \/ callerBox[c] \in {<<>>, <<"down">>}
          \/ caller[c] = "waiting" /\ \E m \in Replies(c) : callerBox[c] = <<m, "down">>
    /\ ~Reachable(c) => callerBox[c] = <<>>

IInv ==
    /\ TypeOK
    /\ PermitInv
    /\ \A c \in Calls : ProviderInv(c) /\ MailInv(c) /\ StartInv(c)

-----------------------------------------------------------------------------
(* What a step of one call leaves alone.                                   *)

\* What the call d has of its own.
Own(d) == <<caller[d], answer[d], callerBox[d], guardian[d], guardianBox[d], worker[d],
            native[d], runtime[d], yield[d]>>

LEMMA Notices ==
    /\ \A c \in Calls : PluginOf[c] \in Plugins /\ PluginOf[c] # None /\ PluginOf[c] \notin Errors
    /\ \A e \in Errors : e \notin Plugins
  BY CompilationAssumption

LEMMA OthersKept ==
    ASSUME TypeOK, NEW c \in Calls, NEW d \in Calls, d # c,
           \/ Compile(c) \/ Answered(c) \/ Return(c) \/ CallerKilled(c) \/ GuardianStep(c)
           \/ GuardianKilled(c) \/ WorkerStep(c) \/ WorkerKilled(c) \/ Expire(c)
           \/ NativeStep(c) \/ Fails(c) \/ Succeeds(c)
    PROVE  Own(d)' = Own(d)
<1> USE DEF TypeOK, Own, processVars, nativeVars
<1>1. CASE Compile(c)
  BY <1>1 DEF Compile
<1>2. CASE Answered(c) \/ Return(c) \/ CallerKilled(c)
  BY <1>2 DEF Return, Answered, CallerKilled, ToGuardian
<1>3. CASE GuardianStep(c) \/ GuardianKilled(c)
  BY <1>3 DEF GuardianStep, HearCompiled, HearCallerDown, HearWorkerDown, TimesOut,
              CancelNative, GuardianEnds, GuardianKilled, Decides, ToCaller
<1>4. CASE WorkerStep(c) \/ WorkerKilled(c) \/ Expire(c)
  BY <1>4 DEF WorkerStep, WorkerSends, WorkerExits, WorkerKilled, WorkerDies, Expire,
              ToGuardian
<1>5. CASE NativeStep(c) \/ Fails(c) \/ Succeeds(c)
  BY <1>5 DEF NativeStep, Refused, Admitted, AskProvider, Lock, UseCached, Build,
              BuildFails, RunCompiler, Interrupted, Fails, Succeeds, Leave, Moves
<1>6. QED
  BY <1>1, <1>2, <1>3, <1>4, <1>5

-----------------------------------------------------------------------------
(* The short mailboxes of a caller.                                        *)

LEMMA ShortBoxes ==
    /\ Flushed(<<>>) = <<>>
    /\ Flushed(<<"down">>) = <<>>
    /\ Append(<<>>, "down") = <<"down">>
    /\ \A m : /\ Append(<<>>, m) = <<m>>
             /\ Append(<<m>>, "down") = <<m, "down">>
             /\ Tail(<<m>>) = <<>>
             /\ Tail(<<m, "down">>) = <<"down">>
             /\ Head(<<m>>) = m
             /\ Head(<<m, "down">>) = m
<1>1. Flushed(<<>>) = <<>>
  BY DEF Flushed
<1>2. Flushed(<<"down">>) = <<>>
  BY DEF Flushed
<1>3. Append(<<>>, "down") = <<"down">>
  OBVIOUS
<1>4. ASSUME NEW m
      PROVE  /\ Append(<<>>, m) = <<m>>
             /\ Append(<<m>>, "down") = <<m, "down">>
             /\ Tail(<<m>>) = <<>>
             /\ Tail(<<m, "down">>) = <<"down">>
             /\ Head(<<m>>) = m
             /\ Head(<<m, "down">>) = m
  <2>1. Append(<<>>, m) = <<m>>
    OBVIOUS
  <2>2. Append(<<m>>, "down") = <<m, "down">>
    <3>1. /\ <<m>> \in Seq({m, "down"})
          /\ <<m, "down">> \in Seq({m, "down"})
      OBVIOUS
    <3>2. /\ Append(<<m>>, "down") \in Seq({m, "down"})
          /\ Len(Append(<<m>>, "down")) = 2
          /\ Append(<<m>>, "down")[1] = m
          /\ Append(<<m>>, "down")[2] = "down"
      BY <3>1
    <3>3. Len(<<m, "down">>) = 2 /\ <<m, "down">>[1] = m /\ <<m, "down">>[2] = "down"
      OBVIOUS
    <3>4. \A i \in 1..2 : i = 1 \/ i = 2
      OBVIOUS
    <3>5. QED
      BY <3>1, <3>2, <3>3, <3>4, SeqEqual, Zenon
  <2>3. Tail(<<m>>) = <<>>
    OBVIOUS
  <2>4. Tail(<<m, "down">>) = <<"down">>
    OBVIOUS
  <2>5. Head(<<m>>) = m /\ Head(<<m, "down">>) = m
    OBVIOUS
  <2>6. QED
    BY <2>1, <2>2, <2>3, <2>4, <2>5
<1>5. QED
  BY <1>1, <1>2, <1>3, <1>4

\* Nothing but the DOWN has come since the answer was taken.
LEMMA NothingCame ==
    ASSUME IInv, NEW c \in Calls, Return(c)
    PROVE  callerBox' = [callerBox EXCEPT ![c] = <<>>]
<1>1. caller[c] = "answered" /\ callerBox' = [callerBox EXCEPT ![c] = Flushed(callerBox[c])]
  BY DEF Return
<1>2. callerBox[c] \in {<<>>, <<"down">>}
  BY <1>1 DEF IInv, TypeOK, MailInv
<1>3. QED
  BY <1>1, <1>2, ShortBoxes

-----------------------------------------------------------------------------
(* Types.                                                                  *)

LEMMA CallerMail ==
    ASSUME TypeOK, NEW c \in Calls, NEW m \in Plugins \cup Errors, ToCaller(c, m)
    PROVE  callerBox' \in [Calls -> Seq(Plugins \cup Errors)]
<1>1. Append(callerBox[c], m) \in Seq(Plugins \cup Errors)
  BY DEF TypeOK
<1>2. QED
  BY <1>1 DEF TypeOK, ToCaller

LEMMA GuardianMail ==
    ASSUME TypeOK, NEW c \in Calls,
           NEW m \in {"compiled", "caller_down", "worker_down"}, ToGuardian(c, m)
    PROVE  guardianBox' \in [Calls -> Seq({"compiled", "caller_down", "worker_down"})]
<1>1. Append(guardianBox[c], m) \in Seq({"compiled", "caller_down", "worker_down"})
  BY DEF TypeOK
<1>2. QED
  BY <1>1 DEF TypeOK, ToGuardian

\* What a guardian that hears of the result passes on.
LEMMA ResultHeard ==
    ASSUME IInv, NEW c \in Calls, Hears(c, "compiled")
    PROVE  yield[c] \in {PluginOf[c], "error"}
<1>1. guardianBox[c] \in Seq({"compiled", "caller_down", "worker_down"})
  BY DEF IInv, TypeOK
<1>2. 1 \in DOMAIN guardianBox[c] /\ guardianBox[c][1] = "compiled"
  BY <1>1 DEF Hears
<1>3. QED
  BY <1>2 DEF IInv, ProviderInv

\* A call in native code holds a permit, so that there is one to give back.
LEMMA PermitHeld ==
    ASSUME IInv, NEW c \in Calls, InCompile(c)
    PROVE  /\ IsFiniteSet(Holders)
           /\ COMPILING > 0
           /\ Cardinality(Holders \ {c}) = COMPILING - 1
<1>1. IsFiniteSet(Holders)
  BY FS_Subset, CompilationAssumption DEF Holders
<1>2. c \in Holders
  BY DEF Holders
<1>3. Cardinality(Holders \ {c}) = Cardinality(Holders) - 1
  BY <1>1, <1>2, FS_RemoveElement
<1>4. Cardinality(Holders) # 0
  BY <1>1, <1>2, FS_EmptySet
<1>5. Cardinality(Holders) \in Nat
  BY <1>1, FS_CardinalityType
<1>6. QED
  BY <1>1, <1>3, <1>4, <1>5 DEF IInv, PermitInv

LEMMA TypeStep ==
    ASSUME IInv, NEW c \in Calls,
           \/ Compile(c) \/ Answered(c) \/ Return(c) \/ CallerKilled(c) \/ GuardianStep(c)
           \/ GuardianKilled(c) \/ WorkerStep(c) \/ WorkerKilled(c) \/ Expire(c)
           \/ NativeStep(c) \/ Fails(c) \/ Succeeds(c)
    PROVE  TypeOK'
<1> USE DEF TypeOK, processVars, nativeVars
<1>0. TypeOK
  BY DEF IInv
<1>1. CASE Compile(c)
  BY <1>0, <1>1 DEF Compile
<1>2. CASE Answered(c) \/ Return(c)
  <2>1. CASE Answered(c)
    <3>1. /\ Head(callerBox[c]) \in Plugins \cup Errors
          /\ Tail(callerBox[c]) \in Seq(Plugins \cup Errors)
      BY <1>0, <2>1 DEF Answered
    <3>2. QED
      BY <1>0, <2>1, <3>1 DEF Answered
  <2>2. CASE Return(c)
    <3>1. <<>> \in Seq(Plugins \cup Errors)
      OBVIOUS
    <3>2. QED
      BY <1>0, <2>2, <3>1, NothingCame DEF Return
  <2>3. QED
    BY <1>2, <2>1, <2>2
<1>3. CASE CallerKilled(c)
  <2>1. guardianBox' \in [Calls -> Seq({"compiled", "caller_down", "worker_down"})]
    BY <1>0, <1>3, GuardianMail DEF CallerKilled
  <2>2. <<>> \in Seq(Plugins \cup Errors)
    OBVIOUS
  <2>3. QED
    BY <1>0, <1>3, <2>1, <2>2 DEF CallerKilled
<1>4. CASE GuardianStep(c) \/ GuardianKilled(c)
  <2>1. callerBox' \in [Calls -> Seq(Plugins \cup Errors)]
    <3>1. CASE HearCompiled(c)
      <4>1. yield[c] \in Plugins \cup Errors
        BY <3>1, ResultHeard, Notices DEF HearCompiled, Errors
      <4>2. QED
        BY <1>0, <3>1, <4>1, CallerMail DEF HearCompiled
    <3>2. CASE HearWorkerDown(c) \/ TimesOut(c) \/ GuardianEnds(c) \/ GuardianKilled(c)
      <4>1. "stopped" \in Errors /\ "timeout" \in Errors /\ "down" \in Errors
        BY DEF Errors
      <4>2. QED
        BY <1>0, <3>2, <4>1, CallerMail
           DEF HearWorkerDown, TimesOut, GuardianEnds, GuardianKilled
    <3>3. CASE HearCallerDown(c) \/ CancelNative(c)
      BY <1>0, <3>3 DEF HearCallerDown, CancelNative
    <3>4. QED
      BY <1>4, <3>1, <3>2, <3>3 DEF GuardianStep
  <2>2. <<>> \in Seq({"compiled", "caller_down", "worker_down"})
    OBVIOUS
  <2>3. CASE HearCompiled(c) \/ HearCallerDown(c)
    BY <1>0, <2>1, <2>2, <2>3 DEF HearCompiled, HearCallerDown, Decides
  <2>4. CASE HearWorkerDown(c) \/ TimesOut(c)
    BY <1>0, <2>1, <2>2, <2>4 DEF HearWorkerDown, TimesOut, Decides
  <2>5. CASE CancelNative(c) \/ GuardianEnds(c) \/ GuardianKilled(c)
    BY <1>0, <2>1, <2>2, <2>5 DEF CancelNative, GuardianEnds, GuardianKilled
  <2>6. QED
    BY <1>4, <2>3, <2>4, <2>5 DEF GuardianStep
<1>5. CASE WorkerStep(c) \/ WorkerKilled(c) \/ Expire(c)
  <2>1. guardianBox' \in [Calls -> Seq({"compiled", "caller_down", "worker_down"})]
    BY <1>0, <1>5, GuardianMail
       DEF WorkerStep, WorkerSends, WorkerExits, WorkerKilled, WorkerDies, Expire
  <2>2. QED
    BY <1>0, <1>5, <2>1
       DEF WorkerStep, WorkerSends, WorkerExits, WorkerKilled, WorkerDies, Expire
<1>6. CASE Fails(c) \/ Interrupted(c) \/ Succeeds(c) \/ BuildFails(c)
  <2>1. InCompile(c)
    BY <1>6 DEF Fails, Interrupted, Succeeds, BuildFails, InCompile
  <2>2. COMPILING > 0
    BY <2>1, PermitHeld
  <2>3. MaxCompiling \in Nat /\ COMPILING \in 0..MaxCompiling
    BY <1>0, CompilationAssumption
  <2>4. COMPILING - 1 \in 0..MaxCompiling
    BY <2>2, <2>3
  <2>5. CASE Fails(c) \/ Interrupted(c) \/ Succeeds(c)
    <3>1. PICK v \in Plugins \cup {"error", None} : Leave(c, v)
      BY <1>0, <2>5 DEF Fails, Interrupted, Succeeds
    <3>2. QED
      BY <1>0, <2>4, <3>1 DEF Leave
  <2>6. CASE BuildFails(c)
    BY <1>0, <2>4, <2>6 DEF BuildFails
  <2>7. QED
    BY <1>6, <2>5, <2>6
<1>7. CASE Admitted(c)
  BY <1>0, <1>7, CompilationAssumption DEF Admitted, Moves
<1>8. CASE UseCached(c) \/ Build(c)
  <2>1. CASE UseCached(c)
    BY <1>0, <2>1, Notices DEF UseCached, IsCached, Moves
  <2>2. CASE Build(c)
    BY <1>0, <2>2, Notices DEF Build, IsCached, Moves
  <2>3. QED
    BY <1>8, <2>1, <2>2
<1>9. CASE Refused(c) \/ AskProvider(c) \/ Lock(c) \/ RunCompiler(c)
  BY <1>0, <1>9 DEF Refused, AskProvider, Lock, RunCompiler, Moves
<1>10. QED
  BY <1>1, <1>2, <1>3, <1>4, <1>5, <1>6, <1>7, <1>8, <1>9 DEF NativeStep

-----------------------------------------------------------------------------
(* Permits.                                                                *)

LEMMA PermitStep ==
    ASSUME IInv, NEW c \in Calls,
           \/ Compile(c) \/ Answered(c) \/ Return(c) \/ CallerKilled(c) \/ GuardianStep(c)
           \/ GuardianKilled(c) \/ WorkerStep(c) \/ WorkerKilled(c) \/ Expire(c)
           \/ NativeStep(c) \/ Fails(c) \/ Succeeds(c)
    PROVE  PermitInv'
<1>0. TypeOK
  BY DEF IInv
<1>1. \A d \in Calls \ {c} : InCompile(d)' <=> InCompile(d)
  BY <1>0, OthersKept DEF Own, InCompile
<1>2. CASE Fails(c) \/ Interrupted(c) \/ Succeeds(c) \/ BuildFails(c)
  <2>1. InCompile(c) /\ ~InCompile(c)' /\ COMPILING' = COMPILING - 1
    BY <1>0, <1>2
       DEF Fails, Interrupted, Succeeds, BuildFails, Leave, InCompile, TypeOK
  <2>2. Holders' = Holders \ {c}
    BY <1>1, <2>1 DEF Holders
  <2>3. QED
    BY <2>1, <2>2, PermitHeld DEF PermitInv
<1>3. CASE Admitted(c)
  <2>1. ~InCompile(c) /\ InCompile(c)' /\ COMPILING' = COMPILING + 1
    BY <1>0, <1>3 DEF Admitted, Moves, InCompile, TypeOK
  <2>2. Holders' = Holders \cup {c} /\ c \notin Holders
    BY <1>1, <2>1 DEF Holders
  <2>3. IsFiniteSet(Holders)
    BY FS_Subset, CompilationAssumption DEF Holders
  <2>4. QED
    BY <2>1, <2>2, <2>3, FS_AddElement DEF IInv, PermitInv
<1>4. CASE \/ Compile(c) \/ Answered(c) \/ Return(c) \/ CallerKilled(c) \/ GuardianStep(c)
           \/ GuardianKilled(c) \/ WorkerStep(c) \/ WorkerKilled(c) \/ Expire(c)
  <2>1. COMPILING' = COMPILING /\ (InCompile(c)' <=> InCompile(c))
    <3>1. CASE Compile(c)
      BY <1>0, <3>1 DEF Compile, InCompile, TypeOK, IInv, StartInv
    <3>2. CASE \/ Answered(c) \/ Return(c) \/ CallerKilled(c) \/ GuardianStep(c)
               \/ GuardianKilled(c) \/ WorkerStep(c) \/ WorkerKilled(c) \/ Expire(c)
      <4>1. UNCHANGED nativeVars
        BY <3>2
           DEF Return, Answered, CallerKilled, GuardianStep, HearCompiled,
               HearCallerDown, HearWorkerDown, TimesOut, Decides, CancelNative,
               GuardianEnds, GuardianKilled, WorkerStep, WorkerSends, WorkerExits,
               WorkerKilled, WorkerDies, Expire
      <4>2. QED
        BY <4>1 DEF nativeVars, InCompile
    <3>3. QED
      BY <1>4, <3>1, <3>2
  <2>2. Holders' = Holders
    BY <1>1, <2>1 DEF Holders
  <2>3. QED
    BY <2>1, <2>2 DEF IInv, PermitInv
<1>5. CASE Refused(c) \/ AskProvider(c) \/ Lock(c) \/ UseCached(c) \/ Build(c) \/ RunCompiler(c)
  <2>1. COMPILING' = COMPILING /\ (InCompile(c)' <=> InCompile(c))
    BY <1>0, <1>5
       DEF Refused, AskProvider, Lock, UseCached, Build, RunCompiler, Moves, InCompile,
           TypeOK
  <2>2. Holders' = Holders
    BY <1>1, <2>1 DEF Holders
  <2>3. QED
    BY <2>1, <2>2 DEF IInv, PermitInv
<1>6. QED
  BY <1>2, <1>3, <1>4, <1>5 DEF NativeStep
-----------------------------------------------------------------------------
(* Modules and mailboxes.                                                  *)

\* What comes into a mailbox is one of the old messages or the new one.
LEMMA CallerTold ==
    ASSUME IInv, NEW c \in Calls, NEW m \in Told(c), ToCaller(c, m)
    PROVE  callerBox'[c] \in Seq(Told(c))
<1>1. callerBox[c] \in Seq(Told(c))
  BY DEF IInv, ProviderInv
<1>2. Append(callerBox[c], m) \in Seq(Told(c))
  BY <1>1
<1>3. callerBox \in [Calls -> Seq(Plugins \cup Errors)]
  BY DEF IInv, TypeOK
<1>4. CASE Reachable(c)
  BY <1>2, <1>3, <1>4 DEF ToCaller
<1>5. CASE ~Reachable(c)
  BY <1>1, <1>5 DEF ToCaller
<1>6. QED
  BY <1>4, <1>5

LEMMA GuardianTold ==
    ASSUME IInv, NEW c \in Calls, NEW m, m \in {"compiled", "caller_down", "worker_down"},
           ToGuardian(c, m), m = "compiled" => native[c] = "done"
    PROVE  \A n \in DOMAIN guardianBox'[c] :
              guardianBox'[c][n] = "compiled" => native[c] = "done"
<1>1. guardianBox \in [Calls -> Seq({"compiled", "caller_down", "worker_down"})]
  BY DEF IInv, TypeOK
<1>2. \A n \in DOMAIN guardianBox[c] : guardianBox[c][n] = "compiled" => native[c] = "done"
  BY DEF IInv, ProviderInv
<1>3. CASE guardian[c] = "waiting"
  <2>1. guardianBox'[c] = Append(guardianBox[c], m)
    BY <1>1, <1>3 DEF ToGuardian
  <2>2. QED
    BY <1>1, <1>2, <2>1
<1>4. CASE guardian[c] # "waiting"
  BY <1>2, <1>4 DEF ToGuardian
<1>5. QED
  BY <1>3, <1>4

LEMMA ProviderStep ==
    ASSUME IInv, NEW c \in Calls,
           \/ Compile(c) \/ Answered(c) \/ Return(c) \/ CallerKilled(c) \/ GuardianStep(c)
           \/ GuardianKilled(c) \/ WorkerStep(c) \/ WorkerKilled(c) \/ Expire(c)
           \/ NativeStep(c) \/ Fails(c) \/ Succeeds(c)
    PROVE  ProviderInv(c)' /\ StartInv(c)'
<1> USE DEF processVars, nativeVars
<1>0. TypeOK /\ ProviderInv(c) /\ StartInv(c)
  BY DEF IInv
<1>1. CASE Compile(c)
  BY <1>0, <1>1 DEF Compile, TypeOK, ProviderInv, StartInv
<1>2. CASE Answered(c) \/ Return(c)
  <2>1. CASE Answered(c)
    <3>1. Head(callerBox[c]) \in Told(c) /\ Tail(callerBox[c]) \in Seq(Told(c))
      BY <1>0, <2>1 DEF Answered, ProviderInv
    <3>2. QED
      BY <1>0, <2>1, <3>1 DEF Answered, TypeOK, ProviderInv, StartInv
  <2>2. CASE Return(c)
    <3>1. <<>> \in Seq(Told(c))
      OBVIOUS
    <3>2. QED
      BY <1>0, <2>2, <3>1, NothingCame DEF Return, TypeOK, ProviderInv, StartInv
  <2>3. QED
    BY <1>2, <2>1, <2>2
<1>3. CASE CallerKilled(c)
  <2>1. \A n \in DOMAIN guardianBox'[c] :
            guardianBox'[c][n] = "compiled" => native[c] = "done"
    BY <1>3, GuardianTold DEF CallerKilled
  <2>2. <<>> \in Seq(Told(c))
    OBVIOUS
  <2>3. QED
    BY <1>0, <1>3, <2>1, <2>2 DEF CallerKilled, TypeOK, ProviderInv, StartInv
<1>4. CASE GuardianStep(c) \/ GuardianKilled(c)
  <2>1. callerBox'[c] \in Seq(Told(c))
    <3>1. CASE HearCompiled(c)
      <4>1. yield[c] \in Told(c)
        BY <3>1, ResultHeard DEF HearCompiled, Told, Errors
      <4>2. QED
        BY <3>1, <4>1, CallerTold DEF HearCompiled
    <3>2. CASE HearWorkerDown(c) \/ TimesOut(c) \/ GuardianEnds(c) \/ GuardianKilled(c)
      <4>1. "stopped" \in Told(c) /\ "timeout" \in Told(c) /\ "down" \in Told(c)
        BY DEF Told, Errors
      <4>2. QED
        BY <3>2, <4>1, CallerTold
           DEF HearWorkerDown, TimesOut, GuardianEnds, GuardianKilled
    <3>3. CASE HearCallerDown(c) \/ CancelNative(c)
      BY <1>0, <3>3 DEF HearCallerDown, CancelNative, ProviderInv, StartInv
    <3>4. QED
      BY <1>4, <3>1, <3>2, <3>3 DEF GuardianStep
  <2>2. guardianBox'[c] = guardianBox[c] \/ guardianBox'[c] = <<>>
    BY <1>0, <1>4
       DEF GuardianStep, HearCompiled, HearCallerDown, HearWorkerDown, TimesOut, Decides,
           CancelNative, GuardianEnds, GuardianKilled, TypeOK
  <2>3. UNCHANGED <<caller, answer, nativeVars>>
    BY <1>4
       DEF GuardianStep, HearCompiled, HearCallerDown, HearWorkerDown, TimesOut, Decides,
           CancelNative, GuardianEnds, GuardianKilled
  <2>4. QED
    BY <1>0, <2>1, <2>2, <2>3 DEF ProviderInv, StartInv
<1>5. CASE WorkerStep(c) \/ WorkerKilled(c) \/ Expire(c)
  <2>1. \A n \in DOMAIN guardianBox'[c] :
            guardianBox'[c][n] = "compiled" => native[c] = "done"
    <3>1. CASE WorkerSends(c)
      BY <3>1, GuardianTold DEF WorkerSends
    <3>2. CASE WorkerExits(c) \/ WorkerKilled(c)
      BY <3>2, GuardianTold DEF WorkerExits, WorkerKilled, WorkerDies
    <3>3. CASE Expire(c)
      BY <1>0, <3>3 DEF Expire, ProviderInv
    <3>4. QED
      BY <1>5, <3>1, <3>2, <3>3 DEF WorkerStep
  <2>2. UNCHANGED <<caller, answer, callerBox, nativeVars>>
    BY <1>5 DEF WorkerStep, WorkerSends, WorkerExits, WorkerKilled, WorkerDies, Expire
  <2>3. QED
    BY <1>0, <2>1, <2>2 DEF ProviderInv, StartInv
<1>6. CASE NativeStep(c) \/ Fails(c) \/ Succeeds(c)
  <2>1. /\ UNCHANGED <<caller, answer, callerBox, guardianBox>>
        /\ native[c] # "done"
        /\ native[c] # "none"
    BY <1>6
       DEF NativeStep, Refused, Admitted, AskProvider, Lock, UseCached, Build, BuildFails,
           RunCompiler, Interrupted, Fails, Succeeds, Leave, Moves
  <2>2. CASE \/ Refused(c) \/ BuildFails(c) \/ Fails(c) \/ Interrupted(c)
    <3>1. yield'[c] = "error" /\ native'[c] = "done" /\ runtime' = runtime
      BY <1>0, <2>2 DEF Refused, BuildFails, Fails, Interrupted, Leave, TypeOK
    <3>2. "error" # None
      BY CompilationAssumption DEF Errors
    <3>3. QED
      BY <1>0, <2>1, <3>1, <3>2 DEF ProviderInv, StartInv
  <2>3. CASE Succeeds(c)
    <3>1. yield'[c] = PluginOf[c] /\ native'[c] = "done" /\ runtime' = runtime
      BY <1>0, <2>3 DEF Succeeds, Leave, TypeOK, ProviderInv
    <3>2. QED
      BY <1>0, <2>1, <3>1, Notices DEF ProviderInv, StartInv
  <2>4. CASE UseCached(c) \/ Build(c)
    <3>1. runtime'[c] = PluginOf[c] /\ native'[c] = "provided" /\ yield' = yield
      BY <1>0, <2>4 DEF UseCached, Build, IsCached, Moves, TypeOK
    <3>2. QED
      BY <1>0, <2>1, <3>1 DEF ProviderInv, StartInv
  <2>5. CASE Admitted(c) \/ AskProvider(c) \/ Lock(c)
    <3>1. runtime' = runtime /\ yield' = yield /\ native'[c] \in {"admitted", "waiting", "locked"}
      BY <1>0, <2>5 DEF Admitted, AskProvider, Lock, Moves, TypeOK
    <3>2. QED
      BY <1>0, <2>1, <3>1 DEF ProviderInv, StartInv
  <2>6. CASE RunCompiler(c)
    <3>1. runtime' = runtime /\ yield' = yield /\ native'[c] = "compiling" /\ native[c] = "provided"
      BY <1>0, <2>6 DEF RunCompiler, Moves, TypeOK
    <3>2. QED
      BY <1>0, <2>1, <3>1 DEF ProviderInv, StartInv
  <2>7. QED
    BY <1>6, <2>2, <2>3, <2>4, <2>5, <2>6 DEF NativeStep
<1>7. QED
  BY <1>1, <1>2, <1>3, <1>4, <1>5, <1>6

\* Only the first message of a guardian can be an answer, and only its DOWN
\* can come after that.
LEMMA MailStep ==
    ASSUME IInv, NEW c \in Calls,
           \/ Compile(c) \/ Answered(c) \/ Return(c) \/ CallerKilled(c) \/ GuardianStep(c)
           \/ GuardianKilled(c) \/ WorkerStep(c) \/ WorkerKilled(c) \/ Expire(c)
           \/ NativeStep(c) \/ Fails(c) \/ Succeeds(c)
    PROVE  MailInv(c)'
<1> USE DEF processVars, nativeVars, MailInv, Reachable
<1>0. TypeOK /\ MailInv(c)
  BY DEF IInv
<1>1. CASE Compile(c)
  BY <1>0, <1>1 DEF Compile, TypeOK
<1>2. CASE Answered(c)
  <2>1. /\ caller[c] = "waiting" /\ caller'[c] = "answered" /\ guardian' = guardian
        /\ callerBox[c] # <<>> /\ callerBox'[c] = Tail(callerBox[c])
    BY <1>0, <1>2 DEF Answered, TypeOK
  <2>2. CASE guardian[c] \in {"decided", "cancelled"}
    <3>1. callerBox'[c] = <<>>
      BY <1>0, <2>1, <2>2, ShortBoxes
    <3>2. QED
      BY <2>1, <2>2, <3>1
  <2>3. CASE guardian[c] = "gone"
    <3>1. callerBox'[c] \in {<<>>, <<"down">>}
      BY <1>0, <2>1, <2>3, ShortBoxes
    <3>2. QED
      BY <2>1, <2>3, <3>1
  <2>4. QED
    BY <1>0, <2>1, <2>2, <2>3 DEF TypeOK
<1>3. CASE Return(c)
  <2>1. callerBox'[c] = <<>> /\ caller'[c] = "returned"
    BY <1>0, <1>3, NothingCame DEF Return, TypeOK
  <2>2. QED
    BY <2>1
<1>4. CASE CallerKilled(c)
  <2>1. callerBox'[c] = <<>> /\ caller'[c] = "dead"
    BY <1>0, <1>4 DEF CallerKilled, TypeOK
  <2>2. QED
    BY <2>1
<1>5. CASE HearCompiled(c) \/ HearWorkerDown(c) \/ TimesOut(c)
  <2>1. PICK m \in Replies(c) : ToCaller(c, m)
    <3>1. yield[c] \in {PluginOf[c], "error"} \/ ~Hears(c, "compiled")
      BY ResultHeard
    <3>2. {PluginOf[c], "error", "timeout", "stopped"} \subseteq Replies(c)
      BY Notices DEF Replies, Told, Errors
    <3>3. QED
      BY <1>5, <3>1, <3>2 DEF HearCompiled, HearWorkerDown, TimesOut
  <2>2. /\ guardian[c] = "waiting" /\ guardian'[c] = "decided" /\ caller' = caller
        /\ callerBox[c] = <<>> /\ caller[c] # "answered"
    BY <1>0, <1>5 DEF HearCompiled, HearWorkerDown, TimesOut, Decides, TypeOK
  <2>3. callerBox'[c] = IF caller[c] = "waiting" THEN <<m>> ELSE <<>>
    BY <1>0, <2>1, <2>2, ShortBoxes DEF ToCaller, TypeOK
  <2>4. Replies(c)' = Replies(c)
    BY DEF Replies, Told
  <2>5. QED
    BY <2>1, <2>2, <2>3, <2>4
<1>6. CASE HearCallerDown(c) \/ CancelNative(c)
  <2>1. /\ guardian[c] \in {"waiting", "decided"} /\ guardian'[c] \in {"decided", "cancelled"}
        /\ UNCHANGED <<caller, callerBox>>
    BY <1>0, <1>6 DEF HearCallerDown, Decides, CancelNative, TypeOK
  <2>2. QED
    BY <1>0, <2>1 DEF Replies, Told
<1>7. CASE GuardianEnds(c) \/ GuardianKilled(c)
  <2>1. /\ guardian[c] \in {"waiting", "decided", "cancelled"} /\ guardian'[c] = "gone"
        /\ caller' = caller /\ ToCaller(c, "down")
    BY <1>0, <1>7 DEF GuardianEnds, GuardianKilled, TypeOK
  <2>2. CASE ~Reachable(c)
    BY <1>0, <2>1, <2>2 DEF ToCaller
  <2>3. CASE Reachable(c)
    <3>1. callerBox'[c] = Append(callerBox[c], "down")
      BY <1>0, <2>1, <2>3 DEF ToCaller, TypeOK
    <3>2. CASE callerBox[c] = <<>>
      BY <2>1, <2>3, <3>1, <3>2, ShortBoxes
    <3>3. CASE callerBox[c] # <<>>
      <4>1. PICK m \in Replies(c) : caller[c] = "waiting" /\ callerBox[c] = <<m>>
        BY <1>0, <2>1, <3>3
      <4>2. callerBox'[c] = <<m, "down">>
        BY <3>1, <4>1, ShortBoxes
      <4>3. QED
        BY <2>1, <2>3, <4>1, <4>2 DEF Replies, Told
    <3>4. QED
      BY <3>2, <3>3
  <2>4. QED
    BY <2>2, <2>3
<1>8. CASE WorkerStep(c) \/ WorkerKilled(c)
  <2>1. UNCHANGED <<caller, callerBox, guardian>>
    BY <1>8 DEF WorkerStep, WorkerSends, WorkerExits, WorkerKilled, WorkerDies
  <2>2. QED
    BY <1>0, <2>1 DEF Replies, Told
<1>9. CASE Expire(c) \/ NativeStep(c) \/ Fails(c) \/ Succeeds(c)
  <2>1. UNCHANGED processVars
    BY <1>9 DEF Expire, NativeStep, Refused, Admitted, AskProvider, Lock, UseCached,
         Build, BuildFails, RunCompiler, Interrupted, Fails, Succeeds, Leave, Moves
  <2>2. QED
    BY <1>0, <2>1 DEF Replies, Told
<1>10. QED
  BY <1>1, <1>2, <1>3, <1>4, <1>5, <1>6, <1>7, <1>8, <1>9 DEF GuardianStep

-----------------------------------------------------------------------------
LEMMA Initially == Init => IInv
<1> SUFFICES ASSUME Init PROVE IInv
  OBVIOUS
<1>1. TypeOK
  <2>1. <<>> \in Seq(Plugins \cup Errors)
        /\ <<>> \in Seq({"compiled", "caller_down", "worker_down"})
    OBVIOUS
  <2>2. QED
    BY <2>1, CompilationAssumption DEF Init, TypeOK
<1>2. PermitInv
  <2>1. Holders = {}
    BY DEF Init, Holders, InCompile
  <2>2. QED
    BY <2>1, FS_EmptySet DEF Init, PermitInv
<1>3. ASSUME NEW c \in Calls PROVE ProviderInv(c) /\ MailInv(c) /\ StartInv(c)
  <2>1. <<>> \in Seq(Told(c))
    OBVIOUS
  <2>2. QED
    BY <2>1 DEF Init, ProviderInv, MailInv, StartInv
<1>4. QED
  BY <1>1, <1>2, <1>3 DEF IInv

LEMMA Step == IInv /\ [Next]_vars => IInv'
<1> SUFFICES ASSUME IInv, [Next]_vars PROVE IInv'
  OBVIOUS
<1>1. CASE UNCHANGED vars
  BY <1>1 DEF vars, processVars, nativeVars, IInv, TypeOK, PermitInv, Holders, InCompile,
              ProviderInv, MailInv, Reachable, StartInv
<1>2. CASE Next
  <2>1. PICK c \in Calls :
           \/ Compile(c) \/ Answered(c) \/ Return(c) \/ CallerKilled(c) \/ GuardianStep(c)
           \/ GuardianKilled(c) \/ WorkerStep(c) \/ WorkerKilled(c) \/ Expire(c)
           \/ NativeStep(c) \/ Fails(c) \/ Succeeds(c)
    BY <1>2 DEF Next
  <2>2. TypeOK' /\ PermitInv'
    BY <2>1, TypeStep, PermitStep
  <2>3. ProviderInv(c)' /\ MailInv(c)' /\ StartInv(c)'
    BY <2>1, ProviderStep, MailStep
  <2>4. ASSUME NEW d \in Calls \ {c} PROVE ProviderInv(d)' /\ MailInv(d)' /\ StartInv(d)'
    <3>1. Own(d)' = Own(d)
      BY <2>1, OthersKept DEF IInv
    <3>2. ProviderInv(d) /\ MailInv(d) /\ StartInv(d)
      BY DEF IInv
    <3>3. QED
      BY <3>1, <3>2 DEF Own, ProviderInv, MailInv, Reachable, StartInv
  <2>5. QED
    BY <2>2, <2>3, <2>4 DEF IInv
<1>3. QED
  BY <1>1, <1>2

LEMMA Invariance == Spec => []IInv
  BY Initially, Step, PTL DEF Spec

\* Every variable keeps its type: the counter of permits neither leaves its
\* range nor goes below zero.
THEOREM TypeCorrect == Spec => []TypeOK
<1>1. IInv => TypeOK
  BY DEF IInv
<1>2. QED
  BY <1>1, Invariance, PTL

\* The permits given out are those of the compilations in native code, never
\* more than 16: each way out gives one back, and only one.
THEOREM PermitTheorem == Spec => []PermitsAccounted
<1>1. IInv => PermitsAccounted
  BY CompilationAssumption DEF IInv, PermitInv, Holders, TypeOK, PermitsAccounted
<1>2. QED
  BY <1>1, Invariance, PTL

\* Whatever other calls do to the cached provider, a call is answered with
\* the module its own plugin made.
THEOREM ProviderTheorem == Spec => []OwnProvider
<1>1. IInv => OwnProvider
  BY Notices, CompilationAssumption DEF IInv, ProviderInv, Told, OwnProvider
<1>2. QED
  BY <1>1, Invariance, PTL

\* A call leaves no late answer and no DOWN in its caller's mailbox, although
\* only the DOWN is flushed: a guardian answers once, and then only ends.
THEOREM MailboxTheorem == Spec => []NothingLeftBehind
<1>1. IInv => NothingLeftBehind
  BY DEF IInv, MailInv, Reachable, NothingLeftBehind
<1>2. QED
  BY <1>1, Invariance, PTL

-----------------------------------------------------------------------------
(* Nobody waits in vain.                                                   *)

\* What CallReturns and CompilationEnds need of every state: who waits has a
\* message, or waits for a process that is there; and the mutex is held by a
\* call that will let it go.
NobodyWaitsInVain ==
    /\ \A c \in Calls :
          /\ caller[c] = "waiting" => callerBox[c] # <<>> \/ guardian[c] = "waiting"
          /\ guardian[c] = "waiting" => worker[c] = "running" \/ guardianBox[c] # <<>>
          /\ guardian[c] = "waiting" => caller[c] = "waiting" \/ guardianBox[c] # <<>>
          /\ worker[c] = "running" => native[c] # "none"
          /\ native[c] = "locked" => lock = c
    /\ lock # None => native[lock] = "locked"

\* A guardian that waits has told its caller nothing; one that was never made
\* belongs to a caller that has not called.
WaitInv(c) ==
    /\ caller[c] = "waiting" => callerBox[c] # <<>> \/ guardian[c] = "waiting"
    /\ guardian[c] = "waiting" => worker[c] = "running" \/ guardianBox[c] # <<>>
    /\ guardian[c] = "waiting" => caller[c] = "waiting" \/ guardianBox[c] # <<>>
    /\ guardian[c] = "waiting" => callerBox[c] = <<>>
    /\ caller[c] = "idle" => guardian[c] = "none" /\ worker[c] = "none"
    /\ worker[c] = "running" => native[c] # "none"

\* A guardian hears of a death that has happened.
DownInv(c) ==
    /\ caller[c] = "idle" => guardian[c] = "none" /\ guardianBox[c] = <<>>
    /\ \A n \in DOMAIN guardianBox[c] :
          guardianBox[c][n] = "caller_down" => caller[c] \notin {"idle", "waiting"}

LockInv(c) == native[c] = "locked" <=> lock = c

LEMMA Posted ==
    ASSUME TypeOK, NEW c \in Calls
    PROVE  /\ \A m \in Plugins \cup Errors : ToCaller(c, m) =>
                 IF Reachable(c) THEN callerBox'[c] # <<>>
                                 ELSE callerBox'[c] = callerBox[c]
           /\ \A m \in {"compiled", "caller_down", "worker_down"} : ToGuardian(c, m) =>
                 IF guardian[c] = "waiting" THEN guardianBox'[c] # <<>>
                                            ELSE guardianBox'[c] = guardianBox[c]
<1>1. ASSUME NEW S, NEW s \in Seq(S), NEW m \in S PROVE Append(s, m) # <<>>
  <2>1. Len(Append(s, m)) = Len(s) + 1 /\ Len(s) \in Nat
    BY AppendProperties, LenProperties
  <2>2. Len(<<>>) = 0
    BY EmptySeq
  <2>3. QED
    BY <2>1, <2>2
<1>2. \A m \in Plugins \cup Errors : Append(callerBox[c], m) # <<>>
  BY <1>1 DEF TypeOK
<1>3. \A m \in {"compiled", "caller_down", "worker_down"} : Append(guardianBox[c], m) # <<>>
  BY <1>1 DEF TypeOK
<1>4. QED
  BY <1>2, <1>3 DEF ToCaller, ToGuardian, TypeOK

LEMMA DownStep ==
    ASSUME IInv, NEW c \in Calls, DownInv(c),
           \/ Compile(c) \/ Answered(c) \/ Return(c) \/ CallerKilled(c) \/ GuardianStep(c)
           \/ GuardianKilled(c) \/ WorkerStep(c) \/ WorkerKilled(c) \/ Expire(c)
           \/ NativeStep(c) \/ Fails(c) \/ Succeeds(c)
    PROVE  DownInv(c)'
<1> USE DEF processVars, nativeVars
<1>0. TypeOK /\ DOMAIN <<>> = {}
  BY DEF IInv
<1>1. CASE Compile(c)
  BY <1>0, <1>1 DEF Compile, DownInv, TypeOK
<1>2. CASE Answered(c) \/ Return(c)
  BY <1>0, <1>2 DEF Return, Answered, DownInv, TypeOK
<1>3. CASE CallerKilled(c)
  BY <1>0, <1>3 DEF CallerKilled, Reachable, DownInv, TypeOK
<1>4. CASE HearCompiled(c) \/ HearCallerDown(c) \/ HearWorkerDown(c) \/ TimesOut(c)
  <2>1. Decides(c)
    BY <1>4 DEF HearCompiled, HearCallerDown, HearWorkerDown, TimesOut
  <2>2. QED
    BY <1>0, <2>1 DEF Decides, DownInv, TypeOK
<1>5. CASE CancelNative(c) \/ GuardianEnds(c)
  BY <1>0, <1>5 DEF CancelNative, GuardianEnds, DownInv, TypeOK
<1>6. CASE GuardianKilled(c)
  BY <1>0, <1>6 DEF GuardianKilled, DownInv, TypeOK
<1>7. CASE WorkerStep(c) \/ WorkerKilled(c)
  <2>1. PICK m \in {"compiled", "worker_down"} : ToGuardian(c, m)
    BY <1>7 DEF WorkerStep, WorkerSends, WorkerExits, WorkerKilled, WorkerDies
  <2>2. UNCHANGED <<caller, guardian>>
    BY <1>7 DEF WorkerStep, WorkerSends, WorkerExits, WorkerKilled, WorkerDies
  <2>3. CASE guardian[c] = "waiting"
    <3>1. guardianBox'[c] = Append(guardianBox[c], m) /\ caller[c] # "idle"
      BY <1>0, <2>1, <2>3 DEF ToGuardian, TypeOK, DownInv
    <3>2. \A n \in DOMAIN guardianBox'[c] :
             \/ guardianBox'[c][n] = m
             \/ n \in DOMAIN guardianBox[c] /\ guardianBox'[c][n] = guardianBox[c][n]
      BY <1>0, <3>1 DEF TypeOK
    <3>3. m # "caller_down"
      OBVIOUS
    <3>4. QED
      BY <2>2, <3>1, <3>2, <3>3 DEF DownInv
  <2>4. CASE guardian[c] # "waiting"
    BY <2>1, <2>2, <2>4 DEF ToGuardian, DownInv
  <2>5. QED
    BY <2>3, <2>4
<1>8. CASE Expire(c) \/ NativeStep(c) \/ Fails(c) \/ Succeeds(c)
  <2>1. UNCHANGED processVars
    BY <1>8 DEF Expire, NativeStep, Refused, Admitted, AskProvider, Lock, UseCached,
         Build, BuildFails, RunCompiler, Interrupted, Fails, Succeeds, Leave, Moves
  <2>2. QED
    BY <2>1 DEF DownInv
<1>9. QED
  BY <1>1, <1>2, <1>3, <1>4, <1>5, <1>6, <1>7, <1>8 DEF GuardianStep

LEMMA WaitStep ==
    ASSUME IInv, NEW c \in Calls, WaitInv(c), DownInv(c),
           \/ Compile(c) \/ Answered(c) \/ Return(c) \/ CallerKilled(c) \/ GuardianStep(c)
           \/ GuardianKilled(c) \/ WorkerStep(c) \/ WorkerKilled(c) \/ Expire(c)
           \/ NativeStep(c) \/ Fails(c) \/ Succeeds(c)
    PROVE  WaitInv(c)'
<1> USE DEF WaitInv, TypeOK, processVars, nativeVars
<1>0. TypeOK /\ MailInv(c)
  BY DEF IInv
<1>1. CASE Compile(c)
  BY <1>0, <1>1 DEF Compile, MailInv, Reachable
<1>2. CASE Answered(c) \/ Return(c)
  <2>1. caller'[c] \in {"answered", "returned"} /\ guardian[c] # "waiting"
    BY <1>0, <1>2 DEF Answered, Return, MailInv
  <2>2. UNCHANGED <<guardian, guardianBox, worker, native>>
    BY <1>2 DEF Answered, Return
  <2>3. QED
    BY <1>0, <2>1, <2>2
<1>3. CASE CallerKilled(c)
  <2>1. IF guardian[c] = "waiting" THEN guardianBox'[c] # <<>>
                                  ELSE guardianBox'[c] = guardianBox[c]
    BY <1>0, <1>3, Posted DEF CallerKilled
  <2>2. QED
    BY <1>0, <1>3, <2>1 DEF CallerKilled
<1>4. CASE HearCompiled(c) \/ HearWorkerDown(c) \/ TimesOut(c)
  <2>1. PICK m \in Plugins \cup Errors : ToCaller(c, m)
    BY <1>4, ResultHeard, Notices DEF HearCompiled, HearWorkerDown, TimesOut, Errors
  <2>2. IF Reachable(c) THEN callerBox'[c] # <<>> ELSE callerBox'[c] = callerBox[c]
    BY <1>0, <2>1, Posted
  <2>3. Decides(c)
    BY <1>4 DEF HearCompiled, HearWorkerDown, TimesOut
  <2>4. QED
    BY <1>0, <2>2, <2>3 DEF Decides, Reachable
<1>5. CASE HearCallerDown(c)
  <2>1. 1 \in DOMAIN guardianBox[c] /\ guardianBox[c][1] = "caller_down"
    BY <1>0, <1>5 DEF HearCallerDown, Hears
  <2>2. caller[c] \notin {"idle", "waiting"}
    BY <2>1 DEF DownInv
  <2>3. QED
    BY <1>0, <1>5, <2>2 DEF HearCallerDown, Decides
<1>6. CASE CancelNative(c)
  BY <1>0, <1>6 DEF CancelNative
<1>7. CASE GuardianEnds(c) \/ GuardianKilled(c)
  <2>1. IF Reachable(c) THEN callerBox'[c] # <<>> ELSE callerBox'[c] = callerBox[c]
    BY <1>0, <1>7, Posted DEF GuardianEnds, GuardianKilled, Errors
  <2>2. QED
    BY <1>0, <1>7, <2>1 DEF GuardianEnds, GuardianKilled, Reachable
<1>8. CASE WorkerStep(c) \/ WorkerKilled(c)
  <2>1. IF guardian[c] = "waiting" THEN guardianBox'[c] # <<>>
                                  ELSE guardianBox'[c] = guardianBox[c]
    BY <1>0, <1>8, Posted
       DEF WorkerStep, WorkerSends, WorkerExits, WorkerKilled, WorkerDies
  <2>2. /\ worker'[c] \in {"sent", "dead"} /\ worker[c] # "none"
        /\ UNCHANGED <<caller, callerBox, guardian, native>>
    BY <1>0, <1>8 DEF WorkerStep, WorkerSends, WorkerExits, WorkerKilled, WorkerDies
  <2>3. QED
    BY <2>1, <2>2
<1>9. CASE Expire(c) \/ NativeStep(c) \/ Fails(c) \/ Succeeds(c)
  <2>1. UNCHANGED processVars /\ (native[c] # "none" => native'[c] # "none")
    BY <1>0, <1>9 DEF Expire, NativeStep, Refused, Admitted, AskProvider, Lock, UseCached,
         Build, BuildFails, RunCompiler, Interrupted, Fails, Succeeds, Leave, Moves
  <2>2. QED
    BY <2>1
<1>10. QED
  BY <1>1, <1>2, <1>3, <1>4, <1>5, <1>6, <1>7, <1>8, <1>9 DEF GuardianStep

\* The mutex is held by one call, from Lock to the three ways out of it.
LEMMA LockStep ==
    ASSUME IInv, \A d \in Calls : LockInv(d), [Next]_vars, NEW d \in Calls
    PROVE  LockInv(d)'
<1> USE DEF processVars, nativeVars
<1>0. TypeOK /\ \A e \in Calls : e # None
  BY CompilationAssumption DEF IInv
<1>1. CASE UNCHANGED vars
  BY <1>1 DEF vars, LockInv
<1>2. CASE Next
  <2>1. PICK c \in Calls :
           \/ Compile(c) \/ Answered(c) \/ Return(c) \/ CallerKilled(c) \/ GuardianStep(c)
           \/ GuardianKilled(c) \/ WorkerStep(c) \/ WorkerKilled(c) \/ Expire(c)
           \/ NativeStep(c) \/ Fails(c) \/ Succeeds(c)
    BY <1>2 DEF Next
  <2>2. CASE Lock(c)
    BY <1>0, <2>2 DEF Lock, Moves, LockInv, TypeOK
  <2>3. CASE UseCached(c) \/ Build(c) \/ BuildFails(c)
    <3>1. /\ native[c] = "locked" /\ lock' = None /\ native'[c] # "locked"
          /\ d # c => native'[d] = native[d]
      BY <1>0, <2>3 DEF UseCached, Build, BuildFails, Moves, TypeOK
    <3>2. QED
      BY <1>0, <3>1 DEF LockInv
  <2>4. CASE /\ lock' = lock
             /\ native'[c] = native[c] \/ (native[c] # "locked" /\ native'[c] # "locked")
             /\ d # c => native'[d] = native[d]
    BY <2>4 DEF LockInv
  <2>5. CASE \/ Compile(c) \/ Answered(c) \/ Return(c) \/ CallerKilled(c) \/ GuardianStep(c)
             \/ GuardianKilled(c) \/ WorkerStep(c) \/ WorkerKilled(c) \/ Expire(c)
    <3>1. CASE Compile(c)
      <4>1. native[c] \notin {"locked"}
        BY <3>1, <1>0 DEF Compile, IInv, StartInv
      <4>2. QED
        BY <1>0, <3>1, <4>1, <2>4 DEF Compile, TypeOK
    <3>2. CASE ~Compile(c)
      <4>1. UNCHANGED <<lock, native>>
        BY <2>5, <3>2 DEF Return, Answered, CallerKilled, GuardianStep, HearCompiled,
             HearCallerDown, HearWorkerDown, TimesOut, CancelNative, GuardianEnds,
             GuardianKilled, Decides, WorkerStep, WorkerSends, WorkerExits, WorkerKilled,
             WorkerDies, Expire
      <4>2. QED
        BY <4>1, <2>4
    <3>3. QED
      BY <3>1, <3>2
  <2>6. CASE \/ Refused(c) \/ Admitted(c) \/ AskProvider(c) \/ RunCompiler(c)
             \/ Interrupted(c) \/ Fails(c) \/ Succeeds(c)
    <3>1. /\ lock' = lock /\ native[c] # "locked" /\ native'[c] # "locked"
          /\ d # c => native'[d] = native[d]
      BY <1>0, <2>6 DEF Refused, Admitted, AskProvider, RunCompiler, Interrupted, Fails,
           Succeeds, Leave, Moves, TypeOK
    <3>2. QED
      BY <3>1, <2>4
  <2>7. QED
    BY <2>1, <2>2, <2>3, <2>5, <2>6 DEF NativeStep
<1>3. QED
  BY <1>1, <1>2

\* No process of a compilation waits for one that is gone, and the mutex of
\* the provider is held only by a call on its way out of it, whatever is
\* killed: what CallReturns and CompilationEnds still need is fairness.
THEOREM WaitTheorem == Spec => []NobodyWaitsInVain
<1> DEFINE WInv == \A c \in Calls : WaitInv(c) /\ DownInv(c) /\ LockInv(c)
<1>1. Init => WInv
  BY CompilationAssumption DEF Init, WaitInv, DownInv, LockInv
<1>2. IInv /\ WInv /\ [Next]_vars => WInv'
  <2> SUFFICES ASSUME IInv, WInv, [Next]_vars, NEW d \in Calls
               PROVE  WaitInv(d)' /\ DownInv(d)' /\ LockInv(d)'
    OBVIOUS
  <2>1. LockInv(d)'
    BY LockStep
  <2>2. WaitInv(d)' /\ DownInv(d)'
    <3>1. CASE UNCHANGED vars
      BY <3>1 DEF vars, processVars, nativeVars, WaitInv, DownInv
    <3>2. CASE Next
      <4>1. PICK c \in Calls :
               \/ Compile(c) \/ Answered(c) \/ Return(c) \/ CallerKilled(c) \/ GuardianStep(c)
               \/ GuardianKilled(c) \/ WorkerStep(c) \/ WorkerKilled(c) \/ Expire(c)
               \/ NativeStep(c) \/ Fails(c) \/ Succeeds(c)
        BY <3>2 DEF Next
      <4>2. CASE d = c
        BY <4>1, <4>2, WaitStep, DownStep
      <4>3. CASE d # c
        <5>1. Own(d)' = Own(d)
          BY <4>1, <4>3, OthersKept DEF IInv
        <5>2. QED
          BY <5>1 DEF Own, WaitInv, DownInv
      <4>4. QED
        BY <4>2, <4>3
    <3>3. QED
      BY <3>1, <3>2
  <2>3. QED
    BY <2>1, <2>2
<1>3. IInv /\ WInv => NobodyWaitsInVain
  BY DEF IInv, TypeOK, WaitInv, LockInv, NobodyWaitsInVain
<1>4. QED
  BY <1>1, <1>2, <1>3, Invariance, PTL DEF Spec
=============================================================================
