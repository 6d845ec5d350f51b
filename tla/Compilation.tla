----------------------------- MODULE Compilation ------------------------------
(***************************************************************************)
(* Compilations without a runtime: compile_with_deadline in                *)
(* lib/javex/module.ex, and the native code it runs, compile and provider  *)
(* in native/javex_nif/src/compiler.rs.                                    *)
(*                                                                         *)
(* Each call has three processes -- the caller, the guardian it monitors,  *)
(* and the worker the guardian monitors -- and one NIF call on a dirty     *)
(* scheduler, which goes on when its process is killed.  All compilations  *)
(* share the permits and the cache of one provider, those made for a       *)
(* runtime (Runtime.tla) included, of which only the NIF call is seen here.*)
(*                                                                         *)
(* A call's request is the plugin to compile with; the module it yields    *)
(* carries the plugin that made it.                                        *)
(***************************************************************************)
EXTENDS Naturals, Sequences, FiniteSets

CONSTANTS
    Calls,          \* calls of Native.compile
    Guarded,        \* those of compile_with_deadline
    Plugins,
    PluginOf,       \* the plugin each call asks for
    MaxCompiling,   \* 16 in the code
    None

\* An error of native code, the guardian's own, and the DOWN of the guardian.
Errors == {"error", "timeout", "stopped", "down"}

ASSUME CompilationAssumption ==
    /\ IsFiniteSet(Calls)
    /\ Guarded \subseteq Calls
    /\ PluginOf \in [Calls -> Plugins]
    /\ MaxCompiling \in Nat \ {0}
    /\ None \notin Calls \cup Plugins \cup Errors
    /\ Plugins \cap Errors = {}

VARIABLES
    caller,      \* where each caller is
    answer,      \* what compile_with_deadline returned
    callerBox,   \* messages of the guardian to its caller
    guardian,
    guardianBox, \* messages to the guardian
    worker,
    cancelled,   \* Control.cancelled
    expired,     \* has Control.deadline passed?
    native,      \* where compile is
    runtime,     \* the provider compile works with
    yield,       \* what compile returned
    COMPILING,   \* permits given out
    PROVIDER,    \* the plugin of the cached provider
    lock         \* who holds PROVIDER's mutex

processVars == <<caller, answer, callerBox, guardian, guardianBox, worker>>
nativeVars  == <<native, runtime, yield, COMPILING, PROVIDER, lock>>
vars == <<processVars, cancelled, expired, nativeVars>>

Init ==
    /\ caller = [c \in Calls |-> "idle"]
    /\ answer = [c \in Calls |-> None]
    /\ callerBox = [c \in Calls |-> <<>>]
    /\ guardian = [c \in Calls |-> "none"]
    /\ guardianBox = [c \in Calls |-> <<>>]
    /\ worker = [c \in Calls |-> "none"]
    /\ cancelled = {}
    /\ expired = {}
    /\ native = [c \in Calls |-> IF c \in Guarded THEN "none" ELSE "queued"]
    /\ runtime = [c \in Calls |-> None]
    /\ yield = [c \in Calls |-> None]
    /\ COMPILING = 0
    /\ PROVIDER = None
    /\ lock = None

-----------------------------------------------------------------------------
(* The caller.                                                             *)

\* Until it returns the caller has an alias for the reply and its monitor.
Reachable(c) == caller[c] \in {"waiting", "answered"}

ToCaller(c, message) ==
    callerBox' = IF Reachable(c)
                 THEN [callerBox EXCEPT ![c] = Append(@, message)]
                 ELSE callerBox

ToGuardian(c, message) ==
    guardianBox' = IF guardian[c] = "waiting"
                   THEN [guardianBox EXCEPT ![c] = Append(@, message)]
                   ELSE guardianBox

\* The guardian makes the control and the worker first of all.
Compile(c) ==
    /\ c \in Guarded
    /\ caller[c] = "idle"
    /\ caller' = [caller EXCEPT ![c] = "waiting"]
    /\ guardian' = [guardian EXCEPT ![c] = "waiting"]
    /\ worker' = [worker EXCEPT ![c] = "running"]
    /\ native' = [native EXCEPT ![c] = "queued"]
    /\ UNCHANGED <<answer, callerBox, guardianBox, cancelled, expired, runtime, yield,
                   COMPILING, PROVIDER, lock>>

\* Wrong: the caller waits for its reply only.
AnsweredByReply(c) ==
    /\ caller[c] = "waiting"
    /\ callerBox[c] # <<>>
    /\ Head(callerBox[c]) # "down"
    /\ caller' = [caller EXCEPT ![c] = "answered"]
    /\ answer' = [answer EXCEPT ![c] = Head(callerBox[c])]
    /\ callerBox' = [callerBox EXCEPT ![c] = Tail(@)]
    /\ UNCHANGED <<guardian, guardianBox, worker, cancelled, expired, nativeVars>>

\* The first message, a reply or the DOWN of the guardian, is the answer.
Answered(c) ==
    /\ caller[c] = "waiting"
    /\ callerBox[c] # <<>>
    /\ caller' = [caller EXCEPT ![c] = "answered"]
    /\ answer' = [answer EXCEPT ![c] = Head(callerBox[c])]
    /\ callerBox' = [callerBox EXCEPT ![c] = Tail(@)]
    /\ UNCHANGED <<guardian, guardianBox, worker, cancelled, expired, nativeVars>>

\* demonitor with :flush takes the DOWN out, the last message there can be.
Flushed(box) ==
    IF box # <<>> /\ box[Len(box)] = "down" THEN SubSeq(box, 1, Len(box) - 1) ELSE box

\* The alias and the monitor are given up.  A reply that has come meanwhile
\* would stay in the caller's mailbox.
Return(c) ==
    /\ caller[c] = "answered"
    /\ caller' = [caller EXCEPT ![c] = "returned"]
    /\ callerBox' = [callerBox EXCEPT ![c] = Flushed(@)]
    /\ UNCHANGED <<answer, guardian, guardianBox, worker, cancelled, expired,
                   nativeVars>>

CallerKilled(c) ==
    /\ Reachable(c)
    /\ caller' = [caller EXCEPT ![c] = "dead"]
    /\ callerBox' = [callerBox EXCEPT ![c] = <<>>]
    /\ ToGuardian(c, "caller_down")
    /\ UNCHANGED <<answer, guardian, worker, cancelled, expired, nativeVars>>

-----------------------------------------------------------------------------
(* The guardian.                                                           *)

\* What is left to do after the receive: cancel, kill and exit.
Decides(c) ==
    /\ guardian[c] = "waiting"
    /\ guardian' = [guardian EXCEPT ![c] = "decided"]
    /\ guardianBox' = [guardianBox EXCEPT ![c] = <<>>]
    /\ UNCHANGED <<caller, answer, worker, cancelled, expired, nativeVars>>

Hears(c, message) == guardianBox[c] # <<>> /\ Head(guardianBox[c]) = message

HearCompiled(c) ==
    /\ Hears(c, "compiled")
    /\ ToCaller(c, yield[c])
    /\ Decides(c)

HearCallerDown(c) ==
    /\ Hears(c, "caller_down")
    /\ UNCHANGED callerBox
    /\ Decides(c)

HearWorkerDown(c) ==
    /\ Hears(c, "worker_down")
    /\ ToCaller(c, "stopped")
    /\ Decides(c)

\* Wrong: after the timeout the guardian waits for native code to end.
TimesOutAndWaits(c) ==
    /\ guardian[c] = "waiting"
    /\ guardianBox[c] = <<>>
    /\ c \notin cancelled
    /\ ToCaller(c, "timeout")
    /\ cancelled' = cancelled \cup {c}
    /\ UNCHANGED <<caller, answer, guardian, guardianBox, worker, expired, nativeVars>>

\* Nothing has come for as long as the timeout.
TimesOut(c) ==
    /\ guardianBox[c] = <<>>
    /\ ToCaller(c, "timeout")
    /\ Decides(c)

\* Native.cancel
CancelNative(c) ==
    /\ guardian[c] = "decided"
    /\ guardian' = [guardian EXCEPT ![c] = "cancelled"]
    /\ cancelled' = cancelled \cup {c}
    /\ UNCHANGED <<caller, answer, callerBox, guardianBox, worker, expired, nativeVars>>

\* Process.exit(worker, :kill), and the guardian ends.
GuardianEnds(c) ==
    /\ guardian[c] = "cancelled"
    /\ guardian' = [guardian EXCEPT ![c] = "gone"]
    /\ worker' = [worker EXCEPT ![c] = "dead"]
    /\ ToCaller(c, "down")
    /\ UNCHANGED <<caller, answer, guardianBox, cancelled, expired, nativeVars>>

\* Something else kills the guardian: nobody cancels.
GuardianKilled(c) ==
    /\ guardian[c] \in {"waiting", "decided", "cancelled"}
    /\ guardian' = [guardian EXCEPT ![c] = "gone"]
    /\ guardianBox' = [guardianBox EXCEPT ![c] = <<>>]
    /\ ToCaller(c, "down")
    /\ UNCHANGED <<caller, answer, worker, cancelled, expired, nativeVars>>

-----------------------------------------------------------------------------
(* The worker.                                                             *)

\* Native.compile has returned: the result is sent, and the worker ends.
WorkerSends(c) ==
    /\ worker[c] = "running"
    /\ native[c] = "done"
    /\ worker' = [worker EXCEPT ![c] = "sent"]
    /\ ToGuardian(c, "compiled")
    /\ UNCHANGED <<caller, answer, callerBox, guardian, cancelled, expired, nativeVars>>

WorkerDies(c) ==
    /\ worker' = [worker EXCEPT ![c] = "dead"]
    /\ ToGuardian(c, "worker_down")
    /\ UNCHANGED <<caller, answer, callerBox, guardian, cancelled, expired, nativeVars>>

WorkerExits(c)  == worker[c] = "sent" /\ WorkerDies(c)
WorkerKilled(c) == worker[c] = "running" /\ WorkerDies(c)

-----------------------------------------------------------------------------
(* Native code.                                                            *)

\* A runtime that cancels its own compilations does to them what this does.
Expire(c) ==
    /\ native[c] \notin {"none", "done"}
    /\ expired' = expired \cup {c}
    /\ UNCHANGED <<processVars, cancelled, nativeVars>>

\* Wrong: the deadline is left to the guardian.
StoppedByCancel(c) == c \in cancelled

\* Control::check
Stopped(c) == c \in cancelled \/ c \in expired

\* The call leaves native code; Drop gives a permit back.
Leave(c, value) ==
    /\ native' = [native EXCEPT ![c] = "done"]
    /\ yield' = [yield EXCEPT ![c] = value]
    /\ COMPILING' = COMPILING - 1
    /\ UNCHANGED <<processVars, cancelled, expired, runtime, PROVIDER, lock>>

Moves(c, from, to) ==
    /\ native[c] = from
    /\ native' = [native EXCEPT ![c] = to]
    /\ UNCHANGED <<processVars, cancelled, expired, yield>>

\* The source is too long or no UTF-8, or every permit is taken.
Refused(c) ==
    /\ native[c] = "queued"
    /\ native' = [native EXCEPT ![c] = "done"]
    /\ yield' = [yield EXCEPT ![c] = "error"]
    /\ UNCHANGED <<processVars, cancelled, expired, runtime, COMPILING, PROVIDER, lock>>

Admitted(c) ==
    /\ COMPILING < MaxCompiling
    /\ COMPILING' = COMPILING + 1
    /\ Moves(c, "queued", "admitted")
    /\ UNCHANGED <<runtime, PROVIDER, lock>>

\* A source that does not compile, a failing guest or wrapper, or a result
\* that is too long.
Fails(c) ==
    /\ native[c] \in {"provided", "compiling"}
    /\ Leave(c, "error")

\* control.check()
AskProvider(c) ==
    /\ ~Stopped(c)
    /\ Moves(c, "admitted", "waiting")
    /\ UNCHANGED <<runtime, COMPILING, PROVIDER, lock>>

\* Whoever waits for the mutex does not look at the control.
Lock(c) ==
    /\ lock = None
    /\ lock' = c
    /\ Moves(c, "waiting", "locked")
    /\ UNCHANGED <<runtime, COMPILING, PROVIDER>>

\* Wrong: whatever is cached will do.
IsCachedAny(c) == PROVIDER # None

IsCached(c) == PROVIDER = PluginOf[c]

UseCached(c) ==
    /\ IsCached(c)
    /\ runtime' = [runtime EXCEPT ![c] = PROVIDER]
    /\ lock' = None
    /\ Moves(c, "locked", "provided")
    /\ UNCHANGED <<COMPILING, PROVIDER>>

\* The mutex is held while the provider is built, and replaced.
Build(c) ==
    /\ ~IsCached(c)
    /\ PROVIDER' = PluginOf[c]
    /\ runtime' = [runtime EXCEPT ![c] = PluginOf[c]]
    /\ lock' = None
    /\ Moves(c, "locked", "provided")
    /\ UNCHANGED COMPILING

\* Wrong: the permit is given back on the way out of a successful call only.
BuildFailsUndropped(c) ==
    /\ native[c] = "locked"
    /\ ~IsCached(c)
    /\ lock' = None
    /\ native' = [native EXCEPT ![c] = "done"]
    /\ yield' = [yield EXCEPT ![c] = "error"]
    /\ UNCHANGED <<processVars, cancelled, expired, runtime, PROVIDER, COMPILING>>

\* A plugin that is no provider replaces nothing.
BuildFails(c) ==
    /\ native[c] = "locked"
    /\ ~IsCached(c)
    /\ lock' = None
    /\ native' = [native EXCEPT ![c] = "done"]
    /\ yield' = [yield EXCEPT ![c] = "error"]
    /\ COMPILING' = COMPILING - 1
    /\ UNCHANGED <<processVars, cancelled, expired, runtime, PROVIDER>>

\* The compiler runs in a sandbox of its own.
RunCompiler(c) ==
    /\ ~Stopped(c)
    /\ Moves(c, "provided", "compiling")
    /\ UNCHANGED <<runtime, COMPILING, PROVIDER, lock>>

\* The sandbox stops its guest, and the control is looked at before the
\* sandbox is made, after it and before the return.
Interrupted(c) ==
    /\ native[c] \in {"admitted", "provided", "compiling"}
    /\ Stopped(c)
    /\ Leave(c, "error")

Succeeds(c) ==
    /\ native[c] = "compiling"
    /\ ~Stopped(c)
    /\ Leave(c, runtime[c])

-----------------------------------------------------------------------------
GuardianStep(c) ==
    \/ HearCompiled(c)
    \/ HearCallerDown(c)
    \/ HearWorkerDown(c)
    \/ TimesOut(c)
    \/ CancelNative(c)
    \/ GuardianEnds(c)

WorkerStep(c) == WorkerSends(c) \/ WorkerExits(c)

\* What native code does of itself.
NativeStep(c) ==
    \/ Refused(c)
    \/ Admitted(c)
    \/ AskProvider(c)
    \/ Lock(c)
    \/ UseCached(c)
    \/ Build(c)
    \/ BuildFails(c)
    \/ RunCompiler(c)
    \/ Interrupted(c)

Next == \E c \in Calls :
    \/ Compile(c)
    \/ Answered(c)
    \/ Return(c)
    \/ CallerKilled(c)
    \/ GuardianStep(c)
    \/ GuardianKilled(c)
    \/ WorkerStep(c)
    \/ WorkerKilled(c)
    \/ Expire(c)
    \/ NativeStep(c)
    \/ Fails(c)
    \/ Succeeds(c)

Spec == Init /\ [][Next]_vars

\* Processes take their messages and the guardian's timer fires, the deadline
\* passes, and host code goes on.  The compiler's guest need not return, and
\* a mutex is not said to be fair.
FairSpec ==
    /\ Spec
    /\ \A c \in Calls :
          /\ WF_vars(Answered(c) \/ Return(c))
          /\ WF_vars(GuardianStep(c))
          /\ WF_vars(WorkerStep(c))
          /\ WF_vars(Expire(c))
          /\ WF_vars(NativeStep(c))

-----------------------------------------------------------------------------
(* Properties.                                                             *)

InCompile(c) ==
    native[c] \in {"admitted", "waiting", "locked", "provided", "compiling"}

\* Every variable has its type; there are no more than MaxCompiling permits.
TypeOK ==
    /\ caller \in [Calls -> {"idle", "waiting", "answered", "returned", "dead"}]
    /\ answer \in [Calls -> Plugins \cup Errors \cup {None}]
    /\ callerBox \in [Calls -> Seq(Plugins \cup Errors)]
    /\ guardian \in [Calls -> {"none", "waiting", "decided", "cancelled", "gone"}]
    /\ guardianBox \in [Calls -> Seq({"compiled", "caller_down", "worker_down"})]
    /\ worker \in [Calls -> {"none", "running", "sent", "dead"}]
    /\ cancelled \subseteq Calls
    /\ expired \subseteq Calls
    /\ native \in [Calls -> {"none", "queued", "admitted", "waiting", "locked",
                             "provided", "compiling", "done"}]
    /\ runtime \in [Calls -> Plugins \cup {None}]
    /\ yield \in [Calls -> Plugins \cup {"error", None}]
    /\ COMPILING \in 0..MaxCompiling
    /\ PROVIDER \in Plugins \cup {None}
    /\ lock \in Calls \cup {None}

\* The permits given out are those of the compilations under way, however
\* those that are over have ended: the counter neither leaks nor wraps, and
\* never exceeds its limit.
PermitsAccounted ==
    /\ COMPILING = Cardinality({c \in Calls : InCompile(c)})
    /\ COMPILING <= MaxCompiling

\* A module is made by the plugin its call asked for, whatever provider other
\* calls have put into the cache meanwhile.
OwnProvider ==
    \A c \in Calls : answer[c] \in Plugins => answer[c] = PluginOf[c]

\* A call leaves nothing in its caller's mailbox.  Only the DOWN is flushed
\* there, so that the guardian must not answer again between the answer the
\* caller takes and its return: whichever of the result, the worker's DOWN,
\* the timeout and a kill comes first, the others must not be answered too.
NothingLeftBehind ==
    \A c \in Calls : caller[c] = "returned" => callerBox[c] = <<>>

\* A call returns, also if its guardian is killed.
CallReturns ==
    \A c \in Guarded : caller[c] = "waiting" ~> caller[c] \in {"returned", "dead"}

\* No compilation outlives its call: once the caller has returned or died,
\* native code is left and its permit given back.
CompilationEnds ==
    \A c \in Guarded : caller[c] \in {"returned", "dead"} ~> native[c] = "done"
=============================================================================
