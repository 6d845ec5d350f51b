# Javex, specified and checked

TLA+ modules for the parts of Javex where processes, threads and messages meet,
TLC runs that check them on small instances, and TLAPS proofs for every value of
their constants. Paths below are relative to `src/`. `PROJECT.json` maps every
definition to the lines it models and lists runs, mutants, hazards and theorems.

## The system

| Part | State | Operations | What is hard about it | Module |
|---|---|---|---|---|
| `Javex.Runtime`, a GenServer (`lib/javex/runtime.ex`) | `jobs`: worker pid -> caller, monitors, timer, control, deadline | `run`, `compile`; messages result, timeout, DOWN; terminate | four messages about one job race; a slot is kept after the caller was answered; restart while old workers run | `Runtime`, `Admission` |
| Worker process (`execute`, `continue_native`) | where it is: native code, waiting for a completion, stopping the broker | NIF calls, `receive`, `Callbacks.stop` | a guest that waits is not in native code, where a deadline would interrupt it | `Runtime` (control points), `Callbacks`, `Execution`, `Isolated` |
| Callback broker (`lib/javex/callbacks.ex`) | `seen`, `jobs`, timers | dispatch, child result, DOWN, timeout, stop, parent's DOWN | result, DOWN and timer of each child race; a batch that fails halfway; cleanup must await every child | `Callbacks` |
| Callback processes | spawned, running, reported | deadline check, invoke, exit | crash, kill, late start | `Callbacks` |
| Bridge in the guest (`bridge.js`, provider `lib.rs`, `Execution::advance`) | `pending` map, `count`, `requests`, `fatal` | `Javex.Host.call`, step | a second ledger of the budget; re-entrance through `toJSON`; exceptions the program catches | `Execution` |
| Isolated backend (`lib/javex/isolated.ex`) | `result`, `failure`, `cancelled`, the port | receive loop, cancel | the port may close at any moment; a failure, a result and an exit status in any order | `Isolated` |
| Supervisor and child (`native/javex_nif/src/worker.rs`) | four threads with two flags and a channel; pipes | forward frames, poll, kill | every thread against the child's exit; loops counted to the frame | `Isolated` |
| Cache of compiled modules (`sandbox.rs`) | `entries`, `bytes`, `hits` under a mutex | get, insert | lookup, compile and insert are not one step; unsigned subtraction and `unwrap` under the mutex | `ModuleCache` |
| Sandbox (`sandbox.rs`) and output pipes (`output.rs`) | the control's flag and deadline, the epoch, the limiter's count, the pipes | start, advance, finish; grow, write | causes that come while `finish` looks for one; a full pipe in host code, where no epoch reaches it | `Sandbox` |
| Compilation without a runtime (`lib/javex/module.ex`) | caller, guardian, worker, alias, monitors | `compile_with_deadline` | result, DOWNs and timeout in any order, and any of the three processes killed | `Compilation` |
| Compiler (`compiler.rs`) | `COMPILING`, the cached `PROVIDER` and its mutex | `compile`, `provider` | a permit given back on every way out; one cached provider for all plugins | `Compilation` |
| System-call filter (`isolation.rs`) | a BPF program | built once, run per call | relative jumps over blocks put together one after another | `SyscallFilter` |
| Options, NIF glue | none | validation, declarations | | not modelled (below) |

A caller asks the runtime; the runtime starts a worker; the worker starts a
broker and drives the guest, in process through NIFs or through a port to a
supervisor that owns a disposable child; the guest's requests go worker ->
broker -> callback process, and completions come back as messages that the worker
writes into the guest. Cancellation and deadlines go the other way, by messages,
monitors, an atomic flag and, for a child, SIGKILL.

## Modules

### Runtime, Admission, RuntimeRefinement

`Runtime` has one element of `Calls` for one calling process, its worker and its
entry in `state.jobs`, since each is made once per call. The server's mailbox is a
set of messages per call: Erlang orders only the signals of one sender, and the
one order the handlers use -- a worker's result before its DOWN -- is a guard.
Every handler is an action (`HandleCall`, `HandleResult`, `HandleTimeout`,
`StaleTimeout`, `HandleWorkerDown`, `HandleCallerDown`); `Stop` and `Kill` are the
server's death with and without `terminate`, `Restart` its restart with an empty
map. Time is the set of calls whose deadline has passed, the only thing the code
compares `now()` with. `backend` is chosen at the start: every run and every theorem
is about both. What ends the work from outside has one operator for each place in
the code: a guest in a NIF (`InterruptedNative`), one that waits for completions
(`InterruptedWait`), the receive loop around a port (`InterruptedIsolated`) and the
deadline of the process behind it (`IsolatedDeadline`).

A worker that is killed in the middle of native code (`WorkerKilled`) leaves that
code behind: a dirty NIF is not interrupted by the exit of its process, and a process
behind a port reads the end of its pipe later. The worker is "abandoned" until
`AbandonedEnds`. Its DOWN frees the slot like any other (`runtime.ex:165-175`) and
nothing cancels its control, so that in process it is the deadline that stops it. For
this reason `CapacityRespected` counts worker processes, `SlotRetained` names the DOWN
of a killed worker as its one exception, and `WorkStops` includes what was abandoned.

`Admission` is what a caller is promised, without processes or clocks: slots,
refusals, at most one answer, a slot that is given back only when the work of its
worker process has stopped. `RuntimeRefinement` maps `Runtime` onto it (`KeepsPromise`).

### Callbacks

The broker, a child per granted request, and the worker it serves. The guest is
free: it may ask for any of a set of batches, with repeated, ungranted and
invalid requests. A request's payload is `granted`, `denied` or `invalid`; what
its JSON says is not modelled. `Yield`, `TakeReply`, `TakeFailure`, `TakeCancel`
and `Settle` are `continue_native` and `execute`; `ReceiveDispatch` to
`ReceiveStop` are the clauses of `loop`, where a batch is worked off one request
at a time; `Fail`, `Cleanup` and `EndCleanup` are its end. The broker
traps exits, so a callback that crashes does not end it; a broker killed from
outside (`BrokerKilled`) leaves its children to the exit signals of their links,
which arrive later. `WithinBudget` has two halves, of which neither gives the other:
counts of callbacks, alive and in all, and that no step starts one for an id that has
had one.

### Execution

`Callbacks` with the guest that `bridge.js` makes: `Enter`, `Exceed`, `Reject`,
`TooLong` and `Register` are the steps of `call`, with a stack of calls that are
under way because `JSON.stringify` runs the program's `toJSON`; `HandOver`,
`EndExceeded`, `EndSettled` and `EndInterrupted` are the end of a step, as the
provider's `step` and `Execution::advance` decide it; `Resume` is a completion.
Which calls a program makes, and when its root settles, is free. `Guest` is
`Callbacks` with every batch of up to `MaxCalls` requests, and
`ImplementsCallbacks` says that this guest is one of those.

### Isolated

One run of the isolated backend: the worker's mailbox as one queue (its receive takes
whatever comes first), the port, the supervisor's four threads with the `cancelled` and
`overflow` flags and the bounded channel between two of them, and the child. A
compilation is a run that never yields. The child prepares itself (`Arm`: it asks for a
signal at its parent's death; `CheckParent`: it compares its parent, because a
supervisor that died before that sends none) before it reads anything;
`SupervisorKilled` may come at any moment. Closing the child's pipes (`Closes`) and
being ready to be waited for (`Exits`) are two steps, since other threads see the first
before the polling loop sees the second. The broker is free here: each request is
answered once unless it fails, and a batch longer than `max_callback_concurrency` makes
it refuse (`Dispatch`). Frames are within their size limits.

How many calls the guest may have outstanding is what `bridge.js` enforces, which is
less than it says: the limit is looked at (line 19) before `JSON.stringify` runs the
program's `toJSON` (line 28), and the promise is entered after. Calls made there pass
the same check, so `MayAsk` lets a whole batch rest on one free place. The broker admits
such a batch if it is short enough and earlier callbacks have ended meanwhile, and
then more replies may come than the supervisor's channel holds; `try_send` fails and
the run is cancelled (`worker.rs:204`). `BeyondLimit` says that a guest has more calls
outstanding than its limit, and `FlagsHaveCause` that a run is cancelled for a full
channel in no other case.

### ModuleCache

`Cache::get` and `Cache::insert` with any number of executions between them. The
loop that evicts is modelled step by step under the mutex, because it subtracts
unsigned numbers and unwraps. `age` is a history variable for the LRU order: how
many uses ago each key was used.

### Sandbox

One run inside the sandbox, from `Execution::start` over the calls of `advance` to
`finish`. `pc` says whether the thread is in host code, in Wasm, in a write or in
`finish`; `Cancel`, `Expire` and `Tick` are other threads and the clock, and take
their step between any two of it, `finish` included. `Grow`, `Refuse` and
`GrowTooMuch` are the limiter's three ways, the last a growth that was counted and
not done. A write is a sequence of chunks (`WriteChunk`, `WriteFails`), each
offered what `check_write` answers; a pipe that is full answers one byte, so that
the write fails instead of waiting. Fuel and traps are choices of the guest.
`Verdict` is the order of causes in `finish`.

### Compilation

Calls of `Native.compile`, of which those in `Guarded` are made by
`compile_with_deadline`: its caller, the guardian with its mailbox and the worker, each
of which may be killed at any moment. The caller takes one message (`Answered`) and then
gives up its alias and its monitor, flushing the DOWN and nothing else (`Return`,
`module.ex:109-116`): a second reply that came between the two would stay. The native
call goes on when its process is gone. All compilations share the permits and the one
cached provider; `Lock`, `UseCached`, `Build` and `BuildFails` are `provider` under its
mutex. A plugin stands for its bytes, and a module for the plugin that made it.

### SyscallFilter

`filter` is the program `restrict_syscalls` puts together, block by block as the
code pushes them, and the machine that runs it is the kernel's: load, compare and
jump, return. `Policy` says what the comments ask of it.

## Runs

No run checks for deadlock: all these systems come to rest when their calls or
runs have ended.

| Run | Instance | What it shows |
|---|---|---|
| `runtime_restart` | a run and a compilation, one slot, one restart, both backends, fair | `TypeOK`, `CapacityRespected`, `OneReply`, `NothingIsForgotten`; steps: `SlotRetained`, `DeadlineDecides`; refinement: `KeepsPromise`; `WorkStops` |
| `runtime_liveness` | the same without a restart | `EveryCallEnds`, `SlotsReturn` |
| `callbacks_safety` | four ids, three calls allowed, two at once; batches of none, one or two requests, granted, denied, or an invalid one behind a granted one, and some one longer than allowed | `TypeOK`, `NoCallbackOutlivesRun`, `RequestsAccounted`, `CallbackIsBounded`, `WithinBudget` |
| `callbacks_liveness` | two ids, granted, fair | `CallbacksEnd`, `StopReturns`, `WaitEnds` |
| `execution` | three calls allowed, two at once, four made, one inside another | `BrokerAcceptsBridge`, `PromisesMatch`, `LimitIsFatal`; refinement: `ImplementsCallbacks` |
| `isolated_safety` | four callbacks, two at once | `TypeOK`, `OutcomeIsEarned`, `FlagsHaveCause` |
| `isolated_liveness` | three callbacks, two at once, fair | `RunAnswers`, `ChildStops` |
| `isolated_detached` | two callbacks, two at once | a counterexample to `SettledRootDecides` (below) |
| `module_cache` | five runs, four modules of sizes 1 to 4, a cache of two modules and three bytes | `QueueAccounted`, `LeastRecentFirst` |
| `sandbox` | three bytes of memory, two of output, one of diagnostics, steps of one or two, fair | `TypeOK`, `BudgetsHold`, `NothingLost`, `VerdictTellsCause`, `StopsWhenTold` |
| `compilation` | three calls, one of them guarded, two plugins, two permits, fair | `PermitsAccounted`, `OwnProvider`, `NothingLeftBehind`, `CallReturns`, `CompilationEnds` |
| `syscall_filter` | three allowed calls, two commands, every call of 2 ABIs, 8 numbers, 2 and 4 arguments | `VerdictIsPolicy` |

Why the bounds are enough. Two calls and one slot are the least with which a call is
refused while another's slot is held, abandoned or about to be given back; calls meet
only in the count of the jobs, and the proofs cover any number. One restart gives
workers of an earlier server beside those of a present one; nothing in the handlers
depends on how many there were. `WorkStops` is checked with it, in process and not: its
cases are the guest that waits for completions when its server is killed or stopped, the
worker of a server that is back with no memory of it, and native code left behind by a
killed worker. In `callbacks_safety` a free guest has more ids than calls and may repeat
any of them, before and after its callback has ended, so both budgets can be exceeded;
two callbacks meet in every order of their results, DOWNs and timers, and a batch of
three exceeds a concurrency of two. One id is as good as another there (`SYMMETRY
Interchangeable`, for safety alone). Three calls with two at once let the bridge refuse
for either limit, and let a guest reach its total after some callbacks have ended; a
fourth call exceeds the total. In `Isolated` two callbacks drive both counted loops to
their last turn and fill the channel; with four allowed and two at once a third reply
meets the full channel, after one call has ended and a `toJSON` has called again. In
`ModuleCache` one module fits no cache, one only an empty one, and two fit together, so
both limits evict. In `Sandbox` two memories can share the budget or exceed it, a write
can be smaller than, equal to and larger than what a pipe has left, and a pipe can be
full before it. In `Compilation` two calls with one plugin hit the cache that a third
with another replaces, and one of the three is refused a permit. In `SyscallFilter` each
comparison goes both ways, and values of one field look like values of another.

`MaxRestarts` (restarts of the server), `MaxNesting` (calls within calls) and
`MaxCount` (calls a program attempts) bound what the code does not bound, in the
guards of `Restart` and `Enter`; ids, calls and frames are bounded by the code
itself. The theorems hold for any value of these bounds.

Every property has a mutant of the code, defined beside the definition it would
replace and marked `Wrong:` or `Fault:`, under which the run finds it violated.

## Fairness

Weak fairness on steps that the scheduler of BEAM or of the OS takes by itself:
processes and threads take what is in their mailbox or pipe, timers fire, time passes, a
killed process ends. Interrupted work stops (`WorkerProgress`) because native code is
instrumented with an epoch deadline callback that checks the control and the deadline,
with or without a process behind it; because a guest that waits receives `:cancel` or
the DOWN of its server; and because a supervisor reads the end of its pipe. That native
code ends by itself, that a callback replies and that a server is restarted is not
assumed. Nothing is assumed of user code: JavaScript may loop, a callback may never
return, a root may never settle. In `Isolated` not even the clock is assumed to go on:
`RunAnswers` starts from a deadline that has passed or a cancellation. There, no thread
that writes to the child is assumed to make progress: a child that does not read its
stdin blocks the writer, and the deadline, the cancellation and the end of the port must
get past it. A child prepares itself and the kernel delivers the signal of its parent's
death.

In `Sandbox` the epoch thread ticks, host code goes on, and compiled Wasm looks at
the epoch; the guest need not return, and the clock need not reach the deadline:
`StopsWhenTold` starts from a run that is cancelled or expired. In `Compilation`
processes take their messages, the guardian's timer fires, the deadline of the
control passes, and host code goes on; the compiler's own guest may loop until it
is interrupted. The mutex is not assumed to be fair: there are finitely many
calls, each holds it once.

## What is proved

For every set of calls, capacity and number of restarts, and for both backends
(`RuntimeProofs`, from `RuntimeAssumption`; the set of calls need not be finite):
`TypeOK`, `CapacityRespected`, `OneReply`, `NothingIsForgotten`, and the action
properties `SlotRetained` and `DeadlineDecides`. None is inductive by itself. The
inductive invariant `IInv` says of each call what the handlers know of it: a question is
alone in the mailbox and has no worker yet (`QuestionInv`), a job that owes a reply has
given none (`ReplyInv`), and a job, its worker and the worker's messages fit together
(`WorkerInv`); and of all of them together, that the jobs are finitely many and no more
than the slots (`SlotInv`). Capacity follows because workers at work of the present
server are among its jobs, and `SlotTheorem` because a result or a DOWN in the mailbox
says at which of its ends a worker is. There is one proof step per action, and one per
conjunct it disturbs.

It also proves the refinement `Spec => KeepsPromise` (`Implementation`) with the
same invariant: each action maps to one of `Admission` or to a stutter.

`CallbacksProofs` proves, for every set of ids, every budget and every guest
(`CallbacksAssumption`), `TypeOK`, `WithinBudget`, `NoCallbackOutlivesRun`,
`CallbackIsBounded` and `RequestsAccounted`. The invariant ties each child to its job,
its timer and its messages (`ChildInv`), the end of the run to the end of the broker and
that to the end of its jobs (`EndInv`), and counts `seen` and `jobs` (`BudgetInv`): what
is alive is among `jobs`, what was ever started is among `seen`, and a batch starts no
id that was seen (`StartedOnce`). `RequestsInv` is a second one, for the requests while
the worker is active: each id the worker waits for is in a batch on its way, in the
broker's `jobs`, or in one reply in the mailbox, unless the broker's failure is behind
it.

`ExecutionProofs` proves `PromisesMatch`, `LimitIsFatal`, `BrokerAcceptsBridge` and
the refinement `ImplementsCallbacks`, for every nesting. `GuestInv` adds to
`RequestsInv` that a promise is an id the worker waits for or one in `requests`;
every step of the guest then is one of the free guest, or changes nothing it
has. `BrokerAcceptsBridge` is the hard one, since each side counts at its own
moments: `LedgerInv` says that the batches under way name each id once, that the
broker has not seen these ids, that they and its jobs have promises (`QueueInv`),
and that the ids the bridge has yet to hand over or give out are new to the broker
(`FreshInv`). What the broker counts when it comes to a request is then a subset
of what the bridge has counted. `BrokerTheorem` carries the properties of
`CallbacksProofs`, `WithinBudget` among them, over to the programs of the bridge, by that
refinement.

`IsolatedProofs` proves `TypeOK`, `OutcomeIsEarned` and `FlagsHaveCause` for every
budget of calls and every number of them at once (`IsolatedAssumption`). The
argument is a conservation law, `FlowInv`: a request of the guest is in an event, in
the worker's mailbox, with the broker, in a frame of the supervisor's stdin, in its
channel, with its writer or in the child's stdin, or it is answered; steps move it
(`Balance`), some lose it (`Loses`), none doubles it. Requests in a queue are
counted by the total of a running sum along it (`HasSum`); an append and a tail turn
one such sum into another (`SumOfAppend`, `SumOfTail`), so that no induction over
sequences is needed. Three consequences carry the properties:

- the stdin reader has read no more replies than were asked for, so `LastFrame` is never
  met by a reply; and the replies in the channel, with the one just read, are requests
  not answered, so `ChannelFull` is met only by a guest that is `BeyondLimit` (`ReplyFits`,
  `CancelCause`);
- each event answers to a completion given (`EventInv`), so `TooManyFrames` is never
  met (`ForwardFits`, `OverflowCause`): the supervisor does not report an overflow of
  a guest that keeps to the protocol;
- where every request is answered, none was lost on the way; each step by which a
  thread of the supervisor gives up, or the worker gives up on it, loses a
  request or has another cause. So nothing stands against a root that settled
  having awaited its calls (`Stands`), and its own outcome is returned.

The rest of the invariant says how far the processes can have come together
(`StageInv`), what an exit status and a flag tell of the child (`StatusInv`), what
must have happened for a letter to be in the mailbox, and that the final event is
ahead of the exit (`CauseInv`).

`EndTheorem` is the safety half of `RunAnswers` and `ChildStops`: in every state a
cancellation, the failure of the broker and the exit of the supervisor are in a
queue or have been acted upon (`NewsInv`, `InterruptInv`), a worker that has returned
is missed by the supervisor, and a child without one meets the kernel's signal or
its own look at its parent (`OrphanInv`). What is left to TLC is that fair processes
empty their queues.

`SandboxProofs` proves `TypeOK`, `BudgetsHold`, `NothingLost` and
`VerdictTellsCause` for all budgets and sizes: what was offered to a pipe is in it
or still to be written (`PipeInv`), the first limit that is met ends the call
(`OneCause`), and a cause that was reported stays true, because flags are only
ever raised (`VerdictInv`). Two action properties are behind `StopsWhenTold`: each step
of a write writes a byte or ends the call (`WriteTheorem`: `check_write` offers at
least one byte), and a stopped run keeps the tick that will interrupt it, never
enters native code again and ends with the call it is in (`StopTheorem`).

`CompilationProofs` proves `TypeOK`, `PermitsAccounted`, `OwnProvider` and
`NothingLeftBehind` for any finite set of calls. `PermitInv` counts the calls in
native code; `ProviderInv` follows a module from the provider its call works with
to the answer, through the mailbox and the message. `MailInv` is behind
`NothingLeftBehind`: the mail of a waiting caller is none, a reply, the DOWN, or a reply
and the DOWN, as far as the guardian has come; that of one that has its answer is at
most the DOWN, which `Return` flushes. `StartInv` says that no native call has begun
before its caller asked. `WaitTheorem` is the safety half of `CallReturns` and
`CompilationEnds`: who waits has a message or waits for a process that is there
(`WaitInv`, `DownInv`), and the provider's mutex is held by a call that will let it go
(`LockInv`), whatever is killed when.

`ModuleCacheProofs` proves both properties of the cache for modules of any sizes.
That `bytes` is the sum of the entries is said with a function of running totals
(`Totals`): a lookup, an eviction and an insertion each turn one such function
into another, which needs no induction. Ages decrease along the queue, and so no
module is there twice.

`SyscallFilterProofs` proves `VerdictIsPolicy` for lists of any length. `Layout`
says at which index each instruction of the joined blocks is; the invariant says
with which accumulator, and after which failed comparisons, each index is reached.

Only model-checked: liveness, which is out of the prover's reach (with
`NothingIsForgotten`, `EndTheorem`, `WaitTheorem` and `StopTheorem` for its safety
halves), and `SettledRootDecides`, which the code does not keep (next section). Every
safety property that a passing run checks has a theorem.

## A disagreement between documentation and code

README.md:140-141 says: "Execution ends when the root module evaluation settles.
Await all required work; detached callbacks are cancelled before a successful run
returns." The run `isolated_detached` checks that a root that has settled decides
the outcome of a run that nothing else has ended. In the isolated backend it need
not, in two ways:

- the supervisor has exited, its last event and its exit status are in the
  worker's mailbox behind a `:callback_reply`; `Port.command` raises on the
  closed port (`isolated.ex:129`) and the `rescue` of `call/7` makes it
  `:worker_error`;
- the supervisor's writer meets a child that has just closed its stdin, and
  raises the `cancelled` flag (`worker.rs:190-194`); the polling loop reads it
  before it sees the exit, and ends the run with status 125, `:cancelled`.

Both need a callback the root did not await. `AwaitedRootDecides`, a part of
`OutcomeIsEarned`, shows that nothing of the kind happens to a program that awaits its
calls. In process the result is returned, because nothing reads the replies after the
root has settled.

A smaller one has no run of its own. `README.md:138` ("Concurrency limits reject excess
work rather than building an unbounded queue") and `lib/javex.ex:102-103` ("outstanding
JS host calls [...] Exceeding it fails rather than queueing unbounded work") give
`max_callback_concurrency` as a bound on the calls a program has outstanding. The check of
`bridge.js:19` is passed again by calls made in `toJSON`, so that a program may have more;
what is true is that the broker starts no more callbacks at once (`WithinBudget`), that
it refuses a batch that is longer, and that such a program may be cancelled when its
replies meet a full channel (`FlagsHaveCause`).

`lib/javex/runtime.ex:20-21` lets calls "retain their slot until native work actually
stops" when they were cancelled or timed out. A worker process killed from outside in the middle of a NIF is
another matter: its DOWN frees the slot while the NIF goes on to its deadline
(`SlotRetained`, `WorkStops`).

## What is not modelled, and why

- Forged or oversized frames, and the 64 MiB traffic limit of a run
  (`read_frame`, `decode_events`): they are byte counts over hostile input, and
  the model's frames have no size.
- A supervisor that cannot be started or whose port reports an error of its own;
  a write of the supervisor to a pipe the BEAM has closed is the event
  `port = "closed"` in `Forward`.
- The rest of OS isolation (`isolation.rs`): rlimits, `close_range`, dropped
  privileges are single calls into the kernel, with no state of the program.
- `wrapper` of `compiler.rs`, which rewrites the compiled Wasm, is a function of
  its bytes; argument checking in `options.ex`, NIF declarations, messages and
  wording have no state.
- `Output::poll_write` is the same `append` and has no caller in this program.
- Promise reactions, the event loop of QuickJS and Wasmtime: the program is free
  to call, settle or do nothing whenever it runs, and Wasmtime is modelled from
  its use.

## Plan

1. *Composition*: `Isolated` with the broker of `Callbacks` in place of the free
   one, as far as TLC reaches.
2. *Frames*: the byte limits of `read_frame` and of the traffic of a run, as a
   budget that the supervisor and the backend count at different moments.
3. *Proofs*: of what 1 and 2 add; `FlowInv` then becomes the link between the
   bridge's ledger and the broker's.
