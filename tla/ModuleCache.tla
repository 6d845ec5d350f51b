----------------------------- MODULE ModuleCache ------------------------------
(***************************************************************************)
(* The cache of compiled modules that the runs of one in-process runtime   *)
(* share: Cache in native/javex_nif/src/sandbox.rs and the part of         *)
(* Execution::start that uses it.                                          *)
(*                                                                         *)
(* A run takes the mutex twice, once to look its module up and once to     *)
(* insert what it has compiled meanwhile without it; any number of other   *)
(* runs come in between, one that compiles the same module included.  A    *)
(* panic under the mutex would poison it for every later run, so the steps *)
(* of insert's loop, which unwraps and subtracts, are steps of their own.  *)
(***************************************************************************)
EXTENDS Naturals, FiniteSets, SequencesExt

CONSTANTS
    Runs,               \* executions started
    Keys,               \* digests of Wasm modules
    SizeOf,             \* sizes of their compiled images
    max_cache_bytes,
    max_cached_modules

ASSUME CacheAssumption ==
    /\ SizeOf \in [Keys -> Nat \ {0}]
    /\ max_cache_bytes \in Nat
    /\ max_cached_modules \in Nat
    /\ "free" \notin Runs

VARIABLES
    entries,    \* keys of the cached modules, the next to be evicted first
    bytes,
    hits,
    mutex,      \* the run in the loop of insert, or "free"
    run,        \* where each run is in Execution::start
    wasm,       \* the module each run has been given
    age         \* history: how many uses ago each key was used; a use is a
                \* lookup with success or an insertion

vars == <<entries, bytes, hits, mutex, run, wasm, age>>

States == {"new", "compiling", "compiled", "done"}

Init ==
    /\ entries = <<>>
    /\ bytes = 0
    /\ hits = 0
    /\ mutex = "free"
    /\ run = [r \in Runs |-> "new"]
    /\ wasm \in [Runs -> Keys]
    /\ age = [k \in Keys |-> 0]

-----------------------------------------------------------------------------
Goes(r, from, to) ==
    /\ run[r] = from
    /\ run' = [run EXCEPT ![r] = to]
    /\ UNCHANGED wasm

Use(k) == age' = [other \in Keys |-> IF other = k THEN 0 ELSE age[other] + 1]

(* Cache::get.                                                             *)

\* Wrong: the entry stays where it is.
RefreshNothing(i) == UNCHANGED entries

Refresh(i) == entries' = Append(RemoveAt(entries, i), entries[i])

Hit(r) ==
    /\ mutex = "free"
    /\ \E i \in DOMAIN entries : entries[i] = wasm[r] /\ Refresh(i)
    /\ Goes(r, "new", "done")
    /\ hits' = hits + 1
    /\ Use(wasm[r])
    /\ UNCHANGED <<bytes, mutex>>

Miss(r) ==
    /\ mutex = "free"
    /\ wasm[r] \notin Range(entries)
    /\ Goes(r, "new", "compiling")
    /\ UNCHANGED <<entries, bytes, hits, mutex, age>>

(* Module::from_binary.                                                    *)

Compile(r) ==
    /\ Goes(r, "compiling", "compiled")
    /\ UNCHANGED <<entries, bytes, hits, mutex, age>>

CompileFails(r) ==
    /\ Goes(r, "compiling", "done")
    /\ UNCHANGED <<entries, bytes, hits, mutex, age>>

(* Cache::insert.                                                          *)

Fits(k) == SizeOf[k] <= max_cache_bytes /\ max_cached_modules > 0

\* Wrong: the run missed it, so it is not there.
IsKnownNever(k) == FALSE

IsKnown(k) == k \in Range(entries)

Skip(r) ==
    /\ mutex = "free"
    /\ ~Fits(wasm[r]) \/ IsKnown(wasm[r])
    /\ Goes(r, "compiled", "done")
    /\ UNCHANGED <<entries, bytes, hits, mutex, age>>

Begin(r) ==
    /\ mutex = "free"
    /\ run[r] = "compiled"
    /\ Fits(wasm[r]) /\ ~IsKnown(wasm[r])
    /\ mutex' = r
    /\ UNCHANGED <<entries, bytes, hits, run, wasm, age>>

NeedsRoom(k) ==
    \/ Len(entries) >= max_cached_modules
    \/ SizeOf[k] > max_cache_bytes - bytes

\* pop_front().unwrap()
Evict(r) ==
    /\ mutex = r
    /\ NeedsRoom(wasm[r])
    /\ entries # <<>>
    /\ entries' = Tail(entries)
    /\ bytes' = bytes - SizeOf[Head(entries)]
    /\ UNCHANGED <<hits, mutex, run, wasm, age>>

Insert(r) ==
    /\ mutex = r
    /\ ~NeedsRoom(wasm[r])
    /\ Goes(r, "compiled", "done")
    /\ bytes' = bytes + SizeOf[wasm[r]]
    /\ entries' = Append(entries, wasm[r])
    /\ mutex' = "free"
    /\ Use(wasm[r])
    /\ UNCHANGED hits

Next ==
    \E r \in Runs :
        \/ Hit(r)
        \/ Miss(r)
        \/ Compile(r)
        \/ CompileFails(r)
        \/ Skip(r)
        \/ Begin(r)
        \/ Evict(r)
        \/ Insert(r)

Spec == Init /\ [][Next]_vars

-----------------------------------------------------------------------------
(* Properties.                                                             *)

\* The loop that makes room never finds the cache empty: pop_front().unwrap()
\* does not panic, and poison the mutex.
EvictionEnds ==
    mutex # "free" /\ NeedsRoom(wasm[mutex]) => entries # <<>>

\* The running totals of the sizes of the entries, up to what the field says.
AddUp(total) ==
    /\ total[0] = 0
    /\ \A i \in DOMAIN entries : total[i] = total[i - 1] + SizeOf[entries[i]]
    /\ total[Len(entries)] = bytes

\* Both subtractions of insert's loop are safe, and the statistics honest:
\* the cached modules, one entry for each though several runs compile it at
\* a time, take what `bytes' says, never more than they may, and there are
\* never too many of them; and room can always be made.
QueueAccounted ==
    /\ IsInjective(entries)
    /\ EvictionEnds
    /\ \E total \in [0..Len(entries) -> 0..bytes] : AddUp(total)
    /\ bytes <= max_cache_bytes
    /\ Len(entries) <= max_cached_modules

\* "LRU eviction": what was used least recently is what goes next, whoever
\* looked up or inserted what in the meantime.
LeastRecentFirst ==
    \A i, j \in DOMAIN entries : i < j => age[entries[i]] > age[entries[j]]
=============================================================================
