-------------------------- MODULE ModuleCacheProofs ---------------------------
(***************************************************************************)
(* Proofs about ModuleCache.tla, for any number of runs, modules of any    *)
(* sizes and any limits of the cache.                                      *)
(***************************************************************************)
EXTENDS ModuleCache, SequenceTheorems, TLAPS

-----------------------------------------------------------------------------
(* The inductive invariant.                                                *)

TypeInv ==
    /\ entries \in Seq(Keys)
    /\ bytes \in Nat
    /\ hits \in Nat
    /\ mutex \in Runs \cup {"free"}
    /\ run \in [Runs -> States]
    /\ wasm \in [Runs -> Keys]
    /\ age \in [Keys -> Nat]

\* The run that holds the mutex has found that its module fits and is not there.
MutexInv ==
    mutex # "free" => Fits(wasm[mutex]) /\ ~IsKnown(wasm[mutex])

\* The entries add up: `total' gives their sizes up to each of them.
Totals(total) ==
    /\ total \in [0..Len(entries) -> Nat]
    /\ AddUp(total)
    /\ \A i, j \in 0..Len(entries) : i <= j => total[i] <= total[j]

BytesInv ==
    /\ \E total : Totals(total)
    /\ bytes <= max_cache_bytes
    /\ Len(entries) <= max_cached_modules

IInv == TypeInv /\ MutexInv /\ LeastRecentFirst /\ BytesInv

-----------------------------------------------------------------------------
(* The queue.                                                              *)

LEMMA Queue ==
    ASSUME TypeInv
    PROVE  /\ Len(entries) \in Nat
           /\ DOMAIN entries = 1..Len(entries)
           /\ \A i \in 1..Len(entries) : entries[i] \in Keys
           /\ Range(entries) = {entries[i] : i \in 1..Len(entries)}
  BY LenProperties, ElementOfSeq DEF TypeInv, Range

\* Ages tell the entries apart.
LEMMA Distinct ==
    ASSUME TypeInv, LeastRecentFirst
    PROVE  \A i, j \in 1..Len(entries) : entries[i] = entries[j] => i = j
<1>1. TAKE i, j \in 1..Len(entries)
<1>2. age[entries[i]] \in Nat /\ age[entries[j]] \in Nat
  BY Queue DEF TypeInv
<1>3. i < j \/ j < i \/ i = j
  BY Queue
<1>4. QED
  BY <1>2, <1>3, Queue DEF LeastRecentFirst

\* What a lookup leaves: the entries behind the one that is used move up.
LEMMA Refreshed ==
    ASSUME TypeInv, NEW i \in 1..Len(entries), Refresh(i)
    PROVE  /\ entries' \in Seq(Keys)
           /\ Len(entries') = Len(entries)
           /\ \A j \in 1..Len(entries) :
                 entries'[j] = IF j < i THEN entries[j]
                               ELSE IF j < Len(entries) THEN entries[j + 1]
                               ELSE entries[i]
<1> DEFINE before == SubSeq(entries, 1, i - 1)
           after  == SubSeq(entries, i + 1, Len(entries))
<1>0. Len(entries) \in Nat /\ i \in 1..Len(entries)
  BY Queue
<1>1. /\ before \in Seq(Keys)
      /\ Len(before) = i - 1
      /\ \A j \in 1..(i - 1) : before[j] = entries[j]
  <2>1. /\ before \in Seq(Keys)
        /\ Len(before) = IF 1 <= i - 1 THEN i - 1 - 1 + 1 ELSE 0
        /\ \A j \in 1..(i - 1 - 1 + 1) : before[j] = entries[1 + j - 1]
    <3>1. \A j \in 1..(i - 1) : entries[j] \in Keys
      BY Queue
    <3>2. QED
      BY <3>1, SubSeqProperties, Queue
  <2>2. QED
    BY <2>1, Queue
<1>2. /\ after \in Seq(Keys)
      /\ Len(after) = Len(entries) - i
      /\ \A j \in 1..(Len(entries) - i) : after[j] = entries[i + j]
  <2>1. /\ after \in Seq(Keys)
        /\ Len(after) = IF i + 1 <= Len(entries) THEN Len(entries) - (i + 1) + 1 ELSE 0
        /\ \A j \in 1..(Len(entries) - (i + 1) + 1) : after[j] = entries[i + 1 + j - 1]
    <3>1. \A j \in (i + 1)..Len(entries) : entries[j] \in Keys
      BY Queue
    <3>2. QED
      BY <3>1, SubSeqProperties, Queue
  <2> HIDE DEF after
  <2>2. Len(after) = Len(entries) - i
    <3>1. Len(after) = IF i + 1 <= Len(entries) THEN Len(entries) - (i + 1) + 1 ELSE 0
      BY <2>1
    <3>2. QED
      BY <3>1, <1>0
  <2>3. ASSUME NEW j \in 1..(Len(entries) - i)
        PROVE  after[j] = entries[i + j]
    <3>1. i + 1 + j - 1 = i + j /\ j \in 1..(Len(entries) - (i + 1) + 1)
      BY <1>0
    <3>2. after[j] = entries[i + 1 + j - 1]
      BY <3>1, <2>1
    <3>3. QED
      BY <3>1, <3>2
  <2>4. QED
    BY <2>1, <2>2, <2>3
<1>3. entries' = Append(before \o after, entries[i])
  BY DEF Refresh, RemoveAt
<1> HIDE DEF before, after
<1>4. /\ before \o after \in Seq(Keys)
      /\ Len(before \o after) = Len(entries) - 1
      /\ \A j \in 1..(Len(entries) - 1) :
            (before \o after)[j] = IF j < i THEN entries[j] ELSE entries[j + 1]
  <2>1. /\ before \o after \in Seq(Keys)
        /\ Len(before \o after) = Len(before) + Len(after)
        /\ \A j \in 1..(Len(before) + Len(after)) :
              (before \o after)[j] = IF j <= Len(before) THEN before[j]
                                     ELSE after[j - Len(before)]
    BY <1>1, <1>2, ConcatProperties
  <2>2. Len(before) + Len(after) = Len(entries) - 1
    BY <1>1, <1>2, <1>0
  <2>3. ASSUME NEW j \in 1..(Len(entries) - 1)
        PROVE  (before \o after)[j] = IF j < i THEN entries[j] ELSE entries[j + 1]
    <3>1. CASE j < i
      BY <3>1, <2>1, <2>2, <1>1, <1>0
    <3>2. CASE ~(j < i)
      <4>1. j - (i - 1) \in 1..(Len(entries) - i) /\ i + (j - (i - 1)) = j + 1
        BY <3>2, <1>0
      <4>2. (before \o after)[j] = after[j - (i - 1)]
        BY <3>2, <2>1, <2>2, <1>1, <1>0
      <4>3. after[j - (i - 1)] = entries[i + (j - (i - 1))]
        BY <4>1, <1>2
      <4>4. (before \o after)[j] = entries[j + 1]
        BY <4>1, <4>2, <4>3, Zenon
      <4>5. QED
        BY <3>2, <4>4
    <3>3. QED
      BY <3>1, <3>2, Zenon
  <2>4. QED
    BY <2>1, <2>2, <2>3
<1>5. entries[i] \in Keys
  BY Queue
<1> DEFINE rest == before \o after
<1> HIDE DEF rest
<1>6. /\ entries' \in Seq(Keys)
      /\ Len(entries') = Len(rest) + 1
      /\ \A j \in 1..Len(rest) : entries'[j] = rest[j]
      /\ entries'[Len(rest) + 1] = entries[i]
  BY <1>3, <1>4, <1>5, AppendProperties DEF rest
<1>7. /\ Len(rest) = Len(entries) - 1
      /\ \A j \in 1..(Len(entries) - 1) :
            rest[j] = IF j < i THEN entries[j] ELSE entries[j + 1]
  BY <1>4 DEF rest
<1>8. ASSUME NEW j \in 1..Len(entries)
      PROVE  entries'[j] = IF j < i THEN entries[j]
                           ELSE IF j < Len(entries) THEN entries[j + 1]
                           ELSE entries[i]
  <2>1. CASE j = Len(entries)
    BY <2>1, <1>6, <1>7, <1>0
  <2>2. CASE j \in 1..(Len(entries) - 1)
    <3>1. entries'[j] = rest[j]
      BY <2>2, <1>6, <1>7
    <3>2. QED
      BY <2>2, <3>1, <1>7, <1>0
  <2>3. j = Len(entries) \/ j \in 1..(Len(entries) - 1)
    BY <1>0
  <2>4. QED
    BY <2>1, <2>2, <2>3, Zenon
<1>9. QED
  BY <1>6, <1>7, <1>8, Queue

\* What an eviction leaves.
LEMMA Evicted ==
    ASSUME TypeInv, NEW r \in Runs, Evict(r)
    PROVE  /\ entries' \in Seq(Keys)
           /\ Len(entries) >= 1
           /\ Len(entries') = Len(entries) - 1
           /\ \A j \in 1..Len(entries') : entries'[j] = entries[j + 1]
           /\ bytes' = bytes - SizeOf[entries[1]]
<1>1. entries \in Seq(Keys) /\ entries # <<>> /\ entries' = Tail(entries)
      /\ bytes' = bytes - SizeOf[Head(entries)]
  BY DEF TypeInv, Evict
<1>2. Head(entries) = entries[1]
  BY <1>1
<1>3. Len(entries) \in Nat \ {0}
  BY <1>1, EmptySeq
<1>4. QED
  BY <1>1, <1>2, <1>3, HeadTailProperties

\* What an insertion leaves.
LEMMA Inserted ==
    ASSUME TypeInv, NEW r \in Runs, Insert(r)
    PROVE  /\ entries' \in Seq(Keys)
           /\ Len(entries') = Len(entries) + 1
           /\ \A j \in 1..Len(entries) : entries'[j] = entries[j]
           /\ entries'[Len(entries) + 1] = wasm[r]
<1>1. wasm[r] \in Keys /\ entries \in Seq(Keys) /\ entries' = Append(entries, wasm[r])
  BY DEF TypeInv, Insert
<1>2. QED
  BY <1>1, AppendProperties

-----------------------------------------------------------------------------
(* Each part of the invariant is kept by each step.                        *)

LEMMA TypeKept == TypeInv /\ BytesInv /\ [Next]_vars => TypeInv'
<1> SUFFICES ASSUME TypeInv, BytesInv, [Next]_vars PROVE TypeInv'
  OBVIOUS
<1> USE DEF TypeInv
<1>1. ASSUME NEW r \in Runs, Hit(r) PROVE TypeInv'
  <2>1. entries' \in Seq(Keys)
    BY <1>1, Refreshed, Queue DEF Hit
  <2>2. age' \in [Keys -> Nat]
    BY <1>1 DEF Hit, Use
  <2>3. QED
    BY <1>1, <2>1, <2>2 DEF Hit, Goes, States
<1>2. ASSUME NEW r \in Runs, Miss(r) \/ Compile(r) \/ CompileFails(r) \/ Skip(r)
      PROVE  TypeInv'
  BY <1>2 DEF Miss, Compile, CompileFails, Skip, Goes, States
<1>3. ASSUME NEW r \in Runs, Begin(r) PROVE TypeInv'
  BY <1>3 DEF Begin
<1>4. ASSUME NEW r \in Runs, Evict(r) PROVE TypeInv'
  <2>1. bytes' \in Nat
    <3>1. PICK total : Totals(total)
      BY DEF BytesInv
    <3>2. Len(entries) \in Nat /\ DOMAIN entries = 1..Len(entries) /\ Len(entries) >= 1
      BY <1>4, Queue, Evicted
    <3>3. entries[1] \in Keys
      BY <3>2, Queue
    <3>4. SizeOf[entries[1]] \in Nat
      BY <3>3, CacheAssumption
    <3>5. total[0] = 0 /\ total[1] = total[0] + SizeOf[entries[1]]
          /\ total[Len(entries)] = bytes
      <4>1. 1 \in DOMAIN entries /\ 1 - 1 = 0
        BY <3>2
      <4>2. total[1] = total[1 - 1] + SizeOf[entries[1]]
        BY <4>1, <3>1 DEF Totals, AddUp
      <4>3. QED
        BY <4>1, <4>2, <3>1 DEF Totals, AddUp
    <3>6. total[1] <= total[Len(entries)]
      BY <3>1, <3>2 DEF Totals
    <3>7. QED
      BY <1>4, Evicted, <3>4, <3>5, <3>6
  <2>2. QED
    BY <1>4, <2>1, Evicted DEF Evict
<1>5. ASSUME NEW r \in Runs, Insert(r) PROVE TypeInv'
  <2>1. age' \in [Keys -> Nat]
    BY <1>5 DEF Insert, Use
  <2>2. bytes' \in Nat
    BY <1>5, CacheAssumption DEF Insert
  <2>3. QED
    BY <1>5, <2>1, <2>2, Inserted DEF Insert, Goes, States
<1>6. CASE UNCHANGED vars
  BY <1>6 DEF vars
<1>7. QED
  BY <1>1, <1>2, <1>3, <1>4, <1>5, <1>6 DEF Next

LEMMA MutexKept == TypeInv /\ MutexInv /\ [Next]_vars => MutexInv'
<1> SUFFICES ASSUME TypeInv, MutexInv, [Next]_vars PROVE MutexInv'
  OBVIOUS
<1> USE DEF MutexInv
<1>1. ASSUME NEW r \in Runs, Hit(r) PROVE MutexInv'
  BY <1>1 DEF Hit
<1>2. ASSUME NEW r \in Runs, Miss(r) \/ Compile(r) \/ CompileFails(r) \/ Skip(r)
      PROVE  MutexInv'
  BY <1>2 DEF Miss, Compile, CompileFails, Skip, Goes, Fits, IsKnown
<1>3. ASSUME NEW r \in Runs, Begin(r) PROVE MutexInv'
  BY <1>3 DEF Begin, Fits, IsKnown
<1>4. ASSUME NEW r \in Runs, Evict(r) PROVE MutexInv'
  <2>1. Range(entries') \subseteq Range(entries)
    <3>1. entries' \in Seq(Keys)
      BY <1>4, Evicted
    <3>2. DOMAIN entries' = 1..Len(entries')
      BY <3>1, LenProperties
    <3>3. ASSUME NEW j \in 1..Len(entries')
          PROVE  entries'[j] \in Range(entries)
      <4>1. Len(entries') = Len(entries) - 1 /\ entries'[j] = entries[j + 1]
        BY <1>4, Evicted
      <4>2. j + 1 \in 1..Len(entries)
        BY <4>1, Queue
      <4>3. QED
        BY <4>1, <4>2, Queue
    <3>4. QED
      BY <3>2, <3>3 DEF Range
  <2>2. UNCHANGED <<mutex, wasm>>
    BY <1>4 DEF Evict
  <2>3. QED
    BY <2>1, <2>2 DEF Fits, IsKnown
<1>5. ASSUME NEW r \in Runs, Insert(r) PROVE MutexInv'
  BY <1>5 DEF Insert
<1>6. CASE UNCHANGED vars
  BY <1>6 DEF vars, Fits, IsKnown
<1>7. QED
  BY <1>1, <1>2, <1>3, <1>4, <1>5, <1>6 DEF Next

LEMMA OrderKept ==
    TypeInv /\ MutexInv /\ LeastRecentFirst /\ [Next]_vars => LeastRecentFirst'
<1> SUFFICES ASSUME TypeInv, MutexInv, LeastRecentFirst, [Next]_vars
             PROVE  LeastRecentFirst'
  OBVIOUS
<1>0. /\ Len(entries) \in Nat
      /\ \A i \in 1..Len(entries) : entries[i] \in Keys /\ age[entries[i]] \in Nat
      /\ \A i, j \in 1..Len(entries) : i < j => age[entries[i]] > age[entries[j]]
  BY Queue DEF TypeInv, LeastRecentFirst
<1>1. ASSUME NEW r \in Runs, Hit(r) PROVE LeastRecentFirst'
  <2>1. PICK k \in 1..Len(entries) : entries[k] = wasm[r] /\ Refresh(k)
    BY <1>1, Queue DEF Hit
  <2>2. /\ entries' \in Seq(Keys)
        /\ Len(entries') = Len(entries)
        /\ \A j \in 1..Len(entries) :
              entries'[j] = IF j < k THEN entries[j]
                            ELSE IF j < Len(entries) THEN entries[j + 1]
                            ELSE entries[k]
    BY <2>1, Refreshed
  <2>3. DOMAIN entries' = 1..Len(entries)
    BY <2>2, LenProperties
  <2>4. \A j \in 1..Len(entries) :
           age'[entries[j]] = IF j = k THEN 0 ELSE age[entries[j]] + 1
    BY <1>1, <2>1, <1>0, Distinct DEF Hit, Use
  <2>5. ASSUME NEW i \in 1..Len(entries), NEW j \in 1..Len(entries), i < j
        PROVE  age'[entries'[i]] > age'[entries'[j]]
    <3> DEFINE from == IF i < k THEN i ELSE i + 1
    <3>1. from \in 1..Len(entries) /\ from # k /\ entries'[i] = entries[from]
      BY <2>2, <2>5, <1>0
    <3>2. age'[entries'[i]] = age[entries[from]] + 1 /\ age[entries[from]] \in Nat
      BY <3>1, <2>4, <1>0
    <3>3. CASE j = Len(entries)
      <4>1. entries'[j] = entries[k]
        BY <3>3, <2>2, <1>0
      <4>2. age'[entries'[j]] = 0
        BY <4>1, <2>4
      <4>3. QED
        BY <3>2, <4>2
    <3>4. CASE j < Len(entries)
      <4> DEFINE to == IF j < k THEN j ELSE j + 1
      <4>1. to \in 1..Len(entries) /\ to # k /\ from < to /\ entries'[j] = entries[to]
        BY <3>4, <2>2, <2>5, <1>0
      <4>2. age'[entries'[j]] = age[entries[to]] + 1 /\ age[entries[to]] \in Nat
        BY <4>1, <2>4, <1>0
      <4>3. age[entries[from]] > age[entries[to]]
        BY <3>1, <4>1, <1>0
      <4>4. QED
        BY <3>2, <4>2, <4>3
    <3>5. QED
      BY <3>3, <3>4, <1>0
  <2>6. QED
    BY <2>3, <2>5 DEF LeastRecentFirst
<1>2. ASSUME NEW r \in Runs, Miss(r) \/ Compile(r) \/ CompileFails(r) \/ Skip(r) \/ Begin(r)
      PROVE  LeastRecentFirst'
  BY <1>2 DEF Miss, Compile, CompileFails, Skip, Begin, LeastRecentFirst
<1>3. ASSUME NEW r \in Runs, Evict(r) PROVE LeastRecentFirst'
  <2>1. DOMAIN entries' = 1..Len(entries')
    BY <1>3, Evicted, LenProperties
  <2>2. UNCHANGED age
    BY <1>3 DEF Evict
  <2>3. ASSUME NEW i \in 1..Len(entries'), NEW j \in 1..Len(entries'), i < j
        PROVE  age[entries'[i]] > age[entries'[j]]
    <3>1. /\ entries'[i] = entries[i + 1]
          /\ entries'[j] = entries[j + 1]
          /\ i + 1 \in 1..Len(entries)
          /\ j + 1 \in 1..Len(entries)
          /\ i + 1 < j + 1
      BY <1>3, <2>3, Evicted, <1>0
    <3>2. QED
      BY <3>1, <1>0
  <2>4. QED
    BY <2>1, <2>2, <2>3 DEF LeastRecentFirst
<1>4. ASSUME NEW r \in Runs, Insert(r) PROVE LeastRecentFirst'
  <2>1. DOMAIN entries' = 1..(Len(entries) + 1)
    BY <1>4, Inserted, LenProperties
  <2>2. /\ \A j \in 1..Len(entries) : entries'[j] = entries[j]
        /\ entries'[Len(entries) + 1] = wasm[r]
    BY <1>4, Inserted
  <2>3. wasm[r] \in Keys /\ wasm[r] \notin Range(entries)
    BY <1>4, CacheAssumption DEF Insert, MutexInv, IsKnown, TypeInv
  <2>4. age' = [other \in Keys |-> IF other = wasm[r] THEN 0 ELSE age[other] + 1]
    BY <1>4 DEF Insert, Use
  <2>5. age'[wasm[r]] = 0
    BY <2>3, <2>4
  <2>6. \A j \in 1..Len(entries) : age'[entries[j]] = age[entries[j]] + 1
    BY <2>3, <2>4, <1>0, Queue
  <2>7. ASSUME NEW i \in 1..(Len(entries) + 1), NEW j \in 1..(Len(entries) + 1), i < j
        PROVE  age'[entries'[i]] > age'[entries'[j]]
    <3>1. i \in 1..Len(entries) /\ age'[entries'[i]] = age[entries[i]] + 1
          /\ age[entries[i]] \in Nat
      BY <2>2, <2>6, <2>7, <1>0
    <3>2. CASE j = Len(entries) + 1
      BY <3>1, <3>2, <2>2, <2>5
    <3>3. CASE j \in 1..Len(entries)
      BY <3>1, <3>3, <2>2, <2>6, <2>7, <1>0
    <3>4. QED
      BY <3>2, <3>3, <1>0
  <2>8. QED
    BY <2>1, <2>7 DEF LeastRecentFirst
<1>5. CASE UNCHANGED vars
  BY <1>5 DEF vars, LeastRecentFirst
<1>6. QED
  BY <1>1, <1>2, <1>3, <1>4, <1>5 DEF Next

LEMMA BytesKept ==
    TypeInv /\ BytesInv /\ [Next]_vars => BytesInv'
<1> SUFFICES ASSUME TypeInv, BytesInv, [Next]_vars PROVE BytesInv'
  OBVIOUS
<1>1. PICK total : Totals(total)
  BY DEF BytesInv
<1>2. /\ Len(entries) \in Nat
      /\ \A i \in 1..Len(entries) : SizeOf[entries[i]] \in Nat
  BY Queue, CacheAssumption
<1>3. /\ total \in [0..Len(entries) -> Nat]
      /\ total[0] = 0
      /\ \A i \in 1..Len(entries) : total[i] = total[i - 1] + SizeOf[entries[i]]
      /\ total[Len(entries)] = bytes
      /\ \A i, j \in 0..Len(entries) : i <= j => total[i] <= total[j]
  BY <1>1, Queue DEF Totals, AddUp
<1>4. bytes \in Nat /\ bytes <= max_cache_bytes /\ Len(entries) <= max_cached_modules
      /\ max_cache_bytes \in Nat /\ max_cached_modules \in Nat
  BY CacheAssumption DEF TypeInv, BytesInv
\* A function that is a running total of the entries after the step.
<1>5. ASSUME NEW n \in Nat, entries' \in Seq(Keys), Len(entries') = n,
             NEW next \in [0..n -> Nat],
             next[0] = 0,
             \A i \in 1..n : next[i] = next[i - 1] + SizeOf[entries'[i]],
             next[n] = bytes',
             \A i, j \in 0..n : i <= j => next[i] <= next[j]
      PROVE  (\E t : Totals(t))'
  <2>1. DOMAIN entries' = 1..n
    BY <1>5, LenProperties
  <2>2. QED
    BY <1>5, <2>1 DEF Totals, AddUp
<1>6. ASSUME NEW r \in Runs, Hit(r) PROVE BytesInv'
  <2>1. PICK k \in 1..Len(entries) : Refresh(k)
    BY <1>6, Queue DEF Hit
  <2>2. /\ entries' \in Seq(Keys)
        /\ Len(entries') = Len(entries)
        /\ \A j \in 1..Len(entries) :
              entries'[j] = IF j < k THEN entries[j]
                            ELSE IF j < Len(entries) THEN entries[j + 1]
                            ELSE entries[k]
    BY <2>1, Refreshed
  <2> DEFINE n == Len(entries)
             size == SizeOf[entries[k]]
             next == [i \in 0..n |-> IF i < k THEN total[i]
                                     ELSE IF i < n THEN total[i + 1] - size
                                     ELSE total[n]]
  <2>3. size \in Nat /\ total[k] = total[k - 1] + size /\ k - 1 \in 0..n
    BY <1>2, <1>3
  <2>4. \A i \in 0..n : total[i] \in Nat
    BY <1>3
  <2> HIDE DEF size
  <2>5. ASSUME NEW i \in k..(n - 1)
        PROVE  total[i + 1] - size \in Nat /\ total[i + 1] >= total[k]
    <3>1. k \in 0..n /\ i + 1 \in 0..n /\ k <= i + 1
      BY <1>2
    <3>2. total[k] <= total[i + 1]
      BY <3>1, <1>3
    <3>3. total[k - 1] \in Nat /\ total[k] \in Nat /\ total[i + 1] \in Nat
      BY <3>1, <2>3, <2>4
    <3>4. QED
      BY <3>2, <3>3, <2>3
  <2>6. next \in [0..n -> Nat]
    BY <2>4, <2>5, <1>2
  <2>7. next[0] = 0 /\ next[n] = bytes'
    BY <1>6, <1>2, <1>3 DEF Hit
  <2>8. ASSUME NEW i \in 1..n PROVE next[i] = next[i - 1] + SizeOf[entries'[i]]
    <3>1. CASE i < k
      BY <3>1, <2>2, <1>2, <1>3
    <3>2. CASE i >= k /\ i < n
      <4>1. i + 1 \in 1..n /\ total[i + 1] = total[i] + SizeOf[entries[i + 1]]
            /\ entries'[i] = entries[i + 1]
        <5>1. i + 1 \in 1..n /\ i + 1 - 1 = i
          BY <3>2, <1>2
        <5>2. total[i + 1] = total[i + 1 - 1] + SizeOf[entries[i + 1]]
          BY <5>1, <1>3
        <5>3. QED
          BY <5>1, <5>2, <3>2, <2>2
      <4>2. next[i] = total[i + 1] - size
        BY <3>2, <1>2
      <4>3. CASE i = k
        <5>1. next[i - 1] = total[k - 1]
          BY <4>3, <2>3, <1>2
        <5>2. QED
          BY <4>1, <4>2, <4>3, <5>1, <2>3, <2>4, <1>2
      <4>4. CASE i > k
        <5>1. next[i - 1] = total[i] - size
          BY <4>4, <3>2, <1>2
        <5>2. QED
          BY <4>1, <4>2, <5>1, <2>3, <2>4, <1>2
      <4>5. QED
        BY <3>2, <4>3, <4>4, <1>2
    <3>3. CASE i = n
      <4>1. next[i] = total[n] /\ entries'[i] = entries[k]
        BY <3>3, <2>2, <1>2
      <4>2. CASE k = n
        <5>1. next[i - 1] = total[k - 1]
          BY <3>3, <4>2, <2>3, <1>2
        <5>2. QED
          BY <4>1, <4>2, <5>1, <2>3 DEF size
      <4>3. CASE k < n
        <5>1. next[i - 1] = total[n] - size
          BY <3>3, <4>3, <1>2
        <5>2. QED
          BY <4>1, <5>1, <2>3, <2>4, <1>2 DEF size
      <4>4. QED
        BY <4>2, <4>3, <1>2
    <3>4. QED
      BY <3>1, <3>2, <3>3, <1>2
  <2>9. ASSUME NEW i \in 0..n, NEW j \in 0..n, i <= j PROVE next[i] <= next[j]
    <3>1. total[i] <= total[j] /\ total[j] <= total[n] /\ total[i] <= total[n]
      BY <2>9, <1>2, <1>3
    <3>2. CASE j < k
      BY <3>1, <3>2, <2>9, <1>2
    <3>3. CASE i < k /\ j >= k /\ j < n
      <4>1. total[i] <= total[k - 1] /\ total[j + 1] >= total[k]
        <5>1. i \in 0..n /\ k - 1 \in 0..n /\ i <= k - 1
          BY <3>3, <2>3, <1>2
        <5>2. total[i] <= total[k - 1]
          BY <5>1, <1>3
        <5>3. j \in k..(n - 1)
          BY <3>3, <1>2
        <5>4. QED
          BY <5>2, <5>3, <2>5
      <4>2. next[i] = total[i] /\ next[j] = total[j + 1] - size
        BY <3>3, <1>2
      <4>3. j + 1 \in 0..n
        BY <3>3, <1>2
      <4>4. total[i] \in Nat /\ total[k - 1] \in Nat /\ total[k] \in Nat
            /\ total[j + 1] \in Nat
        BY <4>3, <2>3, <2>4
      <4>5. QED
        BY <4>1, <4>2, <4>4, <2>3
    <3>4. CASE i >= k /\ j >= k /\ j < n
      <4>1. i + 1 \in 0..n /\ j + 1 \in 0..n /\ i + 1 <= j + 1
        BY <3>4, <2>9, <1>2
      <4>2. total[i + 1] <= total[j + 1]
        BY <4>1, <1>3
      <4>3. next[i] = total[i + 1] - size /\ next[j] = total[j + 1] - size
        BY <3>4, <2>9, <1>2
      <4>4. QED
        BY <4>1, <4>2, <4>3, <2>3, <2>4
    <3>5. CASE j = n
      <4>1. next[j] = total[n]
        BY <3>5, <1>2
      <4>2. CASE i < k \/ i = n
        BY <4>1, <4>2, <3>1, <1>2, <2>4
      <4>3. CASE i >= k /\ i < n
        <5>1. i + 1 \in 0..n /\ next[i] = total[i + 1] - size
          BY <4>3, <1>2
        <5>2. total[i + 1] <= total[n]
          BY <5>1, <1>2, <1>3
        <5>3. QED
          BY <4>1, <5>1, <5>2, <2>3, <2>4, <1>2
      <4>4. QED
        BY <4>2, <4>3, <1>2
    <3>6. QED
      BY <3>2, <3>3, <3>4, <3>5, <2>9, <1>2
  <2> HIDE DEF next
  <2>10. (\E t : Totals(t))'
    BY <1>2, <1>5, <2>2, <2>6, <2>7, <2>8, <2>9
  <2>11. QED
    BY <1>4, <1>6, <2>2, <2>10 DEF BytesInv, Hit
<1>7. ASSUME NEW r \in Runs, Miss(r) \/ Compile(r) \/ CompileFails(r) \/ Skip(r) \/ Begin(r)
      PROVE  BytesInv'
  <2>1. UNCHANGED <<entries, bytes>>
    BY <1>7 DEF Miss, Compile, CompileFails, Skip, Begin
  <2>2. QED
    BY <2>1 DEF BytesInv, Totals, AddUp
<1>8. ASSUME NEW r \in Runs, Evict(r) PROVE BytesInv'
  <2> DEFINE n == Len(entries) - 1
             next == [i \in 0..n |-> total[i + 1] - total[1]]
  <2>1. /\ entries' \in Seq(Keys)
        /\ Len(entries) >= 1
        /\ Len(entries') = n
        /\ \A j \in 1..n : entries'[j] = entries[j + 1]
        /\ bytes' = bytes - SizeOf[entries[1]]
    BY <1>8, Evicted
  <2>2. n \in Nat
    BY <2>1, <1>2
  <2>3. total[1] = SizeOf[entries[1]] /\ 1 \in 0..Len(entries)
    <3>1. total[1] = total[1 - 1] + SizeOf[entries[1]]
      BY <2>1, <1>2, <1>3
    <3>2. SizeOf[entries[1]] \in Nat /\ 1 - 1 = 0
      BY <2>1, <1>2
    <3>3. QED
      BY <3>1, <3>2, <2>1, <1>2, <1>3
  <2>4. ASSUME NEW i \in 0..n
        PROVE  i + 1 \in 0..Len(entries) /\ total[i + 1] \in Nat /\ total[1] \in Nat
               /\ total[1] <= total[i + 1]
    <3>1. i + 1 \in 0..Len(entries) /\ 1 <= i + 1
      BY <2>1, <1>2
    <3>2. QED
      BY <3>1, <2>3, <1>3
  <2>5. next \in [0..n -> Nat]
    BY <2>4
  <2>6. next[0] = 0 /\ next[n] = bytes'
    <3>1. next[0] = total[1] - total[1]
      BY <2>2
    <3>2. next[n] = total[Len(entries)] - total[1]
      BY <2>1, <2>2, <1>2
    <3>3. QED
      BY <3>1, <3>2, <2>1, <2>2, <2>3, <2>4, <1>3
  <2>7. ASSUME NEW i \in 1..n PROVE next[i] = next[i - 1] + SizeOf[entries'[i]]
    <3>1. i + 1 \in 1..Len(entries) /\ i \in 0..n /\ i - 1 \in 0..n
          /\ i + 1 - 1 = i /\ i - 1 + 1 = i
      BY <2>1, <1>2
    <3>2. total[i + 1] = total[i] + SizeOf[entries[i + 1]]
      BY <3>1, <1>3
    <3>3. next[i] = total[i + 1] - total[1] /\ next[i - 1] = total[i] - total[1]
      BY <3>1
    <3>4. total[i] \in Nat /\ total[i + 1] \in Nat /\ total[1] \in Nat
          /\ SizeOf[entries[i + 1]] \in Nat
      BY <3>1, <2>4, <1>2, <1>3
    <3>5. entries'[i] = entries[i + 1]
      BY <2>1
    <3>6. next[i] = next[i - 1] + SizeOf[entries[i + 1]]
      <4> HIDE DEF next
      <4>1. QED
        BY <3>2, <3>3, <3>4
    <3>7. QED
      BY <3>5, <3>6
  <2>8. ASSUME NEW i \in 0..n, NEW j \in 0..n, i <= j PROVE next[i] <= next[j]
    <3>1. total[i + 1] <= total[j + 1]
      BY <2>4, <2>8, <2>2, <1>3
    <3>2. QED
      BY <3>1, <2>4
  <2>9. bytes' \in Nat /\ bytes' <= bytes
    BY <2>1, <2>2, <2>3, <2>4, <2>5, <2>6, <1>2, <1>4
  <2> HIDE DEF next
  <2>10. (\E t : Totals(t))'
    BY <1>5, <2>1, <2>2, <2>5, <2>6, <2>7, <2>8
  <2>11. QED
    BY <1>2, <1>4, <2>1, <2>9, <2>10 DEF BytesInv
<1>9. ASSUME NEW r \in Runs, Insert(r) PROVE BytesInv'
  <2> DEFINE n == Len(entries) + 1
             size == SizeOf[wasm[r]]
             next == [i \in 0..n |-> IF i < n THEN total[i] ELSE bytes + size]
  <2>1. /\ entries' \in Seq(Keys)
        /\ Len(entries') = n
        /\ \A j \in 1..(n - 1) : entries'[j] = entries[j]
        /\ entries'[n] = wasm[r]
    BY <1>9, <1>2, Inserted
  <2>2. size \in Nat /\ n \in Nat /\ n - 1 = Len(entries) /\ bytes' = bytes + size
    BY <1>9, <1>2, CacheAssumption DEF Insert, TypeInv
  <2>3. Len(entries) < max_cached_modules /\ size <= max_cache_bytes - bytes
    BY <1>9, <1>2, <1>4, <2>2 DEF Insert, NeedsRoom
  <2> HIDE DEF size
  <2>4. next \in [0..n -> Nat]
    BY <2>2, <1>3, <1>4
  <2>5. next[0] = 0 /\ next[n] = bytes'
    BY <2>2, <1>2, <1>3
  <2>6. ASSUME NEW i \in 1..n PROVE next[i] = next[i - 1] + SizeOf[entries'[i]]
    <3>1. CASE i < n
      BY <3>1, <2>1, <2>2, <1>3
    <3>2. CASE i = n
      BY <3>2, <2>1, <2>2, <1>2, <1>3 DEF size
    <3>3. QED
      BY <3>1, <3>2, <2>2
  <2>7. ASSUME NEW i \in 0..n, NEW j \in 0..n, i <= j PROVE next[i] <= next[j]
    <3>1. CASE j < n
      BY <3>1, <2>2, <2>7, <1>3
    <3>2. CASE j = n
      <4>1. next[j] = bytes + size
        BY <3>2
      <4>2. CASE i = n
        BY <4>1, <4>2, <2>2, <1>4
      <4>3. CASE i < n
        <5>1. i \in 0..Len(entries) /\ next[i] = total[i] /\ total[i] \in Nat
          BY <4>3, <2>2, <1>3
        <5>2. total[i] <= bytes
          BY <5>1, <1>2, <1>3
        <5>3. QED
          BY <4>1, <5>1, <5>2, <2>2, <1>4
      <4>4. QED
        BY <4>2, <4>3, <2>2
    <3>3. QED
      BY <3>1, <3>2, <2>2
  <2> HIDE DEF next
  <2>8. (\E t : Totals(t))'
    BY <1>5, <2>1, <2>2, <2>4, <2>5, <2>6, <2>7
  <2>9. QED
    BY <1>2, <1>4, <2>1, <2>2, <2>3, <2>8 DEF BytesInv
<1>10. CASE UNCHANGED vars
  BY <1>10 DEF vars, BytesInv, Totals, AddUp
<1>11. QED
  BY <1>6, <1>7, <1>8, <1>9, <1>10 DEF Next

-----------------------------------------------------------------------------
(* The theorems.                                                           *)

LEMMA Initially == Init => IInv
<1> SUFFICES ASSUME Init PROVE IInv
  OBVIOUS
<1> USE DEF Init
<1>1. TypeInv
  BY EmptySeq DEF TypeInv, States
<1>2. Len(entries) = 0 /\ DOMAIN entries = {}
  OBVIOUS
<1>3. Totals([i \in 0..0 |-> 0])
  BY <1>2 DEF Totals, AddUp
<1>4. QED
  BY <1>1, <1>2, <1>3, CacheAssumption DEF IInv, MutexInv, LeastRecentFirst, BytesInv

LEMMA Inductive == IInv /\ [Next]_vars => IInv'
  BY TypeKept, MutexKept, OrderKept, BytesKept DEF IInv

LEMMA Always == Spec => []IInv
  BY Initially, Inductive, PTL DEF Spec

\* What is used least recently goes next, in a cache of any size, for any
\* order of lookups and insertions by any number of runs.
THEOREM OrderTheorem == Spec => []LeastRecentFirst
<1>1. IInv => LeastRecentFirst
  BY DEF IInv
<1>2. QED
  BY <1>1, Always, PTL

\* The bytes and the count of the cache are those of its entries and within
\* their limits, no module is there twice, and an eviction always finds one.
THEOREM QueueTheorem == Spec => []QueueAccounted
<1>1. ASSUME IInv PROVE QueueAccounted
  <2>1. PICK total : Totals(total)
    BY <1>1 DEF IInv, BytesInv
  <2>2. TypeInv /\ LeastRecentFirst /\ MutexInv
    BY <1>1 DEF IInv
  <2>3. IsInjective(entries)
    BY <2>2, Queue, Distinct DEF IsInjective
  <2>4. total \in [0..Len(entries) -> 0..bytes]
    <3>1. ASSUME NEW i \in 0..Len(entries) PROVE total[i] \in 0..bytes
      <4>1. total[i] \in Nat /\ total[i] <= total[Len(entries)]
            /\ total[Len(entries)] = bytes
        BY <2>1, <2>2, Queue DEF Totals, AddUp
      <4>2. QED
        BY <4>1, <2>2 DEF TypeInv
    <3>2. total \in [0..Len(entries) -> Nat]
      BY <2>1 DEF Totals
    <3>3. QED
      BY <3>1, <3>2
  <2>5. EvictionEnds
    <3> SUFFICES ASSUME mutex # "free", NeedsRoom(wasm[mutex]), entries = <<>>
                 PROVE  FALSE
      BY DEF EvictionEnds
    <3>1. Len(entries) = 0
      OBVIOUS
    <3>2. bytes = 0
      BY <2>1, <3>1 DEF Totals, AddUp
    <3>3. wasm[mutex] \in Keys
      BY <2>2 DEF TypeInv
    <3>4. SizeOf[wasm[mutex]] <= max_cache_bytes /\ max_cached_modules > 0
      BY <2>2 DEF MutexInv, Fits
    <3>5. QED
      BY <3>1, <3>2, <3>3, <3>4, CacheAssumption DEF NeedsRoom
  <2>6. QED
    BY <1>1, <2>1, <2>3, <2>4, <2>5 DEF QueueAccounted, IInv, BytesInv, Totals
<1>2. QED
  BY <1>1, Always, PTL
=============================================================================
