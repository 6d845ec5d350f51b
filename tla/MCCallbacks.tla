----------------------------- MODULE MCCallbacks -----------------------------
(* Small instances of Callbacks: a guest that may ask for anything.        *)
EXTENDS Callbacks, TLC

Request(i, kind) == [id |-> i, kind |-> kind]
Pairs(kind)      == {<<Request(i, "granted"), Request(j, kind)>> : i, j \in Ids}
Longer           == [1..3 -> {Request(i, "granted") : i \in Ids}]

\* No request, one, or two, the second one acceptable or not.
Short == {<<>>} \cup {<<Request(i, kind)>> : i \in Ids, kind \in {"granted", "denied"}}
                \cup Pairs("granted") \cup Pairs("denied") \cup Pairs("invalid")

\* One request more than MaxConcurrent = 2 allows: the broker looks at the
\* length alone.
Repeated == {[n \in 1..3 |-> Request(i, "granted")] : i \in Ids}

AnyBatch    == Short \cup Repeated
GrantedOnly == {<<>>} \cup {<<Request(i, "granted")>> : i \in Ids}
                      \cup Pairs("granted") \cup Longer

\* One id is as good as another.
Interchangeable == Permutations(Ids)
=============================================================================
