-------------------------------- MODULE Lru ---------------------------------
(***************************************************************************)
(* The bounded, byte-accounted OrderedDict that retention.py and cache.py  *)
(* both keep: entries from the least to the most recently used, and a byte *)
(* counter that is kept up by hand beside it.                              *)
(***************************************************************************)
EXTENDS Integers, Sequences

CONSTANTS
    Keys,
    Sizes,         \* what an entry may weigh; the same key may weigh differently
    MaxBytes,
    MaxEntries

ASSUME LruAssumption ==
    /\ MaxBytes \in Nat \ {0} /\ MaxEntries \in Nat \ {0}
    /\ Sizes \subseteq Nat

VARIABLES
    entries,    \* the OrderedDict: [key, size], the next to go first
    bytes,      \* the running byte counter
    recent      \* history: every key used since it was last dropped on
                \* purpose, in the order of its last use

lruVars == <<entries, bytes, recent>>

Empty == entries = <<>> /\ bytes = 0 /\ recent = <<>>

Entry == [key : Keys, size : Sizes]
KeysOf(es) == [i \in DOMAIN es |-> es[i].key]
Holds(k) == \E i \in DOMAIN entries : entries[i].key = k
At(k) == CHOOSE i \in DOMAIN entries : entries[i].key = k

\* The members of s that lie in X, in their order.  (SelectSeq, which takes an operator, and
\* the folds are beyond the proofs; a recursive function is not.)
Kept(s, X) ==
    LET part[i \in 0..Len(s)] ==
            IF i = 0 THEN <<>>
            ELSE IF s[i] \in X THEN Append(part[i - 1], s[i]) ELSE part[i - 1]
    IN  part[Len(s)]

Without(es, k) == Kept(es, {e \in Entry : e.key # k})
Forget(ks, k) == Kept(ks, Keys \ {k})
Used(k) == recent' = Append(Forget(recent, k), k)

\* What some entries weigh together.
WeightOf(es) ==
    LET sum[i \in 0..Len(es)] == IF i = 0 THEN 0 ELSE sum[i - 1] + es[i].size
    IN  sum[Len(es)]

\* move_to_end: the payload and the counter stay.
Touch(k) ==
    /\ entries' = Append(Without(entries, k), entries[At(k)])
    /\ Used(k)
    /\ UNCHANGED bytes

\* A defect for comparison: the previous entry of the key is not taken back.
MutStore(k, s) ==
    /\ entries' = Append(Without(entries, k), [key |-> k, size |-> s])
    /\ bytes' = bytes + s
    /\ Used(k)

\* pop the previous entry of the key, add the new one, adjust the counter by each.
Store(k, s) ==
    /\ entries' = Append(Without(entries, k), [key |-> k, size |-> s])
    /\ bytes' = bytes - (IF Holds(k) THEN entries[At(k)].size ELSE 0) + s
    /\ Used(k)

OverBudget == bytes > MaxBytes \/ Len(entries) > MaxEntries

\* popitem(last=False)
EvictOldest ==
    /\ entries' = Tail(entries)
    /\ bytes' = bytes - Head(entries).size
    /\ UNCHANGED recent

Clear == entries' = <<>> /\ bytes' = 0 /\ recent' = <<>>

-----------------------------------------------------------------------------
(* The byte counter of retention.py and of cache.py is what the entries    *)
(* weigh, also after a key was put twice with different weights, and after *)
(* any sequence of drops of damaged entries, invalidations and evictions.  *)
BytesExact == bytes = WeightOf(entries)

(* What is held is the most recently used end of all that was used and not *)
(* dropped on purpose: an eviction never passes over an older entry, and   *)
(* no key is held twice.                                                   *)
LeastRecentGoes == \E n \in 0..Len(recent) :
    KeysOf(entries) = SubSeq(recent, n + 1, Len(recent))
=============================================================================
