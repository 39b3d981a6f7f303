----------------------------- MODULE ShardCache -----------------------------
(***************************************************************************)
(* SnapshotCache of cache.py: shard bytes under the immutable identity of  *)
(* the generation they belong to, checked against the key's digest when    *)
(* they go in and when they come out.  The class is not thread safe and is *)
(* driven by one caller at a time.                                         *)
(***************************************************************************)
EXTENDS Lru

CONSTANTS
    Generation,    \* Generation[k]: the generation that key k names
    SizeOf,        \* SizeOf[k]: the length of the bytes whose digest k names
    MaxCalls       \* bound: calls of the public methods

Parameters == SizeOf \in [Keys -> Sizes] /\ MaxCalls \in Nat

VARIABLES
    spoiled,    \* keys whose bytes in memory no longer hash to their digest
    place,         \* "idle", or inside _evict
    fill,       \* the key that lookup still has to load, or none
    served,     \* what the last get handed out: its key, and whether it was sound
    calls

vars == <<entries, bytes, recent, spoiled, place, fill, served, calls>>

Nothing == [key |-> {}, sound |-> TRUE]

Init ==
    /\ Empty
    /\ spoiled = {} /\ place = "idle" /\ fill = {} /\ served = Nothing /\ calls = 0

\* One public method starts; the previous one has returned.
Call == place = "idle" /\ fill = {} /\ calls < MaxCalls /\ calls' = calls + 1

Drop(k) ==
    /\ entries' = Without(entries, k)
    /\ bytes' = bytes - entries[At(k)].size
    /\ recent' = Forget(recent, k)
    /\ spoiled' = spoiled \ {k}

\* put up to the eviction loop; right: the payload hashes to the key's digest
PutBody(k, right) ==
    \/ /\ ~right \/ SizeOf[k] > MaxBytes
       /\ UNCHANGED <<lruVars, spoiled, place>>
    \/ /\ right /\ SizeOf[k] <= MaxBytes
       /\ Store(k, SizeOf[k])
       /\ spoiled' = spoiled \ {k}
       /\ place' = "evict"

Put(k, right) ==
    /\ Call /\ PutBody(k, right)
    /\ UNCHANGED <<fill, served>>

EvictOver == OverBudget

Evict ==
    /\ place = "evict"
    /\ \/ /\ entries # <<>> /\ EvictOver
          /\ EvictOldest
          /\ spoiled' = spoiled \ {Head(entries).key}
          /\ UNCHANGED place
       \/ /\ ~(entries # <<>> /\ EvictOver)
          /\ place' = "idle"
          /\ UNCHANGED <<lruVars, spoiled>>
    /\ UNCHANGED <<fill, served, calls>>

GetBody(k) ==
    \/ /\ ~Holds(k)
       /\ served' = Nothing
       /\ UNCHANGED <<lruVars, spoiled>>
    \/ /\ Holds(k) /\ k \in spoiled
       /\ Drop(k) /\ served' = Nothing
    \/ /\ Holds(k) /\ k \notin spoiled
       /\ Touch(k) /\ served' = [key |-> {k}, sound |-> k \notin spoiled]
       /\ UNCHANGED spoiled

Get(k) ==
    /\ Call /\ GetBody(k)
    /\ UNCHANGED <<place, fill>>

\* lookup: get, and on a miss the loader's bytes are put and returned
Lookup(k) ==
    /\ Call /\ GetBody(k)
    /\ fill' = IF served'.key = {} THEN {k} ELSE {}
    /\ UNCHANGED place

LookupFills(right) ==
    /\ place = "idle" /\ fill # {}
    /\ \E k \in fill : PutBody(k, right)
    /\ fill' = {}
    /\ UNCHANGED <<served, calls>>

Invalidate(k) ==
    /\ Call
    /\ \/ Holds(k) /\ Drop(k)
       \/ ~Holds(k) /\ UNCHANGED <<lruVars, spoiled>>
    /\ UNCHANGED <<place, fill, served>>

DoomedBy(g) == {k \in Keys : Holds(k) /\ Generation[k] = g}

\* invalidate, for every key of the generation that is held
EvictGeneration(g) ==
    LET doomed == DoomedBy(g)
        kept == Keys \ doomed
    IN /\ Call
       /\ entries' = Kept(entries, {e \in Entry : e.key \in kept})
       /\ bytes' = bytes - WeightOf(Kept(entries, {e \in Entry : e.key \in doomed}))
       /\ recent' = Kept(recent, kept)
       /\ spoiled' = spoiled \ doomed
       /\ UNCHANGED <<place, fill, served>>

ClearAll ==
    /\ Call /\ Clear
    /\ spoiled' = {}
    /\ UNCHANGED <<place, fill, served>>

\* The bytes of an entry are damaged in memory.
Spoil(k) ==
    /\ place = "idle" /\ Holds(k) /\ k \notin spoiled
    /\ spoiled' = spoiled \cup {k}
    /\ UNCHANGED <<lruVars, place, fill, served, calls>>

Next ==
    \/ \E k \in Keys : \/ \E right \in BOOLEAN : Put(k, right)
                       \/ Get(k) \/ Lookup(k) \/ Invalidate(k) \/ Spoil(k)
    \/ \E right \in BOOLEAN : LookupFills(right)
    \/ \E k \in Keys : EvictGeneration(Generation[k])
    \/ Evict \/ ClearAll

Spec == Init /\ [][Next]_vars

-----------------------------------------------------------------------------
(* Between calls both limits hold, whichever of them an insertion broke.   *)
WithinBudget == place = "idle" => ~OverBudget

(* get never hands out bytes that do not hash to the key's digest, however *)
(* the entry came to be damaged or wrong (put's and get's sha256).         *)
SoundBytes == served.sound
=============================================================================
