----------------------------- MODULE Retention ------------------------------
(***************************************************************************)
(* GenerationRetention, as the worker threads use it through               *)
(* RegisteredSource.load_pinned: look up, load on a miss, and put what was *)
(* loaded, each under the lock on its own.  Two threads may load the same  *)
(* generation and put it one after the other, and Runtime.close may clear  *)
(* the cache in between.                                                   *)
(***************************************************************************)
EXTENDS Lru

CONSTANTS
    Threads,
    NoThread,
    MaxReads       \* bound: generations one thread reads

ASSUME RetentionAssumption == NoThread \notin Threads /\ MaxReads \in Nat

VARIABLES
    lock,       \* the thread inside put's critical section
    pc, key,    \* where a thread is, and the generation it reads
    size,       \* what the frozen copy of its load weighs
    reads,      \* reads a thread has begun
    closed      \* Runtime.close has run

vars == <<entries, bytes, recent, lock, pc, key, size, reads, closed>>

AnyKey == CHOOSE k \in Keys : TRUE
AnySize == CHOOSE s \in Sizes : TRUE

Init ==
    /\ Empty
    /\ lock = NoThread /\ closed = FALSE
    /\ pc = [t \in Threads |-> "idle"]
    /\ key = [t \in Threads |-> AnyKey]
    /\ size = [t \in Threads |-> AnySize]
    /\ reads = [t \in Threads |-> 0]

\* retention.get, whole under the lock
Get(t, k) ==
    /\ pc[t] = "idle" /\ lock = NoThread /\ reads[t] < MaxReads
    /\ key' = [key EXCEPT ![t] = k]
    /\ reads' = [reads EXCEPT ![t] = @ + 1]
    /\ \/ Holds(k) /\ Touch(k) /\ UNCHANGED pc
       \/ ~Holds(k) /\ pc' = [pc EXCEPT ![t] = "load"] /\ UNCHANGED lruVars
    /\ UNCHANGED <<lock, size, closed>>

\* source.load_pinned, outside the lock; it may fail.
Load(t) ==
    /\ pc[t] = "load"
    /\ \/ \E s \in Sizes : /\ size' = [size EXCEPT ![t] = s]
                           /\ pc' = [pc EXCEPT ![t] = "put"]
       \/ UNCHANGED size /\ pc' = [pc EXCEPT ![t] = "idle"]
    /\ UNCHANGED <<lruVars, lock, key, reads, closed>>

Fits(s) == s <= MaxBytes

TooBig(t) ==
    /\ pc[t] = "put" /\ ~Fits(size[t])
    /\ pc' = [pc EXCEPT ![t] = "idle"]
    /\ UNCHANGED <<lruVars, lock, key, size, reads, closed>>

\* put takes the lock and stores; the eviction loop follows under the same lock.
PutStores(t) ==
    /\ pc[t] = "put" /\ Fits(size[t]) /\ lock = NoThread
    /\ lock' = t
    /\ Store(key[t], size[t])
    /\ pc' = [pc EXCEPT ![t] = "evict"]
    /\ UNCHANGED <<key, size, reads, closed>>

PutEvicts(t) ==
    /\ pc[t] = "evict" /\ OverBudget
    /\ EvictOldest
    /\ UNCHANGED <<lock, pc, key, size, reads, closed>>

PutEnds(t) ==
    /\ pc[t] = "evict" /\ ~OverBudget
    /\ lock' = NoThread
    /\ pc' = [pc EXCEPT ![t] = "idle"]
    /\ UNCHANGED <<lruVars, key, size, reads, closed>>

\* Runtime.close
Close ==
    /\ ~closed /\ lock = NoThread
    /\ closed' = TRUE /\ Clear
    /\ UNCHANGED <<lock, pc, key, size, reads>>

Next ==
    \/ \E t \in Threads : \/ \E k \in Keys : Get(t, k)
                          \/ Load(t) \/ TooBig(t)
                          \/ PutStores(t) \/ PutEvicts(t) \/ PutEnds(t)
    \/ Close

Spec == Init /\ [][Next]_vars

-----------------------------------------------------------------------------
(* Whenever the lock is free the cache is within both budgets.             *)
WithinBudget == lock = NoThread => ~OverBudget
=============================================================================
