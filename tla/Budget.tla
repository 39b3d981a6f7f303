------------------------------- MODULE Budget -------------------------------
(***************************************************************************)
(* query/budget.pack_response: the last thing a graph_query does.  The     *)
(* envelope is packed inside max_bytes by cutting whole items off the tail *)
(* of its collections, one collection after the other; the length that is  *)
(* kept is found by binary search, one probe a step.                       *)
(*                                                                         *)
(* An item is its encoded size.  The size of an encoded document is that   *)
(* of its items with the commas between them, of the truncated flag, and   *)
(* of everything else (meta, the brackets of the collections included); a  *)
(* collection the document lacks is one without items.                     *)
(***************************************************************************)
EXTENDS Naturals, Sequences

CONSTANTS
    Documents,     \* the envelopes, as build_envelope leaves them
    Caps,          \* the values of max_bytes
    TextSize       \* the encoded sizes of the two warnings a cut may add

Collections == {"nodes", "edges", "unresolved", "candidates", "warnings"}
Texts == {"max_bytes", "oversized_item"}
Packing == {"measure", "next", "search", "packed", "exceeded"}
Document == [items : [Collections -> Seq(Nat)], truncated : BOOLEAN, meta : Nat]

BudgetParameters ==
    /\ Documents \subseteq Document /\ Caps \subseteq Nat
    /\ TextSize \in [Texts -> Nat]

VARIABLES
    document, cap,     \* the request
    packed,            \* the document as packed so far
    pc, turn,          \* turn: the collection of Trimmable that is being cut
    low, high,         \* the bounds of the binary search
    dropped, oversized

vars == <<document, cap, packed, pc, turn, low, high, dropped, oversized>>

Trimmable == <<"nodes", "edges", "unresolved", "candidates", "warnings">>
key == Trimmable[turn]
items == packed.items[key]

----------------------------------------------------------------------------
(* Measuring. *)

Total(s) ==
    LET sum[i \in 0..Len(s)] == IF i = 0 THEN 0 ELSE sum[i - 1] + s[i]
    IN  sum[Len(s)]

EncodedItems(s) == Total(s) + (IF s = <<>> THEN 0 ELSE Len(s) - 1)

\* "true" is a byte shorter than "false".
EncodedFlag(b) == IF b THEN 4 ELSE 5

EncodedSize(d) ==
    d.meta + EncodedFlag(d.truncated)
        + Total([i \in 1..Len(Trimmable) |-> EncodedItems(d.items[Trimmable[i]])])

Fits(d) == EncodedSize(d) <= cap

Cut(d, k, n) == [d EXCEPT !.items[k] = SubSeq(@, 1, n)]

----------------------------------------------------------------------------
Start(d, c) ==
    /\ document' = d /\ cap' = c
    /\ packed' = d
    /\ pc' = "measure" /\ turn' = 1 /\ low' = 0 /\ high' = 0
    /\ dropped' = [k \in Collections |-> 0] /\ oversized' = {}

Init ==
    /\ document \in Documents /\ cap \in Caps
    /\ packed = document
    /\ pc = "measure" /\ turn = 1 /\ low = 0 /\ high = 0
    /\ dropped = [k \in Collections |-> 0] /\ oversized = {}

Measure ==
    /\ pc = "measure"
    /\ pc' = IF Fits(packed) THEN "packed" ELSE "next"
    /\ UNCHANGED <<document, cap, packed, turn, low, high, dropped, oversized>>

Skip ==
    /\ pc = "next" /\ turn <= Len(Trimmable) /\ items = <<>>
    /\ turn' = turn + 1
    /\ UNCHANGED <<document, cap, packed, pc, low, high, dropped, oversized>>

Open ==
    /\ pc = "next" /\ turn <= Len(Trimmable) /\ items # <<>>
    /\ low' = 0 /\ high' = Len(items)
    /\ pc' = "search"
    /\ UNCHANGED <<document, cap, packed, turn, dropped, oversized>>

Middle == (low + high + 1) \div 2

MutCandidate == Cut(packed, key, IF Middle < Len(items) THEN Middle + 1 ELSE Middle)
Candidate == Cut(packed, key, Middle)

MutProbe ==
    /\ pc = "search" /\ low < high
    /\ \/ Fits(Candidate) /\ low' = Middle /\ UNCHANGED high
       \/ ~Fits(Candidate) /\ high' = Middle /\ UNCHANGED low
    /\ UNCHANGED <<document, cap, packed, pc, turn, dropped, oversized>>

Probe ==
    /\ pc = "search" /\ low < high
    /\ \/ Fits(Candidate) /\ low' = Middle /\ UNCHANGED high
       \/ ~Fits(Candidate) /\ high' = Middle - 1 /\ UNCHANGED low
    /\ UNCHANGED <<document, cap, packed, pc, turn, dropped, oversized>>

\* The search is over: the prefix of length low stays.
Settle ==
    /\ pc = "search" /\ low >= high
    /\ packed' = Cut(packed, key, low)
    /\ dropped' = [dropped EXCEPT ![key] = Len(items) - low]
    /\ oversized' = IF low = 0 /\ Len(items) = 1 THEN oversized \cup {key} ELSE oversized
    /\ pc' = "next" /\ turn' = turn + 1
    /\ UNCHANGED <<document, cap, low, high>>

Trimmed == {k \in Collections : dropped[k] > 0}

\* The texts that tell of the cut, in their order, as encoded sizes.
Told ==
    (IF Trimmed # {} THEN <<TextSize["max_bytes"]>> ELSE <<>>)
        \o (IF oversized # {} THEN <<TextSize["oversized_item"]>> ELSE <<>>)

Flagged == [packed EXCEPT !.truncated = @ \/ Trimmed # {}]

WithTexts ==
    LET longer == [Flagged EXCEPT !.items["warnings"] = @ \o Told]
    IN  IF Fits(longer) THEN longer ELSE Flagged

\* Every collection has had its turn.
Finish ==
    /\ pc = "next" /\ turn > Len(Trimmable)
    /\ \/ ~Fits(packed) /\ pc' = "exceeded" /\ UNCHANGED packed
       \/ Fits(packed) /\ pc' = "packed" /\ packed' = WithTexts
    /\ UNCHANGED <<document, cap, turn, low, high, dropped, oversized>>

Next == Measure \/ Skip \/ Open \/ Probe \/ Settle \/ Finish

Spec == Init /\ [][Next]_vars

----------------------------------------------------------------------------
\* The cap is hard: the document that is answered, with the flag that was set and the
\* warnings that were added after the last measurement of the cut one, is inside it.  A query
\* is refused for its size only when its metadata alone is outside.
HardCap ==
    /\ pc = "packed" => EncodedSize(packed) <= cap
    /\ pc = "exceeded" => ~Fits([document EXCEPT !.items = [k \in Collections |-> <<>>]])

\* The binary search cuts no more than it must: right after a collection was cut, with the
\* later ones still whole, not even one item more of it would have fitted.  And collections
\* are spent in order: one loses items only when nothing is left of the ones before it.
LongestPrefix ==
    /\ pc = "next" /\ turn > 1 =>
        LET k == Trimmable[turn - 1]
            kept == Len(packed.items[k])
        IN  \A n \in kept + 1..Len(document.items[k]) :
                ~Fits([packed EXCEPT !.items[k] = SubSeq(document.items[k], 1, n)])
    /\ pc \in Packing => \A i, j \in 1..Len(Trimmable) :
        i < j /\ dropped[Trimmable[j]] > 0 => packed.items[Trimmable[i]] = <<>>

\* What the answer lost is counted to the item, and an answer that lost something, or came
\* from a query that already had, says that it is truncated.
LossIsTold ==
    pc = "packed" =>
        /\ \A k \in Collections \ {"warnings"} :
            /\ dropped[k] = Len(document.items[k]) - Len(packed.items[k])
            /\ packed.items[k] = SubSeq(document.items[k], 1, Len(packed.items[k]))
        /\ packed.truncated <=> (document.truncated \/ Trimmed # {})

\* pack_response as a whole: inside the cap, no smaller than it must be, and honest about it.
PackedIsBest == HardCap /\ LongestPrefix /\ LossIsTold
=============================================================================
