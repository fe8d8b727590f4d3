------------------------------ MODULE AbsHeap -------------------------------
(***************************************************************************)
(* What the heap tree promises to the maps that hold one: each map has a   *)
(* heap of its own, which has an entry for some of the heap objects.  The  *)
(* trees of HeapTree, which share nodes, implement this.                   *)
(***************************************************************************)
CONSTANTS
    Maps,    \* the maps that may have a heap
    Keys,    \* heap objects
    Vals,    \* the values <<k, v>> are written to object k
    None     \* no entry for the object

VARIABLE heap   \* a map's heap: is it in use, are missing objects clobbered, entries

Unused  == [live |-> FALSE]
Live(H) == {m \in Maps : H[m].live}

Init == \E m \in Maps : heap = [n \in Maps |-> IF n # m THEN Unused ELSE
                                  [live |-> TRUE, aoc |-> FALSE, ents |-> [k \in Keys |-> None]]]

(***************************************************************************)
(* Steps, as relations between the heaps before (H) and after (I).         *)
(***************************************************************************)
OnlyThese(M, H, I) == \A n \in Maps : n \in M \/ I[n] = H[n]

Copy(n, H, I)  == n \notin Live(H) /\ OnlyThese({n}, H, I) /\ \E m \in Live(H) : I[n] = H[m]
Drop(m, H, I)  == m \in Live(H) /\ OnlyThese({m}, H, I) /\ I[m] = Unused
Write(m, H, I) == /\ m \in Live(H) \cap Live(I) /\ OnlyThese({m}, H, I)
                  /\ \E k \in Keys : /\ \E v \in Vals : I[m].ents[k] = {<<k, v>>}
                                     /\ I[m] = [H[m] EXCEPT !.ents[k] = I[m].ents[k]]
Clobber(m, H, I) == /\ m \in Live(H) /\ OnlyThese({m}, H, I)
                    /\ I[m] = [H[m] EXCEPT !.aoc = TRUE, !.ents = [k \in Keys |-> None]]

(* Where an object has no entry it was never written, unless missing       *)
(* objects are clobbered: then nothing is known of the merged one either.  *)
MergedEntry(X, aoc) == IF X = {None} \/ (aoc /\ None \in X) THEN None ELSE UNION (X \ {None})
Merged(M, H) == LET aoc == \E m \in M : H[m].aoc
                IN  [live |-> TRUE, aoc |-> aoc,
                     ents |-> [k \in Keys |-> MergedEntry({H[m].ents[k] : m \in M}, aoc)]]

(* Maps are merged into m; some of the others are not used after that.     *)
Merge(m, H, I) ==
    LET gone == Live(H) \ Live(I)
    IN  /\ m \in Live(H) \cap Live(I)
        /\ OnlyThese(gone \cup {m}, H, I)
        /\ \E F \in SUBSET (Live(H) \ {m}) : gone \subseteq F /\ F # {} /\ I[m] = Merged(F \cup {m}, H)

Next == LET H == heap
            I == heap'
        IN  /\ I # H
            /\ \E m \in Maps : \/ Copy(m, H, I) \/ Drop(m, H, I) \/ Write(m, H, I)
                               \/ Clobber(m, H, I) \/ Merge(m, H, I)

Spec == Init /\ [][Next]_heap
=============================================================================
