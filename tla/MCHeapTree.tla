----------------------------- MODULE MCHeapTree -----------------------------
(***************************************************************************)
(* Instances of HeapTree for TLC.  The numbers of nodes do not matter,     *)
(* only which trees have them, and where.                                  *)
(***************************************************************************)
EXTENDS HeapTree, TLC

Symmetry == Permutations(Maps)

(* The nodes of m's tree, with their heights and the least number of an    *)
(* object below them.                                                      *)
RECURSIVE Placed(_, _, _)
Placed(n, h, k) ==
    IF n = None THEN {}
    ELSE {<<n, h, k>>} \cup IF h = 0 THEN {} ELSE
         UNION {Placed(node[n].children[i], h - 1, k + i * HEAPTREEORDER ^ h) : i \in Slots}

UpToNaming ==
    LET places == {<<m, Placed(tree[m].root, tree[m].height - 1, 0)>> : m \in Live}
    IN  <<{<<m, tree[m].height, tree[m].aoc>> : m \in Live},
          {<<x[2], x[3], node[x[1]].refCount, IF x[2] = 0 THEN node[x[1]].children ELSE <<>>,
             {p[1] : p \in {q \in places : x \in q[2]}}>> : x \in UNION {p[2] : p \in places}},
          Cardinality({n \in Ids : node[n] # FreeNode}), writes>>
=============================================================================
