-------------------------------- MODULE Walk --------------------------------
(***************************************************************************)
(* What the tentative-load and the dead-store pass have in common: the     *)
(* function they walk over, the order in which they visit its blocks, and  *)
(* the way the stores they keep are merged.                                *)
(*                                                                         *)
(* A function p is a record:                                               *)
(*   succ    for each block (numbered in topological order) its successors *)
(*   loops   the loops that are analysed in general: header, latch,        *)
(*           preheader, last (their blocks are header .. last)             *)
(*   ops     for each block the sequence of what it does to memory         *)
(*   target  for each block the predecessor whose dead-store map the       *)
(*           others are merged into                                        *)
(* Calls that are committed and loops that are committed iteration by      *)
(* iteration are part of the sequences; enter and leave are around code    *)
(* that was analysed and is then left unspecialised.                       *)
(***************************************************************************)
EXTENDS Naturals, Sequences, FiniteSets, SequencesExt

CONSTANT Opaque     \* objects of whose contents the analysis knows nothing

Bytes == {0, 1}     \* an object's bytes

Blocks(p)  == DOMAIN p.succ
preds(p, b) == {q \in Blocks(p) : b \in p.succ[q]}
Ids(p)     == UNION {{b} \X DOMAIN p.ops[b] : b \in Blocks(p)}
Op(p, id)  == p.ops[id[1]][id[2]]

(* An operation is of a kind and may have an object and a set of its bytes,*)
(* a second object that is copied to, or a sequence of arguments.          *)
readsMemoryDirectly(op) == op.kind \in {"load", "loadAny", "ordered", "copy"}

-----------------------------------------------------------------------------
(* Visits of blocks: in which pass, where a header has its store from (0:  *)
(* the stores of the predecessors are merged), and whether a loop is       *)
(* around it.                                                              *)
visitsInLoop(p) ==
    LET n == Len(p.succ)
        visits[i \in 1 .. n + 1, L \in {{}} \cup {{l} : l \in p.loops}, last \in 0..n,
               second \in BOOLEAN, from \in 0..n] ==
          IF i > last THEN <<>>
          ELSE IF \E l \in p.loops \ L : l.header = i
          THEN LET l == CHOOSE l \in p.loops \ L : l.header = i
                   body(s, f) == visits[i, {l}, l.last, s, f]
               IN  (IF l.header \notin p.succ[l.latch] THEN body(second, l.preheader)
                    ELSE IF second THEN body(TRUE, l.preheader)
                    ELSE body(FALSE, l.preheader) \o body(TRUE, l.latch))
                   \o visits[l.last + 1, L, last, second, 0]
          ELSE <<[block |-> i, second |-> second, from |-> from, inLoop |-> L # {}]>>
               \o visits[i + 1, L, last, second, 0]
    IN  visits

Visits(p) == visitsInLoop(p)[1, {}, Len(p.succ), FALSE, 0]

-----------------------------------------------------------------------------
(* Stores: aoc is allOthersClobbered, map has an entry for each object     *)
(* mentioned.  MergeBlockVisitor: if all others are clobbered in one of    *)
(* the stores, an object has to be in all of them, and otherwise in one;   *)
(* merged has what the pass makes of the objects' entries.                 *)
NoObjects == [o \in {} |-> {}]
Put(S, o, e) == [S EXCEPT !.map = [x \in {o} \cup DOMAIN @ |-> IF x = o THEN e ELSE @[x]]]
Entry(S, o, empty) == IF o \in DOMAIN S.map THEN S.map[o] ELSE empty

Mentioned(stores) == UNION {DOMAIN S.map : S \in stores}

doMerge(stores, merged) ==
    LET aoc  == \E S \in stores : S.aoc
        kept == {o \in Mentioned(stores) : ~aoc \/ \A S \in stores : o \in DOMAIN S.map}
    IN  [aoc |-> aoc, map |-> [o \in kept |-> merged[o]]]
=============================================================================
