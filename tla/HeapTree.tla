------------------------------ MODULE HeapTree ------------------------------
(***************************************************************************)
(* The heap of LLPE's symbolic store, of its tentative-load store and of   *)
(* its dead-store store (SharedTree.h): a radix tree from the number of an *)
(* allocation to its entry, as high as the highest number needs.  Nodes    *)
(* are counted and shared between the trees of different maps; a node is   *)
(* copied before it is written if another tree has it too.                 *)
(*                                                                         *)
(* Node operations compose, so they are functions on the table of nodes N. *)
(* An entry is the set of values its object may hold.                      *)
(***************************************************************************)
EXTENDS Naturals, FiniteSets, FiniteSetsExt

CONSTANTS
    Maps,       \* the LocalStoreMaps that may be in use at a time
    Keys,       \* numbers of heap objects
    HEAPTREEORDER,
    MaxHeight,  \* 32 / HEAPTREEORDERLOG2
    MaxNodes,   \* bound: nodes in use at a time
    MaxWrites,  \* bound: writes; a value is the object and the number of the write
    None        \* no child, no entry

ASSUME HeapTreeAssumption ==
    /\ IsFiniteSet(Maps) /\ Maps # {}
    /\ HEAPTREEORDER \in Nat \ {0, 1} /\ MaxHeight \in Nat \ {0}
    /\ MaxNodes \in Nat /\ MaxWrites \in Nat
    /\ Keys \subseteq 0 .. HEAPTREEORDER ^ MaxHeight - 1

Ids    == 1..MaxNodes
Slots  == 0 .. HEAPTREEORDER - 1
Vals   == 1..MaxWrites

VARIABLES
    node,     \* SharedTreeNode: refCount, children (nodes, or entries if it is a lowest one)
    tree,     \* SharedTreeRoot of each map: root, height; and allOthersClobbered
    writes    \* writes so far

vars == <<node, tree, writes>>

FreeNode == [refCount |-> 0]
NewNode  == [refCount |-> 1, children |-> [i \in Slots |-> None]]
Fresh(N) == CHOOSE n \in Ids : N[n] = FreeNode
NoTree   == [live |-> FALSE]
NoHeap   == [root |-> None, height |-> 0]

(* The child of a node at height h (0: lowest) that object k is under.     *)
nextChild(k, h) == (k \div HEAPTREEORDER ^ h) % HEAPTREEORDER

(***************************************************************************)
(* SharedTreeNode.                                                         *)
(***************************************************************************)
RECURSIVE dropReference(_, _, _)
dropReference(N, n, h) ==
    LET children == N[n].children
        done[i \in 0..HEAPTREEORDER] ==
          IF i = 0 THEN [N EXCEPT ![n] = FreeNode]
          ELSE IF h = 0 \/ children[i - 1] = None THEN done[i - 1]
          ELSE dropReference(done[i - 1], children[i - 1], h - 1)
    IN  IF N[n].refCount > 1 THEN [N EXCEPT ![n].refCount = @ - 1] ELSE done[HEAPTREEORDER]

RECURSIVE getReadableEntry(_, _, _, _)
getReadableEntry(N, n, h, k) ==
    LET child == N[n].children[nextChild(k, h)]
    IN  IF child = None \/ h = 0 THEN child ELSE getReadableEntry(N, child, h - 1, k)

(* Mutant: the copy borrows the children without counting it.              *)
getWritableNode_uncounted(N, n, h) ==
    IF N[n].refCount = 1 THEN [nodes |-> N, n |-> n]
    ELSE [nodes |-> [N EXCEPT ![n].refCount = @ - 1, ![Fresh(N)] = [N[n] EXCEPT !.refCount = 1]],
          n |-> Fresh(N)]

(* getWritableNode: entries are copied with a lowest node, other children  *)
(* are shared.                                                             *)
getWritableNode(N, n, h) ==
    LET copied == [N EXCEPT ![n].refCount = @ - 1, ![Fresh(N)] = [N[n] EXCEPT !.refCount = 1]]
        done[i \in 0..HEAPTREEORDER] ==
          IF i = 0 THEN copied
          ELSE IF h = 0 \/ N[n].children[i - 1] = None THEN done[i - 1]
          ELSE [done[i - 1] EXCEPT ![N[n].children[i - 1]].refCount = @ + 1]
    IN  IF N[n].refCount = 1 THEN [nodes |-> N, n |-> n]
        ELSE [nodes |-> done[HEAPTREEORDER], n |-> Fresh(N)]

(* getOrCreateStoreFor on a node that is writable, and the entry is v.     *)
RECURSIVE createEntry(_, _, _, _, _)
createEntry(N, n, h, k, v) ==
    LET i     == nextChild(k, h)
        child == N[n].children[i]
        W     == IF child = None THEN [nodes |-> [N EXCEPT ![Fresh(N)] = NewNode], n |-> Fresh(N)]
                 ELSE getWritableNode(N, child, h - 1)
    IN  IF h = 0 THEN [N EXCEPT ![n].children[i] = v]
        ELSE createEntry([W.nodes EXCEPT ![n].children[i] = W.n], W.n, h - 1, k, v)

(* The i-th child of a node or of no node.                                 *)
Child(N, o, i) == IF o = None THEN None ELSE N[o].children[i]

(* mergeHeaps on a node, first part.  With allOthersClobbered, children    *)
(* that others lack go; without, children that others have and n lacks are *)
(* made, with nothing in them.                                             *)
intersect(N, n, others, h) ==
    LET lost(i) == Child(N, n, i) # None /\ \E o \in others : Child(N, o, i) = None
        done[i \in 0..HEAPTREEORDER] ==
          IF i = 0 THEN N
          ELSE IF ~lost(i - 1) THEN done[i - 1]
          ELSE LET D == IF h = 0 THEN done[i - 1]
                        ELSE dropReference(done[i - 1], N[n].children[i - 1], h - 1)
               IN  [D EXCEPT ![n].children[i - 1] = None]
    IN  done[HEAPTREEORDER]

populate(N, n, others, h) ==
    LET wanted(i) == Child(N, n, i) = None /\ \E o \in others : Child(N, o, i) # None
        done[i \in 0..HEAPTREEORDER] ==
          IF i = 0 THEN N
          ELSE LET D == done[i - 1]
               IN  IF ~wanted(i - 1) THEN D
                   ELSE IF h = 0 THEN [D EXCEPT ![n].children[i - 1] = {}]
                   ELSE [D EXCEPT ![n].children[i - 1] = Fresh(D), ![Fresh(D)] = NewNode]
    IN  done[HEAPTREEORDER]

(* Second part: each child that is left is merged with those of the others *)
(* that differ from it, an entry by union.                                 *)
RECURSIVE mergeNodes(_, _, _, _, _)
mergeNodes(N, n, others, aoc, h) ==
    LET start == IF aoc THEN intersect(N, n, others, h) ELSE populate(N, n, others, h)
        done[i \in 0..HEAPTREEORDER] ==
          IF i = 0 THEN start
          ELSE LET D     == done[i - 1]
                   own   == D[n].children[i - 1]
                   other == {Child(N, o, i - 1) : o \in others}
                   W     == getWritableNode(D, own, h - 1)
               IN  IF own = None \/ other = {own} THEN D
                   ELSE IF h = 0
                     THEN [D EXCEPT ![n].children[i - 1] = UNION (({own} \cup other) \ {None})]
                   ELSE mergeNodes([W.nodes EXCEPT ![n].children[i - 1] = W.n], W.n, other, aoc, h - 1)
    IN  done[HEAPTREEORDER]

(***************************************************************************)
(* SharedTreeRoot.  T = [root, height].                                    *)
(***************************************************************************)
getRequiredHeight == [k \in Keys |-> Min({h \in 1..MaxHeight : k < HEAPTREEORDER ^ h})]

(* Mutant: one number too late.                                            *)
mustGrowFor_late(T, k) == T.height # MaxHeight /\ k > HEAPTREEORDER * HEAPTREEORDER ^ (T.height - 1)

mustGrowFor(T, k) == T.height # MaxHeight /\ k >= HEAPTREEORDER * HEAPTREEORDER ^ (T.height - 1)

(* The old root becomes child 0 of a new one, as often as needed.          *)
RECURSIVE growToHeight(_, _, _)
growToHeight(N, T, h) ==
    LET n == Fresh(N)
    IN  IF T.height >= h THEN [nodes |-> N, tree |-> T]
        ELSE growToHeight([N EXCEPT ![n] = [NewNode EXCEPT !.children[0] = T.root]],
                          [T EXCEPT !.root = n, !.height = @ + 1], h)

getReadableStoreFor(N, T, k) ==
    IF T.height = 0 \/ getRequiredHeight[k] > T.height THEN None
    ELSE getReadableEntry(N, T.root, T.height - 1, k)

getOrCreateStoreFor(N, T, k, v) ==
    LET R == IF T.root = None
               THEN [nodes |-> [N EXCEPT ![Fresh(N)] = NewNode],
                     tree |-> [T EXCEPT !.root = Fresh(N), !.height = getRequiredHeight[k]]]
             ELSE IF mustGrowFor(T, k) THEN growToHeight(N, T, getRequiredHeight[k])
             ELSE LET W == getWritableNode(N, T.root, T.height - 1)
                  IN  [nodes |-> W.nodes, tree |-> [T EXCEPT !.root = W.n]]
    IN  [R EXCEPT !.nodes = createEntry(R.nodes, R.tree.root, R.tree.height - 1, k, v)]

clear(N, T) == IF T.height = 0 THEN N ELSE dropReference(N, T.root, T.height - 1)

(***************************************************************************)
(* MergeBlockVisitor::mergeHeaps.                                          *)
(***************************************************************************)
Heap(m) == [root |-> tree[m].root, height |-> tree[m].height]

(* Shorter trees are grown for the time of the merge, although their maps  *)
(* may be shared; temps are their roots and by how much they grew.         *)
RECURSIVE tempGrow(_, _, _)
tempGrow(D, heaps, height) ==
    LET T == CHOOSE T \in heaps : TRUE
        G == growToHeight(D.nodes, T, height)
        E == IF T.height = 0 THEN [D EXCEPT !.roots = @ \cup {None}]
             ELSE [nodes |-> G.nodes, roots |-> D.roots \cup {G.tree.root},
                   temps |-> D.temps \cup {<<G.tree.root, height - T.height>>}]
    IN  IF heaps = {} THEN D ELSE tempGrow(E, heaps \ {T}, height)

(* Undone: a topmost node is deleted (its refCount is asserted to be 1).   *)
removeTemp(N, t) == [nodes |-> [N EXCEPT ![t[1]] = FreeNode],
                     temp  |-> <<N[t[1]].children[0], t[2] - 1>>]

RECURSIVE removeTemps(_, _)
removeTemps(N, temps) ==
    LET t == CHOOSE t \in temps : TRUE
        R == removeTemp(N, t)
    IN  IF temps = {} THEN N
        ELSE IF t[2] = 0 THEN removeTemps(N, temps \ {t})
        ELSE removeTemps(R.nodes, (temps \ {t}) \cup {R.temp})

mergeHeaps(m, F, aoc) ==
    LET heaps  == {Heap(f) : f \in F}
        height == Max({T.height : T \in heaps \cup {Heap(m)}})
        W      == getWritableNode(node, tree[m].root, tree[m].height - 1)
        target == IF tree[m].root = None
                    THEN [nodes |-> [node EXCEPT ![Fresh(node)] = NewNode],
                          tree |-> [root |-> Fresh(node), height |-> 1]]
                    ELSE [nodes |-> W.nodes, tree |-> [Heap(m) EXCEPT !.root = W.n]]
        G      == growToHeight(target.nodes, target.tree, height)
        others == tempGrow([nodes |-> G.nodes, roots |-> {}, temps |-> {}], heaps, height)
        merged == mergeNodes(others.nodes, G.tree.root, others.roots, aoc, height - 1)
    IN  IF heaps = {Heap(m)} THEN [nodes |-> node, tree |-> Heap(m)]
        ELSE [nodes |-> removeTemps(merged, others.temps), tree |-> G.tree]

(***************************************************************************)
(* Actions.                                                                *)
(***************************************************************************)
Live == {m \in Maps : tree[m].live}
With(m, T, aoc) == [live |-> TRUE, root |-> T.root, height |-> T.height, aoc |-> aoc]

(* LocalStoreMap::getWritableFrameList, copyFramesFrom: a map is copied    *)
(* and has the heap of the original.                                       *)
Copy(m, n) ==
    /\ m \in Live /\ n \notin Live
    /\ node' = IF tree[m].root = None THEN node ELSE [node EXCEPT ![tree[m].root].refCount = @ + 1]
    /\ tree' = [tree EXCEPT ![n] = tree[m]]
    /\ UNCHANGED writes

(* LocalStoreMap::dropReference, of the last reference.                    *)
Drop(m) ==
    /\ m \in Live
    /\ node' = clear(node, Heap(m))
    /\ tree' = [tree EXCEPT ![m] = NoTree]
    /\ UNCHANGED writes

(* LocalStoreMap::getOrCreateStoreFor on a private map, for a write.       *)
Write(m, k) ==
    /\ m \in Live /\ writes < MaxWrites
    /\ LET W == getOrCreateStoreFor(node, Heap(m), k, {<<k, writes + 1>>})
       IN  /\ node' = W.nodes
           /\ tree' = [tree EXCEPT ![m] = With(m, W.tree, tree[m].aoc)]
    /\ writes' = writes + 1

(* Mutant: the height of the tree that is gone stays.                      *)
Clobber_height(m) ==
    /\ m \in Live
    /\ node' = clear(node, Heap(m))
    /\ tree' = [tree EXCEPT ![m].root = None, ![m].aoc = TRUE]
    /\ UNCHANGED writes

(* LocalStoreMap::clear, and allOthersClobbered is set.                    *)
Clobber(m) ==
    /\ m \in Live
    /\ node' = clear(node, Heap(m))
    /\ tree' = [tree EXCEPT ![m] = With(m, NoHeap, TRUE)]
    /\ UNCHANGED writes

(* MergeBlockVisitor::doMerge into the private map m.  Of the other maps,  *)
(* those in gone lose their last reference.                                *)
Merge(m, F, gone) ==
    /\ F # {} /\ F \cup {m} \subseteq Live /\ gone \subseteq F
    /\ LET aoc == \E f \in F \cup {m} : tree[f].aoc
           M   == mergeHeaps(m, F, aoc)
           RECURSIVE dropped(_, _)
           dropped(N, G) == IF G = {} THEN N
                            ELSE LET f == CHOOSE f \in G : TRUE
                                 IN  dropped(clear(N, Heap(f)), G \ {f})
       IN  /\ node' = dropped(M.nodes, gone)
           /\ tree' = [f \in Maps |-> IF f \in gone THEN NoTree
                                      ELSE IF f = m THEN With(m, M.tree, aoc) ELSE tree[f]]
    /\ UNCHANGED writes

Init == /\ node = [n \in Ids |-> FreeNode]
        /\ \E m \in Maps : tree = [n \in Maps |-> IF n = m THEN With(m, NoHeap, FALSE) ELSE NoTree]
        /\ writes = 0

Next == \/ \E m, n \in Maps : Copy(m, n)
        \/ \E m \in Maps : \/ Drop(m) \/ Clobber(m)
                           \/ \E k \in Keys : Write(m, k)
                           \/ \E F \in SUBSET (Maps \ {m}) : \E gone \in SUBSET F : Merge(m, F, gone)

Spec == Init /\ [][Next]_vars

(***************************************************************************)
(* Properties.                                                             *)
(***************************************************************************)
(* The nodes of the tree below n, a node at height h, with their heights.  *)
RECURSIVE Below(_, _)
Below(n, h) == {<<n, h>>} \cup IF h = 0 THEN {}
               ELSE UNION {Below(c, h - 1) : c \in {node[n].children[i] : i \in Slots} \ {None}}
Nodes(m) == IF tree[m].root = None THEN {} ELSE Below(tree[m].root, tree[m].height - 1)

(* Trees are as SharedTree.h declares them.  A node that several trees     *)
(* have is equally high in all of them, so that all agree on whether its   *)
(* children are nodes or entries.                                          *)
TypeOK ==
    /\ writes \in 0..MaxWrites
    /\ \A m \in Live : \/ tree[m].root = None /\ tree[m].height = 0
                       \/ tree[m].root \in Ids /\ tree[m].height \in 1..MaxHeight
    /\ LET all == UNION {Nodes(m) : m \in Live}
       IN  /\ \A x, y \in all : x[1] = y[1] => x = y
           /\ \A x \in all : \A i \in Slots :
                LET c == node[x[1]].children[i]
                IN  c = None \/ IF x[2] = 0 THEN c \in SUBSET (Keys \X Vals) ELSE c \in Ids

(* A node counts the roots and the children that point to it, also across  *)
(* the temporary growth of trees in a merge: none is freed while some tree *)
(* has it, none stays that no tree has, and refCount == 1 really means     *)
(* that a write in place shows in one tree only.                           *)
NodeRefsExact ==
    LET all == UNION {Nodes(m) : m \in Live}
        inner == {x[1] : x \in {y \in all : y[2] > 0}}
    IN  \A n \in Ids :
          node[n].refCount = Cardinality({m \in Live : tree[m].root = n})
                             + Cardinality({p \in inner \X Slots : node[p[1]].children[p[2]] = n})

(* The trees implement one heap per map: whatever nodes are shared, a map  *)
(* reads what it wrote, objects whose numbers are close do not get in each *)
(* other's way however high the tree is, and merging trees of different    *)
(* heights keeps or drops exactly the objects it should.                   *)
Abs == INSTANCE AbsHeap WITH
         heap <- [m \in Maps |-> IF ~tree[m].live THEN [live |-> FALSE] ELSE
                    [live |-> TRUE, aoc |-> tree[m].aoc,
                     ents |-> [k \in Keys |-> getReadableStoreFor(node, Heap(m), k)]]]
ImplementsAbsHeap == Abs!Spec
=============================================================================
