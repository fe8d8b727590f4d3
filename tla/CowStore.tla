------------------------------ MODULE CowStore ------------------------------
(***************************************************************************)
(* LLPE's block-local symbolic store (SharedTree.h, and the operations on  *)
(* it in LoadForward.cpp).  Each block, and after it each live edge to a   *)
(* successor, holds a counted reference to a LocalStoreMap; maps share     *)
(* their stack frames and their heap, which are counted too, and whoever   *)
(* writes first makes a private copy.  Where control flow meets, the maps  *)
(* are merged, in place when one of them is private.                       *)
(*                                                                         *)
(* A symbolic object is the set of values it may hold.  The heap is one    *)
(* table here; HeapTree.tla is about the tree it really is.                *)
(***************************************************************************)
EXTENDS Naturals, FiniteSets

CONSTANTS
    Edges,       \* holders of a store: the block being interpreted, live edges
    Slots,       \* the objects of the heap, and of each stack frame
    Vals,        \* values an object may hold
    MaxDepth,    \* bound: stack frames
    Sizes,       \* bounds, of which one is chosen: edges, frames, and what is written
    None         \* no entry for the object

MapIds == 1..Cardinality(Edges)
Levels == 0..MaxDepth      \* 0: the heap, n: the n-th stack frame
NoMap  == 0
NoTab  == 0

(* What an instruction writes: one value that is known, or any.            *)
Written == {Vals} \cup {{v} : v \in Vals}

ASSUME CowAssumption == /\ IsFiniteSet(Edges) /\ Edges # {}
                        /\ MaxDepth \in Nat
                        /\ \A X \in SUBSET Vals : X # None
                        /\ Sizes \subseteq [edges : 1..Cardinality(Edges), depth : Levels,
                                           written : SUBSET Written, fresh : SUBSET Written]

VARIABLES
    map,   \* LocalStoreMap objects: ref, depth, tabs by level, aoc, na and ue
    tab,   \* SharedStoreMap objects and heap trees, by level: ref, ents, empty
    at,    \* the map each edge holds a reference to
    size   \* the bounds that were chosen: written is stored, fresh is allocated with

vars == <<map, tab, at, size>>

FreeMap == [ref |-> 0, depth |-> 0, tabs |-> [i \in Levels |-> NoTab],
            aoc |-> FALSE, na |-> {}, ue |-> {}]
FreeTab == [ref |-> 0, ents |-> [s \in Slots |-> None], empty |-> TRUE]

(***************************************************************************)
(* SharedTree.h.  The operations below compose, so they are functions on   *)
(* the whole store S = [map, tab, at] rather than actions.                 *)
(***************************************************************************)
Store == [map |-> map, tab |-> tab, at |-> at]

Of(S, e)         == S.map[S.at[e]]
Frames(S, e)     == 1..Of(S, e).depth
Scope(S, e)      == (0..Of(S, e).depth) \X Slots
Entries(S, i, k) == IF k = NoTab THEN FreeTab.ents ELSE S.tab[i][k].ents
NoEntries(ents)  == \A s \in Slots : ents[s] = None

NewMap(S)    == CHOOSE m \in MapIds : S.map[m].ref = 0
NewTab(S, i) == CHOOSE k \in MapIds : S.tab[i][k].ref = 0
NewTable     == [FreeTab EXCEPT !.ref = 1]

Flagged(M, na, ue) == [M EXCEPT !.na = na, !.ue = ue]

(* A reference to a table is given up.                                     *)
Dropped(T) == IF T.ref = 1 THEN FreeTab ELSE [T EXCEPT !.ref = @ - 1]

(* Mutant: the copy borrows frames and heap without counting it.           *)
getWritableFrameList_uncounted(S, e) ==
    LET m == S.at[e]
        n == NewMap(S)
    IN  IF S.map[m].ref = 1 THEN S
        ELSE [S EXCEPT !.map[m].ref = @ - 1, !.map[n] = [S.map[m] EXCEPT !.ref = 1], !.at[e] = n]

(* LocalStoreMap::getWritableFrameList: break copy-on-write.               *)
getWritableFrameList(S, e) ==
    LET m == S.at[e]
        n == NewMap(S)
    IN  IF S.map[m].ref = 1 THEN S
        ELSE [map |-> [S.map EXCEPT ![m].ref = @ - 1, ![n] = [S.map[m] EXCEPT !.ref = 1]],
              tab |-> [i \in Levels |-> [k \in MapIds |->
                         IF k = S.map[m].tabs[i] THEN [S.tab[i][k] EXCEPT !.ref = @ + 1]
                                                 ELSE S.tab[i][k]]],
              at  |-> [S.at EXCEPT ![e] = n]]

(* SharedStoreMap::getWritableStoreMap, and getWritableNode or a new root  *)
(* for the heap: the same for the tables at levels I of e's map, which is  *)
(* private.                                                                *)
getWritableStoreMap(S, e, I) ==
    LET tabs   == Of(S, e).tabs
        shared == {i \in I : tabs[i] = NoTab \/ S.tab[i][tabs[i]].ref # 1}
        copy(i) == IF tabs[i] = NoTab THEN NewTable
                   ELSE LET T == S.tab[i][tabs[i]]
                        IN  [T EXCEPT !.ref = 1, !.empty = NoEntries(T.ents)]
    IN  [S EXCEPT
          !.map[S.at[e]].tabs = [i \in Levels |-> IF i \in shared THEN NewTab(S, i) ELSE tabs[i]],
          !.tab = [i \in Levels |-> [k \in MapIds |->
                     IF i \in shared /\ k = NewTab(S, i) THEN copy(i)
                     ELSE IF i \in shared /\ k = tabs[i] THEN Dropped(S.tab[i][k])
                     ELSE S.tab[i][k]]]]

(* Mutant: an entry is made and the table still says it is empty.          *)
withEntries_empty(T, new) ==
    [T EXCEPT !.ents = [s \in Slots |-> IF new[s] # None THEN new[s] ELSE @[s]]]

(* Entries are found or made, and given values.                            *)
withEntries(T, new) ==
    [T EXCEPT !.empty = FALSE,
              !.ents = [s \in Slots |-> IF new[s] # None THEN new[s] ELSE @[s]]]

(* LocalStoreMap::getOrCreateStoreFor, for each object new has a value     *)
(* for: its entry is found or made, and then given that value.             *)
getOrCreateStoreFor(S, e, new) ==
    LET I == {i \in Levels : ~NoEntries(new[i])}
        W == getWritableStoreMap(getWritableFrameList(S, e), e, I)
    IN  IF I = {} THEN S
        ELSE [W EXCEPT !.tab = [i \in Levels |-> [k \in MapIds |->
                IF i \notin I \/ k # Of(W, e).tabs[i] THEN W.tab[i][k]
                ELSE withEntries(W.tab[i][k], new[i])]]]

(* The edges D give up their references: a map that loses its last one     *)
(* goes, and with it its references to frames and heap.                    *)
dropReferences(S, D) ==
    LET dropped(m) == Cardinality({f \in D : S.at[f] = m})
        gone == {m \in MapIds : S.map[m].ref = dropped(m)}
        less(i, k) == Cardinality({m \in gone : S.map[m].tabs[i] = k})
    IN  [map |-> [m \in MapIds |-> IF m \in gone THEN FreeMap
                                   ELSE [S.map[m] EXCEPT !.ref = @ - dropped(m)]],
         tab |-> [i \in Levels |-> [k \in MapIds |->
                    IF S.tab[i][k].ref = less(i, k) THEN FreeTab
                    ELSE [S.tab[i][k] EXCEPT !.ref = @ - less(i, k)]]],
         at  |-> [f \in Edges |-> IF f \in D THEN NoMap ELSE S.at[f]]]

(* LocalStoreMap::empty.                                                   *)
empty(S, e) == /\ Of(S, e).tabs[0] = NoTab
               /\ \A i \in Frames(S, e) : S.tab[i][Of(S, e).tabs[i]].empty

(* LocalStoreMap::clear: the heap is dropped, private frames are emptied   *)
(* in place and shared ones replaced.                                      *)
clear(S, e) ==
    LET tabs   == Of(S, e).tabs
        shared == {i \in Frames(S, e) : S.tab[i][tabs[i]].ref # 1}
    IN  [S EXCEPT
          !.map[S.at[e]].tabs = [i \in Levels |-> IF i = 0 THEN NoTab
                                                  ELSE IF i \in shared THEN NewTab(S, i) ELSE tabs[i]],
          !.tab = [i \in Levels |-> [k \in MapIds |->
                     IF i \in shared /\ k = NewTab(S, i) THEN NewTable
                     ELSE IF k # tabs[i] THEN S.tab[i][k]
                     ELSE IF i = 0 \/ i \in shared THEN Dropped(S.tab[i][k]) ELSE NewTable]]]

(* LocalStoreMap::getEmptyMap and copyEmptyFrames.  An empty map is        *)
(* returned as it is, even when it is shared.                              *)
getEmptyMap(S, e) ==
    LET m == S.at[e]
        n == NewMap(S)
    IN  IF empty(S, e) THEN S
        ELSE IF S.map[m].ref = 1 THEN clear(S, e)
        ELSE [map |-> [S.map EXCEPT ![m].ref = @ - 1,
                                    ![n] = [FreeMap EXCEPT
                                              !.ref = 1, !.depth = S.map[m].depth,
                                              !.tabs = [i \in Levels |-> IF i \in Frames(S, e)
                                                          THEN NewTab(S, i) ELSE NoTab]]],
              tab |-> [i \in Levels |-> [k \in MapIds |->
                         IF i \in Frames(S, e) /\ k = NewTab(S, i) THEN NewTable ELSE S.tab[i][k]]],
              at  |-> [S.at EXCEPT ![e] = n]]

(***************************************************************************)
(* MergeBlockVisitor::doMerge over the edges D, into the map of edge g.    *)
(***************************************************************************)
(* Mutant: an object that one side knows nothing of is taken as unwritten  *)
(* there.                                                                  *)
MergedEntry_unwritten(S, D, i, s, aoc) ==
    LET known == {Entries(S, i, Of(S, f).tabs[i])[s] : f \in D} \ {None}
    IN  IF known = {} THEN None ELSE UNION known

(* mergeFrames and mergeHeaps, for object s of level i: with               *)
(* allOthersClobbered it stays if all of D have it, otherwise if any has.  *)
MergedEntry(S, D, i, s, aoc) ==
    LET known == {Entries(S, i, Of(S, f).tabs[i])[s] : f \in D} \ {None}
    IN  IF known = {} \/ (aoc /\ \E f \in D : Entries(S, i, Of(S, f).tabs[i])[s] = None)
          THEN None ELSE UNION known

(* The result replaces the entries of a table, which stays marked empty    *)
(* unless one of them is new.                                              *)
withMerged(T, merged) ==
    [T EXCEPT !.ents = merged,
              !.empty = @ /\ \A s \in Slots : T.ents[s] = None => merged[s] = None]

(* Levels at which all have the same table are left as they are.           *)
doMerge(S, D, g) ==
    LET aoc == \E f \in D : Of(S, f).aoc
        I   == {i \in 0..Of(S, g).depth : \E f \in D : Of(S, f).tabs[i] # Of(S, g).tabs[i]}
        W   == getWritableStoreMap(getWritableFrameList(S, g), g, I)
    IN  IF \A f \in D : S.at[f] = S.at[g] THEN S
        ELSE [W EXCEPT
               !.map[W.at[g]] = Flagged([@ EXCEPT !.aoc = aoc],
                                        {o \in Of(S, g).na : \A f \in D : o \in Of(S, f).na},
                                        {o \in Of(S, g).ue : \A f \in D : o \in Of(S, f).ue}),
               !.tab = [i \in Levels |-> [k \in MapIds |->
                 IF i \notin I \/ k # Of(W, g).tabs[i] THEN W.tab[i][k]
                 ELSE withMerged(W.tab[i][k], [s \in Slots |-> MergedEntry(S, D, i, s, aoc)])]]]

(***************************************************************************)
(* Actions: what the interpreter does to the store of a block or an edge.  *)
(***************************************************************************)
Becomes(S) == map' = S.map /\ tab' = S.tab /\ at' = S.at

Live == {e \in Edges : at[e] # NoMap}

(* Objects come to hold values, and the others are left alone.             *)
Writes(value) ==
    [i \in Levels |-> [s \in Slots |-> IF <<i, s>> \in DOMAIN value THEN value[<<i, s>>] ELSE None]]

(* The flags of e's map, which is private.                                 *)
withFlags(S, e, na, ue) == [S EXCEPT !.map[S.at[e]] = Flagged(@, na, ue)]

(* refStores: the block's store goes along one more edge, f.               *)
refStores(S, e, f) == [S EXCEPT !.map[S.at[e]].ref = @ + 1, !.at[f] = S.at[e]]
Fork(e) == /\ e \in Live /\ Cardinality(Live) < size.edges
           /\ Becomes(refStores(Store, e, CHOOSE f \in Edges : f \notin Live))

(* derefStores.                                                            *)
Free(e) == /\ e \in Live
           /\ Becomes(dropReferences(Store, {e}))

(* executeAllocInst: the new object is unreachable from old ones and       *)
(* unescaped.                                                              *)
Alloc(e, o, x) ==
    /\ e \in Live /\ o \in Scope(Store, e)
    /\ LET S == getOrCreateStoreFor(Store, e, Writes([q \in {o} |-> x]))
       IN  Becomes(withFlags(S, e, Of(S, e).na \cup {o}, Of(S, e).ue \cup {o}))

(* pointerEscaped and SetMAOVisitor: objects lose a flag they have.        *)
pointerEscaped(S, e, E) ==
    IF E \cap Of(S, e).ue = {} THEN S
    ELSE LET T == getWritableFrameList(S, e) IN withFlags(T, e, Of(T, e).na, Of(T, e).ue \ E)
setMayAliasOld(S, e, R) ==
    IF R \cap Of(S, e).na = {} THEN S
    ELSE LET T == getWritableFrameList(S, e) IN withFlags(T, e, Of(T, e).na \ R, Of(T, e).ue)

(* Only unescaped objects keep theirs.                                     *)
setAllObjectsMayAliasOld(S, e) ==
    LET T == getWritableFrameList(S, e)
    IN  withFlags(T, e, Of(T, e).na \cap Of(T, e).ue, Of(T, e).ue)

(* Of the thread-local flags only the private copy made for them shows.    *)
setAllObjectsThreadGlobal(S, e) == getWritableFrameList(S, e)

(* Mutant: that the others were clobbered is not remembered.               *)
clobberAllExcept_forgotten(S, e, save) ==
    LET val(o) == Entries(S, o[1], Of(S, e).tabs[o[1]])[o[2]]
    IN  getOrCreateStoreFor(getEmptyMap(S, e), e,
                            Writes([o \in save |-> IF val(o) = None THEN {} ELSE val(o)]))

(* clobberAllExcept: a map without entries, but for the objects saved.     *)
(* One that had no entry is saved as the empty store.                      *)
clobberAllExcept(S, e, save) ==
    LET val(o) == Entries(S, o[1], Of(S, e).tabs[o[1]])[o[2]]
        E == getEmptyMap(S, e)
        C == [E EXCEPT !.map[E.at[e]].aoc = TRUE]
    IN  getOrCreateStoreFor(C, e, Writes([o \in save |-> IF val(o) = None THEN {} ELSE val(o)]))

(* An instruction's value is unknown: what its operands point to escapes.  *)
valueEscaped(e, P) == /\ e \in Live /\ P # {} /\ P \subseteq map[at[e]].ue
                      /\ Becomes(pointerEscaped(Store, e, P))

(* What is known, as far as pointers go, of a value that is stored or      *)
(* passed to a call: the flagged objects p it may point to (none: it is a  *)
(* scalar, a pointer to other objects, or unknown); whether it, or         *)
(* something reachable from it, may be any pointer, or any old pointer     *)
(* (which makes no difference besides p, for then the map is private); and *)
(* if not, which objects reach are reachable from p (pointers to those     *)
(* were stored before: they escaped).                                      *)
Stored(e) ==
    LET m == map[at[e]]
    IN  UNION { {w \in [any : {"none", "old", "all"}, p : {p}, reach : SUBSET (m.na \ (m.ue \cup p))] :
                   /\ p = {} \/ w.any = "all" => w.reach = {}
                   /\ p # {} => w.any # "old"} :
                p \in SUBSET (m.na \cup m.ue) }
Unknown == [any |-> "all", p |-> {}, reach |-> {}]

(* setObjectsMayAliasOld and setObjectsThreadGlobal.                       *)
setObjectsMayAliasOld(S, e, w) ==
    IF w.any = "all" THEN setAllObjectsMayAliasOld(S, e) ELSE setMayAliasOld(S, e, w.p \cup w.reach)
setObjectsThreadGlobal(S, e, w) ==
    IF w.any = "none" THEN S ELSE setAllObjectsThreadGlobal(S, e)

(* propagateStoreFlags, for a target that may be an old object; when it    *)
(* may not, the map is private already.                                    *)
propagateStoreFlags(S, e, w, targetMayAliasOld) ==
    IF targetMayAliasOld THEN setObjectsThreadGlobal(setObjectsMayAliasOld(S, e, w), e, w) ELSE S

(* executeWriteInst through a pointer to one of the objects O: x is        *)
(* written, over the whole of the object if it is certain, or else over a  *)
(* part of it or merged with what was there.  The rest of an object        *)
(* without entry is unknown or undefined, depending on allOthersClobbered. *)
StoreInst(e, O, w, x, whole) ==
    /\ e \in Live /\ O \subseteq Scope(Store, e) /\ O # {}
    /\ whole => Cardinality(O) = 1
    /\ w.p = {} /\ w.any # "none" => x = Vals
    /\ LET S   == pointerEscaped(Store, e, w.p)
           m   == map[at[e]]
           was(o) == Entries(Store, o[1], m.tabs[o[1]])[o[2]]
           rest(o) == IF whole THEN {} ELSE IF was(o) # None THEN was(o)
                      ELSE IF m.aoc THEN Vals ELSE {}
           T   == getOrCreateStoreFor(S, e, Writes([o \in O |-> rest(o) \cup x]))
       IN  Becomes(propagateStoreFlags(T, e, w, ~ O \subseteq m.na))

(* executeWriteInst through an unknown pointer, which may be known not to  *)
(* point to objects newer than the specialisation root (old).              *)
StoreUnknown(e, old, w) ==
    /\ e \in Live
    /\ LET S == pointerEscaped(Store, e, w.p)
           T == clobberAllExcept(S, e, IF old THEN Of(S, e).na ELSE Of(S, e).ue)
       IN  Becomes(propagateStoreFlags(T, e, w, TRUE))

(* executeUnexpandedCall: unless it is known not to write memory, a call   *)
(* writes anything anywhere; its arguments escape.                         *)
UnexpandedCall(e, w, clobbersMemory) ==
    /\ e \in Live
    /\ LET C == clobberAllExcept(Store, e, map[at[e]].ue)
           S == IF clobbersMemory THEN propagateStoreFlags(C, e, Unknown, TRUE) ELSE Store
           T == setObjectsMayAliasOld(pointerEscaped(S, e, w.p), e, w)
       IN  Becomes(setObjectsThreadGlobal(T, e, w))

(* ShadowBB::pushStackFrame.                                               *)
pushStackFrame(S, e) ==
    LET T == getWritableFrameList(S, e)
        d == Of(T, e).depth + 1
    IN  [T EXCEPT !.map[T.at[e]] = [@ EXCEPT !.depth = d, !.tabs[d] = NewTab(T, d)],
                  !.tab[d][NewTab(T, d)] = NewTable]

(* Mutant: popAllocas is left out.                                         *)
popStackFrame_keepsAllocas(S, e) ==
    LET T == getWritableFrameList(S, e)
        d == Of(T, e).depth
    IN  [T EXCEPT !.map[T.at[e]] = [@ EXCEPT !.depth = d - 1, !.tabs[d] = NoTab],
                  !.tab[d][Of(T, e).tabs[d]] = Dropped(@)]

(* ShadowBB::popStackFrame, popAllocas included.                           *)
popStackFrame(S, e) ==
    LET T == getWritableFrameList(S, e)
        d == Of(T, e).depth
        local == {d} \X Slots
    IN  [T EXCEPT !.map[T.at[e]] = Flagged([@ EXCEPT !.depth = d - 1, !.tabs[d] = NoTab],
                                           @.na \ local, @.ue \ local),
                  !.tab[d][Of(T, e).tabs[d]] = Dropped(@)]

PushFrame(e) == /\ e \in Live /\ Of(Store, e).depth < size.depth
                /\ Becomes(pushStackFrame(Store, e))
PopFrame(e)  == /\ e \in Live /\ Of(Store, e).depth > 0
                /\ Becomes(popStackFrame(Store, e))

(* doBlockStoreMerge, doCallStoreMerge: a private map is the target if one *)
(* of the edges has one.  The other edges give up their references.        *)
Merge(D, g) ==
    /\ D \subseteq Live /\ g \in D
    /\ \A f \in D : Of(Store, f).depth = Of(Store, g).depth
    /\ (\E f \in D : map[at[f]].ref = 1) => map[at[g]].ref = 1
    /\ Becomes(dropReferences(doMerge(Store, D, g), D \ {g}))

Init == /\ \E e \in Edges : at = [f \in Edges |-> IF f = e THEN 1 ELSE NoMap]
        /\ map = [m \in MapIds |-> IF m = 1 THEN [FreeMap EXCEPT !.ref = 1] ELSE FreeMap]
        /\ tab = [i \in Levels |-> [k \in MapIds |-> FreeTab]]
        /\ size \in Sizes

Next == /\ \/ \E e \in Live :
                \/ Fork(e) \/ Free(e) \/ PushFrame(e) \/ PopFrame(e)
                \/ \E P \in SUBSET Scope(Store, e) : valueEscaped(e, P)
                \/ \E o \in Scope(Store, e), x \in size.fresh : Alloc(e, o, x)
                \/ \E O \in SUBSET Scope(Store, e), w \in Stored(e), x \in size.written, whole \in BOOLEAN :
                     StoreInst(e, O, w, x, whole)
                \/ \E w \in Stored(e), old \in BOOLEAN : StoreUnknown(e, old, w)
                \/ \E w \in Stored(e), clobbersMemory \in BOOLEAN :
                     UnexpandedCall(e, w, clobbersMemory)
           \/ \E D \in SUBSET Live : \E g \in D : D # {g} /\ Merge(D, g)
        /\ UNCHANGED size

Spec == Init /\ [][Next]_vars

(***************************************************************************)
(* Properties.                                                             *)
(***************************************************************************)
(* What an edge's store says of its objects, read through the maps.        *)
Known(S, e, o) == LET x == Entries(S, o[1], Of(S, e).tabs[o[1]])[o[2]]
                  IN  IF x # None THEN x ELSE IF Of(S, e).aoc THEN Vals ELSE {}
View(S, e) == IF S.at[e] = NoMap THEN [live |-> FALSE] ELSE
                [live |-> TRUE, depth |-> Of(S, e).depth, wary |-> Of(S, e).aoc,
                 na |-> Of(S, e).na, ue |-> Of(S, e).ue,
                 read |-> [o \in Scope(S, e) |-> Known(S, e, o)]]
Views(S) == [e \in Edges |-> View(S, e)]

MapType == [ref : 0..Cardinality(Edges), depth : Levels, tabs : [Levels -> MapIds \cup {NoTab}],
            aoc : BOOLEAN, na : SUBSET (Levels \X Slots), ue : SUBSET (Levels \X Slots)]
TabType == [ref : 0..Cardinality(Edges), ents : [Slots -> (SUBSET Vals) \cup {None}], empty : BOOLEAN]
Typed(S) ==
    /\ S \in [map : [MapIds -> MapType], tab : [Levels -> [MapIds -> TabType]],
              at : [Edges -> MapIds \cup {NoMap}]]
    /\ \A m \in MapIds :
         /\ S.map[m].ref = 0 => S.map[m] = FreeMap
         /\ \A i \in Levels \ {0} : S.map[m].tabs[i] # NoTab <=> i <= S.map[m].depth
         /\ S.map[m].na \subseteq (0..S.map[m].depth) \X Slots
         /\ S.map[m].ue \subseteq (0..S.map[m].depth) \X Slots
    /\ \A i \in Levels, k \in MapIds : S.tab[i][k].ref = 0 => S.tab[i][k] = FreeTab

(* Maps and tables are as SharedTree.h declares them: what is free is      *)
(* cleared, stack frames exist from the first to the last without gaps,    *)
(* and escape flags are of objects that exist.                             *)
TypeOK == Typed(Store) /\ size \in Sizes

Holders(S, m)  == {e \in Edges : S.at[e] = m}
Users(S, i, k) == {m \in MapIds : S.map[m].tabs[i] = k}
Counted(S) == /\ \A m \in MapIds : S.map[m].ref = Cardinality(Holders(S, m))
              /\ \A i \in Levels, k \in MapIds : S.tab[i][k].ref = Cardinality(Users(S, i, k))

(* Reference counts are exact: a map counts the edges that hold it, a      *)
(* frame or a heap the maps that point to it.  Nothing is freed while it   *)
(* is in use (nor freed twice), nothing stays when nobody uses it, and     *)
(* refCount == 1 really means that a write in place is seen by one edge.   *)
RefCountsExact == Counted(Store)

Marked(S) == \A i \in Levels, k \in MapIds : S.tab[i][k].empty => NoEntries(S.tab[i][k].ents)

(* A frame that says it is empty has no entries: getEmptyMap relies on it  *)
(* when it returns the map as it is, and clobberAllExcept when it asserts  *)
(* that the objects it saves are new.                                      *)
EmptyIsEmpty == Marked(Store)

(* Unescaped objects have an entry, so that clobberAllExcept saves what is *)
(* known of them.  Those that old pointers are held not to reach may have  *)
(* lost theirs, but only to a write through an unknown pointer.            *)
FlaggedHasEntry ==
    \A e \in Live : \A o \in Of(Store, e).na \cup Of(Store, e).ue :
       \/ Entries(Store, o[1], Of(Store, e).tabs[o[1]])[o[2]] # None
       \/ o \notin Of(Store, e).ue /\ Of(Store, e).aoc

(* The copy-on-write maps implement one store per edge: whatever is shared *)
(* and in whatever order copies are broken, an edge reads what it wrote,   *)
(* what it had when it forked, or the union of what was merged.            *)
Abs == INSTANCE AbsStore WITH view <- Views(Store)
ImplementsAbsStore == Abs!Spec

(* After an unhandled call nothing is known of the objects it was given    *)
(* pointers to: "clobber all locations; this call is entirely unhandled"   *)
(* (LoadForward.cpp:3221).  But unescaped objects are spared, and the      *)
(* arguments escape only after that.                                       *)
ArgumentsClobbered ==
    [][\A e \in Live : \A w \in Stored(e) :
          UnexpandedCall(e, w, TRUE) => \A o \in w.p : View(Store, e)'.read[o] = Vals]_vars
=============================================================================
