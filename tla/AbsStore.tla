------------------------------ MODULE AbsStore ------------------------------
(***************************************************************************)
(* What the symbolic stores promise to the code that interprets a block:   *)
(* every edge between blocks has a store of its own, which says for each   *)
(* object in scope which values it may hold.  The copy-on-write maps of    *)
(* CowStore implement this.                                                *)
(***************************************************************************)
EXTENDS Naturals

CONSTANTS
    Edges,      \* holders of a store: the block being interpreted, live edges
    Slots,      \* the objects of the heap, and of each stack frame
    Vals,       \* values an object may hold
    MaxDepth    \* bound: stack frames

Top        == Vals              \* nothing is known of the object
Undef      == {}                \* never written: yields to any value
InScope(d) == (0..d) \X Slots   \* depth 0 is the heap, n > 0 the n-th frame
Objects    == InScope(MaxDepth)

VARIABLE view

(* An edge's store: what each object in scope may hold (read), which       *)
(* objects no old pointer reaches (na: noAliasOldObjects) and to which no  *)
(* pointer was ever stored (ue: unescapedObjects), and whether a write     *)
(* through an unknown pointer has happened (wary).                         *)
Nothing == [live |-> FALSE]
Live(H) == {e \in Edges : H[e] # Nothing}

Init == \E e \in Edges :
          view = [f \in Edges |-> IF f # e THEN Nothing ELSE
                    [live |-> TRUE, depth |-> 0, wary |-> FALSE, na |-> {}, ue |-> {},
                     read |-> [o \in InScope(0) |-> Undef]]]

(***************************************************************************)
(* The steps of one edge, as relations between its store before (s) and    *)
(* after (t).  All of them leave the stores of the other edges alone.      *)
(***************************************************************************)
SameObjects(s, t) == t.live /\ t.depth = s.depth /\ t.wary = s.wary
LosesFlags(s, t)  == t.na \subseteq s.na /\ t.ue \subseteq s.ue

(* Objects become reachable, and no object changes.                        *)
Escape(s, t) == SameObjects(s, t) /\ LosesFlags(s, t) /\ t.read = s.read

(* Some objects come to hold a value, known or unknown; or a part of each  *)
(* does, and what the rest of it may hold stays.                           *)
Written == {Top} \cup {{v} : v \in Vals}
Wrote(s, t, O) ==
    /\ DOMAIN t.read = DOMAIN s.read
    /\ \A o \in DOMAIN s.read : IF o \notin O THEN t.read[o] = s.read[o] ELSE
                                \/ t.read[o] \in Written
                                \/ \E v \in Vals : t.read[o] = s.read[o] \cup {v}
Store(s, t) == /\ SameObjects(s, t) /\ LosesFlags(s, t)
               /\ \E O \in SUBSET DOMAIN s.read : Wrote(s, t, O)

Alloc(s, t) == /\ SameObjects(s, t)
               /\ \E o \in DOMAIN s.read : /\ Wrote(s, t, {o}) /\ t.read[o] \in Written
                                           /\ t.na = s.na \cup {o} /\ t.ue = s.ue \cup {o}

(* A frame comes, its objects unwritten, or the last one goes.             *)
Resized(s, d) ==
    [live |-> TRUE, depth |-> d, wary |-> s.wary,
     na |-> s.na \cap InScope(d), ue |-> s.ue \cap InScope(d),
     read |-> [o \in InScope(d) |-> IF o \in DOMAIN s.read THEN s.read[o]
                                   ELSE IF s.wary THEN Top ELSE Undef]]
Push(s, t) == s.depth < MaxDepth /\ t = Resized(s, s.depth + 1)
Pop(s, t)  == s.depth > 0 /\ t = Resized(s, s.depth - 1)

(* Anything may have been written through unknown pointers: the objects    *)
(* kept from it keep what is known of them, all others lose it, and flags  *)
(* may be lost.  A pointer that may be new reaches what has escaped, with  *)
(* that write at the latest; an old one what may alias old objects.  What  *)
(* is said of unescaped objects always stands; an escaped one of which     *)
(* nothing was known may be taken for unwritten, which it need not be.     *)
Spared(s, t, o) == \/ t.read[o] = s.read[o]
                   \/ /\ o \in s.na \ s.ue /\ s.wary
                      /\ s.read[o] = Top /\ t.read[o] = Undef
Kept(s, t, kept) ==
    /\ t.live /\ t.depth = s.depth /\ t.wary /\ LosesFlags(s, t)
    /\ DOMAIN t.read = DOMAIN s.read
    /\ \A o \in DOMAIN s.read : IF o \in kept THEN Spared(s, t, o) ELSE t.read[o] = Top
Clobber(s, t) == \/ Kept(s, t, s.na) \/ Kept(s, t, s.ue)
                 \/ \E p \in SUBSET s.ue : t.ue \in {s.ue \ p, {}} /\ Kept(s, t, s.ue \ p)

(***************************************************************************)
(* The steps of all edges, as relations between all stores before (H) and  *)
(* after (I).                                                              *)
(***************************************************************************)
Own(e, H, I) ==
    /\ e \in Live(H)
    /\ \A f \in Edges \ {e} : I[f] = H[f]
    /\ LET s == H[e]
           t == I[e]
       IN  IF t = Nothing THEN TRUE        \* the edge is done with
           ELSE \/ Escape(s, t) \/ Store(s, t) \/ Alloc(s, t) \/ Push(s, t) \/ Pop(s, t)
                \/ Clobber(s, t)

(* A second edge leaves with the store of another.                         *)
Fork(f, H, I) == /\ f \notin Live(H)
                 /\ \E e \in Live(H) : I[f] = H[e]
                 /\ \A e \in Edges \ {f} : I[e] = H[e]

(* The one exception: a write through an unknown pointer on an edge where  *)
(* nothing has been written yet may also clobber others of that kind (they *)
(* share the empty map).                                                   *)
Unwritten(s) == s.live /\ \A o \in DOMAIN s.read : s.read[o] = Undef
ClobberEmpty(H, I) ==
    \A f \in Edges : \/ I[f] = H[f]
                     \/ Unwritten(H[f]) /\ Kept(H[f], I[f], {})

(* Control flow meets: what an object may hold on some edge it may hold    *)
(* now, so that no value is lost.  More than that is given up only when    *)
(* some edge has met a write through an unknown pointer.                   *)
Merge(D, e, H, I) ==
    /\ D # {e}
    /\ \A f \in D : H[f].depth = H[e].depth
    /\ \A f \in Edges : f \notin D => I[f] = H[f]
    /\ \A f \in D : f # e => I[f] = Nothing
    /\ LET t   == I[e]
           dom == DOMAIN H[e].read
       IN  /\ t.live /\ t.depth = H[e].depth
           /\ t.wary = \E f \in D : H[f].wary
           /\ t.na = {o \in dom : \A f \in D : o \in H[f].na}
           /\ t.ue = {o \in dom : \A f \in D : o \in H[f].ue}
           /\ DOMAIN t.read = dom
           /\ \A o \in dom : \/ t.read[o] = UNION {H[f].read[o] : f \in D}
                             \/ t.wary /\ t.read[o] = Top

Next == \E H \in {view}, I \in {view'} :
            /\ I # H
            /\ \/ \E e \in Edges : Own(e, H, I) \/ Fork(e, H, I)
               \/ ClobberEmpty(H, I)
               \/ \E e \in Live(H) : Merge({e} \cup (Live(H) \ Live(I)), e, H, I)

Spec == Init /\ [][Next]_view
=============================================================================
