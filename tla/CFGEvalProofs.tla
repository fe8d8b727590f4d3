--------------------------- MODULE CFGEvalProofs ---------------------------
(***************************************************************************)
(* Proofs about CFGEval: whatever the function, its loops and the user's   *)
(* options about them, the evaluator's structures stay well formed, and    *)
(* what was found of the iterations of a loop that was shown to end is     *)
(* never touched again.  The invariant says what shape the activations can *)
(* be in: each is about a loop directly inside that of the one below, has  *)
(* behind it the blocks it has done and before it only loops that were not *)
(* explored, and none is about a context that is settled.                  *)
(***************************************************************************)
EXTENDS CFGEval, TLAPS, FiniteSetTheorems, WellFoundedInduction

-----------------------------------------------------------------------------
(* The invariant.                                                           *)

Scopes == {0} \cup Loops

Cells == Values \cup {Top, NoStore}

BlockType(b) == [alive : SUBSET DOMAIN Succs[b], status : {"UNKNOWN", "CERTAIN", "ASSUMED"},
                 in : Cells, store : Cells, result : Cells, local : Int, fd : Int]

\* B is a function.
WithKeys(B) == B = [k \in DOMAIN B |-> B[k]]

\* The blocks B are made in contexts of C, in scope there, and well typed.
BlocksOK(B, C) ==
    /\ WithKeys(B)
    /\ DOMAIN B \subseteq C \X Blocks
    /\ \A k \in DOMAIN B : contains(scope(k[1]), k[2]) /\ B[k] \in BlockType(k[2])

\* Every loop around a context is the scope of one of the contexts around it.
ContextOK(c) ==
    /\ c \in Seq(Loops \X Nat)
    /\ \A m \in Scopes : contains(m, scope(c)) =>
          \E n \in 0..Len(c) : scope(SubSeq(c, 1, n)) = m

\* The contexts around a context exist.
ContextsOK(C) ==
    /\ << >> \in C
    /\ \A c \in C : ContextOK(c) /\ \A n \in 0..Len(c) : SubSeq(c, 1, n) \in C

CtxOK(X) ==
    /\ WithKeys(X)
    /\ \A c \in DOMAIN X : X[c] \in [pending : Int, final : BOOLEAN]

\* Every context has its first block.
FirstThere(K, C) == \A c \in C : <<c, firstBlock(scope(c))>> \in K

\* The latch whose store was retained exists.
RetainedOK(R, K, C) ==
    /\ R \subseteq C \X Loops
    /\ \A r \in R : <<r[1], latchIdx(r[2])>> \in K

PlainFrame(C) == [op : {"analyse", "peel"}, c : C, l : Scopes, i : Nat, changed : BOOLEAN]
LoopFrame(C) == [op : {"loop"}, c : C, l : Scopes, i : Nat, changed : BOOLEAN,
                 first : BOOLEAN, ever : BOOLEAN, nested : BOOLEAN]

\* Loop l is directly inside p, a loop or the function.
Child(p, l) == /\ l \in Loops /\ contains(p, l) /\ l # p
               /\ \A m \in Scopes : contains(m, l) => m = l \/ contains(m, p)

\* The walk got to loop l: its header and preheader exist.
Entered(K, c, l) == <<c, l>> \in K /\ <<c, preheaderIdx(l)>> \in K

\* The frame f above the frame g.
On(g, f) ==
    IF f.op = "analyse"
    THEN /\ g.op = "peel" /\ f.c = iteration(g.c, g.l, g.i)
    ELSE /\ g.op # "peel" /\ (f.op = "peel" => g.op = "analyse")
         /\ f.c = g.c /\ Child(g.l, f.l) /\ g.i <= f.l

\* The loops around the activation's loop, in its context, were entered.
Around(K, f) == \A m \in Loops :
    contains(m, f.l) /\ contains(scope(f.c), m) /\ m # scope(f.c) => Entered(K, f.c, m)

\* The blocks from here on the walk has still to visit.
from(f) == IF f.op = "analyse" THEN f.i ELSE 0

\* The loops inside the activation's loop.
Inner(f) == {m \in Loops : contains(f.l, m) /\ m # f.l}

\* Of a loop inside, still to visit, the header was made before any other block, and the
\* preheader before the header.
Ready(K, f) == \A m \in Inner(f) :
    /\ \A y \in Blocks : from(f) <= y /\ contains(m, y) /\ <<f.c, y>> \in K => <<f.c, m>> \in K
    /\ from(f) <= m /\ <<f.c, m>> \in K => <<f.c, preheaderIdx(m)>> \in K

\* The activation is inside its loop, and not in the middle of one inside it.
Aligned(f) ==
    /\ f.op = "analyse" \/ f.i # 0 => f.l <= f.i
    /\ \A m \in Inner(f) : ~(m < f.i /\ f.i <= LoopEnd[m])

\* The iterations of loop l of c, among the contexts C.
Its(C, c, l) == {i \in 0..MaxIter : iteration(c, l, i) \in C}

\* l0: the loop the frame above is about, 0 if none.
Unexplored(C, f, l0) == \A m \in Inner(f) : f.i <= m /\ m # l0 => Its(C, f.c, m) = {}

\* What holds of an activation by itself.
FrameOK(K, C, f) ==
    /\ contains(scope(f.c), f.l)
    /\ Around(K, f)
    /\ f.op # "peel" => Ready(K, f) /\ Aligned(f)
    /\ f.op = "peel" => f.i \in 0..MaxIter /\ Its(C, f.c, f.l) = 0..f.i

\* The loop that the frame above the n-th is about.
above(S, n) == IF n < Len(S) THEN S[n + 1].l ELSE 0

\* What holds of the n-th activation.
FrameAt(S, K, C, n) ==
    /\ FrameOK(K, C, S[n])
    /\ S[n].op = "analyse" => Unexplored(C, S[n], above(S, n))

Frames(C) == PlainFrame(C) \cup LoopFrame(C)

\* f above g, not necessarily directly.
Over(g, f) ==
    /\ Len(g.c) <= Len(f.c)
    /\ f.op = "analyse" => Len(g.c) < Len(f.c)
    /\ f.c = g.c => contains(g.l, f.l)

\* How the activations lie on one another.
StackShape(S) ==
    /\ S # << >> => S[1].op = "analyse" /\ S[1].c = << >>
    /\ \A n \in 1..Len(S) : S[n].op = "analyse" => S[n].l = scope(S[n].c)
    /\ \A n \in 2..Len(S) : On(S[n - 1], S[n])
    /\ \A n, m \in 1..Len(S) : n < m => Over(S[n], S[m])

StackOK(S, K, C) ==
    /\ S \in Seq(Frames(C))
    /\ StackShape(S)
    /\ \A n \in 1..Len(S) : FrameAt(S, K, C, n)

\* isTerminated and settled, of the contexts X.
ended(X, c, l) == Its(DOMAIN X, c, l) # {} /\ X[iteration(c, l, Max(Its(DOMAIN X, c, l)))].final

closed(X, d) == \E n \in 1..Len(d) : ended(X, SubSeq(d, 1, n - 1), d[n][1])

\* No activation is about a settled context, nor explores a loop shown to end.
Open(S, X) == \A n \in 1..Len(S) :
    /\ ~closed(X, S[n].c)
    /\ S[n].op = "peel" => ~ended(X, S[n].c, S[n].l)

Good(X, B, R, S) ==
    /\ ContextsOK(DOMAIN X)
    /\ CtxOK(X)
    /\ BlocksOK(B, DOMAIN X)
    /\ FirstThere(DOMAIN B, DOMAIN X)
    /\ RetainedOK(R, DOMAIN B, DOMAIN X)
    /\ StackOK(S, DOMAIN B, DOMAIN X)
    /\ Open(S, X)

Inv ==
    /\ prog \in Programs
    /\ entry \in Values \cup {Top}
    /\ Good(ctx, bb, retained, stack)

-----------------------------------------------------------------------------
(* The program.                                                             *)

\* The assumptions about the program, said of the names the model gives its parts.
LEMMA Shape ==
  ASSUME prog \in Programs
  PROVE  /\ Blocks = DOMAIN Succs /\ Blocks \subseteq Nat \ {0} /\ 1 \in Blocks /\ IsFiniteSet(Blocks)
         /\ \A b \in Blocks : Succs[b] \in Seq(Blocks)
         /\ \A l \in Loops : l \in Blocks /\ LoopEnd[l] \in Blocks /\ l <= LoopEnd[l]
<1>1. prog.fn \in {p.fn : p \in Programs}
  OBVIOUS
<1>2. /\ DOMAIN Succs # {} /\ Succs \in Seq(Seq(DOMAIN Succs))
      /\ \A l \in Loops : l \in DOMAIN Succs /\ LoopEnd[l] \in DOMAIN Succs /\ l <= LoopEnd[l]
  BY <1>1, ShapeAssumption DEF Succs, Loops, LoopEnd
<1>3. Blocks = DOMAIN Succs /\ Len(Succs) \in Nat
  BY <1>2 DEF Blocks, Succs
<1>4. IsFiniteSet(1..Len(Succs))
  BY <1>3, FS_Interval
<1>5. Blocks = DOMAIN Succs /\ Blocks = 1..Len(Succs) /\ 1 \in Blocks
  BY <1>2, <1>3 DEF Blocks, Succs
<1>6. \A b \in Blocks : Succs[b] \in Seq(Blocks)
  BY <1>2, <1>5
<1> QED BY <1>2, <1>4, <1>5, <1>6

edge(x, y) == copies(x, y) # {}

\* What LoopsAssumption says of the function at hand.
LEMMA LoopShape ==
  ASSUME prog \in Programs
  PROVE  /\ \A x \in Blocks : ~edge(x, 1)
         /\ \A l, m \in Loops : contains(l, m) => LoopEnd[m] <= LoopEnd[l]
         /\ \A l \in Loops, x, y \in Blocks : edge(x, y) =>
               /\ contains(l, y) /\ ~contains(l, x) => y = l
               /\ contains(l, x) /\ ~contains(l, y) =>
                     \A z \in Blocks : edge(z, y) => contains(l, z)
         /\ \A l \in Loops :
               \E preheader, latch \in Blocks :
                  /\ ~contains(l, preheader) /\ contains(l, latch)
                  /\ {x \in Blocks : edge(x, l)} = {preheader, latch}
<1>0. \A l \in Loops : l # 0
  BY Shape
<1>1. \A x \in Blocks, y \in Blocks : edge(x, y) <=> y \in Range(Succs[x])
  BY Shape DEF edge, copies, Range
<1>2. \A l \in Loops, b \in Blocks : contains(l, b) <=> l <= b /\ b <= LoopEnd[l]
  BY <1>0 DEF contains
<1>3. prog.fn \in {p.fn : p \in Programs}
  OBVIOUS
<1>4. Loops = DOMAIN prog.fn.loopEnd /\ Blocks = DOMAIN prog.fn.succs /\ Succs = prog.fn.succs
      /\ LoopEnd = prog.fn.loopEnd
  BY Shape DEF Loops, LoopEnd, Succs
<1>5. /\ \A x \in Blocks : ~(1 \in Range(Succs[x]))
      /\ \A l, m \in Loops : l <= m /\ m <= LoopEnd[l] => LoopEnd[m] <= LoopEnd[l]
      /\ \A l \in Loops, x, y \in Blocks : y \in Range(Succs[x]) =>
            /\ (l <= y /\ y <= LoopEnd[l]) /\ ~(l <= x /\ x <= LoopEnd[l]) => y = l
            /\ (l <= x /\ x <= LoopEnd[l]) /\ ~(l <= y /\ y <= LoopEnd[l]) =>
                  \A z \in Blocks : y \in Range(Succs[z]) => (l <= z /\ z <= LoopEnd[l])
      /\ \A l \in Loops :
            \E preheader, latch \in Blocks :
               /\ ~(l <= preheader /\ preheader <= LoopEnd[l]) /\ (l <= latch /\ latch <= LoopEnd[l])
               /\ {x \in Blocks : l \in Range(Succs[x])} = {preheader, latch}
  <2>1. \A x \in Blocks : ~(1 \in Range(Succs[x]))
    BY <1>3, <1>4, LoopsAssumption
  <2>2. \A l, m \in Loops : l <= m /\ m <= LoopEnd[l] => LoopEnd[m] <= LoopEnd[l]
    BY <1>3, <1>4, LoopsAssumption
  <2>3. \A l \in Loops, x, y \in Blocks : y \in Range(Succs[x]) =>
            /\ (l <= y /\ y <= LoopEnd[l]) /\ ~(l <= x /\ x <= LoopEnd[l]) => y = l
            /\ (l <= x /\ x <= LoopEnd[l]) /\ ~(l <= y /\ y <= LoopEnd[l]) =>
                  \A z \in Blocks : y \in Range(Succs[z]) => (l <= z /\ z <= LoopEnd[l])
    BY <1>3, <1>4, LoopsAssumption
  <2>4. \A l \in Loops :
            \E preheader, latch \in Blocks :
               /\ ~(l <= preheader /\ preheader <= LoopEnd[l]) /\ (l <= latch /\ latch <= LoopEnd[l])
               /\ {x \in Blocks : l \in Range(Succs[x])} = {preheader, latch}
    BY <1>3, <1>4, LoopsAssumption
  <2> QED BY <2>1, <2>2, <2>3, <2>4
<1>6. Loops \subseteq Blocks /\ 1 \in Blocks
  BY Shape
<1>7. \A x \in Blocks : ~edge(x, 1)
  BY <1>1, <1>5, <1>6
<1>8. \A l, m \in Loops : contains(l, m) => LoopEnd[m] <= LoopEnd[l]
  BY <1>2, <1>5, <1>6
<1>9. ASSUME NEW l \in Loops, NEW x \in Blocks, NEW y \in Blocks, edge(x, y)
      PROVE  /\ contains(l, y) /\ ~contains(l, x) => y = l
             /\ contains(l, x) /\ ~contains(l, y) =>
                     \A z \in Blocks : edge(z, y) => contains(l, z)
  BY <1>1, <1>2, <1>5, <1>9
<1>10. ASSUME NEW l \in Loops
       PROVE  \E preheader, latch \in Blocks :
                  /\ ~contains(l, preheader) /\ contains(l, latch)
                  /\ {x \in Blocks : edge(x, l)} = {preheader, latch}
  <2>1. PICK preheader \in Blocks, latch \in Blocks :
               /\ ~(l <= preheader /\ preheader <= LoopEnd[l]) /\ (l <= latch /\ latch <= LoopEnd[l])
               /\ {x \in Blocks : l \in Range(Succs[x])} = {preheader, latch}
    BY <1>5, Zenon
  <2>2. {x \in Blocks : edge(x, l)} = {x \in Blocks : l \in Range(Succs[x])}
    BY <1>1, <1>6
  <2>3. ~contains(l, preheader) /\ contains(l, latch)
    BY <1>2, <2>1, Zenon
  <2> QED BY <2>1, <2>2, <2>3, Zenon
<1> QED BY <1>7, <1>8, <1>9, <1>10, Zenon

\* A set of numbers has a least one, and a bounded one its greatest.
LEMMA LeastNat ==
  ASSUME NEW T, T \subseteq Nat, T # {}
  PROVE  \E x \in T : \A y \in T : x <= y
<1> DEFINE Seg == {0..x : x \in T}
<1>1. Seg \subseteq FiniteSubsetsOf(Nat)
  <2>1. \A x \in T : IsFiniteSet(0..x) /\ 0..x \subseteq Nat
    BY FS_Interval
  <2> QED BY <2>1 DEF FiniteSubsetsOf
<1>2. Seg # {}
  OBVIOUS
<1>3. IsWellFoundedOn(StrictSubsetOrdering(Nat), FiniteSubsetsOf(Nat))
  BY FS_StrictSubsetOrderingWellFounded
<1> HIDE DEF Seg
<1>4. PICK s \in Seg : \A t \in Seg : ~(<<t, s>> \in StrictSubsetOrdering(Nat))
  BY <1>1, <1>2, <1>3, WFMin
<1> USE DEF Seg
<1>5. PICK x \in T : s = 0..x
  OBVIOUS
<1>6. ASSUME NEW y \in T, y < x
      PROVE  FALSE
  <2>1. 0..y \in Seg
    OBVIOUS
  <2>2. 0..y \subseteq 0..x /\ 0..y # 0..x /\ 0..y \subseteq Nat /\ 0..x \subseteq Nat
    <3>1. x \in 0..x /\ x \notin 0..y /\ x \in Nat /\ y \in Nat
      BY <1>6
    <3> QED BY <3>1, <1>6
  <2>3. <<0..y, s>> \in StrictSubsetOrdering(Nat)
    BY <1>5, <2>2 DEF StrictSubsetOrdering
  <2> QED BY <1>4, <2>1, <2>3
<1> QED BY <1>6

\* A bounded, non-empty set of numbers has a greatest one.
LEMMA GreatestNat ==
  ASSUME NEW n \in Nat, NEW T, T \subseteq 0..n, T # {}
  PROVE  Max(T) \in T /\ \A y \in T : y <= Max(T)
<1> DEFINE Below == {n - x : x \in T}
<1>1. Below \subseteq Nat /\ Below # {}
  OBVIOUS
<1>2. PICK z \in Below : \A y \in Below : z <= y
  <2> HIDE DEF Below
  <2> QED BY <1>1, LeastNat
<1>3. PICK x \in T : z = n - x
  OBVIOUS
<1>4. ASSUME NEW y \in T
      PROVE  x >= y
  <2>1. n - x <= n - y
    BY <1>2, <1>3
  <2> QED BY <2>1
<1>5. Max(T) \in T /\ \A y \in T : Max(T) >= y
  BY <1>4 DEF Max
<1> QED BY <1>5

\* The greatest of 0..n.
LEMMA MaxUpTo ==
  ASSUME NEW n \in Nat
  PROVE  Max(0..n) = n
<1> DEFINE T == 0..n
<1>1. T \subseteq 0..n /\ T # {} /\ n \in T
  OBVIOUS
<1>2. Max(T) \in T /\ \A y \in T : y <= Max(T)
  <2> HIDE DEF T
  <2> QED BY <1>1, GreatestNat
<1> QED BY <1>1, <1>2

\* Loops nest.
LEMMA LoopTree ==
  ASSUME prog \in Programs
  PROVE  /\ \A l, m \in Scopes, b \in {0} \cup Blocks : contains(l, m) /\ contains(m, b) => contains(l, b)
         /\ \A l \in Scopes : contains(l, l)
         /\ \A l, m \in Scopes : contains(l, m) /\ contains(m, l) => l = m
         /\ \A l, m \in Scopes, b \in {0} \cup Blocks :
               contains(l, b) /\ contains(m, b) => contains(l, m) \/ contains(m, l)
         /\ \A l \in Loops : ~contains(l, 0)
         /\ Scopes \subseteq {0} \cup Blocks
<1>1. /\ Loops \subseteq Blocks /\ Blocks \subseteq Nat \ {0}
      /\ \A l \in Loops : LoopEnd[l] \in Nat /\ l <= LoopEnd[l]
  BY Shape
<1>2. \A l, m \in Loops : l <= m /\ m <= LoopEnd[l] => LoopEnd[m] <= LoopEnd[l]
  BY LoopShape, <1>1 DEF contains
<1> QED BY <1>1, <1>2 DEF contains, Scopes

\* Scopes are nested transitively.
LEMMA ScopeTrans ==
  ASSUME prog \in Programs, NEW l \in Scopes, NEW m \in Scopes, NEW k \in Scopes,
         contains(l, m), contains(m, k)
  PROVE  contains(l, k)
BY LoopTree

\* The innermost loop of a block.
LEMMA NaturalScope ==
  ASSUME prog \in Programs, NEW b \in Blocks
  PROVE  /\ naturalScope(b) \in Scopes
         /\ contains(naturalScope(b), b)
         /\ \A m \in Scopes : contains(m, b) => contains(m, naturalScope(b))
<1>1. /\ Loops \subseteq Blocks /\ Blocks \subseteq Nat \ {0} /\ Blocks = 1..Len(Succs) /\ Len(Succs) \in Nat
      /\ \A l \in Loops : LoopEnd[l] \in Nat /\ l <= LoopEnd[l]
  BY Shape DEF Blocks
<1> DEFINE T == {0} \cup {l \in Loops : contains(l, b)}
<1>2. T \subseteq 0..Len(Succs) /\ T # {}
  <2>1. 0 \in 0..Len(Succs) /\ Loops \subseteq 0..Len(Succs)
    BY <1>1
  <2> QED BY <2>1
<1>3. Max(T) \in T /\ \A y \in T : y <= Max(T)
  <2> HIDE DEF T
  <2> QED BY <1>1, <1>2, GreatestNat
<1>4. naturalScope(b) = Max(T)
  BY DEF naturalScope
<1>5. naturalScope(b) \in Scopes /\ contains(naturalScope(b), b)
  BY <1>3, <1>4 DEF Scopes, contains
<1>6. ASSUME NEW m \in Scopes, contains(m, b)
      PROVE  contains(m, naturalScope(b))
  <2>1. m \in T
    BY <1>6 DEF Scopes
  <2>2. m <= naturalScope(b)
    BY <1>3, <1>4, <2>1
  <2>3. contains(m, naturalScope(b)) \/ contains(naturalScope(b), m)
    BY <1>5, <1>6, LoopTree
  <2>4. CASE contains(naturalScope(b), m)
    <3>1. naturalScope(b) = 0 => m = 0
      BY <1>1, <2>2, <2>1
    <3>2. naturalScope(b) # 0 => naturalScope(b) <= m
      BY <2>4 DEF contains
    <3>3. Scopes \subseteq Nat
      BY Shape DEF Scopes
    <3>4. naturalScope(b) \in Nat /\ m \in Nat
      BY <1>5, <3>3, Zenon
    <3>5. m = naturalScope(b)
      BY <2>2, <3>1, <3>2, <3>4
    <3> QED BY <3>5, <1>5, LoopTree
  <2> QED BY <2>3, <2>4
<1> QED BY <1>5, <1>6

\* The innermost loop of a header is its own.
LEMMA HeaderScope ==
  ASSUME prog \in Programs, NEW l \in Loops
  PROVE  naturalScope(l) = l
<1>1. l \in Blocks /\ l \in Scopes /\ contains(l, l)
  BY Shape, LoopTree DEF Scopes
<1>2. contains(l, naturalScope(l)) /\ contains(naturalScope(l), l) /\ naturalScope(l) \in Scopes
  BY <1>1, NaturalScope
<1> QED BY <1>1, <1>2, LoopTree

\* The preheader and the latch are what LoopInfo's getters say.
LEMMA HeaderEdges ==
  ASSUME prog \in Programs, NEW l \in Loops
  PROVE  /\ preheaderIdx(l) \in Blocks /\ ~contains(l, preheaderIdx(l)) /\ edge(preheaderIdx(l), l)
         /\ latchIdx(l) \in Blocks /\ contains(l, latchIdx(l)) /\ edge(latchIdx(l), l)
         /\ \A x \in Blocks : edge(x, l) /\ ~contains(l, x) => x = preheaderIdx(l)
<1>1. PICK preheader \in Blocks, latch \in Blocks :
         /\ ~contains(l, preheader) /\ contains(l, latch)
         /\ {x \in Blocks : edge(x, l)} = {preheader, latch}
  BY LoopShape, Zenon
<1>2. predIdxs(l) = {x \in Blocks : edge(x, l)}
  BY DEF predIdxs, edge
<1>3. preheaderIdx(l) = preheader
  BY <1>1, <1>2 DEF preheaderIdx
<1>4. latchIdx(l) = latch
  BY <1>1, <1>2 DEF latchIdx
<1> QED BY <1>1, <1>3, <1>4

\* A loop is entered by its header only.
LEMMA EnterEdge ==
  ASSUME prog \in Programs, NEW x \in Blocks, NEW y \in Blocks, edge(x, y),
         NEW m \in Scopes, contains(m, y), y # m
  PROVE  contains(m, x)
<1>1. CASE m = 0
  BY <1>1 DEF contains
<1>2. CASE m \in Loops
  BY <1>2, LoopShape
<1> QED BY <1>1, <1>2 DEF Scopes

\* An edge out of a loop goes to a block of a loop around it.
LEMMA LeaveScope ==
  ASSUME prog \in Programs, NEW x \in Blocks, NEW y \in Blocks, edge(x, y),
         NEW k \in Scopes, contains(k, x), ~contains(k, y)
  PROVE  contains(naturalScope(y), k)
<1> DEFINE n == naturalScope(y)
<1>1. n \in Scopes /\ contains(n, y)
  BY NaturalScope
<1>2. k \in Loops /\ k \in {0} \cup Blocks
  BY LoopTree DEF Scopes, contains
<1>3. CASE contains(n, x)
  <2>1. contains(n, k) \/ contains(k, n)
    BY <1>1, <1>3, LoopTree
  <2>2. contains(k, n) => contains(k, y)
    BY <1>1, LoopTree
  <2> QED BY <2>1, <2>2
<1>4. CASE ~contains(n, x)
  <2>1. y = n /\ n \in Loops
    BY <1>1, <1>4, EnterEdge DEF contains, Scopes
  <2>2. latchIdx(n) \in Blocks /\ contains(n, latchIdx(n)) /\ edge(latchIdx(n), y)
    BY <2>1, HeaderEdges
  <2>3. contains(k, latchIdx(n))
    BY <1>2, <2>2, LoopShape
  <2>4. contains(n, k) \/ contains(k, n)
    BY <1>1, <2>2, <2>3, LoopTree
  <2> QED BY <2>1, <2>4
<1> QED BY <1>3, <1>4

\* A block is made in this context, or in one around it whose loop is the block's own.
LEMMA Enclosing ==
  ASSUME prog \in Programs, NEW c, ContextOK(c), NEW x \in Blocks, NEW y \in Blocks, edge(x, y),
         contains(scope(c), x)
  PROVE  LET d == getIAForScope(c, y) IN
         /\ contains(scope(d), y)
         /\ contains(scope(c), y) => d = c
         /\ ~contains(scope(c), y) => scope(d) = naturalScope(y) /\ d # c
         /\ \E n \in 0..Len(c) : d = SubSeq(c, 1, n)
<1>1. c \in Seq(Loops \X Nat) /\ scope(c) \in Scopes
  BY DEF ContextOK, scope, Scopes, Last
<1>2. CASE contains(scope(c), y)
  <2>1. SubSeq(c, 1, Len(c)) = c /\ Len(c) \in 0..Len(c)
    BY <1>1
  <2> QED BY <1>2, <2>1 DEF getIAForScope
<1>3. CASE ~contains(scope(c), y)
  <2>1. contains(naturalScope(y), scope(c)) /\ naturalScope(y) \in Scopes /\ contains(naturalScope(y), y)
    BY <1>1, <1>3, LeaveScope, NaturalScope
  <2>2. PICK n \in 0..Len(c) : scope(SubSeq(c, 1, n)) = naturalScope(y)
    BY <2>1 DEF ContextOK
  <2> DEFINE D == {SubSeq(c, 1, i) : i \in 0..Len(c)}
  <2>3. getIAForScope(c, y) = CHOOSE d \in D : scope(d) = naturalScope(y)
    BY <1>3 DEF getIAForScope
  <2>4. getIAForScope(c, y) \in D /\ scope(getIAForScope(c, y)) = naturalScope(y)
    <3>1. SubSeq(c, 1, n) \in D
      OBVIOUS
    <3> HIDE DEF D
    <3> QED BY <2>2, <2>3, <3>1
  <2> QED BY <1>3, <2>1, <2>4
<1> QED BY <1>2, <1>3

-----------------------------------------------------------------------------
(* Blocks.                                                                  *)

\* From B to B2, of the blocks of the contexts D only references changed.
Keeps(B, B2, D) == \A d \in D, b \in Blocks :
    /\ <<d, b>> \in DOMAIN B2 <=> <<d, b>> \in DOMAIN B
    /\ <<d, b>> \in DOMAIN B => known(B2, <<d, b>>) = known(B, <<d, b>>)

\* Steps that keep what is known of the blocks of some contexts compose.
LEMMA KeepsTrans ==
  ASSUME NEW A, NEW B, NEW B2, NEW D, Keeps(A, B, D), Keeps(B, B2, D)
  PROVE  Keeps(A, B2, D)
BY DEF Keeps

\* What is kept in some contexts is kept in fewer of them.
LEMMA KeepsPart ==
  ASSUME NEW A, NEW B, NEW D, NEW E, Keeps(A, B, D), E \subseteq D
  PROVE  Keeps(A, B, E)
BY DEF Keeps

\* Only references changed.
Rereferenced(B, B2) ==
    /\ WithKeys(B2) /\ DOMAIN B2 = DOMAIN B
    /\ \A k \in DOMAIN B : \E m, n \in Int : B2[k] = [B[k] EXCEPT !.local = m, !.fd = n]

\* Taking and dropping references.
LEMMA RereferencedOK ==
  ASSUME NEW B, NEW B2, NEW C, BlocksOK(B, C), Rereferenced(B, B2)
  PROVE  BlocksOK(B2, C) /\ DOMAIN B2 = DOMAIN B /\ \A D : Keeps(B, B2, D)
<1>1. \A k \in DOMAIN B : B[k] \in BlockType(k[2])
  BY DEF BlocksOK
<1>2. ASSUME NEW k \in DOMAIN B
      PROVE  B2[k] \in BlockType(k[2]) /\ known(B2, k) = known(B, k)
  <2>1. PICK m \in Int, n \in Int : B2[k] = [B[k] EXCEPT !.local = m, !.fd = n]
    BY DEF Rereferenced
  <2>2. B[k] \in BlockType(k[2])
    BY <1>1
  <2> QED BY <2>1, <2>2 DEF BlockType, known
<1>3. DOMAIN B2 = DOMAIN B /\ WithKeys(B2)
  BY DEF Rereferenced
<1>4. BlocksOK(B2, C)
  BY <1>2, <1>3 DEF BlocksOK
<1> QED BY <1>2, <1>3, <1>4 DEF Keeps

\* refStores changes only references.
LEMMA RefStores ==
  ASSUME NEW B, NEW C, BlocksOK(B, C), NEW k, NEW n \in Int
  PROVE  Rereferenced(B, refStores(B, k, n))
<1> DEFINE B2 == refStores(B, k, n)
<1>1. WithKeys(B)
  BY DEF BlocksOK
<1>2. DOMAIN B2 = DOMAIN B /\ WithKeys(B2)
  BY <1>1 DEF refStores, WithKeys
<1>3. ASSUME NEW j \in DOMAIN B
      PROVE  \E p, q \in Int : B2[j] = [B[j] EXCEPT !.local = p, !.fd = q]
  <2>1. B[j] \in BlockType(j[2])
    BY DEF BlocksOK
  <2>2. B[j].local \in Int /\ B[j].fd \in Int /\ B[j] = [B[j] EXCEPT !.local = B[j].local, !.fd = B[j].fd]
    BY <2>1 DEF BlockType
  <2>3. CASE j = k
    <3>1. B2[j] = [B[j] EXCEPT !.local = B[j].local + n, !.fd = B[j].fd + n]
      BY <1>1, <2>1, <2>3 DEF refStores, BlockType
    <3>2. B[j].local + n \in Int /\ B[j].fd + n \in Int
      BY <2>2
    <3> HIDE DEF B2
    <3> QED BY <3>1, <3>2
  <2>4. CASE j # k
    <3>1. B2[j] = B[j]
      BY <2>4 DEF refStores
    <3> QED BY <2>2, <3>1
  <2> QED BY <2>3, <2>4
<1> QED BY <1>2, <1>3 DEF Rereferenced

\* dropReferences changes only references.
LEMMA DropReferences ==
  ASSUME NEW B, NEW C, BlocksOK(B, C), NEW used, \A k \in DOMAIN used : used[k] \in Int
  PROVE  Rereferenced(B, dropReferences(B, used))
<1> DEFINE B2 == dropReferences(B, used)
<1>1. DOMAIN B2 = DOMAIN B /\ WithKeys(B2)
  BY DEF dropReferences, WithKeys
<1>2. ASSUME NEW j \in DOMAIN B
      PROVE  \E p, q \in Int : B2[j] = [B[j] EXCEPT !.local = p, !.fd = q]
  <2>1. B[j] \in BlockType(j[2])
    BY DEF BlocksOK
  <2>2. B[j].local \in Int /\ B[j].fd \in Int /\ B[j] = [B[j] EXCEPT !.local = B[j].local, !.fd = B[j].fd]
    BY <2>1 DEF BlockType
  <2>3. CASE j \in DOMAIN used
    <3>1. B2[j] = [B[j] EXCEPT !.local = B[j].local - used[j], !.fd = B[j].fd - used[j]]
      BY <2>1, <2>3 DEF dropReferences, BlockType
    <3>2. B[j].local - used[j] \in Int /\ B[j].fd - used[j] \in Int
      BY <2>2, <2>3
    <3>3. PICK m \in Int, n \in Int : m = B[j].local - used[j] /\ n = B[j].fd - used[j]
      BY <3>2, Zenon
    <3> HIDE DEF B2
    <3>4. B2[j] = [B[j] EXCEPT !.local = m, !.fd = n]
      BY <3>1, <3>3, Zenon
    <3> QED BY <3>4
  <2>4. CASE j \notin DOMAIN used
    <3>1. B2[j] = B[j]
      BY <2>4 DEF dropReferences
    <3>2. PICK m \in Int, n \in Int : m = B[j].local /\ n = B[j].fd
      BY <2>2, Zenon
    <3> HIDE DEF B2
    <3>3. B2[j] = [B[j] EXCEPT !.local = m, !.fd = n]
      BY <2>2, <3>1, <3>2, Zenon
    <3> QED BY <3>3
  <2> QED BY <2>3, <2>4
<1> QED BY <1>1, <1>2 DEF Rereferenced

\* One block is replaced by another of the same type.
LEMMA SetBlock ==
  ASSUME NEW B, NEW C, BlocksOK(B, C), NEW c, NEW b, NEW x \in BlockType(b), NEW B2,
         WithKeys(B2), DOMAIN B2 = DOMAIN B,
         \A k \in DOMAIN B : k # <<c, b>> => B2[k] = B[k],
         <<c, b>> \in DOMAIN B => B2[<<c, b>>] = x
  PROVE  BlocksOK(B2, C) /\ \A D : c \notin D => Keeps(B, B2, D)
<1>1. \A k \in DOMAIN B : k # <<c, b>> => known(B2, k) = known(B, k)
  BY DEF known
<1>2. ASSUME NEW D, c \notin D
      PROVE  Keeps(B, B2, D)
  BY <1>1, <1>2 DEF Keeps
<1>3. BlocksOK(B2, C)
  BY DEF BlocksOK
<1> QED BY <1>2, <1>3

\* There are finitely many values a store can hold.
LEMMA CellsFinite == IsFiniteSet(Cells)
<1>1. IsFiniteSet({Top}) /\ IsFiniteSet({NoStore}) /\ IsFiniteSet(Values)
  BY FS_Singleton, ValuesAssumption
<1>2. IsFiniteSet({Top} \cup {NoStore})
  BY <1>1, FS_Union
<1>3. IsFiniteSet(Values \cup ({Top} \cup {NoStore}))
  BY <1>1, <1>2, FS_Union
<1>4. Cells = Values \cup ({Top} \cup {NoStore})
  BY DEF Cells
<1> QED BY <1>3, <1>4

\* What a block leaves in the cell, and what is merged into it, is a cell's value.
LEMMA OneCell ==
  ASSUME NEW V, V \subseteq Cells, Cardinality(V) = 1
  PROVE  (CHOOSE v \in V : TRUE) \in V
<1>1. IsFiniteSet(V)
  BY CellsFinite, FS_Subset
<1>2. PICK v : V = {v}
  BY <1>1, FS_Singleton
<1> QED BY <1>2

\* A block's outcome is a value, unknown, or no store.
LEMMA OutcomeType ==
  ASSUME prog \in Programs, NEW b \in Blocks, NEW v
  PROVE  outcome(b, v) \in Cells
<1>1. prog.step \in [DOMAIN prog.fn.succs -> [Values -> Values \cup {Top}]]
  BY ValuesAssumption
<1>2. b \in DOMAIN prog.fn.succs
  BY Shape DEF Succs
<1>3. prog.step[b] \in [Values -> Values \cup {Top}]
  BY <1>1, <1>2
<1>4. Range(prog.step[b]) \subseteq Cells
  BY <1>3 DEF Range, Cells
<1>5. CASE v \in Values
  BY <1>3, <1>5 DEF outcome, Cells
<1>6. CASE v \notin Values /\ Cardinality(Range(prog.step[b])) = 1
  <2>1. (CHOOSE w \in Range(prog.step[b]) : TRUE) \in Range(prog.step[b])
    BY <1>4, <1>6, OneCell
  <2>2. outcome(b, v) = CHOOSE w \in Range(prog.step[b]) : TRUE
    BY <1>6 DEF outcome
  <2> QED BY <1>4, <2>1, <2>2
<1>7. CASE v \notin Values /\ Cardinality(Range(prog.step[b])) # 1
  BY <1>7 DEF outcome, Cells
<1> QED BY <1>5, <1>6, <1>7

\* So is the merge of the stores of some predecessors.
LEMMA MergedType ==
  ASSUME NEW C, BlocksOK(bb, C), NEW ks, ks \subseteq DOMAIN bb
  PROVE  mergedValue(ks) \in Cells
<1> DEFINE vs == {bb[k].store : k \in ks}
<1>1. \A k \in ks : bb[k] \in BlockType(k[2])
  BY DEF BlocksOK
<1>2. vs \subseteq Cells
  BY <1>1 DEF BlockType
<1>3. CASE Cardinality(vs) = 1
  <2>1. (CHOOSE v \in vs : TRUE) \in vs
    <3> HIDE DEF vs
    <3> QED BY <1>2, <1>3, OneCell
  <2>2. mergedValue(ks) = CHOOSE v \in vs : TRUE
    BY <1>3 DEF mergedValue
  <2> QED BY <1>2, <2>1, <2>2
<1>4. CASE Cardinality(vs) # 1
  BY <1>4 DEF mergedValue, Cells
<1> QED BY <1>3, <1>4

\* Stores are taken, and blocks added, without harm to what was there.
LEMMA TakeStores ==
  ASSUME NEW B, NEW C, BlocksOK(B, C), NEW c, NEW b, NEW v \in Cells
  PROVE  /\ BlocksOK(takeStores(B, <<c, b>>, v), C)
         /\ DOMAIN takeStores(B, <<c, b>>, v) = DOMAIN B
         /\ \A D : c \notin D => Keeps(B, takeStores(B, <<c, b>>, v), D)
<1> DEFINE k == <<c, b>>
           B1 == [B EXCEPT ![k].in = v, ![k].store = v]
<1>1. WithKeys(B)
  BY DEF BlocksOK
<1>2. WithKeys(B1) /\ DOMAIN B1 = DOMAIN B
  BY <1>1 DEF WithKeys
<1>3. \A j \in DOMAIN B : j # k => B1[j] = B[j]
  OBVIOUS
<1>4. k \in DOMAIN B => B1[k] = [B[k] EXCEPT !.in = v, !.store = v] /\ B[k] \in BlockType(b)
  BY <1>1 DEF BlocksOK, BlockType
<1>5. k \in DOMAIN B => B1[k] \in BlockType(b)
  BY <1>4 DEF BlockType
<1>6. [alive |-> {}, status |-> "UNKNOWN", in |-> v, store |-> v, result |-> v, local |-> 0, fd |-> 0]
         \in BlockType(b)
  BY DEF BlockType
<1>7. BlocksOK(B1, C) /\ \A D : c \notin D => Keeps(B, B1, D)
  <2> HIDE DEF B1
  <2>1. CASE k \in DOMAIN B
    BY <1>2, <1>3, <1>5, <2>1, SetBlock
  <2>2. CASE k \notin DOMAIN B
    BY <1>2, <1>3, <1>6, <2>2, SetBlock
  <2> QED BY <2>1, <2>2
<1>8. takeStores(B, k, v) = refStores(B1, k, 1)
  BY DEF takeStores
<1> HIDE DEF B1
<1>9. /\ BlocksOK(refStores(B1, k, 1), C) /\ DOMAIN refStores(B1, k, 1) = DOMAIN B1
      /\ \A D : Keeps(B1, refStores(B1, k, 1), D)
  BY <1>7, RefStores, RereferencedOK
<1>10. \A D : c \notin D => Keeps(B, refStores(B1, k, 1), D)
  BY <1>7, <1>9, KeepsTrans
<1> QED BY <1>2, <1>8, <1>9, <1>10

\* What extend is.
LEMMA Extend ==
  ASSUME NEW f, NEW g
  PROVE  extend(f, g) = [x \in DOMAIN f \cup DOMAIN g |-> IF x \in DOMAIN f THEN f[x] ELSE g[x]]
<1> DEFINE joined(p) == [x \in DOMAIN p[1] \cup DOMAIN p[2] |->
                           IF x \in DOMAIN p[1] THEN p[1][x] ELSE p[2][x]]
<1>1. extend(f, g) = CHOOSE h \in {joined(p) : p \in {<<f, g>>}} : TRUE
  BY DEF extend
<1>2. joined(<<f, g>>) = [x \in DOMAIN f \cup DOMAIN g |-> IF x \in DOMAIN f THEN f[x] ELSE g[x]]
  OBVIOUS
<1> HIDE DEF joined
<1>3. {joined(p) : p \in {<<f, g>>}} = {joined(<<f, g>>)}
  OBVIOUS
<1>4. (CHOOSE h \in {joined(<<f, g>>)} : TRUE) = joined(<<f, g>>)
  OBVIOUS
<1> QED BY <1>1, <1>2, <1>3, <1>4

\* New blocks are added; those already made stay as they are.
LEMMA AddBlocks ==
  ASSUME NEW B, NEW C, BlocksOK(B, C), NEW N, WithKeys(N), DOMAIN N \subseteq C \X Blocks,
         \A k \in DOMAIN N : contains(scope(k[1]), k[2]) /\ N[k] \in BlockType(k[2])
  PROVE  /\ BlocksOK(extend(B, N), C) /\ DOMAIN extend(B, N) = DOMAIN B \cup DOMAIN N
         /\ \A D : (\A k \in DOMAIN N : k \notin DOMAIN B => k[1] \notin D) => Keeps(B, extend(B, N), D)
<1>1. extend(B, N) = [k \in (DOMAIN B) \cup (DOMAIN N) |-> IF k \in DOMAIN B THEN B[k] ELSE N[k]]
  BY Extend
<1>2. /\ DOMAIN extend(B, N) = DOMAIN B \cup DOMAIN N /\ WithKeys(extend(B, N))
      /\ \A k \in DOMAIN B : extend(B, N)[k] = B[k]
      /\ \A k \in DOMAIN N : k \notin DOMAIN B => extend(B, N)[k] = N[k]
  BY <1>1 DEF WithKeys
<1>3. BlocksOK(extend(B, N), C)
  BY <1>2 DEF BlocksOK
<1>4. ASSUME NEW D, \A k \in DOMAIN N : k \notin DOMAIN B => k[1] \notin D
      PROVE  Keeps(B, extend(B, N), D)
  <2>1. ASSUME NEW d \in D, NEW b \in Blocks
        PROVE  /\ <<d, b>> \in DOMAIN extend(B, N) <=> <<d, b>> \in DOMAIN B
               /\ <<d, b>> \in DOMAIN B => known(extend(B, N), <<d, b>>) = known(B, <<d, b>>)
    <3>1. <<d, b>> \in DOMAIN N => <<d, b>> \in DOMAIN B
      BY <1>4
    <3> QED BY <1>2, <3>1 DEF known
  <2> QED BY <2>1 DEF Keeps
<1> QED BY <1>2, <1>3, <1>4

\* A new block is well typed.
LEMMA NewBlock ==
  ASSUME NEW b, NEW s \in {"UNKNOWN", "CERTAIN", "ASSUMED"}
  PROVE  newBlock(s) \in BlockType(b)
BY DEF newBlock, BlockType, Cells

\* The edges that checkBlockOutgoingEdges finds live are edges of the block.
LEMMA OutgoingEdges ==
  ASSUME prog \in Programs, NEW b \in Blocks, NEW v
  PROVE  checkBlockOutgoingEdges(b, v) \subseteq DOMAIN Succs[b]
<1>1. Succs[b] \in Seq(Blocks)
  BY Shape
<1>2. isInvoke(b) => Len(Succs[b]) = 2
  <2>1. prog.fn \in {p.fn : p \in Programs}
    OBVIOUS
  <2>2. \A e \in Exceptional : Len(Succs[e[1]]) = 2
    BY <2>1, ShapeAssumption DEF Exceptional, Succs
  <2> QED BY <2>2 DEF isInvoke
<1>3. \A y : copies(b, y) \subseteq DOMAIN Succs[b]
  BY DEF copies
<1>4. CASE isInvoke(b)
  <2>1. 1 \in DOMAIN Succs[b] /\ 2 \in DOMAIN Succs[b]
    BY <1>1, <1>2, <1>4
  <2>2. checkBlockOutgoingEdges(b, v) \subseteq {1} \cup {2}
    BY <1>4 DEF checkBlockOutgoingEdges
  <2> QED BY <2>1, <2>2
<1>5. CASE ~isInvoke(b)
  BY <1>3, <1>5 DEF checkBlockOutgoingEdges
<1> QED BY <1>4, <1>5

\* A block has finitely many edges.
LEMMA EdgesFinite ==
  ASSUME prog \in Programs, NEW b \in Blocks, NEW T, T \subseteq DOMAIN Succs[b]
  PROVE  IsFiniteSet(T) /\ Cardinality(T) \in Nat
<1>1. Succs[b] \in Seq(Blocks)
  BY Shape
<1>2. DOMAIN Succs[b] = 1..Len(Succs[b]) /\ Len(Succs[b]) \in Nat
  BY <1>1
<1>3. IsFiniteSet(1..Len(Succs[b]))
  BY <1>2, FS_Interval
<1> QED BY <1>2, <1>3, FS_Subset, FS_CardinalityType

\* What a block that ran made.
Made(c, b, k) == \E y \in Blocks : edge(b, y) /\ k = <<getIAForScope(c, y), y>>

\* The context and those around it.
Spine(c) == {SubSeq(c, 1, n) : n \in 0..Len(c)}

\* A block is made in the context, or one around it, that it belongs to.
LEMMA MadeInContext ==
  ASSUME prog \in Programs, NEW C, ContextsOK(C), NEW c \in C, NEW b \in Blocks,
         contains(scope(c), b), NEW k, Made(c, b, k)
  PROVE  k \in C \X Blocks /\ contains(scope(k[1]), k[2]) /\ k[1] \in Spine(c)
<1>1. PICK y \in Blocks : edge(b, y) /\ k = <<getIAForScope(c, y), y>>
  BY DEF Made
<1>2. ContextOK(c) /\ \A n \in 0..Len(c) : SubSeq(c, 1, n) \in C
  BY DEF ContextsOK
<1>3. contains(scope(getIAForScope(c, y)), y) /\ \E n \in 0..Len(c) : getIAForScope(c, y) = SubSeq(c, 1, n)
  BY <1>1, <1>2, Enclosing
<1> QED BY <1>1, <1>2, <1>3 DEF Spine

\* Running a block: analyseBlockInstructions.
LEMMA RunBlock ==
  ASSUME prog \in Programs, NEW C, ContextsOK(C), NEW B, BlocksOK(B, C),
         NEW c \in C, NEW b \in Blocks, <<c, b>> \in DOMAIN B, NEW v
  PROVE  LET r == analyseBlockInstructions(B, c, b, v) IN
         /\ BlocksOK(r.bb, C) /\ r.pending \in Int /\ r.changed \in BOOLEAN
         /\ DOMAIN B \subseteq DOMAIN r.bb
         /\ \A k \in DOMAIN r.bb : k \notin DOMAIN B => Made(c, b, k)
         /\ Keeps(B, r.bb, C \ Spine(c))
<1> DEFINE k == <<c, b>>
           stops == bails(b, v)
           out == IF stops THEN NoStore ELSE outcome(b, v)
           now == B[k].alive \cup checkBlockOutgoingEdges(b, v)
           live == {p \in now : ~stops /\ ~edgeBranchesToUnspecialisedCode(b, Succs[b][p])}
           anyChange == now # B[k].alive
           uniqueSucc == Cardinality({Succs[b][p] : p \in now}) = 1
           status(y) == IF B[k].status # "UNKNOWN" /\ uniqueSucc THEN B[k].status
                        ELSE IF <<b, y>> \in AssumeEdges THEN "ASSUMED"
                        ELSE "UNKNOWN"
           created == {<<getIAForScope(c, Succs[b][p]), Succs[b][p]>> : p \in live} \ DOMAIN B
           ran == [B EXCEPT ![k].alive = now, ![k].store = out, ![k].result = out]
           kept == IF b \in Returns /\ ~stops THEN 0 ELSE Cardinality(live) - 1
           N == [j \in IF anyChange THEN created ELSE {} |-> newBlock(status(j[2]))]
           r == analyseBlockInstructions(B, c, b, v)
<1>1. r = [bb |-> extend(refStores(ran, k, kept), N), pending |-> Cardinality(live),
           changed |-> anyChange \/ out # B[k].result]
  BY DEF analyseBlockInstructions
<1>2. B[k] \in BlockType(b) /\ WithKeys(B) /\ contains(scope(c), b)
  BY DEF BlocksOK
<1>3. out \in Cells
  BY OutcomeType DEF Cells
<1>4. now \subseteq DOMAIN Succs[b]
  BY <1>2, OutgoingEdges DEF BlockType
<1>5. live \subseteq DOMAIN Succs[b]
  BY <1>4
<1>6. Cardinality(live) \in Nat /\ kept \in Int
  <2>1. Cardinality(live) \in Nat
    <3> HIDE DEF live
    <3> QED BY <1>5, EdgesFinite
  <2> QED BY <2>1
<1>7. BlocksOK(ran, C) /\ DOMAIN ran = DOMAIN B /\ \A D : c \notin D => Keeps(B, ran, D)
  <2>1. DOMAIN ran = DOMAIN B /\ WithKeys(ran) /\ \A j \in DOMAIN B : j # k => ran[j] = B[j]
    BY <1>2 DEF WithKeys
  <2>2. ran[k] = [B[k] EXCEPT !.alive = now, !.store = out, !.result = out]
    <3> HIDE DEF now, out
    <3> QED BY <1>2 DEF BlockType
  <2>3. ran[k] \in BlockType(b)
    <3> HIDE DEF now, out, ran
    <3> QED BY <1>2, <1>3, <1>4, <2>2 DEF BlockType
  <2> HIDE DEF ran
  <2> QED BY <2>1, <2>3, SetBlock
<1>8. /\ BlocksOK(refStores(ran, k, kept), C) /\ DOMAIN refStores(ran, k, kept) = DOMAIN B
      /\ \A D : Keeps(ran, refStores(ran, k, kept), D)
  <2> HIDE DEF ran, kept
  <2> QED BY <1>6, <1>7, RefStores, RereferencedOK
<1>9. \A D : c \notin D => Keeps(B, refStores(ran, k, kept), D)
  <2> HIDE DEF ran, kept
  <2> QED BY <1>7, <1>8, KeepsTrans
<1>10. \A j \in created : Made(c, b, j)
  <2>1. ASSUME NEW p \in live
        PROVE  Made(c, b, <<getIAForScope(c, Succs[b][p]), Succs[b][p]>>)
    <3>1. p \in DOMAIN Succs[b] /\ Succs[b] \in Seq(Blocks)
      BY <1>5, Shape
    <3>2. Succs[b][p] \in Blocks /\ edge(b, Succs[b][p])
      BY <3>1 DEF edge, copies
    <3> QED BY <3>2 DEF Made
  <2> HIDE DEF live
  <2> QED BY <2>1
<1>11. ASSUME NEW j \in DOMAIN N
       PROVE  Made(c, b, j) /\ N[j] \in BlockType(j[2])
  <2>1. j \in created
    OBVIOUS
  <2>2. status(j[2]) \in {"UNKNOWN", "CERTAIN", "ASSUMED"}
    BY <1>2 DEF BlockType
  <2>3. N[j] = newBlock(status(j[2]))
    OBVIOUS
  <2> HIDE DEF created, status, N
  <2> QED BY <1>10, <2>1, <2>2, <2>3, NewBlock
<1>12. \A j \in DOMAIN N : j \in C \X Blocks /\ contains(scope(j[1]), j[2]) /\ j[1] \in Spine(c)
  <2> HIDE DEF N
  <2> QED BY <1>2, <1>11, MadeInContext
<1>13. WithKeys(N)
  BY DEF WithKeys
<1> DEFINE B2 == refStores(ran, k, kept)
<1>14. /\ BlocksOK(extend(B2, N), C) /\ DOMAIN extend(B2, N) = DOMAIN B \cup DOMAIN N
       /\ \A D : (\A j \in DOMAIN N : j \notin DOMAIN B2 => j[1] \notin D) => Keeps(B2, extend(B2, N), D)
  <2> HIDE DEF B2, N
  <2>1. BlocksOK(B2, C) /\ DOMAIN B2 = DOMAIN B
    BY <1>8 DEF B2
  <2> QED BY <1>11, <1>12, <1>13, <2>1, AddBlocks
<1>15. Keeps(B, extend(B2, N), C \ Spine(c))
  <2> HIDE DEF N
  <2>1. c \in Spine(c)
    <3>1. c \in Seq(Loops \X Nat)
      BY DEF ContextsOK, ContextOK
    <3>2. SubSeq(c, 1, Len(c)) = c /\ Len(c) \in 0..Len(c)
      BY <3>1
    <3> QED BY <3>2 DEF Spine
  <2>2. Keeps(B, B2, C \ Spine(c))
    <3> HIDE DEF ran, kept
    <3> QED BY <1>9, <2>1 DEF B2
  <2> HIDE DEF B2
  <2>3. Keeps(B2, extend(B2, N), C \ Spine(c))
    BY <1>12, <1>14
  <2> QED BY <2>2, <2>3, KeepsTrans
<1>16. r.bb = extend(B2, N) /\ r.pending = Cardinality(live) /\ r.changed \in BOOLEAN
  <2> HIDE DEF B2, N, live, now, out
  <2> QED BY <1>1 DEF B2
<1> HIDE DEF B2, N, live
<1> QED BY <1>6, <1>11, <1>14, <1>15, <1>16

-----------------------------------------------------------------------------
(* Activations.                                                             *)

\* The first n - 1 frames of S, and f.
cut(S, n, f) == Append(SubSeq(S, 1, n - 1), f)

\* The stack with its top replaced, and with a frame pushed.
LEMMA CutFacts ==
  ASSUME NEW F, NEW S \in Seq(F), NEW n \in 1..Len(S), NEW f
  PROVE  /\ Len(cut(S, n, f)) = n /\ cut(S, n, f)[n] = f
         /\ \A i \in 1..(n - 1) : cut(S, n, f)[i] = S[i]
         /\ \A G : F \subseteq G /\ f \in G => cut(S, n, f) \in Seq(G)
<1>1. SubSeq(S, 1, n - 1) \in Seq(F) /\ Len(SubSeq(S, 1, n - 1)) = n - 1
      /\ \A i \in 1..(n - 1) : SubSeq(S, 1, n - 1)[i] = S[i]
  OBVIOUS
<1>2. ASSUME NEW G, F \subseteq G, f \in G
      PROVE  cut(S, n, f) \in Seq(G)
  <2>1. SubSeq(S, 1, n - 1) \in Seq(G)
    BY <1>1, <1>2
  <2> QED BY <1>2, <2>1 DEF cut
<1> QED BY <1>1, <1>2 DEF cut

\* An activation is put on the stack: those below stay in place.
LEMMA PushFacts ==
  ASSUME NEW F, NEW S \in Seq(F), NEW f
  PROVE  /\ Len(Append(S, f)) = Len(S) + 1 /\ Append(S, f)[Len(S) + 1] = f
         /\ \A i \in 1..Len(S) : Append(S, f)[i] = S[i]
         /\ \A G : F \subseteq G /\ f \in G => Append(S, f) \in Seq(G)
<1>1. ASSUME NEW G, F \subseteq G, f \in G
      PROVE  Append(S, f) \in Seq(G)
  <2>1. S \in Seq(G)
    BY <1>1
  <2> QED BY <1>1, <2>1
<1> QED BY <1>1

\* The shape of the stack when its top goes on, and when a frame is pushed on it.
LEMMA ReplacedShape ==
  ASSUME NEW F, NEW S \in Seq(F), StackShape(S), NEW n \in 1..Len(S), NEW f,
         f.c = S[n].c, f.l = S[n].l, f.op = S[n].op \/ (S[n].op = "peel" /\ f.op = "loop")
  PROVE  StackShape(cut(S, n, f))
<1> DEFINE T == cut(S, n, f)
<1>1. /\ Len(T) = n /\ T[n] = f /\ Len(S) \in Nat /\ n \in Nat /\ n <= Len(S) /\ 1 <= n
      /\ \A i \in 1..(n - 1) : T[i] = S[i]
  BY CutFacts
<1> HIDE DEF T
<1>2. T[1].op = "analyse" /\ T[1].c = << >>
  <2>1. CASE n = 1
    <3>1. S[1].op = "analyse" /\ S[1].c = << >>
      BY <1>1 DEF StackShape
    <3> QED BY <1>1, <2>1, <3>1
  <2>2. CASE n # 1
    <3>1. S[1].op = "analyse" /\ S[1].c = << >> /\ 1 \in 1..(n - 1)
      BY <1>1, <2>2 DEF StackShape
    <3> QED BY <1>1, <3>1
  <2> QED BY <2>1, <2>2
<1>3. ASSUME NEW i \in 1..Len(T), T[i].op = "analyse"
      PROVE  T[i].l = scope(T[i].c)
  <2>1. i \in 1..(n - 1) \/ i = n
    BY <1>1
  <2>2. \A k \in 1..Len(S) : S[k].op = "analyse" => S[k].l = scope(S[k].c)
    BY DEF StackShape
  <2> QED BY <1>1, <1>3, <2>1, <2>2
<1>4. ASSUME NEW i \in 2..Len(T)
      PROVE  On(T[i - 1], T[i])
  <2>1. i \in 2..Len(S) /\ i - 1 \in 1..(n - 1) /\ T[i - 1] = S[i - 1]
    BY <1>1
  <2>2. On(S[i - 1], S[i])
    BY <2>1 DEF StackShape
  <2>3. CASE i = n
    BY <1>1, <2>1, <2>2, <2>3 DEF On
  <2>4. CASE i # n
    <3>1. T[i] = S[i]
      BY <1>1, <2>4
    <3> QED BY <2>1, <2>2, <3>1
  <2> QED BY <2>3, <2>4
<1>5. ASSUME NEW i \in 1..Len(T), NEW j \in 1..Len(T), i < j
      PROVE  Over(T[i], T[j])
  <2>1. i \in 1..Len(S) /\ j \in 1..Len(S) /\ i \in 1..(n - 1) /\ T[i] = S[i]
    BY <1>1, <1>5
  <2>2. Over(S[i], S[j])
    BY <1>5, <2>1 DEF StackShape
  <2>3. CASE j = n
    BY <1>1, <2>1, <2>2, <2>3 DEF Over
  <2>4. CASE j # n
    <3>1. T[j] = S[j]
      BY <1>1, <2>4
    <3> QED BY <2>1, <2>2, <3>1
  <2> QED BY <2>3, <2>4
<1> QED BY <1>2, <1>3, <1>4, <1>5 DEF StackShape, T

\* A fitting activation put on a well-shaped stack leaves it well shaped.
LEMMA PushedShape ==
  ASSUME prog \in Programs, NEW C, ContextsOK(C), NEW S \in Seq(Frames(C)), StackShape(S), S # << >>,
         NEW f, f.l \in Scopes, On(S[Len(S)], f), f.op = "analyse" => f.l = scope(f.c)
  PROVE  StackShape(Append(S, f))
<1> DEFINE T == Append(S, f)
           N == Len(S)
<1>1. /\ Len(T) = N + 1 /\ T[N + 1] = f /\ N \in Nat /\ 1 <= N
      /\ \A i \in 1..N : T[i] = S[i]
  BY PushFacts
<1>2. \A i \in 1..N : S[i].l \in Scopes /\ S[i].c \in C
  BY DEF Frames, PlainFrame, LoopFrame
<1>3. \A c \in C : c \in Seq(Loops \X Nat)
  BY DEF ContextsOK, ContextOK
<1> HIDE DEF T, N
<1>4. On(S[N], f) /\ N \in 1..N
  BY <1>1 DEF N
<1>5. T[1].op = "analyse" /\ T[1].c = << >>
  <2>1. S[1].op = "analyse" /\ S[1].c = << >> /\ 1 \in 1..N
    BY <1>1 DEF StackShape
  <2> QED BY <1>1, <2>1
<1>6. ASSUME NEW i \in 1..Len(T), T[i].op = "analyse"
      PROVE  T[i].l = scope(T[i].c)
  <2>1. i \in 1..N \/ i = N + 1
    BY <1>1
  <2>2. \A k \in 1..N : S[k].op = "analyse" => S[k].l = scope(S[k].c)
    BY DEF StackShape, N
  <2> QED BY <1>1, <1>6, <2>1, <2>2
<1>7. ASSUME NEW i \in 2..Len(T)
      PROVE  On(T[i - 1], T[i])
  <2>1. i - 1 \in 1..N /\ T[i - 1] = S[i - 1]
    BY <1>1
  <2>2. CASE i = N + 1
    <3>1. i - 1 = N /\ T[i] = f
      BY <1>1, <2>2
    <3> QED BY <1>4, <2>1, <3>1
  <2>3. CASE i # N + 1
    <3>1. i \in 2..N /\ T[i] = S[i]
      BY <1>1, <2>3
    <3>2. On(S[i - 1], S[i])
      BY <3>1 DEF StackShape, N
    <3> QED BY <2>1, <3>1, <3>2
  <2> QED BY <2>2, <2>3
<1>8. S[N].c \in Seq(Loops \X Nat)
  BY <1>2, <1>3, <1>4
<1>9. Over(S[N], f)
  <2>1. CASE f.op = "analyse"
    <3>1. f.c = Append(S[N].c, <<S[N].l, S[N].i>>)
      BY <1>4, <2>1 DEF On, iteration
    <3>2. Len(f.c) = Len(S[N].c) + 1 /\ Len(S[N].c) \in Nat
      BY <1>8, <3>1
    <3> QED BY <3>2 DEF Over
  <2>2. CASE f.op # "analyse"
    <3>1. f.c = S[N].c /\ contains(S[N].l, f.l)
      BY <1>4, <2>2 DEF On, Child
    <3> QED BY <1>8, <2>2, <3>1 DEF Over
  <2> QED BY <2>1, <2>2
<1>10. ASSUME NEW i \in 1..N
       PROVE  Over(S[i], f)
  <2>1. CASE i = N
    BY <1>9, <2>1
  <2>2. CASE i # N
    <3>1. Over(S[i], S[N])
      <4>1. i < N /\ N \in 1..N
        BY <1>1, <2>2
      <4> QED BY <4>1 DEF StackShape, N
    <3>2. Len(S[i].c) \in Nat /\ Len(S[N].c) \in Nat
      BY <1>2, <1>3, <1>8
    <3>3. f.op = "analyse" => f.c = Append(S[N].c, <<S[N].l, S[N].i>>) /\ Len(f.c) = Len(S[N].c) + 1
      <4>1. f.op = "analyse" => f.c = Append(S[N].c, <<S[N].l, S[N].i>>)
        BY <1>4 DEF On, iteration
      <4> QED BY <1>8, <4>1
    <3>4. CASE f.op = "analyse"
      <4>1. Len(S[i].c) < Len(f.c)
        BY <3>1, <3>2, <3>3, <3>4 DEF Over
      <4> QED BY <3>2, <4>1, <3>3, <3>4 DEF Over
    <3>5. CASE f.op # "analyse"
      <4>1. f.c = S[N].c /\ contains(S[N].l, f.l)
        BY <1>4, <3>5 DEF On, Child
      <4>2. S[i].c = S[N].c => contains(S[i].l, S[N].l)
        BY <3>1 DEF Over
      <4>3. S[i].c = f.c => contains(S[i].l, f.l)
        BY <1>2, <1>4, <4>1, <4>2, ScopeTrans
      <4> QED BY <3>1, <3>5, <4>1, <4>3 DEF Over
    <3> QED BY <3>4, <3>5
  <2> QED BY <2>1, <2>2
<1>11. ASSUME NEW i \in 1..Len(T), NEW j \in 1..Len(T), i < j
       PROVE  Over(T[i], T[j])
  <2>1. i \in 1..N /\ T[i] = S[i]
    BY <1>1, <1>11
  <2>2. CASE j = N + 1
    BY <1>1, <1>10, <2>1, <2>2
  <2>3. CASE j # N + 1
    <3>1. j \in 1..N /\ T[j] = S[j]
      BY <1>1, <2>3
    <3> QED BY <1>11, <2>1, <3>1 DEF StackShape, N
  <2> QED BY <2>2, <2>3
<1> QED BY <1>5, <1>6, <1>7, <1>11 DEF StackShape, T

\* Loops that were entered stay so when blocks are made.
LEMMA AroundGrows ==
  ASSUME NEW K, NEW K2, K \subseteq K2, NEW f, Around(K, f)
  PROVE  Around(K2, f)
BY DEF Around, Entered

\* A context, the loop it is an iteration of, and the contexts around it.
LEMMA ContextFacts ==
  ASSUME NEW C, ContextsOK(C), NEW c \in C
  PROVE  /\ c \in Seq(Loops \X Nat) /\ scope(c) \in Scopes /\ ContextOK(c) /\ c \in Spine(c)
         /\ Spine(c) \subseteq C
<1>1. ContextOK(c) /\ \A n \in 0..Len(c) : SubSeq(c, 1, n) \in C
  BY DEF ContextsOK
<1>2. c \in Seq(Loops \X Nat)
  BY <1>1 DEF ContextOK
<1>3. scope(c) \in Scopes
  BY <1>2 DEF scope, Scopes, Last
<1>4. SubSeq(c, 1, Len(c)) = c /\ Len(c) \in 0..Len(c)
  BY <1>2
<1> QED BY <1>1, <1>2, <1>3, <1>4 DEF Spine

\* A block that ran leaves the walks in order, its own and those below it.
LEMMA MadeReady ==
  ASSUME prog \in Programs, NEW C, ContextsOK(C), NEW K, NEW K2, K \subseteq K2,
         NEW f0, f0.c \in C, f0.l \in Scopes, contains(scope(f0.c), f0.l), Around(K, f0),
         NEW b \in Blocks, naturalScope(b) = f0.l, <<f0.c, b>> \in K,
         \A k \in K2 : k \notin K => Made(f0.c, b, k),
         NEW f, f.l \in Scopes, f.c \in C, contains(scope(f.c), f.l),
         f.c = f0.c => contains(f.l, f0.l), Ready(K, f)
  PROVE  Ready(K2, f)
<1> DEFINE c == f0.c
<1>1. ContextOK(c) /\ scope(c) \in Scopes /\ scope(f.c) \in Scopes
  BY ContextFacts
<1>2. contains(f0.l, b) /\ \A m \in Scopes : contains(m, b) => contains(m, f0.l)
  BY NaturalScope
<1>3. contains(scope(c), b)
  BY <1>1, <1>2, LoopTree
<1>4. ASSUME NEW m \in Inner(f)
      PROVE  m \in Loops /\ m \in Scopes /\ m \in Blocks /\ contains(f.l, m) /\ m # f.l
             /\ contains(scope(f.c), m) /\ m # scope(f.c)
  <2>1. m \in Loops /\ m \in Scopes /\ m \in Blocks /\ contains(f.l, m) /\ m # f.l
    BY Shape DEF Inner, Scopes
  <2>2. contains(scope(f.c), m)
    BY <1>1, <2>1, ScopeTrans
  <2>3. m # scope(f.c)
    BY <1>1, <2>1, LoopTree
  <2> QED BY <2>1, <2>2, <2>3

\* A loop inside f's that b is in was entered.
<1>5. ASSUME NEW m \in Inner(f), f.c = c, contains(m, b)
      PROVE  Entered(K, c, m)
  <2>1. contains(m, f0.l)
    BY <1>2, <1>4, <1>5
  <2> QED BY <1>4, <1>5, <2>1 DEF Around

\* A block of such a loop that b made is in f's own context.
<1>6. ASSUME NEW m \in Inner(f), NEW y \in Blocks, contains(m, y), <<f.c, y>> \in K2, <<f.c, y>> \notin K
      PROVE  f.c = c /\ edge(b, y)
  <2>1. PICK z \in Blocks : edge(b, z) /\ <<f.c, y>> = <<getIAForScope(c, z), z>>
    BY <1>6 DEF Made
  <2>2. edge(b, y) /\ f.c = getIAForScope(c, y)
    BY <2>1
  <2>3. CASE contains(scope(c), y)
    BY <1>1, <1>3, <2>2, <2>3, Enclosing
  <2>4. CASE ~contains(scope(c), y)
    <3>1. scope(f.c) = naturalScope(y)
      BY <1>1, <1>3, <2>2, <2>4, Enclosing
    <3>2. contains(m, scope(f.c))
      BY <1>4, <1>6, <3>1, NaturalScope
    <3>3. m = scope(f.c)
      BY <1>1, <1>4, <3>2, LoopTree
    <3> QED BY <1>4, <3>3
  <2> QED BY <2>2, <2>3, <2>4
<1>7. ASSUME NEW m \in Inner(f), NEW y \in Blocks, from(f) <= y, contains(m, y), <<f.c, y>> \in K2
      PROVE  <<f.c, m>> \in K2
  <2>1. CASE <<f.c, y>> \in K
    BY <1>7, <2>1 DEF Ready
  <2>2. CASE <<f.c, y>> \notin K /\ y = m
    BY <1>7, <2>2
  <2>3. CASE <<f.c, y>> \notin K /\ y # m
    <3>1. f.c = c /\ edge(b, y)
      BY <1>6, <1>7, <2>3
    <3>2. contains(m, b)
      BY <1>4, <1>7, <2>3, <3>1, EnterEdge
    <3>3. Entered(K, c, m)
      BY <1>5, <3>1, <3>2
    <3> QED BY <3>1, <3>3 DEF Entered
  <2> QED BY <2>1, <2>2, <2>3
<1>8. ASSUME NEW m \in Inner(f), from(f) <= m, <<f.c, m>> \in K2
      PROVE  <<f.c, preheaderIdx(m)>> \in K2
  <2>1. CASE <<f.c, m>> \in K
    BY <1>8, <2>1 DEF Ready
  <2>2. CASE <<f.c, m>> \notin K
    <3>1. contains(m, m) /\ m \in Blocks /\ m \in Loops
      BY <1>4, LoopTree
    <3>2. f.c = c /\ edge(b, m)
      BY <1>6, <1>8, <2>2, <3>1
    <3>3. CASE contains(m, b)
      <4>1. Entered(K, c, m)
        BY <1>5, <3>2, <3>3
      <4> QED BY <3>2, <4>1 DEF Entered
    <3>4. CASE ~contains(m, b)
      <4>1. b = preheaderIdx(m)
        BY <3>1, <3>2, <3>4, HeaderEdges
      <4> QED BY <3>2, <4>1
    <3> QED BY <3>3, <3>4
  <2> QED BY <2>1, <2>2
<1> QED BY <1>7, <1>8 DEF Ready

\* A frame when block b of the top frame has run.
LEMMA MadeFrame ==
  ASSUME prog \in Programs, NEW C, ContextsOK(C), NEW K, NEW K2, K \subseteq K2,
         NEW f0, f0.c \in C, f0.l \in Scopes, contains(scope(f0.c), f0.l), Around(K, f0),
         NEW b \in Blocks, naturalScope(b) = f0.l, <<f0.c, b>> \in K,
         \A k \in K2 : k \notin K => Made(f0.c, b, k),
         NEW f, f.l \in Scopes, f.c \in C,
         f.c = f0.c => contains(f.l, f0.l), FrameOK(K, C, f)
  PROVE  FrameOK(K2, C, f)
<1>1. contains(scope(f.c), f.l) /\ Around(K, f) /\ (f.op # "peel" => Ready(K, f) /\ Aligned(f))
      /\ (f.op = "peel" => f.i \in 0..MaxIter /\ Its(C, f.c, f.l) = 0..f.i)
  BY DEF FrameOK
<1>2. Around(K2, f)
  BY <1>1, AroundGrows
<1>3. f.op # "peel" => Ready(K2, f)
  BY <1>1, MadeReady
<1> QED BY <1>1, <1>2, <1>3 DEF FrameOK

\* f2 is the walk f further on.
Further(f, f2) == /\ f2.op = f.op /\ f2.c = f.c /\ f2.l = f.l
                  /\ f.i \in Nat /\ f2.i \in Nat /\ (f.op = "analyse" => f.i <= f2.i)

\* A walk that goes on stays ready; where it goes on is between loops.
LEMMA FurtherReady ==
  ASSUME prog \in Programs, NEW C, NEW K, NEW f, NEW f2, Further(f, f2), f.op # "peel",
         FrameOK(K, C, f), Aligned(f2)
  PROVE  /\ FrameOK(K, C, f2)
         /\ \A l0 : f.op = "analyse" /\ Unexplored(C, f, l0) => Unexplored(C, f2, l0)
<1>1. Inner(f2) = Inner(f) /\ from(f) \in Nat /\ from(f2) \in Nat /\ from(f) <= from(f2) /\ f2.op = f.op
      /\ f2.c = f.c /\ f2.l = f.l
  BY DEF Further, Inner, from
<1>2. Blocks \subseteq Nat /\ Inner(f) \subseteq Nat
  BY Shape DEF Inner
<1>3. Ready(K, f) /\ Around(K, f) /\ contains(scope(f.c), f.l)
  BY DEF FrameOK
<1>4. ASSUME NEW m \in Inner(f)
      PROVE  /\ \A y \in Blocks : from(f2) <= y /\ contains(m, y) /\ <<f.c, y>> \in K => <<f.c, m>> \in K
             /\ from(f2) <= m /\ <<f.c, m>> \in K => <<f.c, preheaderIdx(m)>> \in K
  <2>1. \A y \in Nat : from(f2) <= y => from(f) <= y
    BY <1>1
  <2> QED BY <1>2, <1>3, <2>1 DEF Ready
<1>5. Ready(K, f2)
  BY <1>1, <1>4 DEF Ready
<1>6. Around(K, f2)
  BY <1>1, <1>3 DEF Around
<1>7. FrameOK(K, C, f2)
  BY <1>1, <1>3, <1>5, <1>6 DEF FrameOK
<1>8. ASSUME NEW l0, f.op = "analyse", Unexplored(C, f, l0)
      PROVE  Unexplored(C, f2, l0)
  <2>1. \A m \in Inner(f) : f2.i <= m => f.i <= m
    BY <1>2, <1>8 DEF Further
  <2> QED BY <1>1, <1>8, <2>1 DEF Unexplored
<1> QED BY <1>7, <1>8

\* After block b, and after a loop, the walk is not in the middle of a loop.
LEMMA AlignedAfterBlock ==
  ASSUME prog \in Programs, NEW f, f.l \in Scopes, NEW b \in Blocks, naturalScope(b) = f.l, f.i = b + 1
  PROVE  Aligned(f)
<1>0. f.l <= f.i
  <2>1. contains(f.l, b) /\ b \in Nat /\ f.l \in Nat
    BY NaturalScope, Shape DEF Scopes
  <2>2. f.l <= b
    BY <2>1 DEF contains
  <2> QED BY <2>1, <2>2
<1> SUFFICES ASSUME NEW m \in Inner(f), m < f.i, f.i <= LoopEnd[m]
             PROVE  FALSE
  BY <1>0 DEF Aligned
<1>1. m \in Loops /\ m \in Scopes /\ contains(f.l, m) /\ m # f.l /\ m \in Nat /\ LoopEnd[m] \in Nat /\ b \in Nat
  BY Shape DEF Inner, Scopes
<1>2. contains(m, b)
  BY <1>1 DEF contains
<1>3. contains(m, f.l)
  BY <1>1, <1>2, NaturalScope
<1> QED BY <1>1, <1>3, LoopTree

\* A walk that is past a loop directly inside its own is not in the middle of one.
LEMMA AlignedAfterLoop ==
  ASSUME prog \in Programs, NEW f, f.l \in Scopes, NEW l, Child(f.l, l), f.i = LoopEnd[l] + 1
  PROVE  Aligned(f)
<1>0. f.l <= f.i
  <2>1. contains(f.l, l) /\ l \in Nat /\ f.l \in Nat /\ LoopEnd[l] \in Nat /\ l <= LoopEnd[l]
    BY Shape DEF Scopes, Child
  <2>2. f.l <= l
    BY <2>1 DEF contains
  <2> QED BY <2>1, <2>2
<1> SUFFICES ASSUME NEW m \in Inner(f), m < f.i, f.i <= LoopEnd[m]
             PROVE  FALSE
  BY <1>0 DEF Aligned
<1>1. /\ m \in Loops /\ m \in Scopes /\ contains(f.l, m) /\ m # f.l /\ m \in Nat /\ LoopEnd[m] \in Nat
      /\ l \in Loops /\ l \in Scopes /\ LoopEnd[l] \in Blocks /\ LoopEnd[l] \in Nat /\ l <= LoopEnd[l]
  BY Shape DEF Inner, Scopes, Child
<1>2. contains(m, LoopEnd[l]) /\ contains(l, LoopEnd[l])
  BY <1>1 DEF contains
<1>3. contains(m, l) \/ contains(l, m)
  BY <1>1, <1>2, LoopTree
<1>4. CASE contains(m, l)
  <2>1. m = l \/ contains(m, f.l)
    BY <1>1, <1>4 DEF Child
  <2>2. m # l
    BY <1>1
  <2>3. m = f.l
    BY <1>1, <2>1, <2>2, LoopTree
  <2> QED BY <1>1, <2>3
<1>5. CASE contains(l, m)
  <2>1. LoopEnd[m] <= LoopEnd[l]
    BY <1>1, <1>5, LoopShape
  <2> QED BY <1>1, <2>1
<1> QED BY <1>3, <1>4, <1>5

\* The next block of a walk, when it is a loop's header, is the header of a loop directly inside.
LEMMA NextLoop ==
  ASSUME prog \in Programs, NEW C, NEW K, NEW f, f.l \in Scopes, f.i \in Nat, f.op # "peel", FrameOK(K, C, f),
         NEW l \in Loops, contains(f.l, l), l # f.l, f.i <= l, <<f.c, l>> \in K,
         \A b \in Blocks : f.i <= b /\ contains(f.l, b) /\ <<f.c, b>> \in K => l <= b
  PROVE  Child(f.l, l) /\ Entered(K, f.c, l)
<1>1. l \in Inner(f) /\ l \in Blocks /\ l \in Nat /\ l \in Scopes
  BY Shape DEF Inner, Scopes
<1>2. Ready(K, f) /\ Aligned(f) /\ from(f) <= l
  <2>1. from(f) <= l
    BY <1>1 DEF from
  <2> QED BY <2>1 DEF FrameOK
<1>3. Entered(K, f.c, l)
  BY <1>1, <1>2 DEF Ready, Entered
<1>4. ASSUME NEW m \in Scopes, contains(m, l), m # l, ~contains(m, f.l)
      PROVE  FALSE
  <2>1. contains(f.l, m) \/ contains(m, f.l)
    BY <1>1, <1>4, LoopTree
  <2>2. contains(f.l, m) /\ m # f.l /\ m \in Loops
    BY <1>4, <2>1, LoopTree DEF Scopes, contains
  <2>3. m \in Inner(f) /\ m \in Nat /\ m \in Blocks
    BY <2>2, Shape DEF Inner
  <2>4. m <= l /\ l <= LoopEnd[m] /\ LoopEnd[m] \in Nat
    BY <1>1, <1>4, <2>2, <2>3, Shape DEF contains
  <2>5. <<f.c, m>> \in K
    BY <1>1, <1>2, <1>4, <2>3 DEF Ready
  <2>6. ~(f.i <= m)
    BY <1>1, <1>4, <2>2, <2>3, <2>4, <2>5
  <2> QED BY <1>1, <1>2, <2>3, <2>4, <2>6 DEF Aligned
<1> QED BY <1>3, <1>4 DEF Child

\* The fields of an activation.
LEMMA FrameFields ==
  ASSUME NEW C, NEW f \in Frames(C)
  PROVE  /\ f.op \in {"analyse", "peel", "loop"} /\ f.c \in C /\ f.l \in Scopes /\ f.i \in Nat
         /\ f.changed \in BOOLEAN
BY DEF Frames, PlainFrame, LoopFrame

\* The frame f, gone on to i.
goOn(f, i, ch) == [f EXCEPT !.i = i, !.changed = ch]

\* Going on keeps what the activation is about.
LEMMA GoOnFields ==
  ASSUME NEW C, NEW f \in Frames(C), NEW i \in Nat, NEW ch \in BOOLEAN
  PROVE  LET g == goOn(f, i, ch) IN
         g \in Frames(C) /\ g.op = f.op /\ g.c = f.c /\ g.l = f.l /\ g.i = i
<1>1. CASE f \in PlainFrame(C)
  BY <1>1 DEF Frames, PlainFrame, goOn
<1>2. CASE f \in LoopFrame(C)
  BY <1>2 DEF Frames, LoopFrame, goOn
<1> QED BY <1>1, <1>2 DEF Frames

\* A frame whose context has no new blocks.
LEMMA FrameElsewhere ==
  ASSUME NEW C, NEW K, NEW K2, K \subseteq K2, NEW f, \A y : <<f.c, y>> \in K2 => <<f.c, y>> \in K,
         FrameOK(K, C, f)
  PROVE  FrameOK(K2, C, f)
<1>1. contains(scope(f.c), f.l) /\ Around(K, f) /\ (f.op # "peel" => Ready(K, f) /\ Aligned(f))
      /\ (f.op = "peel" => f.i \in 0..MaxIter /\ Its(C, f.c, f.l) = 0..f.i)
  BY DEF FrameOK
<1>2. Around(K2, f)
  BY <1>1, AroundGrows
<1>3. f.op # "peel" => Ready(K2, f)
  BY <1>1 DEF Ready
<1> QED BY <1>1, <1>2, <1>3 DEF FrameOK

\* The stack is cut back to its n-th frame, which f replaces.
LEMMA StackCut ==
  ASSUME NEW C, NEW K, NEW S \in Seq(Frames(C)), StackShape(S), NEW n \in 1..Len(S), NEW f \in Frames(C),
         f.c = S[n].c, f.l = S[n].l, f.op = S[n].op \/ (S[n].op = "peel" /\ f.op = "loop"),
         \A i \in 1..(n - 1) : FrameAt(S, K, C, i),
         FrameOK(K, C, f), f.op = "analyse" => Unexplored(C, f, 0)
  PROVE  StackOK(cut(S, n, f), K, C)
<1> DEFINE T == cut(S, n, f)
<1>1. /\ Len(T) = n /\ T[n] = f /\ Len(S) \in Nat /\ n \in Nat /\ n <= Len(S) /\ 1 <= n
      /\ \A i \in 1..(n - 1) : T[i] = S[i]
      /\ T \in Seq(Frames(C))
  BY CutFacts
<1>2. StackShape(T)
  BY ReplacedShape
<1> HIDE DEF T
<1>3. ASSUME NEW i \in 1..Len(T)
      PROVE  FrameAt(T, K, C, i)
  <2>1. CASE i = n
    <3>1. above(T, i) = 0 /\ T[i] = f
      BY <1>1, <2>1 DEF above
    <3> QED BY <3>1 DEF FrameAt
  <2>2. CASE i # n
    <3>1. i \in 1..(n - 1) /\ T[i] = S[i] /\ i \in 1..Len(S)
      BY <1>1, <2>2
    <3>2. FrameAt(S, K, C, i)
      BY <3>1
    <3>3. above(T, i) = above(S, i)
      <4>1. CASE i + 1 = n
        BY <1>1, <3>1, <4>1 DEF above
      <4>2. CASE i + 1 # n
        <5>1. T[i + 1] = S[i + 1]
          BY <1>1, <3>1, <4>2
        <5> QED BY <1>1, <3>1, <5>1 DEF above
      <4> QED BY <4>1, <4>2
    <3> QED BY <3>1, <3>2, <3>3 DEF FrameAt
  <2> QED BY <2>1, <2>2
<1> QED BY <1>1, <1>2, <1>3 DEF StackOK, T

\* The activations after block b.
LEMMA AdvancedStack ==
  ASSUME prog \in Programs, NEW C, ContextsOK(C), NEW K, NEW K2, K \subseteq K2,
         NEW S, StackOK(S, K, C), S # << >>, S[Len(S)].op # "peel",
         NEW b \in Blocks, naturalScope(b) = S[Len(S)].l, <<S[Len(S)].c, b>> \in K, S[Len(S)].i <= b,
         \A k \in K2 : k \notin K => Made(S[Len(S)].c, b, k), NEW ch \in BOOLEAN
  PROVE  StackOK(cut(S, Len(S), goOn(S[Len(S)], b + 1, ch)), K2, C)
<1> DEFINE n == Len(S)
           t == S[n]
           f == goOn(t, b + 1, ch)
<1>1. S \in Seq(Frames(C)) /\ n \in 1..Len(S) /\ StackShape(S) /\ \A i \in 1..Len(S) : FrameAt(S, K, C, i)
  BY DEF StackOK
<1>2. t \in Frames(C) /\ FrameOK(K, C, t) /\ (t.op = "analyse" => Unexplored(C, t, 0)) /\ b \in Nat
  <2>1. above(S, n) = 0
    BY DEF above
  <2>2. FrameAt(S, K, C, n) /\ t \in Frames(C)
    BY <1>1
  <2> QED BY <2>1, <2>2, Shape DEF FrameAt
<1>3. t.c \in C /\ t.l \in Scopes /\ t.i \in Nat
  BY <1>2, FrameFields
<1>4. f \in Frames(C) /\ f.op = t.op /\ f.c = t.c /\ f.l = t.l /\ f.i = b + 1
  BY <1>2, GoOnFields
<1> HIDE DEF f
<1>5. Aligned(f)
  BY <1>3, <1>4, AlignedAfterBlock
<1>6. contains(scope(t.c), t.l) /\ Around(K, t)
  BY <1>2 DEF FrameOK
<1>7. Further(t, f)
  BY <1>2, <1>3, <1>4 DEF Further
<1>8. FrameOK(K, C, f) /\ (t.op = "analyse" => Unexplored(C, f, 0))
  BY <1>2, <1>5, <1>7, FurtherReady
<1>9. contains(f.l, t.l)
  BY <1>3, <1>4, LoopTree
<1>10. FrameOK(K2, C, f)
  BY <1>2, <1>3, <1>4, <1>6, <1>8, <1>9, MadeFrame
<1>11. ASSUME NEW i \in 1..(n - 1)
       PROVE  FrameAt(S, K2, C, i)
  <2>1. i \in 1..Len(S) /\ i < n
    BY <1>1
  <2>2. S[i] \in Frames(C) /\ FrameOK(K, C, S[i]) /\ Over(S[i], t)
    BY <1>1, <2>1 DEF FrameAt, StackShape
  <2>3. S[i].l \in Scopes /\ S[i].c \in C
    BY <2>2, FrameFields
  <2>4. S[i].c = t.c => contains(S[i].l, t.l)
    BY <2>2 DEF Over
  <2>5. FrameOK(K2, C, S[i])
    BY <1>3, <1>6, <2>2, <2>3, <2>4, MadeFrame
  <2> QED BY <1>1, <2>1, <2>5 DEF FrameAt
<1>12. f.op = "analyse" => Unexplored(C, f, 0)
  BY <1>4, <1>8
<1> QED BY <1>1, <1>4, <1>10, <1>11, <1>12, StackCut DEF f

-----------------------------------------------------------------------------
(* Iterations.                                                              *)

\* Activations stay well formed when contexts are made.
LEMMA FramesGrow ==
  ASSUME NEW C, NEW C2, C \subseteq C2
  PROVE  Frames(C) \subseteq Frames(C2)
BY DEF Frames, PlainFrame, LoopFrame

\* The frame f is put on the stack.
LEMMA StackPush ==
  ASSUME prog \in Programs, NEW C, ContextsOK(C), NEW K, NEW S \in Seq(Frames(C)), StackShape(S), S # << >>,
         NEW f \in Frames(C), On(S[Len(S)], f), f.op = "analyse" => f.l = scope(f.c),
         \A i \in 1..(Len(S) - 1) : FrameAt(S, K, C, i), FrameOK(K, C, S[Len(S)]),
         S[Len(S)].op = "analyse" => Unexplored(C, S[Len(S)], f.l),
         FrameOK(K, C, f), f.op = "analyse" => Unexplored(C, f, 0)
  PROVE  StackOK(Append(S, f), K, C)
<1> DEFINE T == Append(S, f)
           N == Len(S)
<1>1. /\ Len(T) = N + 1 /\ T[N + 1] = f /\ N \in Nat /\ 1 <= N
      /\ \A i \in 1..N : T[i] = S[i]
      /\ T \in Seq(Frames(C))
  BY PushFacts
<1>2. f.l \in Scopes
  BY FrameFields
<1>3. StackShape(T)
  BY <1>2, PushedShape
<1> HIDE DEF T
<1>4. ASSUME NEW i \in 1..Len(T)
      PROVE  FrameAt(T, K, C, i)
  <2>1. CASE i = N + 1
    <3>1. above(T, i) = 0 /\ T[i] = f
      BY <1>1, <2>1 DEF above
    <3> QED BY <3>1 DEF FrameAt
  <2>2. CASE i = N
    <3>1. above(T, i) = f.l /\ T[i] = S[N]
      BY <1>1, <2>2 DEF above
    <3> QED BY <3>1 DEF FrameAt
  <2>3. CASE i # N + 1 /\ i # N
    <3>1. i \in 1..(N - 1) /\ T[i] = S[i] /\ T[i + 1] = S[i + 1]
      BY <1>1, <2>3
    <3>2. above(T, i) = above(S, i)
      BY <1>1, <3>1 DEF above
    <3>3. FrameAt(S, K, C, i)
      BY <3>1
    <3> QED BY <3>1, <3>2, <3>3 DEF FrameAt
  <2> QED BY <2>1, <2>2, <2>3
<1> QED BY <1>1, <1>3, <1>4 DEF StackOK, T

\* An iteration's context.
LEMMA IterationFacts ==
  ASSUME NEW c, c \in Seq(Loops \X Nat), NEW l \in Loops, NEW i \in Nat
  PROVE  /\ iteration(c, l, i) \in Seq(Loops \X Nat) /\ scope(iteration(c, l, i)) = l
         /\ Len(iteration(c, l, i)) = Len(c) + 1 /\ iteration(c, l, i)[Len(c) + 1] = <<l, i>>
         /\ \A n \in 0..Len(c) : SubSeq(iteration(c, l, i), 1, n) = SubSeq(c, 1, n)
         /\ SubSeq(iteration(c, l, i), 1, Len(c)) = c
<1> DEFINE d == iteration(c, l, i)
<1>1. d = Append(c, <<l, i>>) /\ <<l, i>> \in Loops \X Nat
  BY DEF iteration
<1>2. d \in Seq(Loops \X Nat) /\ Len(d) = Len(c) + 1 /\ d[Len(c) + 1] = <<l, i>> /\ Len(c) \in Nat
      /\ \A n \in 1..Len(c) : d[n] = c[n]
  BY <1>1
<1> HIDE DEF d
<1>3. d # << >> /\ Last(d) = <<l, i>>
  BY <1>2 DEF Last
<1>4. ASSUME NEW n \in 0..Len(c)
      PROVE  SubSeq(d, 1, n) = SubSeq(c, 1, n)
  BY <1>2
<1>5. SubSeq(c, 1, Len(c)) = c /\ Len(c) \in 0..Len(c)
  BY <1>2
<1> QED BY <1>2, <1>3, <1>4, <1>5 DEF scope, d

\* An iteration tells its context, its loop and its number.
LEMMA IterationInverse ==
  ASSUME NEW c, c \in Seq(Loops \X Nat), NEW l, NEW i
  PROVE  Front(iteration(c, l, i)) = c /\ Last(iteration(c, l, i)) = <<l, i>>
<1> DEFINE x == <<l, i>>
           d == Append(c, x)
<1> HIDE DEF x
<1>1. Len(d) = Len(c) + 1 /\ d[Len(c) + 1] = x /\ Len(c) \in Nat /\ \A n \in 1..Len(c) : d[n] = c[n]
  OBVIOUS
<1>2. Last(d) = x
  BY <1>1 DEF Last
<1>3. Front(d) = SubSeq(d, 1, Len(c))
  <2>1. Len(d) - 1 = Len(c)
    BY <1>1
  <2> QED BY <2>1 DEF Front
<1>4. SubSeq(d, 1, Len(c)) = c
  BY <1>1
<1> QED BY <1>2, <1>3, <1>4 DEF iteration, x

\* A new iteration among the contexts.
LEMMA ContextsGrow ==
  ASSUME prog \in Programs, NEW C, ContextsOK(C), NEW c \in C, NEW l, Child(scope(c), l), NEW i \in Nat
  PROVE  ContextsOK(C \cup {iteration(c, l, i)})
<1> DEFINE d == iteration(c, l, i)
<1>1. ContextOK(c) /\ c \in Seq(Loops \X Nat) /\ scope(c) \in Scopes /\ l \in Loops
      /\ \A n \in 0..Len(c) : SubSeq(c, 1, n) \in C
  BY ContextFacts DEF ContextsOK, Child
<1>2. /\ d \in Seq(Loops \X Nat) /\ scope(d) = l /\ Len(d) = Len(c) + 1 /\ Len(c) \in Nat
      /\ \A n \in 0..Len(c) : SubSeq(d, 1, n) = SubSeq(c, 1, n)
  <2>1. Len(c) \in Nat
    BY <1>1
  <2> QED BY <1>1, <2>1, IterationFacts, Zenon
<1>3. SubSeq(d, 1, Len(d)) = d /\ Len(d) \in 0..Len(d)
  BY <1>2
<1> HIDE DEF d
<1>4. ASSUME NEW m \in Scopes, contains(m, scope(d))
      PROVE  \E n \in 0..Len(d) : scope(SubSeq(d, 1, n)) = m
  <2>1. m = l \/ contains(m, scope(c))
    BY <1>2, <1>4 DEF Child
  <2>2. CASE m = l
    BY <1>2, <1>3, <2>2
  <2>3. CASE contains(m, scope(c))
    <3>1. PICK n \in 0..Len(c) : scope(SubSeq(c, 1, n)) = m
      BY <1>1, <2>3 DEF ContextOK
    <3>2. n \in 0..Len(d)
      BY <1>2
    <3> QED BY <1>2, <3>1, <3>2
  <2> QED BY <2>1, <2>2, <2>3
<1>5. ContextOK(d)
  BY <1>2, <1>4 DEF ContextOK
<1>6. ASSUME NEW n \in 0..Len(d)
      PROVE  SubSeq(d, 1, n) \in C \cup {d}
  <2>1. n \in 0..Len(c) \/ n = Len(d)
    BY <1>2
  <2> QED BY <1>1, <1>2, <1>3, <2>1
<1>7. ContextsOK(C \cup {d})
  BY <1>5, <1>6 DEF ContextsOK
<1> QED BY <1>7 DEF d

\* A new iteration is one of its own loop, and of no other.
LEMMA ItsGrow ==
  ASSUME prog \in Programs, NEW C, ContextsOK(C), NEW c \in C, NEW l \in Loops, NEW i \in 0..MaxIter,
         iteration(c, l, i) \notin C
  PROVE  LET d == iteration(c, l, i)
             C2 == C \cup {d}
         IN /\ Its(C2, c, l) = Its(C, c, l) \cup {i}
            /\ \A c2 \in C : \A m : c2 # c \/ m # l => Its(C2, c2, m) = Its(C, c2, m)
            /\ \A m \in Loops : Its(C2, d, m) = {}
<1> DEFINE d == iteration(c, l, i)
           C2 == C \cup {d}
<1>1. \A x \in C : x \in Seq(Loops \X Nat) /\ \A n \in 0..Len(x) : SubSeq(x, 1, n) \in C
  BY DEF ContextsOK, ContextOK
<1>2. i \in Nat /\ MaxIter \in Nat /\ 0..MaxIter \subseteq Nat
  BY ValuesAssumption
<1>3. d \in Seq(Loops \X Nat) /\ Len(d) = Len(c) + 1 /\ Len(c) \in Nat
  <2>1. Len(c) \in Nat /\ c \in Seq(Loops \X Nat)
    BY <1>1
  <2> QED BY <1>2, <2>1, IterationFacts, Zenon
<1>4. Its(C2, c, l) = Its(C, c, l) \cup {i}
  <2>1. ASSUME NEW j \in 0..MaxIter, iteration(c, l, j) = d
        PROVE  j = i
    <3>1. c \in Seq(Loops \X Nat) /\ iteration(c, l, j) = iteration(c, l, i)
      BY <1>1, <2>1
    <3>2. Last(iteration(c, l, j)) = <<l, j>> /\ Last(iteration(c, l, i)) = <<l, i>>
      BY ONLY <3>1, IterationInverse, Zenon
    <3> QED BY <3>1, <3>2
  <2> HIDE DEF d
  <2>2. iteration(c, l, i) = d
    BY DEF d
  <2> QED BY <2>1, <2>2 DEF Its
<1>5. ASSUME NEW c2 \in C, NEW m, c2 # c \/ m # l
      PROVE  Its(C2, c2, m) = Its(C, c2, m)
  <2>1. ASSUME NEW j \in 0..MaxIter, iteration(c2, m, j) = d
        PROVE  FALSE
    <3>1. c \in Seq(Loops \X Nat) /\ c2 \in Seq(Loops \X Nat) /\ iteration(c2, m, j) = iteration(c, l, i)
      BY <1>1, <2>1
    <3>2. Last(iteration(c2, m, j)) = <<m, j>> /\ Last(iteration(c, l, i)) = <<l, i>>
      BY ONLY <3>1, IterationInverse, Zenon
    <3>3. Front(iteration(c2, m, j)) = c2 /\ Front(iteration(c, l, i)) = c
      BY ONLY <3>1, IterationInverse, Zenon
    <3>4. c2 = c /\ m = l
      BY <3>1, <3>2, <3>3
    <3> QED BY <1>5, <3>4
  <2> HIDE DEF d
  <2> QED BY <2>1 DEF Its
<1>6. ASSUME NEW m \in Loops
      PROVE  Its(C2, d, m) = {}
  <2>1. ASSUME NEW j \in 0..MaxIter
        PROVE  iteration(d, m, j) \notin C2
    <3>1. Len(iteration(d, m, j)) = Len(d) + 1 /\ SubSeq(iteration(d, m, j), 1, Len(d)) = d
      BY <1>2, <1>3, IterationFacts
    <3>2. iteration(d, m, j) # d
      BY <1>3, <3>1
    <3>3. iteration(d, m, j) \in C => d \in C
      <4>1. Len(d) \in 0..Len(iteration(d, m, j))
        BY <1>3, <3>1
      <4> QED BY <1>1, <3>1, <4>1
    <3> QED BY <3>2, <3>3
  <2> HIDE DEF d, C2
  <2> QED BY <2>1 DEF Its
<1> QED BY <1>4, <1>5, <1>6

\* ItsGrow, part by part.
LEMMA ItsOf ==
  ASSUME prog \in Programs, NEW C, ContextsOK(C), NEW c \in C, NEW l \in Loops, NEW i \in 0..MaxIter,
         NEW d, d = iteration(c, l, i), d \notin C, NEW C2, C2 = C \cup {d}
  PROVE  /\ Its(C2, c, l) = Its(C, c, l) \cup {i}
         /\ \A c2 \in C : \A m : c2 # c \/ m # l => Its(C2, c2, m) = Its(C, c2, m)
         /\ \A m \in Loops : Its(C2, d, m) = {}
<1> DEFINE e == iteration(c, l, i)
           C3 == C \cup {e}
<1>1. e \notin C
  OBVIOUS
<1>2. Its(C3, c, l) = Its(C, c, l) \cup {i}
  BY <1>1, ItsGrow
<1>3. \A x \in C : \A y : x # c \/ y # l => Its(C3, x, y) = Its(C, x, y)
  BY <1>1, ItsGrow
<1>4. \A m \in Loops : Its(C3, e, m) = {}
  BY <1>1, ItsGrow
<1>5. C3 = C2 /\ e = d
  OBVIOUS
<1> HIDE DEF C3, e
<1> QED BY <1>2, <1>3, <1>4, <1>5

\* A new iteration, d, is made, with its header: what holds of the other frames stays.
LEMMA GrownFrame ==
  ASSUME prog \in Programs, NEW C, ContextsOK(C), NEW c \in C, NEW l \in Loops, NEW i \in 0..MaxIter,
         NEW d, d = iteration(c, l, i), d \notin C, NEW K, NEW f \in Frames(C), FrameOK(K, C, f),
         ~(f.op = "peel" /\ f.c = c /\ f.l = l)
  PROVE  FrameOK(K \cup {<<d, l>>}, C \cup {d}, f)
<1> DEFINE K2 == K \cup {<<d, l>>}
           C2 == C \cup {d}
<1>1. f.c \in C /\ f.c # d
  BY FrameFields
<1>0. C2 = C \cup {d}
  OBVIOUS
<1> HIDE DEF C2
<1>2. \A c2 \in C : \A m : c2 # c \/ m # l => Its(C2, c2, m) = Its(C, c2, m)
  BY <1>0, ItsOf
<1>3. \A y : <<f.c, y>> \in K2 => <<f.c, y>> \in K
  BY <1>1
<1>4. FrameOK(K2, C, f)
  <2> HIDE DEF K2
  <2>1. K \subseteq K2
    BY DEF K2
  <2> QED BY <1>3, <2>1, FrameElsewhere
<1> HIDE DEF K2, C2
<1>5. contains(scope(f.c), f.l) /\ Around(K2, f) /\ (f.op # "peel" => Ready(K2, f) /\ Aligned(f))
      /\ (f.op = "peel" => f.i \in 0..MaxIter /\ Its(C, f.c, f.l) = 0..f.i)
  BY <1>4 DEF FrameOK
<1>6. f.op = "peel" => Its(C2, f.c, f.l) = Its(C, f.c, f.l)
  BY <1>1, <1>2
<1>7. FrameOK(K2, C2, f)
  BY <1>5, <1>6 DEF FrameOK
<1> QED BY <1>7 DEF K2, C2

\* What a new iteration does to what was not explored.
LEMMA GrownUnexplored ==
  ASSUME prog \in Programs, NEW C, ContextsOK(C), NEW c \in C, NEW l \in Loops, NEW i \in 0..MaxIter,
         NEW d, d = iteration(c, l, i), d \notin C, NEW f, f.c \in C, NEW l0, Unexplored(C, f, l0),
         f.c # c \/ l0 = l
  PROVE  Unexplored(C \cup {d}, f, l0)
<1> DEFINE C2 == C \cup {d}
<1>0. C2 = C \cup {d}
  OBVIOUS
<1> HIDE DEF C2
<1>2. \A c2 \in C : \A m : c2 # c \/ m # l => Its(C2, c2, m) = Its(C, c2, m)
  BY <1>0, ItsOf
<1>3. Unexplored(C2, f, l0)
  BY <1>2 DEF Unexplored
<1> QED BY <1>3 DEF C2

\* Loops are numbered by their headers.
LEMMA ScopeNumbers ==
  ASSUME prog \in Programs
  PROVE  (\A m \in Scopes : m \in Nat) /\ \A m \in Loops : m \in Nat /\ m # 0 /\ m \in Scopes
<1>1. \A m \in Loops : m \in Nat /\ m # 0
  BY Shape
<1> QED BY <1>1 DEF Scopes

\* The loops inside a loop come after its header.
LEMMA InnerAfter ==
  ASSUME prog \in Programs, NEW f, f.l \in Scopes, NEW m \in Inner(f)
  PROVE  m \in Loops /\ contains(f.l, m) /\ ~contains(m, f.l) /\ f.l < m /\ m \in Scopes
<1>1. m \in Loops /\ contains(f.l, m) /\ m # f.l /\ m \in Scopes
  BY DEF Inner, Scopes
<1>2. ~contains(m, f.l)
  BY <1>1, LoopTree
<1>3. f.l \in Nat /\ m \in Nat /\ m # 0
  BY <1>1, ScopeNumbers
<1>4. f.l <= m
  BY <1>1, <1>3 DEF contains
<1> QED BY <1>1, <1>2, <1>3, <1>4

\* The activation that analyses the new iteration.
Grown(C, C2, K, K2, c, l, i, d) ==
    /\ ContextsOK(C) /\ c \in C /\ l \in Loops /\ i \in 0..MaxIter
    /\ d = iteration(c, l, i) /\ d \notin C /\ C2 = C \cup {d}
    /\ K \subseteq C \X Blocks /\ K2 = K \cup {<<d, l>>}

FreshFrame(f, K2, C2, d, l) ==
    /\ f \in Frames(C2) /\ f.op = "analyse" /\ f.c = d /\ f.l = l /\ scope(d) = l
    /\ FrameOK(K2, C2, f) /\ Unexplored(C2, f, 0)

\* The new iteration is analysed from its header on.
LEMMA NewIteration ==
  ASSUME prog \in Programs, NEW C, NEW C2, NEW K, NEW K2, NEW c, NEW l, NEW i, NEW d,
         Grown(C, C2, K, K2, c, l, i, d)
  PROVE  FreshFrame(analyseFrame(d, l), K2, C2, d, l)
<1> DEFINE f == analyseFrame(d, l)
<1>0. /\ ContextsOK(C) /\ c \in C /\ l \in Loops /\ i \in 0..MaxIter
      /\ d = iteration(c, l, i) /\ d \notin C /\ C2 = C \cup {d}
      /\ K \subseteq C \X Blocks /\ K2 = K \cup {<<d, l>>}
  BY DEF Grown
<1>1. c \in Seq(Loops \X Nat) /\ i \in Nat /\ l \in Nat /\ l \in Scopes /\ contains(l, l)
  BY <1>0, ContextFacts, ValuesAssumption, Shape, LoopTree DEF Scopes
<1>2. scope(d) = l
  BY <1>0, <1>1, IterationFacts
<1>3. \A m \in Loops : Its(C2, d, m) = {}
  BY <1>0, ItsOf
<1>4. f.op = "analyse" /\ f.c = d /\ f.l = l /\ f.i = l /\ f.changed = FALSE
  BY <1>2 DEF analyseFrame
<1>5. f \in Frames(C2)
  BY <1>0, <1>1, <1>2 DEF analyseFrame, Frames, PlainFrame
<1> HIDE DEF f
<1>6. \A y : <<d, y>> \in K2 => y = l
  BY <1>0
<1>7. \A m \in Inner(f) : m \in Loops /\ ~contains(m, l) /\ l < m /\ m # l
  BY <1>1, <1>4, InnerAfter
<1>8. Around(K2, f)
  <2>1. ASSUME NEW m \in Loops, contains(m, l), contains(l, m)
        PROVE  m = l
    BY <1>1, <2>1, LoopTree DEF Scopes
  <2> QED BY <1>2, <1>4, <2>1 DEF Around
<1>9. Ready(K2, f)
  BY <1>4, <1>6, <1>7 DEF Ready
<1>10. Aligned(f)
  <2>1. \A m \in Inner(f) : ~(m < f.i)
    <3>1. \A m \in Inner(f) : m \in Nat
      BY Shape DEF Inner
    <3> QED BY <1>1, <1>4, <1>7, <3>1
  <2> QED BY <1>1, <1>4, <2>1 DEF Aligned
<1>11. FrameOK(K2, C2, f)
  BY <1>1, <1>2, <1>4, <1>8, <1>9, <1>10 DEF FrameOK
<1>12. Unexplored(C2, f, 0)
  BY <1>0, <1>3, <1>4, <1>7 DEF Unexplored
<1> QED BY <1>2, <1>4, <1>5, <1>11, <1>12 DEF FreshFrame, f

\* The frames below the top one, t, when it makes a new iteration of loop l of its context.
LEMMA LowerFrames ==
  ASSUME NEW C, ContextsOK(C), NEW S \in Seq(Frames(C)), StackShape(S), S # << >>,
         S[Len(S)].op \in {"analyse", "peel"}, NEW n \in 1..(Len(S) - 1)
  PROVE  LET t == S[Len(S)] IN
         \/ S[n].c # t.c
         \/ t.op = "peel" /\ n = Len(S) - 1 /\ S[n].op = "analyse" /\ above(S, n) = t.l
<1> DEFINE N == Len(S)
           t == S[N]
<1>1. N \in Nat /\ n \in Nat /\ 1 <= n /\ n < N /\ n \in 1..N /\ N \in 1..N /\ N \in 2..N
  OBVIOUS
<1>2. Over(S[n], t) /\ On(S[N - 1], t)
  BY <1>1 DEF StackShape
<1>3. \A x, y \in C : Len(x) < Len(y) => x # y
  <2>1. \A x \in C : Len(x) \in Nat
    BY DEF ContextsOK, ContextOK
  <2> QED BY <2>1
<1>6. \A i \in 1..N : S[i].c \in C
  BY FrameFields
<1>4. CASE t.op = "analyse"
  <2>1. Len(S[n].c) < Len(t.c)
    BY <1>2, <1>4 DEF Over
  <2>2. S[n].c # t.c
    BY <1>1, <1>3, <1>6, <2>1
  <2> QED BY <2>2
<1>5. CASE t.op = "peel"
  <2>1. S[N - 1].op = "analyse" /\ S[N - 1].c = t.c
    BY <1>2, <1>5 DEF On
  <2>2. CASE n = N - 1
    <3>1. above(S, n) = t.l
      BY <1>1, <2>2 DEF above
    <3> QED BY <1>5, <2>1, <2>2, <3>1
  <2>3. CASE n # N - 1
    <3>1. n < N - 1 /\ N - 1 \in 1..N
      BY <1>1, <2>3
    <3>2. Over(S[n], S[N - 1])
      BY <1>1, <3>1 DEF StackShape
    <3>3. Len(S[n].c) < Len(S[N - 1].c)
      BY <2>1, <3>2 DEF Over
    <3>4. S[n].c # S[N - 1].c
      BY <1>1, <1>3, <1>6, <3>1, <3>3
    <3> QED BY <2>1, <3>4
  <2> QED BY <2>2, <2>3
<1> QED BY <1>4, <1>5

\* The frames below, when the top frame makes iteration i of loop l in its context.
LEMMA LowerGrow ==
  ASSUME prog \in Programs, NEW C, ContextsOK(C), NEW K, NEW S, StackOK(S, K, C), S # << >>,
         NEW c, NEW l \in Loops, S[Len(S)].c = c,
         S[Len(S)].op = "analyse" \/ (S[Len(S)].op = "peel" /\ S[Len(S)].l = l),
         NEW i \in 0..MaxIter, NEW d, d = iteration(c, l, i), d \notin C
  PROVE  \A n \in 1..(Len(S) - 1) : FrameAt(S, K \cup {<<d, l>>}, C \cup {d}, n)
<1> DEFINE N == Len(S)
           t == S[N]
           K2 == K \cup {<<d, l>>}
           C2 == C \cup {d}
<1>1. S \in Seq(Frames(C)) /\ StackShape(S) /\ (\A n \in 1..N : FrameAt(S, K, C, n)) /\ N \in 1..N
  BY DEF StackOK
<1>2. c \in C
  BY <1>1, FrameFields
<1>3. ASSUME NEW n \in 1..(N - 1)
      PROVE  FrameAt(S, K2, C2, n)
  <2>1. n \in 1..N /\ S[n] \in Frames(C)
    BY <1>1
  <2>2. FrameOK(K, C, S[n]) /\ S[n].c \in C /\ (S[n].op = "analyse" => Unexplored(C, S[n], above(S, n)))
    BY <1>1, <2>1, FrameFields DEF FrameAt
  <2>3. \/ S[n].c # c
        \/ t.op = "peel" /\ S[n].op = "analyse" /\ above(S, n) = l
    <3>1. t.op \in {"analyse", "peel"}
      OBVIOUS
    <3>2. \/ S[n].c # t.c
          \/ t.op = "peel" /\ n = Len(S) - 1 /\ S[n].op = "analyse" /\ above(S, n) = t.l
      BY <1>1, <3>1, LowerFrames
    <3> QED BY <3>2
  <2>4. FrameOK(K2, C2, S[n])
    <3>1. ~(S[n].op = "peel" /\ S[n].c = c /\ S[n].l = l)
      BY <2>3
    <3> QED BY <1>2, <2>1, <2>2, <3>1, GrownFrame
  <2>5. S[n].op = "analyse" => Unexplored(C2, S[n], above(S, n))
    BY <1>2, <2>2, <2>3, GrownUnexplored
  <2> QED BY <2>4, <2>5 DEF FrameAt
<1> QED BY <1>3

\* What surrounds a loop that a frame of the same context is entering.
LEMMA AroundChild ==
  ASSUME prog \in Programs, NEW C, NEW K, NEW g, g.l \in Scopes, FrameOK(K, C, g), scope(g.c) \in Scopes,
         NEW l, Child(g.l, l), Entered(K, g.c, l), NEW f, f.c = g.c, f.l = l
  PROVE  Around(K, f) /\ contains(scope(f.c), f.l)
<1>1. l \in Loops /\ l \in Scopes /\ contains(g.l, l) /\ contains(scope(g.c), g.l) /\ Around(K, g)
  BY DEF Child, Scopes, FrameOK
<1>2. contains(scope(g.c), l)
  BY <1>1, ScopeTrans
<1>3. ASSUME NEW m \in Loops, contains(m, l), contains(scope(g.c), m), m # scope(g.c)
      PROVE  Entered(K, g.c, m)
  <2>1. m = l \/ contains(m, g.l)
    BY <1>3 DEF Child, Scopes
  <2>2. contains(m, g.l) => Entered(K, g.c, m)
    BY <1>1, <1>3 DEF Around
  <2> QED BY <2>1, <2>2
<1> QED BY <1>2, <1>3 DEF Around

\* The blocks of the loop a frame enters, or falls back on, are all still ahead of it.
LEMMA NewLoop ==
  ASSUME prog \in Programs, NEW C, NEW K, NEW g, g.l \in Scopes, FrameOK(K, C, g), g.op # "peel",
         NEW l, Child(g.l, l), from(g) \in Nat, from(g) <= l,
         NEW f, f.op = "loop", f.c = g.c, f.l = l, f.i = 0,
         Around(K, f), contains(scope(f.c), f.l)
  PROVE  FrameOK(K, C, f)
<1>1. l \in Loops /\ l \in Scopes /\ contains(g.l, l) /\ l # g.l /\ Ready(K, g) /\ l \in Nat /\ ~contains(l, g.l)
  BY ScopeNumbers, LoopTree DEF Child, FrameOK
<1>2. ASSUME NEW m \in Inner(f)
      PROVE  m \in Inner(g) /\ l < m /\ m \in Nat /\ m \in Loops /\ contains(l, m)
  <2>1. m \in Loops /\ contains(l, m) /\ l < m /\ m \in Scopes /\ m \in Nat
    BY <1>1, <1>2, InnerAfter, ScopeNumbers
  <2>2. contains(g.l, m)
    BY <1>1, <2>1, ScopeTrans
  <2>3. m # g.l
    BY <1>1, <2>1
  <2> QED BY <2>1, <2>2, <2>3 DEF Inner
<1>3. Ready(K, f)
  <2> SUFFICES ASSUME NEW m \in Inner(f)
               PROVE  /\ \A y \in Blocks : contains(m, y) /\ <<g.c, y>> \in K => <<g.c, m>> \in K
                      /\ <<g.c, m>> \in K => <<g.c, preheaderIdx(m)>> \in K
    BY DEF Ready
  <2>1. m \in Inner(g) /\ l < m /\ m \in Nat /\ m # 0
    BY <1>2, ScopeNumbers
  <2>2. from(g) <= m
    BY <1>1, <2>1
  <2>3. \A y \in Blocks : contains(m, y) => from(g) <= y
    <3>1. \A y \in Blocks : contains(m, y) => m <= y /\ y \in Nat
      BY <2>1, Shape DEF contains
    <3> QED BY <2>1, <2>2, <3>1
  <2> QED BY <1>1, <2>1, <2>2, <2>3 DEF Ready
<1>4. Aligned(f)
  BY <1>2 DEF Aligned
<1> QED BY <1>3, <1>4 DEF FrameOK

\* The next block of frame g is the header of loop l: it has its preheader, and the
\* frame made for the loop stands well on g.
LEMMA EnteredLoop ==
  ASSUME prog \in Programs, NEW C, ContextsOK(C), NEW K, NEW S, StackOK(S, K, C), S # << >>,
         S[Len(S)].op # "peel", NEW l, Child(S[Len(S)].l, l), S[Len(S)].i <= l,
         Entered(K, S[Len(S)].c, l), NEW nested \in BOOLEAN
  PROVE  StackOK(Append(S, loopFrame(S[Len(S)].c, l, nested)), K, C)
<1> DEFINE N == Len(S)
           g == S[N]
           f == loopFrame(g.c, l, nested)
<1>1. S \in Seq(Frames(C)) /\ StackShape(S) /\ (\A n \in 1..N : FrameAt(S, K, C, n)) /\ N \in 1..N
      /\ g \in Frames(C)
  BY DEF StackOK
<1>2. g.c \in C /\ g.l \in Scopes /\ g.i \in Nat /\ scope(g.c) \in Scopes
  <2>1. g.c \in C /\ g.l \in Scopes /\ g.i \in Nat
    BY <1>1, FrameFields
  <2> QED BY <2>1, ContextFacts
<1>3. FrameOK(K, C, g) /\ (g.op = "analyse" => Unexplored(C, g, 0))
  <2>1. above(S, N) = 0
    BY DEF above
  <2> QED BY <1>1, <2>1 DEF FrameAt
<1>4. f \in Frames(C) /\ f.op = "loop" /\ f.c = g.c /\ f.l = l /\ f.i = 0
  BY <1>2 DEF loopFrame, Frames, LoopFrame, Child, Scopes
<1> HIDE DEF f
<1>5. Around(K, f) /\ contains(scope(f.c), f.l)
  BY <1>2, <1>3, <1>4, AroundChild
<1>6. from(g) \in Nat /\ from(g) <= l
  BY <1>2, ScopeNumbers DEF from, Child
<1>7. FrameOK(K, C, f)
  BY <1>2, <1>3, <1>4, <1>5, <1>6, NewLoop
<1>8. On(g, f)
  BY <1>4 DEF On
<1>9. g.op = "analyse" => Unexplored(C, g, f.l)
  BY <1>3, <1>4, ScopeNumbers DEF Unexplored, Inner
<1>10. \A n \in 1..(N - 1) : FrameAt(S, K, C, n)
  BY <1>1
<1>11. f.op # "analyse"
  BY <1>4
<1> HIDE DEF g
<1>12. StackOK(Append(S, f), K, C)
  BY <1>1, <1>3, <1>4, <1>7, <1>8, <1>9, <1>10, <1>11, StackPush DEF g
<1> QED BY <1>12 DEF f, g

\* Pushing the two frames of a loop's exploration: enterPeel.
\* The activation g on top of S is to explore loop l, from iteration d.
Exploring(C, K, S, g, c, l, d) ==
    /\ ContextsOK(C) /\ K \subseteq C \X Blocks /\ StackOK(S, K, C) /\ S # << >>
    /\ g = S[Len(S)] /\ g.op = "analyse" /\ c = g.c /\ Child(g.l, l) /\ g.i <= l
    /\ Entered(K, c, l) /\ d = iteration(c, l, 0)

\* enterPeel's activations.
LEMMA PeelStack ==
  ASSUME prog \in Programs, NEW C, NEW K, NEW S, NEW g, NEW c, NEW l, NEW d,
         Exploring(C, K, S, g, c, l, d)
  PROVE  /\ Its(C, c, l) = {} /\ d \notin C /\ c \in C /\ Child(scope(c), l)
         /\ StackOK(Append(Append(S, peelFrame(c, l, 0)), analyseFrame(d, l)), K \cup {<<d, l>>}, C \cup {d})
<1>0. /\ ContextsOK(C) /\ K \subseteq C \X Blocks /\ StackOK(S, K, C) /\ S # << >>
      /\ g = S[Len(S)] /\ g.op = "analyse" /\ c = g.c /\ Child(g.l, l) /\ g.i <= l
      /\ Entered(K, c, l) /\ d = iteration(c, l, 0)
  BY DEF Exploring
<1> USE <1>0
<1> DEFINE N == Len(S)
           p == peelFrame(c, l, 0)
           a == analyseFrame(d, l)
           K2 == K \cup {<<d, l>>}
           C2 == C \cup {d}
           T == Append(S, p)
<1>1. S \in Seq(Frames(C)) /\ StackShape(S) /\ (\A n \in 1..N : FrameAt(S, K, C, n)) /\ N \in 1..N
      /\ g \in Frames(C)
  BY DEF StackOK
<1>2. c \in C /\ g.l \in Scopes /\ g.i \in Nat /\ scope(c) \in Scopes
  <2>1. g.c \in C /\ g.l \in Scopes /\ g.i \in Nat
    BY <1>1, FrameFields
  <2> QED BY <2>1, ContextFacts
<1>3. FrameOK(K, C, g) /\ Unexplored(C, g, 0)
  <2>1. above(S, N) = 0
    BY DEF above
  <2> QED BY <1>1, <2>1 DEF FrameAt
<1>4. l \in Loops /\ l \in Inner(g) /\ l # 0 /\ l \in Scopes
  BY ScopeNumbers DEF Child, Inner
<1>5. Its(C, c, l) = {}
  BY <1>3, <1>4 DEF Unexplored
<1>6. d \notin C /\ 0 \in 0..MaxIter
  <2>1. 0 \in 0..MaxIter
    BY ValuesAssumption
  <2> QED BY <1>5, <2>1 DEF Its
<1>21. Child(scope(c), l) /\ 0 \in Nat
  <2>1. g.l = scope(c)
    BY <1>1 DEF StackShape
  <2> QED BY <2>1
<1>7. ContextsOK(C2)
  BY <1>2, <1>21, ContextsGrow
<1>8. Its(C2, c, l) = {0}
  <2>1. Its(C2, c, l) = Its(C, c, l) \cup {0}
    <3>1. C2 = C \cup {d}
      OBVIOUS
    <3> HIDE DEF C2
    <3> QED BY <1>2, <1>4, <1>6, <3>1, ItsOf
  <2> QED BY <1>5, <2>1
<1>9. \A n \in 1..(N - 1) : FrameAt(S, K2, C2, n)
  BY <1>4, <1>6, LowerGrow
<1>10. /\ a \in Frames(C2) /\ a.op = "analyse" /\ a.c = d /\ a.l = l /\ scope(d) = l
       /\ FrameOK(K2, C2, a) /\ Unexplored(C2, a, 0)
  <2>1. Grown(C, C2, K, K2, c, l, 0, d)
    BY <1>2, <1>4, <1>6 DEF Grown
  <2> HIDE DEF C2, K2
  <2>2. FreshFrame(analyseFrame(d, l), K2, C2, d, l)
    BY ONLY prog \in Programs, <2>1, NewIteration
  <2> QED BY <2>2 DEF FreshFrame
<1>11. FrameOK(K2, C2, g)
  BY <1>1, <1>2, <1>3, <1>4, <1>6, GrownFrame
<1>12. Unexplored(C2, g, l)
  <2>1. Unexplored(C, g, l)
    BY <1>3, <1>4, ScopeNumbers DEF Unexplored, Inner
  <2> QED BY <1>2, <1>4, <1>6, <2>1, GrownUnexplored
<1>13. p.op = "peel" /\ p.c = c /\ p.l = l /\ p.i = 0 /\ p \in Frames(C2)
  BY <1>2, <1>4 DEF peelFrame, Frames, PlainFrame
<1>14. On(g, p)
  BY <1>13 DEF On
<1> HIDE DEF p, a
<1>15. FrameOK(K2, C2, p)
  <2>1. Entered(K2, c, l)
    BY DEF Entered
  <2>2. Around(K2, p) /\ contains(scope(p.c), p.l)
    BY <1>2, <1>11, <1>13, <2>1, AroundChild
  <2>3. Its(C2, p.c, p.l) = 0..p.i /\ p.i \in 0..MaxIter
    <3>1. 0..0 = {0}
      OBVIOUS
    <3>2. p.i = 0 /\ p.c = c /\ p.l = l
      BY <1>13
    <3> HIDE DEF C2, p
    <3> QED BY <1>6, <1>8, <3>1, <3>2
  <2> QED BY <1>13, <2>2, <2>3 DEF FrameOK
<1>16. S \in Seq(Frames(C2))
  <2>1. Frames(C) \subseteq Frames(C2)
    BY FramesGrow
  <2> HIDE DEF C2
  <2>2. Seq(Frames(C)) \subseteq Seq(Frames(C2))
    BY <2>1
  <2> QED BY <1>1, <2>2
<1>17. StackOK(T, K2, C2)
  <2>1. p.op # "analyse" /\ Unexplored(C2, g, p.l)
    BY <1>12, <1>13
  <2> HIDE DEF K2, C2
  <2> QED BY <1>1, <1>7, <1>9, <1>11, <1>13, <1>14, <1>15, <1>16, <2>1, StackPush
<1>18. T \in Seq(Frames(C2)) /\ StackShape(T) /\ Len(T) = N + 1 /\ T[N + 1] = p /\ T # << >>
       /\ N \in Nat /\ \A n \in 1..Len(T) : FrameAt(T, K2, C2, n)
  <2>1. Len(T) = N + 1 /\ T[N + 1] = p /\ N \in Nat
    BY <1>1, PushFacts
  <2> HIDE DEF T, K2, C2, N
  <2>2. T # << >>
    BY <2>1
  <2> QED BY <1>17, <2>1, <2>2 DEF StackOK
<1>19. On(p, a)
  BY <1>10, <1>13 DEF On
<1> HIDE DEF T
<1>20. StackOK(Append(T, a), K2, C2)
  <2>1. T[Len(T)] = p /\ FrameAt(T, K2, C2, Len(T)) /\ \A n \in 1..(Len(T) - 1) : FrameAt(T, K2, C2, n)
    <3> HIDE DEF K2, C2, p, N
    <3> QED BY <1>18
  <2>2. p.op # "analyse" /\ a.l = scope(a.c)
    BY <1>10, <1>13
  <2> HIDE DEF K2, C2
  <2> QED BY <1>7, <1>10, <1>15, <1>18, <1>19, <2>1, <2>2, StackPush
<1> QED BY <1>2, <1>5, <1>6, <1>20, <1>21 DEF T, p, a

\* Going on to the next iteration: nextIteration.
\* The exploration t on top of S is to begin iteration d, which makes it f.
GoingRound(C, K, S, t, f, c, l, i, d) ==
    /\ ContextsOK(C) /\ K \subseteq C \X Blocks /\ StackOK(S, K, C) /\ S # << >>
    /\ t = S[Len(S)] /\ t.op = "peel" /\ t.i < MaxIter /\ f = [t EXCEPT !.i = @ + 1]
    /\ c = t.c /\ l = t.l /\ i = t.i /\ d = iteration(c, l, i + 1)

\* nextIteration's activations.
LEMMA NextStack ==
  ASSUME prog \in Programs, NEW C, NEW K, NEW S, NEW t, NEW f, NEW c, NEW l, NEW i, NEW d,
         GoingRound(C, K, S, t, f, c, l, i, d)
  PROVE  /\ i \in Nat /\ i + 1 \in 0..MaxIter /\ Its(C, c, l) = 0..i /\ d \notin C /\ c \in C /\ Child(scope(c), l)
         /\ StackOK(Append(cut(S, Len(S), f), analyseFrame(d, l)), K \cup {<<d, l>>}, C \cup {d})
<1>0. /\ ContextsOK(C) /\ K \subseteq C \X Blocks /\ StackOK(S, K, C) /\ S # << >>
      /\ t = S[Len(S)] /\ t.op = "peel" /\ t.i < MaxIter /\ f = [t EXCEPT !.i = @ + 1]
      /\ c = t.c /\ l = t.l /\ i = t.i /\ d = iteration(c, l, i + 1)
  BY DEF GoingRound
<1> USE <1>0
<1> DEFINE N == Len(S)
           a == analyseFrame(d, l)
           K2 == K \cup {<<d, l>>}
           C2 == C \cup {d}
           T == cut(S, N, f)
<1>1. S \in Seq(Frames(C)) /\ StackShape(S) /\ (\A n \in 1..N : FrameAt(S, K, C, n)) /\ N \in 1..N
      /\ t \in Frames(C)
  BY DEF StackOK
<1>2. c \in C /\ l \in Scopes /\ i \in Nat /\ scope(c) \in Scopes
  <2>1. t.c \in C /\ t.l \in Scopes /\ t.i \in Nat
    BY <1>1, FrameFields
  <2> QED BY <2>1, ContextFacts
<1>3. FrameOK(K, C, t)
  BY <1>1 DEF FrameAt
<1>4. i \in 0..MaxIter /\ Its(C, c, l) = 0..i /\ Around(K, t) /\ contains(scope(c), l)
  BY <1>3 DEF FrameOK
<1>5. i + 1 \in 0..MaxIter /\ i + 1 \notin 0..i /\ MaxIter \in Nat
  BY <1>2, ValuesAssumption
<1>6. d \notin C
  BY <1>4, <1>5 DEF Its
<1>7. Child(scope(c), l) /\ l \in Loops
  <2>1. N \in 2..N
    <3>1. S[1].op = "analyse" /\ N \in Nat
      BY <1>1 DEF StackShape
    <3>2. N # 1
      BY <3>1
    <3> QED BY <1>1, <3>1, <3>2
  <2>2. On(S[N - 1], t) /\ N - 1 \in 1..N
    BY <1>1, <2>1 DEF StackShape
  <2>3. S[N - 1].op = "analyse" /\ S[N - 1].c = c /\ Child(S[N - 1].l, l)
    BY <2>2 DEF On
  <2>4. S[N - 1].l = scope(c)
    BY <1>1, <2>2, <2>3 DEF StackShape
  <2> QED BY <2>3, <2>4 DEF Child
<1>8. ContextsOK(C2)
  <2>1. i + 1 \in Nat
    BY <1>2
  <2> QED BY <1>2, <1>7, <2>1, ContextsGrow
<1>9. Its(C2, c, l) = 0..(i + 1)
  <2>1. Its(C2, c, l) = Its(C, c, l) \cup {i + 1}
    <3>1. C2 = C \cup {d}
      OBVIOUS
    <3> HIDE DEF C2
    <3> QED BY <1>2, <1>5, <1>6, <1>7, <3>1, ItsOf
  <2>2. (0..i) \cup {i + 1} = 0..(i + 1)
    BY <1>2
  <2> HIDE DEF C2
  <2> QED BY <1>4, <2>1, <2>2
<1>10. \A n \in 1..(N - 1) : FrameAt(S, K2, C2, n)
  BY <1>5, <1>6, <1>7, LowerGrow
<1>11. /\ a \in Frames(C2) /\ a.op = "analyse" /\ a.c = d /\ a.l = l /\ scope(d) = l
       /\ FrameOK(K2, C2, a) /\ Unexplored(C2, a, 0)
  <2>1. Grown(C, C2, K, K2, c, l, i + 1, d)
    BY <1>2, <1>5, <1>6, <1>7 DEF Grown
  <2> HIDE DEF C2, K2
  <2>2. FreshFrame(analyseFrame(d, l), K2, C2, d, l)
    BY ONLY prog \in Programs, <2>1, NewIteration
  <2> QED BY <2>2 DEF FreshFrame
<1>12. f.op = "peel" /\ f.c = c /\ f.l = l /\ f.i = i + 1 /\ f \in Frames(C)
  <2>1. /\ t \in PlainFrame(C) \cup LoopFrame(C) /\ t.op = "peel"
        /\ f = [t EXCEPT !.i = @ + 1] /\ c = t.c /\ l = t.l /\ i = t.i /\ i \in Nat
    BY <1>1, <1>2 DEF Frames
  <2>2. t \in PlainFrame(C)
    BY ONLY <2>1 DEF PlainFrame, LoopFrame
  <2> QED BY ONLY <2>1, <2>2 DEF Frames, PlainFrame
<1>13. Frames(C) \subseteq Frames(C2)
  BY FramesGrow
<1>14. S \in Seq(Frames(C2)) /\ f \in Frames(C2)
  <2> HIDE DEF C2
  <2>1. Seq(Frames(C)) \subseteq Seq(Frames(C2))
    BY <1>13
  <2> QED BY <1>1, <1>12, <1>13, <2>1
<1>15. FrameOK(K2, C2, f)
  <2>1. Around(K2, t)
    BY <1>4, AroundGrows
  <2>2. Around(K2, f)
    BY <1>12, <2>1 DEF Around
  <2> QED BY <1>4, <1>5, <1>9, <1>12, <2>2 DEF FrameOK
<1> HIDE DEF a
<1>16. StackOK(T, K2, C2)
  <2>1. f.c = S[N].c /\ f.l = S[N].l /\ f.op = S[N].op /\ f.op # "analyse"
    BY <1>12
  <2> HIDE DEF K2, C2
  <2> QED BY <1>1, <1>10, <1>14, <1>15, <2>1, StackCut
<1>17. T \in Seq(Frames(C2)) /\ StackShape(T) /\ Len(T) = N /\ T[N] = f /\ T # << >>
       /\ \A n \in 1..Len(T) : FrameAt(T, K2, C2, n)
  <2>1. Len(T) = N /\ T[N] = f
    BY <1>1, CutFacts
  <2>2. N \in Nat /\ 1 <= N
    BY <1>1
  <2> HIDE DEF T, K2, C2, N
  <2>3. T # << >>
    BY <2>1, <2>2
  <2> QED BY <1>16, <2>1, <2>3 DEF StackOK
<1>18. On(f, a)
  BY <1>11, <1>12 DEF On
<1> HIDE DEF T
<1>19. StackOK(Append(T, a), K2, C2)
  <2>1. T[Len(T)] = f /\ FrameAt(T, K2, C2, Len(T)) /\ \A n \in 1..(Len(T) - 1) : FrameAt(T, K2, C2, n)
    <3>1. N \in 1..N /\ \A x \in 1..(N - 1) : x \in 1..N
      BY <1>1
    <3> HIDE DEF K2, C2, N
    <3> QED BY <1>17, <3>1
  <2>2. f.op # "analyse" /\ a.l = scope(a.c) /\ a.l \in Scopes
    BY <1>2, <1>11, <1>12
  <2> HIDE DEF K2, C2
  <2> QED BY <1>8, <1>11, <1>15, <1>17, <1>18, <2>1, <2>2, StackPush
<1> QED BY <1>2, <1>4, <1>5, <1>6, <1>7, <1>19 DEF T, a

\* What the top frame knows of the one below.
LEMMA FrameBelow ==
  ASSUME prog \in Programs, NEW C, ContextsOK(C), NEW K, NEW S, StackOK(S, K, C), S # << >>,
         NEW t, t = S[Len(S)], t.op # "analyse", NEW g, g = S[Len(S) - 1]
  PROVE  /\ Len(S) - 1 \in 1..Len(S) /\ t \in Frames(C) /\ g \in Frames(C) /\ g.op # "peel"
         /\ (t.op = "peel" => g.op = "analyse")
         /\ t.c = g.c /\ Child(g.l, t.l) /\ g.i <= t.l
         /\ t.c \in C /\ g.l \in Scopes /\ g.i \in Nat
         /\ FrameOK(K, C, g) /\ FrameOK(K, C, t)
         /\ g.op = "analyse" => Unexplored(C, g, t.l)
<1> DEFINE N == Len(S)
<1>1. S \in Seq(Frames(C)) /\ StackShape(S) /\ (\A n \in 1..N : FrameAt(S, K, C, n)) /\ N \in 1..N /\ N \in Nat
  BY DEF StackOK
<1>2. N \in 2..N /\ N - 1 \in 1..N /\ N - 1 < N
  <2>1. S[1].op = "analyse"
    BY <1>1 DEF StackShape
  <2>2. N # 1
    BY <2>1
  <2>3. N \in Nat /\ 1 <= N
    BY <1>1
  <2> HIDE DEF N
  <2> QED BY <2>2, <2>3
<1>3. On(g, t) /\ g \in Frames(C) /\ t \in Frames(C) /\ FrameAt(S, K, C, N) /\ FrameAt(S, K, C, N - 1)
  BY <1>1, <1>2 DEF StackShape
<1>4. above(S, N - 1) = t.l
  BY <1>1, <1>2 DEF above
<1>5. t.c \in C /\ g.l \in Scopes /\ g.i \in Nat /\ g.op \in {"analyse", "peel", "loop"}
  BY <1>3, FrameFields
<1>6. g.op # "peel" /\ (t.op = "peel" => g.op = "analyse") /\ t.c = g.c /\ Child(g.l, t.l) /\ g.i <= t.l
  BY <1>3 DEF On
<1> QED BY <1>2, <1>3, <1>4, <1>5, <1>6 DEF FrameAt

\* The loop at the top is done and the frame below goes on after it.  New blocks are
\* copies of the loop's own.
\* The activation t on top of S has done its loop and g below it is to go on; if t was an
\* exploration, blocks of the loop may have been made.
Leaving(C, K, K2, S, t, g) ==
    /\ ContextsOK(C) /\ K \subseteq K2 /\ StackOK(S, K, C) /\ S # << >>
    /\ t = S[Len(S)] /\ t.op # "analyse" /\ g = S[Len(S) - 1]
    /\ \/ K2 = K
       \/ t.op = "peel" /\ \A k \in K2 : k \notin K => \E x \in Blocks : contains(t.l, x) /\ k = <<t.c, x>>

\* endPeel's and endLoop's activations.
LEMMA AfterLoop ==
  ASSUME prog \in Programs, NEW C, NEW K, NEW K2, NEW S, NEW t, NEW g, Leaving(C, K, K2, S, t, g),
         NEW ch \in BOOLEAN
  PROVE  StackOK(cut(S, Len(S) - 1, goOn(g, LoopEnd[t.l] + 1, ch)), K2, C)
<1>0. /\ ContextsOK(C) /\ K \subseteq K2 /\ StackOK(S, K, C) /\ S # << >>
      /\ t = S[Len(S)] /\ t.op # "analyse" /\ g = S[Len(S) - 1]
      /\ \/ K2 = K
         \/ t.op = "peel" /\ \A k \in K2 : k \notin K => \E x \in Blocks : contains(t.l, x) /\ k = <<t.c, x>>
  BY DEF Leaving
<1> USE <1>0
<1> DEFINE N == Len(S)
           n == N - 1
           e == LoopEnd[t.l] + 1
           f == goOn(g, e, ch)
<1>1. S \in Seq(Frames(C)) /\ StackShape(S) /\ (\A m \in 1..N : FrameAt(S, K, C, m)) /\ N \in 1..N /\ N \in Nat
  BY DEF StackOK
<1>2. /\ n \in 1..N /\ t \in Frames(C) /\ g \in Frames(C) /\ g.op # "peel"
      /\ (t.op = "peel" => g.op = "analyse")
      /\ t.c = g.c /\ Child(g.l, t.l) /\ g.i <= t.l
      /\ t.c \in C /\ g.l \in Scopes /\ g.i \in Nat
      /\ FrameOK(K, C, g) /\ FrameOK(K, C, t)
      /\ g.op = "analyse" => Unexplored(C, g, t.l)
  <2> HIDE DEF n
  <2> QED BY FrameBelow DEF n
<1>3. t.l \in Loops /\ LoopEnd[t.l] \in Nat /\ t.l \in Nat /\ t.l <= LoopEnd[t.l] /\ e \in Nat /\ t.l < e /\ t.l # 0
  <2>1. t.l \in Loops
    BY <1>2 DEF Child
  <2>2. LoopEnd[t.l] \in Nat /\ t.l \in Nat /\ t.l <= LoopEnd[t.l] /\ t.l # 0
    BY <2>1, Shape
  <2> QED BY <2>1, <2>2
<1>4. f \in Frames(C) /\ f.op = g.op /\ f.c = g.c /\ f.l = g.l /\ f.i = e
  <2>1. g \in Frames(C) /\ e \in Nat /\ ch \in BOOLEAN
    BY <1>2, <1>3
  <2> HIDE DEF e
  <2> QED BY ONLY <2>1, GoOnFields
<1> HIDE DEF f
<1>5. Aligned(f)
  BY <1>2, <1>4, AlignedAfterLoop
<1>6. FrameOK(K, C, f) /\ (g.op = "analyse" => Unexplored(C, f, t.l))
  <2>1. Further(g, f)
    BY <1>2, <1>3, <1>4 DEF Further
  <2> QED BY <1>2, <1>5, <2>1, FurtherReady
<1>7. FrameOK(K2, C, f)
  <2>1. CASE K2 = K
    BY <1>6, <2>1
  <2>2. CASE t.op = "peel" /\ \A k \in K2 : k \notin K => \E x \in Blocks : contains(t.l, x) /\ k = <<t.c, x>>
    <3>1. g.op = "analyse" /\ f.op = "analyse" /\ from(f) = e
      BY <1>2, <1>4, <2>2 DEF from
    <3>2. contains(scope(f.c), f.l) /\ Around(K, f) /\ Ready(K, f)
      BY <1>6, <3>1 DEF FrameOK
    <3>3. ASSUME NEW y \in Blocks, e <= y, <<f.c, y>> \in K2
          PROVE  <<f.c, y>> \in K
      <4>1. SUFFICES ASSUME <<f.c, y>> \notin K
                     PROVE  FALSE
        OBVIOUS
      <4>2. PICK x \in Blocks : contains(t.l, x) /\ <<f.c, y>> = <<t.c, x>>
        BY <2>2, <3>3, <4>1
      <4>3. x = y /\ y <= LoopEnd[t.l] /\ y \in Nat
        BY <1>3, <4>2, Shape DEF contains
      <4> QED BY <1>3, <3>3, <4>3
    <3>4. \A m \in Inner(f) : m \in Blocks
      BY Shape DEF Inner
    <3>5. Ready(K2, f)
      BY <3>1, <3>2, <3>3, <3>4 DEF Ready
    <3>6. Around(K2, f)
      BY <3>2, AroundGrows
    <3> QED BY <1>5, <3>1, <3>2, <3>5, <3>6 DEF FrameOK
  <2> QED BY <2>1, <2>2
<1>8. f.op = "analyse" => Unexplored(C, f, 0)
  <2> SUFFICES ASSUME f.op = "analyse", NEW m \in Inner(f), f.i <= m
               PROVE  Its(C, f.c, m) = {}
    BY DEF Unexplored
  <2>1. m # t.l
    BY <1>3, <1>4
  <2> QED BY <1>4, <1>6, <2>1 DEF Unexplored
<1>9. \A m \in 1..(n - 1) : FrameAt(S, K2, C, m)
  <2> SUFFICES ASSUME NEW m \in 1..(n - 1)
               PROVE  FrameAt(S, K2, C, m)
    OBVIOUS
  <2>1. m \in 1..N /\ m \in 1..(N - 1) /\ m # N - 1 /\ FrameAt(S, K, C, m)
    BY <1>1, <1>2
  <2>2. CASE K2 = K
    BY <2>1, <2>2
  <2>3. CASE t.op = "peel" /\ \A k \in K2 : k \notin K => \E x \in Blocks : contains(t.l, x) /\ k = <<t.c, x>>
    <3>1. S[m].c # t.c
      <4>1. t.op \in {"analyse", "peel"}
        BY <2>3
      <4>2. \/ S[m].c # t.c
            \/ t.op = "peel" /\ m = Len(S) - 1 /\ S[m].op = "analyse" /\ above(S, m) = t.l
        <5> HIDE DEF N
        <5> QED BY <1>1, <2>1, <4>1, LowerFrames DEF N
      <4> QED BY <2>1, <4>2
    <3>2. \A y : <<S[m].c, y>> \in K2 => <<S[m].c, y>> \in K
      BY <2>3, <3>1
    <3>3. FrameOK(K2, C, S[m])
      BY <2>1, <3>2, FrameElsewhere DEF FrameAt
    <3> QED BY <2>1, <3>3 DEF FrameAt
  <2> QED BY <2>2, <2>3
<1>10. f.c = S[n].c /\ f.l = S[n].l /\ f.op = S[n].op
  BY <1>4
<1> HIDE DEF n
<1>11. StackOK(cut(S, n, f), K2, C)
  BY <1>1, <1>2, <1>4, <1>7, <1>8, <1>9, <1>10, StackCut
<1> QED BY <1>11 DEF n, f

\* A context's activation ends: endContext.
LEMMA EndedContext ==
  ASSUME prog \in Programs, NEW C, ContextsOK(C), NEW K, NEW S, StackOK(S, K, C), S # << >>,
         NEW t, t = S[Len(S)], t.op = "analyse", Len(S) > 1
  PROVE  StackOK(Front(S), K, C) /\ \A n \in 1..Len(Front(S)) : n \in 1..Len(S) /\ Front(S)[n] = S[n]
<1> DEFINE N == Len(S)
           n == N - 1
           g == S[n]
           T == cut(S, n, g)
<1>1. S \in Seq(Frames(C)) /\ StackShape(S) /\ (\A m \in 1..N : FrameAt(S, K, C, m)) /\ N \in 1..N /\ N \in Nat
  BY DEF StackOK
<1>2. n \in 1..N /\ N \in 2..N /\ n \in Nat
  BY <1>1
<1>3. On(g, t) /\ g \in Frames(C) /\ FrameAt(S, K, C, n)
  BY <1>1, <1>2 DEF StackShape
<1>4. g.op = "peel" /\ FrameOK(K, C, g)
  BY <1>3 DEF On, FrameAt
<1>5. \A m \in 1..(n - 1) : FrameAt(S, K, C, m)
  BY <1>1, <1>2
<1>6. StackOK(T, K, C)
  <2>1. g.c = S[n].c /\ g.l = S[n].l /\ g.op = S[n].op /\ g.op # "analyse"
    BY <1>4
  <2> HIDE DEF n, g
  <2> QED BY <1>1, <1>2, <1>3, <1>4, <1>5, <2>1, StackCut
<1>7. Front(S) = T
  <2>1. Len(Front(S)) = n /\ \A m \in 1..n : Front(S)[m] = S[m]
    BY <1>1, <1>2 DEF Front
  <2>2. Front(S) \in Seq(Frames(C))
    BY <1>1, <1>2 DEF Front
  <2>3. Len(T) = n /\ T[n] = g /\ \A m \in 1..(n - 1) : T[m] = S[m]
    BY <1>1, <1>2, CutFacts
  <2>4. T \in Seq(Frames(C))
    BY <1>6 DEF StackOK
  <2> HIDE DEF T, n
  <2>5. \A m \in 1..n : T[m] = S[m]
    <3> SUFFICES ASSUME NEW m \in 1..n
                 PROVE  T[m] = S[m]
      OBVIOUS
    <3>1. m = n \/ m \in 1..(n - 1)
      BY <1>2
    <3> QED BY <2>3, <3>1
  <2> QED BY <2>1, <2>2, <2>3, <2>4, <2>5
<1>8. \A m \in 1..Len(Front(S)) : m \in 1..Len(S) /\ Front(S)[m] = S[m]
  BY <1>1, <1>2 DEF Front
<1> QED BY <1>6, <1>7, <1>8

\* An exploration is given up: abandonPeel.
LEMMA AbandonedStack ==
  ASSUME prog \in Programs, NEW C, ContextsOK(C), NEW K, NEW S, StackOK(S, K, C), S # << >>,
         NEW t, t = S[Len(S)], t.op = "peel"
  PROVE  StackOK(cut(S, Len(S), loopFrame(t.c, t.l, FALSE)), K, C)
<1> DEFINE N == Len(S)
           f == loopFrame(t.c, t.l, FALSE)
           g == S[N - 1]
<1>1. S \in Seq(Frames(C)) /\ StackShape(S) /\ (\A m \in 1..N : FrameAt(S, K, C, m)) /\ N \in 1..N /\ N \in Nat
  BY DEF StackOK
<1>2. /\ t \in Frames(C) /\ g \in Frames(C) /\ g.op = "analyse" /\ t.c = g.c /\ Child(g.l, t.l) /\ g.i <= t.l
      /\ t.c \in C /\ g.l \in Scopes /\ g.i \in Nat /\ FrameOK(K, C, g) /\ FrameOK(K, C, t)
  BY FrameBelow
<1>3. t.l \in Scopes
  BY <1>2 DEF Child, Scopes
<1>4. f \in Frames(C) /\ f.op = "loop" /\ f.c = t.c /\ f.l = t.l /\ f.i = 0
  BY <1>2, <1>3 DEF loopFrame, Frames, LoopFrame
<1> HIDE DEF f
<1>5. Around(K, f) /\ contains(scope(f.c), f.l)
  BY <1>2, <1>4 DEF FrameOK, Around
<1>6. FrameOK(K, C, f)
  <2>1. from(g) \in Nat /\ from(g) <= t.l /\ g.op # "peel" /\ f.c = g.c
    BY <1>2, <1>4 DEF from
  <2> HIDE DEF g
  <2> QED BY <1>2, <1>4, <1>5, <2>1, NewLoop
<1>7. \A n \in 1..(N - 1) : FrameAt(S, K, C, n)
  BY <1>1
<1>8. f.c = S[N].c /\ f.l = S[N].l /\ S[N].op = "peel" /\ f.op = "loop" /\ f.op # "analyse"
  BY <1>4
<1> HIDE DEF N
<1>9. StackOK(cut(S, N, f), K, C)
  BY <1>1, <1>4, <1>6, <1>7, <1>8, StackCut DEF N
<1> QED BY <1>9 DEF N, f

\* A round begins: loopRound.
LEMMA RoundStack ==
  ASSUME prog \in Programs, NEW C, ContextsOK(C), NEW K, NEW S, StackOK(S, K, C), S # << >>,
         NEW t, t = S[Len(S)], t.op = "loop", NEW ever \in BOOLEAN,
         NEW f, f = [t EXCEPT !.i = t.l, !.first = FALSE, !.changed = FALSE, !.ever = ever]
  PROVE  StackOK(cut(S, Len(S), f), K, C)
<1> DEFINE N == Len(S)
<1>1. S \in Seq(Frames(C)) /\ StackShape(S) /\ (\A m \in 1..N : FrameAt(S, K, C, m)) /\ N \in 1..N /\ N \in Nat
  BY DEF StackOK
<1>2. t \in Frames(C) /\ FrameOK(K, C, t)
  BY <1>1 DEF FrameAt
<1>3. t \in LoopFrame(C) /\ t.l \in Scopes /\ t.i \in Nat /\ t.l \in Nat
  <2>1. t \in LoopFrame(C)
    BY <1>2 DEF Frames, PlainFrame
  <2>2. t.l \in Scopes /\ t.i \in Nat
    BY <2>1 DEF LoopFrame
  <2> QED BY <2>1, <2>2, ScopeNumbers
<1>4. f \in Frames(C) /\ f.op = "loop" /\ f.c = t.c /\ f.l = t.l /\ f.i = t.l
  BY <1>3 DEF LoopFrame, Frames
<1>5. Aligned(f)
  <2>1. \A m \in Inner(f) : f.l < m /\ m \in Nat
    BY <1>3, <1>4, InnerAfter, ScopeNumbers
  <2> QED BY <1>3, <1>4, <2>1 DEF Aligned
<1>6. FrameOK(K, C, f)
  <2>1. Further(t, f)
    BY <1>3, <1>4 DEF Further
  <2> QED BY <1>2, <1>5, <2>1, FurtherReady
<1>7. \A n \in 1..(N - 1) : FrameAt(S, K, C, n)
  BY <1>1
<1>8. f.c = S[N].c /\ f.l = S[N].l /\ f.op = S[N].op /\ f.op # "analyse"
  BY <1>4
<1> HIDE DEF N
<1>9. StackOK(cut(S, N, f), K, C)
  BY <1>1, <1>4, <1>6, <1>7, <1>8, StackCut DEF N
<1> QED BY <1>9 DEF N

\* Where an activation's walk begins and ends.
LEMMA FirstScope ==
  ASSUME prog \in Programs, NEW l \in Scopes
  PROVE  firstBlock(l) \in Blocks /\ naturalScope(firstBlock(l)) = l
<1>1. CASE l \in Loops
  <2>1. firstBlock(l) = l
    BY <1>1, ScopeNumbers DEF firstBlock
  <2> QED BY <1>1, <2>1, HeaderScope, Shape
<1>2. CASE l = 0
  <2>1. firstBlock(l) = 1 /\ 1 \in Blocks
    BY <1>2, Shape DEF firstBlock
  <2>2. naturalScope(1) \in Scopes /\ contains(naturalScope(1), 1)
    BY <2>1, NaturalScope
  <2>3. naturalScope(1) \notin Loops
    <3>1. SUFFICES ASSUME NEW m \in Loops, contains(m, 1)
                   PROVE  FALSE
      BY <2>2
    <3>2. m = 1
      BY <3>1, ScopeNumbers DEF contains
    <3>3. preheaderIdx(m) \in Blocks /\ edge(preheaderIdx(m), m)
      BY HeaderEdges
    <3> QED BY <3>2, <3>3, LoopShape
  <2> QED BY <1>2, <2>1, <2>2, <2>3 DEF Scopes
<1> QED BY <1>1, <1>2 DEF Scopes

\* No block of a scope comes after its last.
LEMMA LastBlock ==
  ASSUME prog \in Programs, NEW l \in Scopes
  PROVE  lastBlock(l) \in Nat /\ \A y \in Blocks : contains(l, y) => y <= lastBlock(l)
<1>1. CASE l \in Loops
  BY <1>1, Shape DEF lastBlock, contains
<1>2. CASE l = 0
  <2>1. Blocks \subseteq 0..Len(Succs) /\ Len(Succs) \in Nat /\ Blocks # {}
    <3>1. Blocks = DOMAIN Succs /\ 1 \in Blocks
      BY Shape
    <3>2. Len(Succs) \in Nat
      <4>1. prog.fn \in {p.fn : p \in Programs}
        OBVIOUS
      <4>2. Succs \in Seq(Seq(DOMAIN Succs))
        BY <4>1, ShapeAssumption DEF Succs
      <4> QED BY <4>2
    <3> QED BY <3>1, <3>2 DEF Blocks
  <2>2. Max(Blocks) \in Blocks /\ \A y \in Blocks : y <= Max(Blocks)
    BY <2>1, GreatestNat
  <2>3. Max(Blocks) \in Nat
    BY <2>2, Shape
  <2> QED BY <1>2, <2>2, <2>3 DEF lastBlock
<1> QED BY <1>1, <1>2 DEF Scopes

\* What is known of the top frame.
TopFrame(C, t) ==
    /\ stack # << >> /\ t = top /\ t = stack[Len(stack)] /\ t \in Frames(C)
    /\ t.c \in C /\ t.l \in Scopes /\ t.i \in Nat
    /\ FrameOK(DOMAIN bb, C, t)

\* What is known of the activation on top of the stack.
LEMMA TopFacts ==
  ASSUME NEW C, StackOK(stack, DOMAIN bb, C), stack # << >>
  PROVE  TopFrame(C, top)
<1>1. stack \in Seq(Frames(C)) /\ Len(stack) \in 1..Len(stack) /\ \A n \in 1..Len(stack) : FrameAt(stack, DOMAIN bb, C, n)
  BY DEF StackOK
<1>2. top = stack[Len(stack)] /\ top \in Frames(C)
  BY <1>1 DEF top, Last
<1>3. FrameOK(DOMAIN bb, C, top)
  BY <1>1, <1>2 DEF FrameAt
<1> QED BY <1>2, <1>3, FrameFields DEF TopFrame

\* The next block of the walk.
LEMMA AtFacts ==
  ASSUME prog \in Programs, NEW C, StackOK(stack, DOMAIN bb, C), DOMAIN bb \subseteq C \X Blocks, NEW b, at(b)
  PROVE  /\ TopFrame(C, top) /\ top.op \in {"analyse", "loop"}
         /\ b \in Blocks /\ <<top.c, b>> \in DOMAIN bb /\ top.i <= b /\ contains(top.l, b)
         /\ \A y \in Blocks : top.i <= y /\ contains(top.l, y) /\ <<top.c, y>> \in DOMAIN bb => b <= y
<1>1. stack # << >> /\ (top.op = "analyse" \/ (top.op = "loop" /\ top.i # 0)) /\ ahead # {} /\ b = Min(ahead)
  BY DEF at, walking, running
<1>2. TopFrame(C, top)
  BY <1>1, TopFacts
<1>3. top.l \in Scopes /\ top.i \in Nat /\ top.l \in Nat /\ FrameOK(DOMAIN bb, C, top)
  BY <1>2, ScopeNumbers DEF TopFrame
<1>4. top.l <= top.i
  <2>1. Aligned(top)
    BY <1>1, <1>3 DEF FrameOK
  <2> QED BY <1>1, <2>1 DEF Aligned
<1>5. lastBlock(top.l) \in Nat /\ \A y \in Blocks : contains(top.l, y) => y <= lastBlock(top.l)
  BY <1>3, LastBlock
<1>6. ahead \subseteq Nat
  BY <1>3, <1>5 DEF ahead
<1>7. b \in ahead /\ \A y \in ahead : b <= y
  <2>1. \E x \in ahead : \A y \in ahead : x <= y
    BY <1>1, <1>6, LeastNat
  <2> QED BY <1>1, <2>1 DEF Min
<1>8. b \in top.i..lastBlock(top.l) /\ <<top.c, b>> \in DOMAIN bb
  BY <1>7 DEF ahead
<1>9. b \in Blocks /\ b \in Nat /\ top.i <= b /\ b <= lastBlock(top.l)
  <2>1. b \in Blocks
    BY <1>8
  <2> QED BY <1>3, <1>5, <1>8, <2>1
<1>10. contains(top.l, b)
  <2>1. top.l <= b
    BY <1>3, <1>4, <1>9
  <2> QED BY <1>9, <2>1 DEF contains, lastBlock
<1>11. ASSUME NEW y \in Blocks, top.i <= y, contains(top.l, y), <<top.c, y>> \in DOMAIN bb
       PROVE  b <= y
  <2>1. y \in Nat /\ y <= lastBlock(top.l)
    BY <1>5, <1>11, Shape
  <2>2. y \in ahead
    BY <1>3, <1>5, <1>11, <2>1 DEF ahead
  <2> QED BY <1>7, <2>2
<1> QED BY <1>1, <1>2, <1>8, <1>9, <1>10, <1>11

-----------------------------------------------------------------------------
(* The steps, block by block.                                               *)

\* The same blocks, of which only those of context e may have changed in more than
\* their references.
Touched(B, B2, C, e) ==
    BlocksOK(B2, C) /\ DOMAIN B2 = DOMAIN B /\ \A D : e \notin D => Keeps(B, B2, D)

\* Steps that touch one block of each context compose.
LEMMA TouchedTrans ==
  ASSUME NEW A, NEW B, NEW B2, NEW C, NEW e, Touched(A, B, C, e), Touched(B, B2, C, e)
  PROVE  Touched(A, B2, C, e)
<1>1. BlocksOK(B2, C) /\ DOMAIN B2 = DOMAIN A
  BY DEF Touched
<1>2. ASSUME NEW D, e \notin D
      PROVE  Keeps(A, B2, D)
  <2>1. Keeps(A, B, D) /\ Keeps(B, B2, D)
    BY <1>2 DEF Touched
  <2> QED BY <2>1, KeepsTrans
<1> QED BY <1>1, <1>2 DEF Touched

\* What derefStores, doMerge and takeStoresFrom do, in these terms.
LEMMA TouchedReferences ==
  ASSUME NEW B, NEW C, BlocksOK(B, C), NEW e
  PROVE  /\ Touched(B, B, C, e)
         /\ \A k : \A n \in Int : Touched(B, refStores(B, k, n), C, e)
         /\ \A used : (\A k \in DOMAIN used : used[k] \in Int) => Touched(B, dropReferences(B, used), C, e)
<1>1. Touched(B, B, C, e)
  BY DEF Touched, Keeps
<1>2. ASSUME NEW k, NEW n \in Int
      PROVE  Touched(B, refStores(B, k, n), C, e)
  <2>1. Rereferenced(B, refStores(B, k, n))
    BY RefStores
  <2> QED BY <2>1, RereferencedOK DEF Touched
<1>3. ASSUME NEW used, \A k \in DOMAIN used : used[k] \in Int
      PROVE  Touched(B, dropReferences(B, used), C, e)
  <2>1. Rereferenced(B, dropReferences(B, used))
    BY <1>3, DropReferences
  <2> QED BY <2>1, RereferencedOK DEF Touched
<1> QED BY <1>1, <1>2, <1>3

\* takeStores touches its block only.
LEMMA TouchedTake ==
  ASSUME NEW B, NEW C, BlocksOK(B, C), NEW e, NEW b, NEW v \in Cells
  PROVE  Touched(B, takeStores(B, <<e, b>>, v), C, e)
<1> DEFINE B2 == takeStores(B, <<e, b>>, v)
<1>1. BlocksOK(B2, C) /\ DOMAIN B2 = DOMAIN B
  BY TakeStores
<1>2. \A D : e \notin D => Keeps(B, B2, D)
  BY TakeStores, Zenon
<1> HIDE DEF B2
<1>3. Touched(B, B2, C, e)
  BY <1>1, <1>2 DEF Touched
<1> QED BY <1>3 DEF B2

\* So does a change of a block's status, and dropping its store.
LEMMA TouchedField ==
  ASSUME NEW B, NEW C, BlocksOK(B, C), NEW e, NEW b
  PROVE  /\ \A s \in {"UNKNOWN", "CERTAIN", "ASSUMED"} : Touched(B, [B EXCEPT ![<<e, b>>].status = s], C, e)
         /\ Touched(B, [B EXCEPT ![<<e, b>>].store = NoStore], C, e)
<1> DEFINE k == <<e, b>>
           x == [alive |-> {}, status |-> "UNKNOWN", in |-> NoStore, store |-> NoStore, result |-> NoStore,
                 local |-> 0, fd |-> 0]
<1>1. WithKeys(B) /\ (k \in DOMAIN B => B[k] \in BlockType(b))
  BY DEF BlocksOK
<1>2. x \in BlockType(b)
  BY DEF BlockType, Cells
<1>3. ASSUME NEW s \in {"UNKNOWN", "CERTAIN", "ASSUMED"}
      PROVE  Touched(B, [B EXCEPT ![k].status = s], C, e)
  <2> DEFINE B2 == [B EXCEPT ![k].status = s]
  <2>1. WithKeys(B2) /\ DOMAIN B2 = DOMAIN B /\ \A j \in DOMAIN B : j # k => B2[j] = B[j]
    BY <1>1 DEF WithKeys
  <2>2. k \in DOMAIN B => B2[k] \in BlockType(b)
    BY <1>1 DEF BlockType, WithKeys
  <2> HIDE DEF B2, x
  <2>3. BlocksOK(B2, C) /\ \A D : e \notin D => Keeps(B, B2, D)
    <3>1. CASE k \in DOMAIN B
      BY <2>1, <2>2, <3>1, SetBlock
    <3>2. CASE k \notin DOMAIN B
      BY <1>2, <2>1, <3>2, SetBlock
    <3> QED BY <3>1, <3>2
  <2>4. Touched(B, B2, C, e)
    BY <2>1, <2>3 DEF Touched
  <2> QED BY <2>4 DEF B2
<1>4. Touched(B, [B EXCEPT ![k].store = NoStore], C, e)
  <2> DEFINE B2 == [B EXCEPT ![k].store = NoStore]
  <2>1. WithKeys(B2) /\ DOMAIN B2 = DOMAIN B /\ \A j \in DOMAIN B : j # k => B2[j] = B[j]
    BY <1>1 DEF WithKeys
  <2>2. k \in DOMAIN B => B2[k] \in BlockType(b)
    BY <1>1 DEF BlockType, WithKeys, Cells
  <2> HIDE DEF B2, x
  <2>3. BlocksOK(B2, C) /\ \A D : e \notin D => Keeps(B, B2, D)
    <3>1. CASE k \in DOMAIN B
      BY <2>1, <2>2, <3>1, SetBlock
    <3>2. CASE k \notin DOMAIN B
      BY <1>2, <2>1, <3>2, SetBlock
    <3> QED BY <3>1, <3>2
  <2>4. Touched(B, B2, C, e)
    BY <2>1, <2>3 DEF Touched
  <2> QED BY <2>4 DEF B2
<1> QED BY <1>3, <1>4

\* The numbers of copies of edges.
LEMMA CopiesCount ==
  ASSUME prog \in Programs
  PROVE  /\ \A x \in Blocks : \A y : IsFiniteSet(copies(x, y)) /\ Cardinality(copies(x, y)) \in Nat
         /\ \A E \in SUBSET (Blocks \X Blocks) : Cardinality(edgeCopies(E)) \in Nat
<1>1. ASSUME NEW x \in Blocks, NEW y
      PROVE  IsFiniteSet(copies(x, y)) /\ Cardinality(copies(x, y)) \in Nat
  <2>1. copies(x, y) \subseteq DOMAIN Succs[x]
    BY DEF copies
  <2> QED BY <2>1, EdgesFinite
<1>2. ASSUME NEW E \in SUBSET (Blocks \X Blocks)
      PROVE  Cardinality(edgeCopies(E)) \in Nat
  <2> DEFINE G == {{e[1]} \X copies(e[1], e[2]) : e \in E}
  <2>1. IsFiniteSet(Blocks \X Blocks)
    BY Shape, FS_Product
  <2>2. IsFiniteSet(E)
    BY <2>1, FS_Subset
  <2>3. IsFiniteSet(G)
    <3> DEFINE f == [e \in E |-> {e[1]} \X copies(e[1], e[2])]
    <3>1. f \in Surjection(E, G)
      BY DEF Surjection
    <3> HIDE DEF f, G
    <3> QED BY <2>2, <3>1, FS_Surjection
  <2>4. ASSUME NEW T \in G
        PROVE  IsFiniteSet(T)
    <3>1. PICK e \in E : T = {e[1]} \X copies(e[1], e[2])
      OBVIOUS
    <3>2. e[1] \in Blocks
      OBVIOUS
    <3>3. IsFiniteSet({e[1]}) /\ IsFiniteSet(copies(e[1], e[2]))
      BY <1>1, <3>2, FS_Singleton
    <3> QED BY <3>1, <3>3, FS_Product
  <2>5. IsFiniteSet(UNION G)
    <3> HIDE DEF G
    <3> QED BY <2>3, <2>4, FS_UNION
  <2> QED BY <2>5, FS_CardinalityType DEF edgeCopies
<1> QED BY <1>1, <1>2

\* An edge in scope that is not dead leaves a block that was made.
LEMMA LiveEdge ==
  ASSUME NEW c, NEW x, NEW y, contains(scope(c), x), ~edgeIsDead(c, x, y)
  PROVE  <<c, x>> \in DOMAIN bb
BY DEF edgeIsDead

\* The predecessors whose stores block b merges.
LEMMA Predecessors ==
  ASSUME prog \in Programs, ContextsOK(DOMAIN ctx), NEW c \in DOMAIN ctx, NEW b \in Blocks,
         contains(scope(c), b), b # scope(c)
  PROVE  LET used == visitNormalPredecessorsBW(c, b) IN
         DOMAIN used \subseteq DOMAIN bb /\ \A k \in DOMAIN used : used[k] \in Int
<1> DEFINE used == visitNormalPredecessorsBW(c, b)
           live == {x \in predIdxs(b) : ~edgeIsDead(c, x, b) /\ ~edgeBranchesToUnspecialisedCode(x, b)}
           instances(x) == IF naturalScope(b) # scope(c) \/ naturalScope(x) = scope(c)
                           THEN {c} ELSE visitLoopExitingBlocksBW(c, x, b)
           seen == UNION {{<<d, x>> : d \in instances(x)} : x \in live}
<1>1. used = [k \in seen |-> Cardinality(copies(k[2], b))]
  BY DEF visitNormalPredecessorsBW
<1>2. ASSUME NEW k \in seen
      PROVE  \E x \in live : \E d \in instances(x) : k = <<d, x>>
  OBVIOUS
<1>3. scope(c) \in Scopes /\ ContextOK(c)
  BY ContextFacts
<1>4. ASSUME NEW x \in live
      PROVE  x \in Blocks /\ edge(x, b) /\ ~edgeIsDead(c, x, b) /\ contains(scope(c), x)
  <2>1. x \in Blocks /\ edge(x, b) /\ ~edgeIsDead(c, x, b)
    BY DEF predIdxs, edge
  <2> QED BY <1>3, <2>1, EnterEdge
<1>5. ASSUME NEW x \in live, NEW d \in instances(x)
      PROVE  <<d, x>> \in DOMAIN bb
  <2>1. CASE d = c
    BY <1>4, <2>1, LiveEdge
  <2>2. CASE d \in visitLoopExitingBlocksBW(c, x, b)
    <3>1. /\ d \in DOMAIN ctx /\ IsPrefix(c, d) /\ contains(scope(d), x)
          /\ \A n \in Len(c)..Len(d) : ~edgeIsDead(SubSeq(d, 1, n), x, b)
      BY <2>2 DEF visitLoopExitingBlocksBW
    <3>2. d \in Seq(Loops \X Nat) /\ c \in Seq(Loops \X Nat)
      BY <3>1, ContextFacts
    <3>3. Len(c) <= Len(d) /\ Len(c) \in Nat /\ Len(d) \in Nat
      BY <3>1, <3>2 DEF IsPrefix
    <3>4. Len(d) \in Len(c)..Len(d) /\ SubSeq(d, 1, Len(d)) = d
      BY <3>2, <3>3
    <3>5. ~edgeIsDead(d, x, b)
      BY <3>1, <3>4
    <3> QED BY <3>1, <3>5, LiveEdge
  <2> QED BY <2>1, <2>2
<1> HIDE DEF live, instances
<1>6. seen \subseteq DOMAIN bb
  BY <1>2, <1>5
<1>7. \A k \in seen : Cardinality(copies(k[2], b)) \in Int
  <2>1. \A k \in seen : k[2] \in Blocks
    BY <1>2, <1>4
  <2>2. \A x \in Blocks : Cardinality(copies(x, b)) \in Int
    BY CopiesCount
  <2> HIDE DEF seen
  <2> QED BY <2>1, <2>2
<1> HIDE DEF seen
<1>8. DOMAIN used \subseteq DOMAIN bb /\ \A k \in DOMAIN used : used[k] \in Int
  BY <1>1, <1>6, <1>7
<1> QED BY <1>8

\* checkBlockStatus.
LEMMA BlockStatus ==
  ASSUME prog \in Programs, CtxOK(ctx), BlocksOK(bb, DOMAIN ctx), FirstThere(DOMAIN bb, DOMAIN ctx),
         NEW c \in DOMAIN ctx, NEW b \in Blocks, <<c, b>> \in DOMAIN bb
  PROVE  /\ checkBlockStatus(c, b).pending \in Int
         /\ checkBlockStatus(c, b).status \in {"UNKNOWN", "CERTAIN", "ASSUMED"}
<1> DEFINE in == {x \in predIdxs(b) : ~edgeIsDead(c, x, b) /\ ~edgeBranchesToUnspecialisedCode(x, b)}
           E == in \X {b}
<1>1. E \in SUBSET (Blocks \X Blocks)
  BY DEF predIdxs
<1>2. Cardinality(edgeCopies(E)) \in Nat
  BY <1>1, CopiesCount
<1>3. ctx[c].pending \in Int
  BY DEF CtxOK
<1>4. ctx[c].pending - Cardinality(edgeCopies(E)) \in Int
  BY <1>2, <1>3
<1>5. bb[<<c, b>>].status \in {"UNKNOWN", "CERTAIN", "ASSUMED"}
  BY DEF BlocksOK, BlockType
<1>6. bb[<<c, firstBlock(scope(c))>>].status \in {"UNKNOWN", "CERTAIN", "ASSUMED"}
  BY DEF BlocksOK, BlockType, FirstThere
<1> QED BY <1>4, <1>5, <1>6 DEF checkBlockStatus

\* A latch that is alive exists.
LEMMA LatchThere ==
  ASSUME prog \in Programs, NEW c, NEW l \in Loops, scope(c) \in Scopes, contains(scope(c), l), latchAlive(c, l)
  PROVE  <<c, latchIdx(l)>> \in DOMAIN bb
<1>1. latchIdx(l) \in Blocks /\ contains(l, latchIdx(l)) /\ l \in Scopes
  BY HeaderEdges DEF Scopes
<1>2. contains(scope(c), latchIdx(l))
  BY <1>1, LoopTree
<1> QED BY <1>2, LiveEdge DEF latchAlive

\* copyLoopExitingDeadEdges makes blocks of the loop, in the context it was explored in.
LEMMA CopyExits ==
  ASSUME prog \in Programs, NEW C, NEW B, BlocksOK(B, C), NEW c \in C, scope(c) \in Scopes, NEW l \in Loops,
         contains(scope(c), l)
  PROVE  LET B2 == copyLoopExitingDeadEdges(B, c, l) IN
         /\ BlocksOK(B2, C) /\ DOMAIN B \subseteq DOMAIN B2
         /\ \A k \in DOMAIN B2 : k \notin DOMAIN B => \E x \in Blocks : contains(l, x) /\ k = <<c, x>>
         /\ \A D : c \notin D => Keeps(B, B2, D)
<1> DEFINE B2 == copyLoopExitingDeadEdges(B, c, l)
           exiting == {e[1] : e \in exitEdges(l)}
           N == [k \in {<<c, x>> : x \in exiting} |-> newBlock("UNKNOWN")]
           made == extend(B, N)
           leaving(x) == {p \in DOMAIN Succs[x] : ~contains(l, Succs[x][p])}
           live(x) == {p \in leaving(x) : ~edgeIsDeadRising(c, x, Succs[x][p])}
<1>1. B2 = [k \in DOMAIN made |-> IF k[1] = c /\ k[2] \in exiting
                                  THEN [made[k] EXCEPT !.alive = (@ \ leaving(k[2])) \cup live(k[2])]
                                  ELSE made[k]]
  BY DEF copyLoopExitingDeadEdges
<1>2. \A x \in exiting : x \in Blocks /\ contains(l, x)
  BY DEF exitEdges
<1>3. \A x \in exiting : contains(scope(c), x)
  <2>1. l \in Scopes
    BY DEF Scopes
  <2> HIDE DEF exiting
  <2> QED BY <1>2, <2>1, LoopTree
<1>4. \A x : leaving(x) \subseteq DOMAIN Succs[x] /\ live(x) \subseteq DOMAIN Succs[x]
  OBVIOUS
<1> HIDE DEF exiting, leaving, live
<1>5. WithKeys(N) /\ DOMAIN N = {<<c, x>> : x \in exiting} /\ DOMAIN N \subseteq C \X Blocks
  BY <1>2 DEF WithKeys
<1>6. \A k \in DOMAIN N : contains(scope(k[1]), k[2]) /\ N[k] \in BlockType(k[2]) /\ k[1] = c
  BY <1>3, NewBlock
<1> HIDE DEF N
<1>7. BlocksOK(made, C) /\ DOMAIN made = DOMAIN B \cup DOMAIN N
  BY <1>5, <1>6, AddBlocks
<1>8. \A D : c \notin D => Keeps(B, made, D)
  <2>1. \A D : (\A k \in DOMAIN N : k \notin DOMAIN B => k[1] \notin D) => Keeps(B, extend(B, N), D)
    BY <1>5, <1>6, AddBlocks, Zenon
  <2> QED BY <1>6, <2>1
<1> HIDE DEF made, B2
<1>9. DOMAIN B2 = DOMAIN made /\ WithKeys(B2) /\ \A k \in DOMAIN made : k[1] # c => B2[k] = made[k]
  BY <1>1 DEF WithKeys
<1>10. ASSUME NEW k \in DOMAIN made
       PROVE  B2[k] \in BlockType(k[2])
  <2>1. made[k] \in BlockType(k[2])
    BY <1>7 DEF BlocksOK
  <2>2. CASE k[1] = c /\ k[2] \in exiting
    <3>1. B2[k] = [made[k] EXCEPT !.alive = (made[k].alive \ leaving(k[2])) \cup live(k[2])]
      BY <1>1, <2>1, <2>2 DEF BlockType
    <3>2. (made[k].alive \ leaving(k[2])) \cup live(k[2]) \in SUBSET DOMAIN Succs[k[2]]
      BY <1>4, <2>1 DEF BlockType
    <3> QED BY <2>1, <3>1, <3>2 DEF BlockType
  <2>3. CASE ~(k[1] = c /\ k[2] \in exiting)
    BY <1>1, <2>1, <2>3
  <2> QED BY <2>2, <2>3
<1>11. BlocksOK(B2, C)
  BY <1>7, <1>9, <1>10 DEF BlocksOK
<1>12. ASSUME NEW D, c \notin D
       PROVE  Keeps(B, B2, D)
  <2>1. Keeps(B, made, D)
    BY <1>8, <1>12
  <2>2. Keeps(made, B2, D)
    BY <1>9, <1>12 DEF Keeps, known
  <2> QED BY <2>1, <2>2, KeepsTrans
<1>13. \A k \in DOMAIN B2 : k \notin DOMAIN B => \E x \in Blocks : contains(l, x) /\ k = <<c, x>>
  BY <1>2, <1>5, <1>7, <1>9
<1>14. DOMAIN B \subseteq DOMAIN B2
  BY <1>7, <1>9
<1> QED BY <1>11, <1>12, <1>13, <1>14 DEF B2

\* dropNonterminatedStoreRefs.
LEMMA DroppedExits ==
  ASSUME prog \in Programs, NEW C, BlocksOK(bb, C), NEW c, NEW l, NEW last
  PROVE  Rereferenced(bb, dropNonterminatedStoreRefs(c, l, last))
<1> DEFINE B2 == dropNonterminatedStoreRefs(c, l, last)
           exits(k) == {p \in DOMAIN Succs[k[2]] :
                        LET y == Succs[k[2]][p] IN
                        /\ ~contains(l, y)
                        /\ ~edgeBranchesToUnspecialisedCode(k[2], y)
                        /\ \E i \in Iterations(c, l) :
                              k[1] \in visitLoopExitingBlocksBW(iteration(c, l, i), k[2], y)}
           latch == <<iteration(c, l, last), latchIdx(l)>>
           less(k) == bb[k].local - Cardinality(exits(k)) - (IF k = latch THEN 1 ELSE 0)
<1>1. B2 = [k \in DOMAIN bb |->
              [bb[k] EXCEPT !.local = @ - Cardinality(exits(k)) - (IF k = latch THEN 1 ELSE 0)]]
  BY DEF dropNonterminatedStoreRefs
<1>2. \A k : exits(k) \subseteq DOMAIN Succs[k[2]]
  OBVIOUS
<1> HIDE DEF exits, latch, B2
<1>3. DOMAIN B2 = DOMAIN bb /\ WithKeys(B2)
  BY <1>1 DEF WithKeys
<1>4. ASSUME NEW k \in DOMAIN bb
      PROVE  \E m, n \in Int : B2[k] = [bb[k] EXCEPT !.local = m, !.fd = n]
  <2>1. bb[k] \in BlockType(k[2]) /\ k[2] \in Blocks
    BY DEF BlocksOK
  <2>2. Cardinality(exits(k)) \in Int
    BY <1>2, <2>1, EdgesFinite
  <2>3. bb[k].local \in Int /\ bb[k].fd \in Int
    BY <2>1 DEF BlockType
  <2>4. less(k) \in Int
    BY <2>2, <2>3
  <2>5. B2[k] = [bb[k] EXCEPT !.local = less(k)]
    BY <1>1, <2>1 DEF BlockType
  <2>6. [bb[k] EXCEPT !.local = less(k)] = [bb[k] EXCEPT !.local = less(k), !.fd = bb[k].fd]
    BY <2>1 DEF BlockType
  <2> HIDE DEF less
  <2> QED BY <2>3, <2>4, <2>5, <2>6
<1>5. Rereferenced(bb, B2)
  BY <1>3, <1>4 DEF Rereferenced
<1> QED BY <1>5 DEF B2

\* The new iteration is made.
LEMMA Begun ==
  ASSUME prog \in Programs, CtxOK(ctx), NEW B, BlocksOK(B, DOMAIN ctx), DOMAIN B = DOMAIN bb,
         NEW C2, NEW K2, NEW c, NEW l, NEW i, NEW d, Grown(DOMAIN ctx, C2, DOMAIN bb, K2, c, l, i, d),
         iterationSource(c, l, i) \in DOMAIN bb, beginIteration(B, c, l, i)
  PROVE  /\ BlocksOK(bb', C2) /\ DOMAIN bb' = K2 /\ DOMAIN ctx' = C2 /\ CtxOK(ctx')
         /\ \A x \in DOMAIN ctx : ctx'[x] = ctx[x]
         /\ ctx'[d].final = FALSE
         /\ Keeps(B, bb', DOMAIN ctx)
<1> DEFINE C == DOMAIN ctx
           k == <<d, l>>
           src == iterationSource(c, l, i)
           status == IF entryBlockIsCertain(c, l, i) THEN "CERTAIN" ELSE "ASSUMED"
           N == [j \in {k} |-> newBlock(status)]
           less == refStores(B, src, -1)
           made == extend(less, N)
           X == [x \in {d} |-> [pending |-> 0, final |-> FALSE]]
<1>1. /\ ContextsOK(C) /\ c \in C /\ l \in Loops /\ i \in 0..MaxIter
      /\ d = iteration(c, l, i) /\ d \notin C /\ C2 = C \cup {d}
      /\ DOMAIN bb \subseteq C \X Blocks /\ K2 = DOMAIN bb \cup {<<d, l>>}
  BY DEF Grown
<1>2. bb' = takeStores(made, k, B[src].store) /\ ctx' = extend(ctx, X)
  BY <1>1 DEF beginIteration
<1>3. DOMAIN ctx' = C2 /\ CtxOK(ctx') /\ (\A x \in DOMAIN ctx : ctx'[x] = ctx[x]) /\ ctx'[d].final = FALSE
  <2>1. ctx' = [x \in C2 |-> IF x \in C THEN ctx[x] ELSE [pending |-> 0, final |-> FALSE]]
    BY <1>1, <1>2, Extend
  <2>2. \A x \in C : ctx[x] \in [pending : Int, final : BOOLEAN]
    BY DEF CtxOK
  <2>3. [pending |-> 0, final |-> FALSE] \in [pending : Int, final : BOOLEAN]
    OBVIOUS
  <2>4. DOMAIN ctx' = C2 /\ WithKeys(ctx') /\ \A x \in C2 : ctx'[x] = IF x \in C THEN ctx[x] ELSE [pending |-> 0, final |-> FALSE]
    BY <2>1 DEF WithKeys
  <2>5. (\A x \in DOMAIN ctx : ctx'[x] = ctx[x]) /\ ctx'[d].final = FALSE
    BY <1>1, <2>4
  <2>6. \A x \in C2 : ctx'[x] \in [pending : Int, final : BOOLEAN]
    BY <2>2, <2>3, <2>4
  <2> QED BY <2>4, <2>5, <2>6 DEF CtxOK
<1>4. BlocksOK(B, C2)
  BY <1>1 DEF BlocksOK
<1>5. Touched(B, less, C2, d)
  BY <1>4, TouchedReferences
<1>6. scope(d) = l /\ l \in Blocks /\ contains(l, l)
  <2>1. c \in Seq(Loops \X Nat) /\ i \in Nat
    BY <1>1, ContextFacts, ValuesAssumption
  <2> QED BY <1>1, <2>1, IterationFacts, Shape, LoopTree DEF Scopes
<1>7. WithKeys(N) /\ DOMAIN N = {k} /\ DOMAIN N \subseteq C2 \X Blocks
  BY <1>1, <1>6 DEF WithKeys
<1>8. \A j \in DOMAIN N : contains(scope(j[1]), j[2]) /\ N[j] \in BlockType(j[2])
  <2>1. status \in {"UNKNOWN", "CERTAIN", "ASSUMED"}
    OBVIOUS
  <2> HIDE DEF status
  <2> QED BY <1>6, <2>1, NewBlock
<1>9. B[src].store \in Cells
  <2>1. B[src] \in BlockType(src[2])
    BY DEF BlocksOK
  <2> QED BY <2>1 DEF BlockType
<1> HIDE DEF N, less, src
<1>10. BlocksOK(less, C2) /\ DOMAIN less = DOMAIN B /\ Keeps(B, less, C)
  BY <1>1, <1>5 DEF Touched
<1>11. BlocksOK(made, C2) /\ DOMAIN made = DOMAIN less \cup {k}
  <2>1. BlocksOK(made, C2) /\ DOMAIN made = DOMAIN less \cup DOMAIN N
    BY <1>7, <1>8, <1>10, AddBlocks
  <2> QED BY <1>7, <2>1
<1>12. Keeps(less, made, C)
  <2>1. \A j \in DOMAIN N : j \notin DOMAIN less => j[1] \notin C
    BY <1>1, <1>7
  <2> QED BY <1>7, <1>8, <1>10, <2>1, AddBlocks
<1> HIDE DEF made
<1>13. Touched(made, bb', C2, d)
  BY <1>2, <1>9, <1>11, TouchedTake
<1>14. BlocksOK(bb', C2) /\ DOMAIN bb' = DOMAIN made /\ Keeps(made, bb', C)
  BY <1>1, <1>13 DEF Touched
<1>15. Keeps(B, bb', C)
  BY <1>10, <1>12, <1>14, KeepsTrans
<1>16. DOMAIN bb' = K2
  BY <1>1, <1>10, <1>11, <1>14
<1> QED BY <1>3, <1>14, <1>15, <1>16

\* The contexts around a new iteration are its context and those around that.
LEMMA IterationPrefix ==
  ASSUME NEW c, c \in Seq(Loops \X Nat), NEW l \in Loops, NEW i \in Nat, NEW d, d = iteration(c, l, i)
  PROVE  /\ Len(d) = Len(c) + 1 /\ d[Len(c) + 1] = <<l, i>>
         /\ \A m \in 0..Len(c) : SubSeq(d, 1, m) = SubSeq(c, 1, m)
         /\ SubSeq(d, 1, Len(c)) = c
<1>1. /\ Len(iteration(c, l, i)) = Len(c) + 1 /\ iteration(c, l, i)[Len(c) + 1] = <<l, i>>
      /\ \A m \in 0..Len(c) : SubSeq(iteration(c, l, i), 1, m) = SubSeq(c, 1, m)
      /\ SubSeq(iteration(c, l, i), 1, Len(c)) = c
  BY IterationFacts, Zenon
<1> QED BY <1>1, Zenon

\* An iteration is closed if what it is an iteration in is, or its loop has ended.
LEMMA ClosedIteration ==
  ASSUME NEW X, NEW c, c \in Seq(Loops \X Nat), NEW l \in Loops, NEW i \in Nat, NEW d, d = iteration(c, l, i)
  PROVE  closed(X, d) => closed(X, c) \/ ended(X, c, l)
<1>1. /\ Len(d) = Len(c) + 1 /\ d[Len(c) + 1] = <<l, i>> /\ Len(c) \in Nat
      /\ \A m \in 0..Len(c) : SubSeq(d, 1, m) = SubSeq(c, 1, m)
      /\ SubSeq(d, 1, Len(c)) = c
  <2>1. Len(c) \in Nat
    OBVIOUS
  <2> QED BY <2>1, IterationPrefix
<1> SUFFICES ASSUME closed(X, d)
             PROVE  closed(X, c) \/ ended(X, c, l)
  OBVIOUS
<1>2. PICK n \in 1..Len(d) : ended(X, SubSeq(d, 1, n - 1), d[n][1])
  BY DEF closed
<1>3. CASE n = Len(c) + 1
  <2>1. n - 1 = Len(c)
    BY <1>1, <1>3
  <2>2. SubSeq(d, 1, n - 1) = c /\ d[n][1] = l
    BY <1>1, <1>3, <2>1
  <2> QED BY <1>2, <2>2
<1>4. CASE n # Len(c) + 1
  <2>1. n \in 1..Len(c) /\ n - 1 \in 0..Len(c)
    BY <1>1, <1>4
  <2>2. SubSeq(d, 1, n - 1) = SubSeq(c, 1, n - 1)
    BY <1>1, <2>1
  <2>3. d[n] = c[n]
    BY <2>1 DEF iteration
  <2>4. closed(X, c)
    BY <1>2, <2>1, <2>2, <2>3 DEF closed
  <2> QED BY <2>4
<1> QED BY <1>3, <1>4

-----------------------------------------------------------------------------
(* Loops that have ended.                                                   *)

\* Which loops have been shown to end.
LEMMA LastIteration ==
  ASSUME NEW C, NEW c, NEW l, Its(C, c, l) # {}
  PROVE  Max(Its(C, c, l)) \in Its(C, c, l) /\ iteration(c, l, Max(Its(C, c, l))) \in C
<1>1. MaxIter \in Nat /\ Its(C, c, l) \subseteq 0..MaxIter
  BY ValuesAssumption DEF Its
<1>2. Max(Its(C, c, l)) \in Its(C, c, l)
  BY <1>1, GreatestNat
<1>3. \A i \in Its(C, c, l) : iteration(c, l, i) \in C
  BY DEF Its
<1> QED BY <1>2, <1>3

\* Whether loops have ended depends on what is final only.
LEMMA SameFinals ==
  ASSUME NEW X, NEW X2, DOMAIN X2 = DOMAIN X, \A c \in DOMAIN X : X2[c].final = X[c].final
  PROVE  /\ \A c, l : ended(X2, c, l) <=> ended(X, c, l)
         /\ \A d : closed(X2, d) <=> closed(X, d)
<1>1. ASSUME NEW c, NEW l
      PROVE  ended(X2, c, l) <=> ended(X, c, l)
  <2>1. CASE Its(DOMAIN X, c, l) = {}
    BY <2>1 DEF ended
  <2>2. CASE Its(DOMAIN X, c, l) # {}
    <3>1. iteration(c, l, Max(Its(DOMAIN X, c, l))) \in DOMAIN X
      BY <2>2, LastIteration
    <3> QED BY <2>2, <3>1 DEF ended
  <2> QED BY <2>1, <2>2
<1> QED BY <1>1 DEF closed

\* A context around an open one is open.
LEMMA OpenSpine ==
  ASSUME NEW X, NEW c, c \in Seq(Loops \X Nat), ~closed(X, c), NEW d \in Spine(c)
  PROVE  ~closed(X, d)
<1>1. PICK m \in 0..Len(c) : d = SubSeq(c, 1, m)
  BY DEF Spine
<1>2. Len(d) = m /\ \A n \in 1..m : d[n] = c[n] /\ SubSeq(d, 1, n - 1) = SubSeq(c, 1, n - 1)
  <2>1. Len(c) \in Nat /\ m \in Nat /\ m <= Len(c)
    BY <1>1
  <2>2. Len(d) = m /\ \A n \in 1..m : d[n] = c[n]
    BY <1>1, <2>1
  <2>3. ASSUME NEW n \in 1..m
        PROVE  SubSeq(d, 1, n - 1) = SubSeq(c, 1, n - 1)
    <3>1. d \in Seq(Loops \X Nat) /\ n - 1 \in 0..m
      BY <1>1, <2>1
    <3> QED BY <2>1, <2>2, <3>1
  <2> QED BY <2>2, <2>3
<1>3. SUFFICES ASSUME NEW n \in 1..Len(d), ended(X, SubSeq(d, 1, n - 1), d[n][1])
               PROVE  FALSE
  BY DEF closed
<1>4. n \in 1..m /\ n \in 1..Len(c)
  BY <1>1, <1>2
<1>5. ended(X, SubSeq(c, 1, n - 1), c[n][1])
  BY <1>2, <1>3, <1>4
<1> QED BY <1>4, <1>5 DEF closed

\* A new iteration does not end its loop.
LEMMA NotEndedYet ==
  ASSUME prog \in Programs, NEW X, NEW X2, NEW K, NEW K2, NEW c, NEW l, NEW i, NEW d,
         Grown(DOMAIN X, DOMAIN X2, K, K2, c, l, i, d),
         \A x \in DOMAIN X : X2[x] = X[x], X2[d].final = FALSE,
         \A j \in Its(DOMAIN X, c, l) : j < i, ~ended(X, c, l)
  PROVE  /\ \A c2 \in DOMAIN X : \A m : ended(X2, c2, m) <=> ended(X, c2, m)
         /\ \A e \in DOMAIN X : closed(X2, e) <=> closed(X, e)
         /\ ~closed(X, c) => ~closed(X2, d)
<1> DEFINE C == DOMAIN X
           C2 == DOMAIN X2
<1>1. /\ ContextsOK(C) /\ c \in C /\ l \in Loops /\ i \in 0..MaxIter
      /\ d = iteration(c, l, i) /\ d \notin C /\ C2 = C \cup {d}
  BY DEF Grown
<1>2. /\ Its(C2, c, l) = Its(C, c, l) \cup {i}
      /\ \A c2 \in C : \A m : c2 # c \/ m # l => Its(C2, c2, m) = Its(C, c2, m)
  BY <1>1, ItsOf
<1>3. i \in Nat /\ c \in Seq(Loops \X Nat)
  BY <1>1, ValuesAssumption, ContextFacts
<1>4. Max(Its(C2, c, l)) = i
  <2>1. Max(Its(C2, c, l)) \in Its(C2, c, l) /\ \A j \in Its(C2, c, l) : j <= Max(Its(C2, c, l))
    <3>1. Its(C2, c, l) \subseteq 0..MaxIter /\ MaxIter \in Nat /\ Its(C2, c, l) # {}
      BY <1>2, ValuesAssumption DEF Its
    <3> QED BY <3>1, GreatestNat
  <2>2. \A j \in Its(C, c, l) : j < i /\ j \in Nat
    BY ValuesAssumption DEF Its
  <2> QED BY <1>2, <1>3, <2>1, <2>2
<1>5. ~ended(X2, c, l)
  BY <1>1, <1>4 DEF ended
<1>6. ASSUME NEW c2 \in C, NEW m
      PROVE  ended(X2, c2, m) <=> ended(X, c2, m)
  <2>1. CASE c2 = c /\ m = l
    BY <1>5, <2>1
  <2>2. CASE c2 # c \/ m # l
    <3>1. Its(C2, c2, m) = Its(C, c2, m)
      BY <1>2, <2>2
    <3>2. Its(C, c2, m) # {} => iteration(c2, m, Max(Its(C, c2, m))) \in C
      BY LastIteration
    <3> QED BY <3>1, <3>2 DEF ended
  <2> QED BY <2>1, <2>2
<1>7. ASSUME NEW e \in C
      PROVE  closed(X2, e) <=> closed(X, e)
  <2>1. e \in Seq(Loops \X Nat) /\ \A n \in 0..Len(e) : SubSeq(e, 1, n) \in C
    BY <1>1 DEF ContextsOK, ContextOK
  <2>2. \A n \in 1..Len(e) : SubSeq(e, 1, n - 1) \in C
    <3>1. Len(e) \in Nat
      BY <2>1
    <3>2. \A n \in 1..Len(e) : n - 1 \in 0..Len(e)
      BY <3>1
    <3> QED BY <2>1, <3>2
  <2> QED BY <1>6, <2>2 DEF closed
<1>8. ASSUME ~closed(X, c), closed(X2, d)
      PROVE  FALSE
  <2>1. closed(X2, c) \/ ended(X2, c, l)
    BY <1>1, <1>3, <1>8, ClosedIteration
  <2> QED BY <1>1, <1>5, <1>7, <1>8, <2>1
<1> QED BY <1>6, <1>7, <1>8

\* From X to X2, the last iteration of loop l of c, the i-th, is made final.
Ending(X, X2, c, l, i, d) ==
    /\ ContextsOK(DOMAIN X) /\ DOMAIN X2 = DOMAIN X /\ c \in DOMAIN X /\ l \in Loops
    /\ Its(DOMAIN X, c, l) = 0..i /\ i \in Nat /\ d = iteration(c, l, i) /\ X2[d].final = TRUE
    /\ \A x \in DOMAIN X : x # d => X2[x].final = X[x].final

\* Making the last iteration of a loop final ends no other loop, leaves settled what was, and
\* settles no context but those within that loop.
LEMMA NowEnded ==
  ASSUME prog \in Programs, NEW X, NEW X2, NEW c, NEW l, NEW i, NEW d, Ending(X, X2, c, l, i, d)
  PROVE  /\ \A c2 \in DOMAIN X : \A m : c2 # c \/ m # l => (ended(X2, c2, m) <=> ended(X, c2, m))
         /\ \A e \in DOMAIN X : closed(X, e) => closed(X2, e)
         /\ \A e \in DOMAIN X : Len(e) <= Len(c) /\ ~closed(X, e) => ~closed(X2, e)
         /\ ~closed(X, c) /\ ~ended(X, c, l) => ~closed(X, d)
<1>0. /\ ContextsOK(DOMAIN X) /\ DOMAIN X2 = DOMAIN X /\ c \in DOMAIN X /\ l \in Loops
      /\ Its(DOMAIN X, c, l) = 0..i /\ i \in Nat /\ d = iteration(c, l, i) /\ X2[d].final = TRUE
      /\ \A x \in DOMAIN X : x # d => X2[x].final = X[x].final
  BY DEF Ending
<1> USE <1>0
<1> DEFINE C == DOMAIN X
<1>1. c \in Seq(Loops \X Nat)
  BY ContextFacts
<1>2. ended(X2, c, l)
  <2>1. Max(0..i) = i /\ 0..i # {}
    BY MaxUpTo
  <2> QED BY <2>1 DEF ended
<1>3. ASSUME NEW c2 \in C, NEW m, c2 # c \/ m # l
      PROVE  ended(X2, c2, m) <=> ended(X, c2, m)
  <2>1. CASE Its(C, c2, m) = {}
    BY <2>1 DEF ended
  <2>2. CASE Its(C, c2, m) # {}
    <3> DEFINE e == iteration(c2, m, Max(Its(C, c2, m)))
    <3>1. e \in C
      BY <2>2, LastIteration
    <3>2. e # d
      <4>1. c2 \in Seq(Loops \X Nat)
        BY ContextFacts
      <4>2. Front(e) = c2 /\ Last(e) = <<m, Max(Its(C, c2, m))>>
        BY <4>1, IterationInverse
      <4>3. Front(d) = c /\ Last(d) = <<l, i>>
        BY <1>1, IterationInverse
      <4> HIDE DEF e
      <4> QED BY <1>3, <4>2, <4>3
    <3> QED BY <2>2, <3>1, <3>2 DEF ended
  <2> QED BY <2>1, <2>2
<1>4. ASSUME NEW e \in C
      PROVE  /\ e \in Seq(Loops \X Nat) /\ Len(e) \in Nat
             /\ \A n \in 1..Len(e) : SubSeq(e, 1, n - 1) \in C /\ Len(SubSeq(e, 1, n - 1)) = n - 1
  <2>1. e \in Seq(Loops \X Nat) /\ \A n \in 0..Len(e) : SubSeq(e, 1, n) \in C
    BY DEF ContextsOK, ContextOK
  <2>2. Len(e) \in Nat
    BY <2>1
  <2>3. \A n \in 1..Len(e) : n - 1 \in 0..Len(e) /\ Len(SubSeq(e, 1, n - 1)) = n - 1
    BY <2>1, <2>2
  <2> QED BY <2>1, <2>2, <2>3
<1>5. ASSUME NEW e \in C, closed(X, e)
      PROVE  closed(X2, e)
  <2>1. PICK n \in 1..Len(e) : ended(X, SubSeq(e, 1, n - 1), e[n][1])
    BY <1>5 DEF closed
  <2>2. ended(X2, SubSeq(e, 1, n - 1), e[n][1])
    BY <1>2, <1>3, <1>4, <2>1
  <2> QED BY <2>2 DEF closed
<1>6. ASSUME NEW e \in C, Len(e) <= Len(c), closed(X2, e)
      PROVE  closed(X, e)
  <2>1. PICK n \in 1..Len(e) : ended(X2, SubSeq(e, 1, n - 1), e[n][1])
    BY <1>6 DEF closed
  <2>2. SubSeq(e, 1, n - 1) \in C /\ Len(SubSeq(e, 1, n - 1)) = n - 1 /\ Len(c) \in Nat /\ Len(e) \in Nat
    BY <1>4
  <2>3. n - 1 < Len(c)
    BY <1>6, <2>2
  <2>4. SubSeq(e, 1, n - 1) # c
    BY <2>2, <2>3
  <2>5. ended(X, SubSeq(e, 1, n - 1), e[n][1])
    BY <1>3, <2>1, <2>2, <2>4
  <2> QED BY <2>5 DEF closed
<1>7. ASSUME ~closed(X, c), ~ended(X, c, l), closed(X, d)
      PROVE  FALSE
  BY <1>1, <1>7, ClosedIteration
<1> QED BY <1>3, <1>5, <1>6, <1>7

-----------------------------------------------------------------------------
(* What a step is to keep.                                                  *)

\* What settled iterations keep in a step.
Kept(X, X2, B, B2) == \A d \in DOMAIN X : closed(X, d) =>
    d \in DOMAIN X2 /\ X2[d] = X[d] /\ closed(X2, d) /\ Keeps(B, B2, {d})

\* The activations S2 are about contexts, and peeled loops, that those of S are about.
From(S, S2) == \A n \in 1..Len(S2) : \E m \in 1..Len(S) :
    /\ S2[n].c = S[m].c
    /\ S2[n].op = "peel" => S[m].op = "peel" /\ S2[n].l = S[m].l

\* The steps that replace the top activation, or push one in its context.
LEMMA FromCut ==
  ASSUME NEW F, NEW S \in Seq(F), NEW n \in 1..Len(S), NEW f, f.c = S[n].c,
         f.op = "peel" => S[n].op = "peel" /\ f.l = S[n].l
  PROVE  From(S, cut(S, n, f))
<1>1. /\ Len(cut(S, n, f)) = n /\ cut(S, n, f)[n] = f
      /\ \A i \in 1..(n - 1) : cut(S, n, f)[i] = S[i]
  BY CutFacts
<1>2. ASSUME NEW m \in 1..n
      PROVE  \E j \in 1..Len(S) :
                /\ cut(S, n, f)[m].c = S[j].c
                /\ cut(S, n, f)[m].op = "peel" => S[j].op = "peel" /\ cut(S, n, f)[m].l = S[j].l
  <2>1. CASE m = n
    BY <1>1, <2>1
  <2>2. CASE m # n
    <3>1. m \in 1..(n - 1) /\ m \in 1..Len(S)
      BY <2>2
    <3>2. cut(S, n, f)[m] = S[m]
      BY <1>1, <3>1, Zenon
    <3> HIDE <1>1
    <3> QED BY <3>1, <3>2
  <2> QED BY <2>1, <2>2, Zenon
<1> QED BY <1>1, <1>2 DEF From

\* Putting a loop of the same context on the stack is a step of the kind From describes.
LEMMA FromPush ==
  ASSUME NEW F, NEW S \in Seq(F), S # << >>, NEW f, f.c = S[Len(S)].c, f.op # "peel"
  PROVE  From(S, Append(S, f))
<1>1. /\ Len(Append(S, f)) = Len(S) + 1 /\ Append(S, f)[Len(S) + 1] = f
      /\ \A i \in 1..Len(S) : Append(S, f)[i] = S[i]
  BY PushFacts
<1>2. Len(S) \in Nat /\ Len(S) \in 1..Len(S)
  OBVIOUS
<1>3. ASSUME NEW m \in 1..(Len(S) + 1)
      PROVE  \E j \in 1..Len(S) :
                /\ Append(S, f)[m].c = S[j].c
                /\ Append(S, f)[m].op = "peel" => S[j].op = "peel" /\ Append(S, f)[m].l = S[j].l
  <2>1. CASE m = Len(S) + 1
    BY <1>1, <1>2, <2>1
  <2>2. CASE m # Len(S) + 1
    <3>1. m \in 1..Len(S)
      BY <1>2, <2>2
    <3> QED BY <1>1, <3>1
  <2> QED BY <2>1, <2>2
<1> QED BY <1>1, <1>3 DEF From

\* A step of that kind leaves no activation about a settled context.
LEMMA OpenFrom ==
  ASSUME NEW X, NEW X2, NEW S, NEW S2, Open(S, X), From(S, S2),
         DOMAIN X2 = DOMAIN X, \A c \in DOMAIN X : X2[c].final = X[c].final
  PROVE  Open(S2, X2)
<1>1. /\ \A c, l : ended(X2, c, l) <=> ended(X, c, l)
      /\ \A d : closed(X2, d) <=> closed(X, d)
  BY SameFinals
<1>2. ASSUME NEW n \in 1..Len(S2)
      PROVE  ~closed(X2, S2[n].c) /\ (S2[n].op = "peel" => ~ended(X2, S2[n].c, S2[n].l))
  <2>1. PICK m \in 1..Len(S) :
            /\ S2[n].c = S[m].c
            /\ S2[n].op = "peel" => S[m].op = "peel" /\ S2[n].l = S[m].l
    BY DEF From
  <2>2. ~closed(X, S[m].c) /\ (S[m].op = "peel" => ~ended(X, S[m].c, S[m].l))
    BY DEF Open
  <2> QED BY <1>1, <2>1, <2>2, Zenon
<1> QED BY <1>2 DEF Open

\* A step that begins no iteration and ends none, about the context c that is open.
LEMMA QuietStep ==
  ASSUME prog \in Programs, NEW X, NEW X2, NEW B, NEW B2, NEW R, NEW R2, NEW S, NEW S2,
         Good(X, B, R, S), DOMAIN X2 = DOMAIN X, CtxOK(X2),
         NEW c \in DOMAIN X, ~closed(X, c),
         \A x \in DOMAIN X : X2[x].final = X[x].final /\ (x # c => X2[x] = X[x]),
         BlocksOK(B2, DOMAIN X), DOMAIN B \subseteq DOMAIN B2, Keeps(B, B2, DOMAIN X \ Spine(c)),
         RetainedOK(R2, DOMAIN B2, DOMAIN X), StackOK(S2, DOMAIN B2, DOMAIN X), From(S, S2)
  PROVE  Good(X2, B2, R2, S2) /\ Kept(X, X2, B, B2)
<1>1. /\ ContextsOK(DOMAIN X) /\ FirstThere(DOMAIN B, DOMAIN X) /\ Open(S, X)
  BY DEF Good
<1>2. Open(S2, X2)
  BY <1>1, OpenFrom
<1>3. FirstThere(DOMAIN B2, DOMAIN X2)
  BY <1>1 DEF FirstThere
<1>4. Good(X2, B2, R2, S2)
  BY <1>1, <1>2, <1>3 DEF Good
<1>5. ASSUME NEW d \in DOMAIN X, closed(X, d)
      PROVE  d \in DOMAIN X2 /\ X2[d] = X[d] /\ closed(X2, d) /\ Keeps(B, B2, {d})
  <2>1. c \in Seq(Loops \X Nat) /\ c \in Spine(c)
    BY <1>1, ContextFacts
  <2>2. d \notin Spine(c)
    BY <1>5, <2>1, OpenSpine
  <2>3. d # c /\ {d} \subseteq DOMAIN X \ Spine(c)
    BY <2>1, <2>2
  <2>4. closed(X2, d)
    BY <1>5, SameFinals
  <2>5. Keeps(B, B2, {d})
    BY <2>3, KeepsPart
  <2> QED BY <2>3, <2>4, <2>5
<1> QED BY <1>4, <1>5 DEF Kept

-----------------------------------------------------------------------------
(* The steps.                                                               *)

GoodStep == Good(ctx', bb', retained', stack') /\ Kept(ctx, ctx', bb, bb')

\* The context of the top activation is open.
LEMMA TopOpen ==
  ASSUME Good(ctx, bb, retained, stack), stack # << >>
  PROVE  /\ TopFrame(DOMAIN ctx, top) /\ ~closed(ctx, top.c)
         /\ stack \in Seq(Frames(DOMAIN ctx)) /\ Len(stack) \in 1..Len(stack) /\ top = stack[Len(stack)]
         /\ top.op = "peel" => ~ended(ctx, top.c, top.l)
<1>1. StackOK(stack, DOMAIN bb, DOMAIN ctx) /\ Open(stack, ctx)
  BY DEF Good
<1>2. TopFrame(DOMAIN ctx, top)
  BY <1>1, TopFacts
<1>3. stack \in Seq(Frames(DOMAIN ctx)) /\ top = stack[Len(stack)]
  BY <1>1, <1>2 DEF StackOK, TopFrame
<1>4. Len(stack) \in 1..Len(stack)
  BY <1>3
<1>5. ~closed(ctx, top.c) /\ (top.op = "peel" => ~ended(ctx, top.c, top.l))
  BY <1>1, <1>3, <1>4, Zenon DEF Open
<1> QED BY <1>2, <1>3, <1>4, <1>5

withPending(X, c, p) == [X EXCEPT ![c].pending = p]

\* The pending count moves.
LEMMA PendingOK ==
  ASSUME CtxOK(ctx), NEW c \in DOMAIN ctx, NEW p \in Int
  PROVE  LET X2 == withPending(ctx, c, p) IN
         /\ DOMAIN X2 = DOMAIN ctx /\ CtxOK(X2)
         /\ \A x \in DOMAIN ctx : X2[x].final = ctx[x].final /\ (x # c => X2[x] = ctx[x])
<1> DEFINE X2 == withPending(ctx, c, p)
<1>1. \A x \in DOMAIN ctx : ctx[x] \in [pending : Int, final : BOOLEAN]
  BY DEF CtxOK
<1>2. X2 = [x \in DOMAIN ctx |-> IF x = c THEN [ctx[c] EXCEPT !.pending = p] ELSE ctx[x]]
  BY DEF withPending
<1> HIDE DEF X2
<1>3. DOMAIN X2 = DOMAIN ctx /\ X2 = [x \in DOMAIN X2 |-> X2[x]]
  BY <1>2
<1>4. \A x \in DOMAIN ctx : x # c => X2[x] = ctx[x]
  BY <1>2
<1>5. X2[c] = [ctx[c] EXCEPT !.pending = p]
  BY <1>2
<1>6. X2[c] \in [pending : Int, final : BOOLEAN] /\ X2[c].final = ctx[c].final
  BY <1>1, <1>5
<1>7. \A x \in DOMAIN X2 : X2[x] \in [pending : Int, final : BOOLEAN]
  BY <1>1, <1>3, <1>4, <1>6
<1> QED BY <1>3, <1>4, <1>6, <1>7 DEF CtxOK, WithKeys, X2

\* The block b ran, or was abandoned: the activation goes on.
LEMMA BlockStep ==
  ASSUME prog \in Programs, Good(ctx, bb, retained, stack), NEW b, at(b), naturalScope(b) = top.l,
         BlocksOK(bb', DOMAIN ctx), DOMAIN bb \subseteq DOMAIN bb',
         \A k \in DOMAIN bb' : k \notin DOMAIN bb => Made(top.c, b, k),
         Keeps(bb, bb', DOMAIN ctx \ Spine(top.c)),
         NEW p \in Int, ctx' = [ctx EXCEPT ![top.c].pending = p],
         NEW ch \in BOOLEAN, advance(b, ch), retained' = retained
  PROVE  GoodStep
<1> DEFINE C == DOMAIN ctx
           t == top
           f == goOn(t, b + 1, t.changed \/ ch)
<1>1. /\ ContextsOK(C) /\ CtxOK(ctx) /\ BlocksOK(bb, C) /\ StackOK(stack, DOMAIN bb, C)
      /\ RetainedOK(retained, DOMAIN bb, C)
  BY DEF Good
<1>2. DOMAIN bb \subseteq C \X Blocks
  BY <1>1 DEF BlocksOK
<1>3. /\ TopFrame(C, t) /\ t.op \in {"analyse", "loop"}
      /\ b \in Blocks /\ <<t.c, b>> \in DOMAIN bb /\ t.i <= b
  BY <1>1, <1>2, AtFacts
<1>4. stack # << >> /\ t.c \in C /\ t \in Frames(C) /\ t.changed \in BOOLEAN
  BY <1>3, FrameFields DEF TopFrame
<1>5. /\ ~closed(ctx, t.c) /\ stack \in Seq(Frames(C)) /\ Len(stack) \in 1..Len(stack)
      /\ t = stack[Len(stack)]
  BY <1>4, TopOpen
<1>6. stack' = cut(stack, Len(stack), f)
  <2>1. f = [t EXCEPT !.i = b + 1, !.changed = @ \/ ch]
    BY DEF goOn
  <2>2. stack' = Append(SubSeq(stack, 1, Len(stack) - 1), f)
    BY <2>1 DEF advance, replaceTop, Front
  <2> QED BY <2>2 DEF cut
<1>7. StackOK(stack', DOMAIN bb', C)
  <2>1. (t.changed \/ ch) \in BOOLEAN /\ t.op # "peel"
    BY <1>3, <1>4
  <2> HIDE DEF t, f
  <2>2. StackOK(cut(stack, Len(stack), goOn(stack[Len(stack)], b + 1, t.changed \/ ch)), DOMAIN bb', C)
    BY <1>1, <1>3, <1>4, <1>5, <2>1, AdvancedStack DEF t
  <2> QED BY <1>5, <1>6, <2>2 DEF f
<1>8. From(stack, stack')
  <2>1. f.c = t.c /\ f.op = t.op /\ f.l = t.l
    <3>1. b + 1 \in Nat
      BY <1>3, Shape
    <3>2. (t.changed \/ ch) \in BOOLEAN
      OBVIOUS
    <3> QED BY <1>4, <3>1, <3>2, GoOnFields
  <2> HIDE DEF t, f
  <2> QED BY <1>5, <1>6, <2>1, FromCut
<1>9. /\ DOMAIN ctx' = C /\ CtxOK(ctx')
      /\ \A x \in C : ctx'[x].final = ctx[x].final /\ (x # t.c => ctx'[x] = ctx[x])
  <2> DEFINE X2 == withPending(ctx, t.c, p)
  <2>1. ctx' = X2 /\ t.c \in DOMAIN ctx /\ CtxOK(ctx)
    BY <1>1, <1>4 DEF withPending
  <2> HIDE DEF t
  <2>2. /\ DOMAIN X2 = C /\ CtxOK(X2)
        /\ \A x \in C : X2[x].final = ctx[x].final /\ (x # t.c => X2[x] = ctx[x])
    BY <2>1, PendingOK
  <2> HIDE DEF X2
  <2> QED BY <2>1, <2>2, Zenon
<1>10. RetainedOK(retained', DOMAIN bb', C)
  BY <1>1 DEF RetainedOK
<1> HIDE DEF t, f
<1> QED BY <1>4, <1>5, <1>7, <1>8, <1>9, <1>10, QuietStep DEF GoodStep, t

\* One lemma for each action from here on.
LEMMA HeaderStep ==
  ASSUME prog \in Programs, Good(ctx, bb, retained, stack), NEW b, analyseHeader(b)
  PROVE  GoodStep
<1> DEFINE C == DOMAIN ctx
           c == top.c
           r == analyseBlockInstructions(bb, c, b, bb[<<c, b>>].in)
           p == ctx[c].pending + r.pending
<1>1. /\ ContextsOK(C) /\ CtxOK(ctx) /\ BlocksOK(bb, C) /\ StackOK(stack, DOMAIN bb, C)
      /\ DOMAIN bb \subseteq C \X Blocks
  BY DEF Good, BlocksOK
<1>2. at(b) /\ b = firstBlock(top.l)
  BY DEF analyseHeader
<1>3. /\ c \in C /\ top.l \in Scopes /\ b \in Blocks /\ <<c, b>> \in DOMAIN bb
  BY <1>1, <1>2, AtFacts DEF TopFrame
<1>4. naturalScope(b) = top.l
  BY <1>2, <1>3, FirstScope
<1>5. /\ BlocksOK(r.bb, C) /\ r.pending \in Int /\ r.changed \in BOOLEAN
      /\ DOMAIN bb \subseteq DOMAIN r.bb
      /\ \A k \in DOMAIN r.bb : k \notin DOMAIN bb => Made(c, b, k)
      /\ Keeps(bb, r.bb, C \ Spine(c))
  <2> HIDE DEF c
  <2> QED BY <1>1, <1>3, RunBlock
<1>6. p \in Int
  BY <1>1, <1>3, <1>5 DEF CtxOK
<1>7. bb' = r.bb /\ advance(b, r.changed) /\ retained' = retained
      /\ ctx' = [ctx EXCEPT ![c].pending = @ + r.pending]
  BY DEF analyseHeader
<1>8. ctx' = [ctx EXCEPT ![top.c].pending = p]
  <2> HIDE DEF r
  <2> QED BY <1>7
<1> HIDE DEF r, p
<1> QED BY <1>2, <1>4, <1>5, <1>6, <1>7, <1>8, BlockStep

\* A block is analysed.
LEMMA BodyStep ==
  ASSUME prog \in Programs, Good(ctx, bb, retained, stack), NEW b, analyseBlock(b)
  PROVE  GoodStep
<1> DEFINE C == DOMAIN ctx
           c == top.c
           k == <<c, b>>
           s == checkBlockStatus(c, b)
           used == visitNormalPredecessorsBW(c, b)
           marked == [bb EXCEPT ![k].status = s.status]
           v == mergedValue(DOMAIN used)
           B == takeStores(dropReferences(marked, used), k, v)
           r == analyseBlockInstructions(B, c, b, v)
<1>1. /\ ContextsOK(C) /\ CtxOK(ctx) /\ BlocksOK(bb, C) /\ StackOK(stack, DOMAIN bb, C)
      /\ DOMAIN bb \subseteq C \X Blocks /\ FirstThere(DOMAIN bb, C)
  BY DEF Good, BlocksOK
<1>2. at(b) /\ b # firstBlock(top.l) /\ naturalScope(b) = top.l /\ retained' = retained
  BY DEF analyseBlock
<1>3. /\ c \in C /\ top.l \in Scopes /\ b \in Blocks /\ k \in DOMAIN bb
      /\ contains(scope(c), top.l) /\ contains(top.l, b)
  BY <1>1, <1>2, AtFacts DEF TopFrame, FrameOK
<1>4. contains(scope(c), b) /\ scope(c) \in Scopes
  <2>1. scope(c) \in Scopes
    <3> HIDE DEF c
    <3> QED BY <1>1, <1>3, ContextFacts
  <2> QED BY <1>3, <2>1, LoopTree
<1>5. b # scope(c)
  <2>1. ASSUME b = scope(c)
        PROVE  FALSE
    <3>1. b \in Loops
      BY <1>3, <1>4, <2>1, Shape DEF Scopes
    <3>2. naturalScope(b) = b
      BY <3>1, HeaderScope
    <3> QED BY <1>2, <3>1, <3>2, ScopeNumbers DEF firstBlock
  <2> QED BY <2>1
<1>6. DOMAIN used \subseteq DOMAIN bb /\ \A j \in DOMAIN used : used[j] \in Int
  <2> HIDE DEF c
  <2> QED BY <1>1, <1>3, <1>4, <1>5, Predecessors
<1>7. s.pending \in Int /\ s.status \in {"UNKNOWN", "CERTAIN", "ASSUMED"}
  <2> HIDE DEF c
  <2> QED BY <1>1, <1>3, BlockStatus
<1>8. Touched(bb, marked, C, c)
  <2> HIDE DEF c, s
  <2> QED BY <1>1, <1>7, TouchedField
<1>9. ~(c \in C \ Spine(c))
  <2> HIDE DEF c
  <2> QED BY <1>1, <1>3, ContextFacts
<1>10. CASE DOMAIN used = {}
  <2> DEFINE B2 == [marked EXCEPT ![k].store = NoStore]
  <2>1. Touched(marked, B2, C, c)
    <3>1. BlocksOK(marked, C)
      BY <1>8 DEF Touched
    <3> HIDE DEF marked, c
    <3> QED BY <3>1, TouchedField
  <2>2. Touched(bb, B2, C, c)
    <3> HIDE DEF B2, marked, c
    <3> QED BY <1>8, <2>1, TouchedTrans
  <2>3. bb' = B2 /\ ctx' = [ctx EXCEPT ![top.c].pending = s.pending] /\ advance(b, FALSE)
    BY <1>10 DEF analyseBlock
  <2>4. BlocksOK(bb', C) /\ DOMAIN bb' = DOMAIN bb /\ Keeps(bb, bb', C \ Spine(c))
    <3> HIDE DEF B2, c
    <3> QED BY <1>9, <2>2, <2>3 DEF Touched
  <2> HIDE DEF s
  <2> QED BY <1>2, <1>7, <2>3, <2>4, BlockStep
<1>11. CASE DOMAIN used # {}
  <2> DEFINE p == s.pending + r.pending
             B1 == dropReferences(marked, used)
  <2>1. Touched(marked, B1, C, c)
    <3>1. BlocksOK(marked, C)
      BY <1>8 DEF Touched
    <3> HIDE DEF marked, c, used
    <3> QED BY <1>6, <3>1, TouchedReferences
  <2>2. v \in Cells
    <3> HIDE DEF used
    <3> QED BY <1>1, <1>6, MergedType
  <2>3. Touched(B1, B, C, c)
    <3>1. BlocksOK(B1, C)
      BY <2>1 DEF Touched
    <3> HIDE DEF B1, c, v
    <3> QED BY <2>2, <3>1, TouchedTake DEF B1
  <2>4. Touched(bb, B, C, c)
    <3> HIDE DEF B, B1, marked, c
    <3> QED BY <1>8, <2>1, <2>3, TouchedTrans
  <2>5. BlocksOK(B, C) /\ DOMAIN B = DOMAIN bb /\ Keeps(bb, B, C \ Spine(c))
    <3> HIDE DEF B, c
    <3> QED BY <1>9, <2>4 DEF Touched
  <2>6. /\ BlocksOK(r.bb, C) /\ r.pending \in Int /\ r.changed \in BOOLEAN
        /\ DOMAIN B \subseteq DOMAIN r.bb
        /\ \A j \in DOMAIN r.bb : j \notin DOMAIN B => Made(c, b, j)
        /\ Keeps(B, r.bb, C \ Spine(c))
    <3> HIDE DEF c, B, v
    <3> QED BY <1>1, <1>3, <2>5, RunBlock
  <2>7. Keeps(bb, r.bb, C \ Spine(c))
    <3> HIDE DEF c, B, r
    <3> QED BY <2>5, <2>6, KeepsTrans
  <2>8. bb' = r.bb /\ ctx' = [ctx EXCEPT ![top.c].pending = p] /\ advance(b, r.changed)
    BY <1>11 DEF analyseBlock
  <2>9. p \in Int
    BY <1>7, <2>6
  <2> HIDE DEF p, r, B
  <2>10. BlocksOK(bb', C) /\ DOMAIN bb \subseteq DOMAIN bb' /\ Keeps(bb, bb', C \ Spine(top.c))
         /\ \A j \in DOMAIN bb' : j \notin DOMAIN bb => Made(top.c, b, j)
    BY <2>5, <2>6, <2>7, <2>8
  <2> QED BY <1>2, <2>6, <2>8, <2>9, <2>10, BlockStep
<1> QED BY <1>10, <1>11

-----------------------------------------------------------------------------
(* Iterations begin.                                                        *)

\* Two activations put on the stack, one after the other.
LEMMA TwoPushed ==
  ASSUME NEW F, NEW S \in Seq(F), NEW a, NEW b
  PROVE  /\ S \o <<a, b>> = Append(Append(S, a), b)
         /\ Front(S) \o <<a, b>> = Append(Append(SubSeq(S, 1, Len(S) - 1), a), b)
<1>1. ASSUME NEW T \in Seq(F)
      PROVE  T \o <<a, b>> = Append(Append(T, a), b)
  BY <1>1
<1>2. Front(S) = SubSeq(S, 1, Len(S) - 1)
  BY DEF Front
<1>3. S # << >> => SubSeq(S, 1, Len(S) - 1) \in Seq(F)
  OBVIOUS
<1>4. S = << >> => SubSeq(S, 1, Len(S) - 1) = << >> /\ << >> \in Seq(F)
  OBVIOUS
<1> QED BY <1>1, <1>2, <1>3, <1>4

\* The activations S2 are those of S, one of the exploration of loop l in c, and some of d.
NewFrames(S, S2, c, l, d) == \A n \in 1..Len(S2) :
    \/ S2[n].c = d /\ S2[n].op # "peel"
    \/ S2[n].c = c /\ S2[n].l = l
    \/ \E m \in 1..Len(S) : S2[n] = S[m]

\* Iteration d, the i-th of loop l in context c, is begun.
LEMMA BeginStep ==
  ASSUME prog \in Programs, Good(ctx, bb, retained, stack),
         NEW B, BlocksOK(B, DOMAIN ctx), DOMAIN B = DOMAIN bb, \A D : Keeps(bb, B, D),
         NEW C2, NEW K2, NEW c, NEW l, NEW i, NEW d, Grown(DOMAIN ctx, C2, DOMAIN bb, K2, c, l, i, d),
         Child(scope(c), l), iterationSource(c, l, i) \in DOMAIN bb,
         \A j \in Its(DOMAIN ctx, c, l) : j < i, ~closed(ctx, c), ~ended(ctx, c, l),
         beginIteration(B, c, l, i), retained' = retained, StackOK(stack', K2, C2),
         NewFrames(stack, stack', c, l, d)
  PROVE  GoodStep
<1> DEFINE C == DOMAIN ctx
<1>1. /\ ContextsOK(C) /\ CtxOK(ctx) /\ BlocksOK(bb, C) /\ StackOK(stack, DOMAIN bb, C)
      /\ FirstThere(DOMAIN bb, C) /\ RetainedOK(retained, DOMAIN bb, C) /\ Open(stack, ctx)
  BY DEF Good
<1>2. /\ c \in C /\ l \in Loops /\ i \in 0..MaxIter /\ i \in Nat
      /\ d = iteration(c, l, i) /\ d \notin C /\ C2 = C \cup {d}
      /\ K2 = DOMAIN bb \cup {<<d, l>>}
  BY ValuesAssumption DEF Grown
<1>3. /\ BlocksOK(bb', C2) /\ DOMAIN bb' = K2 /\ DOMAIN ctx' = C2 /\ CtxOK(ctx')
      /\ \A x \in DOMAIN ctx : ctx'[x] = ctx[x]
      /\ ctx'[d].final = FALSE
      /\ Keeps(B, bb', C)
  BY <1>1, Begun
<1>4. ContextsOK(C2)
  BY <1>1, <1>2, ContextsGrow
<1>5. FirstThere(K2, C2)
  <2>1. scope(d) = l
    <3>1. c \in Seq(Loops \X Nat)
      BY <1>1, <1>2, ContextFacts
    <3>2. scope(iteration(c, l, i)) = l
      BY <1>2, <3>1, IterationFacts
    <3> QED BY <1>2, <3>2
  <2>2. firstBlock(scope(d)) = l
    BY <1>2, <2>1, ScopeNumbers DEF firstBlock
  <2> QED BY <1>1, <1>2, <2>2 DEF FirstThere
<1>6. RetainedOK(retained', K2, C2)
  BY <1>1, <1>2 DEF RetainedOK
<1>7. /\ \A c2 \in C : \A m : ended(ctx', c2, m) <=> ended(ctx, c2, m)
      /\ \A e \in C : closed(ctx', e) <=> closed(ctx, e)
      /\ ~closed(ctx', d)
  <2>1. Grown(DOMAIN ctx, DOMAIN ctx', DOMAIN bb, K2, c, l, i, d)
    BY <1>3
  <2> QED BY <1>3, <2>1, NotEndedYet
<1>8. Open(stack', ctx')
  <2>1. ASSUME NEW n \in 1..Len(stack')
        PROVE  ~closed(ctx', stack'[n].c)
               /\ (stack'[n].op = "peel" => ~ended(ctx', stack'[n].c, stack'[n].l))
    <3>1. CASE stack'[n].c = d /\ stack'[n].op # "peel"
      BY <1>7, <3>1
    <3>2. CASE stack'[n].c = c /\ stack'[n].l = l
      BY <1>2, <1>7, <3>2
    <3>3. CASE \E m \in 1..Len(stack) : stack'[n] = stack[m]
      <4>1. PICK m \in 1..Len(stack) : stack'[n] = stack[m]
        BY <3>3
      <4>2. stack[m].c \in C
        <5>1. stack \in Seq(Frames(C))
          BY <1>1 DEF StackOK
        <5>2. stack[m] \in Frames(C)
          BY <5>1
        <5> QED BY <5>2, FrameFields
      <4>3. ~closed(ctx, stack[m].c) /\ (stack[m].op = "peel" => ~ended(ctx, stack[m].c, stack[m].l))
        BY <1>1 DEF Open
      <4> QED BY <1>7, <4>1, <4>2, <4>3, Zenon
    <3> QED BY <3>1, <3>2, <3>3 DEF NewFrames
  <2> QED BY <2>1 DEF Open
<1>9. Good(ctx', bb', retained', stack')
  BY <1>3, <1>4, <1>5, <1>6, <1>8 DEF Good
<1>10. ASSUME NEW e \in C, closed(ctx, e)
       PROVE  e \in DOMAIN ctx' /\ ctx'[e] = ctx[e] /\ closed(ctx', e) /\ Keeps(bb, bb', {e})
  <2>1. Keeps(B, bb', {e}) /\ Keeps(bb, B, {e})
    BY <1>3, KeepsPart
  <2>2. Keeps(bb, bb', {e})
    BY <2>1, KeepsTrans
  <2> QED BY <1>2, <1>3, <1>7, <1>10, <2>2
<1> QED BY <1>9, <1>10 DEF GoodStep, Kept

\* The walk is at the header of a loop directly inside its own.
LEMMA HeaderReached ==
  ASSUME prog \in Programs, Good(ctx, bb, retained, stack), NEW l \in Loops, at(l), l # top.l
  PROVE  Child(top.l, l) /\ Entered(DOMAIN bb, top.c, l)
<1>1. /\ StackOK(stack, DOMAIN bb, DOMAIN ctx) /\ DOMAIN bb \subseteq (DOMAIN ctx) \X Blocks
  BY DEF Good, BlocksOK
<1>2. /\ TopFrame(DOMAIN ctx, top) /\ top.op \in {"analyse", "loop"}
      /\ <<top.c, l>> \in DOMAIN bb /\ top.i <= l /\ contains(top.l, l)
      /\ \A y \in Blocks : top.i <= y /\ contains(top.l, y) /\ <<top.c, y>> \in DOMAIN bb => l <= y
  BY <1>1, AtFacts
<1>3. top.l \in Scopes /\ top.i \in Nat /\ FrameOK(DOMAIN bb, DOMAIN ctx, top)
  BY <1>2 DEF TopFrame
<1> QED BY <1>2, <1>3, NextLoop

\* A loop's iterations begin to be explored.
LEMMA PeelStep ==
  ASSUME prog \in Programs, Good(ctx, bb, retained, stack), NEW l \in Loops, enterPeel(l)
  PROVE  GoodStep
<1> DEFINE C == DOMAIN ctx
           c == top.c
           d == iteration(c, l, 0)
           B == refStores(bb, <<c, preheaderIdx(l)>>, 1)
           C2 == C \cup {d}
           K2 == DOMAIN bb \cup {<<d, l>>}
           p == peelFrame(c, l, 0)
           a == analyseFrame(d, l)
<1>1. /\ ContextsOK(C) /\ CtxOK(ctx) /\ BlocksOK(bb, C) /\ StackOK(stack, DOMAIN bb, C)
      /\ DOMAIN bb \subseteq C \X Blocks
  BY DEF Good, BlocksOK
<1>2. /\ at(l) /\ l # top.l /\ ~inLoopAnalyser /\ retained' = retained
      /\ beginIteration(B, c, l, 0) /\ stack' = stack \o <<p, a>>
  BY DEF enterPeel
<1>3. Child(top.l, l) /\ Entered(DOMAIN bb, c, l)
  BY <1>2, HeaderReached
<1>4. TopFrame(C, top) /\ top.op = "analyse" /\ top.i <= l
  <2>1. TopFrame(C, top) /\ top.op \in {"analyse", "loop"} /\ top.i <= l
    BY <1>1, <1>2, AtFacts
  <2> QED BY <1>2, <2>1 DEF inLoopAnalyser
<1>5. /\ stack # << >> /\ top = stack[Len(stack)] /\ stack \in Seq(Frames(C))
      /\ ~closed(ctx, c) /\ Len(stack) \in 1..Len(stack)
  BY <1>4, TopOpen DEF TopFrame
<1>6. /\ Its(C, c, l) = {} /\ d \notin C /\ c \in C /\ Child(scope(c), l)
      /\ StackOK(Append(Append(stack, p), a), K2, C2)
  <2>1. Exploring(C, DOMAIN bb, stack, top, c, l, d)
    BY <1>1, <1>3, <1>4, <1>5 DEF Exploring
  <2> HIDE DEF c, d, C
  <2> QED BY <2>1, PeelStack
<1>7. stack' = Append(Append(stack, p), a)
  <2> HIDE DEF p, a, C
  <2> QED BY <1>2, <1>5, TwoPushed
<1>8. BlocksOK(B, C) /\ DOMAIN B = DOMAIN bb /\ \A D : Keeps(bb, B, D)
  BY <1>1, RefStores, RereferencedOK
<1>9. 0 \in 0..MaxIter
  BY ValuesAssumption
<1>10. Grown(C, C2, DOMAIN bb, K2, c, l, 0, d)
  <2> HIDE DEF c
  <2> QED BY <1>1, <1>6, <1>9 DEF Grown
<1>11. iterationSource(c, l, 0) \in DOMAIN bb
  BY <1>3 DEF Entered, iterationSource
<1>12. ~ended(ctx, c, l)
  BY <1>6 DEF ended
<1>13. NewFrames(stack, stack', c, l, d)
  <2> SUFFICES ASSUME NEW n \in 1..Len(stack')
               PROVE  \/ stack'[n].c = d /\ stack'[n].op # "peel"
                      \/ stack'[n].c = c /\ stack'[n].l = l
                      \/ \E m \in 1..Len(stack) : stack'[n] = stack[m]
    BY DEF NewFrames
  <2>1. /\ p.c = c /\ p.l = l /\ a.c = d /\ a.op # "peel"
    BY DEF peelFrame, analyseFrame
  <2> DEFINE S1 == Append(stack, p)
  <2> HIDE DEF p, a, c, d, C
  <2>2. /\ Len(S1) = Len(stack) + 1 /\ S1[Len(stack) + 1] = p
        /\ \A m \in 1..Len(stack) : S1[m] = stack[m]
        /\ \A G : Frames(C) \subseteq G /\ p \in G => S1 \in Seq(G)
    BY <1>5, PushFacts
  <2>3. S1 \in Seq(Frames(C) \cup {p})
    BY <2>2
  <2> HIDE DEF S1
  <2>4. /\ Len(stack') = Len(S1) + 1 /\ stack'[Len(S1) + 1] = a
        /\ \A m \in 1..Len(S1) : stack'[m] = S1[m]
    <3>1. stack' = Append(S1, a)
      BY <1>7 DEF S1
    <3> QED BY <2>3, <3>1, PushFacts
  <2>5. Len(stack) \in Nat
    BY <1>5
  <2>6. CASE n = Len(S1) + 1
    BY <2>1, <2>4, <2>6
  <2>7. CASE n = Len(S1)
    BY <2>1, <2>2, <2>4, <2>5, <2>7
  <2>8. CASE n # Len(S1) /\ n # Len(S1) + 1
    <3>1. n \in 1..Len(stack) /\ n \in 1..Len(S1)
      BY <2>2, <2>4, <2>5, <2>8
    <3>2. stack'[n] = stack[n]
      BY <2>2, <2>4, <3>1
    <3> QED BY <3>1, <3>2
  <2> QED BY <2>6, <2>7, <2>8
<1>14. \A j \in Its(C, c, l) : j < 0
  BY <1>6
<1>15. StackOK(stack', K2, C2)
  BY <1>6, <1>7
<1> HIDE DEF c, d, B, C2, K2, p, a
<1> QED BY <1>2, <1>5, <1>6, <1>8, <1>10, <1>11, <1>12, <1>13, <1>14, <1>15, BeginStep

\* The next iteration begins.
LEMMA NextIterationStep ==
  ASSUME prog \in Programs, Good(ctx, bb, retained, stack), nextIteration
  PROVE  GoodStep
<1> DEFINE C == DOMAIN ctx
           c == top.c
           l == top.l
           i == top.i
           d == iteration(c, l, i + 1)
           C2 == C \cup {d}
           K2 == DOMAIN bb \cup {<<d, l>>}
           f == [top EXCEPT !.i = @ + 1]
           a == analyseFrame(d, l)
           T == cut(stack, Len(stack), f)
<1>1. /\ ContextsOK(C) /\ CtxOK(ctx) /\ BlocksOK(bb, C) /\ StackOK(stack, DOMAIN bb, C)
      /\ DOMAIN bb \subseteq C \X Blocks
  BY DEF Good, BlocksOK
<1>2. /\ stack # << >> /\ top.op = "peel" /\ i < MaxIter /\ retained' = retained
      /\ latchReached(c, l, i) /\ beginIteration(bb, c, l, i + 1)
      /\ stack' = Front(stack) \o <<f, a>>
  BY DEF nextIteration, running
<1>3. /\ top = stack[Len(stack)] /\ stack \in Seq(Frames(C)) /\ TopFrame(C, top)
      /\ ~closed(ctx, c) /\ ~ended(ctx, c, l) /\ Len(stack) \in 1..Len(stack)
  BY <1>2, TopOpen
<1>4. /\ i \in Nat /\ i + 1 \in 0..MaxIter /\ Its(C, c, l) = 0..i /\ d \notin C /\ c \in C
      /\ Child(scope(c), l) /\ StackOK(Append(T, a), K2, C2)
  <2>1. GoingRound(C, DOMAIN bb, stack, top, f, c, l, i, d)
    BY <1>1, <1>2, <1>3 DEF GoingRound
  <2> HIDE DEF c, l, i, d, C, f
  <2> QED BY <2>1, NextStack
<1>5. stack' = Append(T, a)
  <2>1. Front(stack) \o <<f, a>> = Append(Append(SubSeq(stack, 1, Len(stack) - 1), f), a)
    <3> HIDE DEF f, a, C
    <3> QED BY <1>3, TwoPushed
  <2> QED BY <1>2, <2>1 DEF cut
<1>6. Grown(C, C2, DOMAIN bb, K2, c, l, i + 1, d)
  <2>1. l \in Loops
    BY <1>4 DEF Child
  <2> HIDE DEF c, l, i
  <2> QED BY <1>1, <1>4, <2>1 DEF Grown
<1>7. iterationSource(c, l, i + 1) \in DOMAIN bb
  BY <1>2 DEF latchReached
<1>8. \A j \in Its(C, c, l) : j < i + 1
  <2> HIDE DEF c, l, i
  <2> QED BY <1>4
<1>9. NewFrames(stack, stack', c, l, d)
  <2> SUFFICES ASSUME NEW n \in 1..Len(stack')
               PROVE  \/ stack'[n].c = d /\ stack'[n].op # "peel"
                      \/ stack'[n].c = c /\ stack'[n].l = l
                      \/ \E m \in 1..Len(stack) : stack'[n] = stack[m]
    BY DEF NewFrames
  <2>1. f.c = c /\ f.l = l
    BY <1>3, FrameFields DEF TopFrame, Frames, PlainFrame, LoopFrame
  <2>2. a.c = d /\ a.op # "peel"
    BY DEF analyseFrame
  <2> HIDE DEF f, a, c, d, l, i, C
  <2>3. /\ Len(T) = Len(stack) /\ T[Len(stack)] = f
        /\ \A m \in 1..(Len(stack) - 1) : T[m] = stack[m]
        /\ \A G : Frames(C) \subseteq G /\ f \in G => T \in Seq(G)
    BY <1>3, CutFacts
  <2>4. T \in Seq(Frames(C) \cup {f})
    BY <2>3
  <2> HIDE DEF T
  <2>5. /\ Len(stack') = Len(T) + 1 /\ stack'[Len(T) + 1] = a
        /\ \A m \in 1..Len(T) : stack'[m] = T[m]
    BY <1>5, <2>4, PushFacts
  <2>6. Len(stack) \in Nat
    BY <1>3
  <2>7. CASE n = Len(T) + 1
    BY <2>2, <2>5, <2>7
  <2>8. CASE n = Len(T)
    BY <2>1, <2>3, <2>5, <2>6, <2>8
  <2>9. CASE n # Len(T) /\ n # Len(T) + 1
    <3>1. n \in 1..(Len(stack) - 1) /\ n \in 1..Len(T) /\ n \in 1..Len(stack)
      BY <2>3, <2>5, <2>6, <2>9
    <3>2. stack'[n] = stack[n]
      BY <2>3, <2>5, <3>1
    <3> QED BY <3>1, <3>2
  <2> QED BY <2>7, <2>8, <2>9
<1>10. StackOK(stack', K2, C2)
  BY <1>4, <1>5
<1>11. \A D : Keeps(bb, bb, D)
  BY DEF Keeps
<1> HIDE DEF c, d, l, i, C2, K2, f, a, T
<1> QED BY <1>1, <1>2, <1>3, <1>4, <1>6, <1>7, <1>8, <1>9, <1>10, <1>11, BeginStep

\* A step that touches the activations, and references, only.
LEMMA StackStep ==
  ASSUME prog \in Programs, Good(ctx, bb, retained, stack), stack # << >>,
         ctx' = ctx, Rereferenced(bb, bb'), retained' = retained,
         StackOK(stack', DOMAIN bb, DOMAIN ctx), From(stack, stack')
  PROVE  GoodStep
<1>1. /\ BlocksOK(bb, DOMAIN ctx) /\ CtxOK(ctx) /\ RetainedOK(retained, DOMAIN bb, DOMAIN ctx)
  BY DEF Good
<1>2. BlocksOK(bb', DOMAIN ctx) /\ DOMAIN bb' = DOMAIN bb /\ \A D : Keeps(bb, bb', D)
  BY <1>1, RereferencedOK
<1>3. top.c \in DOMAIN ctx /\ ~closed(ctx, top.c)
  BY TopOpen DEF TopFrame
<1>4. Keeps(bb, bb', DOMAIN ctx \ Spine(top.c))
  BY <1>2
<1>5. /\ DOMAIN ctx' = DOMAIN ctx /\ CtxOK(ctx')
      /\ \A x \in DOMAIN ctx : ctx'[x].final = ctx[x].final /\ (x # top.c => ctx'[x] = ctx[x])
  BY <1>1
<1>6. RetainedOK(retained', DOMAIN bb', DOMAIN ctx) /\ StackOK(stack', DOMAIN bb', DOMAIN ctx)
  BY <1>1, <1>2
<1> QED BY <1>2, <1>3, <1>4, <1>5, <1>6, QuietStep DEF GoodStep

\* No change to the blocks is a change of references only.
LEMMA SameBlocks ==
  ASSUME NEW C, BlocksOK(bb, C), bb' = bb
  PROVE  Rereferenced(bb, bb')
<1>1. \A k \in DOMAIN bb : bb[k].local \in Int /\ bb[k].fd \in Int
                           /\ bb[k] = [bb[k] EXCEPT !.local = bb[k].local, !.fd = bb[k].fd]
  BY DEF BlocksOK, BlockType
<1> QED BY <1>1 DEF Rereferenced, BlocksOK

\* A loop's general analysis begins.
LEMMA LoopStep ==
  ASSUME prog \in Programs, Good(ctx, bb, retained, stack), NEW l \in Loops, enterLoop(l)
  PROVE  GoodStep
<1> DEFINE C == DOMAIN ctx
           f == loopFrame(top.c, l, inLoopAnalyser)
<1>1. /\ ContextsOK(C) /\ BlocksOK(bb, C) /\ StackOK(stack, DOMAIN bb, C)
      /\ DOMAIN bb \subseteq C \X Blocks
  BY DEF Good, BlocksOK
<1>2. /\ at(l) /\ l # top.l /\ stack' = Append(stack, f)
      /\ bb' = bb /\ ctx' = ctx /\ retained' = retained
  BY DEF enterLoop
<1>3. Child(top.l, l) /\ Entered(DOMAIN bb, top.c, l)
  BY <1>2, HeaderReached
<1>4. stack # << >> /\ top.op # "peel" /\ top.i <= l
  <2>1. TopFrame(C, top) /\ top.op \in {"analyse", "loop"} /\ top.i <= l
    BY <1>1, <1>2, AtFacts
  <2> QED BY <2>1 DEF TopFrame
<1>5. top = stack[Len(stack)] /\ stack \in Seq(Frames(C))
  BY <1>4, TopOpen
<1>6. StackOK(stack', DOMAIN bb, C)
  <2>1. inLoopAnalyser \in BOOLEAN
    BY DEF inLoopAnalyser
  <2>2. StackOK(Append(stack, loopFrame(stack[Len(stack)].c, l, inLoopAnalyser)), DOMAIN bb, C)
    BY <1>1, <1>3, <1>4, <1>5, <2>1, EnteredLoop
  <2> QED BY <1>2, <1>5, <2>2
<1>7. From(stack, stack')
  <2>1. f.c = stack[Len(stack)].c /\ f.op # "peel"
    BY <1>5 DEF loopFrame
  <2> HIDE DEF f, C
  <2> QED BY <1>2, <1>4, <1>5, <2>1, FromPush
<1>8. Rereferenced(bb, bb')
  BY <1>1, <1>2, SameBlocks
<1> QED BY <1>2, <1>4, <1>6, <1>7, <1>8, StackStep

\* The walk of a context ends.
LEMMA EndContextStep ==
  ASSUME prog \in Programs, Good(ctx, bb, retained, stack), endContext
  PROVE  GoodStep
<1>1. /\ ContextsOK(DOMAIN ctx) /\ BlocksOK(bb, DOMAIN ctx) /\ StackOK(stack, DOMAIN bb, DOMAIN ctx)
  BY DEF Good
<1>2. /\ stack # << >> /\ top.op = "analyse" /\ Len(stack) > 1 /\ stack' = Front(stack)
      /\ bb' = bb /\ ctx' = ctx /\ retained' = retained
  BY DEF endContext, running
<1>3. top = stack[Len(stack)]
  BY <1>2, TopOpen
<1>4. StackOK(stack', DOMAIN bb, DOMAIN ctx)
      /\ \A n \in 1..Len(stack') : n \in 1..Len(stack) /\ stack'[n] = stack[n]
  BY <1>1, <1>2, <1>3, EndedContext
<1>5. From(stack, stack')
  BY <1>4 DEF From
<1>6. Rereferenced(bb, bb')
  BY <1>1, <1>2, SameBlocks
<1> QED BY <1>2, <1>4, <1>5, <1>6, StackStep

\* The walk of the function ends, and its stores are dropped.
LEMMA ReturnStep ==
  ASSUME prog \in Programs, Good(ctx, bb, retained, stack), callReturn
  PROVE  GoodStep
<1>1. BlocksOK(bb, DOMAIN ctx)
  BY DEF Good
<1> DEFINE used == [k \in {j \in visitLiveReturnBlocks : bb[j].store # NoStore} |-> 1]
<1>2. /\ stack # << >> /\ stack' = << >> /\ ctx' = ctx /\ retained' = retained
      /\ bb' = dropReferences(bb, used)
  BY DEF callReturn, running
<1>3. \A k \in DOMAIN used : used[k] \in Int
  OBVIOUS
<1>4. Rereferenced(bb, bb')
  <2> HIDE DEF used
  <2> QED BY <1>1, <1>2, <1>3, DropReferences
<1>5. StackOK(stack', DOMAIN bb, DOMAIN ctx)
  BY <1>2 DEF StackOK, StackShape
<1>6. From(stack, stack')
  BY <1>2 DEF From
<1> QED BY <1>2, <1>4, <1>5, <1>6, StackStep

\* The exploration of a loop is given up.
LEMMA AbandonStep ==
  ASSUME prog \in Programs, Good(ctx, bb, retained, stack), abandonPeel
  PROVE  GoodStep
<1> DEFINE f == loopFrame(top.c, top.l, FALSE)
<1>1. /\ ContextsOK(DOMAIN ctx) /\ BlocksOK(bb, DOMAIN ctx) /\ StackOK(stack, DOMAIN bb, DOMAIN ctx)
  BY DEF Good
<1>2. /\ stack # << >> /\ top.op = "peel" /\ ctx' = ctx /\ retained' = retained
      /\ bb' = dropNonterminatedStoreRefs(top.c, top.l, top.i) /\ replaceTop(f)
  BY DEF abandonPeel, running
<1>3. top = stack[Len(stack)] /\ stack \in Seq(Frames(DOMAIN ctx)) /\ Len(stack) \in 1..Len(stack)
  BY <1>2, TopOpen
<1>4. stack' = cut(stack, Len(stack), f)
  BY <1>2 DEF replaceTop, cut, Front
<1>5. StackOK(stack', DOMAIN bb, DOMAIN ctx)
  BY <1>1, <1>2, <1>3, <1>4, AbandonedStack
<1>6. From(stack, stack')
  <2>1. f.c = stack[Len(stack)].c /\ f.op # "peel"
    BY <1>3 DEF loopFrame
  <2> HIDE DEF f
  <2> QED BY <1>3, <1>4, <2>1, FromCut
<1>7. Rereferenced(bb, bb')
  BY <1>1, <1>2, DroppedExits
<1> QED BY <1>2, <1>5, <1>6, <1>7, StackStep

-----------------------------------------------------------------------------
(* Loops are left.                                                          *)

withFinal(X, c, p, d) ==
    [X EXCEPT ![c].pending = p, ![d] = [pending |-> 0, final |-> TRUE]]

\* The last iteration is made final.
LEMMA FinalOK ==
  ASSUME CtxOK(ctx), NEW c \in DOMAIN ctx, NEW p \in Int, NEW d \in DOMAIN ctx
  PROVE  LET X2 == withFinal(ctx, c, p, d) IN
         /\ DOMAIN X2 = DOMAIN ctx /\ CtxOK(X2) /\ X2[d].final = TRUE
         /\ \A x \in DOMAIN ctx : x # d => X2[x].final = ctx[x].final
         /\ \A x \in DOMAIN ctx : x # d /\ x # c => X2[x] = ctx[x]
<1> DEFINE Y == withPending(ctx, c, p)
           X2 == withFinal(ctx, c, p, d)
           r == [pending |-> 0, final |-> TRUE]
<1>1. /\ DOMAIN Y = DOMAIN ctx /\ CtxOK(Y)
      /\ \A x \in DOMAIN ctx : Y[x].final = ctx[x].final /\ (x # c => Y[x] = ctx[x])
  BY PendingOK
<1>2. X2 = [Y EXCEPT ![d] = r]
  BY DEF withFinal, withPending
<1> HIDE DEF Y, X2
<1>3. X2 = [x \in DOMAIN ctx |-> IF x = d THEN r ELSE Y[x]]
  BY <1>1, <1>2 DEF CtxOK, WithKeys
<1>4. DOMAIN X2 = DOMAIN ctx /\ X2 = [x \in DOMAIN X2 |-> X2[x]] /\ X2[d] = r
      /\ \A x \in DOMAIN ctx : x # d => X2[x] = Y[x]
  BY <1>3
<1>5. r \in [pending : Int, final : BOOLEAN] /\ r.final = TRUE
  OBVIOUS
<1> HIDE DEF r
<1>6. \A x \in DOMAIN X2 : X2[x] \in [pending : Int, final : BOOLEAN]
  BY <1>1, <1>4, <1>5 DEF CtxOK
<1> QED BY <1>1, <1>4, <1>5, <1>6 DEF CtxOK, WithKeys, X2

\* The activation below goes on after loop t.l.
LEMMA LeaveLoop ==
  ASSUME prog \in Programs, NEW C, ContextsOK(C), NEW K, NEW K2, K \subseteq K2,
         StackOK(stack, K, C), stack # << >>, top.op # "analyse",
         \/ K2 = K
         \/ top.op = "peel" /\ \A k \in K2 : k \notin K =>
                                 \E x \in Blocks : contains(top.l, x) /\ k = <<top.c, x>>,
         NEW ch \in BOOLEAN, leaveLoop(top.l, ch)
  PROVE  /\ StackOK(stack', K2, C) /\ Len(stack) - 1 \in 1..Len(stack)
         /\ Len(stack') = Len(stack) - 1
         /\ \A n \in 1..Len(stack') :
               /\ n \in 1..(Len(stack) - 1) /\ stack'[n].c = stack[n].c
               /\ stack'[n].op = "peel" => stack'[n] = stack[n]
<1> DEFINE t == stack[Len(stack)]
           N == Len(stack) - 1
           g == stack[N]
           f == goOn(g, LoopEnd[top.l] + 1, g.changed \/ ch)
<1>1. top = t /\ stack \in Seq(Frames(C))
  BY DEF StackOK, top, Last
<1>2. N \in 1..Len(stack) /\ g \in Frames(C) /\ g.op # "peel" /\ Child(g.l, t.l)
  BY <1>1, FrameBelow
<1>3. g.changed \in BOOLEAN /\ (g.changed \/ ch) \in BOOLEAN
  BY <1>2, FrameFields
<1>4. stack' = cut(stack, N, f)
  <2>1. f = [g EXCEPT !.i = LoopEnd[top.l] + 1, !.changed = @ \/ ch]
    BY DEF goOn
  <2>2. Len(stack) - 2 = N - 1
    BY <1>1
  <2>3. stack' = Append(SubSeq(stack, 1, Len(stack) - 2), f)
    BY <2>1 DEF leaveLoop
  <2> QED BY <2>2, <2>3 DEF cut
<1>5. StackOK(stack', K2, C)
  <2>1. Leaving(C, K, K2, stack, t, g)
    BY <1>1 DEF Leaving
  <2> HIDE DEF t, g, N
  <2>2. StackOK(cut(stack, Len(stack) - 1, goOn(g, LoopEnd[t.l] + 1, g.changed \/ ch)), K2, C)
    BY <1>3, <2>1, AfterLoop
  <2> QED BY <1>1, <1>4, <2>2 DEF N
<1>6. f.c = g.c /\ f.op = g.op
  <2>1. LoopEnd[top.l] + 1 \in Nat
    BY <1>1, <1>2, Shape DEF Child
  <2> DEFINE e == LoopEnd[top.l] + 1
             h == g.changed \/ ch
  <2>2. g \in Frames(C) /\ e \in Nat /\ h \in BOOLEAN
    BY <1>2, <1>3, <2>1
  <2>3. f = goOn(g, e, h)
    OBVIOUS
  <2> HIDE DEF g, t, N, e, h, f
  <2> QED BY ONLY <2>2, <2>3, GoOnFields
<1> HIDE DEF f
<1>7. /\ Len(stack') = N /\ stack'[N] = f
      /\ \A m \in 1..(N - 1) : stack'[m] = stack[m]
  BY <1>1, <1>2, <1>4, CutFacts
<1>8. N \in Nat
  BY <1>2
<1>9. ASSUME NEW n \in 1..Len(stack')
      PROVE  /\ n \in 1..N /\ stack'[n].c = stack[n].c
             /\ stack'[n].op = "peel" => stack'[n] = stack[n]
  <2>1. CASE n = N
    BY <1>2, <1>6, <1>7, <2>1
  <2>2. CASE n # N
    <3>1. n \in 1..(N - 1)
      BY <1>7, <1>8, <2>2
    <3> QED BY <1>7, <1>8, <3>1
  <2> QED BY <2>1, <2>2
<1> QED BY <1>2, <1>5, <1>7, <1>9

\* An exploration ends, the loop being left or not.
LEMMA EndPeelStep ==
  ASSUME prog \in Programs, Good(ctx, bb, retained, stack), endPeel
  PROVE  GoodStep
<1> DEFINE C == DOMAIN ctx
           t == top
           c == top.c
           l == top.l
           i == top.i
           d == iteration(c, l, i)
           B == refStores(bb, <<c, preheaderIdx(l)>>, -1)
           p == ctx[c].pending + ctx[d].pending - 1
           K2 == DOMAIN bb'
<1>1. /\ ContextsOK(C) /\ CtxOK(ctx) /\ BlocksOK(bb, C) /\ StackOK(stack, DOMAIN bb, C)
      /\ FirstThere(DOMAIN bb, C) /\ RetainedOK(retained, DOMAIN bb, C) /\ Open(stack, ctx)
  BY DEF Good
<1>2. /\ stack # << >> /\ top.op = "peel" /\ retained' = retained
      /\ bb' = copyLoopExitingDeadEdges(B, c, l) /\ leaveLoop(l, FALSE)
      /\ ctx' = [ctx EXCEPT ![c].pending = @ + ctx[d].pending - 1,
                            ![d] = [pending |-> 0, final |-> TRUE]]
  BY DEF endPeel, running
<1>3. /\ top = stack[Len(stack)] /\ stack \in Seq(Frames(C)) /\ TopFrame(C, top)
      /\ ~closed(ctx, c) /\ ~ended(ctx, c, l) /\ Len(stack) \in 1..Len(stack)
  BY <1>2, TopOpen
<1>4. /\ c \in C /\ contains(scope(c), l) /\ i \in 0..MaxIter /\ Its(C, c, l) = 0..i /\ i \in Nat
      /\ scope(c) \in Scopes
  <2>1. c \in C /\ FrameOK(DOMAIN bb, C, top)
    BY <1>3 DEF TopFrame
  <2>2. contains(scope(c), l) /\ i \in 0..MaxIter /\ Its(C, c, l) = 0..i
    BY <1>2, <2>1 DEF FrameOK
  <2>3. scope(c) \in Scopes
    <3> HIDE DEF c
    <3> QED BY <1>1, <2>1, ContextFacts
  <2> HIDE DEF i, c, l
  <2>4. i \in Nat
    BY <2>2, ValuesAssumption
  <2> QED BY <2>1, <2>2, <2>3, <2>4
<1>5. l \in Loops
  <2> DEFINE g == stack[Len(stack) - 1]
  <2>1. Child(g.l, t.l)
    <3>1. t = stack[Len(stack)] /\ t.op # "analyse" /\ g = stack[Len(stack) - 1]
      BY <1>2, <1>3
    <3> HIDE DEF t, g, C
    <3> QED BY <1>1, <1>2, <3>1, FrameBelow
  <2> QED BY <2>1 DEF Child
<1>6. d \in C
  <2>1. i \in Its(C, c, l)
    <3> HIDE DEF i, c, l
    <3> QED BY <1>4
  <2> QED BY <2>1 DEF Its
<1>7. BlocksOK(B, C) /\ DOMAIN B = DOMAIN bb /\ \A D : Keeps(bb, B, D)
  BY <1>1, RefStores, RereferencedOK
<1>8. /\ BlocksOK(bb', C) /\ DOMAIN bb \subseteq K2
      /\ \A k \in K2 : k \notin DOMAIN bb => \E x \in Blocks : contains(l, x) /\ k = <<c, x>>
      /\ \A D : c \notin D => Keeps(bb, bb', D)
  <2> DEFINE B2 == copyLoopExitingDeadEdges(B, c, l)
  <2> HIDE DEF B, c, l
  <2>1. /\ BlocksOK(B2, C) /\ DOMAIN B \subseteq DOMAIN B2
        /\ \A k \in DOMAIN B2 : k \notin DOMAIN B => \E x \in Blocks : contains(l, x) /\ k = <<c, x>>
        /\ \A D : c \notin D => Keeps(B, B2, D)
    BY <1>4, <1>5, <1>7, CopyExits
  <2> HIDE DEF B2
  <2>2. ASSUME NEW D, c \notin D
        PROVE  Keeps(bb, B2, D)
    BY <1>7, <2>1, <2>2, KeepsTrans
  <2>3. bb' = B2
    BY <1>2 DEF B2
  <2> QED BY <1>7, <2>1, <2>2, <2>3
<1>9. /\ DOMAIN ctx' = C /\ CtxOK(ctx') /\ ctx'[d].final = TRUE
      /\ \A x \in C : x # d => ctx'[x].final = ctx[x].final
      /\ \A x \in C : x # d /\ x # c => ctx'[x] = ctx[x]
  <2> DEFINE X2 == withFinal(ctx, c, p, d)
  <2>1. ctx' = X2
    <3> HIDE DEF c, d
    <3> QED BY <1>2 DEF withFinal
  <2>2. p \in Int
    BY <1>1, <1>4, <1>6 DEF CtxOK
  <2> HIDE DEF p, c, d
  <2>3. /\ DOMAIN X2 = DOMAIN ctx /\ CtxOK(X2) /\ X2[d].final = TRUE
        /\ \A x \in DOMAIN ctx : x # d => X2[x].final = ctx[x].final
        /\ \A x \in DOMAIN ctx : x # d /\ x # c => X2[x] = ctx[x]
    BY <1>1, <1>4, <1>6, <2>2, FinalOK
  <2> HIDE DEF X2
  <2> QED BY <2>1, <2>3, Zenon
<1>10. /\ \A c2 \in C : \A m : c2 # c \/ m # l => (ended(ctx', c2, m) <=> ended(ctx, c2, m))
       /\ \A e \in C : closed(ctx, e) => closed(ctx', e)
       /\ \A e \in C : Len(e) <= Len(c) /\ ~closed(ctx, e) => ~closed(ctx', e)
       /\ ~closed(ctx, d)
  <2>1. d = iteration(c, l, i)
    OBVIOUS
  <2> HIDE DEF c, l, i, d
  <2>2. Ending(ctx, ctx', c, l, i, d)
    BY <1>1, <1>4, <1>5, <1>9, <2>1 DEF Ending
  <2> QED BY <1>3, <2>2, NowEnded
<1>11. /\ StackOK(stack', K2, C) /\ Len(stack) - 1 \in 1..Len(stack)
       /\ Len(stack') = Len(stack) - 1
       /\ \A n \in 1..Len(stack') :
             /\ n \in 1..(Len(stack) - 1) /\ stack'[n].c = stack[n].c
             /\ stack'[n].op = "peel" => stack'[n] = stack[n]
  <2> HIDE DEF C
  <2> QED BY <1>1, <1>2, <1>8, LeaveLoop
<1>12. Open(stack', ctx')
  <2>1. ASSUME NEW n \in 1..Len(stack')
        PROVE  /\ ~closed(ctx', stack'[n].c)
               /\ stack'[n].op = "peel" => ~ended(ctx', stack'[n].c, stack'[n].l)
    <3>1. /\ n \in 1..(Len(stack) - 1) /\ n \in 1..Len(stack) /\ Len(stack) \in 1..Len(stack)
          /\ n < Len(stack) /\ stack'[n].c = stack[n].c
          /\ stack'[n].op = "peel" => stack'[n] = stack[n]
      BY <1>3, <1>11
    <3>2. stack[n].c \in C
      <4>1. stack[n] \in Frames(C)
        BY <1>3, <3>1
      <4> QED BY <4>1, FrameFields
    <3>3. Len(stack[n].c) <= Len(c)
      <4>1. Over(stack[n], stack[Len(stack)])
        BY <1>1, <3>1 DEF StackOK, StackShape
      <4> QED BY <1>3, <4>1 DEF Over
    <3>4. ~closed(ctx, stack[n].c) /\ (stack[n].op = "peel" => ~ended(ctx, stack[n].c, stack[n].l))
      BY <1>1, <3>1 DEF Open
    <3>5. stack[n].op = "peel" => stack[n].c # c
      <4>1. stack[Len(stack)].op \in {"analyse", "peel"} /\ StackShape(stack)
        BY <1>1, <1>2, <1>3 DEF StackOK
      <4>2. \/ stack[n].c # stack[Len(stack)].c
            \/ stack[n].op = "analyse"
        BY <1>1, <1>2, <1>3, <3>1, <4>1, LowerFrames
      <4> QED BY <1>3, <4>2
    <3> HIDE DEF c, l, d, C
    <3>6. ~closed(ctx', stack'[n].c)
      BY <1>10, <3>1, <3>2, <3>3, <3>4
    <3>7. ASSUME stack'[n].op = "peel"
          PROVE  ~ended(ctx', stack'[n].c, stack'[n].l)
      BY <1>10, <3>1, <3>2, <3>4, <3>5, <3>7
    <3> QED BY <3>6, <3>7
  <2> QED BY <2>1 DEF Open
<1>13. FirstThere(K2, C)
  BY <1>1, <1>8 DEF FirstThere
<1>14. RetainedOK(retained', K2, C)
  BY <1>1, <1>2, <1>8 DEF RetainedOK
<1>15. Good(ctx', bb', retained', stack')
  <2> HIDE DEF C
  <2>1. DOMAIN ctx' = C
    BY <1>9
  <2> QED BY <1>1, <1>8, <1>9, <1>11, <1>12, <1>13, <1>14, <2>1 DEF Good
<1>16. ASSUME NEW e \in C, closed(ctx, e)
       PROVE  e \in DOMAIN ctx' /\ ctx'[e] = ctx[e] /\ closed(ctx', e) /\ Keeps(bb, bb', {e})
  <2> HIDE DEF c, l, d
  <2>1. e # c /\ e # d
    BY <1>3, <1>10, <1>16
  <2> QED BY <1>8, <1>9, <1>10, <1>16, <2>1
<1> QED BY <1>15, <1>16 DEF GoodStep, Kept

-----------------------------------------------------------------------------
(* The fixed point.                                                         *)

\* A step of the fixed point: it touches blocks of the context, and its pending count.
LEMMA TouchStep ==
  ASSUME prog \in Programs, Good(ctx, bb, retained, stack), stack # << >>,
         Touched(bb, bb', DOMAIN ctx, top.c),
         NEW p \in Int, ctx' = [ctx EXCEPT ![top.c].pending = p],
         RetainedOK(retained', DOMAIN bb, DOMAIN ctx),
         StackOK(stack', DOMAIN bb, DOMAIN ctx), From(stack, stack')
  PROVE  GoodStep
<1> DEFINE C == DOMAIN ctx
           c == top.c
           X2 == withPending(ctx, c, p)
<1>1. CtxOK(ctx) /\ ContextsOK(C)
  BY DEF Good
<1>2. c \in C /\ ~closed(ctx, c)
  BY TopOpen DEF TopFrame
<1>3. c \notin C \ Spine(c)
  <2> HIDE DEF c
  <2> QED BY <1>1, <1>2, ContextFacts
<1>4. /\ BlocksOK(bb', C) /\ DOMAIN bb' = DOMAIN bb /\ Keeps(bb, bb', C \ Spine(c))
  <2> HIDE DEF c, C
  <2> QED BY <1>3 DEF Touched, C, c
<1>5. ctx' = X2
  BY DEF withPending
<1>6. /\ DOMAIN ctx' = C /\ CtxOK(ctx')
      /\ \A x \in C : ctx'[x].final = ctx[x].final /\ (x # c => ctx'[x] = ctx[x])
  <2> HIDE DEF c
  <2>1. /\ DOMAIN X2 = C /\ CtxOK(X2)
        /\ \A x \in C : X2[x].final = ctx[x].final /\ (x # c => X2[x] = ctx[x])
    BY <1>1, <1>2, PendingOK
  <2> HIDE DEF X2
  <2> QED BY <1>5, <2>1, Zenon
<1> HIDE DEF c
<1> QED BY <1>2, <1>4, <1>6, QuietStep DEF GoodStep

\* The fixed point on top is of a loop that was entered, in its own context.
LEMMA LoopTop ==
  ASSUME prog \in Programs, Good(ctx, bb, retained, stack), running("loop")
  PROVE  /\ stack # << >> /\ top.op = "loop" /\ top = stack[Len(stack)] /\ stack \in Seq(Frames(DOMAIN ctx))
         /\ Len(stack) \in 1..Len(stack) /\ top \in LoopFrame(DOMAIN ctx)
         /\ top.c \in DOMAIN ctx /\ top.l \in Loops /\ scope(top.c) \in Scopes
         /\ contains(scope(top.c), top.l) /\ Entered(DOMAIN bb, top.c, top.l)
<1> DEFINE C == DOMAIN ctx
           K == DOMAIN bb
           t == top
           g == stack[Len(stack) - 1]
<1>1. ContextsOK(C) /\ StackOK(stack, K, C)
  BY DEF Good
<1>2. stack # << >> /\ t.op = "loop"
  BY DEF running
<1>3. /\ TopFrame(C, t) /\ t = stack[Len(stack)] /\ stack \in Seq(Frames(C)) /\ Len(stack) \in 1..Len(stack)
  BY <1>2, TopOpen
<1>4. t.c \in C /\ t.l \in Scopes /\ FrameOK(K, C, t) /\ t \in Frames(C)
  BY <1>3 DEF TopFrame
<1>5. scope(t.c) \in Scopes
  <2> HIDE DEF t, C
  <2> QED BY <1>1, <1>4, ContextFacts
<1>6. /\ Child(g.l, t.l) /\ t.c = g.c /\ g.l \in Scopes /\ FrameOK(K, C, g)
  <2>1. g = stack[Len(stack) - 1] /\ t.op # "analyse"
    BY <1>2
  <2> HIDE DEF t, g, C, K
  <2> QED BY <1>1, <1>2, <1>3, <2>1, FrameBelow
<1>7. t.l \in Loops /\ contains(g.l, t.l) /\ t.l # g.l
  BY <1>6 DEF Child
<1>8. contains(scope(t.c), t.l) /\ contains(scope(t.c), g.l)
  BY <1>4, <1>6 DEF FrameOK
<1>9. t.l # scope(t.c) /\ contains(t.l, t.l)
  <2> HIDE DEF t, g
  <2> QED BY <1>4, <1>5, <1>6, <1>7, <1>8, LoopTree
<1>10. Entered(K, t.c, t.l)
  <2> HIDE DEF t, K
  <2> QED BY <1>4, <1>7, <1>8, <1>9 DEF FrameOK, Around
<1>11. t \in LoopFrame(C)
  <2> HIDE DEF t, C
  <2> QED BY <1>2, <1>4 DEF Frames, PlainFrame
<1> QED BY <1>2, <1>3, <1>4, <1>5, <1>7, <1>8, <1>10, <1>11

\* A round of a loop's fixed point ends in another.
LEMMA RoundStep ==
  ASSUME prog \in Programs, Good(ctx, bb, retained, stack), loopRound
  PROVE  GoodStep
<1> DEFINE C == DOMAIN ctx
           c == top.c
           l == top.l
           header == <<c, l>>
           preheader == <<c, preheaderIdx(l)>>
           latch == <<c, latchIdx(l)>>
           exits == IF top.first THEN {} ELSE liveExits(c, l)
           left(x) == {e \in exits : e[1] = x}
           count(E) == Cardinality(edgeCopies(E))
           dropped == [k \in {<<c, e[1]>> : e \in exits} |-> count(left(k[2]))]
           merged == {preheader} \cup
                     (IF ~top.first \/ <<c, l>> \in retained THEN {latch} ELSE {})
           B1 == refStores(bb, preheader, 1)
           kept == dropReferences(B1, dropped)
           ones == [k \in merged |-> 1]
           B2 == dropReferences(kept, ones)
           v == mergedValue(merged)
           p == ctx[c].pending - count(exits) - 1
           ever == top.ever \/ (top.i # 0 /\ top.changed)
           f == [top EXCEPT !.i = l, !.first = FALSE, !.changed = FALSE, !.ever = ever]
<1>1. /\ ContextsOK(C) /\ CtxOK(ctx) /\ BlocksOK(bb, C) /\ StackOK(stack, DOMAIN bb, C)
      /\ RetainedOK(retained, DOMAIN bb, C)
  BY DEF Good
<1>2. /\ betweenRounds /\ anotherRound /\ bb' = takeStores(B2, header, v)
      /\ ctx' = [ctx EXCEPT ![c].pending = @ - count(exits) - 1] /\ replaceTop(f)
      /\ retained' = retained
  BY DEF loopRound
<1>3. running("loop")
  BY <1>2 DEF betweenRounds
<1>4. /\ stack # << >> /\ top.op = "loop" /\ top = stack[Len(stack)] /\ stack \in Seq(Frames(C))
      /\ Len(stack) \in 1..Len(stack) /\ top \in LoopFrame(C)
      /\ c \in C /\ l \in Loops /\ scope(c) \in Scopes
      /\ contains(scope(c), l) /\ Entered(DOMAIN bb, c, l)
  BY <1>3, LoopTop
<1>5. exits \in SUBSET (Blocks \X Blocks)
  BY DEF liveExits, exitEdges
<1>6. merged \subseteq DOMAIN bb
  <2>1. preheader \in DOMAIN bb
    BY <1>4 DEF Entered
  <2>2. ASSUME ~top.first
        PROVE  latch \in DOMAIN bb
    <3>1. latchAlive(c, l)
      BY <1>2, <2>2 DEF anotherRound
    <3> HIDE DEF c, l
    <3> QED BY <1>4, <3>1, LatchThere
  <2>3. ASSUME <<c, l>> \in retained
        PROVE  latch \in DOMAIN bb
    <3>1. \A r \in retained : <<r[1], latchIdx(r[2])>> \in DOMAIN bb
      BY <1>1 DEF RetainedOK
    <3> HIDE DEF c, l
    <3> QED BY <2>3, <3>1
  <2> HIDE DEF preheader, latch
  <2> QED BY <2>1, <2>2, <2>3
<1>7. v \in Cells
  <2> HIDE DEF merged
  <2> QED BY <1>1, <1>6, MergedType
<1>8. \A E \in SUBSET (Blocks \X Blocks) : count(E) \in Nat
  BY CopiesCount
<1>9. \A k \in DOMAIN dropped : dropped[k] \in Int
  <2>1. \A x : left(x) \in SUBSET (Blocks \X Blocks)
    <3> HIDE DEF exits
    <3> QED BY <1>5
  <2>2. \A x : count(left(x)) \in Int
    <3> HIDE DEF left, count
    <3> QED BY <1>8, <2>1
  <2> HIDE DEF left, count, exits
  <2> QED BY <2>2
<1>10. \A k \in DOMAIN ones : ones[k] \in Int
  OBVIOUS
<1>11. Touched(bb, B1, C, c)
  <2> HIDE DEF c, preheader, C
  <2> QED BY <1>1, TouchedReferences
<1>12. Touched(B1, kept, C, c)
  <2>1. BlocksOK(B1, C)
    BY <1>11 DEF Touched
  <2> HIDE DEF B1, c, dropped, C
  <2> QED BY <1>9, <2>1, TouchedReferences
<1>13. Touched(kept, B2, C, c)
  <2>1. BlocksOK(kept, C)
    BY <1>12 DEF Touched
  <2> HIDE DEF kept, c, ones, C
  <2> QED BY <1>10, <2>1, TouchedReferences
<1>14. Touched(B2, bb', C, c)
  <2>1. BlocksOK(B2, C)
    BY <1>13 DEF Touched
  <2> HIDE DEF B2, c, l, v, C
  <2> QED BY <1>2, <1>7, <2>1, TouchedTake
<1>15. Touched(bb, bb', C, c)
  <2> HIDE DEF B1, B2, kept, c, C
  <2>1. Touched(bb, kept, C, c)
    BY <1>11, <1>12, TouchedTrans
  <2>2. Touched(bb, B2, C, c)
    BY <1>13, <2>1, TouchedTrans
  <2> QED BY <1>14, <2>2, TouchedTrans
<1>16. p \in Int
  <2>1. ctx[c].pending \in Int
    BY <1>1, <1>4 DEF CtxOK
  <2>2. count(exits) \in Nat
    <3> HIDE DEF count, exits
    <3> QED BY <1>5, <1>8
  <2> HIDE DEF count, exits, c
  <2> QED BY <2>1, <2>2
<1>17. ctx' = [ctx EXCEPT ![c].pending = p]
  <2> HIDE DEF count, exits, c
  <2> QED BY <1>2
<1>18. ever \in BOOLEAN /\ f.c = top.c /\ f.op = top.op
  BY <1>4 DEF LoopFrame
<1>19. stack' = cut(stack, Len(stack), f)
  <2> HIDE DEF f
  <2> QED BY <1>2 DEF replaceTop, cut, Front
<1>20. StackOK(stack', DOMAIN bb, C)
  <2> DEFINE t == top
  <2>1. t = stack[Len(stack)] /\ t.op = "loop"
        /\ f = [t EXCEPT !.i = t.l, !.first = FALSE, !.changed = FALSE, !.ever = ever]
    BY <1>4
  <2> HIDE DEF t, f, ever, C
  <2> QED BY <1>1, <1>4, <1>18, <1>19, <2>1, RoundStack
<1>21. From(stack, stack')
  <2> HIDE DEF f, C
  <2> QED BY <1>4, <1>18, <1>19, FromCut
<1> HIDE DEF p
<1> QED BY <1>1, <1>2, <1>4, <1>15, <1>16, <1>17, <1>20, <1>21, TouchStep

\* A loop's fixed point is reached.
LEMMA EndLoopStep ==
  ASSUME prog \in Programs, Good(ctx, bb, retained, stack), endLoop
  PROVE  GoodStep
<1> DEFINE C == DOMAIN ctx
           c == top.c
           l == top.l
           live == latchAlive(c, l)
           released == IF top.nested THEN {} ELSE releaseLatchStores(c, l)
           latches == {<<c, latchIdx(r[2])>> : r \in released} \cup
                      (IF live /\ ~top.nested THEN {<<c, latchIdx(l)>>} ELSE {})
           B1 == refStores(bb, <<c, preheaderIdx(l)>>, -1)
           ones == [k \in latches |-> 1]
           p == ctx[c].pending - (IF live THEN 1 ELSE 0)
           ch == top.ever \/ top.changed
<1>1. /\ ContextsOK(C) /\ CtxOK(ctx) /\ BlocksOK(bb, C) /\ StackOK(stack, DOMAIN bb, C)
      /\ RetainedOK(retained, DOMAIN bb, C)
  BY DEF Good
<1>2. /\ running("loop") /\ bb' = dropReferences(B1, ones) /\ leaveLoop(l, ch)
      /\ ctx' = [ctx EXCEPT ![c].pending = @ - (IF live THEN 1 ELSE 0)]
      /\ retained' = IF top.nested
                     THEN retained \cup (IF live THEN {<<c, l>>} ELSE {})
                     ELSE retained \ released
  BY DEF endLoop, betweenRounds
<1>3. /\ stack # << >> /\ top.op = "loop" /\ top = stack[Len(stack)] /\ stack \in Seq(Frames(C))
      /\ Len(stack) \in 1..Len(stack) /\ top \in LoopFrame(C)
      /\ c \in C /\ l \in Loops /\ scope(c) \in Scopes
      /\ contains(scope(c), l) /\ Entered(DOMAIN bb, c, l)
  BY <1>2, LoopTop
<1>4. live => <<c, latchIdx(l)>> \in DOMAIN bb
  <2> HIDE DEF c, l
  <2> QED BY <1>3, LatchThere
<1>5. RetainedOK(retained', DOMAIN bb, C)
  <2>1. retained' \subseteq retained \cup (IF live THEN {<<c, l>>} ELSE {})
    <3> HIDE DEF released, live
    <3> QED BY <1>2
  <2>2. ASSUME NEW r \in retained'
        PROVE  r \in C \X Loops /\ <<r[1], latchIdx(r[2])>> \in DOMAIN bb
    <3>1. CASE r \in retained
      BY <1>1, <3>1 DEF RetainedOK
    <3>2. CASE r \notin retained
      <4>1. live /\ r = <<c, l>>
        <5> HIDE DEF live, c, l
        <5> QED BY <2>1, <3>2
      <4> HIDE DEF live, c, l
      <4> QED BY <1>3, <1>4, <4>1
    <3> QED BY <3>1, <3>2
  <2> QED BY <2>2 DEF RetainedOK
<1>6. Touched(bb, bb', C, c)
  <2>1. Touched(bb, B1, C, c)
    <3> HIDE DEF c, C
    <3> QED BY <1>1, TouchedReferences
  <2>2. BlocksOK(B1, C)
    BY <2>1 DEF Touched
  <2>3. \A k \in DOMAIN ones : ones[k] \in Int
    OBVIOUS
  <2> HIDE DEF B1, c, ones, C
  <2>4. Touched(B1, bb', C, c)
    BY <1>2, <2>2, <2>3, TouchedReferences
  <2> QED BY <2>1, <2>4, TouchedTrans
<1>7. p \in Int /\ ctx' = [ctx EXCEPT ![c].pending = p]
  <2>1. ctx[c].pending \in Int
    BY <1>1, <1>3 DEF CtxOK
  <2> HIDE DEF live, c
  <2> QED BY <1>2, <2>1
<1>8. ch \in BOOLEAN
  BY <1>3 DEF LoopFrame
<1>9. /\ StackOK(stack', DOMAIN bb, C) /\ Len(stack) - 1 \in 1..Len(stack)
      /\ Len(stack') = Len(stack) - 1
      /\ \A n \in 1..Len(stack') :
            /\ n \in 1..(Len(stack) - 1) /\ stack'[n].c = stack[n].c
            /\ stack'[n].op = "peel" => stack'[n] = stack[n]
  <2> DEFINE K2 == DOMAIN bb
  <2>1. DOMAIN bb \subseteq K2 /\ K2 = DOMAIN bb /\ top.op # "analyse" /\ leaveLoop(top.l, ch)
    BY <1>2, <1>3
  <2> HIDE DEF C, K2, ch
  <2>2. StackOK(stack', K2, C) /\ Len(stack) - 1 \in 1..Len(stack)
      /\ Len(stack') = Len(stack) - 1
      /\ \A n \in 1..Len(stack') :
            /\ n \in 1..(Len(stack) - 1) /\ stack'[n].c = stack[n].c
            /\ stack'[n].op = "peel" => stack'[n] = stack[n]
    BY <1>1, <1>3, <1>8, <2>1, LeaveLoop
  <2> QED BY <2>1, <2>2
<1>10. From(stack, stack')
  <2>1. ASSUME NEW n \in 1..Len(stack')
        PROVE  n \in 1..Len(stack) /\ stack'[n].c = stack[n].c
               /\ (stack'[n].op = "peel" => stack[n].op = "peel" /\ stack'[n].l = stack[n].l)
    <3>1. n \in 1..Len(stack)
      BY <1>3, <1>9
    <3> QED BY <1>9, <3>1
  <2> QED BY <2>1 DEF From
<1> HIDE DEF p
<1> QED BY <1>3, <1>5, <1>6, <1>7, <1>9, <1>10, TouchStep

-----------------------------------------------------------------------------
(* The next state.                                                          *)

\* The evaluation does not change the program, so what the invariant is made of means in
\* the next state what it means in this one.
LEMMA SameShape ==
  ASSUME prog' = prog
  PROVE  /\ Succs' = Succs /\ Blocks' = Blocks /\ LoopEnd' = LoopEnd /\ Loops' = Loops /\ Scopes' = Scopes
         /\ \A l, b : (contains(l, b))' <=> contains(l, b)
         /\ \A x, y : (copies(x, y))' = copies(x, y)
         /\ \A l : (latchIdx(l))' = latchIdx(l)
         /\ \A l : (preheaderIdx(l))' = preheaderIdx(l)
         /\ \A b : (BlockType(b))' = BlockType(b)
<1>1. Succs' = Succs /\ Blocks' = Blocks /\ LoopEnd' = LoopEnd /\ Loops' = Loops /\ Scopes' = Scopes
  BY DEF Succs, Blocks, LoopEnd, Loops, Scopes
<1>2. \A l, b : (contains(l, b))' <=> contains(l, b)
  BY <1>1 DEF contains
<1>3. \A x, y : (copies(x, y))' = copies(x, y)
  BY <1>1 DEF copies
<1>4. \A b : (predIdxs(b))' = predIdxs(b)
  BY <1>1, <1>3 DEF predIdxs
<1>5. \A l : (latchIdx(l))' = latchIdx(l)
  BY <1>1, <1>2, <1>4, Zenon DEF latchIdx
<1>6. \A l : (preheaderIdx(l))' = preheaderIdx(l)
  BY <1>1, <1>2, <1>4, Zenon DEF preheaderIdx
<1>7. \A b : (BlockType(b))' = BlockType(b)
  BY <1>1 DEF BlockType
<1> QED BY <1>1, <1>2, <1>3, <1>5, <1>6, <1>7

\* The predicates on blocks and contexts depend on the function alone.
LEMMA SameBlocksOK ==
  ASSUME prog' = prog
  PROVE  /\ \A B, C : (BlocksOK(B, C))' <=> BlocksOK(B, C)
         /\ \A C : (ContextsOK(C))' <=> ContextsOK(C)
         /\ \A R, K, C : (RetainedOK(R, K, C))' <=> RetainedOK(R, K, C)
<1>1. \A B, C : (BlocksOK(B, C))' <=> BlocksOK(B, C)
  BY SameShape DEF BlocksOK
<1>2. \A c : (ContextOK(c))' <=> ContextOK(c)
  BY SameShape DEF ContextOK
<1>3. \A C : (ContextsOK(C))' <=> ContextsOK(C)
  BY <1>2 DEF ContextsOK
<1>4. \A R, K, C : (RetainedOK(R, K, C))' <=> RetainedOK(R, K, C)
  BY SameShape DEF RetainedOK
<1> QED BY <1>1, <1>3, <1>4

\* So do those on an activation.
LEMMA SameFrames ==
  ASSUME prog' = prog
  PROVE  /\ \A C : (Frames(C))' = Frames(C)
         /\ \A l, m : (Child(l, m))' <=> Child(l, m)
         /\ \A f : (Inner(f))' = Inner(f)
         /\ \A K, f : (Around(K, f))' <=> Around(K, f)
         /\ \A K, f : (Ready(K, f))' <=> Ready(K, f)
         /\ \A f : (Aligned(f))' <=> Aligned(f)
         /\ \A C, f, l : (Unexplored(C, f, l))' <=> Unexplored(C, f, l)
<1>1. \A C : (Frames(C))' = Frames(C)
  BY SameShape DEF Frames, PlainFrame, LoopFrame
<1>2. \A l, m : (Child(l, m))' <=> Child(l, m)
  BY SameShape DEF Child
<1>3. \A f : (Inner(f))' = Inner(f)
  BY SameShape DEF Inner
<1>4. \A K, c, l : (Entered(K, c, l))' <=> Entered(K, c, l)
  BY SameShape DEF Entered
<1>5. \A K, f : (Around(K, f))' <=> Around(K, f)
  BY SameShape, <1>4 DEF Around
<1>6. \A K, f : (Ready(K, f))' <=> Ready(K, f)
  BY SameShape, <1>3 DEF Ready
<1>7. \A f : (Aligned(f))' <=> Aligned(f)
  BY SameShape, <1>3 DEF Aligned
<1>8. \A C, f, l : (Unexplored(C, f, l))' <=> Unexplored(C, f, l)
  BY <1>3 DEF Unexplored
<1> QED BY <1>1, <1>2, <1>3, <1>5, <1>6, <1>7, <1>8

\* So does that on the stack.
LEMMA SameStackOK ==
  ASSUME prog' = prog
  PROVE  \A S, K, C : (StackOK(S, K, C))' <=> StackOK(S, K, C)
<1>1. \A K, C, f : (FrameOK(K, C, f))' <=> FrameOK(K, C, f)
  BY SameShape, SameFrames DEF FrameOK
<1>2. \A S, K, C, n : (FrameAt(S, K, C, n))' <=> FrameAt(S, K, C, n)
  BY SameFrames, <1>1 DEF FrameAt
<1>3. \A g, f : (On(g, f))' <=> On(g, f)
  BY SameFrames DEF On
<1>4. \A g, f : (Over(g, f))' <=> Over(g, f)
  BY SameShape DEF Over
<1>5. \A S : (StackShape(S))' <=> StackShape(S)
  BY <1>3, <1>4 DEF StackShape
<1> QED BY SameFrames, <1>2, <1>5 DEF StackOK

\* So does the whole of Good: in the next state it says the same.
LEMMA SameGood ==
  ASSUME prog' = prog
  PROVE  \A X, B, R, S : (Good(X, B, R, S))' <=> Good(X, B, R, S)
BY SameBlocksOK, SameStackOK DEF Good

-----------------------------------------------------------------------------
(* The theorems.                                                            *)

\* The initial state.
LEMMA InitialFrame ==
  ASSUME prog \in Programs, NEW C, C = {<< >>}, NEW K, K = {<<<< >>, 1>>}, NEW f, f = analyseFrame(<< >>, 1)
  PROVE  /\ f \in Frames(C) /\ f.op = "analyse" /\ f.c = << >> /\ f.l = scope(f.c)
         /\ FrameOK(K, C, f) /\ Unexplored(C, f, 0)
<1>1. scope(<< >>) = 0 /\ 0 \in Scopes
  BY DEF scope, Scopes
<1>2. f.op = "analyse" /\ f.c = << >> /\ f.l = 0 /\ f.i = 1 /\ f.changed = FALSE
  BY <1>1 DEF analyseFrame
<1>3. f \in Frames(C)
  BY <1>1 DEF Frames, PlainFrame, analyseFrame
<1>4. \A m \in Loops : ~contains(m, 0) /\ m \in Nat /\ m # 0
  BY LoopTree, ScopeNumbers
<1>5. \A m \in Loops : m # 1
  <2>1. ASSUME NEW m \in Loops, m = 1
        PROVE  FALSE
    <3>1. preheaderIdx(m) \in Blocks /\ edge(preheaderIdx(m), m)
      BY HeaderEdges
    <3> QED BY <2>1, <3>1, LoopShape
  <2> QED BY <2>1
<1>6. contains(scope(f.c), f.l)
  BY <1>1, <1>2 DEF contains
<1>7. Around(K, f)
  BY <1>2, <1>4 DEF Around
<1>8. \A m \in Loops, y \in Blocks : contains(m, y) => y # 1
  BY <1>4, <1>5 DEF contains
<1>9. \A y : <<f.c, y>> \in K => y = 1
  BY <1>2
<1>10. Ready(K, f)
  BY <1>5, <1>8, <1>9 DEF Ready, Inner
<1>11. Aligned(f)
  BY <1>2, <1>4, <1>5 DEF Aligned, Inner
<1>12. FrameOK(K, C, f)
  BY <1>2, <1>6, <1>7, <1>10, <1>11 DEF FrameOK
<1>13. Unexplored(C, f, 0)
  <2>1. \A m, i : iteration(<< >>, m, i) \notin C
    BY DEF iteration
  <2> QED BY <1>2, <2>1 DEF Unexplored, Its
<1> QED BY <1>1, <1>2, <1>3, <1>12, <1>13

\* At first there is the call's context only.
LEMMA InitialContexts ==
  ASSUME prog \in Programs, NEW C, C = {<< >>}
  PROVE  ContextsOK(C)
<1>1. scope(<< >>) = 0
  BY DEF scope
<1>2. << >> \in Seq(Loops \X Nat) /\ Len(<< >>) = 0 /\ SubSeq(<< >>, 1, 0) = << >>
  OBVIOUS
<1>3. \A m \in Scopes : contains(m, 0) => m = 0
  BY LoopTree DEF Scopes
<1>4. \A m \in Scopes : contains(m, scope(<< >>)) => \E n \in 0..Len(<< >>) : scope(SubSeq(<< >>, 1, n)) = m
  <2> SUFFICES ASSUME NEW m \in Scopes, contains(m, scope(<< >>))
               PROVE  \E n \in 0..Len(<< >>) : scope(SubSeq(<< >>, 1, n)) = m
    OBVIOUS
  <2>1. m = 0
    BY <1>1, <1>3
  <2>2. 0 \in 0..Len(<< >>)
    BY <1>2
  <2>3. scope(SubSeq(<< >>, 1, 0)) = m
    BY <1>1, <1>2, <2>1, Zenon
  <2> QED BY <2>2, <2>3
<1>5. ContextOK(<< >>)
  BY <1>2, <1>4 DEF ContextOK
<1>6. \A n \in 0..Len(<< >>) : SubSeq(<< >>, 1, n) \in C
  BY <1>2
<1> QED BY <1>5, <1>6 DEF ContextsOK

\* The invariant holds at first.
LEMMA InitInv == Init => Inv
<1> SUFFICES ASSUME Init
             PROVE  Inv
  OBVIOUS
<1> DEFINE f == analyseFrame(<< >>, 1)
           k0 == <<<< >>, 1>>
           x0 == [newBlock("CERTAIN") EXCEPT !.in = entry, !.store = entry, !.local = 1, !.fd = 1]
<1>1. /\ prog \in Programs /\ entry \in Values \cup {Top} /\ retained = {} /\ stack = <<f>>
      /\ bb = [k \in {k0} |-> x0]
      /\ ctx = [c \in {<< >>} |-> [pending |-> 0, final |-> FALSE]]
  BY DEF Init
<1>2. DOMAIN ctx = {<< >>} /\ DOMAIN bb = {k0}
  BY <1>1
<1>3. ContextsOK(DOMAIN ctx)
  BY <1>1, <1>2, InitialContexts
<1>4. CtxOK(ctx)
  BY <1>1 DEF CtxOK, WithKeys
<1>5. BlocksOK(bb, DOMAIN ctx)
  <2>1. 1 \in Blocks
    BY <1>1, Shape
  <2>2. contains(scope(<< >>), 1)
    BY DEF scope, contains
  <2>3. x0 \in BlockType(1)
    <3>1. newBlock("CERTAIN") \in BlockType(1)
      BY NewBlock
    <3>2. entry \in Cells
      BY <1>1 DEF Cells
    <3> DEFINE n == newBlock("CERTAIN")
               y == [n EXCEPT !.in = entry]
               z == [y EXCEPT !.store = entry]
               u == [z EXCEPT !.local = 1]
    <3>3. x0 = [u EXCEPT !.fd = 1]
      OBVIOUS
    <3> HIDE DEF n, x0
    <3>4. y \in BlockType(1)
      BY <3>1, <3>2 DEF BlockType, n
    <3> HIDE DEF y
    <3>5. z \in BlockType(1)
      BY <3>2, <3>4 DEF BlockType
    <3> HIDE DEF z
    <3>6. u \in BlockType(1)
      BY <3>5 DEF BlockType
    <3> HIDE DEF u
    <3>7. [u EXCEPT !.fd = 1] \in BlockType(1)
      BY <3>6 DEF BlockType
    <3> QED BY <3>3, <3>7
  <2> HIDE DEF x0
  <2>4. /\ WithKeys(bb) /\ bb[k0] = x0
    BY <1>1 DEF WithKeys
  <2>5. DOMAIN bb \subseteq (DOMAIN ctx) \X Blocks
    BY <1>2, <2>1
  <2>6. \A k \in DOMAIN bb : k[1] = << >> /\ k[2] = 1 /\ k = k0
    BY <1>2
  <2> HIDE DEF k0
  <2> QED BY <2>2, <2>3, <2>4, <2>5, <2>6 DEF BlocksOK
<1>6. FirstThere(DOMAIN bb, DOMAIN ctx)
  <2>1. firstBlock(scope(<< >>)) = 1
    BY DEF scope, firstBlock
  <2> QED BY <1>2, <2>1 DEF FirstThere
<1>7. RetainedOK(retained, DOMAIN bb, DOMAIN ctx)
  BY <1>1 DEF RetainedOK
<1>8. StackOK(stack, DOMAIN bb, DOMAIN ctx)
  <2>1. /\ f \in Frames(DOMAIN ctx) /\ f.op = "analyse" /\ f.c = << >> /\ f.l = scope(f.c)
        /\ FrameOK(DOMAIN bb, DOMAIN ctx, f) /\ Unexplored(DOMAIN ctx, f, 0)
    <3>1. f = analyseFrame(<< >>, 1) /\ DOMAIN bb = {<<<< >>, 1>>} /\ DOMAIN ctx = {<< >>}
      BY <1>2
    <3> HIDE DEF f
    <3> QED BY <1>1, <3>1, InitialFrame
  <2> HIDE DEF f
  <2>2. stack \in Seq(Frames(DOMAIN ctx)) /\ Len(stack) = 1 /\ stack[1] = f
    BY <1>1, <2>1
  <2>3. StackShape(stack)
    BY <2>1, <2>2 DEF StackShape
  <2>4. above(stack, 1) = 0
    BY <2>2 DEF above
  <2>5. \A n \in 1..Len(stack) : FrameAt(stack, DOMAIN bb, DOMAIN ctx, n)
    BY <2>1, <2>2, <2>4 DEF FrameAt
  <2> QED BY <2>2, <2>3, <2>5 DEF StackOK
<1>9. Open(stack, ctx)
  <2>1. Len(stack) = 1 /\ stack[1].c = << >> /\ stack[1].op = "analyse"
    BY <1>1 DEF analyseFrame
  <2>2. ~closed(ctx, << >>)
    BY DEF closed
  <2> QED BY <2>1, <2>2 DEF Open
<1> QED BY <1>1, <1>3, <1>4, <1>5, <1>6, <1>7, <1>8, <1>9 DEF Inv, Good

\* It gives the type invariant.
LEMMA TypeOKFromInv == Inv => TypeOK
<1> SUFFICES ASSUME Inv
             PROVE  TypeOK
  OBVIOUS
<1>1. /\ CtxOK(ctx) /\ BlocksOK(bb, DOMAIN ctx) /\ RetainedOK(retained, DOMAIN bb, DOMAIN ctx)
      /\ StackOK(stack, DOMAIN bb, DOMAIN ctx) /\ entry \in Values \cup {Top}
  BY DEF Inv, Good
<1>2. ASSUME NEW k \in DOMAIN bb
      PROVE  /\ contains(scope(k[1]), k[2])
             /\ bb[k].alive \subseteq DOMAIN Succs[k[2]]
             /\ bb[k].status \in {"UNKNOWN", "CERTAIN", "ASSUMED"}
             /\ {bb[k].in, bb[k].store, bb[k].result} \subseteq Values \cup {Top, NoStore}
             /\ bb[k].local \in Int /\ bb[k].fd \in Int
  <2>1. contains(scope(k[1]), k[2]) /\ bb[k] \in BlockType(k[2])
    BY <1>1 DEF BlocksOK
  <2> QED BY <2>1 DEF BlockType, Cells
<1>3. \A c \in DOMAIN ctx : ctx[c].pending \in Int /\ ctx[c].final \in BOOLEAN
  BY <1>1 DEF CtxOK
<1>4. ASSUME NEW f \in Range(stack)
      PROVE  f.c \in DOMAIN ctx /\ f.op \in {"analyse", "peel", "loop"}
  <2>1. stack \in Seq(Frames(DOMAIN ctx))
    BY <1>1 DEF StackOK
  <2>2. f \in Frames(DOMAIN ctx)
    BY <2>1 DEF Range
  <2> QED BY <2>2, FrameFields
<1>5. DOMAIN bb \subseteq (DOMAIN ctx) \X Blocks /\ retained \subseteq (DOMAIN ctx) \X Loops
  BY <1>1 DEF BlocksOK, RetainedOK
<1> QED BY <1>1, <1>2, <1>3, <1>4, <1>5 DEF TypeOK

\* The invariant is kept by every action.
LEMMA NextGood ==
  ASSUME Inv, Next
  PROVE  GoodStep /\ prog' = prog /\ entry' = entry
<1>1. prog \in Programs /\ Good(ctx, bb, retained, stack)
  BY DEF Inv
<1>2. ASSUME NEW b \in Blocks, analyseHeader(b)
      PROVE  GoodStep /\ prog' = prog /\ entry' = entry
  <2>1. GoodStep
    BY <1>1, <1>2, HeaderStep
  <2> QED BY <1>2, <2>1 DEF analyseHeader
<1>3. ASSUME NEW b \in Blocks, analyseBlock(b)
      PROVE  GoodStep /\ prog' = prog /\ entry' = entry
  <2>1. GoodStep
    BY <1>1, <1>3, BodyStep
  <2> QED BY <1>3, <2>1 DEF analyseBlock
<1>4. ASSUME NEW l \in Loops, enterPeel(l)
      PROVE  GoodStep /\ prog' = prog /\ entry' = entry
  <2>1. GoodStep
    BY <1>1, <1>4, PeelStep
  <2> QED BY <1>4, <2>1 DEF enterPeel
<1>5. ASSUME NEW l \in Loops, enterLoop(l)
      PROVE  GoodStep /\ prog' = prog /\ entry' = entry
  <2>1. GoodStep
    BY <1>1, <1>5, LoopStep
  <2> QED BY <1>5, <2>1 DEF enterLoop
<1>6. ASSUME endContext
      PROVE  GoodStep /\ prog' = prog /\ entry' = entry
  BY <1>1, <1>6, EndContextStep DEF endContext
<1>7. ASSUME nextIteration
      PROVE  GoodStep /\ prog' = prog /\ entry' = entry
  <2>1. GoodStep
    BY <1>1, <1>7, NextIterationStep
  <2> QED BY <1>7, <2>1 DEF nextIteration
<1>8. ASSUME endPeel
      PROVE  GoodStep /\ prog' = prog /\ entry' = entry
  <2>1. GoodStep
    BY <1>1, <1>8, EndPeelStep
  <2> QED BY <1>8, <2>1 DEF endPeel
<1>9. ASSUME abandonPeel
      PROVE  GoodStep /\ prog' = prog /\ entry' = entry
  <2>1. GoodStep
    BY <1>1, <1>9, AbandonStep
  <2> QED BY <1>9, <2>1 DEF abandonPeel
<1>10. ASSUME loopRound
       PROVE  GoodStep /\ prog' = prog /\ entry' = entry
  <2>1. GoodStep
    BY <1>1, <1>10, RoundStep
  <2> QED BY <1>10, <2>1 DEF loopRound
<1>11. ASSUME endLoop
       PROVE  GoodStep /\ prog' = prog /\ entry' = entry
  <2>1. GoodStep
    BY <1>1, <1>11, EndLoopStep
  <2> QED BY <1>11, <2>1 DEF endLoop
<1>12. ASSUME callReturn
       PROVE  GoodStep /\ prog' = prog /\ entry' = entry
  <2>1. GoodStep
    BY <1>1, <1>12, ReturnStep
  <2> QED BY <1>12, <2>1 DEF callReturn
<1> QED BY <1>2, <1>3, <1>4, <1>5, <1>6, <1>7, <1>8, <1>9, <1>10, <1>11, <1>12, Zenon DEF Next

\* The invariant is inductive.
LEMMA InvStep == Inv /\ [Next]_vars => Inv'
<1> SUFFICES ASSUME Inv, [Next]_vars
             PROVE  Inv'
  OBVIOUS
<1>1. /\ prog' = prog /\ entry' = entry /\ Good(ctx', bb', retained', stack')
  <2>1. CASE Next
    BY <2>1, NextGood DEF GoodStep
  <2>2. CASE UNCHANGED vars
    BY <2>2 DEF vars, Inv
  <2> QED BY <2>1, <2>2
<1>2. (Good(ctx, bb, retained, stack))'
  BY <1>1, SameGood
<1> QED BY <1>1, <1>2 DEF Inv

\* The evaluator's structures stay well formed: in particular a block is only made in a
\* context whose loop it is in (getIAForScope), and live edges are edges of the function.
THEOREM EvaluationTyped == Spec => []TypeOK
<1>1. Inv => TypeOK
  BY TypeOKFromInv
<1> QED BY <1>1, InitInv, InvStep, PTL DEF Spec

\* The step SettledIterationsStand allows.
SettledStands ==
    \A d \in DOMAIN ctx : settled(d) =>
          /\ ctx'[d] = ctx[d] /\ settled(d)'
          /\ \A b \in Blocks :
                LET k == <<d, b>> IN
                /\ k \in DOMAIN bb' <=> k \in DOMAIN bb
                /\ k \in DOMAIN bb => known(bb', k) = known(bb, k)

\* Every step stands by the settled iterations.
LEMMA SettledStep == Inv /\ [Next]_vars => [SettledStands]_vars
<1> SUFFICES ASSUME Inv, Next
             PROVE  SettledStands
  BY DEF vars
<1>1. Kept(ctx, ctx', bb, bb')
  BY NextGood DEF GoodStep
<1>2. ASSUME NEW d
      PROVE  (settled(d) <=> closed(ctx, d)) /\ (settled(d)' <=> closed(ctx', d))
  BY DEF settled, closed, isTerminated, ended, Iterations, lastIteration, Its
<1>3. ASSUME NEW d \in DOMAIN ctx, settled(d)
      PROVE  /\ ctx'[d] = ctx[d] /\ settled(d)'
             /\ \A b \in Blocks :
                   /\ <<d, b>> \in DOMAIN bb' <=> <<d, b>> \in DOMAIN bb
                   /\ <<d, b>> \in DOMAIN bb => known(bb', <<d, b>>) = known(bb, <<d, b>>)
  <2>1. ctx'[d] = ctx[d] /\ closed(ctx', d) /\ Keeps(bb, bb', {d})
    BY <1>1, <1>2, <1>3 DEF Kept
  <2> QED BY <1>2, <2>1 DEF Keeps
<1> QED BY <1>3 DEF SettledStands

\* The iterations of a loop that was shown to end stand as they were found, whatever the
\* evaluator does afterwards in the contexts around them.
THEOREM SettledStand == Spec => SettledIterationsStand
<1>1. Inv /\ [Next]_vars => [SettledStands]_vars
  BY SettledStep
<1>2. Spec => [][SettledStands]_vars
  BY <1>1, InitInv, InvStep, PTL DEF Spec
<1> QED BY <1>2, PTL DEF SettledIterationsStand, SettledStands
=============================================================================
