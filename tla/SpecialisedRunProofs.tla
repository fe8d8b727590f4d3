----------------------- MODULE SpecialisedRunProofs -----------------------
(***************************************************************************)
(* Proofs about SpecialisedRun: whatever the function, if the tentative-   *)
(* load pass has found the checks that a fixed point of its own store      *)
(* asks for, then what other threads have written is never passed without  *)
(* a check.  The invariant is that, on any path, what the pass takes for   *)
(* good at this point no other thread has written since.                   *)
(***************************************************************************)
EXTENDS SpecialisedRun, TLAPS

(* What has to be known of the pass's state A where other threads have     *)
(* written D, if r we are in code that was left unspecialised and t it has *)
(* read what it should not have.                                           *)
InRegion(A) == A.inRegion = TRUE
Suspect(A)  == A.regionReads = TRUE
Clean(A, D) == \A m \in GoodBytes(A.T) : m \notin D

Explained(A, D, r, t) ==
    /\ InRegion(A) <=> r
    /\ r /\ t => Suspect(A)
    /\ (r /\ Suspect(A)) \/ Clean(A, D)

(* An operation marked by the pass, and what it reads.                     *)
Must(A, o)  == readsMemoryDirectly(o) /\ shouldCheckLoad(A.T, o)
ReadOf(o)   == {o.obj} \X o.bytes
ReadsDirty(o, D) == \E m \in ReadOf(o) : m \in D

(* What is read there may go anywhere in code that was left unspecialised, *)
(* t before and u after; elsewhere it does not go on.                      *)
Taints(o, D, r, t, u) ==
    r /\ u => t \/ (o.kind \in {"load", "ordered", "copy"} /\ ReadsDirty(o, D))

Passed(A, o, D, r) == Must(A, o) /\ ReadsDirty(o, D) => r

(* No other thread has written anything more, unless t.                    *)
NoMore(t, D, E) == ~t => \A m \in E : m \in D

(* The pass's state before and after an operation in its single walk.      *)
PassStep(A, o, id, R) ==
    \E v : TLTyped(A) /\ v.second = FALSE /\ R = TLOperation(A, o, id, v)

-----------------------------------------------------------------------------
(* Stores of the pass.                                                     *)

LEMMA GoodPut ==
    ASSUME NEW T, T = [aoc |-> T.aoc, map |-> T.map], NEW o, NEW e
    PROVE  \A m \in GoodBytes(Put(T, o, e)) : IF m[1] = o THEN m[2] \in e ELSE m \in GoodBytes(T)
<1> DEFINE P == Put(T, o, e)
<1>1. /\ P.aoc = T.aoc /\ DOMAIN P.map = {o} \cup DOMAIN T.map
      /\ \A x \in {o} \cup DOMAIN T.map : P.map[x] = IF x = o THEN e ELSE T.map[x]
  BY DEF Put
<1> HIDE DEF P
<1>2. ASSUME NEW m \in GoodBytes(P)
      PROVE  IF m[1] = o THEN m[2] \in e ELSE m \in GoodBytes(T)
  <2>1. m \in Memory /\ IF m[1] \in DOMAIN P.map THEN m[2] \in P.map[m[1]] ELSE ~P.aoc
    BY <1>2 DEF GoodBytes
  <2>2. CASE m[1] = o
    BY <2>1, <2>2, <1>1
  <2>3. CASE m[1] # o /\ m[1] \in DOMAIN T.map
    <3>1. m[2] \in T.map[m[1]]
      BY <2>1, <2>3, <1>1
    <3> QED BY <3>1, <2>1, <2>3 DEF GoodBytes
  <2>4. CASE m[1] # o /\ m[1] \notin DOMAIN T.map
    <3>1. m[1] \notin DOMAIN P.map
      BY <2>4, <1>1
    <3>2. ~P.aoc
      BY <2>1, <3>1, Zenon
    <3>3. ~T.aoc
      BY <3>2, <1>1, Zenon
    <3> QED BY <3>3, <2>1, <2>4, Zenon DEF GoodBytes
  <2> QED BY <2>2, <2>3, <2>4
<1> QED BY <1>2 DEF P

(* Nothing becomes good but the bytes marked.                              *)
LEMMA GoodMark ==
    ASSUME NEW T, T = [aoc |-> T.aoc, map |-> T.map], NEW o, NEW B, NEW en
    PROVE  /\ \A m \in GoodBytes(markGoodBytes(T, o, B, en)) : m \in GoodBytes(T) \/ m \in {o} \X B
           /\ LET U == markGoodBytes(T, o, B, en) IN U = [aoc |-> U.aoc, map |-> U.map]
<1> DEFINE U == markGoodBytes(T, o, B, en)
<1>1. CASE ~en \/ ~T.aoc
  <2>1. U = T
    BY <1>1, Zenon DEF markGoodBytes
  <2> QED BY <2>1
<1>2. CASE ~(~en \/ ~T.aoc)
  <2> DEFINE e == Entry(T, o, {}) \cup B
  <2>1. U = Put(T, o, e)
    BY <1>2, Zenon DEF markGoodBytes
  <2>2. ASSUME NEW m \in GoodBytes(U)
        PROVE  m \in GoodBytes(T) \/ m \in {o} \X B
    <3>1. m \in Memory /\ m = <<m[1], m[2]>>
      BY <2>2 DEF GoodBytes, Memory
    <3>2. IF m[1] = o THEN m[2] \in e ELSE m \in GoodBytes(T)
      BY <2>1, <2>2, GoodPut
    <3>3. CASE m[1] # o
      BY <3>2, <3>3
    <3>4. CASE m[1] = o /\ m[2] \in B
      BY <3>1, <3>4
    <3>5. CASE m[1] = o /\ m[2] \in Entry(T, o, {})
      <4>1. o \in DOMAIN T.map /\ m[2] \in T.map[o]
        BY <3>5 DEF Entry
      <4> QED BY <4>1, <3>5, <3>1 DEF GoodBytes
    <3> QED BY <3>2, <3>3, <3>4, <3>5
  <2>3. U = [aoc |-> U.aoc, map |-> U.map]
    BY <2>1 DEF Put
  <2> QED BY <2>2, <2>3
<1> QED BY <1>1, <1>2

LEMMA NothingGood == \A m \in GoodBytes(markAllObjectsTentative) : FALSE
BY DEF GoodBytes, markAllObjectsTentative, NoObjects

(* What need not be checked is good, or nothing is known of it.            *)
LEMMA UnmarkedGood ==
    ASSUME NEW A, NEW o, readsMemoryDirectly(o), o.kind # "loadAny", ~Must(A, o),
           NEW D, D \subseteq Known, Clean(A, D)
    PROVE  ~ReadsDirty(o, D)
<1>1. SUFFICES ASSUME NEW m \in ReadOf(o), m \in D
               PROVE  FALSE
  BY DEF ReadsDirty
<1>2. /\ m \in Memory /\ m[1] = o.obj /\ m[2] \in o.bytes /\ o.obj \notin Opaque
  BY <1>1 DEF Known, Memory, ReadOf
<1>3. ~shouldCheckRead(A.T, o.obj, o.bytes)
  BY <1>2 DEF Must, shouldCheckLoad
<1>4. m \in GoodBytes(A.T)
  <2>1. CASE o.obj \in DOMAIN A.T.map
    BY <1>2, <1>3, <2>1 DEF shouldCheckRead, GoodBytes
  <2>2. CASE o.obj \notin DOMAIN A.T.map
    BY <1>2, <1>3, <2>2, Zenon DEF shouldCheckRead, GoodBytes
  <2> QED BY <2>1, <2>2
<1> QED BY <1>4, <1>1 DEF Clean

-----------------------------------------------------------------------------
(* The pass at one operation.                                              *)

Instructions == {"load", "loadAny", "ordered", "copy", "store", "fence", "lock", "free", "syscall"}

StoreAfter(A, o, v) == updateTLStore(A.T, o, ~(v.inLoop /\ A.inRegion))

LEMMA SomeStoreAfter ==
    ASSUME NEW A, NEW o, NEW v
    PROVE  \E en \in BOOLEAN : StoreAfter(A, o, v) = updateTLStore(A.T, o, en)
<1>1. PICK en \in BOOLEAN : en = ~(v.inLoop /\ A.inRegion)
  OBVIOUS
<1> QED BY <1>1, Zenon DEF StoreAfter

LEMMA InstructionFields ==
    ASSUME NEW A, TLTyped(A), NEW o, o.kind \in Instructions, NEW id,
           NEW v, v.second = FALSE, NEW R, R = TLOperation(A, o, id, v)
    PROVE  /\ R.T = StoreAfter(A, o, v)
           /\ InRegion(R) <=> InRegion(A)
           /\ Suspect(R) <=> Suspect(A) \/ (Must(A, o) /\ InRegion(A))
           /\ Must(A, o) => id \in R.checked
<1>1. R = TLAnalyseInstruction(A, o, id, v)
  BY DEF TLOperation, Instructions
<1>2. PICK X, C, Y, Z :
        /\ X = StoreAfter(A, o, v)
        /\ C = IF Must(A, o) THEN A.checked \cup {id} ELSE A.checked \ {id}
        /\ Y = (A.reads \/ Must(A, o))
        /\ Z = (A.regionReads \/ (Must(A, o) /\ A.inRegion))
  OBVIOUS
<1>3. R = [A EXCEPT !.T = X, !.checked = C, !.reads = Y, !.regionReads = Z]
  BY <1>1, <1>2, Zenon DEF TLAnalyseInstruction, Must, StoreAfter
<1>4. R.T = X /\ R.checked = C /\ R.inRegion = A.inRegion /\ R.regionReads = Z
  <2>1. A = [T |-> A.T, checked |-> A.checked, reads |-> A.reads, backup |-> A.backup,
             inRegion |-> A.inRegion, regionReads |-> A.regionReads]
    BY DEF TLTyped
  <2> QED BY <2>1, <1>3
<1>5. A.inRegion \in BOOLEAN /\ A.regionReads \in BOOLEAN
  BY DEF TLTyped
<1>6. Suspect(R) <=> Suspect(A) \/ (Must(A, o) /\ InRegion(A))
  <2>1. A.regionReads <=> A.regionReads = TRUE
    BY <1>5, Zenon
  <2>2. A.inRegion <=> A.inRegion = TRUE
    BY <1>5, Zenon
  <2>3. Z <=> Z = TRUE
    BY <1>2, Zenon
  <2> QED BY <2>1, <2>2, <2>3, <1>2, <1>4, Zenon DEF Suspect, InRegion
<1>7. Must(A, o) => id \in R.checked
  BY <1>2, <1>4
<1> QED BY <1>2, <1>4, <1>6, <1>7 DEF InRegion

(* An operation that reads nothing without a check, and what it makes good *)
(* no other thread has written by then.                                    *)
LEMMA InstructionExplained ==
    ASSUME NEW A, TLTyped(A), NEW o, o.kind \in Instructions, NEW id,
           NEW v, v.second = FALSE, NEW R, R = TLOperation(A, o, id, v),
           NEW D, NEW r, NEW t, Explained(A, D, r, t),
           NEW E, NEW u,
           r /\ u => Suspect(A) \/ Must(A, o),
           Clean(A, D) => (r /\ Must(A, o)) \/ Clean(R, E)
    PROVE  Explained(R, E, r, u)
<1>1. /\ InRegion(R) <=> InRegion(A)
      /\ Suspect(R) <=> Suspect(A) \/ (Must(A, o) /\ InRegion(A))
  BY InstructionFields
<1> QED BY <1>1, Zenon DEF Explained

(* A load: if it is done, it was checked, or read what is good.            *)
LEMMA LoadExplained ==
    ASSUME NEW A, NEW o, o.kind \in {"load", "loadAny"}, NEW id, NEW R, PassStep(A, o, id, R),
           NEW D, D \subseteq Known, NEW r, NEW t, Explained(A, D, r, t),
           NEW u, Taints(o, D, r, t, u), Passed(A, o, D, r)
    PROVE  Explained(R, D, r, u)
<1>p. PICK v : TLTyped(A) /\ v.second = FALSE /\ R = TLOperation(A, o, id, v)
  BY DEF PassStep
<1> USE <1>p
<1>0. o.kind \in Instructions
  BY DEF Instructions
<1>1. PICK en : R.T = updateTLStore(A.T, o, en)
  <2>1. R.T = StoreAfter(A, o, v)
    BY <1>0, InstructionFields
  <2> QED BY <2>1, SomeStoreAfter, Zenon
<1>2. CASE o.kind = "loadAny"
  <2>1. R.T = A.T
    BY <1>1, <1>2 DEF updateTLStore
  <2>2. Clean(A, D) => Clean(R, D)
    BY <2>1 DEF Clean
  <2>3. r /\ u => Suspect(A)
    BY <1>2 DEF Explained, Taints
  <2> QED BY <1>0, <2>2, <2>3, InstructionExplained
<1>3. CASE o.kind = "load"
  <2>1. R.T = markGoodBytes(A.T, o.obj, o.bytes, en)
    BY <1>1, <1>3 DEF updateTLStore
  <2>2. \A m \in GoodBytes(R.T) : m \in GoodBytes(A.T) \/ m \in ReadOf(o)
    BY <2>1, GoodMark DEF ReadOf, TLTyped
  <2>3. Clean(A, D) /\ ~Must(A, o) => ~ReadsDirty(o, D)
    BY <1>3, UnmarkedGood DEF readsMemoryDirectly
  <2>4. ASSUME Clean(A, D), ~(r /\ Must(A, o))
        PROVE  Clean(R, D)
    <3>1. ~ReadsDirty(o, D)
      BY <2>3, <2>4, <1>3 DEF Passed
    <3> QED BY <3>1, <2>2, <2>4 DEF Clean, ReadsDirty
  <2>5. r /\ u => Suspect(A) \/ Must(A, o)
    BY <1>3, <2>3 DEF Explained, Taints
  <2> QED BY <1>0, <2>4, <2>5, InstructionExplained
<1> QED BY <1>2, <1>3

(* An ordered load makes everything suspicious, and is marked.             *)
LEMMA OrderedExplained ==
    ASSUME NEW A, NEW o, o.kind = "ordered", NEW id, NEW R, PassStep(A, o, id, R),
           NEW D, NEW r, NEW t, Explained(A, D, r, t),
           NEW E, E \subseteq Known, NEW u, Taints(o, E, r, t, u)
    PROVE  Explained(R, E, r, u)
<1>p. PICK v : TLTyped(A) /\ v.second = FALSE /\ R = TLOperation(A, o, id, v)
  BY DEF PassStep
<1> USE <1>p
<1>0. o.kind \in Instructions
  BY DEF Instructions
<1>1. R.T = markAllObjectsTentative
  <2>1. R.T = StoreAfter(A, o, v)
    BY <1>0, InstructionFields
  <2> QED BY <2>1 DEF StoreAfter, updateTLStore
<1>2. Clean(R, E)
  BY <1>1, NothingGood DEF Clean
<1>3. ReadsDirty(o, E) => Must(A, o)
  <2>1. ReadsDirty(o, E) => o.obj \notin Opaque
    BY DEF ReadsDirty, ReadOf, Known
  <2> QED BY <2>1 DEF Must, readsMemoryDirectly, shouldCheckLoad
<1>4. r /\ u => Suspect(A) \/ Must(A, o)
  BY <1>3 DEF Explained, Taints
<1> QED BY <1>0, <1>2, <1>4, InstructionExplained

(* A store makes good what it writes; a copy also what it reads, and for   *)
(* that it must read what is good.                                         *)
LEMMA StoreExplained ==
    ASSUME NEW A, NEW o, o.kind = "store", NEW id, NEW R, PassStep(A, o, id, R),
           NEW D, NEW r, NEW t, Explained(A, D, r, t),
           NEW E, \A m \in E : m \in D /\ m \notin {o.obj} \X o.bytes,
           NEW u, Taints(o, D, r, t, u)
    PROVE  Explained(R, E, r, u)
<1>p. PICK v : TLTyped(A) /\ v.second = FALSE /\ R = TLOperation(A, o, id, v)
  BY DEF PassStep
<1> USE <1>p
<1>0. o.kind \in Instructions
  BY DEF Instructions
<1>1. PICK en : R.T = markGoodBytes(A.T, o.obj, o.bytes, en)
  <2>1. PICK en : R.T = updateTLStore(A.T, o, en)
    <3>1. R.T = StoreAfter(A, o, v)
      BY ONLY <1>0, <1>p, InstructionFields
    <3> QED BY <3>1, SomeStoreAfter, Zenon
  <2> QED BY <2>1 DEF updateTLStore
<1>2. \A m \in GoodBytes(R.T) : m \in GoodBytes(A.T) \/ m \in {o.obj} \X o.bytes
  BY <1>1, GoodMark DEF TLTyped
<1>3. Clean(A, D) => Clean(R, E)
  BY <1>2 DEF Clean
<1>4. r /\ u => Suspect(A)
  BY DEF Explained, Taints
<1> QED BY <1>0, <1>3, <1>4, InstructionExplained

LEMMA CopyExplained ==
    ASSUME NEW A, NEW o, o.kind = "copy", NEW id, NEW R, PassStep(A, o, id, R),
           NEW D, D \subseteq Known, NEW r, NEW t, Explained(A, D, r, t),
           NEW E, \A m \in E : m \in D /\ m \notin {o.to} \X o.bytes,
           NEW u, Taints(o, D, r, t, u), Passed(A, o, D, r)
    PROVE  Explained(R, E, r, u)
<1>p. PICK v : TLTyped(A) /\ v.second = FALSE /\ R = TLOperation(A, o, id, v)
  BY DEF PassStep
<1> USE <1>p
<1>0. o.kind \in Instructions
  BY DEF Instructions
<1>1. PICK en, U : /\ U = markGoodBytes(A.T, o.to, o.bytes, en)
                   /\ R.T = markGoodBytes(U, o.obj, o.bytes, en)
  <2>1. PICK en : R.T = updateTLStore(A.T, o, en)
    <3>1. R.T = StoreAfter(A, o, v)
      BY ONLY <1>0, <1>p, InstructionFields
    <3> QED BY <3>1, SomeStoreAfter, Zenon
  <2> QED BY <2>1 DEF updateTLStore
<1>2. /\ \A m \in GoodBytes(U) : m \in GoodBytes(A.T) \/ m \in {o.to} \X o.bytes
      /\ U = [aoc |-> U.aoc, map |-> U.map]
  BY <1>1, GoodMark DEF TLTyped
<1>3. \A m \in GoodBytes(R.T) : m \in GoodBytes(U) \/ m \in ReadOf(o)
  BY <1>1, <1>2, GoodMark DEF ReadOf
<1>4. Clean(A, D) /\ ~Must(A, o) => ~ReadsDirty(o, D)
  BY UnmarkedGood DEF readsMemoryDirectly
<1>5. ASSUME Clean(A, D), ~(r /\ Must(A, o))
      PROVE  Clean(R, E)
  <2>1. ~ReadsDirty(o, D)
    BY <1>4, <1>5 DEF Passed
  <2> QED BY <2>1, <1>2, <1>3, <1>5 DEF Clean, ReadsDirty
<1>6. r /\ u => Suspect(A) \/ Must(A, o)
  BY <1>4 DEF Explained, Taints
<1> QED BY <1>0, <1>5, <1>6, InstructionExplained

(* Other threads write what they can reach.                                *)
LEMMA YieldExplained ==
    ASSUME NEW A, NEW o, o.kind \in {"fence", "lock"}, NEW id, NEW R, PassStep(A, o, id, R),
           NEW D, NEW r, NEW t, Explained(A, D, r, t),
           NEW E, o.kind = "lock" => \A m \in E : m \in D \/ m[1] = o.obj
    PROVE  Explained(R, E, r, t)
<1>p. PICK v : TLTyped(A) /\ v.second = FALSE /\ R = TLOperation(A, o, id, v)
  BY DEF PassStep
<1> USE <1>p
<1>0. o.kind \in Instructions
  BY DEF Instructions
<1>1. R.T = StoreAfter(A, o, v)
  BY <1>0, InstructionFields
<1>2. ASSUME o.kind = "fence"
      PROVE  Clean(A, D) => Clean(R, E)
  <2>1. R.T = markAllObjectsTentative
    BY <1>1, <1>2 DEF StoreAfter, updateTLStore
  <2> QED BY <2>1, NothingGood DEF Clean
<1>3. ASSUME o.kind = "lock"
      PROVE  Clean(A, D) => Clean(R, E)
  <2>1. R.T = Put(A.T, o.obj, {})
    BY <1>1, <1>3 DEF StoreAfter, updateTLStore
  <2>2. \A m \in GoodBytes(R.T) : IF m[1] = o.obj THEN m[2] \in {} ELSE m \in GoodBytes(A.T)
    BY <2>1, GoodPut DEF TLTyped
  <2> QED BY <2>2, <1>3 DEF Clean
<1>4. Clean(A, D) => Clean(R, E)
  BY <1>2, <1>3
<1>5. r /\ t => Suspect(A)
  BY DEF Explained
<1> QED BY <1>0, <1>4, <1>5, InstructionExplained

(* What the pass does not look at.                                         *)
LEMMA QuietExplained ==
    ASSUME NEW A, NEW o, o.kind \in {"free", "syscall"}, NEW id, NEW R, PassStep(A, o, id, R),
           NEW D, NEW r, NEW t, Explained(A, D, r, t),
           NEW E, \A m \in E : m \in D
    PROVE  Explained(R, E, r, t)
<1>p. PICK v : TLTyped(A) /\ v.second = FALSE /\ R = TLOperation(A, o, id, v)
  BY DEF PassStep
<1> USE <1>p
<1>0. o.kind \in Instructions
  BY DEF Instructions
<1>1. R.T = A.T
  <2>1. R.T = StoreAfter(A, o, v)
    BY <1>0, InstructionFields
  <2> QED BY <2>1 DEF StoreAfter, updateTLStore
<1>2. Clean(A, D) => Clean(R, E)
  BY <1>1 DEF Clean
<1>3. r /\ t => Suspect(A)
  BY DEF Explained
<1> QED BY <1>0, <1>2, <1>3, InstructionExplained

(* A path condition held.                                                  *)
LEMMA PathConditionExplained ==
    ASSUME NEW A, NEW o, o.kind = "pathCondition", NEW id, NEW R, PassStep(A, o, id, R),
           NEW D, NEW r, NEW t, Explained(A, D, r, t), ~ReadsDirty(o, D)
    PROVE  Explained(R, D, r, t)
<1>p. PICK v : TLTyped(A) /\ v.second = FALSE /\ R = TLOperation(A, o, id, v)
  BY DEF PassStep
<1> USE <1>p
<1>1. R = TLWalkPathConditions(A, o, v)
  BY DEF TLOperation
<1>2. CASE ~v.inLoop
  BY <1>1, <1>2, Zenon DEF TLWalkPathConditions
<1>3. CASE v.inLoop
  <2>1. PICK U : U = markGoodBytes(A.T, o.obj, o.bytes, TRUE)
    OBVIOUS
  <2>2. R = [A EXCEPT !.T = U]
    BY <1>1, <1>3, <2>1, Zenon DEF TLWalkPathConditions
  <2>3. R.T = U /\ R.inRegion = A.inRegion /\ R.regionReads = A.regionReads
    BY <2>2 DEF TLTyped
  <2>4. \A m \in GoodBytes(U) : m \in GoodBytes(A.T) \/ m \in ReadOf(o)
    BY <2>1, GoodMark DEF ReadOf, TLTyped
  <2>5. Clean(A, D) => Clean(R, D)
    BY <2>3, <2>4 DEF Clean, ReadsDirty
  <2>6. (InRegion(R) <=> InRegion(A)) /\ (Suspect(R) <=> Suspect(A))
    BY <2>3 DEF InRegion, Suspect
  <2> QED BY <2>5, <2>6, Zenon DEF Explained
<1> QED BY <1>2, <1>3

(* Into code that was left unspecialised, and out again.                   *)
LEMMA EnterExplained ==
    ASSUME NEW A, NEW o, o.kind = "enter", NEW id, NEW R, PassStep(A, o, id, R), ~InRegion(A),
           NEW D, NEW r, NEW t, Explained(A, D, r, t)
    PROVE  Explained(R, D, TRUE, FALSE)
<1>p. PICK v : TLTyped(A) /\ v.second = FALSE /\ R = TLOperation(A, o, id, v)
  BY DEF PassStep
<1> USE <1>p
<1>1. R = [A EXCEPT !.backup = A.T, !.inRegion = TRUE, !.regionReads = FALSE]
  BY DEF TLOperation
<1>2. R.T = A.T /\ R.inRegion = TRUE /\ R.regionReads = FALSE
  BY <1>1 DEF TLTyped
<1>3. InRegion(R) /\ ~Suspect(R)
  BY <1>2 DEF InRegion, Suspect
<1>4. Clean(A, D)
  BY Zenon DEF Explained
<1>5. Clean(R, D)
  BY <1>2, <1>4 DEF Clean
<1> QED BY <1>3, <1>5, Zenon DEF Explained

LEMMA LeaveExplained ==
    ASSUME NEW A, NEW o, o.kind = "leave", NEW id, NEW R, PassStep(A, o, id, R), LeavesWell(A, R),
           NEW D, NEW r, NEW t, Explained(A, D, r, t),
           NEW E, NoMore(t, D, E)
    PROVE  Explained(R, E, FALSE, t)
<1>p. PICK v : TLTyped(A) /\ v.second = FALSE /\ R = TLOperation(A, o, id, v)
  BY DEF PassStep
<1> USE <1>p
<1>1. R = rerunTentativeLoads(A, o, id, v)
  BY DEF TLOperation
<1>2. R.inRegion = FALSE
  <2>1. PICK U, C : R = [A EXCEPT !.T = U, !.checked = C, !.inRegion = FALSE]
    BY <1>1, Zenon DEF rerunTentativeLoads
  <2> QED BY <2>1 DEF TLTyped
<1>3. ~InRegion(R)
  BY <1>2 DEF InRegion
<1>4. InRegion(A)
  <2>1. A.inRegion /\ A.inRegion \in BOOLEAN
    BY DEF LeavesWell, TLTyped
  <2> QED BY <2>1, Zenon DEF InRegion
<1>5. CASE Suspect(A)
  <2>1. A.regionReads
    BY <1>5, Zenon DEF Suspect
  <2>2. GoodBytes(R.T) = {}
    BY <2>1, Zenon DEF LeavesWell
  <2>3. Clean(R, E)
    BY <2>2 DEF Clean
  <2> QED BY <2>3, <1>3, Zenon DEF Explained
<1>6. CASE ~Suspect(A)
  <2>1. Clean(A, D) /\ ~t
    BY <1>4, <1>6, Zenon DEF Explained
  <2>2. GoodBytes(R.T) \subseteq GoodBytes(A.T)
    BY Zenon DEF LeavesWell
  <2>3. Clean(R, E)
    BY <2>1, <2>2 DEF Clean, NoMore
  <2> QED BY <2>3, <1>3, Zenon DEF Explained
<1> QED BY <1>5, <1>6

(* At the start of the next block less is taken for good.                  *)
LEMMA EdgeExplained ==
    ASSUME NEW A, NEW D, NEW r, NEW t, Explained(A, D, r, t), ~InRegion(A),
           NEW G, G \subseteq GoodBytes(A.T)
    PROVE  Explained(TLEnter(G), D, r, t)
<1> DEFINE B == TLEnter(G)
<1>1. B.T = TLStore(G) /\ B.inRegion = FALSE
  BY DEF TLEnter
<1>2. \A m \in GoodBytes(B.T) : m \in G
  <2>1. SUFFICES ASSUME NEW m \in GoodBytes(TLStore(G))
                 PROVE  m \in G
    BY <1>1
  <2>2. m \in Memory
    BY DEF GoodBytes
  <2>3. m[1] \in Objects /\ m = <<m[1], m[2]>>
    BY <2>2 DEF Memory
  <2>4. m[2] \in TLStore(G).map[m[1]]
    <3>1. m[1] \in DOMAIN TLStore(G).map
      BY <2>3 DEF TLStore
    <3> QED BY <3>1, <2>1 DEF GoodBytes
  <2> QED BY <2>3, <2>4 DEF TLStore
<1>3. ~InRegion(B)
  BY <1>1 DEF InRegion
<1> HIDE DEF B
<1>4. Clean(A, D)
  BY Zenon DEF Explained
<1>5. Clean(B, D)
  BY <1>2, <1>4 DEF Clean
<1>6. Explained(B, D, r, t)
  BY <1>3, <1>5, Zenon DEF Explained
<1> QED BY <1>6 DEF B

-----------------------------------------------------------------------------
(* The fixed point.                                                        *)

(* The pass's state at a point of the function.                            *)
StateAt(p, point) == TLStates(p, point[1], GoodAtStart(p)[point[1]])[point[2]]

StepSettled(p, id, A, B) ==
    /\ B = TLStep(p, A, id) /\ TLTyped(A)
    /\ id \in B.checked => IF Op(p, id).kind = "copy" THEN A.inRegion
                            ELSE id \in findTentativeLoads(p)
    /\ Op(p, id).kind = "enter" => A.inRegion = FALSE
    /\ Op(p, id).kind = "leave" => LeavesWell(A, B)

LEMMA SettledParts ==
    ASSUME NEW p, TLSettled(p)
    PROVE  /\ \A b \in Blocks(p) : StateAt(p, <<b, 1>>) = TLEnter(GoodAtStart(p)[b])
           /\ \A b \in Blocks(p) : \A j \in DOMAIN p.ops[b] :
                 StepSettled(p, <<b, j>>, StateAt(p, <<b, j>>), StateAt(p, <<b, j + 1>>))
           /\ \A b \in Blocks(p) : \A c \in p.succ[b] :
                 LET A == StateAt(p, <<b, Len(p.ops[b]) + 1>>)
                 IN  A.inRegion = FALSE /\ GoodAtStart(p)[c] \subseteq GoodBytes(A.T)
<1> DEFINE good == GoodAtStart(p)
           at   == [b \in Blocks(p) |-> TLStates(p, b, good[b])]
<1>1. \A b \in Blocks(p) : \A j : StateAt(p, <<b, j>>) = at[b][j]
  BY DEF StateAt
<1>2. \A b \in Blocks(p) : at[b][1] = TLEnter(good[b])
  BY DEF TLSettled
<1>3. \A id \in Ids(p) : /\ at[id[1]][id[2] + 1] = TLStep(p, at[id[1]][id[2]], id)
                         /\ StepSettled(p, id, at[id[1]][id[2]], TLStep(p, at[id[1]][id[2]], id))
  BY DEF TLSettled, StepSettled
<1>4. \A b \in Blocks(p) : \A c \in p.succ[b] :
         LET A == at[b][Len(p.ops[b]) + 1]
         IN  A.inRegion = FALSE /\ good[c] \subseteq GoodBytes(A.T)
  BY DEF TLSettled
<1> HIDE DEF at
<1>5. ASSUME NEW b \in Blocks(p), NEW j \in DOMAIN p.ops[b]
      PROVE  StepSettled(p, <<b, j>>, StateAt(p, <<b, j>>), StateAt(p, <<b, j + 1>>))
  <2>1. PICK id : id = <<b, j>>
    OBVIOUS
  <2>2. id \in Ids(p) /\ id[1] = b /\ id[2] = j
    BY <2>1 DEF Ids
  <2>3. StepSettled(p, id, at[b][j], at[b][j + 1])
    BY <2>2, <1>3
  <2> QED BY <2>1, <2>3, <1>1
<1> QED BY <1>1, <1>2, <1>4, <1>5

-----------------------------------------------------------------------------
(* The invariant.                                                          *)
IsPoint(p, point) ==
    /\ point = <<point[1], point[2]>> /\ point[1] \in Blocks(p)
    /\ point[2] \in 1..(Len(p.ops[point[1]]) + 1)

TLInv ==
    /\ prog \in Programs /\ IsPoint(prog, pc)
    /\ dirty \subseteq Known /\ region \in BOOLEAN /\ tainted \in BOOLEAN
    /\ phase \in {"findTentativeLoads", "tryKillStores"} =>
         pc = <<1, 1>> /\ dirty = {} /\ region = FALSE
    /\ phase # "findTentativeLoads" => checked = findTentativeLoads(prog)
    /\ phase = "run" => Explained(StateAt(prog, pc), dirty, region, tainted)

Next1 == <<pc[1], pc[2] + 1>>

(* An operation of the run, and the pass at it.                            *)
LEMMA RunStep ==
    ASSUME TLInv, \A p \in Programs : TLSettled(p), NEW K, AtOp(K)
    PROVE  /\ IsPoint(prog, Next1) /\ op.kind \in K /\ phase = "run"
           /\ StepSettled(prog, pc, StateAt(prog, pc), StateAt(prog, Next1))
           /\ Explained(StateAt(prog, pc), dirty, region, tainted)
           /\ checked = findTentativeLoads(prog)
<1>1. /\ prog \in Programs /\ IsPoint(prog, pc) /\ phase = "run"
  BY DEF TLInv, AtOp
<1>2. /\ pc = <<pc[1], pc[2]>> /\ pc[1] \in Blocks(prog) /\ pc[2] \in Nat
      /\ pc[2] \in DOMAIN prog.ops[pc[1]] /\ IsPoint(prog, Next1)
  <2>1. prog.ops[pc[1]] \in Seq(Operations)
    BY <1>1, RunAssumption DEF IsPoint
  <2>2. ~(pc[2] > Len(prog.ops[pc[1]]))
    BY DEF AtOp, AtEnd
  <2> QED BY <2>1, <2>2, <1>1 DEF IsPoint, Next1
<1>3. StepSettled(prog, <<pc[1], pc[2]>>, StateAt(prog, <<pc[1], pc[2]>>), StateAt(prog, Next1))
  BY <1>1, <1>2, SettledParts DEF Next1
<1> QED BY <1>1, <1>2, <1>3 DEF TLInv, AtOp, op

LEMMA Advanced ==
    ASSUME TLInv, IsPoint(prog, Next1), phase = "run", Advance, prog' = prog, checked' = checked,
           dirty' \subseteq Known, region' \in BOOLEAN, tainted' \in BOOLEAN,
           Explained(StateAt(prog, Next1), dirty', region', tainted')
    PROVE  TLInv'
BY DEF TLInv, Advance, Next1

LEMMA Abandoned ==
    ASSUME TLInv, phase = "run", Abandon, prog' = prog, checked' = checked,
           dirty' \subseteq Known, region' \in BOOLEAN, tainted' \in BOOLEAN
    PROVE  TLInv'
BY DEF TLInv, Abandon

(* An operation is done as the pass says: its state before and after.      *)
LEMMA StepFacts ==
    ASSUME TLInv, \A p \in Programs : TLSettled(p), NEW K, AtOp(K)
    PROVE  \E A, B :
              /\ PassStep(A, op, pc, B)
              /\ A = StateAt(prog, pc) /\ B = StateAt(prog, Next1)
              /\ Explained(A, dirty, region, tainted)
              /\ op.kind \in Instructions /\ Must(A, op) =>
                   IF op.kind = "copy" THEN region ELSE HasCheck
              /\ op.kind = "enter" => ~InRegion(A)
              /\ op.kind = "leave" => LeavesWell(A, B) /\ (Suspect(A) => HasCheck)
<1>1. PICK A, B : A = StateAt(prog, pc) /\ B = StateAt(prog, Next1)
  OBVIOUS
<1>2. StepSettled(prog, pc, A, B) /\ Explained(A, dirty, region, tainted)
      /\ checked = findTentativeLoads(prog) /\ op = Op(prog, pc)
  BY <1>1, RunStep DEF op
<1>3. PICK v : v.second = FALSE /\ B = TLOperation(A, op, pc, v) /\ TLTyped(A)
  <2>1. PICK w : w = [second |-> FALSE, inLoop |-> \E l \in prog.loops : pc[1] \in l.header..l.last]
    OBVIOUS
  <2>2. w.second = FALSE
    BY <2>1
  <2>3. B = TLOperation(A, op, pc, w) /\ TLTyped(A)
    BY <1>2, <2>1 DEF StepSettled, TLStep
  <2> QED BY <2>2, <2>3
<1>4. ASSUME op.kind \in Instructions, Must(A, op)
      PROVE  IF op.kind = "copy" THEN region ELSE HasCheck
  <2>1. pc \in B.checked
    BY <1>3, <1>4, InstructionFields
  <2>2. CASE op.kind = "copy"
    <3>1. A.inRegion /\ A.inRegion \in BOOLEAN
      BY <1>2, <2>1, <2>2 DEF StepSettled, TLTyped
    <3>2. InRegion(A)
      BY <3>1, Zenon DEF InRegion
    <3> QED BY <3>2, <1>2, <2>2, Zenon DEF Explained
  <2>3. CASE op.kind # "copy"
    <3>1. pc \in checked
      BY <1>2, <2>1, <2>3 DEF StepSettled
    <3> QED BY <3>1, <2>3 DEF HasCheck, requiresRuntimeCheck
  <2> QED BY <2>2, <2>3
<1>p. PassStep(A, op, pc, B)
  BY <1>3 DEF PassStep
<1>5. op.kind = "enter" => ~InRegion(A)
  BY <1>2 DEF StepSettled, InRegion
<1>6. op.kind = "leave" => LeavesWell(A, B)
  BY <1>2 DEF StepSettled
<1>7. ASSUME op.kind = "leave", Suspect(A)
      PROVE  HasCheck
  <2>1. PICK U, C : /\ C = IF A.regionReads THEN A.checked \cup {pc} ELSE A.checked
                    /\ B = [A EXCEPT !.T = U, !.checked = C, !.inRegion = FALSE]
    BY <1>3, <1>7, Zenon DEF TLOperation, rerunTentativeLoads
  <2>2. A.regionReads
    BY <1>7, Zenon DEF Suspect
  <2>3. pc \in C
    BY <2>1, <2>2
  <2>4. B.checked = C
    BY <1>3, <2>1 DEF TLTyped
  <2>5. pc \in checked
    BY <1>2, <1>7, <2>3, <2>4 DEF StepSettled
  <2> QED BY <2>5, <1>7 DEF HasCheck, requiresRuntimeCheck
<1> QED BY <1>1, <1>2, <1>p, <1>4, <1>5, <1>6, <1>7

-----------------------------------------------------------------------------
(* The actions.                                                            *)

LEMMA LoadInv ==
    ASSUME TLInv, \A p \in Programs : TLSettled(p), Load
    PROVE  TLInv'
<1>1. AtOp({"load", "loadAny"}) /\ phase = "run"
  BY DEF Load, AtOp
<1>2. IsPoint(prog, Next1) /\ op.kind \in {"load", "loadAny"}
  BY <1>1, RunStep
<1>3. dirty \subseteq Known /\ region \in BOOLEAN /\ tainted' \in BOOLEAN
  BY DEF TLInv, Load
<1>4. PICK d : d <=> Read \cap dirty # {}
  OBVIOUS
<1>5. d <=> ReadsDirty(op, dirty)
  BY <1>4 DEF ReadsDirty, ReadOf, Read
<1>6. /\ IF ~region /\ HasCheck /\ d THEN Abandon ELSE Advance
      /\ tainted' <=> tainted \/ (region /\ op.kind = "load" /\ d)
      /\ prog' = prog /\ checked' = checked /\ dirty' = dirty /\ region' = region
  BY <1>4 DEF Load
<1>7. CASE Abandon
  BY <1>1, <1>3, <1>6, <1>7, Abandoned
<1>8. CASE Advance /\ ~(~region /\ HasCheck /\ d)
  <2>1. PICK A, B :
              /\ PassStep(A, op, pc, B)
              /\ A = StateAt(prog, pc) /\ B = StateAt(prog, Next1)
              /\ Explained(A, dirty, region, tainted)
              /\ op.kind \in Instructions /\ Must(A, op) =>
                   IF op.kind = "copy" THEN region ELSE HasCheck
    BY <1>1, StepFacts
  <2>2. Passed(A, op, dirty, region)
    BY <1>2, <1>5, <1>8, <2>1 DEF Instructions, Passed
  <2>3. Taints(op, dirty, region, tainted, tainted')
    BY <1>2, <1>5, <1>6 DEF Taints
  <2>4. PICK o, r, t, u : o = op /\ r = region /\ t = tainted /\ u = tainted'
    OBVIOUS
  <2>a. /\ PassStep(A, o, pc, B) /\ o.kind \in {"load", "loadAny"} /\ dirty \subseteq Known
        /\ Explained(A, dirty, r, t) /\ Taints(o, dirty, r, t, u) /\ Passed(A, o, dirty, r)
    BY <1>2, <1>3, <2>1, <2>2, <2>3, <2>4, Zenon
  <2>5. Explained(B, dirty, r, u)
    BY ONLY <2>a, LoadExplained
  <2>6. Explained(StateAt(prog, Next1), dirty', region', tainted')
    BY <2>1, <2>4, <2>5, <1>6
  <2> QED BY <2>6, <1>1, <1>2, <1>3, <1>6, <1>8, Advanced
<1> QED BY <1>6, <1>7, <1>8

LEMMA InterferedFacts ==
    ASSUME TLInv, NEW M, NEW E \in Interfered(M)
    PROVE  E \subseteq Known /\ \A m \in E : m \in dirty \/ m \in M
BY DEF TLInv, Interfered

LEMMA OrderedLoadInv ==
    ASSUME TLInv, \A p \in Programs : TLSettled(p), OrderedLoad
    PROVE  TLInv'
<1>1. AtOp({"ordered"}) /\ phase = "run"
  BY DEF OrderedLoad, AtOp
<1>2. IsPoint(prog, Next1) /\ op.kind = "ordered"
  BY <1>1, RunStep
<1>3. dirty' \subseteq Known /\ region \in BOOLEAN /\ tainted' \in BOOLEAN
  <2>1. dirty' \subseteq Known
    BY InterferedFacts DEF OrderedLoad
  <2> QED BY <2>1 DEF TLInv, OrderedLoad
<1>4. Read \cap dirty' # {} <=> ReadsDirty(op, dirty')
  BY DEF ReadsDirty, ReadOf, Read
<1>5. /\ Abandon \/ Advance
      /\ tainted' <=> tainted \/ (region /\ ReadsDirty(op, dirty'))
      /\ prog' = prog /\ checked' = checked /\ region' = region
  BY <1>4 DEF OrderedLoad
<1>6. CASE Abandon
  BY <1>1, <1>3, <1>5, <1>6, Abandoned
<1>7. CASE Advance
  <2>1. PICK A, B :
              /\ PassStep(A, op, pc, B)
              /\ A = StateAt(prog, pc) /\ B = StateAt(prog, Next1)
              /\ Explained(A, dirty, region, tainted)
    BY <1>1, StepFacts
  <2>2. Taints(op, dirty', region, tainted, tainted')
    BY <1>2, <1>5 DEF Taints
  <2>3. PICK o, E, r, t, u :
              o = op /\ E = dirty' /\ r = region /\ t = tainted /\ u = tainted'
    OBVIOUS
  <2>a. /\ PassStep(A, o, pc, B) /\ o.kind = "ordered" /\ Explained(A, dirty, r, t)
        /\ E \subseteq Known /\ Taints(o, E, r, t, u)
    BY <1>2, <1>3, <2>1, <2>2, <2>3, Zenon
  <2>4. Explained(B, E, r, u)
    BY ONLY <2>a, OrderedExplained
  <2>5. Explained(StateAt(prog, Next1), dirty', region', tainted')
    BY <2>1, <2>3, <2>4, <1>5
  <2> QED BY <2>5, <1>1, <1>2, <1>3, <1>5, <1>7, Advanced
<1> QED BY <1>5, <1>6, <1>7

LEMMA StoreInv ==
    ASSUME TLInv, \A p \in Programs : TLSettled(p), Store
    PROVE  TLInv'
<1>1. AtOp({"store", "copy"}) /\ phase = "run"
  BY DEF Store, AtOp
<1>2. IsPoint(prog, Next1) /\ op.kind \in {"store", "copy"}
  BY <1>1, RunStep
<1>3. /\ dirty \subseteq Known /\ dirty' \subseteq Known
      /\ region \in BOOLEAN /\ tainted' \in BOOLEAN
  BY DEF TLInv, Store
<1>4. Read \cap dirty # {} <=> ReadsDirty(op, dirty)
  BY DEF ReadsDirty, ReadOf, Read
<1>5. /\ tainted' <=> tainted \/ (region /\ op.kind = "copy" /\ ReadsDirty(op, dirty))
      /\ prog' = prog /\ checked' = checked /\ region' = region /\ Advance
      /\ dirty' = dirty \ Written
  BY <1>4 DEF Store
<1>6. PICK A, B :
              /\ PassStep(A, op, pc, B)
              /\ A = StateAt(prog, pc) /\ B = StateAt(prog, Next1)
              /\ Explained(A, dirty, region, tainted)
              /\ op.kind \in Instructions /\ Must(A, op) =>
                   IF op.kind = "copy" THEN region ELSE HasCheck
  BY <1>1, StepFacts
<1>7. Taints(op, dirty, region, tainted, tainted')
  BY <1>2, <1>5 DEF Taints
<1>8. PICK o, E, r, t, u :
              o = op /\ E = dirty' /\ r = region /\ t = tainted /\ u = tainted'
  OBVIOUS
<1>9. CASE op.kind = "store"
  <2>1. \A m \in E : m \in dirty /\ m \notin {o.obj} \X o.bytes
    BY <1>5, <1>8, <1>9 DEF Written
  <2>a. /\ PassStep(A, o, pc, B) /\ o.kind = "store" /\ Explained(A, dirty, r, t)
        /\ \A m \in E : m \in dirty /\ m \notin {o.obj} \X o.bytes
        /\ Taints(o, dirty, r, t, u)
    BY <2>1, <1>6, <1>7, <1>8, <1>9, Zenon
  <2>2. Explained(B, E, r, u)
    BY ONLY <2>a, StoreExplained
  <2>3. Explained(StateAt(prog, Next1), dirty', region', tainted')
    BY <2>2, <1>5, <1>6, <1>8
  <2> QED BY <2>3, <1>1, <1>2, <1>3, <1>5, Advanced
<1>10. CASE op.kind = "copy"
  <2>1. \A m \in E : m \in dirty /\ m \notin {o.to} \X o.bytes
    BY <1>5, <1>8, <1>10 DEF Written
  <2>2. Passed(A, op, dirty, region)
    BY <1>6, <1>10 DEF Passed, Instructions
  <2>a. /\ PassStep(A, o, pc, B) /\ o.kind = "copy" /\ Explained(A, dirty, r, t)
        /\ \A m \in E : m \in dirty /\ m \notin {o.to} \X o.bytes
        /\ dirty \subseteq Known /\ Taints(o, dirty, r, t, u) /\ Passed(A, o, dirty, r)
    BY <2>1, <2>2, <1>3, <1>6, <1>7, <1>8, <1>10, Zenon
  <2>3. Explained(B, E, r, u)
    BY ONLY <2>a, CopyExplained
  <2>4. Explained(StateAt(prog, Next1), dirty', region', tainted')
    BY <2>3, <1>5, <1>6, <1>8
  <2> QED BY <2>4, <1>1, <1>2, <1>3, <1>5, Advanced
<1> QED BY <1>2, <1>9, <1>10

LEMMA YieldInv ==
    ASSUME TLInv, \A p \in Programs : TLSettled(p), Yield
    PROVE  TLInv'
<1>1. AtOp({"fence", "lock"}) /\ phase = "run"
  BY DEF Yield, AtOp
<1>2. IsPoint(prog, Next1) /\ op.kind \in {"fence", "lock"}
  BY <1>1, RunStep
<1>3. /\ dirty' \subseteq Known
      /\ \A m \in dirty' : m \in dirty
              \/ m \in IF op.kind = "fence" THEN Memory ELSE {op.obj} \X Bytes
  BY InterferedFacts DEF Yield
<1>4. /\ prog' = prog /\ checked' = checked /\ region' = region /\ tainted' = tainted
      /\ region \in BOOLEAN /\ tainted \in BOOLEAN /\ Advance
  BY DEF Yield, TLInv
<1>5. PICK A, B :
              /\ PassStep(A, op, pc, B)
              /\ A = StateAt(prog, pc) /\ B = StateAt(prog, Next1)
              /\ Explained(A, dirty, region, tainted)
  BY <1>1, StepFacts
<1>6. op.kind = "lock" => \A m \in dirty' : m \in dirty \/ m[1] = op.obj
  BY <1>3
<1>7. PICK o, E, r, t : o = op /\ E = dirty' /\ r = region /\ t = tainted
  OBVIOUS
<1>a. /\ PassStep(A, o, pc, B) /\ o.kind \in {"fence", "lock"} /\ Explained(A, dirty, r, t)
      /\ o.kind = "lock" => \A m \in E : m \in dirty \/ m[1] = o.obj
  BY <1>2, <1>5, <1>6, <1>7, Zenon
<1>8. Explained(B, E, r, t)
  BY ONLY <1>a, YieldExplained
<1>9. Explained(StateAt(prog, Next1), dirty', region', tainted')
  BY <1>4, <1>5, <1>7, <1>8
<1> QED BY <1>1, <1>2, <1>3, <1>4, <1>9, Advanced

LEMMA QuietInv ==
    ASSUME TLInv, \A p \in Programs : TLSettled(p), Free \/ SystemCall
    PROVE  TLInv'
<1>1. AtOp({"free", "syscall"}) /\ phase = "run"
  BY DEF Free, SystemCall, AtOp
<1>2. IsPoint(prog, Next1) /\ op.kind \in {"free", "syscall"}
  BY <1>1, RunStep
<1>3. /\ prog' = prog /\ checked' = checked /\ region' = region /\ tainted' = tainted
      /\ region \in BOOLEAN /\ tainted \in BOOLEAN /\ Advance
  BY DEF Free, SystemCall, TLInv
<1>4. dirty' \subseteq dirty /\ dirty' \subseteq Known
  BY DEF Free, SystemCall, TLInv
<1>5. PICK A, B :
              /\ PassStep(A, op, pc, B)
              /\ A = StateAt(prog, pc) /\ B = StateAt(prog, Next1)
              /\ Explained(A, dirty, region, tainted)
  BY <1>1, StepFacts
<1>6. PICK o, E, r, t : o = op /\ E = dirty' /\ r = region /\ t = tainted
  OBVIOUS
<1>a. /\ PassStep(A, o, pc, B) /\ o.kind \in {"free", "syscall"} /\ Explained(A, dirty, r, t)
      /\ \A m \in E : m \in dirty
  BY <1>2, <1>4, <1>5, <1>6
<1>7. Explained(B, E, r, t)
  BY ONLY <1>a, QuietExplained
<1>8. Explained(StateAt(prog, Next1), dirty', region', tainted')
  BY <1>3, <1>5, <1>6, <1>7
<1> QED BY <1>1, <1>2, <1>3, <1>4, <1>8, Advanced

LEMMA PathConditionInv ==
    ASSUME TLInv, \A p \in Programs : TLSettled(p), PathCondition
    PROVE  TLInv'
<1>1. AtOp({"pathCondition"}) /\ phase = "run"
  BY DEF PathCondition, AtOp
<1>2. IsPoint(prog, Next1) /\ op.kind = "pathCondition"
  BY <1>1, RunStep
<1>3. /\ prog' = prog /\ checked' = checked /\ region' = region /\ tainted' = tainted
      /\ region \in BOOLEAN /\ tainted \in BOOLEAN /\ dirty' = dirty /\ dirty \subseteq Known
  BY DEF PathCondition, TLInv
<1>4. Read \cap dirty # {} <=> ReadsDirty(op, dirty)
  BY DEF ReadsDirty, ReadOf, Read
<1>5. Abandon \/ (Advance /\ ~ReadsDirty(op, dirty))
  BY <1>4 DEF PathCondition
<1>6. CASE Abandon
  BY <1>1, <1>3, <1>6, Abandoned
<1>7. CASE Advance /\ ~ReadsDirty(op, dirty)
  <2>1. PICK A, B :
              /\ PassStep(A, op, pc, B)
              /\ A = StateAt(prog, pc) /\ B = StateAt(prog, Next1)
              /\ Explained(A, dirty, region, tainted)
    BY <1>1, StepFacts
  <2>2. PICK o, r, t : o = op /\ r = region /\ t = tainted
    OBVIOUS
  <2>a. /\ PassStep(A, o, pc, B) /\ o.kind = "pathCondition" /\ Explained(A, dirty, r, t)
        /\ ~ReadsDirty(o, dirty)
    BY <1>2, <1>7, <2>1, <2>2, Zenon
  <2>3. Explained(B, dirty, r, t)
    BY ONLY <2>a, PathConditionExplained
  <2>4. Explained(StateAt(prog, Next1), dirty', region', tainted')
    BY <1>3, <2>1, <2>2, <2>3
  <2> QED BY <2>4, <1>1, <1>2, <1>3, <1>7, Advanced
<1> QED BY <1>5, <1>6, <1>7

LEMMA EnterInv ==
    ASSUME TLInv, \A p \in Programs : TLSettled(p), Enter
    PROVE  TLInv'
<1>1. AtOp({"enter"}) /\ phase = "run"
  BY DEF Enter, AtOp
<1>2. IsPoint(prog, Next1) /\ op.kind = "enter"
  BY <1>1, RunStep
<1>3. /\ prog' = prog /\ checked' = checked /\ region' = TRUE /\ tainted' = FALSE
      /\ dirty' = dirty /\ dirty \subseteq Known /\ Advance
  BY DEF Enter, TLInv
<1>4. PICK A, B :
              /\ PassStep(A, op, pc, B)
              /\ A = StateAt(prog, pc) /\ B = StateAt(prog, Next1)
              /\ Explained(A, dirty, region, tainted)
              /\ op.kind = "enter" => ~InRegion(A)
  BY <1>1, StepFacts
<1>5. PICK o, r, t : o = op /\ r = region /\ t = tainted
  OBVIOUS
<1>a. /\ PassStep(A, o, pc, B) /\ o.kind = "enter" /\ Explained(A, dirty, r, t)
      /\ ~InRegion(A)
  BY <1>2, <1>4, <1>5, Zenon
<1>6. Explained(B, dirty, TRUE, FALSE)
  BY ONLY <1>a, EnterExplained
<1>7. Explained(StateAt(prog, Next1), dirty', region', tainted')
  BY <1>3, <1>4, <1>6
<1> QED BY <1>1, <1>2, <1>3, <1>7, Advanced

LEMMA LeaveInv ==
    ASSUME TLInv, \A p \in Programs : TLSettled(p), Leave
    PROVE  TLInv'
<1>1. AtOp({"leave"}) /\ phase = "run"
  BY DEF Leave, AtOp
<1>2. IsPoint(prog, Next1) /\ op.kind = "leave"
  BY <1>1, RunStep
<1>3. /\ dirty' \subseteq Known
      /\ \A m \in dirty' : m \in dirty \/ m \in IF tainted THEN Memory ELSE {}
  BY InterferedFacts DEF Leave
<1>4. /\ prog' = prog /\ checked' = checked /\ region' = FALSE /\ tainted' = tainted
      /\ tainted \in BOOLEAN /\ (Advance \/ Abandon)
  BY DEF Leave, TLInv
<1>5. CASE Abandon
  BY <1>1, <1>3, <1>4, <1>5, Abandoned
<1>6. CASE Advance
  <2>1. PICK A, B :
              /\ PassStep(A, op, pc, B)
              /\ A = StateAt(prog, pc) /\ B = StateAt(prog, Next1)
              /\ Explained(A, dirty, region, tainted)
              /\ op.kind = "leave" => LeavesWell(A, B)
    BY <1>1, StepFacts
  <2>2. NoMore(tainted, dirty, dirty')
    BY <1>3 DEF NoMore
  <2>3. PICK o, E, r, t : o = op /\ E = dirty' /\ r = region /\ t = tainted
    OBVIOUS
  <2>a. /\ PassStep(A, o, pc, B) /\ o.kind = "leave" /\ Explained(A, dirty, r, t)
        /\ LeavesWell(A, B) /\ NoMore(t, dirty, E)
    BY <1>2, <2>1, <2>2, <2>3, Zenon
  <2>4. Explained(B, E, FALSE, t)
    BY ONLY <2>a, LeaveExplained
  <2>5. Explained(StateAt(prog, Next1), dirty', region', tainted')
    BY <1>4, <2>1, <2>3, <2>4
  <2> QED BY <2>5, <1>1, <1>2, <1>3, <1>4, <1>6, Advanced
<1> QED BY <1>4, <1>5, <1>6

LEMMA NextBlockInv ==
    ASSUME TLInv, \A p \in Programs : TLSettled(p), NextBlock
    PROVE  TLInv'
<1>1. prog \in Programs /\ IsPoint(prog, pc) /\ phase = "run" /\ AtEnd
  BY DEF TLInv, NextBlock
<1>2. /\ prog' = prog /\ checked' = checked /\ region' = region /\ tainted' = tainted
      /\ dirty' = dirty /\ phase' = phase
      /\ region \in BOOLEAN /\ tainted \in BOOLEAN /\ dirty \subseteq Known
      /\ checked = findTentativeLoads(prog)
      /\ Explained(StateAt(prog, pc), dirty, region, tainted)
  BY <1>1 DEF TLInv, NextBlock
<1>3. PICK a, b : a = pc[1] /\ b \in prog.succ[a] /\ pc' = <<b, 1>>
  BY DEF NextBlock
<1>4. /\ a \in Blocks(prog) /\ b \in Blocks(prog) /\ pc = <<a, Len(prog.ops[a]) + 1>>
      /\ IsPoint(prog, <<b, 1>>)
  <2>1. a \in Blocks(prog) /\ b \in Blocks(prog)
    BY <1>1, <1>3, RunAssumption DEF IsPoint
  <2>2. prog.ops[a] \in Seq(Operations) /\ prog.ops[b] \in Seq(Operations)
    BY <1>1, <2>1, RunAssumption
  <2>3. pc = <<a, pc[2]>> /\ pc[2] \in 1..(Len(prog.ops[a]) + 1) /\ pc[2] > Len(prog.ops[a])
    BY <1>1, <1>3 DEF IsPoint, AtEnd
  <2>4. Len(prog.ops[a]) \in Nat /\ Len(prog.ops[b]) \in Nat
    BY <2>2
  <2> QED BY <2>1, <2>3, <2>4 DEF IsPoint
<1>5. PICK A, G : A = StateAt(prog, pc) /\ G = GoodAtStart(prog)[b]
  OBVIOUS
<1>6. ~InRegion(A) /\ G \subseteq GoodBytes(A.T)
  BY <1>1, <1>3, <1>4, <1>5, SettledParts DEF InRegion
<1>7. StateAt(prog, <<b, 1>>) = TLEnter(G)
  BY <1>1, <1>4, <1>5, SettledParts
<1>8. PICK r, t : r = region /\ t = tainted
  OBVIOUS
<1>a. Explained(A, dirty, r, t) /\ ~InRegion(A) /\ G \subseteq GoodBytes(A.T)
  BY <1>2, <1>5, <1>6, <1>8, Zenon
<1>9. Explained(TLEnter(G), dirty, r, t)
  BY ONLY <1>a, EdgeExplained
<1>10. Explained(StateAt(prog', pc'), dirty', region', tainted')
  BY <1>2, <1>3, <1>7, <1>8, <1>9
<1>11. prog' \in Programs /\ IsPoint(prog', pc')
  BY <1>1, <1>2, <1>3, <1>4
<1> QED BY <1>1, <1>2, <1>10, <1>11 DEF TLInv

LEMMA ReturnInv == ASSUME TLInv, Return PROVE TLInv'
<1>1. phase = "run" /\ phase' = "returned"
  BY DEF Return
<1> QED BY <1>1 DEF TLInv, Return

LEMMA FindTentativeLoadsInv == ASSUME TLInv, FindTentativeLoads PROVE TLInv'
<1>1. phase = "findTentativeLoads" /\ phase' = "tryKillStores"
  BY DEF FindTentativeLoads
<1> QED BY <1>1 DEF TLInv, FindTentativeLoads

(* The run starts with nothing written.                                    *)
LEMMA TryKillStoresInv ==
    ASSUME TLInv, \A p \in Programs : TLSettled(p), TryKillStores
    PROVE  TLInv'
<1>1. /\ phase = "tryKillStores" /\ phase' = "run"
      /\ prog' = prog /\ checked' = checked /\ pc' = pc /\ dirty' = dirty
      /\ region' = region /\ tainted' = tainted
  BY DEF TryKillStores
<1>2. /\ prog \in Programs /\ pc = <<1, 1>> /\ dirty = {} /\ region = FALSE
      /\ tainted \in BOOLEAN
  BY <1>1 DEF TLInv
<1>3. 1 \in Blocks(prog)
  BY <1>2, RunAssumption
<1>4. PICK A, G : A = StateAt(prog, <<1, 1>>) /\ G = GoodAtStart(prog)[1] /\ A = TLEnter(G)
  BY <1>2, <1>3, SettledParts
<1>5. ~InRegion(A) /\ Clean(A, {})
  BY <1>4 DEF InRegion, Clean, TLEnter
<1>6. \A t : Explained(A, {}, FALSE, t)
  BY <1>5, Zenon DEF Explained
<1>7. Explained(StateAt(prog', pc'), dirty', region', tainted')
  BY <1>1, <1>2, <1>4, <1>6
<1> QED BY <1>1, <1>2, <1>7 DEF TLInv

LEMMA TLInvInit == ASSUME Init PROVE TLInv
<1>1. /\ prog \in Programs /\ phase = "findTentativeLoads" /\ pc = <<1, 1>>
      /\ dirty = {} /\ region = FALSE /\ tainted = FALSE
  BY DEF Init
<1>2. prog.ops[1] \in Seq(Operations) /\ 1 \in Blocks(prog)
  BY <1>1, RunAssumption
<1>3. IsPoint(prog, pc)
  <2>1. Len(prog.ops[1]) \in Nat
    BY <1>2
  <2> QED BY <1>1, <1>2, <2>1 DEF IsPoint
<1> QED BY <1>1, <1>3 DEF TLInv

LEMMA TLInvNext ==
    ASSUME TLInv, \A p \in Programs : TLSettled(p), [Next]_vars
    PROVE  TLInv'
<1>1. CASE FindTentativeLoads
  BY <1>1, FindTentativeLoadsInv
<1>2. CASE TryKillStores
  BY <1>2, TryKillStoresInv
<1>3. CASE Load
  BY <1>3, LoadInv
<1>4. CASE OrderedLoad
  BY <1>4, OrderedLoadInv
<1>5. CASE Store
  BY <1>5, StoreInv
<1>6. CASE Yield
  BY <1>6, YieldInv
<1>7. CASE Free \/ SystemCall
  BY <1>7, QuietInv
<1>8. CASE Enter
  BY <1>8, EnterInv
<1>9. CASE Leave
  BY <1>9, LeaveInv
<1>10. CASE PathCondition
  BY <1>10, PathConditionInv
<1>11. CASE NextBlock
  BY <1>11, NextBlockInv
<1>12. CASE Return
  BY <1>12, ReturnInv
<1>13. CASE UNCHANGED vars
  BY <1>13 DEF TLInv, vars
<1> QED
  BY <1>1, <1>2, <1>3, <1>4, <1>5, <1>6, <1>7, <1>8, <1>9, <1>10, <1>11, <1>12, <1>13 DEF Next

LEMMA TLInvSuffices ==
    ASSUME TLInv, \A p \in Programs : TLSettled(p)
    PROVE  UncheckedLoadsClean
<1>1. ASSUME AtOp({"load", "ordered", "copy"}), ~region, ~HasCheck
      PROVE  Read \cap dirty = {}
  <2>1. op.kind \in {"load", "ordered", "copy"} /\ dirty \subseteq Known
    BY <1>1, RunStep DEF TLInv
  <2>2. PICK A :
          /\ Explained(A, dirty, region, tainted)
          /\ op.kind \in Instructions /\ Must(A, op) =>
               IF op.kind = "copy" THEN region ELSE HasCheck
    BY <1>1, StepFacts
  <2>3. ~Must(A, op)
    BY <1>1, <2>1, <2>2 DEF Instructions
  <2>4. Clean(A, dirty)
    BY <1>1, <2>2, Zenon DEF Explained
  <2>5. readsMemoryDirectly(op) /\ op.kind # "loadAny"
    BY <2>1 DEF readsMemoryDirectly
  <2>6. ~ReadsDirty(op, dirty)
    BY <2>1, <2>3, <2>4, <2>5, UnmarkedGood
  <2> QED BY <2>6 DEF ReadsDirty, ReadOf, Read
<1>2. ASSUME AtOp({"leave"}), ~HasCheck
      PROVE  ~tainted
  <2>1. op.kind = "leave"
    BY <1>2, RunStep
  <2>2. PICK A, B :
          /\ PassStep(A, op, pc, B)
          /\ Explained(A, dirty, region, tainted)
          /\ op.kind = "leave" => LeavesWell(A, B) /\ (Suspect(A) => HasCheck)
    BY <1>2, StepFacts
  <2>3. ~Suspect(A) /\ LeavesWell(A, B) /\ TLTyped(A)
    BY <1>2, <2>1, <2>2 DEF PassStep
  <2>4. A.inRegion /\ A.inRegion \in BOOLEAN
    BY <2>3 DEF LeavesWell, TLTyped
  <2>5. InRegion(A)
    BY <2>4, Zenon DEF InRegion
  <2> QED BY <2>2, <2>3, <2>5, Zenon DEF Explained
<1> QED BY <1>1, <1>2 DEF UncheckedLoadsClean

(* If, for each function, the pass has found the checks that its fixed     *)
(* point asks for, a load that was replaced by a value and not checked     *)
(* would have read that value, whatever other threads do; so would a copy, *)
(* and code left unspecialised is followed by a check if it read what it   *)
(* should not have (TentativeLoads.cpp).                                   *)
THEOREM LoadsClean ==
    ASSUME \A p \in Programs : TLSettled(p)
    PROVE  Spec => []UncheckedLoadsClean
<1>1. Init => TLInv
  BY TLInvInit
<1>2. TLInv /\ [Next]_vars => TLInv'
  BY TLInvNext
<1>3. TLInv => UncheckedLoadsClean
  BY TLInvSuffices
<1> QED BY <1>1, <1>2, <1>3, PTL DEF Spec
=============================================================================
