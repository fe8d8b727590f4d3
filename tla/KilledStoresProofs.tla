------------------------- MODULE KilledStoresProofs -------------------------
(***************************************************************************)
(* Proofs about SpecialisedRun: whatever the function, if the dead-store   *)
(* pass has killed no store that a fixed point of its own store finds to   *)
(* be needed, then nothing is read whose last store was killed.  The       *)
(* invariant is that, on any path, for a byte whose last store was killed  *)
(* the pass knows a killed store that may have been the last.              *)
(***************************************************************************)
EXTENDS SpecialisedRunProofs

Within(A)      == A.inRegion = TRUE
Span(o, B)     == {o} \X B
NoneDead(W, K) == \A w \in W : w \notin K
Nothing(S)     == \A m \in S : FALSE

(* What has to be known of the pass's state A where the bytes in S are     *)
(* stale, if r we are in code that was left unspecialised and K are the    *)
(* stores that were killed.                                                *)
Traced(A, S, r, K) ==
    /\ Within(A) <=> r
    /\ r => Nothing(S)
    /\ \A m \in S : m \in Memory /\ \E w \in WritersOf(A.D, m) : w \in K

-----------------------------------------------------------------------------
(* Stores of the pass.                                                     *)

LEMMA WritersPut ==
    ASSUME NEW D, D = [aoc |-> D.aoc, map |-> D.map], NEW o, NEW e, NEW m
    PROVE  WritersOf(Put(D, o, e), m) = IF m[1] = o THEN e[m[2]] ELSE WritersOf(D, m)
<1> DEFINE P == Put(D, o, e)
<1>1. /\ DOMAIN P.map = {o} \cup DOMAIN D.map
      /\ \A x \in {o} \cup DOMAIN D.map : P.map[x] = IF x = o THEN e ELSE D.map[x]
  BY DEF Put
<1> HIDE DEF P
<1>2. CASE m[1] = o
  <2>1. m[1] \in DOMAIN P.map /\ P.map[m[1]] = e
    BY <1>1, <1>2
  <2> QED BY <1>2, <2>1 DEF WritersOf, Entry, P
<1>3. CASE m[1] # o /\ m[1] \in DOMAIN D.map
  <2>1. m[1] \in DOMAIN P.map /\ P.map[m[1]] = D.map[m[1]]
    BY <1>1, <1>3
  <2> QED BY <1>3, <2>1 DEF WritersOf, Entry, P
<1>4. CASE m[1] # o /\ m[1] \notin DOMAIN D.map
  <2>1. m[1] \notin DOMAIN P.map
    BY <1>1, <1>4
  <2> QED BY <1>4, <2>1 DEF WritersOf, Entry, P
<1> QED BY <1>2, <1>3, <1>4

(* Who may have written a byte last is among the writers.                  *)
LEMMA AmongWriters ==
    ASSUME NEW D, NEW m \in Memory, NEW w \in WritersOf(D, m)
    PROVE  w \in Writers(D)
<1>1. m[2] \in Bytes
  BY DEF Memory
<1>2. CASE m[1] \in DOMAIN D.map
  <2>1. w \in D.map[m[1]][m[2]]
    BY <1>2 DEF WritersOf, Entry
  <2> QED BY <1>1, <1>2, <2>1 DEF Writers
<1>3. CASE m[1] \notin DOMAIN D.map
  BY <1>1, <1>3 DEF WritersOf, Entry, NoWriters
<1> QED BY <1>2, <1>3

(* If none of the writers was killed nothing is stale.                     *)
LEMMA NothingStale ==
    ASSUME NEW A, NEW S, NEW r, NEW K, Traced(A, S, r, K), NoneDead(Writers(A.D), K)
    PROVE  Nothing(S)
BY AmongWriters DEF Traced, NoneDead, Nothing

LEMMA TracedNothing ==
    ASSUME NEW A, NEW S, NEW r, NEW K, Nothing(S), Within(A) <=> r
    PROVE  Traced(A, S, r, K)
BY Zenon DEF Traced, Nothing

LEMMA BarrierFacts ==
    ASSUME NEW A, DSETyped(A), NEW R, R = Barrier(A)
    PROVE  /\ R.needed = A.needed \cup Writers(A.D) /\ R.inRegion = A.inRegion
           /\ R.D = getEmptyMap(A.D) /\ DSETyped(R)
BY DEF Barrier, DSETyped, getEmptyMap

LEMMA WriteFacts ==
    ASSUME NEW A, DSETyped(A), NEW o, NEW B, NEW id, NEW R, R = DSEHandleWrite(A, o, B, id)
    PROVE  /\ R.needed = A.needed /\ R.inRegion = A.inRegion
           /\ \A m \in Memory : /\ m \in Span(o, B) => id \in WritersOf(R.D, m)
                                /\ m \notin Span(o, B) => WritersOf(R.D, m) = WritersOf(A.D, m)
<1>1. PICK e : e = setWriter(Entry(A.D, o, NoWriters), B, id)
  OBVIOUS
<1>2. R.D = Put(A.D, o, e) /\ R.needed = A.needed /\ R.inRegion = A.inRegion
  BY <1>1 DEF DSEHandleWrite, DSETyped
<1>3. ASSUME NEW m \in Memory
      PROVE  /\ m \in Span(o, B) => id \in WritersOf(R.D, m)
             /\ m \notin Span(o, B) => WritersOf(R.D, m) = WritersOf(A.D, m)
  <2>1. m[2] \in Bytes /\ m = <<m[1], m[2]>>
    BY DEF Memory
  <2>2. WritersOf(R.D, m) = IF m[1] = o THEN e[m[2]] ELSE WritersOf(A.D, m)
    BY <1>2, WritersPut DEF DSETyped
  <2>3. e[m[2]] = IF m[2] \in B THEN {id} ELSE Entry(A.D, o, NoWriters)[m[2]]
    BY <1>1, <2>1 DEF setWriter
  <2>4. m \in Span(o, B) <=> m[1] = o /\ m[2] \in B
    BY <2>1 DEF Span
  <2> QED BY <2>2, <2>3, <2>4 DEF WritersOf
<1> QED BY <1>2, <1>3

LEMMA ReadFacts ==
    ASSUME NEW A, DSETyped(A), NEW o, NEW B, NEW R, R = DSEHandleRead(A, o, B)
    PROVE  /\ \A m \in Memory : m \in {o} \X B => \A w \in WritersOf(A.D, m) : w \in R.needed
           /\ \A n \in A.needed : n \in R.needed
           /\ R.inRegion = A.inRegion /\ DSETyped(R)
           /\ \A m \in Memory : m \notin {o} \X B => WritersOf(R.D, m) = WritersOf(A.D, m)
<1>1. PICK e, f, N : /\ e = Entry(A.D, o, NoWriters)
                     /\ f = [b \in Bytes |-> IF b \in B THEN {} ELSE e[b]]
                     /\ N = UNION {e[b] : b \in B}
  OBVIOUS
<1>2. R = [A EXCEPT !.needed = @ \cup N, !.D = Put(@, o, f)]
  BY <1>1 DEF DSEHandleRead
<1>3. R.D = Put(A.D, o, f) /\ R.needed = A.needed \cup N /\ R.inRegion = A.inRegion
  BY <1>2 DEF DSETyped
<1>4. DSETyped(R)
  <2>1. PICK P : P = Put(A.D, o, f)
    OBVIOUS
  <2>2. P = [aoc |-> P.aoc, map |-> P.map]
    BY <2>1 DEF Put, DSETyped
  <2>3. R = [A EXCEPT !.needed = A.needed \cup N, !.D = P]
    BY <1>2, <2>1
  <2> QED BY <2>2, <2>3 DEF DSETyped
<1>5. ASSUME NEW m \in Memory, m \in {o} \X B, NEW w \in WritersOf(A.D, m)
      PROVE  w \in R.needed
  <2>1. m[1] = o /\ m[2] \in B
    BY <1>5
  <2>2. w \in e[m[2]]
    BY <1>1, <2>1 DEF WritersOf
  <2> QED BY <1>1, <1>3, <2>1, <2>2
<1>6. ASSUME NEW m \in Memory, m \notin {o} \X B
      PROVE  WritersOf(R.D, m) = WritersOf(A.D, m)
  <2>1. m[2] \in Bytes /\ m = <<m[1], m[2]>>
    BY DEF Memory
  <2>2. WritersOf(R.D, m) = IF m[1] = o THEN f[m[2]] ELSE WritersOf(A.D, m)
    BY <1>3, WritersPut DEF DSETyped
  <2>3. f[m[2]] = IF m[2] \in B THEN {} ELSE e[m[2]]
    BY <1>1, <2>1
  <2>4. m[1] = o => m[2] \notin B
    BY <2>1, <1>6
  <2> QED BY <1>1, <2>2, <2>3, <2>4 DEF WritersOf
<1> QED BY <1>3, <1>4, <1>5, <1>6

LEMMA ArgumentsFacts ==
    ASSUME NEW A, DSETyped(A), NEW objs, NEW R, R = handleArguments(A, objs)
    PROVE  /\ \A m \in Memory : m[1] \in objs => \A w \in WritersOf(A.D, m) : w \in R.needed
           /\ R.inRegion = A.inRegion
           /\ \A m \in Memory : m[1] \notin objs => WritersOf(R.D, m) = WritersOf(A.D, m)
<1>1. PICK M, N :
        /\ M = [o \in objs \cup DOMAIN A.D.map |-> IF o \in objs THEN NoWriters ELSE A.D.map[o]]
        /\ N = UNION {UNION {Entry(A.D, o, NoWriters)[b] : b \in Bytes} : o \in objs}
  OBVIOUS
<1>2. R = [A EXCEPT !.needed = @ \cup N, !.D.map = M]
  BY <1>1 DEF handleArguments
<1>3. R.D.map = M /\ R.needed = A.needed \cup N /\ R.inRegion = A.inRegion
  BY <1>2 DEF DSETyped
<1>4. ASSUME NEW m \in Memory, m[1] \in objs, NEW w \in WritersOf(A.D, m)
      PROVE  w \in R.needed
  <2>1. m[2] \in Bytes
    BY DEF Memory
  <2>2. w \in Entry(A.D, m[1], NoWriters)[m[2]]
    BY DEF WritersOf
  <2>3. w \in UNION {Entry(A.D, m[1], NoWriters)[b] : b \in Bytes}
    BY <2>1, <2>2
  <2>4. w \in N
    BY <1>1, <1>4, <2>3
  <2> QED BY <1>3, <2>4
<1>5. ASSUME NEW m \in Memory, m[1] \notin objs
      PROVE  WritersOf(R.D, m) = WritersOf(A.D, m)
  <2>1. CASE m[1] \in DOMAIN A.D.map
    <3>1. m[1] \in DOMAIN M /\ M[m[1]] = A.D.map[m[1]]
      BY <1>1, <1>5, <2>1
    <3> QED BY <1>3, <2>1, <3>1 DEF WritersOf, Entry
  <2>2. CASE m[1] \notin DOMAIN A.D.map
    <3>1. m[1] \notin DOMAIN M
      BY <1>1, <1>5, <2>2
    <3> QED BY <1>3, <2>2, <3>1 DEF WritersOf, Entry
  <2> QED BY <2>1, <2>2
<1> QED BY <1>3, <1>4, <1>5

-----------------------------------------------------------------------------
(* The pass at one operation: none of the stores needed by then is one of  *)
(* those killed, K.                                                        *)
DSEPassStep(A, o, id, must, K, R) ==
    \E v : /\ DSETyped(A) /\ v.second = FALSE /\ R = DSEOperation(A, o, id, v, must)
           /\ NoneDead(R.needed, K)

(* What is left of S when the bytes W are written, those of a store that   *)
(* was killed.                                                             *)
Rewritten(S, W, id, r, K, E) ==
    \A m \in E : m \in Memory /\ IF m \in W THEN ~r /\ id \in K ELSE m \in S

(* Where there is a check everything is read.                              *)
LEMMA CheckedFirst ==
    ASSUME NEW A, DSETyped(A), NEW o, NEW id, NEW must, NEW K,
           NEW C, C = IF requiresRuntimeCheck(o, id, must) \/ o.kind = "fence" THEN Barrier(A) ELSE A,
           NoneDead(C.needed, K), NEW S, NEW r, Traced(A, S, r, K)
    PROVE  /\ requiresRuntimeCheck(o, id, must) \/ o.kind = "fence" => Nothing(S)
           /\ DSETyped(C) /\ C.inRegion = A.inRegion /\ Traced(C, S, r, K)
<1>1. CASE requiresRuntimeCheck(o, id, must) \/ o.kind = "fence"
  <2>1. C = Barrier(A)
    BY <1>1
  <2>2. C.needed = A.needed \cup Writers(A.D) /\ C.inRegion = A.inRegion /\ DSETyped(C)
    BY <2>1, BarrierFacts
  <2>3. NoneDead(Writers(A.D), K)
    BY <2>2 DEF NoneDead
  <2>4. Nothing(S)
    BY <2>3, NothingStale
  <2>5. Within(C) <=> r
    BY <2>2 DEF Traced, Within
  <2> QED BY <2>2, <2>4, <2>5, TracedNothing
<1>2. CASE ~(requiresRuntimeCheck(o, id, must) \/ o.kind = "fence")
  <2>1. C = A
    BY <1>2
  <2> QED BY <1>2, <2>1 DEF DSETyped
<1> QED BY <1>1, <1>2

AtCheck(A, o, id, must) ==
    IF requiresRuntimeCheck(o, id, must) \/ o.kind = "fence" THEN Barrier(A) ELSE A

LEMMA ByKind ==
    ASSUME NEW A, NEW o, NEW id, NEW must, NEW K, NEW R, DSEPassStep(A, o, id, must, K, R),
           NEW C, C = AtCheck(A, o, id, must)
    PROVE  /\ o.kind \in {"load", "ordered"} =>
                \/ R = DSEHandleRead(C, o.obj, o.bytes)
                \/ R = C /\ o.obj \notin Opaque
           /\ o.kind = "copy" =>
                \E U : /\ \/ U = DSEHandleRead(C, o.obj, o.bytes)
                          \/ U = C /\ o.obj \notin Opaque
                       /\ R = DSEHandleWrite(U, o.to, o.bytes, id)
           /\ o.kind = "store" => R = DSEHandleWrite(C, o.obj, o.bytes, id)
           /\ o.kind = "free" => R = [A EXCEPT !.D = Put(@, o.obj, NoWriters)]
           /\ o.kind = "syscall" => R = handleArguments(A, argumentsRead(o))
           /\ o.kind \in {"loadAny", "lock"} => R = Barrier(C)
           /\ o.kind = "fence" => R = C
           /\ o.kind = "pathCondition" => R = Barrier(A)
<1>p. PICK v : v.second = FALSE /\ R = DSEOperation(A, o, id, v, must)
  BY DEF DSEPassStep
<1> USE <1>p
<1>1. CASE o.kind \in {"load", "ordered"}
  <2>1. R = DSEAnalyseInstruction(A, o, id, v, must)
    BY <1>1 DEF DSEOperation
  <2>2. R = DSEHandleRead(C, o.obj, o.bytes) \/ (R = C /\ o.obj \notin Opaque)
    BY <1>1, <2>1 DEF DSEAnalyseInstruction, AtCheck, ReadForReal
  <2> QED BY <1>1, <2>2
<1>2. CASE o.kind = "store"
  BY <1>2 DEF DSEOperation, DSEAnalyseInstruction, AtCheck
<1>3. CASE o.kind = "copy"
  <2>1. R = DSEAnalyseInstruction(A, o, id, v, must)
    BY <1>3 DEF DSEOperation
  <2>2. \E U : /\ U = DSEHandleRead(C, o.obj, o.bytes) \/ (U = C /\ o.obj \notin Opaque)
               /\ R = DSEHandleWrite(U, o.to, o.bytes, id)
    BY <1>3, <2>1 DEF DSEAnalyseInstruction, AtCheck, ReadForReal
  <2> QED BY <1>3, <2>2
<1>4. CASE o.kind \in {"free", "syscall", "loadAny", "lock", "fence"}
  BY <1>4 DEF DSEOperation, DSEAnalyseInstruction, AtCheck
<1>5. CASE o.kind = "pathCondition"
  BY <1>5 DEF DSEOperation
<1>6. CASE o.kind \notin {"load", "ordered", "store", "copy", "free", "syscall", "loadAny", "lock",
                          "fence", "pathCondition"}
  BY <1>6
<1> QED BY <1>1, <1>2, <1>3, <1>4, <1>5, <1>6

-----------------------------------------------------------------------------
(* What is stale before and after an operation, if the pass knew before.   *)

LEMMA ReadTraced ==
    ASSUME NEW C, DSETyped(C), NEW S, NEW r, NEW K, Traced(C, S, r, K), NEW o, NEW B,
           NEW U, U = DSEHandleRead(C, o, B), NoneDead(U.needed, K)
    PROVE  /\ DSETyped(U) /\ Traced(U, S, r, K) /\ NoneDead(C.needed, K)
           /\ \A m \in S : m \notin {o} \X B
<1>1. /\ \A m \in Memory : m \in {o} \X B => \A w \in WritersOf(C.D, m) : w \in U.needed
      /\ \A n \in C.needed : n \in U.needed
      /\ U.inRegion = C.inRegion /\ DSETyped(U)
      /\ \A m \in Memory : m \notin {o} \X B => WritersOf(U.D, m) = WritersOf(C.D, m)
  BY ReadFacts
<1>2. ASSUME NEW m \in S
      PROVE  m \in Memory /\ m \notin {o} \X B /\ \E w \in WritersOf(U.D, m) : w \in K
  <2>1. m \in Memory /\ \E w \in WritersOf(C.D, m) : w \in K
    BY DEF Traced
  <2>2. m \notin {o} \X B
    BY <1>1, <2>1 DEF NoneDead
  <2> QED BY <1>1, <2>1, <2>2
<1>3. (Within(U) <=> r) /\ (r => Nothing(S))
  BY <1>1, Zenon DEF Traced, Within
<1>4. Traced(U, S, r, K)
  BY <1>2, <1>3, Zenon DEF Traced
<1>5. NoneDead(C.needed, K)
  BY <1>1 DEF NoneDead
<1> QED BY <1>1, <1>2, <1>4, <1>5

LEMMA WriteTraced ==
    ASSUME NEW U, DSETyped(U), NEW S, NEW r, NEW K, Traced(U, S, r, K), NEW o, NEW B, NEW id,
           NEW R, R = DSEHandleWrite(U, o, B, id), NEW E, Rewritten(S, Span(o, B), id, r, K, E)
    PROVE  Traced(R, E, r, K)
<1>0. PICK W : W = Span(o, B)
  OBVIOUS
<1>1. /\ R.inRegion = U.inRegion
      /\ \A m \in Memory : /\ m \in W => id \in WritersOf(R.D, m)
                           /\ m \notin W => WritersOf(R.D, m) = WritersOf(U.D, m)
  BY <1>0, WriteFacts
<1>2. \A m \in E : m \in Memory /\ IF m \in W THEN ~r /\ id \in K ELSE m \in S
  BY <1>0, Zenon DEF Rewritten
<1>3. ASSUME NEW m \in E
      PROVE  m \in Memory /\ \E w \in WritersOf(R.D, m) : w \in K
  <2>1. CASE m \in W
    <3>1. m \in Memory /\ id \in K
      BY <1>2, <2>1, Zenon
    <3> QED BY <1>1, <2>1, <3>1
  <2>2. CASE m \notin W
    <3>1. m \in Memory /\ m \in S
      BY <1>2, <2>2, Zenon
    <3> QED BY <1>1, <2>2, <3>1 DEF Traced
  <2> QED BY <2>1, <2>2
<1>4. (Within(R) <=> r) /\ (r => Nothing(S))
  BY <1>1, Zenon DEF Traced, Within
<1>5. r => Nothing(E)
  BY <1>2, <1>4, Zenon DEF Nothing
<1> QED BY <1>3, <1>4, <1>5, Zenon DEF Traced

LEMMA BarrierTraced ==
    ASSUME NEW C, DSETyped(C), NEW S, NEW r, NEW K, Traced(C, S, r, K),
           NEW R, R = Barrier(C), NoneDead(R.needed, K)
    PROVE  Nothing(S) /\ Traced(R, S, r, K) /\ NoneDead(C.needed, K)
<1>1. R.needed = C.needed \cup Writers(C.D) /\ R.inRegion = C.inRegion
  BY BarrierFacts
<1>2. NoneDead(Writers(C.D), K) /\ NoneDead(C.needed, K)
  BY <1>1 DEF NoneDead
<1>3. Nothing(S)
  BY <1>2, NothingStale
<1>4. Within(R) <=> r
  BY <1>1, Zenon DEF Traced, Within
<1> QED BY <1>2, <1>3, <1>4, TracedNothing

(* The pass where an operation's check has been dealt with.                *)
LEMMA AtCheckTraced ==
    ASSUME NEW A, DSETyped(A), NEW o, NEW id, NEW must, NEW K,
           NEW C, C = AtCheck(A, o, id, must), NoneDead(C.needed, K),
           NEW S, NEW r, Traced(A, S, r, K)
    PROVE  /\ requiresRuntimeCheck(o, id, must) => Nothing(S)
           /\ o.kind = "fence" => Nothing(S)
           /\ DSETyped(C) /\ Traced(C, S, r, K)
BY CheckedFirst DEF AtCheck

LEMMA AtCheckTyped ==
    ASSUME NEW A, DSETyped(A), NEW o, NEW id, NEW must
    PROVE  DSETyped(AtCheck(A, o, id, must))
BY BarrierFacts DEF AtCheck

(* Nothing stale is read where there is a check or nothing is known of     *)
(* what is read.                                                           *)
ReadsFresh(o, id, must, S, r) ==
    /\ requiresRuntimeCheck(o, id, must) => Nothing(S)
    /\ o.obj \in Opaque => \A m \in S : m \notin ReadOf(o)
    /\ r => Nothing(S)

LEMMA ReadOrNot ==
    ASSUME NEW A, DSETyped(A), NEW o, NEW id, NEW must, NEW K, NEW C, C = AtCheck(A, o, id, must),
           NEW U, U = DSEHandleRead(C, o.obj, o.bytes) \/ (U = C /\ o.obj \notin Opaque),
           NoneDead(U.needed, K), NEW S, NEW r, Traced(A, S, r, K)
    PROVE  DSETyped(U) /\ Traced(U, S, r, K) /\ ReadsFresh(o, id, must, S, r)
<1>1. DSETyped(C)
  BY AtCheckTyped
<1>2. NoneDead(C.needed, K)
  BY <1>1, ReadFacts DEF NoneDead
<1>3. DSETyped(C) /\ Traced(C, S, r, K) /\ (requiresRuntimeCheck(o, id, must) => Nothing(S))
  BY <1>2, AtCheckTraced
<1>4. r => Nothing(S)
  BY Zenon DEF Traced
<1>5. CASE U = C /\ o.obj \notin Opaque
  BY <1>3, <1>4, <1>5 DEF ReadsFresh
<1>6. CASE U = DSEHandleRead(C, o.obj, o.bytes)
  <2>1. DSETyped(U) /\ Traced(U, S, r, K) /\ \A m \in S : m \notin {o.obj} \X o.bytes
    BY <1>3, <1>6, ReadTraced
  <2> QED BY <1>3, <1>4, <2>1 DEF ReadsFresh, ReadOf
<1> QED BY <1>5, <1>6

LEMMA LoadTraced ==
    ASSUME NEW A, NEW o, NEW id, NEW must, NEW K, NEW R, DSEPassStep(A, o, id, must, K, R),
           NEW S, NEW r, Traced(A, S, r, K), o.kind \in {"load", "ordered"}
    PROVE  Traced(R, S, r, K) /\ ReadsFresh(o, id, must, S, r)
<1>1. PICK C : C = AtCheck(A, o, id, must)
  OBVIOUS
<1>2. DSETyped(A) /\ NoneDead(R.needed, K)
  BY DEF DSEPassStep
<1>3. R = DSEHandleRead(C, o.obj, o.bytes) \/ (R = C /\ o.obj \notin Opaque)
  BY <1>1, ByKind
<1> QED BY <1>1, <1>2, <1>3, ReadOrNot

LEMMA CopyTraced ==
    ASSUME NEW A, NEW o, NEW id, NEW must, NEW K, NEW R, DSEPassStep(A, o, id, must, K, R),
           NEW S, NEW r, Traced(A, S, r, K), o.kind = "copy",
           NEW E, Rewritten(S, Span(o.to, o.bytes), id, r, K, E)
    PROVE  Traced(R, E, r, K) /\ ReadsFresh(o, id, must, S, r)
<1>1. PICK C : C = AtCheck(A, o, id, must)
  OBVIOUS
<1>2. DSETyped(A) /\ NoneDead(R.needed, K)
  BY DEF DSEPassStep
<1>3. PICK U : /\ U = DSEHandleRead(C, o.obj, o.bytes) \/ (U = C /\ o.obj \notin Opaque)
               /\ R = DSEHandleWrite(U, o.to, o.bytes, id)
  BY <1>1, ByKind
<1>4. DSETyped(U)
  <2>1. DSETyped(C)
    BY <1>1, <1>2, AtCheckTyped
  <2> QED BY <1>3, <2>1, ReadFacts
<1>5. NoneDead(U.needed, K)
  BY <1>2, <1>3, <1>4, WriteFacts
<1>6. Traced(U, S, r, K) /\ ReadsFresh(o, id, must, S, r)
  BY <1>1, <1>2, <1>3, <1>5, ReadOrNot
<1> QED BY <1>3, <1>4, <1>6, WriteTraced

LEMMA StoreTraced ==
    ASSUME NEW A, NEW o, NEW id, NEW must, NEW K, NEW R, DSEPassStep(A, o, id, must, K, R),
           NEW S, NEW r, Traced(A, S, r, K), o.kind = "store",
           NEW E, Rewritten(S, Span(o.obj, o.bytes), id, r, K, E)
    PROVE  Traced(R, E, r, K)
<1>1. PICK C : C = AtCheck(A, o, id, must)
  OBVIOUS
<1>2. /\ DSETyped(A) /\ NoneDead(R.needed, K)
      /\ R = DSEHandleWrite(C, o.obj, o.bytes, id)
  <2>1. R = DSEHandleWrite(C, o.obj, o.bytes, id)
    BY <1>1, ByKind
  <2> QED BY <2>1 DEF DSEPassStep
<1>3. DSETyped(C)
  BY <1>1, <1>2, AtCheckTyped
<1>4. NoneDead(C.needed, K)
  BY <1>2, <1>3, WriteFacts
<1>5. Traced(C, S, r, K)
  BY <1>1, <1>2, <1>4, AtCheckTraced
<1> QED BY <1>2, <1>3, <1>5, WriteTraced

LEMMA FreeTraced ==
    ASSUME NEW A, NEW o, NEW id, NEW must, NEW K, NEW R, DSEPassStep(A, o, id, must, K, R),
           NEW S, NEW r, Traced(A, S, r, K), o.kind = "free",
           NEW E, \A m \in E : m \in S /\ m[1] # o.obj
    PROVE  Traced(R, E, r, K)
<1>1. DSETyped(A) /\ R = [A EXCEPT !.D = Put(@, o.obj, NoWriters)]
  <2>1. R = [A EXCEPT !.D = Put(@, o.obj, NoWriters)]
    BY ByKind
  <2> QED BY <2>1 DEF DSEPassStep
<1>2. R.D = Put(A.D, o.obj, NoWriters) /\ R.inRegion = A.inRegion
  BY <1>1 DEF DSETyped
<1>3. ASSUME NEW m \in E
      PROVE  m \in Memory /\ \E w \in WritersOf(R.D, m) : w \in K
  <2>1. m \in Memory /\ m[1] # o.obj /\ \E w \in WritersOf(A.D, m) : w \in K
    BY DEF Traced
  <2>2. WritersOf(R.D, m) = WritersOf(A.D, m)
    BY <1>1, <1>2, <2>1, WritersPut DEF DSETyped
  <2> QED BY <2>1, <2>2
<1>4. (Within(R) <=> r) /\ (r => Nothing(S))
  BY <1>2, Zenon DEF Traced, Within
<1>5. Nothing(S) => Nothing(E)
  BY DEF Nothing
<1> QED BY <1>3, <1>4, <1>5, Zenon DEF Traced

LEMMA SystemCallTraced ==
    ASSUME NEW A, NEW o, NEW id, NEW must, NEW K, NEW R, DSEPassStep(A, o, id, must, K, R),
           NEW S, NEW r, Traced(A, S, r, K), o.kind = "syscall"
    PROVE  Traced(R, S, r, K) /\ \A m \in S : m[1] \notin argumentsRead(o)
<1>1. PICK objs : objs = argumentsRead(o)
  OBVIOUS
<1>2. DSETyped(A) /\ NoneDead(R.needed, K) /\ R = handleArguments(A, objs)
  <2>1. R = handleArguments(A, objs)
    BY <1>1, ByKind
  <2> QED BY <2>1 DEF DSEPassStep
<1>3. /\ \A m \in Memory : m[1] \in objs => \A w \in WritersOf(A.D, m) : w \in R.needed
      /\ R.inRegion = A.inRegion
      /\ \A m \in Memory : m[1] \notin objs => WritersOf(R.D, m) = WritersOf(A.D, m)
  BY <1>2, ArgumentsFacts
<1>4. ASSUME NEW m \in S
      PROVE  m \in Memory /\ m[1] \notin objs /\ \E w \in WritersOf(R.D, m) : w \in K
  <2>1. m \in Memory /\ \E w \in WritersOf(A.D, m) : w \in K
    BY DEF Traced
  <2>2. m[1] \notin objs
    BY <1>2, <1>3, <2>1 DEF NoneDead
  <2> QED BY <1>3, <2>1, <2>2
<1>5. (Within(R) <=> r) /\ (r => Nothing(S))
  BY <1>3, Zenon DEF Traced, Within
<1>6. Traced(R, S, r, K)
  BY <1>4, <1>5, Zenon DEF Traced
<1> QED BY <1>1, <1>4, <1>6

LEMMA AnythingTraced ==
    ASSUME NEW A, NEW o, NEW id, NEW must, NEW K, NEW R, DSEPassStep(A, o, id, must, K, R),
           NEW S, NEW r, Traced(A, S, r, K), o.kind \in {"loadAny", "lock", "fence", "pathCondition"}
    PROVE  Traced(R, S, r, K) /\ Nothing(S)
<1>1. PICK C : C = AtCheck(A, o, id, must)
  OBVIOUS
<1>2. DSETyped(A) /\ NoneDead(R.needed, K) /\ DSETyped(C)
  BY <1>1, AtCheckTyped DEF DSEPassStep
<1>3. CASE o.kind \in {"loadAny", "lock"}
  <2>1. R = Barrier(C)
    BY <1>1, <1>3, ByKind
  <2>2. NoneDead(C.needed, K)
    BY <1>2, <2>1, BarrierFacts DEF NoneDead
  <2>3. Traced(C, S, r, K)
    BY <1>1, <1>2, <2>2, AtCheckTraced
  <2> QED BY <1>2, <2>1, <2>3, BarrierTraced
<1>4. CASE o.kind = "fence"
  <2>1. R = C
    BY <1>1, <1>4, ByKind
  <2> QED BY <1>1, <1>2, <1>4, <2>1, AtCheckTraced
<1>5. CASE o.kind = "pathCondition"
  <2>1. R = Barrier(A)
    BY <1>5, ByKind
  <2> QED BY <1>2, <2>1, BarrierTraced
<1> QED BY <1>3, <1>4, <1>5

(* Unspecialised code reads anything: nothing may be stale when it begins, *)
(* and nothing becomes stale in it.                                        *)
EntersWell(R, K) == R.inRegion => NoneDead(Writers(R.backup), K)

LEMMA EnterTraced ==
    ASSUME NEW A, NEW o, NEW id, NEW must, NEW K, NEW R, DSEPassStep(A, o, id, must, K, R),
           NEW S, NEW r, Traced(A, S, r, K), o.kind = "enter", EntersWell(R, K)
    PROVE  Traced(R, S, TRUE, K) /\ Nothing(S)
<1>1. DSETyped(A) /\ R = [A EXCEPT !.backup = A.D, !.inRegion = TRUE]
  BY DEF DSEPassStep, DSEOperation
<1>2. R.backup = A.D /\ R.inRegion = TRUE
  BY <1>1 DEF DSETyped
<1>3. NoneDead(Writers(A.D), K)
  BY <1>2 DEF EntersWell
<1>4. Nothing(S)
  BY <1>3, NothingStale
<1>5. Within(R)
  BY <1>2 DEF Within
<1> QED BY <1>4, <1>5, TracedNothing

LEMMA LeaveTraced ==
    ASSUME NEW A, NEW o, NEW id, NEW must, NEW K, NEW R, DSEPassStep(A, o, id, must, K, R),
           NEW S, NEW r, Traced(A, S, r, K), o.kind = "leave", A.inRegion = TRUE
    PROVE  Traced(R, S, FALSE, K) /\ Nothing(S)
<1>1. PICK v : DSETyped(A) /\ R = leaveDisabled(A, v)
  BY DEF DSEPassStep, DSEOperation
<1>2. R.inRegion = FALSE
  <2>1. CASE v.inLoop
    BY <1>1, <2>1 DEF leaveDisabled, DSETyped
  <2>2. CASE ~v.inLoop
    BY <1>1, <2>2 DEF leaveDisabled, DSETyped
  <2> QED BY <2>1, <2>2
<1>3. Nothing(S)
  BY Zenon DEF Traced, Within
<1>4. ~Within(R)
  BY <1>2 DEF Within
<1> QED BY <1>3, <1>4, TracedNothing

LEMMA EdgeTraced ==
    ASSUME NEW A, NEW S, NEW r, NEW K, Traced(A, S, r, K), ~Within(A),
           NEW W, \A m \in Memory : WritersOf(A.D, m) \subseteq W[m]
    PROVE  Traced(DSEEnter(W), S, r, K)
<1>1. PICK R : R = DSEEnter(W)
  OBVIOUS
<1>2. ASSUME NEW m \in S
      PROVE  m \in Memory /\ \E w \in WritersOf(R.D, m) : w \in K
  <2>1. m \in Memory /\ \E w \in WritersOf(A.D, m) : w \in K
    BY DEF Traced
  <2>2. m = <<m[1], m[2]>> /\ m[1] \in Objects /\ m[2] \in Bytes
    BY <2>1 DEF Memory
  <2>3. WritersOf(R.D, m) = W[m]
    BY <1>1, <2>2 DEF WritersOf, Entry, DSEEnter
  <2> QED BY <2>1, <2>3
<1>3. ~Within(R)
  BY <1>1 DEF Within, DSEEnter
<1>4. (Within(R) <=> r) /\ (r => Nothing(S))
  BY <1>3, Zenon DEF Traced
<1> QED BY <1>1, <1>2, <1>4, Zenon DEF Traced

-----------------------------------------------------------------------------
(* The fixed point: the pass's state at a point of the function, and the   *)
(* stores it has killed.                                                   *)

Dead(p) == tryKillStores(p, findTentativeLoads(p))
LastWriters(p) == WritersAtStart(p, findTentativeLoads(p))
DSEAt(p, point) ==
    DSEStates(p, point[1], LastWriters(p)[point[1]], findTentativeLoads(p))[point[2]]

ArgumentsRead(o) ==
    \A i \in DOMAIN o.args : o.args[i] \in Objects => o.args[i] \in argumentsRead(o)

DSEStepSettled(p, id, A, B) ==
    /\ B = DSEStep(p, A, id, findTentativeLoads(p)) /\ DSETyped(A)
    /\ NoneDead(B.needed, Dead(p)) /\ EntersWell(B, Dead(p))
    /\ Op(p, id).kind = "leave" => A.inRegion = TRUE
    /\ Op(p, id).kind = "syscall" => ArgumentsRead(Op(p, id))

LEMMA DSESettledParts ==
    ASSUME NEW p, DSESettled(p)
    PROVE  /\ \A b \in Blocks(p) : DSEAt(p, <<b, 1>>) = DSEEnter(LastWriters(p)[b])
           /\ \A b \in Blocks(p) : \A j \in DOMAIN p.ops[b] :
                 DSEStepSettled(p, <<b, j>>, DSEAt(p, <<b, j>>), DSEAt(p, <<b, j + 1>>))
           /\ \A b \in Blocks(p) :
                 LET A == DSEAt(p, <<b, Len(p.ops[b]) + 1>>)
                 IN  /\ A.inRegion = FALSE
                     /\ p.succ[b] = {} => NoneDead(Writers(A.D), Dead(p))
                     /\ \A c \in p.succ[b] : \A m \in Memory :
                           WritersOf(A.D, m) \subseteq LastWriters(p)[c][m]
<1> DEFINE must  == findTentativeLoads(p)
           start == LastWriters(p)
           at    == [b \in Blocks(p) |-> DSEStates(p, b, start[b], must)]
<1>1. \A b \in Blocks(p) : \A j : DSEAt(p, <<b, j>>) = at[b][j]
  BY DEF DSEAt
<1>2. \A b \in Blocks(p) : at[b][1] = DSEEnter(start[b])
  BY DEF DSESettled, LastWriters
<1>3. \A id \in Ids(p) :
         /\ at[id[1]][id[2] + 1] = DSEStep(p, at[id[1]][id[2]], id, must)
         /\ DSEStepSettled(p, id, at[id[1]][id[2]], DSEStep(p, at[id[1]][id[2]], id, must))
  BY DEF DSESettled, DSEStepSettled, LastWriters, Dead, NoneDead, EntersWell, ArgumentsRead
<1>4. \A b \in Blocks(p) :
         LET A == at[b][Len(p.ops[b]) + 1]
         IN  /\ A.inRegion = FALSE
             /\ p.succ[b] = {} => NoneDead(Writers(A.D), Dead(p))
             /\ \A c \in p.succ[b] : \A m \in Memory : WritersOf(A.D, m) \subseteq start[c][m]
  BY DEF DSESettled, LastWriters, Dead, NoneDead
<1> HIDE DEF at
<1>5. ASSUME NEW b \in Blocks(p), NEW j \in DOMAIN p.ops[b]
      PROVE  DSEStepSettled(p, <<b, j>>, DSEAt(p, <<b, j>>), DSEAt(p, <<b, j + 1>>))
  <2>1. PICK id : id = <<b, j>>
    OBVIOUS
  <2>2. id \in Ids(p) /\ id[1] = b /\ id[2] = j
    BY <2>1 DEF Ids
  <2>3. DSEStepSettled(p, id, at[b][j], at[b][j + 1])
    BY <2>2, <1>3
  <2> QED BY <2>1, <2>3, <1>1
<1> QED BY <1>1, <1>2, <1>4, <1>5

-----------------------------------------------------------------------------
(* The invariant.                                                          *)
KilledInv ==
    /\ prog \in Programs /\ IsPoint(prog, pc)
    /\ phase \in {"findTentativeLoads", "tryKillStores"} =>
         pc = <<1, 1>> /\ stale = {} /\ region = FALSE
    /\ phase # "findTentativeLoads" => checked = findTentativeLoads(prog)
    /\ phase = "run" => killed = Dead(prog) /\ Traced(DSEAt(prog, pc), stale, region, killed)
    /\ phase = "returned" => stale = {}

(* An operation of the run, and the pass at it.                            *)
LEMMA KilledStep ==
    ASSUME KilledInv, \A p \in Programs : DSESettled(p), NEW K, AtOp(K)
    PROVE  \E A, B :
              /\ A = DSEAt(prog, pc) /\ B = DSEAt(prog, Next1)
              /\ DSEPassStep(A, op, pc, checked, killed, B)
              /\ Traced(A, stale, region, killed)
              /\ op.kind = "enter" => EntersWell(B, killed)
              /\ op.kind = "leave" => A.inRegion = TRUE
              /\ op.kind = "syscall" => ArgumentsRead(op)
              /\ op.kind \in K /\ phase = "run" /\ IsPoint(prog, Next1)
<1>1. /\ prog \in Programs /\ IsPoint(prog, pc) /\ phase = "run" /\ op.kind \in K
      /\ checked = findTentativeLoads(prog) /\ killed = Dead(prog)
      /\ Traced(DSEAt(prog, pc), stale, region, killed)
  BY DEF KilledInv, AtOp, op
<1>2. /\ pc = <<pc[1], pc[2]>> /\ pc[1] \in Blocks(prog) /\ pc[2] \in Nat
      /\ pc[2] \in DOMAIN prog.ops[pc[1]] /\ IsPoint(prog, Next1)
  <2>1. prog.ops[pc[1]] \in Seq(Operations)
    BY <1>1, RunAssumption DEF IsPoint
  <2>2. ~(pc[2] > Len(prog.ops[pc[1]]))
    BY DEF AtOp, AtEnd
  <2> QED BY <2>1, <2>2, <1>1 DEF IsPoint, Next1
<1>3. PICK A, B : A = DSEAt(prog, pc) /\ B = DSEAt(prog, Next1)
  OBVIOUS
<1>4. DSEStepSettled(prog, pc, A, B)
  <2>1. DSEStepSettled(prog, <<pc[1], pc[2]>>, DSEAt(prog, <<pc[1], pc[2]>>), DSEAt(prog, Next1))
    BY <1>1, <1>2, DSESettledParts DEF Next1
  <2> QED BY <1>2, <1>3, <2>1
<1>5. DSEPassStep(A, op, pc, checked, killed, B)
  <2>1. PICK w : w = [second |-> FALSE, inLoop |-> \E l \in prog.loops : pc[1] \in l.header..l.last]
    OBVIOUS
  <2>2. w.second = FALSE
    BY <2>1
  <2>3. B = DSEOperation(A, op, pc, w, checked) /\ DSETyped(A) /\ NoneDead(B.needed, killed)
    BY <1>1, <1>4, <2>1 DEF DSEStepSettled, DSEStep, op
  <2> QED BY <2>2, <2>3 DEF DSEPassStep
<1>6. /\ op.kind = "enter" => EntersWell(B, killed)
      /\ op.kind = "leave" => A.inRegion = TRUE
      /\ op.kind = "syscall" => ArgumentsRead(op)
  BY <1>1, <1>4 DEF DSEStepSettled, op
<1> QED BY <1>1, <1>2, <1>3, <1>5, <1>6

LEMMA KilledAdvanced ==
    ASSUME KilledInv, IsPoint(prog, Next1), phase = "run", Advance,
           prog' = prog, checked' = checked, killed' = killed,
           Traced(DSEAt(prog, Next1), stale', region', killed)
    PROVE  KilledInv'
BY DEF KilledInv, Advance, Next1

LEMMA KilledAbandoned ==
    ASSUME KilledInv, phase = "run", Abandon, prog' = prog, checked' = checked
    PROVE  KilledInv'
BY DEF KilledInv, Abandon

-----------------------------------------------------------------------------
(* The actions.                                                            *)

LEMMA KilledLoad ==
    ASSUME KilledInv, \A p \in Programs : DSESettled(p), Load \/ OrderedLoad
    PROVE  KilledInv'
<1>1. AtOp({"load", "loadAny", "ordered"}) /\ phase = "run"
  BY DEF Load, OrderedLoad, AtOp
<1>2. /\ prog' = prog /\ checked' = checked /\ killed' = killed
      /\ stale' = stale /\ region' = region /\ (Advance \/ Abandon)
  BY DEF Load, OrderedLoad
<1>3. CASE Abandon
  BY <1>1, <1>2, <1>3, KilledAbandoned
<1>4. CASE Advance
  <2>1. PICK A, B :
              /\ A = DSEAt(prog, pc) /\ B = DSEAt(prog, Next1)
              /\ DSEPassStep(A, op, pc, checked, killed, B)
              /\ Traced(A, stale, region, killed)
              /\ op.kind \in {"load", "loadAny", "ordered"} /\ IsPoint(prog, Next1)
    BY <1>1, KilledStep
  <2>2. Traced(B, stale, region, killed)
    <3>1. CASE op.kind = "loadAny"
      BY <2>1, <3>1, AnythingTraced
    <3>2. CASE op.kind \in {"load", "ordered"}
      BY <2>1, <3>2, LoadTraced
    <3> QED BY <2>1, <3>1, <3>2
  <2> QED BY <1>1, <1>2, <1>4, <2>1, <2>2, KilledAdvanced
<1> QED BY <1>2, <1>3, <1>4

LEMMA WrittenInMemory ==
    ASSUME KilledInv, AtOp({"store", "copy"})
    PROVE  \A m \in Written : m \in Memory
<1>1. op \in Operations /\ op.kind \in {"store", "copy"}
  <2>1. prog.ops[pc[1]] \in Seq(Operations) /\ pc[2] \in Nat /\ pc[2] >= 1
    BY RunAssumption DEF KilledInv, IsPoint
  <2>2. pc[2] \in DOMAIN prog.ops[pc[1]]
    BY <2>1 DEF AtOp, AtEnd
  <2>3. prog.ops[pc[1]][pc[2]] \in Operations
    BY <2>1, <2>2
  <2> QED BY <2>3 DEF op, Op, AtOp
<1>2. CASE op.kind = "store"
  <2>1. op.obj \in Objects /\ op.bytes \in SUBSET Bytes
    BY <1>1, <1>2 DEF Operations
  <2> QED BY <1>2, <2>1 DEF Written, Memory
<1>3. CASE op.kind = "copy"
  <2>1. op.to \in Objects /\ op.bytes \in SUBSET Bytes
    BY <1>1, <1>3 DEF Operations
  <2> QED BY <1>3, <2>1 DEF Written, Memory
<1> QED BY <1>1, <1>2, <1>3

LEMMA KilledStore ==
    ASSUME KilledInv, \A p \in Programs : DSESettled(p), Store
    PROVE  KilledInv'
<1>1. AtOp({"store", "copy"}) /\ phase = "run"
  BY DEF Store, AtOp
<1>2. /\ prog' = prog /\ checked' = checked /\ killed' = killed
      /\ region' = region /\ Advance
      /\ stale' = IF ~region /\ pc \in killed THEN stale \cup Written ELSE stale \ Written
  BY DEF Store
<1>3. PICK A, B :
              /\ A = DSEAt(prog, pc) /\ B = DSEAt(prog, Next1)
              /\ DSEPassStep(A, op, pc, checked, killed, B)
              /\ Traced(A, stale, region, killed)
              /\ op.kind \in {"store", "copy"} /\ IsPoint(prog, Next1)
  BY <1>1, KilledStep
<1>4. Rewritten(stale, Written, pc, region, killed, stale')
  <2>1. \A m \in stale : m \in Memory
    BY <1>3 DEF Traced
  <2>2. \A m \in Written : m \in Memory
    BY <1>1, WrittenInMemory
  <2>3. CASE ~region /\ pc \in killed
    <3>1. stale' = stale \cup Written
      BY <1>2, <2>3, Zenon
    <3>2. \A m \in stale' : m \in Memory /\ (m \notin Written => m \in stale)
      BY <2>1, <2>2, <3>1
    <3> QED BY <2>3, <3>2, Zenon DEF Rewritten
  <2>4. CASE ~(~region /\ pc \in killed)
    <3>1. stale' = stale \ Written
      BY <1>2, <2>4, Zenon
    <3>2. \A m \in stale' : m \in Memory /\ m \notin Written /\ m \in stale
      BY <2>1, <3>1
    <3> QED BY <3>2, Zenon DEF Rewritten
  <2> QED BY <2>3, <2>4
<1>5. Traced(B, stale', region, killed)
  <2>1. CASE op.kind = "store"
    <3>1. Written = Span(op.obj, op.bytes)
      BY <2>1 DEF Written, Span
    <3>2. PICK o, E, r : o = op /\ E = stale' /\ r = region
      OBVIOUS
    <3>a. /\ DSEPassStep(A, o, pc, checked, killed, B) /\ Traced(A, stale, r, killed)
          /\ o.kind = "store" /\ Rewritten(stale, Span(o.obj, o.bytes), pc, r, killed, E)
      BY <1>3, <1>4, <2>1, <3>1, <3>2
    <3>3. Traced(B, E, r, killed)
      BY ONLY <3>a, StoreTraced
    <3> QED BY <3>2, <3>3
  <2>2. CASE op.kind = "copy"
    <3>1. Written = Span(op.to, op.bytes)
      BY <2>2 DEF Written, Span
    <3>2. PICK o, E, r : o = op /\ E = stale' /\ r = region
      OBVIOUS
    <3>a. /\ DSEPassStep(A, o, pc, checked, killed, B) /\ Traced(A, stale, r, killed)
          /\ o.kind = "copy" /\ Rewritten(stale, Span(o.to, o.bytes), pc, r, killed, E)
      BY <1>3, <1>4, <2>2, <3>1, <3>2
    <3>3. Traced(B, E, r, killed)
      BY ONLY <3>a, CopyTraced
    <3> QED BY <3>2, <3>3
  <2> QED BY <1>3, <2>1, <2>2
<1> QED BY <1>1, <1>2, <1>3, <1>5, KilledAdvanced

LEMMA KilledYield ==
    ASSUME KilledInv, \A p \in Programs : DSESettled(p), Yield \/ PathCondition
    PROVE  KilledInv'
<1>1. AtOp({"fence", "lock", "pathCondition"}) /\ phase = "run"
  BY DEF Yield, PathCondition, AtOp
<1>2. /\ prog' = prog /\ checked' = checked /\ killed' = killed
      /\ stale' = stale /\ region' = region /\ (Advance \/ Abandon)
  BY DEF Yield, PathCondition
<1>3. CASE Abandon
  BY <1>1, <1>2, <1>3, KilledAbandoned
<1>4. CASE Advance
  <2>1. PICK A, B :
              /\ A = DSEAt(prog, pc) /\ B = DSEAt(prog, Next1)
              /\ DSEPassStep(A, op, pc, checked, killed, B)
              /\ Traced(A, stale, region, killed)
              /\ op.kind \in {"fence", "lock", "pathCondition"} /\ IsPoint(prog, Next1)
    BY <1>1, KilledStep
  <2>2. Traced(B, stale, region, killed)
    BY <2>1, AnythingTraced
  <2> QED BY <1>1, <1>2, <1>4, <2>1, <2>2, KilledAdvanced
<1> QED BY <1>2, <1>3, <1>4

LEMMA KilledFree ==
    ASSUME KilledInv, \A p \in Programs : DSESettled(p), Free
    PROVE  KilledInv'
<1>1. AtOp({"free"}) /\ phase = "run"
  BY DEF Free, AtOp
<1>2. /\ prog' = prog /\ checked' = checked /\ killed' = killed
      /\ region' = region /\ Advance /\ stale' = stale \ ({op.obj} \X Bytes)
  BY DEF Free
<1>3. PICK A, B :
              /\ A = DSEAt(prog, pc) /\ B = DSEAt(prog, Next1)
              /\ DSEPassStep(A, op, pc, checked, killed, B)
              /\ Traced(A, stale, region, killed)
              /\ op.kind \in {"free"} /\ IsPoint(prog, Next1)
  BY <1>1, KilledStep
<1>4. \A m \in stale' : m \in stale /\ m[1] # op.obj
  <2>1. \A m \in stale : m \in Memory
    BY <1>3 DEF Traced
  <2> QED BY <1>2, <2>1 DEF Memory
<1>5. Traced(B, stale', region, killed)
  BY <1>3, <1>4, FreeTraced
<1> QED BY <1>1, <1>2, <1>3, <1>5, KilledAdvanced

LEMMA KilledSystemCall ==
    ASSUME KilledInv, \A p \in Programs : DSESettled(p), SystemCall
    PROVE  KilledInv'
<1>1. AtOp({"syscall"}) /\ phase = "run"
  BY DEF SystemCall, AtOp
<1>2. /\ prog' = prog /\ checked' = checked /\ killed' = killed
      /\ region' = region /\ Advance /\ stale' = stale
  BY DEF SystemCall
<1>3. PICK A, B :
              /\ A = DSEAt(prog, pc) /\ B = DSEAt(prog, Next1)
              /\ DSEPassStep(A, op, pc, checked, killed, B)
              /\ Traced(A, stale, region, killed)
              /\ op.kind \in {"syscall"} /\ IsPoint(prog, Next1)
  BY <1>1, KilledStep
<1>4. Traced(B, stale, region, killed)
  BY <1>3, SystemCallTraced
<1> QED BY <1>1, <1>2, <1>3, <1>4, KilledAdvanced

LEMMA KilledRegion ==
    ASSUME KilledInv, \A p \in Programs : DSESettled(p), Enter \/ Leave
    PROVE  KilledInv'
<1>1. AtOp({"enter", "leave"}) /\ phase = "run"
  BY DEF Enter, Leave, AtOp
<1>2. /\ prog' = prog /\ checked' = checked /\ killed' = killed
      /\ stale' = stale /\ (Advance \/ Abandon)
      /\ op.kind = "enter" => region' = TRUE
      /\ op.kind = "leave" => region' = FALSE
  BY DEF Enter, Leave, AtOp, op
<1>3. CASE Abandon
  BY <1>1, <1>2, <1>3, KilledAbandoned
<1>4. CASE Advance
  <2>1. PICK A, B :
              /\ A = DSEAt(prog, pc) /\ B = DSEAt(prog, Next1)
              /\ DSEPassStep(A, op, pc, checked, killed, B)
              /\ Traced(A, stale, region, killed)
              /\ op.kind = "enter" => EntersWell(B, killed)
              /\ op.kind = "leave" => A.inRegion = TRUE
              /\ op.kind \in {"enter", "leave"} /\ IsPoint(prog, Next1)
    BY <1>1, KilledStep
  <2>2. CASE op.kind = "enter"
    <3>1. Traced(B, stale, TRUE, killed)
      BY <2>1, <2>2, EnterTraced
    <3> QED BY <1>1, <1>2, <1>4, <2>1, <2>2, <3>1, KilledAdvanced
  <2>3. CASE op.kind = "leave"
    <3>1. Traced(B, stale, FALSE, killed)
      BY <2>1, <2>3, LeaveTraced
    <3> QED BY <1>1, <1>2, <1>4, <2>1, <2>3, <3>1, KilledAdvanced
  <2> QED BY <2>1, <2>2, <2>3
<1> QED BY <1>2, <1>3, <1>4

LEMMA KilledNextBlock ==
    ASSUME KilledInv, \A p \in Programs : DSESettled(p), NextBlock
    PROVE  KilledInv'
<1>1. prog \in Programs /\ IsPoint(prog, pc) /\ phase = "run" /\ AtEnd
  BY DEF KilledInv, NextBlock
<1>2. /\ prog' = prog /\ checked' = checked /\ killed' = killed
      /\ stale' = stale /\ region' = region /\ phase' = phase
      /\ checked = findTentativeLoads(prog) /\ killed = Dead(prog)
      /\ Traced(DSEAt(prog, pc), stale, region, killed)
  BY <1>1 DEF KilledInv, NextBlock
<1>3. PICK a, b : a = pc[1] /\ b \in prog.succ[a] /\ pc' = <<b, 1>>
  BY DEF NextBlock
<1>4. /\ a \in Blocks(prog) /\ b \in Blocks(prog) /\ pc = <<a, Len(prog.ops[a]) + 1>>
      /\ IsPoint(prog, <<b, 1>>)
  <2>1. a \in Blocks(prog) /\ b \in Blocks(prog)
    BY <1>1, <1>3, RunAssumption DEF IsPoint
  <2>2. prog.ops[a] \in Seq(Operations) /\ prog.ops[b] \in Seq(Operations)
    BY <1>1, <2>1, RunAssumption
  <2>3. pc = <<a, pc[2]>> /\ pc[2] \in 1..(Len(prog.ops[a]) + 1) /\ pc[2] > Len(prog.ops[a])
    BY <1>1, <1>3 DEF IsPoint, AtEnd
  <2>4. Len(prog.ops[a]) \in Nat /\ Len(prog.ops[b]) \in Nat
    BY <2>2
  <2> QED BY <2>1, <2>3, <2>4 DEF IsPoint
<1>5. PICK A, W : A = DSEAt(prog, pc) /\ W = LastWriters(prog)[b]
  OBVIOUS
<1>6. ~Within(A) /\ \A m \in Memory : WritersOf(A.D, m) \subseteq W[m]
  BY <1>1, <1>3, <1>4, <1>5, DSESettledParts DEF Within
<1>7. DSEAt(prog, <<b, 1>>) = DSEEnter(W)
  BY <1>1, <1>4, <1>5, DSESettledParts
<1>8. Traced(A, stale, region, killed)
  BY <1>2, <1>5
<1>9. Traced(DSEEnter(W), stale, region, killed)
  BY <1>6, <1>8, EdgeTraced
<1>10. Traced(DSEAt(prog', pc'), stale', region', killed')
  BY <1>2, <1>3, <1>7, <1>9
<1>11. prog' \in Programs /\ IsPoint(prog', pc')
  BY <1>1, <1>2, <1>3, <1>4
<1> QED BY <1>1, <1>2, <1>10, <1>11 DEF KilledInv

(* The caller reads what it likes.                                         *)
LEMMA KilledReturn ==
    ASSUME KilledInv, \A p \in Programs : DSESettled(p), Return
    PROVE  KilledInv'
<1>1. /\ prog \in Programs /\ IsPoint(prog, pc) /\ phase = "run" /\ AtEnd
      /\ prog.succ[pc[1]] = {} /\ killed = Dead(prog)
      /\ Traced(DSEAt(prog, pc), stale, region, killed)
  BY DEF KilledInv, Return
<1>2. PICK a : a = pc[1]
  OBVIOUS
<1>3. a \in Blocks(prog) /\ pc = <<a, Len(prog.ops[a]) + 1>>
  <2>1. a \in Blocks(prog) /\ pc = <<a, pc[2]>>
    BY <1>1, <1>2 DEF IsPoint
  <2>2. Len(prog.ops[a]) \in Nat
    BY <1>1, <2>1, RunAssumption
  <2> QED BY <1>1, <1>2, <2>1, <2>2 DEF IsPoint, AtEnd
<1>4. NoneDead(Writers(DSEAt(prog, pc).D), killed)
  BY <1>1, <1>2, <1>3, DSESettledParts
<1>5. Nothing(stale)
  BY <1>1, <1>4, NothingStale
<1>6. stale = {}
  BY <1>5 DEF Nothing
<1> QED BY <1>1, <1>6 DEF KilledInv, Return

(* The run starts with nothing stale.                                      *)
LEMMA KilledStart ==
    ASSUME KilledInv, \A p \in Programs : DSESettled(p), TryKillStores
    PROVE  KilledInv'
<1>1. /\ phase = "tryKillStores" /\ phase' = "run" /\ killed' = tryKillStores(prog, checked)
      /\ prog' = prog /\ checked' = checked /\ pc' = pc /\ stale' = stale /\ region' = region
  BY DEF TryKillStores
<1>2. /\ prog \in Programs /\ pc = <<1, 1>> /\ stale = {} /\ region = FALSE
      /\ checked = findTentativeLoads(prog)
  BY <1>1 DEF KilledInv
<1>3. 1 \in Blocks(prog)
  BY <1>2, RunAssumption
<1>4. PICK A, W : A = DSEAt(prog, <<1, 1>>) /\ A = DSEEnter(W)
  BY <1>2, <1>3, DSESettledParts
<1>5. ~Within(A)
  BY <1>4 DEF Within, DSEEnter
<1>6. \A K : Traced(A, {}, FALSE, K)
  BY <1>5, Zenon DEF Traced, Nothing
<1>7. killed' = Dead(prog)
  BY <1>1, <1>2 DEF Dead
<1>8. Traced(DSEAt(prog', pc'), stale', region', killed')
  BY <1>1, <1>2, <1>4, <1>6
<1> QED BY <1>1, <1>2, <1>7, <1>8 DEF KilledInv

LEMMA KilledFind ==
    ASSUME KilledInv, FindTentativeLoads
    PROVE  KilledInv'
<1>1. phase = "findTentativeLoads" /\ phase' = "tryKillStores"
  BY DEF FindTentativeLoads
<1> QED BY <1>1 DEF KilledInv, FindTentativeLoads

LEMMA KilledInit == ASSUME Init PROVE KilledInv
<1>1. /\ prog \in Programs /\ phase = "findTentativeLoads" /\ pc = <<1, 1>>
      /\ stale = {} /\ region = FALSE
  BY DEF Init
<1>2. prog.ops[1] \in Seq(Operations) /\ 1 \in Blocks(prog)
  BY <1>1, RunAssumption
<1>3. IsPoint(prog, pc)
  <2>1. Len(prog.ops[1]) \in Nat
    BY <1>2
  <2> QED BY <1>1, <1>2, <2>1 DEF IsPoint
<1> QED BY <1>1, <1>3 DEF KilledInv

LEMMA KilledNext ==
    ASSUME KilledInv, \A p \in Programs : DSESettled(p), [Next]_vars
    PROVE  KilledInv'
<1>1. CASE FindTentativeLoads
  BY <1>1, KilledFind
<1>2. CASE TryKillStores
  BY <1>2, KilledStart
<1>3. CASE Load \/ OrderedLoad
  BY <1>3, KilledLoad
<1>4. CASE Store
  BY <1>4, KilledStore
<1>5. CASE Yield \/ PathCondition
  BY <1>5, KilledYield
<1>6. CASE Free
  BY <1>6, KilledFree
<1>7. CASE SystemCall
  BY <1>7, KilledSystemCall
<1>8. CASE Enter \/ Leave
  BY <1>8, KilledRegion
<1>9. CASE NextBlock
  BY <1>9, KilledNextBlock
<1>10. CASE Return
  BY <1>10, KilledReturn
<1>11. CASE UNCHANGED vars
  BY <1>11 DEF KilledInv, vars
<1> QED
  BY <1>1, <1>2, <1>3, <1>4, <1>5, <1>6, <1>7, <1>8, <1>9, <1>10, <1>11 DEF Next

(* Whatever is read at a point, the pass has looked at it.                 *)
LEMMA KilledSuffices ==
    ASSUME KilledInv, \A p \in Programs : DSESettled(p)
    PROVE  KilledNeverRead
<1>1. CASE phase = "returned"
  BY <1>1 DEF KilledInv, KilledNeverRead
<1>2. CASE phase # "returned" /\ (phase # "run" \/ AtEnd)
  <2>1. ReadNow = {}
    BY <1>2 DEF ReadNow
  <2> QED BY <2>1 DEF KilledNeverRead
<1>3. CASE phase = "run" /\ ~AtEnd
  <2>0. AtOp({op.kind})
    BY <1>3 DEF AtOp, op
  <2>1. PICK A, B :
              /\ DSEPassStep(A, op, pc, checked, killed, B)
              /\ Traced(A, stale, region, killed)
              /\ op.kind = "enter" => EntersWell(B, killed)
              /\ op.kind = "leave" => A.inRegion = TRUE
              /\ op.kind = "syscall" => ArgumentsRead(op)
    BY <2>0, KilledStep
  <2>2. CASE op.kind \in {"load", "ordered", "copy"}
    <3>1. ReadsFresh(op, pc, checked, stale, region)
      <4>1. CASE op.kind \in {"load", "ordered"}
        BY <2>1, <4>1, LoadTraced
      <4>2. CASE op.kind = "copy"
        <5>1. Rewritten(stale, Span(op.to, op.bytes), pc, region, killed, {})
          BY DEF Rewritten
        <5> QED BY <2>1, <4>2, <5>1, CopyTraced
      <4> QED BY <2>2, <4>1, <4>2
    <3>2. ReadNow = IF ~region /\ HasCheck THEN Memory
                    ELSE IF region \/ op.obj \in Opaque THEN Read ELSE {}
      BY <1>3, <2>2 DEF ReadNow
    <3>3. CASE region \/ HasCheck
      <4>1. Nothing(stale)
        BY <3>1, <3>3, Zenon DEF ReadsFresh, HasCheck
      <4> QED BY <4>1 DEF Nothing, KilledNeverRead
    <3>4. CASE ~region /\ ~HasCheck
      <4>1. ReadNow = IF op.obj \in Opaque THEN Read ELSE {}
        BY <3>2, <3>4, Zenon
      <4>2. CASE op.obj \in Opaque
        <5>1. \A m \in stale : m \notin ReadOf(op)
          BY <3>1, <4>2, Zenon DEF ReadsFresh
        <5> QED BY <4>1, <4>2, <5>1 DEF ReadOf, Read, KilledNeverRead
      <4>3. CASE op.obj \notin Opaque
        BY <4>1, <4>3 DEF KilledNeverRead
      <4> QED BY <4>2, <4>3
    <3> QED BY <3>3, <3>4
  <2>3. CASE op.kind = "syscall"
    <3>1. \A m \in stale : m \in Memory /\ m[1] \notin argumentsRead(op)
      <4>1. \A m \in stale : m \in Memory
        BY <2>1 DEF Traced
      <4> QED BY <2>1, <2>3, <4>1, SystemCallTraced
    <3>2. ReadNow = {o \in Objects : \E i \in DOMAIN op.args : op.args[i] = o} \X Bytes
      BY <1>3, <2>3 DEF ReadNow
    <3>3. ASSUME NEW m \in stale, m \in ReadNow
          PROVE  FALSE
      <4>1. PICK i : i \in DOMAIN op.args /\ op.args[i] = m[1] /\ m[1] \in Objects
        BY <3>2, <3>3
      <4> QED BY <2>1, <2>3, <3>1, <4>1 DEF ArgumentsRead
    <3> QED BY <3>3 DEF KilledNeverRead
  <2>4. CASE op.kind \in {"loadAny", "fence", "lock", "enter", "leave", "pathCondition"}
    <3>1. Nothing(stale)
      <4>1. CASE op.kind \in {"loadAny", "fence", "lock", "pathCondition"}
        BY <2>1, <4>1, AnythingTraced
      <4>2. CASE op.kind = "enter"
        BY <2>1, <4>2, EnterTraced
      <4>3. CASE op.kind = "leave"
        BY <2>1, <4>3, LeaveTraced
      <4> QED BY <2>4, <4>1, <4>2, <4>3
    <3> QED BY <3>1 DEF Nothing, KilledNeverRead
  <2>5. CASE op.kind \notin {"load", "ordered", "copy", "syscall", "loadAny", "fence", "lock", "enter",
                            "leave", "pathCondition"}
    <3>1. ReadNow = {}
      BY <1>3, <2>5 DEF ReadNow
    <3> QED BY <3>1 DEF KilledNeverRead
  <2> QED BY <2>2, <2>3, <2>4, <2>5
<1> QED BY <1>1, <1>2, <1>3

(* If, for each function, the pass has killed no store that its fixed      *)
(* point finds to be needed, then neither the specialised program nor code *)
(* it falls back to or calls, its caller or another thread reads a byte    *)
(* whose last store was killed (DSE.cpp).                                  *)
THEOREM KilledUnread ==
    ASSUME \A p \in Programs : DSESettled(p)
    PROVE  Spec => []KilledNeverRead
<1>1. Init => KilledInv
  BY KilledInit
<1>2. KilledInv /\ [Next]_vars => KilledInv'
  BY KilledNext
<1>3. KilledInv => KilledNeverRead
  BY KilledSuffices
<1> QED BY <1>1, <1>2, <1>3, PTL DEF Spec
=============================================================================
