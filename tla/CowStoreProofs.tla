--------------------------- MODULE CowStoreProofs ---------------------------
(***************************************************************************)
(* Proofs about CowStore.                                                  *)
(***************************************************************************)
EXTENDS CowStore, FiniteSetTheorems, TLAPS

(***************************************************************************)
(* Counting.                                                               *)
(***************************************************************************)
(* The numbers of maps and tables.                                         *)
LEMMA MapIdsFinite ==
    /\ Cardinality(Edges) \in Nat /\ Cardinality(Edges) > 0
    /\ IsFiniteSet(MapIds) /\ Cardinality(MapIds) = Cardinality(Edges)
    /\ 1 \in MapIds /\ NoMap \notin MapIds /\ NoTab \notin MapIds
    /\ IsFiniteSet(Levels) /\ 0 \in Levels /\ MapIds \subseteq Nat \ {0}
<1>1. /\ Cardinality(Edges) \in Nat /\ Cardinality(Edges) # 0
  BY CowAssumption, FS_CardinalityType, FS_EmptySet
<1>2. IsFiniteSet(MapIds) /\ Cardinality(MapIds) = Cardinality(Edges)
  BY <1>1, FS_Interval DEF MapIds
<1>3. IsFiniteSet(Levels)
  BY CowAssumption, FS_Interval DEF Levels
<1> QED
  BY <1>1, <1>2, <1>3, CowAssumption DEF MapIds, NoMap, NoTab, Levels

(* Pigeonholes: of the numbers 1..n, given to at most n holders of which   *)
(* one has none or two have the same, one is left.                         *)
LEMMA Spare ==
    ASSUME NEW A, IsFiniteSet(A), Cardinality(A) \in Nat, NEW f \in [A -> 0..Cardinality(A)],
           \/ \E a \in A : f[a] = 0
           \/ \E a, b \in A : a # b /\ f[a] = f[b]
    PROVE  \E k \in 1..Cardinality(A) : \A a \in A : f[a] # k
<1> DEFINE n == Cardinality(A)
           B == {a \in A : f[a] # 0}
           h == [a \in B |-> f[a]]
<1> SUFFICES ASSUME \A k \in 1..n : \E a \in A : f[a] = k
             PROVE  FALSE
  OBVIOUS
<1>1. h \in Surjection(B, 1..n)
  BY DEF Surjection
<1>2. IsFiniteSet(B) /\ Cardinality(B) <= n /\ (Cardinality(B) = n => B = A)
      /\ Cardinality(B) \in Nat
  BY FS_Subset, FS_CardinalityType
<1>3. Cardinality(1..n) = n
  BY FS_Interval
<1>4. n <= Cardinality(B)
  BY <1>1, <1>2, <1>3, FS_Surjection
<1>5. B = A
  BY <1>2, <1>4
<1>6. h \in Injection(B, 1..n)
  BY <1>1, <1>2, <1>3, <1>4, FS_SurjSameCardinalityImpliesInj
<1> QED
  BY <1>5, <1>6 DEF Injection, IsInjective

(***************************************************************************)
(* What holds of the whole store, and what an edge can see of it.          *)
(***************************************************************************)
Sound(S) == Typed(S) /\ Counted(S) /\ Marked(S)

(* The entries that edge f reads at level i.                               *)
Ents(S, f, i) == Entries(S, i, Of(S, f).tabs[i])

(* Edge f reads the same in S and in T.                                    *)
Agree(S, T, f) ==
    /\ T.at[f] = NoMap <=> S.at[f] = NoMap
    /\ S.at[f] # NoMap =>
         /\ Of(T, f).depth = Of(S, f).depth /\ Of(T, f).aoc = Of(S, f).aoc
         /\ Of(T, f).na = Of(S, f).na /\ Of(T, f).ue = Of(S, f).ue
         /\ \A i \in Levels : Ents(T, f, i) = Ents(S, f, i)

(* Edge e has a store, a map to itself, a table to itself at level i; and  *)
(* the fields of its map that can be seen are the same in S and in T.      *)
Has(S, e)         == S.at[e] # NoMap
TableOf(S, e, i)  == S.tab[i][Of(S, e).tabs[i]]
Alone(S, e)       == Of(S, e).ref = 1
Owns(S, e, i)     == Of(S, e).tabs[i] \in MapIds /\ TableOf(S, e, i).ref = 1
SameMap(S, T, e)  == /\ Of(T, e).depth = Of(S, e).depth /\ Of(T, e).aoc = Of(S, e).aoc
                     /\ Of(T, e).na = Of(S, e).na /\ Of(T, e).ue = Of(S, e).ue
AgreeBesides(S, T, e) == \A f \in Edges : f # e => Agree(S, T, f)

(* A free map, when some map is shared or some edge has none.              *)
LEMMA NewMapFree ==
    ASSUME NEW S, Typed(S), Counted(S), NEW e \in Edges,
           S.at[e] = NoMap \/ Of(S, e).ref # 1
    PROVE  NewMap(S) \in MapIds /\ S.map[NewMap(S)] = FreeMap /\ Holders(S, NewMap(S)) = {}
<1>1. S.at \in [Edges -> 0..Cardinality(Edges)]
  BY MapIdsFinite DEF Typed, MapIds, NoMap
<1>2. \/ \E a \in Edges : S.at[a] = 0
      \/ \E a, b \in Edges : a # b /\ S.at[a] = S.at[b]
  <2>1. CASE S.at[e] = NoMap
    BY <2>1 DEF NoMap
  <2>2. CASE S.at[e] # NoMap
    <3> DEFINE m == S.at[e]
    <3>1. m \in MapIds
      BY <2>2 DEF Typed
    <3>2. Cardinality(Holders(S, m)) # 1
      BY <2>2, <3>1 DEF Counted, Of
    <3>3. Holders(S, m) # {e}
      BY <3>2, FS_Singleton
    <3> QED
      BY <3>3 DEF Holders
  <2> QED
    BY <2>1, <2>2
<1>3. PICK m \in MapIds : \A a \in Edges : S.at[a] # m
  BY <1>1, <1>2, CowAssumption, MapIdsFinite, Spare DEF MapIds
<1>4. Holders(S, m) = {}
  BY <1>3 DEF Holders
<1>5. S.map[m].ref = 0
  BY <1>4, FS_EmptySet DEF Counted
<1>6. NewMap(S) \in MapIds /\ S.map[NewMap(S)].ref = 0
  BY <1>5 DEF NewMap
<1>7. IsFiniteSet(Holders(S, NewMap(S)))
  BY CowAssumption, FS_Subset DEF Holders
<1> QED
  BY <1>6, <1>7, FS_EmptySet DEF Typed, Counted

(* A free table at level i, when some map has none there or shares it.     *)
LEMMA NewTabFree ==
    ASSUME NEW S, Typed(S), Counted(S), NEW i \in Levels, NEW m \in MapIds,
           S.map[m].tabs[i] = NoTab \/ S.tab[i][S.map[m].tabs[i]].ref # 1
    PROVE  NewTab(S, i) \in MapIds /\ S.tab[i][NewTab(S, i)] = FreeTab
           /\ Users(S, i, NewTab(S, i)) = {}
<1> DEFINE F == [a \in MapIds |-> S.map[a].tabs[i]]
<1>1. F \in [MapIds -> 0..Cardinality(MapIds)]
  BY MapIdsFinite DEF Typed, MapIds, NoTab, MapType
<1>2. \/ \E a \in MapIds : F[a] = 0
      \/ \E a, b \in MapIds : a # b /\ F[a] = F[b]
  <2>1. CASE S.map[m].tabs[i] = NoTab
    BY <2>1 DEF NoTab
  <2>2. CASE S.map[m].tabs[i] # NoTab
    <3> DEFINE k == S.map[m].tabs[i]
    <3>1. k \in MapIds
      BY <2>2 DEF Typed, MapType
    <3>2. Cardinality(Users(S, i, k)) # 1
      BY <2>2, <3>1 DEF Counted
    <3>3. Users(S, i, k) # {m}
      BY <3>2, FS_Singleton
    <3> QED
      BY <3>3 DEF Users
  <2> QED
    BY <2>1, <2>2
<1>3. PICK k \in MapIds : \A a \in MapIds : F[a] # k
  <2>1. MapIds = 1..Cardinality(MapIds) /\ IsFiniteSet(MapIds) /\ Cardinality(MapIds) \in Nat
    BY MapIdsFinite DEF MapIds
  <2> HIDE DEF F
  <2>2. \E k \in 1..Cardinality(MapIds) : \A a \in MapIds : F[a] # k
    BY ONLY <1>1, <1>2, <2>1, Spare
  <2> QED
    BY <2>1, <2>2
<1>4. Users(S, i, k) = {}
  BY <1>3 DEF Users
<1>5. S.tab[i][k].ref = 0
  BY <1>4, FS_EmptySet DEF Counted
<1>6. NewTab(S, i) \in MapIds /\ S.tab[i][NewTab(S, i)].ref = 0
  BY <1>5 DEF NewTab
<1>7. IsFiniteSet(Users(S, i, NewTab(S, i)))
  BY MapIdsFinite, FS_Subset DEF Users
<1> QED
  BY <1>6, <1>7, FS_EmptySet DEF Typed, Counted

(***************************************************************************)
(* Fields of the records.                                                  *)
(***************************************************************************)
LEMMA MapRef ==
    ASSUME NEW M \in MapType, NEW r
    PROVE  LET R == [M EXCEPT !.ref = r] IN
           /\ R.ref = r /\ R.depth = M.depth /\ R.tabs = M.tabs
           /\ R.aoc = M.aoc /\ R.na = M.na /\ R.ue = M.ue
           /\ r \in 0..Cardinality(Edges) => R \in MapType
  BY DEF MapType

(* A table with another count is otherwise the same.                       *)
LEMMA TabRef ==
    ASSUME NEW M \in TabType, NEW r
    PROVE  LET R == [M EXCEPT !.ref = r] IN
           /\ R.ref = r /\ R.ents = M.ents /\ R.empty = M.empty
           /\ r \in 0..Cardinality(Edges) => R \in TabType
  BY DEF TabType

(* What MapType says of a map, field by field.                             *)
LEMMA MapFields ==
    ASSUME NEW M \in MapType
    PROVE  /\ M.ref \in 0..Cardinality(Edges) /\ M.ref \in Nat /\ M.depth \in Levels
           /\ M.depth \in Nat /\ M.tabs \in [Levels -> MapIds \cup {NoTab}] /\ M.aoc \in BOOLEAN
           /\ M.na \in SUBSET (Levels \X Slots) /\ M.ue \in SUBSET (Levels \X Slots)
  BY MapIdsFinite, CowAssumption DEF MapType, Levels

EntryMaps == [Slots -> (SUBSET Vals) \cup {None}]

(* What TabType says of a table, field by field.                           *)
LEMMA TabFields ==
    ASSUME NEW M \in TabType
    PROVE  /\ M.ref \in 0..Cardinality(Edges) /\ M.ref \in Nat
           /\ M.ents \in EntryMaps /\ M.empty \in BOOLEAN
  BY MapIdsFinite DEF TabType, EntryMaps

(* Free maps and tables refer to nothing and have no entries.              *)
LEMMA FreeFields ==
    /\ FreeMap \in MapType /\ FreeMap.ref = 0 /\ FreeMap.depth = 0
    /\ \A i \in Levels : FreeMap.tabs[i] = NoTab
    /\ FreeMap.aoc = FALSE /\ FreeMap.na = {} /\ FreeMap.ue = {}
    /\ FreeTab \in TabType /\ FreeTab.ref = 0 /\ FreeTab.empty = TRUE /\ NoEntries(FreeTab.ents)
    /\ NewTable \in TabType /\ NewTable.ref = 1 /\ NewTable.empty = TRUE
    /\ NewTable.ents = FreeTab.ents
<1>1. FreeMap \in MapType /\ FreeMap.ref = 0 /\ FreeMap.depth = 0
  BY MapIdsFinite DEF MapType, FreeMap
<1>2. /\ \A i \in Levels : FreeMap.tabs[i] = NoTab
      /\ FreeMap.aoc = FALSE /\ FreeMap.na = {} /\ FreeMap.ue = {}
  BY DEF FreeMap
<1>3. FreeTab \in TabType /\ FreeTab.ref = 0 /\ FreeTab.empty = TRUE
  BY MapIdsFinite DEF TabType, FreeTab
<1>4. NoEntries(FreeTab.ents)
  BY DEF NoEntries, FreeTab
<1>5. /\ NewTable \in TabType /\ NewTable.ref = 1 /\ NewTable.empty = TRUE
      /\ NewTable.ents = FreeTab.ents
  BY <1>3, TabRef, MapIdsFinite DEF NewTable
<1> QED
  BY <1>1, <1>2, <1>3, <1>4, <1>5

(* A map is held by finitely many edges, at most by all of them.           *)
LEMMA HolderCount ==
    ASSUME NEW S, NEW m
    PROVE  /\ IsFiniteSet(Holders(S, m)) /\ Cardinality(Holders(S, m)) \in 0..Cardinality(Edges)
           /\ Cardinality(Holders(S, m)) \in Nat
<1>1. Holders(S, m) \subseteq Edges
  BY DEF Holders
<1>2. IsFiniteSet(Holders(S, m)) /\ Cardinality(Holders(S, m)) <= Cardinality(Edges)
  BY <1>1, CowAssumption, FS_Subset
<1>3. Cardinality(Holders(S, m)) \in Nat
  BY <1>2, FS_CardinalityType
<1> QED
  BY <1>2, <1>3, MapIdsFinite

(* A table is used by finitely many maps, of which there are as many as    *)
(* edges.                                                                  *)
LEMMA UserCount ==
    ASSUME NEW S, NEW i, NEW k
    PROVE  /\ IsFiniteSet(Users(S, i, k)) /\ Cardinality(Users(S, i, k)) \in 0..Cardinality(Edges)
           /\ Cardinality(Users(S, i, k)) \in Nat
<1>1. Users(S, i, k) \subseteq MapIds
  BY DEF Users
<1>2. IsFiniteSet(Users(S, i, k)) /\ Cardinality(Users(S, i, k)) <= Cardinality(MapIds)
  BY <1>1, MapIdsFinite, FS_Subset
<1>3. Cardinality(Users(S, i, k)) \in Nat
  BY <1>2, FS_CardinalityType
<1> QED
  BY <1>2, <1>3, MapIdsFinite

(* Reference counts of maps and tables in use.                             *)
LEMMA InUse ==
    ASSUME NEW S, Sound(S), NEW e \in Edges, S.at[e] # NoMap
    PROVE  /\ S.at[e] \in MapIds /\ Of(S, e) \in MapType /\ Of(S, e).ref >= 1
           /\ Of(S, e).ref = 1 => \A f \in Edges : S.at[f] = S.at[e] => f = e
           /\ \A i \in Levels : Of(S, e).tabs[i] # NoTab =>
                /\ Of(S, e).tabs[i] \in MapIds
                /\ S.tab[i][Of(S, e).tabs[i]].ref >= 1
                /\ S.tab[i][Of(S, e).tabs[i]].ref = 1 =>
                     \A m \in MapIds : S.map[m].tabs[i] = Of(S, e).tabs[i] => m = S.at[e]
<1> DEFINE m == S.at[e]
<1>1. m \in MapIds /\ S.map[m] \in MapType
  BY DEF Sound, Typed
<1>2. S.map[m].ref = Cardinality(Holders(S, m)) /\ e \in Holders(S, m)
  BY <1>1 DEF Sound, Counted, Holders
<1>3. S.map[m].ref >= 1
  BY <1>2, HolderCount, FS_EmptySet
<1>4. ASSUME S.map[m].ref = 1, NEW f \in Edges, S.at[f] = m
      PROVE  f = e
  <2>1. PICK x : Holders(S, m) = {x}
    BY <1>2, <1>4, HolderCount, FS_Singleton
  <2> QED
    BY <2>1, <1>2, <1>4 DEF Holders
<1>5. ASSUME NEW i \in Levels, S.map[m].tabs[i] # NoTab
      PROVE  LET k == S.map[m].tabs[i] IN
             /\ k \in MapIds
             /\ S.tab[i][k].ref >= 1
             /\ S.tab[i][k].ref = 1 => \A p \in MapIds : S.map[p].tabs[i] = k => p = m
  <2> DEFINE k == S.map[m].tabs[i]
  <2>1. k \in MapIds
    BY <1>1, <1>5 DEF MapType
  <2>2. S.tab[i][k].ref = Cardinality(Users(S, i, k)) /\ m \in Users(S, i, k)
    BY <1>1, <2>1 DEF Sound, Counted, Users
  <2>3. S.tab[i][k].ref >= 1
    <3>1. PICK n, U : n = S.tab[i][k].ref /\ U = Users(S, i, k) /\ n = Cardinality(U) /\ m \in U
      BY <2>2
    <3>2. IsFiniteSet(U) /\ n \in Nat
      BY <3>1, UserCount
    <3>3. n # 0
      BY ONLY <3>1, <3>2, FS_EmptySet
    <3>4. n >= 1
      BY ONLY <3>2, <3>3
    <3> QED BY ONLY <3>1, <3>4
  <2>4. ASSUME S.tab[i][k].ref = 1, NEW p \in MapIds, S.map[p].tabs[i] = k
        PROVE  p = m
    <3>1. PICK x : Users(S, i, k) = {x}
      BY <2>2, <2>4, UserCount, FS_Singleton
    <3>2. p \in Users(S, i, k)
      BY <2>4 DEF Users
    <3> HIDE DEF k, m
    <3> QED
      BY <3>1, <3>2, <2>2
  <2> QED
    BY <2>1, <2>3, <2>4
<1> QED
  BY <1>1, <1>3, <1>4, <1>5 DEF Of

(* A typed store is the record of its three components.                    *)
LEMMA TypedFields ==
    ASSUME NEW S, Typed(S)
    PROVE  /\ S = [map |-> S.map, tab |-> S.tab, at |-> S.at]
           /\ S.map \in [MapIds -> MapType] /\ S.tab \in [Levels -> [MapIds -> TabType]]
           /\ S.at \in [Edges -> MapIds \cup {NoMap}]
  BY DEF Typed

(* How Sound is shown of a store: the bounds on counts follow from their   *)
(* being exact.                                                            *)
SoundMap(T, m) ==
    /\ T.map[m].ref \in 0..Cardinality(Edges) => T.map[m] \in MapType
    /\ T.map[m].ref = Cardinality(Holders(T, m))
    /\ T.map[m].ref = 0 => T.map[m] = FreeMap
    /\ \A i \in Levels \ {0} : T.map[m].tabs[i] # NoTab <=> i <= T.map[m].depth
    /\ T.map[m].na \subseteq (0..T.map[m].depth) \X Slots
    /\ T.map[m].ue \subseteq (0..T.map[m].depth) \X Slots
SoundTab(T, i, k) ==
    /\ T.tab[i][k].ref \in 0..Cardinality(Edges) => T.tab[i][k] \in TabType
    /\ T.tab[i][k].ref = Cardinality(Users(T, i, k))
    /\ T.tab[i][k].ref = 0 => T.tab[i][k] = FreeTab
    /\ T.tab[i][k].empty => NoEntries(T.tab[i][k].ents)

(* If that holds of every map and every table, the store is sound.         *)
LEMMA SoundIf ==
    ASSUME NEW T, T = [map |-> T.map, tab |-> T.tab, at |-> T.at],
           T.at \in [Edges -> MapIds \cup {NoMap}],
           T.map = [m \in MapIds |-> T.map[m]],
           T.tab = [i \in Levels |-> [k \in MapIds |-> T.tab[i][k]]],
           \A m \in MapIds : SoundMap(T, m),
           \A i \in Levels, k \in MapIds : SoundTab(T, i, k)
    PROVE  Sound(T)
<1>1. \A m \in MapIds : T.map[m] \in MapType
  BY HolderCount DEF SoundMap
<1>2. \A i \in Levels, k \in MapIds : T.tab[i][k] \in TabType
  BY UserCount DEF SoundTab
<1>3. T.map \in [MapIds -> MapType]
  BY <1>1
<1>4. T.tab \in [Levels -> [MapIds -> TabType]]
  BY <1>2
<1>5. T \in [map : [MapIds -> MapType], tab : [Levels -> [MapIds -> TabType]],
            at : [Edges -> MapIds \cup {NoMap}]]
  BY <1>3, <1>4
<1>6. Typed(T)
  BY <1>5 DEF Typed, SoundMap, SoundTab
<1> QED
  BY <1>6 DEF Sound, Counted, Marked, SoundMap, SoundTab

(* and what it says of each map and table.                                 *)
LEMMA SoundFields ==
    ASSUME NEW S, Sound(S)
    PROVE  /\ S = [map |-> S.map, tab |-> S.tab, at |-> S.at]
           /\ S.map \in [MapIds -> MapType] /\ S.tab \in [Levels -> [MapIds -> TabType]]
           /\ S.at \in [Edges -> MapIds \cup {NoMap}]
           /\ \A m \in MapIds : SoundMap(S, m) /\ S.map[m] \in MapType /\ S.map[m].ref \in Nat
           /\ \A i \in Levels, k \in MapIds :
                SoundTab(S, i, k) /\ S.tab[i][k] \in TabType /\ S.tab[i][k].ref \in Nat
<1>1. Typed(S) /\ Counted(S) /\ Marked(S)
  BY DEF Sound
<1>2. /\ S = [map |-> S.map, tab |-> S.tab, at |-> S.at]
      /\ S.map \in [MapIds -> MapType] /\ S.tab \in [Levels -> [MapIds -> TabType]]
      /\ S.at \in [Edges -> MapIds \cup {NoMap}]
  BY <1>1, TypedFields
<1>3. \A m \in MapIds : SoundMap(S, m)
  BY <1>1, <1>2 DEF SoundMap, Typed, Counted
<1>4. \A i \in Levels, k \in MapIds : SoundTab(S, i, k)
  BY <1>1, <1>2 DEF SoundTab, Typed, Counted, Marked
<1> QED
  BY <1>2, <1>3, <1>4, MapFields, TabFields

(***************************************************************************)
(* The operations of SharedTree.h.                                         *)
(***************************************************************************)
(* Breaking copy-on-write changes nothing that can be read, and leaves e   *)
(* with a map of its own.                                                  *)
LEMMA FrameListSound ==
    ASSUME NEW S, Sound(S), NEW e \in Edges, S.at[e] # NoMap
    PROVE  LET T == getWritableFrameList(S, e) IN
           /\ Sound(T)
           /\ T.at[e] # NoMap /\ Of(T, e).ref = 1 /\ Of(T, e).tabs = Of(S, e).tabs
           /\ \A f \in Edges : Agree(S, T, f)
<1> DEFINE T == getWritableFrameList(S, e)
           m == S.at[e]
           n == NewMap(S)
<1>t. Typed(S) /\ Counted(S) /\ Marked(S)
  BY DEF Sound
<1>s. /\ S = [map |-> S.map, tab |-> S.tab, at |-> S.at]
      /\ S.map \in [MapIds -> MapType] /\ S.tab \in [Levels -> [MapIds -> TabType]]
      /\ S.at \in [Edges -> MapIds \cup {NoMap}]
  BY <1>t, TypedFields
<1>m. m \in MapIds /\ S.map[m] \in MapType /\ S.map[m].ref \in Nat /\ S.map[m].ref >= 1
  <2>1. m \in MapIds /\ Of(S, e).ref >= 1
    BY InUse
  <2> QED
    BY <2>1, <1>s, MapFields DEF Of
<1>1. CASE S.map[m].ref = 1
  BY <1>1 DEF getWritableFrameList, Of, Agree
<1>2. CASE S.map[m].ref # 1
  <2>n. n \in MapIds /\ S.map[n] = FreeMap /\ Holders(S, n) = {} /\ n # m
    <3>1. n \in MapIds /\ S.map[n] = FreeMap /\ Holders(S, n) = {}
      BY <1>2, <1>t, NewMapFree DEF Of
    <3> QED
      BY <3>1, <1>m, FreeFields
  <2>0. /\ T = [map |-> T.map, tab |-> T.tab, at |-> T.at]
        /\ T.map = [p \in MapIds |-> IF p = n THEN [S.map[m] EXCEPT !.ref = 1]
                                     ELSE IF p = m THEN [S.map[m] EXCEPT !.ref = S.map[m].ref - 1]
                                     ELSE S.map[p]]
        /\ T.tab = [i \in Levels |-> [k \in MapIds |->
                      IF k = S.map[m].tabs[i] THEN [S.tab[i][k] EXCEPT !.ref = S.tab[i][k].ref + 1]
                      ELSE S.tab[i][k]]]
        /\ T.at = [f \in Edges |-> IF f = e THEN n ELSE S.at[f]]
    BY <1>2, <1>m, <1>s, <2>n DEF getWritableFrameList
  <2>e. m = S.at[e]
    OBVIOUS
  <2> HIDE DEF T, m, n
  <2>r. \A p \in MapIds :
          /\ T.map[p].ref = IF p = n THEN 1 ELSE IF p = m THEN S.map[m].ref - 1 ELSE S.map[p].ref
          /\ T.map[p].depth = IF p = n THEN S.map[m].depth ELSE S.map[p].depth
          /\ T.map[p].tabs  = IF p = n THEN S.map[m].tabs ELSE S.map[p].tabs
          /\ T.map[p].aoc   = IF p = n THEN S.map[m].aoc ELSE S.map[p].aoc
          /\ T.map[p].na    = IF p = n THEN S.map[m].na ELSE S.map[p].na
          /\ T.map[p].ue    = IF p = n THEN S.map[m].ue ELSE S.map[p].ue
          /\ T.map[p] \in MapType
    <3>1. 1 \in 0..Cardinality(Edges) /\ S.map[m].ref - 1 \in 0..Cardinality(Edges)
      BY <1>m, MapFields, MapIdsFinite
    <3>2. [S.map[m] EXCEPT !.ref = 1] \in MapType /\ [S.map[m] EXCEPT !.ref = S.map[m].ref - 1] \in MapType
      BY <3>1, <1>m, MapRef
    <3> QED
      BY <3>1, <3>2, <2>0, <2>n, <1>m, <1>s, MapRef
  <2>u. \A i \in Levels, k \in MapIds :
          /\ T.tab[i][k].ref = IF k = S.map[m].tabs[i] THEN S.tab[i][k].ref + 1 ELSE S.tab[i][k].ref
          /\ T.tab[i][k].ents = S.tab[i][k].ents /\ T.tab[i][k].empty = S.tab[i][k].empty
          /\ T.tab[i][k].ref \in 0..Cardinality(Edges) => T.tab[i][k] \in TabType
          /\ k # S.map[m].tabs[i] => T.tab[i][k] = S.tab[i][k]
    <3> SUFFICES ASSUME NEW i \in Levels, NEW k \in MapIds
                 PROVE  /\ T.tab[i][k].ref = IF k = S.map[m].tabs[i] THEN S.tab[i][k].ref + 1
                                             ELSE S.tab[i][k].ref
                        /\ T.tab[i][k].ents = S.tab[i][k].ents /\ T.tab[i][k].empty = S.tab[i][k].empty
                        /\ T.tab[i][k].ref \in 0..Cardinality(Edges) => T.tab[i][k] \in TabType
                        /\ k # S.map[m].tabs[i] => T.tab[i][k] = S.tab[i][k]
      OBVIOUS
    <3>1. S.tab[i][k] \in TabType
      BY <1>s
    <3>2. T.tab[i][k] = IF k = S.map[m].tabs[i] THEN [S.tab[i][k] EXCEPT !.ref = S.tab[i][k].ref + 1]
                        ELSE S.tab[i][k]
      BY <2>0
    <3> QED
      BY <3>1, <3>2, TabRef
  <2>1. ASSUME NEW p \in MapIds
        PROVE  T.map[p].ref = Cardinality(Holders(T, p))
    <3>1. CASE p = n
      <4>1. Holders(T, p) = {e}
        BY <2>0, <2>n, <3>1 DEF Holders
      <4> QED
        BY <4>1, <2>r, <3>1, FS_Singleton
    <3>2. CASE p = m
      <4>1. Holders(T, p) = Holders(S, p) \ {e} /\ e \in Holders(S, p)
        BY <2>0, <2>n, <2>e, <3>2 DEF Holders
      <4>2. S.map[m].ref = Cardinality(Holders(S, m))
        BY <1>m, <1>t DEF Counted
      <4>3. Cardinality(Holders(S, m) \ {e}) = Cardinality(Holders(S, m)) - 1
        BY <4>1, <3>2, FS_RemoveElement, HolderCount
      <4> QED
        BY <4>1, <4>2, <4>3, <2>r, <2>n, <3>2
    <3>3. CASE p # n /\ p # m
      <4>1. Holders(T, p) = Holders(S, p)
        BY <2>0, <2>n, <2>e, <3>3 DEF Holders
      <4> QED
        BY <4>1, <2>r, <3>3, <1>t DEF Counted
    <3> QED
      BY <3>1, <3>2, <3>3
  <2>2. ASSUME NEW i \in Levels, NEW k \in MapIds
        PROVE  T.tab[i][k].ref = Cardinality(Users(T, i, k))
    <3>t. S.tab[i][k].ref = Cardinality(Users(S, i, k))
      BY <1>t DEF Counted
    <3>g. n \notin Users(S, i, k)
      BY <2>n, FreeFields, MapIdsFinite DEF Users
    <3>1. CASE k = S.map[m].tabs[i]
      <4>1. Users(T, i, k) = Users(S, i, k) \cup {n}
        BY <2>r, <3>1, <2>n DEF Users
      <4>2. Cardinality(Users(S, i, k) \cup {n}) = Cardinality(Users(S, i, k)) + 1
        BY <3>g, FS_AddElement, UserCount
      <4>3. T.tab[i][k].ref = S.tab[i][k].ref + 1
        BY <2>u, <3>1
      <4> QED
        BY <4>1, <4>2, <4>3, <3>t
    <3>2. CASE k # S.map[m].tabs[i]
      <4>1. Users(T, i, k) = Users(S, i, k)
        BY <2>r, <3>g, <3>2 DEF Users
      <4> QED
        BY <4>1, <3>t, <2>u, <3>2
    <3> QED
      BY <3>1, <3>2
  <2>3. ASSUME NEW p \in MapIds
        PROVE  /\ T.map[p].ref = 0 => T.map[p] = FreeMap
               /\ \A i \in Levels \ {0} : T.map[p].tabs[i] # NoTab <=> i <= T.map[p].depth
               /\ T.map[p].na \subseteq (0..T.map[p].depth) \X Slots
               /\ T.map[p].ue \subseteq (0..T.map[p].depth) \X Slots
    <3> DEFINE q == IF p = n THEN m ELSE p
    <3>1. /\ q \in MapIds /\ T.map[p].tabs = S.map[q].tabs /\ T.map[p].depth = S.map[q].depth
          /\ T.map[p].na = S.map[q].na /\ T.map[p].ue = S.map[q].ue
      BY <2>r, <1>m
    <3>2. /\ \A i \in Levels \ {0} : S.map[q].tabs[i] # NoTab <=> i <= S.map[q].depth
          /\ S.map[q].na \subseteq (0..S.map[q].depth) \X Slots
          /\ S.map[q].ue \subseteq (0..S.map[q].depth) \X Slots
      BY <3>1, <1>t DEF Typed
    <3>3. T.map[p].ref = 0 => T.map[p] = FreeMap
      <4>1. p # n /\ p # m => T.map[p] = S.map[p]
        BY <2>0
      <4>2. S.map[p].ref = 0 => S.map[p] = FreeMap
        BY <1>t DEF Typed
      <4>3. p = n => T.map[p].ref = 1
        BY <2>r
      <4>4. p = m => T.map[p].ref = S.map[m].ref - 1 /\ T.map[p].ref # 0
        BY <2>r, <2>n, <1>m, <1>2
      <4> QED
        BY <4>1, <4>2, <4>3, <4>4
    <3> HIDE DEF q
    <3> QED
      BY <3>1, <3>2, <3>3
  <2>4. ASSUME NEW i \in Levels, NEW k \in MapIds
        PROVE  /\ T.tab[i][k].ref = 0 => T.tab[i][k] = FreeTab
               /\ T.tab[i][k].empty => NoEntries(T.tab[i][k].ents)
    <3>1. S.tab[i][k].ref \in Nat /\ (S.tab[i][k].ref = 0 => S.tab[i][k] = FreeTab)
          /\ (S.tab[i][k].empty => NoEntries(S.tab[i][k].ents))
      BY <1>t, <1>s, TabFields DEF Typed, Marked
    <3> QED
      BY <3>1, <2>u
  <2>5. Sound(T)
    <3>1. T.at \in [Edges -> MapIds \cup {NoMap}]
      BY <2>0, <2>n, <1>s
    <3>2. /\ T.map = [p \in MapIds |-> T.map[p]]
          /\ T.tab = [i \in Levels |-> [k \in MapIds |-> T.tab[i][k]]]
      BY <2>0
    <3>3. \A p \in MapIds : SoundMap(T, p)
      BY <2>r, <2>1, <2>3 DEF SoundMap
    <3>4. \A i \in Levels, k \in MapIds : SoundTab(T, i, k)
      BY <2>u, <2>2, <2>4 DEF SoundTab
    <3> QED
      BY <3>1, <3>2, <3>3, <3>4, <2>0, SoundIf
  <2>7. T.at[e] # NoMap /\ Of(T, e).ref = 1 /\ Of(T, e).tabs = Of(S, e).tabs
    <3>1. T.at[e] = n /\ n # NoMap
      BY <2>0, <2>n, MapIdsFinite
    <3> QED
      BY <3>1, <2>e, <2>n, <2>r DEF Of
  <2>8. ASSUME NEW f \in Edges
        PROVE  Agree(S, T, f)
    <3>1. T.at[f] = NoMap <=> S.at[f] = NoMap
      BY <2>0, <2>n, <1>m, MapIdsFinite
    <3>2. ASSUME S.at[f] # NoMap
          PROVE  /\ Of(T, f).depth = Of(S, f).depth /\ Of(T, f).aoc = Of(S, f).aoc
                 /\ Of(T, f).na = Of(S, f).na /\ Of(T, f).ue = Of(S, f).ue
                 /\ Of(T, f).tabs = Of(S, f).tabs /\ Of(S, f) \in MapType
      <4>1. S.at[f] \in MapIds /\ S.at[f] # n
        BY <3>2, <2>n, <1>s DEF Holders
      <4>2. T.at[f] = IF f = e THEN n ELSE S.at[f]
        BY <2>0
      <4>3. S.map[S.at[f]] \in MapType
        BY <4>1, <1>s
      <4>4. CASE f = e
        BY <4>1, <4>2, <4>3, <4>4, <2>e, <2>r, <2>n DEF Of
      <4>5. CASE f # e
        BY <4>1, <4>2, <4>3, <4>5, <2>r DEF Of
      <4> QED
        BY <4>4, <4>5
    <3>3. ASSUME S.at[f] # NoMap, NEW i \in Levels
          PROVE  Ents(T, f, i) = Ents(S, f, i)
      <4>1. Of(S, f).tabs[i] \in MapIds \cup {NoTab}
        BY <3>2, <3>3, MapFields
      <4> QED
        BY <4>1, <3>2, <3>3, <2>u DEF Ents, Entries
    <3> QED
      BY <3>1, <3>2, <3>3 DEF Agree
  <2> QED
    BY <2>5, <2>7, <2>8 DEF T
<1> QED
  BY <1>1, <1>2

(* Map m gets other tables, or writes to those it has.                     *)
Kept(S, T, i, k) ==
    /\ \A j \in MapIds : j # k => T.tab[i][j] = S.tab[i][j]
    /\ k # NoTab =>
         /\ T.tab[i][k] \in TabType /\ T.tab[i][k].ref = S.tab[i][k].ref
         /\ T.tab[i][k].empty => NoEntries(T.tab[i][k].ents)
         /\ T.tab[i][k].ents = S.tab[i][k].ents \/ S.tab[i][k].ref = 1
Replaced(S, T, i, old, new) ==
    /\ old # new
    /\ new # NoTab =>
         /\ S.tab[i][new].ref = 0
         /\ T.tab[i][new] \in TabType /\ T.tab[i][new].ref = 1
         /\ T.tab[i][new].empty => NoEntries(T.tab[i][new].ents)
    /\ old # NoTab => T.tab[i][old] = Dropped(S.tab[i][old])
    /\ \A j \in MapIds : j # old /\ j # new => T.tab[i][j] = S.tab[i][j]
Retabled(S, T, m) ==
    /\ T = [map |-> T.map, tab |-> T.tab, at |-> T.at] /\ T.at = S.at
    /\ T.map = [p \in MapIds |-> IF p = m THEN T.map[m] ELSE S.map[p]]
    /\ T.tab = [i \in Levels |-> [k \in MapIds |-> T.tab[i][k]]]
    /\ T.map[m] \in MapType /\ T.map[m].ref = S.map[m].ref
    /\ \A i \in Levels \ {0} : T.map[m].tabs[i] # NoTab <=> i <= T.map[m].depth
    /\ T.map[m].na \subseteq (0..T.map[m].depth) \X Slots
    /\ T.map[m].ue \subseteq (0..T.map[m].depth) \X Slots
    /\ \A i \in Levels : \/ /\ T.map[m].tabs[i] = S.map[m].tabs[i]
                            /\ Kept(S, T, i, S.map[m].tabs[i])
                         \/ Replaced(S, T, i, S.map[m].tabs[i], T.map[m].tabs[i])

(* A reference to a table is given up: it stays what it was, or is freed.  *)
LEMMA DroppedFields ==
    ASSUME NEW M \in TabType, M.ref >= 1
    PROVE  /\ Dropped(M) \in TabType /\ Dropped(M).ref = M.ref - 1
           /\ M.ref = 1 => Dropped(M) = FreeTab
           /\ M.ref # 1 => Dropped(M).ents = M.ents /\ Dropped(M).empty = M.empty
           /\ Dropped(M).ref = 0 => Dropped(M) = FreeTab
<1>1. CASE M.ref = 1
  BY <1>1, FreeFields DEF Dropped
<1>2. CASE M.ref # 1
  <2>1. Dropped(M) = [M EXCEPT !.ref = M.ref - 1]
    BY <1>2 DEF Dropped
  <2>2. M.ref - 1 \in 0..Cardinality(Edges) /\ M.ref - 1 # 0
    BY <1>2, TabFields, MapIdsFinite
  <2> QED
    BY <1>2, <2>1, <2>2, TabRef
<1> QED
  BY <1>1, <1>2

(* A store stays sound when a map, which one edge holds, points to other   *)
(* tables, as long as the counts of old and new ones follow; no edge that  *)
(* does not hold the map sees a difference.                                *)
LEMMA RetabledSound ==
    ASSUME NEW S, Sound(S), NEW T, NEW m \in MapIds, S.map[m].ref # 0, Retabled(S, T, m)
    PROVE  /\ Sound(T)
           /\ \A f \in Edges : S.at[f] # m => Agree(S, T, f)
<1>s. /\ S.map \in [MapIds -> MapType] /\ S.tab \in [Levels -> [MapIds -> TabType]]
      /\ S.at \in [Edges -> MapIds \cup {NoMap}]
      /\ \A p \in MapIds : SoundMap(S, p)
      /\ \A i \in Levels, k \in MapIds : SoundTab(S, i, k) /\ S.tab[i][k] \in TabType
  BY SoundFields
<1>t. /\ T = [map |-> T.map, tab |-> T.tab, at |-> T.at] /\ T.at = S.at
      /\ T.map = [p \in MapIds |-> IF p = m THEN T.map[m] ELSE S.map[p]]
      /\ T.tab = [i \in Levels |-> [k \in MapIds |-> T.tab[i][k]]]
  BY DEF Retabled
<1>f. T.map[m].tabs \in [Levels -> MapIds \cup {NoTab}] /\ S.map[m].tabs \in [Levels -> MapIds \cup {NoTab}]
  BY <1>s, MapFields DEF Retabled
<1>1. ASSUME NEW p \in MapIds
      PROVE  SoundMap(T, p)
  <2>1. Holders(T, p) = Holders(S, p)
    BY <1>t DEF Holders
  <2>2. CASE p = m
    BY <1>s, <2>1, <2>2 DEF SoundMap, Retabled
  <2>3. CASE p # m
    BY <1>s, <1>t, <2>1, <2>3 DEF SoundMap
  <2> QED
    BY <2>2, <2>3
<1>2. ASSUME NEW i \in Levels, NEW k \in MapIds
      PROVE  SoundTab(T, i, k)
  <2> DEFINE old == S.map[m].tabs[i]
             new == T.map[m].tabs[i]
  <2>u. \A p \in MapIds : T.map[p].tabs[i] = IF p = m THEN new ELSE S.map[p].tabs[i]
    BY <1>t
  <2>o. old \in MapIds \cup {NoTab} /\ new \in MapIds \cup {NoTab}
    BY <1>f
  <2>s. /\ S.tab[i][k] \in TabType /\ S.tab[i][k].ref = Cardinality(Users(S, i, k))
        /\ S.tab[i][k].ref = 0 => S.tab[i][k] = FreeTab
        /\ S.tab[i][k].empty => NoEntries(S.tab[i][k].ents)
    BY <1>s DEF SoundTab
  <2>m. \A p \in MapIds : p = m => S.map[p].tabs[i] = old
    OBVIOUS
  <2>c. \/ new = old /\ Kept(S, T, i, old)
        \/ Replaced(S, T, i, old, new)
    BY DEF Retabled
  <2> HIDE DEF old, new
  <2>1. CASE new = old /\ Kept(S, T, i, old)
    <3>1. Users(T, i, k) = Users(S, i, k)
      BY <2>u, <2>m, <2>1 DEF Users
    <3>2. CASE k = old
      <4>1. /\ T.tab[i][k] \in TabType /\ T.tab[i][k].ref = S.tab[i][k].ref
            /\ T.tab[i][k].empty => NoEntries(T.tab[i][k].ents)
        BY <2>1, <3>2, MapIdsFinite DEF Kept
      <4>2. m \in Users(S, i, k)
        BY <2>m, <3>2 DEF Users
      <4>3. S.tab[i][k].ref # 0
        BY <4>2, <2>s, UserCount, FS_EmptySet
      <4> QED
        BY <4>1, <4>3, <3>1, <2>s DEF SoundTab
    <3>3. CASE k # old
      <4>1. T.tab[i][k] = S.tab[i][k]
        BY <2>1, <3>3 DEF Kept
      <4> QED
        BY <4>1, <3>1, <2>s DEF SoundTab
    <3> QED
      BY <3>2, <3>3
  <2>2. CASE Replaced(S, T, i, old, new)
    <3>1. CASE k = new
      <4>1. S.tab[i][k].ref = 0 /\ T.tab[i][k].ref = 1 /\ T.tab[i][k] \in TabType
            /\ (T.tab[i][k].empty => NoEntries(T.tab[i][k].ents))
        BY <2>2, <3>1, MapIdsFinite DEF Replaced
      <4>2. Users(S, i, k) = {}
        BY <4>1, <2>s, UserCount, FS_EmptySet
      <4>3. Users(T, i, k) = {m}
        BY <4>2, <2>u, <3>1 DEF Users
      <4>4. Cardinality(Users(T, i, k)) = 1
        BY <4>3, FS_Singleton
      <4> QED
        BY <4>1, <4>4 DEF SoundTab
    <3>2. CASE k = old
      <4>1. T.tab[i][k] = Dropped(S.tab[i][k]) /\ new # old
        BY <2>2, <3>2, MapIdsFinite DEF Replaced
      <4>2. Users(T, i, k) = Users(S, i, k) \ {m} /\ m \in Users(S, i, k)
        BY <4>1, <2>u, <2>m, <3>2 DEF Users
      <4>3. Cardinality(Users(S, i, k) \ {m}) = Cardinality(Users(S, i, k)) - 1
        BY <4>2, FS_RemoveElement, UserCount
      <4>4. Cardinality(Users(S, i, k)) >= 1
        BY <4>2, UserCount, FS_EmptySet
      <4> QED
        BY <4>1, <4>2, <4>3, <4>4, <2>s, DroppedFields, FreeFields DEF SoundTab
    <3>3. CASE k # new /\ k # old
      <4>1. Users(T, i, k) = Users(S, i, k)
        BY <2>u, <2>m, <3>3 DEF Users
      <4>2. T.tab[i][k] = S.tab[i][k]
        BY <2>2, <3>3 DEF Replaced
      <4> QED
        BY <4>1, <4>2, <2>s DEF SoundTab
    <3> QED
      BY <3>1, <3>2, <3>3
  <2> QED
    BY <2>c, <2>1, <2>2
<1>3. Sound(T)
  <2>1. T.map = [p \in MapIds |-> T.map[p]]
    BY <1>t
  <2> QED
    BY <1>1, <1>2, <1>s, <1>t, <2>1, SoundIf
<1>4. ASSUME NEW f \in Edges, S.at[f] # m
      PROVE  Agree(S, T, f)
  <2>1. CASE S.at[f] = NoMap
    BY <2>1, <1>t DEF Agree
  <2>2. CASE S.at[f] # NoMap
    <3> DEFINE p == S.at[f]
    <3>1. p \in MapIds /\ p # m /\ Of(T, f) = S.map[p] /\ Of(S, f) = S.map[p]
      BY <1>4, <2>2, <1>s, <1>t DEF Of
    <3>2. ASSUME NEW i \in Levels
          PROVE  Ents(T, f, i) = Ents(S, f, i)
      <4> DEFINE k == S.map[p].tabs[i]
                 old == S.map[m].tabs[i]
                 new == T.map[m].tabs[i]
      <4>1. k \in MapIds \cup {NoTab} /\ Ents(T, f, i) = Entries(T, i, k)
            /\ Ents(S, f, i) = Entries(S, i, k)
        BY <3>1, <1>s, MapFields DEF Ents
      <4>2. CASE k = NoTab
        BY <4>1, <4>2 DEF Entries
      <4>3. CASE k # NoTab
        <5>1. p \in Users(S, i, k) /\ S.tab[i][k].ref = Cardinality(Users(S, i, k)) /\ k \in MapIds
          BY <3>1, <4>1, <4>3, <1>s DEF Users, SoundTab
        <5>2. S.tab[i][k].ref # 0 /\ S.tab[i][k].ref \in Nat
          BY <5>1, UserCount, FS_EmptySet
        <5>3. k = old => S.tab[i][k].ref # 1
          <6>1. SUFFICES ASSUME k = old, Cardinality(Users(S, i, k)) = 1
                         PROVE  FALSE
            BY <5>1
          <6>2. m \in Users(S, i, k)
            BY <6>1 DEF Users
          <6>3. PICK x : Users(S, i, k) = {x}
            BY <6>1, UserCount, FS_Singleton
          <6> HIDE DEF k, p
          <6> QED
            BY <6>2, <6>3, <5>1, <3>1
        <5>4. \/ new = old /\ Kept(S, T, i, old)
              \/ Replaced(S, T, i, old, new)
          BY DEF Retabled
        <5> HIDE DEF k, p, old, new
        <5>5. T.tab[i][k].ents = S.tab[i][k].ents
          <6>1. CASE new = old /\ Kept(S, T, i, old)
            BY <6>1, <5>1, <5>3, <4>3 DEF Kept
          <6>2. CASE Replaced(S, T, i, old, new)
            <7>1. k # new
              BY <6>2, <5>2, <4>3 DEF Replaced
            <7>2. k # old => T.tab[i][k] = S.tab[i][k]
              BY <6>2, <7>1, <5>1 DEF Replaced
            <7>3. k = old => T.tab[i][k] = Dropped(S.tab[i][k])
              BY <6>2, <4>3 DEF Replaced
            <7>4. S.tab[i][k] \in TabType /\ S.tab[i][k].ref >= 1
              BY <5>1, <5>2, <1>s
            <7> QED
              BY <7>2, <7>3, <7>4, <5>3, DroppedFields
          <6> QED
            BY <5>4, <6>1, <6>2
        <5> QED
          BY <5>5, <4>1, <4>3 DEF Entries
      <4> QED
        BY <4>2, <4>3
    <3> QED
      BY <3>1, <3>2, <1>t DEF Agree
  <2> QED
    BY <2>1, <2>2
<1> QED
  BY <1>3, <1>4

(* A map that points to other tables is otherwise the same.                *)
LEMMA MapTabs ==
    ASSUME NEW M \in MapType, NEW t \in [Levels -> MapIds \cup {NoTab}]
    PROVE  LET R == [M EXCEPT !.tabs = t] IN
           /\ R \in MapType /\ R.ref = M.ref /\ R.depth = M.depth /\ R.tabs = t
           /\ R.aoc = M.aoc /\ R.na = M.na /\ R.ue = M.ue
  BY DEF MapType

(* The private copy of a table, marked empty only if it is.                *)
LEMMA TabCopy ==
    ASSUME NEW M \in TabType
    PROVE  LET R == [M EXCEPT !.ref = 1, !.empty = NoEntries(M.ents)] IN
           /\ R \in TabType /\ R.ref = 1 /\ R.ents = M.ents
           /\ R.empty => NoEntries(R.ents)
<1> DEFINE b == NoEntries(M.ents)
            N == [M EXCEPT !.ref = 1]
<1>1. [M EXCEPT !.ref = 1, !.empty = b] = [N EXCEPT !.empty = b]
  BY DEF TabType
<1>2. N \in TabType /\ N.ref = 1 /\ N.ents = M.ents
  BY MapIdsFinite, TabRef
<1>b. b \in BOOLEAN
  BY DEF NoEntries
<1> HIDE DEF N, b
<1>3. LET R == [N EXCEPT !.empty = b]
      IN  R \in TabType /\ R.ref = N.ref /\ R.empty = b /\ R.ents = N.ents
  BY <1>2, <1>b DEF TabType
<1>4. LET R == [N EXCEPT !.empty = b]
      IN  R \in TabType /\ R.ref = 1 /\ R.ents = M.ents /\ (R.empty => b)
  BY <1>2, <1>3
<1>5. b => NoEntries(M.ents)
  BY DEF b
<1> QED
  BY <1>1, <1>4, <1>5 DEF b

(* Tables that are made private read as before.                            *)
LEMMA StoreMapSound ==
    ASSUME NEW S, Sound(S), NEW e \in Edges, S.at[e] # NoMap, Of(S, e).ref = 1,
           NEW I, I \subseteq 0..Of(S, e).depth
    PROVE  LET T == getWritableStoreMap(S, e, I) IN
           /\ Sound(T) /\ T.at = S.at /\ Of(T, e).ref = 1
           /\ \A i \in I : /\ Of(T, e).tabs[i] \in MapIds
                           /\ T.tab[i][Of(T, e).tabs[i]].ref = 1
           /\ \A f \in Edges : Agree(S, T, f)
<1> DEFINE T == getWritableStoreMap(S, e, I)
           m == S.at[e]
           tabs == S.map[m].tabs
           shared == {i \in I : tabs[i] = NoTab \/ S.tab[i][tabs[i]].ref # 1}
           copy(i) == IF tabs[i] = NoTab THEN NewTable
                      ELSE [S.tab[i][tabs[i]] EXCEPT !.ref = 1,
                                                     !.empty = NoEntries(S.tab[i][tabs[i]].ents)]
           newtabs == [i \in Levels |-> IF i \in shared THEN NewTab(S, i) ELSE tabs[i]]
<1>s. /\ S = [map |-> S.map, tab |-> S.tab, at |-> S.at]
      /\ S.map \in [MapIds -> MapType] /\ S.tab \in [Levels -> [MapIds -> TabType]]
      /\ S.at \in [Edges -> MapIds \cup {NoMap}]
      /\ \A p \in MapIds : SoundMap(S, p)
      /\ \A i \in Levels, k \in MapIds : SoundTab(S, i, k) /\ S.tab[i][k] \in TabType
                                         /\ S.tab[i][k].ref \in Nat
  BY SoundFields
<1>m. /\ m \in MapIds /\ Of(S, e) = S.map[m] /\ S.map[m] \in MapType /\ S.map[m].ref = 1
      /\ tabs \in [Levels -> MapIds \cup {NoTab}]
      /\ \A f \in Edges : S.at[f] = m => f = e
  <2>1. m \in MapIds /\ \A f \in Edges : S.at[f] = m => f = e
    BY InUse
  <2> QED
    BY <2>1, <1>s, MapFields DEF Of
<1>d. I \subseteq Levels /\ \A i \in I \ {0} : tabs[i] # NoTab
  <2>1. S.map[m].depth \in Nat /\ S.map[m].depth <= MaxDepth
    BY <1>m, MapFields, CowAssumption DEF Levels
  <2>2. I \subseteq Levels /\ \A i \in I : i <= S.map[m].depth
    BY <1>m, <2>1, CowAssumption DEF Levels
  <2> QED
    BY <2>2, <1>m, <1>s DEF SoundMap
<1>n. \A i \in shared : NewTab(S, i) \in MapIds /\ S.tab[i][NewTab(S, i)] = FreeTab
                        /\ NewTab(S, i) # tabs[i]
  <2> SUFFICES ASSUME NEW i \in shared
               PROVE  NewTab(S, i) \in MapIds /\ S.tab[i][NewTab(S, i)] = FreeTab
                      /\ NewTab(S, i) # tabs[i]
    OBVIOUS
  <2>1. i \in Levels /\ (tabs[i] = NoTab \/ S.tab[i][tabs[i]].ref # 1)
    BY <1>d
  <2>2. NewTab(S, i) \in MapIds /\ S.tab[i][NewTab(S, i)] = FreeTab /\ Users(S, i, NewTab(S, i)) = {}
    BY <2>1, <1>m, NewTabFree DEF Sound
  <2> QED
    BY <2>2, <1>m DEF Users
<1>c. \A i \in shared : copy(i) \in TabType /\ copy(i).ref = 1
                        /\ (copy(i).empty => NoEntries(copy(i).ents))
                        /\ copy(i).ents = Entries(S, i, tabs[i])
  <2> SUFFICES ASSUME NEW i \in shared
               PROVE  copy(i) \in TabType /\ copy(i).ref = 1
                      /\ (copy(i).empty => NoEntries(copy(i).ents))
                      /\ copy(i).ents = Entries(S, i, tabs[i])
    OBVIOUS
  <2>1. CASE tabs[i] = NoTab
    BY <2>1, FreeFields DEF Entries
  <2>2. CASE tabs[i] # NoTab
    <3>1. S.tab[i][tabs[i]] \in TabType
      BY <2>2, <1>d, <1>m, <1>s
    <3>3. copy(i) = [S.tab[i][tabs[i]] EXCEPT !.ref = 1, !.empty = NoEntries(S.tab[i][tabs[i]].ents)]
      BY <2>2
    <3>4. Entries(S, i, tabs[i]) = S.tab[i][tabs[i]].ents
      BY <2>2 DEF Entries
    <3> HIDE DEF tabs, copy
    <3> QED
      BY <3>1, <3>3, <3>4, TabCopy
  <2> QED
    BY <2>1, <2>2
<1>1. /\ T = [map |-> T.map, tab |-> T.tab, at |-> S.at]
      /\ T.map = [p \in MapIds |-> IF p = m THEN [S.map[m] EXCEPT !.tabs = newtabs] ELSE S.map[p]]
      /\ T.tab = [i \in Levels |-> [k \in MapIds |->
                    IF i \in shared /\ k = NewTab(S, i) THEN copy(i)
                    ELSE IF i \in shared /\ k = tabs[i] THEN Dropped(S.tab[i][k])
                    ELSE S.tab[i][k]]]
  <2>1. T = [S EXCEPT !.map[m].tabs = newtabs, !.tab = T.tab]
    BY <1>m, <1>s DEF getWritableStoreMap, Of
  <2>2. T.tab = [i \in Levels |-> [k \in MapIds |->
                    IF i \in shared /\ k = NewTab(S, i) THEN copy(i)
                    ELSE IF i \in shared /\ k = tabs[i] THEN Dropped(S.tab[i][k])
                    ELSE S.tab[i][k]]]
    BY <1>s DEF getWritableStoreMap, Of
  <2> HIDE DEF T, newtabs
  <2> QED
    BY <2>1, <2>2, <1>s, <1>m
<1>e. m = S.at[e] /\ tabs = S.map[m].tabs
  OBVIOUS
<1>h. /\ shared \subseteq I
      /\ \A i \in I : i \notin shared => tabs[i] # NoTab /\ S.tab[i][tabs[i]].ref = 1
      /\ \A i \in shared : tabs[i] = NoTab \/ S.tab[i][tabs[i]].ref # 1
  OBVIOUS
<1>w. /\ newtabs \in [Levels -> MapIds \cup {NoTab}]
      /\ \A i \in Levels : newtabs[i] = IF i \in shared THEN NewTab(S, i) ELSE tabs[i]
  BY <1>m, <1>n
<1> HIDE DEF T, m, shared, copy, newtabs, tabs
<1>2. T.map[m] \in MapType /\ T.map[m].ref = S.map[m].ref /\ T.map[m].depth = S.map[m].depth
      /\ T.map[m].tabs = newtabs /\ T.map[m].aoc = S.map[m].aoc /\ T.map[m].na = S.map[m].na
      /\ T.map[m].ue = S.map[m].ue
  <2>1. T.map[m] = [S.map[m] EXCEPT !.tabs = newtabs]
    BY <1>1, <1>m
  <2> QED
    BY <2>1, <1>m, <1>w, MapTabs
<1>t. \A i \in Levels, k \in MapIds :
        T.tab[i][k] = IF i \in shared /\ k = NewTab(S, i) THEN copy(i)
                      ELSE IF i \in shared /\ k = tabs[i] THEN Dropped(S.tab[i][k])
                      ELSE S.tab[i][k]
  BY <1>1
<1>3. Retabled(S, T, m)
  <2>1. ASSUME NEW i \in Levels \ {0}
        PROVE  T.map[m].tabs[i] # NoTab <=> i <= T.map[m].depth
    <3>1. newtabs[i] = NoTab <=> tabs[i] = NoTab
      BY <1>w, <1>n, <1>d, <1>h, MapIdsFinite
    <3>2. tabs[i] # NoTab <=> i <= S.map[m].depth
      BY <1>s, <1>m, <1>e DEF SoundMap
    <3> QED
      BY <3>1, <3>2, <1>2
  <2>2. ASSUME NEW i \in Levels, i \notin shared
        PROVE  T.map[m].tabs[i] = tabs[i] /\ Kept(S, T, i, tabs[i])
    <3>1. \A k \in MapIds : T.tab[i][k] = S.tab[i][k]
      BY <2>2, <1>t
    <3>2. T.map[m].tabs[i] = tabs[i] /\ tabs[i] \in MapIds \cup {NoTab}
      BY <2>2, <1>2, <1>w, <1>m
    <3> QED
      BY <3>1, <3>2, <1>s DEF Kept, SoundTab
  <2>3. ASSUME NEW i \in Levels, i \in shared
        PROVE  Replaced(S, T, i, tabs[i], T.map[m].tabs[i])
    <3>1. T.map[m].tabs[i] = NewTab(S, i)
      BY <2>3, <1>2, <1>w
    <3>2. T.tab[i][NewTab(S, i)] = copy(i)
      BY <2>3, <1>n, <1>t
    <3>3. tabs[i] # NoTab => T.tab[i][tabs[i]] = Dropped(S.tab[i][tabs[i]])
      BY <2>3, <1>n, <1>t, <1>m
    <3>4. \A k \in MapIds : k # tabs[i] /\ k # NewTab(S, i) => T.tab[i][k] = S.tab[i][k]
      BY <1>t
    <3> QED
      BY <2>3, <3>1, <3>2, <3>3, <3>4, <1>n, <1>c, FreeFields DEF Replaced
  <2>4. /\ T.map = [p \in MapIds |-> IF p = m THEN T.map[m] ELSE S.map[p]]
        /\ T.tab = [i \in Levels |-> [k \in MapIds |-> T.tab[i][k]]]
    BY <1>1
  <2>5. /\ T.map[m].na \subseteq (0..T.map[m].depth) \X Slots
        /\ T.map[m].ue \subseteq (0..T.map[m].depth) \X Slots
    BY <1>s, <1>m, <1>2 DEF SoundMap
  <2>6. T = [map |-> T.map, tab |-> T.tab, at |-> T.at] /\ T.at = S.at
    BY <1>1
  <2> QED
    BY <2>1, <2>2, <2>3, <2>4, <2>5, <2>6, <1>2, <1>e DEF Retabled
<1>4. Sound(T) /\ \A f \in Edges : S.at[f] # m => Agree(S, T, f)
  BY <1>3, <1>m, RetabledSound
<1>5. T.at = S.at /\ Of(T, e) = T.map[m] /\ Of(S, e) = S.map[m]
  BY <1>1, <1>m, <1>e DEF Of
<1>6. ASSUME NEW i \in I
      PROVE  Of(T, e).tabs[i] \in MapIds /\ T.tab[i][Of(T, e).tabs[i]].ref = 1
  <2>1. i \in Levels /\ Of(T, e).tabs[i] = IF i \in shared THEN NewTab(S, i) ELSE tabs[i]
    BY <1>d, <1>5, <1>2, <1>w
  <2>2. CASE i \in shared
    BY <2>1, <2>2, <1>n, <1>t, <1>c
  <2>3. CASE i \notin shared
    <3>1. tabs[i] \in MapIds /\ S.tab[i][tabs[i]].ref = 1
      BY <2>1, <2>3, <1>h, <1>m
    <3>2. T.tab[i][tabs[i]] = S.tab[i][tabs[i]]
      BY <2>1, <2>3, <3>1, <1>t
    <3> QED
      BY <2>1, <2>3, <3>1, <3>2
  <2> QED
    BY <2>2, <2>3
<1>7. ASSUME NEW i \in Levels
      PROVE  Ents(T, e, i) = Ents(S, e, i)
  <2>1. Ents(T, e, i) = Entries(T, i, newtabs[i]) /\ Ents(S, e, i) = Entries(S, i, tabs[i])
    BY <1>5, <1>2, <1>e DEF Ents
  <2>2. CASE i \in shared
    <3>1. newtabs[i] = NewTab(S, i) /\ NewTab(S, i) \in MapIds /\ T.tab[i][NewTab(S, i)] = copy(i)
      BY <2>2, <1>w, <1>n, <1>t
    <3>2. Entries(T, i, newtabs[i]) = copy(i).ents
      BY <3>1, MapIdsFinite DEF Entries
    <3> QED
      BY <2>1, <2>2, <3>2, <1>c
  <2>3. CASE i \notin shared
    <3>1. newtabs[i] = tabs[i] /\ \A k \in MapIds : T.tab[i][k] = S.tab[i][k]
      BY <2>3, <1>w, <1>t
    <3> QED
      BY <2>1, <3>1, <1>m DEF Entries
  <2> QED
    BY <2>2, <2>3
<1>8. Agree(S, T, e)
  BY <1>5, <1>2, <1>7 DEF Agree
<1> QED
  BY <1>4, <1>5, <1>6, <1>8, <1>2, <1>m DEF T

(* Writing to private tables, and to the flags of a map.                   *)
Rewritten(S, T, m, I) ==
    /\ T = [map |-> T.map, tab |-> T.tab, at |-> T.at] /\ T.at = S.at
    /\ T.map = [p \in MapIds |-> IF p = m THEN T.map[m] ELSE S.map[p]]
    /\ T.tab = [i \in Levels |-> [k \in MapIds |-> T.tab[i][k]]]
    /\ T.map[m] \in MapType /\ T.map[m].ref = S.map[m].ref
    /\ T.map[m].depth = S.map[m].depth /\ T.map[m].tabs = S.map[m].tabs
    /\ T.map[m].na \subseteq (0..S.map[m].depth) \X Slots
    /\ T.map[m].ue \subseteq (0..S.map[m].depth) \X Slots
    /\ \A i \in Levels, k \in MapIds :
         \/ T.tab[i][k] = S.tab[i][k] /\ (i \notin I \/ k # S.map[m].tabs[i])
         \/ /\ i \in I /\ k = S.map[m].tabs[i]
            /\ S.tab[i][k].ref = 1 /\ T.tab[i][k].ref = 1
            /\ T.tab[i][k] \in TabType
            /\ T.tab[i][k].empty => NoEntries(T.tab[i][k].ents)

(* Tables that one map alone points to are rewritten in place: the store   *)
(* stays sound, and no edge that does not hold that map sees a             *)
(* difference.                                                             *)
LEMMA RewrittenSound ==
    ASSUME NEW S, Sound(S), NEW e \in Edges, Has(S, e), NEW T, NEW I,
           Rewritten(S, T, S.at[e], I)
    PROVE  /\ Sound(T) /\ T.at = S.at /\ Has(T, e)
           /\ Of(T, e) = T.map[S.at[e]]
           /\ \A f \in Edges : S.at[f] # S.at[e] => Agree(S, T, f)
           /\ \A i \in Levels : i \notin I => Ents(T, e, i) = Ents(S, e, i)
<1> DEFINE m == S.at[e]
<1>s. /\ S.map \in [MapIds -> MapType] /\ S.tab \in [Levels -> [MapIds -> TabType]]
      /\ S.at \in [Edges -> MapIds \cup {NoMap}]
      /\ \A p \in MapIds : SoundMap(S, p)
      /\ \A i \in Levels, k \in MapIds : SoundTab(S, i, k) /\ S.tab[i][k] \in TabType
  BY SoundFields
<1>m. m \in MapIds /\ S.map[m].ref # 0 /\ S.map[m].tabs \in [Levels -> MapIds \cup {NoTab}]
      /\ Of(S, e) = S.map[m]
  <2>1. m \in MapIds /\ Of(S, e).ref >= 1
    BY InUse DEF Has
  <2> QED
    BY <2>1, <1>s, MapFields DEF Of
<1>e. m = S.at[e] /\ S.at[e] # NoMap
  BY DEF Has
<1> HIDE DEF m
<1>t. /\ T = [map |-> T.map, tab |-> T.tab, at |-> T.at] /\ T.at = S.at
      /\ T.map = [p \in MapIds |-> IF p = m THEN T.map[m] ELSE S.map[p]]
      /\ T.tab = [i \in Levels |-> [k \in MapIds |-> T.tab[i][k]]]
      /\ T.map[m] \in MapType /\ T.map[m].ref = S.map[m].ref
      /\ T.map[m].depth = S.map[m].depth /\ T.map[m].tabs = S.map[m].tabs
      /\ T.map[m].na \subseteq (0..S.map[m].depth) \X Slots
      /\ T.map[m].ue \subseteq (0..S.map[m].depth) \X Slots
  BY <1>e DEF Rewritten
<1>k. \A i \in Levels, k \in MapIds :
         \/ T.tab[i][k] = S.tab[i][k] /\ (i \notin I \/ k # S.map[m].tabs[i])
         \/ /\ i \in I /\ k = S.map[m].tabs[i]
            /\ S.tab[i][k].ref = 1 /\ T.tab[i][k].ref = 1
            /\ T.tab[i][k] \in TabType
            /\ T.tab[i][k].empty => NoEntries(T.tab[i][k].ents)
  BY <1>e DEF Rewritten
<1>1. ASSUME NEW i \in Levels
      PROVE  Kept(S, T, i, S.map[m].tabs[i])
  <2> DEFINE k == S.map[m].tabs[i]
  <2>1. \A j \in MapIds : j # k => T.tab[i][j] = S.tab[i][j]
    BY <1>k
  <2>2. ASSUME k # NoTab
        PROVE  /\ T.tab[i][k] \in TabType /\ T.tab[i][k].ref = S.tab[i][k].ref
               /\ T.tab[i][k].empty => NoEntries(T.tab[i][k].ents)
               /\ T.tab[i][k].ents = S.tab[i][k].ents \/ S.tab[i][k].ref = 1
    <3>1. k \in MapIds
      BY <2>2, <1>m
    <3>2. SoundTab(S, i, k) /\ S.tab[i][k] \in TabType
      BY <3>1, <1>s
    <3>3. \/ T.tab[i][k] = S.tab[i][k]
          \/ /\ S.tab[i][k].ref = 1 /\ T.tab[i][k].ref = 1
             /\ T.tab[i][k] \in TabType
             /\ T.tab[i][k].empty => NoEntries(T.tab[i][k].ents)
      BY <3>1, <1>k
    <3> HIDE DEF k
    <3> QED
      BY <3>2, <3>3 DEF SoundTab
  <2> QED
    BY <2>1, <2>2 DEF Kept
<1>2. Retabled(S, T, m)
  <2>1. \A i \in Levels \ {0} : S.map[m].tabs[i] # NoTab <=> i <= S.map[m].depth
    BY <1>s, <1>m DEF SoundMap
  <2> QED
    BY <1>1, <1>t, <2>1 DEF Retabled
<1>3. Sound(T) /\ \A f \in Edges : S.at[f] # m => Agree(S, T, f)
  BY <1>2, <1>m, RetabledSound
<1>4. T.at = S.at /\ Of(T, e) = T.map[m]
  BY <1>t, <1>e DEF Of
<1>5. ASSUME NEW i \in Levels, i \notin I
      PROVE  Ents(T, e, i) = Ents(S, e, i)
  <2> DEFINE k == S.map[m].tabs[i]
  <2>1. Ents(T, e, i) = Entries(T, i, k) /\ Ents(S, e, i) = Entries(S, i, k)
    BY <1>4, <1>m, <1>t DEF Ents
  <2>2. k \in MapIds \cup {NoTab}
    BY <1>m
  <2>3. k \in MapIds => T.tab[i][k] = S.tab[i][k]
    BY <1>k, <1>5
  <2> HIDE DEF k
  <2> QED
    BY <2>1, <2>2, <2>3 DEF Entries
<1>6. Has(T, e)
  BY <1>4, <1>e DEF Has
<1> QED
  BY <1>3, <1>4, <1>5, <1>6, <1>e

(* Flags, and allOthersClobbered, of a map.                                *)
LEMMA FlagsSound ==
    ASSUME NEW S, Sound(S), NEW e \in Edges, Has(S, e),
           NEW R \in MapType, R.ref = Of(S, e).ref, R.depth = Of(S, e).depth,
           R.tabs = Of(S, e).tabs, R.na \subseteq Scope(S, e), R.ue \subseteq Scope(S, e),
           NEW T, T = [S EXCEPT !.map = [S.map EXCEPT ![S.at[e]] = R]]
    PROVE  /\ Sound(T) /\ Has(T, e) /\ T.at = S.at /\ T.tab = S.tab /\ Of(T, e) = R
           /\ \A f \in Edges : S.at[f] # S.at[e] => Agree(S, T, f)
           /\ \A f \in Edges : S.at[f] = S.at[e] => Of(T, f) = R
           /\ \A i \in Levels : Ents(T, e, i) = Ents(S, e, i)
<1> DEFINE m == S.at[e]
<1>s. /\ S = [map |-> S.map, tab |-> S.tab, at |-> S.at]
      /\ S.map \in [MapIds -> MapType] /\ S.tab \in [Levels -> [MapIds -> TabType]]
      /\ S.at \in [Edges -> MapIds \cup {NoMap}]
  BY SoundFields
<1>m. m \in MapIds /\ Of(S, e) = S.map[m]
  BY InUse DEF Of, Has
<1>1. /\ T = [map |-> T.map, tab |-> T.tab, at |-> T.at] /\ T.tab = S.tab /\ T.at = S.at
      /\ T.map = [S.map EXCEPT ![m] = R]
  BY <1>s
<1>e. m = S.at[e]
  OBVIOUS
<1> HIDE DEF m
<1>2. /\ T.map = [p \in MapIds |-> IF p = m THEN R ELSE S.map[p]] /\ T.map[m] = R
  BY <1>1, <1>s, <1>m
<1>3. Rewritten(S, T, m, {})
  BY <1>1, <1>2, <1>m, <1>s DEF Rewritten, Scope
<1>4. /\ Sound(T) /\ Has(T, e) /\ Of(T, e) = T.map[S.at[e]]
      /\ \A f \in Edges : S.at[f] # S.at[e] => Agree(S, T, f)
      /\ \A i \in Levels : Ents(T, e, i) = Ents(S, e, i)
  <2>1. Rewritten(S, T, S.at[e], {})
    BY <1>3, <1>e
  <2>2. Sound(T) /\ Has(T, e) /\ Of(T, e) = T.map[S.at[e]]
    BY <2>1, RewrittenSound
  <2>3. \A f \in Edges : S.at[f] # S.at[e] => Agree(S, T, f)
    BY <2>1, RewrittenSound
  <2>4. \A i \in Levels : Ents(T, e, i) = Ents(S, e, i)
    <3>1. PICK J : J = {}
      OBVIOUS
    <3>2. Rewritten(S, T, S.at[e], J)
      BY <2>1, <3>1
    <3>3. \A i \in Levels : i \notin J => Ents(T, e, i) = Ents(S, e, i)
      BY <3>2, RewrittenSound
    <3> QED
      BY <3>1, <3>3
  <2> QED
    BY <2>2, <2>3, <2>4
<1>5. \A f \in Edges : S.at[f] = S.at[e] => Of(T, f) = R
  BY <1>1, <1>2, <1>e DEF Of
<1> QED
  BY <1>1, <1>2, <1>4, <1>5, <1>e

(* Reading the same is transitive.                                         *)
LEMMA AgreeTrans ==
    ASSUME NEW S, NEW T, NEW U, NEW f, Agree(S, T, f), Agree(T, U, f)
    PROVE  Agree(S, U, f)
  BY DEF Agree

(* What an edge reads of a level is an entry, or none, for each object.    *)
LEMMA EntsType ==
    ASSUME NEW S, Sound(S), NEW e \in Edges, S.at[e] # NoMap, NEW i \in Levels
    PROVE  Ents(S, e, i) \in EntryMaps
<1> DEFINE k == Of(S, e).tabs[i]
<1>1. k \in MapIds \cup {NoTab}
  BY InUse
<1>2. CASE k = NoTab
  BY <1>2, FreeFields, TabFields DEF Ents, Entries
<1>3. CASE k # NoTab
  <2>1. S.tab[i][k] \in TabType
    BY <1>1, <1>3, SoundFields
  <2>2. Ents(S, e, i) = S.tab[i][k].ents
    BY <1>3 DEF Ents, Entries
  <2> QED
    BY <2>1, <2>2, TabFields
<1> QED
  BY <1>2, <1>3

(* The store before e writes to its tables at levels I: they are private,  *)
(* and nothing else has changed.                                           *)
Prepared(S, e, I) == getWritableStoreMap(getWritableFrameList(S, e), e, I)

(* Making private copies cannot be seen by any edge, and then the edge     *)
(* has its map and its tables at levels I to itself.                       *)
LEMMA PreparedSound ==
    ASSUME NEW S, Sound(S), NEW e \in Edges, Has(S, e), NEW I, I \subseteq 0..Of(S, e).depth
    PROVE  /\ Sound(Prepared(S, e, I)) /\ Has(Prepared(S, e, I), e) /\ Alone(Prepared(S, e, I), e)
           /\ \A f \in Edges : Agree(S, Prepared(S, e, I), f)
           /\ \A i \in I : Owns(Prepared(S, e, I), e, i)
<1> DEFINE V == getWritableFrameList(S, e)
           W == getWritableStoreMap(V, e, I)
<1>1. Sound(V) /\ V.at[e] # NoMap /\ Of(V, e).ref = 1 /\ \A f \in Edges : Agree(S, V, f)
  BY FrameListSound DEF Has
<1>2. I \subseteq 0..Of(V, e).depth
  BY <1>1 DEF Agree, Has
<1> HIDE DEF V
<1>3. /\ Sound(W) /\ W.at = V.at /\ Of(W, e).ref = 1
      /\ \A i \in I : Of(W, e).tabs[i] \in MapIds /\ W.tab[i][Of(W, e).tabs[i]].ref = 1
      /\ \A f \in Edges : Agree(V, W, f)
  BY <1>1, <1>2, StoreMapSound
<1>4. W = Prepared(S, e, I)
  BY DEF Prepared, V
<1> HIDE DEF W
<1>5. \A f \in Edges : Agree(S, W, f)
  BY <1>1, <1>3, AgreeTrans
<1>6. Has(W, e) /\ Alone(W, e) /\ \A i \in I : Owns(W, e, i)
  BY <1>1, <1>3 DEF Has, Alone, Owns, TableOf
<1> QED
  BY <1>3, <1>4, <1>5, <1>6

(* A map that one edge has to itself.                                      *)
LEMMA AloneOnly ==
    ASSUME NEW S, Sound(S), NEW e \in Edges, Has(S, e), Alone(S, e), NEW f \in Edges, f # e
    PROVE  S.at[f] # S.at[e]
  BY InUse DEF Alone, Has

(* Edge e writes tables N at levels I, and its map becomes R.              *)
Wrote(W, T, e, I, R, N) ==
    /\ I \subseteq Levels /\ \A i \in I : Owns(W, e, i)
    /\ R \in MapType /\ R.ref = 1 /\ R.depth = Of(W, e).depth /\ R.tabs = Of(W, e).tabs
    /\ R.na \subseteq Scope(W, e) /\ R.ue \subseteq Scope(W, e)
    /\ \A i \in I : N[i] \in TabType /\ N[i].ref = 1 /\ (N[i].empty => NoEntries(N[i].ents))
    /\ T = [map |-> T.map, tab |-> T.tab, at |-> T.at] /\ T.at = W.at
    /\ T.map = [p \in MapIds |-> IF p = W.at[e] THEN R ELSE W.map[p]]
    /\ T.tab = [i \in Levels |-> [k \in MapIds |-> T.tab[i][k]]]
    /\ \A i \in Levels, k \in MapIds :
         T.tab[i][k] = IF i \notin I \/ k # Of(W, e).tabs[i] THEN W.tab[i][k] ELSE N[i]

(* The edge that has them to itself may then replace its map and those     *)
(* tables: no other edge sees a difference.                                *)
LEMMA WriteSound ==
    ASSUME NEW W, Sound(W), NEW e \in Edges, Has(W, e), Alone(W, e),
           NEW I, NEW R, NEW N, NEW T, Wrote(W, T, e, I, R, N)
    PROVE  /\ Sound(T) /\ Has(T, e) /\ Of(T, e) = R
           /\ AgreeBesides(W, T, e)
           /\ \A i \in Levels : i \notin I => Ents(T, e, i) = Ents(W, e, i)
           /\ \A i \in I : Ents(T, e, i) = N[i].ents
<1> DEFINE m == W.at[e]
<1>m. m \in MapIds /\ Of(W, e) = W.map[m] /\ W.map[m].ref = 1
  BY InUse DEF Of, Has, Alone
<1>e. m = W.at[e]
  OBVIOUS
<1>r. /\ R \in MapType /\ R.ref = 1 /\ R.depth = Of(W, e).depth /\ R.tabs = Of(W, e).tabs
      /\ R.na \subseteq Scope(W, e) /\ R.ue \subseteq Scope(W, e)
      /\ \A i \in I : N[i] \in TabType /\ N[i].ref = 1 /\ (N[i].empty => NoEntries(N[i].ents))
  BY DEF Wrote
<1>t. /\ T = [map |-> T.map, tab |-> T.tab, at |-> T.at] /\ T.at = W.at
      /\ T.map = [p \in MapIds |-> IF p = W.at[e] THEN R ELSE W.map[p]]
      /\ T.tab = [i \in Levels |-> [k \in MapIds |-> T.tab[i][k]]]
      /\ \A i \in Levels, k \in MapIds :
           T.tab[i][k] = IF i \notin I \/ k # Of(W, e).tabs[i] THEN W.tab[i][k] ELSE N[i]
  BY DEF Wrote
<1>o. \A i \in I : Of(W, e).tabs[i] \in MapIds /\ W.tab[i][Of(W, e).tabs[i]].ref = 1
  BY DEF Owns, TableOf, Wrote
<1>i. I \subseteq Levels
  BY DEF Wrote
<1>1. Rewritten(W, T, W.at[e], I)
  <2>1. ASSUME NEW i \in Levels, NEW k \in MapIds
        PROVE  \/ T.tab[i][k] = W.tab[i][k] /\ (i \notin I \/ k # W.map[m].tabs[i])
               \/ /\ i \in I /\ k = W.map[m].tabs[i]
                  /\ W.tab[i][k].ref = 1 /\ T.tab[i][k].ref = 1
                  /\ T.tab[i][k] \in TabType
                  /\ T.tab[i][k].empty => NoEntries(T.tab[i][k].ents)
    <3>1. T.tab[i][k] = IF i \notin I \/ k # Of(W, e).tabs[i] THEN W.tab[i][k] ELSE N[i]
      BY <1>t
    <3> HIDE DEF m
    <3> QED
      BY <3>1, <1>o, <1>m, <1>r
  <2>2. T.map[m] = R
    BY <1>m, <1>t
  <2>3. /\ R.na \subseteq (0..W.map[m].depth) \X Slots
        /\ R.ue \subseteq (0..W.map[m].depth) \X Slots
    BY <1>r, <1>m DEF Scope
  <2>4. /\ T.map = [p \in MapIds |-> IF p = m THEN R ELSE W.map[p]]
        /\ T.tab = [i \in Levels |-> [k \in MapIds |-> T.tab[i][k]]]
    BY <1>t
  <2>5. R.ref = W.map[m].ref /\ R.depth = W.map[m].depth /\ R.tabs = W.map[m].tabs
    BY <1>m, <1>r
  <2> HIDE DEF m
  <2>6. Rewritten(W, T, m, I)
    BY <2>1, <2>2, <2>3, <2>4, <2>5, <1>r, <1>t DEF Rewritten
  <2> QED
    BY <2>6, <1>e
<1>2. /\ Sound(T) /\ Has(T, e) /\ Of(T, e) = T.map[W.at[e]]
      /\ \A f \in Edges : W.at[f] # W.at[e] => Agree(W, T, f)
      /\ \A i \in Levels : i \notin I => Ents(T, e, i) = Ents(W, e, i)
  BY <1>1, RewrittenSound
<1>3. Of(T, e) = R
  BY <1>2, <1>m, <1>t
<1>4. AgreeBesides(W, T, e)
  BY <1>2, AloneOnly DEF AgreeBesides
<1>5. ASSUME NEW i \in I
      PROVE  Ents(T, e, i) = N[i].ents
  <2>1. i \in Levels /\ R.tabs[i] \in MapIds
    BY <1>i, <1>o, <1>r
  <2>2. T.tab[i][R.tabs[i]] = N[i]
    BY <2>1, <1>t, <1>r
  <2> QED
    BY <2>1, <2>2, <1>3, MapIdsFinite DEF Ents, Entries
<1> QED
  BY <1>2, <1>3, <1>4, <1>5

(* A table that is written to, and a map whose flags change.               *)
LEMMA WithEntries ==
    ASSUME NEW M \in TabType, NEW new \in EntryMaps
    PROVE  /\ withEntries(M, new) \in TabType /\ withEntries(M, new).ref = M.ref
           /\ ~withEntries(M, new).empty
           /\ \A s \in Slots : withEntries(M, new).ents[s] = IF new[s] # None THEN new[s] ELSE M.ents[s]
<1>1. [s \in Slots |-> IF new[s] # None THEN new[s] ELSE M.ents[s]]
        \in [Slots -> (SUBSET Vals) \cup {None}]
  BY TabFields DEF EntryMaps
<1> DEFINE X == [s \in Slots |-> IF new[s] # None THEN new[s] ELSE M.ents[s]]
<1>2. withEntries(M, new) = [M EXCEPT !.empty = FALSE, !.ents = X]
  BY DEF withEntries
<1> HIDE DEF X
<1>3. X \in [Slots -> (SUBSET Vals) \cup {None}]
  BY <1>1 DEF X
<1>4. /\ withEntries(M, new) \in TabType /\ withEntries(M, new).ref = M.ref
      /\ ~withEntries(M, new).empty
      /\ withEntries(M, new).ents = X
  BY <1>2, <1>3 DEF TabType
<1> QED
  BY <1>4 DEF X

(* A map with other flags is otherwise the same.                           *)
LEMMA FlaggedFields ==
    ASSUME NEW M \in MapType, NEW na \in SUBSET (Levels \X Slots), NEW ue \in SUBSET (Levels \X Slots)
    PROVE  /\ Flagged(M, na, ue) \in MapType /\ Flagged(M, na, ue).ref = M.ref
           /\ Flagged(M, na, ue).depth = M.depth /\ Flagged(M, na, ue).tabs = M.tabs
           /\ Flagged(M, na, ue).aoc = M.aoc
           /\ Flagged(M, na, ue).na = na /\ Flagged(M, na, ue).ue = ue
  BY DEF MapType, Flagged

(* Whatever is in scope is at a level.                                     *)
LEMMA InScope ==
    ASSUME NEW S, Sound(S), NEW e \in Edges, Has(S, e)
    PROVE  /\ Of(S, e).depth \in Levels /\ 0..Of(S, e).depth \subseteq Levels
           /\ Scope(S, e) \subseteq Levels \X Slots
           /\ Of(S, e).na \subseteq Scope(S, e) /\ Of(S, e).ue \subseteq Scope(S, e)
<1>1. Of(S, e) \in MapType /\ S.at[e] \in MapIds /\ Of(S, e) = S.map[S.at[e]]
  BY InUse DEF Of, Has
<1>2. Of(S, e).depth \in Levels /\ 0..Of(S, e).depth \subseteq Levels
  BY <1>1, MapFields, CowAssumption DEF Levels
<1>3. Scope(S, e) \subseteq Levels \X Slots
  BY <1>2 DEF Scope
<1>4. SoundMap(S, S.at[e])
  BY <1>1, SoundFields
<1>5. Of(S, e).na \subseteq Scope(S, e) /\ Of(S, e).ue \subseteq Scope(S, e)
  BY <1>1, <1>4 DEF SoundMap, Scope
<1> QED
  BY <1>2, <1>3, <1>5

(* getOrCreateStoreFor gives e's objects their new values, leaves what it  *)
(* has no value for alone, and is seen by no other edge.                   *)
NewEntries == [Levels -> EntryMaps]

(* getOrCreateStoreFor over all levels: only the objects that get a value  *)
(* change, only this edge sees it, and its map is private afterwards.      *)
LEMMA CreateSound ==
    ASSUME NEW S, Sound(S), NEW e \in Edges, Has(S, e),
           NEW new \in NewEntries,
           \A i \in Levels : ~NoEntries(new[i]) => i <= Of(S, e).depth,
           NEW T, T = getOrCreateStoreFor(S, e, new)
    PROVE  /\ Sound(T) /\ Has(T, e) /\ SameMap(S, T, e) /\ AgreeBesides(S, T, e)
           /\ \A i \in Levels, s \in Slots :
                Ents(T, e, i)[s] = IF new[i][s] # None THEN new[i][s] ELSE Ents(S, e, i)[s]
           /\ Alone(S, e) => Alone(T, e)
           /\ (\E i \in Levels : ~NoEntries(new[i])) => Alone(T, e)
<1> DEFINE I == {i \in Levels : ~NoEntries(new[i])}
<1>l. \A i \in Levels : i \in I <=> ~NoEntries(new[i])
  OBVIOUS
<1>1. CASE I = {}
  <2>1. T = S
    BY <1>1 DEF getOrCreateStoreFor
  <2>2. AgreeBesides(S, S, e) /\ SameMap(S, S, e)
    BY DEF AgreeBesides, SameMap, Agree
  <2>3. \A i \in Levels, s \in Slots : new[i][s] = None
    BY <1>1, <1>l DEF NoEntries
  <2> QED
    BY <1>1, <1>l, <2>1, <2>2, <2>3
<1>2. CASE I # {}
  <2>i. I \subseteq 0..Of(S, e).depth /\ I \subseteq Levels
    BY InScope DEF Levels
  <2> DEFINE W == Prepared(S, e, I)
  <2>w. /\ Sound(W) /\ Has(W, e) /\ Alone(W, e)
        /\ \A f \in Edges : Agree(S, W, f)
        /\ \A i \in I : Owns(W, e, i)
    BY <2>i, PreparedSound
  <2>t. T = [W EXCEPT !.tab = [i \in Levels |-> [k \in MapIds |->
                IF i \notin I \/ k # Of(W, e).tabs[i] THEN W.tab[i][k]
                ELSE withEntries(W.tab[i][k], new[i])]]]
    BY <1>2 DEF getOrCreateStoreFor, Prepared
  <2> HIDE DEF I, W
  <2> DEFINE N == [i \in I |-> withEntries(TableOf(W, e, i), new[i])]
  <2>s. /\ W = [map |-> W.map, tab |-> W.tab, at |-> W.at] /\ W.map \in [MapIds -> MapType]
        /\ \A i \in Levels, k \in MapIds : W.tab[i][k] \in TabType
    BY <2>w, SoundFields
  <2>m. W.at[e] \in MapIds /\ Of(W, e) \in MapType /\ Of(W, e) = W.map[W.at[e]]
    BY <2>w, InUse DEF Of, Has
  <2>o. \A i \in I : Of(W, e).tabs[i] \in MapIds /\ TableOf(W, e, i).ref = 1
    BY <2>w DEF Owns
  <2>1. ASSUME NEW i \in I
        PROVE  /\ N[i] \in TabType /\ N[i].ref = 1 /\ ~N[i].empty
               /\ \A s \in Slots : N[i].ents[s] = IF new[i][s] # None THEN new[i][s]
                                                  ELSE TableOf(W, e, i).ents[s]
    <3>1. TableOf(W, e, i) \in TabType /\ TableOf(W, e, i).ref = 1
      BY <2>o, <2>s, <2>i DEF TableOf
    <3>2. new[i] \in EntryMaps
      BY <2>i DEF NewEntries
    <3>3. N[i] = withEntries(TableOf(W, e, i), new[i])
      OBVIOUS
    <3>4. PICK M, n : M = TableOf(W, e, i) /\ n = new[i]
      OBVIOUS
    <3> HIDE DEF N
    <3>5. M \in TabType /\ n \in EntryMaps /\ N[i] = withEntries(M, n)
      BY <3>1, <3>2, <3>3, <3>4
    <3>6. N[i] \in TabType /\ N[i].ref = 1 /\ ~N[i].empty
      BY <3>1, <3>4, <3>5, WithEntries
    <3>7. \A s \in Slots : N[i].ents[s] = IF n[s] # None THEN n[s] ELSE M.ents[s]
      BY <3>5, WithEntries
    <3> QED
      BY <3>4, <3>6, <3>7
  <2>2. /\ T = [map |-> T.map, tab |-> T.tab, at |-> T.at] /\ T.at = W.at /\ T.map = W.map
        /\ T.tab = [i \in Levels |-> [k \in MapIds |->
                IF i \notin I \/ k # Of(W, e).tabs[i] THEN W.tab[i][k]
                ELSE withEntries(W.tab[i][k], new[i])]]
    BY <2>t, <2>s
  <2>3. ASSUME NEW i \in Levels, NEW k \in MapIds
        PROVE  T.tab[i][k] = IF i \notin I \/ k # Of(W, e).tabs[i] THEN W.tab[i][k] ELSE N[i]
    <3>1. T.tab[i][k] = IF i \notin I \/ k # Of(W, e).tabs[i] THEN W.tab[i][k]
                  ELSE withEntries(W.tab[i][k], new[i])
      BY <2>2
    <3> QED
      BY <3>1 DEF TableOf
  <2>4. /\ T.map = [p \in MapIds |-> IF p = W.at[e] THEN Of(W, e) ELSE W.map[p]]
        /\ T.tab = [i \in Levels |-> [k \in MapIds |-> T.tab[i][k]]]
    BY <2>2, <2>m, <2>s
  <2>5. Of(W, e).na \subseteq Scope(W, e) /\ Of(W, e).ue \subseteq Scope(W, e) /\ Of(W, e).ref = 1
    BY <2>w, InScope DEF Alone
  <2>c. SameMap(S, W, e) /\ \A i \in Levels : Ents(W, e, i) = Ents(S, e, i)
    BY <2>w DEF Agree, Has, SameMap
  <2>a. Wrote(W, T, e, I, Of(W, e), N)
    <3>1. \A i \in I : N[i] \in TabType /\ N[i].ref = 1 /\ (N[i].empty => NoEntries(N[i].ents))
      BY <2>1
    <3> HIDE DEF N
    <3> QED
      BY <3>1, <2>i, <2>w, <2>m, <2>2, <2>3, <2>4, <2>5 DEF Wrote
  <2>6. /\ Sound(T) /\ Has(T, e) /\ Of(T, e) = Of(W, e) /\ AgreeBesides(W, T, e)
        /\ \A i \in Levels : i \notin I => Ents(T, e, i) = Ents(W, e, i)
        /\ \A i \in I : Ents(T, e, i) = N[i].ents
    <3> HIDE DEF N
    <3> QED
      BY <2>a, <2>w, WriteSound
  <2>7. ASSUME NEW i \in Levels, NEW s \in Slots
        PROVE  Ents(T, e, i)[s] = IF new[i][s] # None THEN new[i][s] ELSE Ents(S, e, i)[s]
    <3>1. CASE i \notin I
      BY <3>1, <2>6, <2>c, <1>l DEF NoEntries
    <3>2. CASE i \in I
      <4>1. Ents(T, e, i)[s] = IF new[i][s] # None THEN new[i][s] ELSE TableOf(W, e, i).ents[s]
        BY <3>2, <2>6, <2>1
      <4>2. Ents(W, e, i) = TableOf(W, e, i).ents
        BY <3>2, <2>o, MapIdsFinite DEF Ents, Entries, TableOf
      <4> QED
        BY <4>1, <4>2, <2>c
    <3> QED
      BY <3>1, <3>2
  <2>8. AgreeBesides(S, T, e)
    BY <2>6, <2>w, AgreeTrans DEF AgreeBesides
  <2>9. SameMap(S, T, e) /\ Alone(T, e)
    BY <2>6, <2>c, <2>5 DEF SameMap, Alone
  <2> QED
    BY <2>6, <2>7, <2>8, <2>9
<1> QED
  BY <1>1, <1>2

(* Giving up references: what the other edges hold stays as it is, and     *)
(* what nobody holds any more is free.                                     *)
LEMMA DropSound ==
    ASSUME NEW S, Sound(S), NEW D, D \subseteq Edges,
           NEW T, T = dropReferences(S, D)
    PROVE  /\ Sound(T)
           /\ \A f \in D : ~Has(T, f)
           /\ \A f \in Edges : f \notin D => Agree(S, T, f)
<1> DEFINE rest(m) == Cardinality({f \in D : S.at[f] = m})
           gone == {m \in MapIds : S.map[m].ref = rest(m)}
           less(i, k) == Cardinality({m \in gone : S.map[m].tabs[i] = k})
<1>s. /\ S.map \in [MapIds -> MapType] /\ S.tab \in [Levels -> [MapIds -> TabType]]
      /\ S.at \in [Edges -> MapIds \cup {NoMap}]
      /\ \A p \in MapIds : SoundMap(S, p) /\ S.map[p] \in MapType
      /\ \A i \in Levels, k \in MapIds : SoundTab(S, i, k) /\ S.tab[i][k] \in TabType
  BY SoundFields
<1>t. /\ T = [map |-> T.map, tab |-> T.tab, at |-> T.at]
      /\ T.map = [m \in MapIds |-> IF m \in gone THEN FreeMap
                                   ELSE [S.map[m] EXCEPT !.ref = S.map[m].ref - rest(m)]]
      /\ T.tab = [i \in Levels |-> [k \in MapIds |->
                    IF S.tab[i][k].ref = less(i, k) THEN FreeTab
                    ELSE [S.tab[i][k] EXCEPT !.ref = S.tab[i][k].ref - less(i, k)]]]
      /\ T.at = [f \in Edges |-> IF f \in D THEN NoMap ELSE S.at[f]]
  BY DEF dropReferences
<1>g. gone \subseteq MapIds /\ \A m \in MapIds : m \in gone <=> S.map[m].ref = rest(m)
  OBVIOUS
<1>h. ASSUME NEW m \in MapIds
      PROVE  /\ S.map[m].ref - rest(m) = Cardinality(Holders(T, m))
             /\ rest(m) \in Nat
             /\ m \in gone => Holders(T, m) = {}
  <2>1. Holders(T, m) = Holders(S, m) \ D
    BY <1>t, MapIdsFinite DEF Holders
  <2>2. {f \in D : S.at[f] = m} = Holders(S, m) \cap D
    BY DEF Holders
  <2>3. /\ Cardinality(Holders(S, m) \ D) = Cardinality(Holders(S, m)) - Cardinality(Holders(S, m) \cap D)
        /\ Cardinality(Holders(S, m) \cap D) \in Nat
    BY HolderCount, FS_Difference, FS_Intersection, FS_CardinalityType
  <2>4. S.map[m].ref = Cardinality(Holders(S, m))
    BY <1>s DEF SoundMap
  <2>5. S.map[m].ref - rest(m) = Cardinality(Holders(T, m)) /\ rest(m) \in Nat
    BY <2>1, <2>2, <2>3, <2>4
  <2>6. S.map[m].ref = rest(m) => Cardinality(Holders(T, m)) = 0
    BY <2>5, <2>4, HolderCount
  <2> QED
    BY <2>5, <2>6, HolderCount, FS_EmptySet, <1>g
<1> HIDE DEF rest, gone
<1>u. ASSUME NEW i \in Levels, NEW k \in MapIds
      PROVE  /\ S.tab[i][k].ref - less(i, k) = Cardinality(Users(T, i, k))
             /\ less(i, k) \in Nat
             /\ Users(T, i, k) = Users(S, i, k) \ gone
             /\ S.tab[i][k].ref = less(i, k) => Users(T, i, k) = {}
  <2>1. \A m \in MapIds : m \in gone => T.map[m].tabs[i] # k
    BY <1>t, FreeFields, MapIdsFinite
  <2>2. ASSUME NEW m \in MapIds, m \notin gone
        PROVE  T.map[m].tabs[i] = S.map[m].tabs[i]
    <3>1. T.map[m] = [S.map[m] EXCEPT !.ref = S.map[m].ref - rest(m)]
      BY <1>t, <2>2
    <3>2. T.map[m].tabs = S.map[m].tabs
      BY <3>1, <1>s, MapRef
    <3> QED
      BY <3>2
  <2>3. Users(T, i, k) = Users(S, i, k) \ gone
    BY <2>1, <2>2 DEF Users
  <2>4. {m \in gone : S.map[m].tabs[i] = k} = Users(S, i, k) \cap gone
    BY <1>g DEF Users
  <2>5. /\ Cardinality(Users(S, i, k) \ gone) = Cardinality(Users(S, i, k)) - Cardinality(Users(S, i, k) \cap gone)
        /\ Cardinality(Users(S, i, k) \cap gone) \in Nat
    BY UserCount, FS_Difference, FS_Intersection, FS_CardinalityType
  <2>6. S.tab[i][k].ref = Cardinality(Users(S, i, k))
    BY <1>s DEF SoundTab
  <2>7. S.tab[i][k].ref - less(i, k) = Cardinality(Users(T, i, k)) /\ less(i, k) \in Nat
    BY <2>3, <2>4, <2>5, <2>6
  <2>8. S.tab[i][k].ref = less(i, k) => Cardinality(Users(T, i, k)) = 0
    BY <2>7, <2>6, UserCount
  <2> QED
    BY <2>3, <2>7, <2>8, UserCount, FS_EmptySet
<1> HIDE DEF less
<1>1. ASSUME NEW m \in MapIds
      PROVE  SoundMap(T, m)
  <2>1. CASE m \in gone
    <3>1. T.map[m] = FreeMap
      BY <1>t, <2>1
    <3>2. Cardinality(Holders(T, m)) = 0
      BY <1>h, <2>1, FS_EmptySet
    <3>3. \A i \in Levels \ {0} : FreeMap.tabs[i] # NoTab <=> i <= 0
      BY FreeFields, CowAssumption DEF Levels
    <3> QED
      BY <3>1, <3>2, <3>3, FreeFields DEF SoundMap
  <2>2. CASE m \notin gone
    <3>1. T.map[m] = [S.map[m] EXCEPT !.ref = S.map[m].ref - rest(m)]
      BY <1>t, <2>2
    <3>2. /\ T.map[m].ref = S.map[m].ref - rest(m) /\ T.map[m].depth = S.map[m].depth
          /\ T.map[m].tabs = S.map[m].tabs /\ T.map[m].na = S.map[m].na /\ T.map[m].ue = S.map[m].ue
          /\ S.map[m].ref - rest(m) \in 0..Cardinality(Edges) => T.map[m] \in MapType
      BY <3>1, <1>s, MapRef
    <3>3. S.map[m].ref - rest(m) # 0
      <4>1. S.map[m].ref \in Nat /\ rest(m) \in Nat /\ S.map[m].ref # rest(m)
        BY <2>2, <1>g, <1>h, <1>s, MapFields
      <4> QED
        BY <4>1
    <3>4. S.map[m].ref - rest(m) = Cardinality(Holders(T, m))
      BY <1>h
    <3> QED
      BY <3>2, <3>3, <3>4, <1>s DEF SoundMap
  <2> QED
    BY <2>1, <2>2
<1>2. ASSUME NEW i \in Levels, NEW k \in MapIds
      PROVE  /\ SoundTab(T, i, k)
             /\ S.tab[i][k].ref # less(i, k) => T.tab[i][k].ents = S.tab[i][k].ents
  <2>1. CASE S.tab[i][k].ref = less(i, k)
    <3>1. T.tab[i][k] = FreeTab
      BY <1>t, <2>1
    <3>2. Cardinality(Users(T, i, k)) = 0
      BY <1>u, <2>1, FS_EmptySet
    <3> QED
      BY <2>1, <3>1, <3>2, FreeFields DEF SoundTab
  <2>2. CASE S.tab[i][k].ref # less(i, k)
    <3>1. T.tab[i][k] = [S.tab[i][k] EXCEPT !.ref = S.tab[i][k].ref - less(i, k)]
      BY <1>t, <2>2
    <3>2. /\ T.tab[i][k].ref = S.tab[i][k].ref - less(i, k)
          /\ T.tab[i][k].ents = S.tab[i][k].ents /\ T.tab[i][k].empty = S.tab[i][k].empty
          /\ S.tab[i][k].ref - less(i, k) \in 0..Cardinality(Edges) => T.tab[i][k] \in TabType
      BY <3>1, <1>s, TabRef
    <3>3. S.tab[i][k].ref - less(i, k) # 0
      <4>1. S.tab[i][k].ref \in Nat /\ less(i, k) \in Nat /\ S.tab[i][k].ref # less(i, k)
        BY <2>2, <1>u, <1>s, TabFields
      <4> QED
        BY <4>1
    <3>4. S.tab[i][k].ref - less(i, k) = Cardinality(Users(T, i, k))
      BY <1>u
    <3> QED
      BY <3>2, <3>3, <3>4, <1>s DEF SoundTab
  <2> QED
    BY <2>1, <2>2
<1>3. Sound(T)
  <2>1. T.map = [m \in MapIds |-> T.map[m]] /\ T.tab = [i \in Levels |-> [k \in MapIds |-> T.tab[i][k]]]
        /\ T = [map |-> T.map, tab |-> T.tab, at |-> T.at]
    BY <1>t
  <2>2. T.at \in [Edges -> MapIds \cup {NoMap}]
    BY <1>t, <1>s
  <2> QED
    BY <1>1, <1>2, <2>1, <2>2, SoundIf
<1>4. \A f \in D : ~Has(T, f)
  BY <1>t DEF Has
<1>5. ASSUME NEW f \in Edges, f \notin D
      PROVE  Agree(S, T, f)
  <2>1. T.at[f] = S.at[f]
    BY <1>5, <1>t
  <2>2. CASE S.at[f] = NoMap
    BY <2>1, <2>2 DEF Agree
  <2>3. CASE S.at[f] # NoMap
    <3> DEFINE m == S.at[f]
    <3>1. m \in MapIds /\ Of(S, f) = S.map[m] /\ Of(T, f) = T.map[m]
      BY <2>1, <2>3, <1>s DEF Of
    <3>2. f \in Holders(T, m)
      BY <2>1 DEF Holders
    <3>3. m \notin gone
      BY <3>1, <3>2, <1>h
    <3> HIDE DEF m
    <3>4. T.map[m] = [S.map[m] EXCEPT !.ref = S.map[m].ref - rest(m)]
      BY <3>1, <3>3, <1>t
    <3>5. /\ T.map[m].depth = S.map[m].depth /\ T.map[m].aoc = S.map[m].aoc
          /\ T.map[m].tabs = S.map[m].tabs /\ T.map[m].na = S.map[m].na /\ T.map[m].ue = S.map[m].ue
      BY <3>1, <3>4, <1>s, MapRef
    <3>6. ASSUME NEW i \in Levels
          PROVE  Ents(T, f, i) = Ents(S, f, i)
      <4> DEFINE k == S.map[m].tabs[i]
      <4>1. Ents(T, f, i) = Entries(T, i, k) /\ Ents(S, f, i) = Entries(S, i, k)
        BY <3>1, <3>5 DEF Ents
      <4>2. k \in MapIds \cup {NoTab} /\ \A p \in MapIds : p = m => S.map[p].tabs[i] = k
        BY <3>1, <1>s, MapFields
      <4> HIDE DEF k
      <4>3. CASE k = NoTab
        BY <4>1, <4>3 DEF Entries
      <4>4. CASE k \in MapIds
        <5>0. m \in Users(S, i, k)
          BY <4>2, <3>1 DEF Users
        <5>1. m \in Users(T, i, k)
          BY <5>0, <4>4, <3>3, <1>u
        <5>2. T.tab[i][k].ents = S.tab[i][k].ents
          BY <5>1, <4>4, <1>u, <1>2
        <5> QED
          BY <4>1, <4>4, <5>2, MapIdsFinite DEF Entries
      <4> QED
        BY <4>2, <4>3, <4>4
    <3> QED
      BY <2>1, <3>1, <3>5, <3>6 DEF Agree
  <2> QED
    BY <2>2, <2>3
<1> QED
  BY <1>3, <1>4, <1>5

(* A map e has to itself is cleared: all entries go.                       *)
LEMMA ClearSound ==
    ASSUME NEW S, Sound(S), NEW e \in Edges, Has(S, e), Alone(S, e), NEW T, T = clear(S, e)
    PROVE  /\ Sound(T) /\ Has(T, e) /\ Alone(T, e) /\ SameMap(S, T, e) /\ AgreeBesides(S, T, e)
           /\ \A i \in Levels : Ents(T, e, i) = FreeTab.ents
<1> DEFINE m == S.at[e]
           tabs == S.map[m].tabs
           frames == 1..S.map[m].depth
           shared == {i \in frames : S.tab[i][tabs[i]].ref # 1}
           newtabs == [i \in Levels |-> IF i = 0 THEN NoTab
                                        ELSE IF i \in shared THEN NewTab(S, i) ELSE tabs[i]]
<1>s. /\ S = [map |-> S.map, tab |-> S.tab, at |-> S.at]
      /\ S.map \in [MapIds -> MapType] /\ S.tab \in [Levels -> [MapIds -> TabType]]
      /\ S.at \in [Edges -> MapIds \cup {NoMap}]
      /\ \A p \in MapIds : SoundMap(S, p)
      /\ \A i \in Levels, k \in MapIds : SoundTab(S, i, k) /\ S.tab[i][k] \in TabType
                                         /\ S.tab[i][k].ref \in Nat
  BY SoundFields
<1>m. /\ m \in MapIds /\ Of(S, e) = S.map[m] /\ S.map[m] \in MapType /\ S.map[m].ref = 1
      /\ tabs \in [Levels -> MapIds \cup {NoTab}]
  <2>1. m \in MapIds /\ Of(S, e) = S.map[m] /\ Of(S, e).ref = 1
    BY InUse DEF Has, Alone, Of
  <2> QED
    BY <2>1, <1>s, MapFields
<1>d. /\ frames \subseteq Levels \ {0}
      /\ \A i \in Levels \ {0} : tabs[i] # NoTab <=> i \in frames
  <2>1. S.map[m].depth \in Nat /\ S.map[m].depth <= MaxDepth
    BY <1>m, MapFields, CowAssumption DEF Levels
  <2>2. frames \subseteq Levels \ {0}
    BY <2>1, CowAssumption DEF Levels
  <2>3. \A i \in Levels \ {0} : i <= S.map[m].depth <=> i \in frames
    BY <2>1, CowAssumption DEF Levels
  <2> QED
    BY <2>2, <2>3, <1>m, <1>s DEF SoundMap
<1>h. \A i \in Levels : i \in shared <=> i \in frames /\ S.tab[i][tabs[i]].ref # 1
  OBVIOUS
<1>n. ASSUME NEW i \in shared
      PROVE  /\ i \in Levels \ {0} /\ NewTab(S, i) \in MapIds /\ S.tab[i][NewTab(S, i)] = FreeTab
             /\ NewTab(S, i) # tabs[i]
  <2>1. i \in Levels \ {0} /\ S.tab[i][tabs[i]].ref # 1
    BY <1>d
  <2>2. NewTab(S, i) \in MapIds /\ S.tab[i][NewTab(S, i)] = FreeTab /\ Users(S, i, NewTab(S, i)) = {}
    BY <2>1, <1>m, NewTabFree DEF Sound
  <2> QED
    BY <2>1, <2>2, <1>m DEF Users
<1>1. /\ T = [map |-> T.map, tab |-> T.tab, at |-> S.at]
      /\ T.map = [p \in MapIds |-> IF p = m THEN [S.map[m] EXCEPT !.tabs = newtabs] ELSE S.map[p]]
      /\ T.tab = [i \in Levels |-> [k \in MapIds |->
                    IF i \in shared /\ k = NewTab(S, i) THEN NewTable
                    ELSE IF k # tabs[i] THEN S.tab[i][k]
                    ELSE IF i = 0 \/ i \in shared THEN Dropped(S.tab[i][k]) ELSE NewTable]]
  BY <1>s, <1>m DEF clear, Of, Frames
<1>e. m = S.at[e]
  OBVIOUS
<1>w. newtabs \in [Levels -> MapIds \cup {NoTab}]
      /\ \A i \in Levels : newtabs[i] = IF i = 0 THEN NoTab
                                        ELSE IF i \in shared THEN NewTab(S, i) ELSE tabs[i]
  BY <1>n, <1>m
<1> HIDE DEF m, shared, newtabs, tabs, frames
<1>a. \A i \in Levels, k \in MapIds :
         T.tab[i][k] = IF i \in shared /\ k = NewTab(S, i) THEN NewTable
                       ELSE IF k # tabs[i] THEN S.tab[i][k]
                       ELSE IF i = 0 \/ i \in shared THEN Dropped(S.tab[i][k]) ELSE NewTable
  BY <1>1
<1>t. tabs = S.map[m].tabs
  BY DEF tabs
<1>2. /\ T.map[m] \in MapType /\ T.map[m].ref = 1 /\ T.map[m].depth = S.map[m].depth
      /\ T.map[m].tabs = newtabs /\ T.map[m].aoc = S.map[m].aoc
      /\ T.map[m].na = S.map[m].na /\ T.map[m].ue = S.map[m].ue
  <2>1. T.map[m] = [S.map[m] EXCEPT !.tabs = newtabs]
    BY <1>1, <1>m
  <2> QED
    BY <2>1, <1>m, <1>w, MapTabs
<1>k. ASSUME NEW i \in Levels
      PROVE  /\ \/ newtabs[i] = tabs[i] /\ Kept(S, T, i, tabs[i])
                \/ Replaced(S, T, i, tabs[i], newtabs[i])
             /\ newtabs[i] # NoTab => newtabs[i] \in MapIds /\ T.tab[i][newtabs[i]] = NewTable
  <2>1. CASE i \in shared
    <3>1. newtabs[i] = NewTab(S, i) /\ NewTab(S, i) \in MapIds /\ T.tab[i][NewTab(S, i)] = NewTable
      BY <2>1, <1>n, <1>w, <1>a
    <3>2. tabs[i] # NoTab => T.tab[i][tabs[i]] = Dropped(S.tab[i][tabs[i]])
      BY <2>1, <1>n, <1>a, <1>m
    <3>3. \A k \in MapIds : k # tabs[i] /\ k # NewTab(S, i) => T.tab[i][k] = S.tab[i][k]
      BY <1>a
    <3>4. Replaced(S, T, i, tabs[i], newtabs[i])
      BY <2>1, <3>1, <3>2, <3>3, <1>n, FreeFields DEF Replaced
    <3> QED
      BY <3>1, <3>4
  <2>2. CASE i \notin shared /\ tabs[i] = NoTab
    <3>1. newtabs[i] = NoTab /\ \A k \in MapIds : T.tab[i][k] = S.tab[i][k]
      BY <2>2, <1>w, <1>a, MapIdsFinite
    <3> QED
      BY <2>2, <3>1 DEF Kept
  <2>3. CASE i \notin shared /\ i = 0 /\ tabs[i] # NoTab
    <3>1. tabs[i] \in MapIds /\ newtabs[i] = NoTab
      BY <2>3, <1>m, <1>w
    <3>2. T.tab[i][tabs[i]] = Dropped(S.tab[i][tabs[i]])
      BY <2>3, <3>1, <1>a
    <3>3. \A k \in MapIds : k # tabs[i] => T.tab[i][k] = S.tab[i][k]
      BY <2>3, <1>a
    <3> QED
      BY <2>3, <3>1, <3>2, <3>3 DEF Replaced
  <2>4. CASE i \notin shared /\ i # 0 /\ tabs[i] # NoTab
    <3>1. tabs[i] \in MapIds /\ newtabs[i] = tabs[i] /\ S.tab[i][tabs[i]].ref = 1
      BY <2>4, <1>m, <1>w, <1>d, <1>h
    <3>2. T.tab[i][tabs[i]] = NewTable
      BY <2>4, <3>1, <1>a
    <3>3. \A k \in MapIds : k # tabs[i] => T.tab[i][k] = S.tab[i][k]
      BY <2>4, <1>a
    <3> QED
      BY <3>1, <3>2, <3>3, FreeFields DEF Kept
  <2> QED
    BY <2>1, <2>2, <2>3, <2>4
<1>3. Retabled(S, T, m)
  <2>1. \A i \in Levels \ {0} : newtabs[i] # NoTab <=> i <= T.map[m].depth
    <3> SUFFICES ASSUME NEW i \in Levels \ {0}
                 PROVE  newtabs[i] # NoTab <=> i <= S.map[m].depth
      BY <1>2
    <3>1. tabs[i] # NoTab <=> i <= S.map[m].depth
      BY <1>s, <1>m, <1>t DEF SoundMap
    <3>2. i \in shared => tabs[i] # NoTab /\ NewTab(S, i) # NoTab
      BY <1>h, <1>d, <1>n, MapIdsFinite
    <3> QED
      BY <3>1, <3>2, <1>w
  <2>2. /\ T.map[m].na \subseteq (0..T.map[m].depth) \X Slots
        /\ T.map[m].ue \subseteq (0..T.map[m].depth) \X Slots
    BY <1>s, <1>m, <1>2 DEF SoundMap
  <2>3. /\ T.map = [p \in MapIds |-> IF p = m THEN T.map[m] ELSE S.map[p]]
        /\ T.tab = [i \in Levels |-> [k \in MapIds |-> T.tab[i][k]]]
        /\ T = [map |-> T.map, tab |-> T.tab, at |-> T.at] /\ T.at = S.at
    BY <1>1
  <2> QED
    BY <2>1, <2>2, <2>3, <1>2, <1>k, <1>t, <1>m DEF Retabled
<1>4. Sound(T) /\ \A f \in Edges : S.at[f] # m => Agree(S, T, f)
  BY <1>3, <1>m, RetabledSound
<1>5. T.at = S.at /\ Of(T, e) = T.map[m]
  BY <1>1, <1>e DEF Of
<1>6. Has(T, e) /\ Alone(T, e) /\ SameMap(S, T, e)
  BY <1>5, <1>2, <1>m DEF Has, Alone, SameMap
<1>7. AgreeBesides(S, T, e)
  BY <1>4, <1>e, AloneOnly DEF AgreeBesides
<1>8. ASSUME NEW i \in Levels
      PROVE  Ents(T, e, i) = FreeTab.ents
  <2>1. Ents(T, e, i) = Entries(T, i, newtabs[i])
    BY <1>5, <1>2 DEF Ents
  <2> QED
    BY <2>1, <1>k, FreeFields DEF Entries
<1> QED
  BY <1>4, <1>6, <1>7, <1>8

(* Edge e leaves a map it shares for a new one, which has no tables.       *)
Moved(S, e) ==
    [map |-> [p \in MapIds |-> IF p = NewMap(S) THEN [FreeMap EXCEPT !.ref = 1]
                               ELSE IF p = S.at[e] THEN [S.map[p] EXCEPT !.ref = S.map[p].ref - 1]
                               ELSE S.map[p]],
     tab |-> S.tab, at |-> [f \in Edges |-> IF f = e THEN NewMap(S) ELSE S.at[f]]]

(* The edge gives up its shared map for a new one: the store stays sound,  *)
(* and the new map is the edge's alone.                                    *)
LEMMA MovedSound ==
    ASSUME NEW S, Sound(S), NEW e \in Edges, Has(S, e), ~Alone(S, e), NEW T, T = Moved(S, e)
    PROVE  /\ Sound(T) /\ AgreeBesides(S, T, e)
           /\ T.at[e] = NewMap(S) /\ NewMap(S) \in MapIds
           /\ T.map[NewMap(S)] = [FreeMap EXCEPT !.ref = 1]
           /\ \A f \in Edges : f # e => T.at[f] # NewMap(S)
<1> DEFINE m == S.at[e]
           n == NewMap(S)
<1>s. /\ S.map \in [MapIds -> MapType] /\ S.tab \in [Levels -> [MapIds -> TabType]]
      /\ S.at \in [Edges -> MapIds \cup {NoMap}]
      /\ \A p \in MapIds : SoundMap(S, p) /\ S.map[p] \in MapType
      /\ \A i \in Levels, k \in MapIds : SoundTab(S, i, k) /\ S.tab[i][k] \in TabType
  BY SoundFields
<1>m. m \in MapIds /\ S.map[m].ref \in Nat /\ S.map[m].ref > 1
  <2>1. m \in MapIds /\ S.map[m].ref >= 1 /\ S.map[m].ref # 1
    BY InUse DEF Has, Alone, Of
  <2> QED
    BY <2>1, <1>s, MapFields
<1>n. n \in MapIds /\ S.map[n] = FreeMap /\ Holders(S, n) = {} /\ n # m
  <2>1. n \in MapIds /\ S.map[n] = FreeMap /\ Holders(S, n) = {}
    BY NewMapFree DEF Has, Alone, Sound
  <2> QED
    BY <2>1, <1>m, FreeFields
<1>t. /\ T = [map |-> T.map, tab |-> T.tab, at |-> T.at] /\ T.tab = S.tab
      /\ T.map = [p \in MapIds |-> IF p = n THEN [FreeMap EXCEPT !.ref = 1]
                                   ELSE IF p = m THEN [S.map[p] EXCEPT !.ref = S.map[p].ref - 1]
                                   ELSE S.map[p]]
      /\ T.at = [f \in Edges |-> IF f = e THEN n ELSE S.at[f]]
  BY DEF Moved
<1>e. m = S.at[e] /\ n = NewMap(S)
  OBVIOUS
<1> HIDE DEF m, n
<1>r. ASSUME NEW p \in MapIds
      PROVE  /\ T.map[p].ref = IF p = n THEN 1 ELSE IF p = m THEN S.map[m].ref - 1 ELSE S.map[p].ref
             /\ T.map[p].depth = S.map[p].depth /\ \A i \in Levels : T.map[p].tabs[i] = S.map[p].tabs[i]
             /\ T.map[p].aoc = S.map[p].aoc
             /\ T.map[p].na = S.map[p].na /\ T.map[p].ue = S.map[p].ue
             /\ T.map[p].ref \in 0..Cardinality(Edges) => T.map[p] \in MapType
             /\ T.map[p].ref = 0 => T.map[p] = FreeMap
  <2>1. CASE p = n
    <3>1. T.map[p] = [FreeMap EXCEPT !.ref = 1]
      BY <1>t, <2>1
    <3>2. /\ T.map[p].ref = 1 /\ T.map[p].depth = FreeMap.depth /\ T.map[p].tabs = FreeMap.tabs
          /\ T.map[p].aoc = FreeMap.aoc /\ T.map[p].na = FreeMap.na /\ T.map[p].ue = FreeMap.ue
          /\ T.map[p] \in MapType
      BY <3>1, FreeFields, MapRef, MapIdsFinite
    <3> QED
      BY <2>1, <3>2, <1>n
  <2>2. CASE p = m /\ p # n
    <3>1. T.map[p] = [S.map[p] EXCEPT !.ref = S.map[p].ref - 1]
      BY <1>t, <2>2
    <3>2. /\ T.map[p].ref = S.map[p].ref - 1 /\ T.map[p].depth = S.map[p].depth
          /\ T.map[p].tabs = S.map[p].tabs /\ T.map[p].aoc = S.map[p].aoc
          /\ T.map[p].na = S.map[p].na /\ T.map[p].ue = S.map[p].ue
          /\ S.map[p].ref - 1 \in 0..Cardinality(Edges) => T.map[p] \in MapType
      BY <3>1, <1>s, MapRef
    <3>3. S.map[p].ref - 1 # 0
      BY <2>2, <1>m
    <3> QED
      BY <2>2, <3>2, <3>3
  <2>3. CASE p # m /\ p # n
    <3>1. T.map[p] = S.map[p]
      BY <1>t, <2>3
    <3> QED
      BY <2>3, <3>1, <1>s DEF SoundMap
  <2> QED
    BY <2>1, <2>2, <2>3
<1>1. ASSUME NEW p \in MapIds
      PROVE  T.map[p].ref = Cardinality(Holders(T, p))
  <2>1. CASE p = n
    <3>1. Holders(T, p) = {e}
      BY <1>t, <1>n, <2>1 DEF Holders
    <3>2. Cardinality({e}) = 1
      BY FS_Singleton
    <3>3. T.map[p].ref = 1
      BY <1>r, <2>1
    <3> QED
      BY <3>1, <3>2, <3>3
  <2>2. CASE p = m
    <3>1. Holders(T, p) = Holders(S, p) \ {e} /\ e \in Holders(S, p)
      BY <1>t, <1>n, <1>e, <2>2 DEF Holders
    <3>2. S.map[m].ref = Cardinality(Holders(S, m))
      BY <1>m, <1>s DEF SoundMap
    <3>3. Cardinality(Holders(S, m) \ {e}) = Cardinality(Holders(S, m)) - 1
      BY <3>1, <2>2, FS_RemoveElement, HolderCount
    <3> QED
      BY <3>1, <3>2, <3>3, <1>r, <1>n, <2>2
  <2>3. CASE p # n /\ p # m
    <3>1. Holders(T, p) = Holders(S, p)
      BY <1>t, <1>n, <1>e, <2>3 DEF Holders
    <3> QED
      BY <3>1, <1>r, <2>3, <1>s DEF SoundMap
  <2> QED
    BY <2>1, <2>2, <2>3
<1>2. ASSUME NEW p \in MapIds
      PROVE  SoundMap(T, p)
  <2>1. /\ T.map[p].depth = S.map[p].depth /\ \A i \in Levels : T.map[p].tabs[i] = S.map[p].tabs[i]
        /\ T.map[p].na = S.map[p].na /\ T.map[p].ue = S.map[p].ue
        /\ T.map[p].ref \in 0..Cardinality(Edges) => T.map[p] \in MapType
        /\ T.map[p].ref = 0 => T.map[p] = FreeMap
    BY <1>r
  <2>2. /\ \A i \in Levels \ {0} : S.map[p].tabs[i] # NoTab <=> i <= S.map[p].depth
        /\ S.map[p].na \subseteq (0..S.map[p].depth) \X Slots
        /\ S.map[p].ue \subseteq (0..S.map[p].depth) \X Slots
    BY <1>s DEF SoundMap
  <2>3. \A i \in Levels \ {0} : T.map[p].tabs[i] # NoTab <=> i <= T.map[p].depth
    BY <2>1, <2>2
  <2> QED
    BY <2>1, <2>2, <2>3, <1>1 DEF SoundMap
<1>3. ASSUME NEW i \in Levels, NEW k \in MapIds
      PROVE  SoundTab(T, i, k)
  <2>1. Users(T, i, k) = Users(S, i, k)
    BY <1>r DEF Users
  <2> QED
    BY <2>1, <1>t, <1>s DEF SoundTab
<1>4. Sound(T)
  <2>1. T.map = [p \in MapIds |-> T.map[p]] /\ T.tab = [i \in Levels |-> [k \in MapIds |-> T.tab[i][k]]]
    BY <1>t, <1>s
  <2>2. T.at \in [Edges -> MapIds \cup {NoMap}]
    BY <1>t, <1>s, <1>n
  <2> QED
    BY <1>2, <1>3, <1>t, <2>1, <2>2, SoundIf
<1>5. ASSUME NEW f \in Edges, f # e
      PROVE  Agree(S, T, f)
  <2>1. T.at[f] = S.at[f]
    BY <1>5, <1>t
  <2>2. CASE S.at[f] = NoMap
    BY <2>1, <2>2 DEF Agree
  <2>3. CASE S.at[f] # NoMap
    <3>1. S.at[f] \in MapIds /\ Of(S, f) = S.map[S.at[f]] /\ Of(T, f) = T.map[S.at[f]]
      BY <2>1, <2>3, <1>s DEF Of
    <3>2. PICK p \in MapIds : p = S.at[f]
      BY <3>1
    <3>3. /\ Of(T, f).depth = Of(S, f).depth /\ \A i \in Levels : Of(T, f).tabs[i] = Of(S, f).tabs[i]
          /\ Of(T, f).aoc = Of(S, f).aoc /\ Of(T, f).na = Of(S, f).na /\ Of(T, f).ue = Of(S, f).ue
      BY <3>1, <3>2, <1>r
    <3>4. \A i \in Levels : Ents(T, f, i) = Ents(S, f, i)
      BY <3>3, <1>t DEF Ents, Entries
    <3> QED
      BY <2>1, <3>3, <3>4 DEF Agree
  <2> QED
    BY <2>2, <2>3
<1>6. \A f \in Edges : f # e => T.at[f] # n
  BY <1>t, <1>n DEF Holders
<1>7. T.at[e] = n /\ T.map[n] = [FreeMap EXCEPT !.ref = 1]
  BY <1>t, <1>n
<1>8. AgreeBesides(S, T, e)
  BY <1>5 DEF AgreeBesides
<1> QED
  BY <1>4, <1>6, <1>7, <1>8, <1>n, <1>e

(* What getEmptyMap gives up of e's map: nothing but entries, or all.      *)
Emptied(S, T, e) ==
    /\ Of(T, e).depth = Of(S, e).depth
    /\ \A i \in Levels : NoEntries(Ents(T, e, i))
    /\ \/ SameMap(S, T, e) /\ T = S
       \/ SameMap(S, T, e) /\ Alone(T, e)
       \/ ~Of(T, e).aoc /\ Of(T, e).na = {} /\ Of(T, e).ue = {} /\ Alone(T, e)

(* A map that says it is empty has no entries.                             *)
LEMMA EmptyHasNone ==
    ASSUME NEW S, Sound(S), NEW e \in Edges, Has(S, e), empty(S, e), NEW i \in Levels
    PROVE  NoEntries(Ents(S, e, i))
<1> DEFINE m == S.at[e]
           k == S.map[m].tabs[i]
<1>s. /\ \A p \in MapIds : SoundMap(S, p) /\ S.map[p] \in MapType
      /\ \A j \in Levels, x \in MapIds : SoundTab(S, j, x)
  BY SoundFields
<1>m. m \in MapIds /\ Of(S, e) = S.map[m]
  BY InUse DEF Has, Of
<1>1. k \in MapIds \cup {NoTab} /\ Ents(S, e, i) = Entries(S, i, k)
  BY <1>s, <1>m, MapFields DEF Ents
<1>2. CASE k = NoTab
  BY <1>1, <1>2, FreeFields DEF Entries
<1>3. CASE k # NoTab
  <2>1. i \in 1..S.map[m].depth
    <3>1. i # 0
      BY <1>3, <1>m DEF empty
    <3>2. i <= S.map[m].depth /\ S.map[m].depth \in Nat
      BY <3>1, <1>3, <1>m, <1>s, MapFields DEF SoundMap
    <3> QED
      BY <3>1, <3>2, CowAssumption DEF Levels
  <2>2. S.tab[i][k].empty
    BY <2>1, <1>m DEF empty, Frames
  <2> HIDE DEF k
  <2> QED
    BY <1>1, <1>3, <2>2, <1>s DEF SoundTab, Entries
<1> QED
  BY <1>2, <1>3

(* The copy that getEmptyMap makes of a shared map, as a step from Moved.  *)
LEMMA CopyEmptySound ==
    ASSUME NEW S, Sound(S), NEW e \in Edges, Has(S, e), ~Alone(S, e), ~empty(S, e),
           NEW T, T = getEmptyMap(S, e)
    PROVE  Sound(T) /\ Has(T, e) /\ Emptied(S, T, e) /\ AgreeBesides(S, T, e)
<1> DEFINE m == S.at[e]
           n == NewMap(S)
           frames == 1..S.map[m].depth
           newtabs == [i \in Levels |-> IF i \in frames THEN NewTab(S, i) ELSE NoTab]
           V == Moved(S, e)
           R == [FreeMap EXCEPT !.ref = 1, !.depth = S.map[m].depth, !.tabs = newtabs]
<1>s. /\ S = [map |-> S.map, tab |-> S.tab, at |-> S.at]
      /\ S.map \in [MapIds -> MapType] /\ S.tab \in [Levels -> [MapIds -> TabType]]
      /\ S.at \in [Edges -> MapIds \cup {NoMap}]
      /\ \A p \in MapIds : S.map[p] \in MapType
      /\ \A i \in Levels, k \in MapIds : S.tab[i][k] \in TabType
  BY SoundFields
<1>m. m \in MapIds /\ Of(S, e) = S.map[m] /\ S.map[m].ref # 1
  BY InUse DEF Has, Of, Alone
<1>d. frames \subseteq Levels \ {0} /\ S.map[m].depth \in Levels
      /\ \A i \in Levels \ {0} : i <= S.map[m].depth <=> i \in frames
  <2>1. S.map[m].depth \in Nat /\ S.map[m].depth <= MaxDepth /\ S.map[m].depth \in Levels
    BY <1>m, <1>s, MapFields, CowAssumption DEF Levels
  <2> QED
    BY <2>1, CowAssumption DEF Levels
<1>v. /\ Sound(V) /\ AgreeBesides(S, V, e)
      /\ V.at[e] = n /\ n \in MapIds
      /\ V.map[n] = [FreeMap EXCEPT !.ref = 1]
      /\ \A f \in Edges : f # e => V.at[f] # n
  BY MovedSound
<1>f. n \in MapIds /\ S.map[n] = FreeMap /\ n # m
  <2>1. n \in MapIds /\ S.map[n] = FreeMap
    BY NewMapFree DEF Has, Alone, Sound
  <2>2. S.map[m].ref >= 1
    BY InUse, <1>m DEF Has
  <2> QED
    BY <2>1, <2>2, FreeFields
<1>b. V.tab = S.tab /\ V.map = [p \in MapIds |-> IF p = n THEN [FreeMap EXCEPT !.ref = 1]
                               ELSE IF p = m THEN [S.map[p] EXCEPT !.ref = S.map[p].ref - 1]
                               ELSE S.map[p]]
      /\ V.at = [f \in Edges |-> IF f = e THEN n ELSE S.at[f]]
  BY DEF Moved
<1>n. ASSUME NEW i \in frames
      PROVE  i \in Levels /\ NewTab(S, i) \in MapIds /\ S.tab[i][NewTab(S, i)] = FreeTab
  <2>1. i \in Levels /\ S.map[n].tabs[i] = NoTab
    BY <1>d, <1>f, FreeFields
  <2> QED
    BY <2>1, <1>f, NewTabFree DEF Sound
<1>1. T = [map |-> [S.map EXCEPT ![m].ref = @ - 1, ![n] = R],
           tab |-> [i \in Levels |-> [k \in MapIds |->
                      IF i \in frames /\ k = NewTab(S, i) THEN NewTable ELSE S.tab[i][k]]],
           at  |-> [S.at EXCEPT ![e] = n]]
  BY <1>m DEF getEmptyMap, Frames
<1>w. newtabs \in [Levels -> MapIds \cup {NoTab}]
      /\ \A i \in Levels : newtabs[i] = IF i \in frames THEN NewTab(S, i) ELSE NoTab
  BY <1>n
<1>e. m = S.at[e]
  OBVIOUS
<1> HIDE DEF m, n, newtabs, frames, V, R
<1>2. /\ T = [map |-> T.map, tab |-> T.tab, at |-> T.at]
      /\ T.tab = [i \in Levels |-> [k \in MapIds |->
                      IF i \in frames /\ k = NewTab(S, i) THEN NewTable ELSE S.tab[i][k]]]
      /\ T.at = V.at
      /\ T.map = [p \in MapIds |-> IF p = n THEN T.map[n] ELSE V.map[p]]
      /\ T.map[n] = R
  <2>1. /\ T.map = [S.map EXCEPT ![m].ref = @ - 1, ![n] = R]
        /\ T.at = [S.at EXCEPT ![e] = n]
    BY <1>1
  <2>2. /\ T.map = [p \in MapIds |-> IF p = n THEN T.map[n] ELSE V.map[p]]
        /\ T.map[n] = R
    BY <2>1, <1>b, <1>f, <1>m, <1>s
  <2>3. T.at = V.at
    BY <2>1, <1>b, <1>s
  <2>4. /\ T = [map |-> T.map, tab |-> T.tab, at |-> T.at]
        /\ T.tab = [i \in Levels |-> [k \in MapIds |->
                      IF i \in frames /\ k = NewTab(S, i) THEN NewTable ELSE S.tab[i][k]]]
    BY <1>1
  <2> QED
    BY <2>2, <2>3, <2>4
<1>3. /\ T.map[n] \in MapType /\ T.map[n].ref = 1 /\ T.map[n].depth = S.map[m].depth
      /\ T.map[n].tabs = newtabs /\ ~T.map[n].aoc
      /\ T.map[n].na = {} /\ T.map[n].ue = {}
  <2>1. S.map[m].depth \in Levels /\ 1 \in 0..Cardinality(Edges)
    BY <1>d, MapIdsFinite
  <2> QED
    BY <1>2, <1>w, <2>1 DEF R, FreeMap, MapType
<1>a. \A i \in Levels, k \in MapIds :
        T.tab[i][k] = IF i \in frames /\ k = NewTab(S, i) THEN NewTable ELSE V.tab[i][k]
  BY <1>2, <1>b
<1>4. Retabled(V, T, n)
  <2>1. V.map[n].ref = 1 /\ V.map[n].tabs = FreeMap.tabs
    BY <1>v, FreeFields, MapRef
  <2>2. \A i \in Levels \ {0} : newtabs[i] # NoTab <=> i <= T.map[n].depth
    BY <1>w, <1>d, <1>n, <1>3, MapIdsFinite
  <2>3. ASSUME NEW i \in Levels
        PROVE  \/ newtabs[i] = V.map[n].tabs[i] /\ Kept(V, T, i, V.map[n].tabs[i])
               \/ Replaced(V, T, i, V.map[n].tabs[i], newtabs[i])
    <3>0. V.map[n].tabs[i] = NoTab
      BY <2>1, FreeFields
    <3>1. CASE i \in frames
      <4>1. newtabs[i] = NewTab(S, i) /\ NewTab(S, i) \in MapIds /\ V.tab[i][NewTab(S, i)] = FreeTab
            /\ T.tab[i][NewTab(S, i)] = NewTable
        BY <3>1, <1>w, <1>n, <1>a, <1>b
      <4>2. \A k \in MapIds : k # NewTab(S, i) => T.tab[i][k] = V.tab[i][k]
        BY <1>a
      <4> QED
        BY <3>0, <4>1, <4>2, FreeFields, MapIdsFinite DEF Replaced
    <3>2. CASE i \notin frames
      <4>1. newtabs[i] = NoTab /\ \A k \in MapIds : T.tab[i][k] = V.tab[i][k]
        BY <3>2, <1>w, <1>a
      <4> QED
        BY <3>0, <4>1 DEF Kept
    <3> QED
      BY <3>1, <3>2
  <2>4. /\ T.tab = [i \in Levels |-> [k \in MapIds |-> T.tab[i][k]]]
    BY <1>2
  <2>5. /\ T.map[n].na \subseteq (0..T.map[n].depth) \X Slots
        /\ T.map[n].ue \subseteq (0..T.map[n].depth) \X Slots
    BY <1>3
  <2> QED
    BY <2>1, <2>2, <2>3, <2>4, <2>5, <1>2, <1>3 DEF Retabled
<1>5. Sound(T) /\ \A f \in Edges : V.at[f] # n => Agree(V, T, f)
  <2>1. V.map[n].ref # 0
    BY <1>v, FreeFields, MapRef
  <2> QED
    BY <1>4, <1>v, <2>1, RetabledSound
<1>6. T.at[e] = n /\ Of(T, e) = T.map[n]
  BY <1>2, <1>v DEF Of
<1>7. AgreeBesides(S, T, e)
  BY <1>5, <1>v, AgreeTrans DEF AgreeBesides
<1>8. ASSUME NEW i \in Levels
      PROVE  NoEntries(Ents(T, e, i))
  <2>1. Ents(T, e, i) = Entries(T, i, newtabs[i])
    BY <1>6, <1>3 DEF Ents
  <2>2. newtabs[i] # NoTab => T.tab[i][newtabs[i]] = NewTable
    BY <1>w, <1>n, <1>a
  <2> QED
    BY <2>1, <2>2, FreeFields DEF Entries
<1>9. Has(T, e) /\ Alone(T, e)
  BY <1>6, <1>3, <1>f, MapIdsFinite DEF Has, Alone
<1> QED
  BY <1>3, <1>5, <1>6, <1>7, <1>8, <1>9, <1>m DEF Emptied

(* getEmptyMap leaves an edge without entries, and others as they were.    *)
LEMMA EmptySound ==
    ASSUME NEW S, Sound(S), NEW e \in Edges, Has(S, e), NEW T, T = getEmptyMap(S, e)
    PROVE  Sound(T) /\ Has(T, e) /\ Emptied(S, T, e) /\ AgreeBesides(S, T, e)
<1>1. CASE empty(S, e)
  <2>1. T = S
    BY <1>1 DEF getEmptyMap
  <2>2. AgreeBesides(S, S, e) /\ SameMap(S, S, e)
    BY DEF AgreeBesides, SameMap, Agree
  <2> QED
    BY <1>1, <2>1, <2>2, EmptyHasNone DEF Emptied
<1>2. CASE ~empty(S, e) /\ Alone(S, e)
  <2>1. T = clear(S, e)
    BY <1>2 DEF getEmptyMap, Alone, Of
  <2>2. /\ Sound(T) /\ Has(T, e) /\ Alone(T, e) /\ SameMap(S, T, e) /\ AgreeBesides(S, T, e)
        /\ \A i \in Levels : Ents(T, e, i) = FreeTab.ents
    BY <1>2, <2>1, ClearSound
  <2>3. \A i \in Levels : NoEntries(Ents(T, e, i))
    BY <2>2, FreeFields
  <2> QED
    BY <2>2, <2>3 DEF Emptied, SameMap
<1>3. CASE ~empty(S, e) /\ ~Alone(S, e)
  BY <1>3, CopyEmptySound
<1> QED
  BY <1>1, <1>2, <1>3

(* Values for the objects O, as getOrCreateStoreFor is given them.         *)
LEMMA WritesFields ==
    ASSUME NEW O, O \subseteq Levels \X Slots, NEW v \in [O -> SUBSET Vals]
    PROVE  /\ Writes(v) \in NewEntries
           /\ \A i \in Levels, s \in Slots :
                Writes(v)[i][s] = IF <<i, s>> \in O THEN v[<<i, s>>] ELSE None
           /\ \A i \in Levels : NoEntries(Writes(v)[i]) <=> \A s \in Slots : <<i, s>> \notin O
<1>1. DOMAIN v = O
  OBVIOUS
<1>2. \A i \in Levels, s \in Slots :
        /\ Writes(v)[i][s] = IF <<i, s>> \in O THEN v[<<i, s>>] ELSE None
        /\ Writes(v)[i][s] \in (SUBSET Vals) \cup {None}
        /\ <<i, s>> \in O => Writes(v)[i][s] # None
  BY <1>1, CowAssumption DEF Writes
<1>3. Writes(v) \in NewEntries
  <2>1. Writes(v) = [i \in Levels |-> [s \in Slots |-> Writes(v)[i][s]]]
    BY DEF Writes
  <2>2. \A i \in Levels : [s \in Slots |-> Writes(v)[i][s]] \in EntryMaps
    BY <1>2 DEF EntryMaps
  <2>3. [i \in Levels |-> [s \in Slots |-> Writes(v)[i][s]]] \in NewEntries
    BY <2>2 DEF NewEntries
  <2> QED
    BY <2>1, <2>3
<1>4. \A i \in Levels : NoEntries(Writes(v)[i]) <=> \A s \in Slots : <<i, s>> \notin O
  BY <1>2 DEF NoEntries
<1> QED
  BY <1>2, <1>3, <1>4

(* Objects O of e come to hold the values v, and the rest stays.           *)
Within(X, S, e) == X \subseteq Scope(S, e)
Values(O) == [O -> SUBSET Vals]
Holds(S, T, e, O, v) ==
    /\ Of(T, e).depth = Of(S, e).depth /\ Of(T, e).aoc = Of(S, e).aoc
    /\ \A i \in Levels, s \in Slots :
         Ents(T, e, i)[s] = IF <<i, s>> \in O THEN v[<<i, s>>] ELSE Ents(S, e, i)[s]

(* getOrCreateStoreFor, object by object.                                  *)
LEMMA CreateObjects ==
    ASSUME NEW S, Sound(S), NEW e \in Edges, Has(S, e), NEW O, Within(O, S, e),
           NEW v \in Values(O), NEW T, T = getOrCreateStoreFor(S, e, Writes(v))
    PROVE  /\ Sound(T) /\ Has(T, e) /\ SameMap(S, T, e) /\ AgreeBesides(S, T, e)
           /\ Holds(S, T, e, O, v)
           /\ Alone(S, e) \/ O # {} => Alone(T, e)
<1> DEFINE new == Writes(v)
<1>o. O \subseteq Scope(S, e) /\ v \in [O -> SUBSET Vals]
  BY DEF Within, Values
<1>1. O \subseteq Levels \X Slots /\ \A i \in Levels, s \in Slots : <<i, s>> \in O => i <= Of(S, e).depth
  <2>1. O \subseteq Levels \X Slots
    BY <1>o, InScope
  <2>2. \A i \in Levels, s \in Slots : <<i, s>> \in O => i \in 0..Of(S, e).depth
    BY <1>o DEF Scope
  <2>3. Of(S, e).depth \in Nat
    BY InScope, CowAssumption DEF Levels
  <2> QED
    BY <2>1, <2>2, <2>3
<1>2. /\ new \in NewEntries
      /\ \A i \in Levels, s \in Slots : new[i][s] = IF <<i, s>> \in O THEN v[<<i, s>>] ELSE None
      /\ \A i \in Levels : NoEntries(new[i]) <=> \A s \in Slots : <<i, s>> \notin O
  BY <1>o, <1>1, WritesFields
<1>3. \A i \in Levels : ~NoEntries(new[i]) => i <= Of(S, e).depth
  BY <1>1, <1>2
<1>4. T = getOrCreateStoreFor(S, e, new)
  OBVIOUS
<1> HIDE DEF new
<1>5. /\ Sound(T) /\ Has(T, e) /\ SameMap(S, T, e) /\ AgreeBesides(S, T, e)
      /\ \A i \in Levels, s \in Slots :
           Ents(T, e, i)[s] = IF new[i][s] # None THEN new[i][s] ELSE Ents(S, e, i)[s]
      /\ Alone(S, e) => Alone(T, e)
      /\ (\E i \in Levels : ~NoEntries(new[i])) => Alone(T, e)
  BY <1>2, <1>3, <1>4, CreateSound
<1>6. \A o \in O : v[o] # None
  BY <1>o, CowAssumption
<1>7. \A i \in Levels, s \in Slots :
           Ents(T, e, i)[s] = IF <<i, s>> \in O THEN v[<<i, s>>] ELSE Ents(S, e, i)[s]
  BY <1>2, <1>5, <1>6
<1>8. O # {} => \E i \in Levels : ~NoEntries(new[i])
  BY <1>1, <1>2
<1>9. Holds(S, T, e, O, v)
  BY <1>5, <1>7 DEF Holds, SameMap
<1> QED
  BY <1>5, <1>8, <1>9

(* Flags that e's map, which it has to itself, gains or loses.             *)
LEMMA WithFlags ==
    ASSUME NEW S, Sound(S), NEW e \in Edges, Has(S, e), Alone(S, e),
           NEW na, Within(na, S, e), NEW ue, Within(ue, S, e),
           NEW T, T = withFlags(S, e, na, ue)
    PROVE  /\ Sound(T) /\ Has(T, e) /\ Alone(T, e) /\ AgreeBesides(S, T, e)
           /\ Of(T, e).depth = Of(S, e).depth /\ Of(T, e).aoc = Of(S, e).aoc
           /\ Of(T, e).na = na /\ Of(T, e).ue = ue
           /\ \A i \in Levels : Ents(T, e, i) = Ents(S, e, i)
<1> DEFINE M == Of(S, e)
           R == Flagged(M, na, ue)
<1>1. M \in MapType /\ S.at[e] \in MapIds /\ M = S.map[S.at[e]]
  BY InUse DEF Has, Of
<1>i. na \subseteq Scope(S, e) /\ ue \subseteq Scope(S, e)
  BY DEF Within
<1>2. na \in SUBSET (Levels \X Slots) /\ ue \in SUBSET (Levels \X Slots)
  BY <1>i, InScope
<1>e. M = Of(S, e)
  OBVIOUS
<1> HIDE DEF M
<1>3. /\ R \in MapType /\ R.ref = M.ref /\ R.depth = M.depth /\ R.tabs = M.tabs
      /\ R.aoc = M.aoc /\ R.na = na /\ R.ue = ue
  BY <1>1, <1>2, FlaggedFields
<1>4. T = [S EXCEPT !.map = [S.map EXCEPT ![S.at[e]] = R]]
  BY <1>1 DEF withFlags
<1> HIDE DEF R
<1>5. R \in MapType /\ R.ref = Of(S, e).ref /\ R.depth = Of(S, e).depth
      /\ R.tabs = Of(S, e).tabs /\ R.na \subseteq Scope(S, e) /\ R.ue \subseteq Scope(S, e)
  BY <1>3, <1>e, <1>i
<1>6. /\ Sound(T) /\ Has(T, e) /\ Of(T, e) = R
      /\ \A f \in Edges : S.at[f] # S.at[e] => Agree(S, T, f)
      /\ \A i \in Levels : Ents(T, e, i) = Ents(S, e, i)
  BY <1>4, <1>5, FlagsSound
<1>7. AgreeBesides(S, T, e)
  BY <1>6, AloneOnly DEF AgreeBesides
<1>8. Alone(T, e)
  BY <1>5, <1>6 DEF Alone
<1> QED
  BY <1>3, <1>6, <1>7, <1>8, <1>e

(* clobberAllExcept.  An edge that shares the empty map of another is      *)
(* affected too: allOthersClobbered is set for it.                         *)
Clobbered(S, T, f) ==
    /\ Has(S, f) /\ Has(T, f)
    /\ Of(T, f).depth = Of(S, f).depth /\ Of(T, f).aoc
    /\ Of(T, f).na = Of(S, f).na /\ Of(T, f).ue = Of(S, f).ue
    /\ \A i \in Levels : Ents(T, f, i) = Ents(S, f, i) /\ NoEntries(Ents(S, f, i))

(* A map with allOthersClobbered set is otherwise the same.                *)
LEMMA AllClobbered ==
    ASSUME NEW M \in MapType
    PROVE  LET R == [M EXCEPT !.aoc = TRUE] IN
           /\ R \in MapType /\ R.ref = M.ref /\ R.depth = M.depth /\ R.tabs = M.tabs
           /\ R.aoc /\ R.na = M.na /\ R.ue = M.ue
  BY DEF MapType

(* An edge that has a map with another sees in it what the other sees.     *)
LEMMA SharedMap ==
    ASSUME NEW S, NEW e, NEW f, S.at[f] = S.at[e]
    PROVE  /\ Has(S, f) = Has(S, e) /\ Of(S, f) = Of(S, e)
           /\ \A i : Ents(S, f, i) = Ents(S, e, i)
  BY DEF Has, Of, Ents

(* clobberAllExcept: the edge keeps the saved objects and no others;       *)
(* other edges see nothing, or, if they share its empty map, that          *)
(* allOthersClobbered is set.                                              *)
LEMMA ClobberSound ==
    ASSUME NEW S, Sound(S), NEW e \in Edges, Has(S, e), NEW save, save \subseteq Scope(S, e),
           NEW T, T = clobberAllExcept(S, e, save)
    PROVE  /\ Sound(T) /\ Has(T, e) /\ Of(T, e).depth = Of(S, e).depth /\ Of(T, e).aoc
           /\ \/ Of(T, e).na = Of(S, e).na /\ Of(T, e).ue = Of(S, e).ue
              \/ Of(T, e).na = {} /\ Of(T, e).ue = {}
           /\ \A i \in Levels, s \in Slots :
                Ents(T, e, i)[s] = IF <<i, s>> \notin save THEN None
                                   ELSE IF Ents(S, e, i)[s] = None THEN {} ELSE Ents(S, e, i)[s]
           /\ \A f \in Edges : f # e => \/ Agree(S, T, f)
                                        \/ S.at[f] = S.at[e] /\ Clobbered(S, T, f)
           /\ save # {} => Alone(T, e)
<1> DEFINE val(o) == Ents(S, e, o[1])[o[2]]
           v == [o \in save |-> IF val(o) = None THEN {} ELSE val(o)]
           E == getEmptyMap(S, e)
           R == [Of(E, e) EXCEPT !.aoc = TRUE]
           C == [E EXCEPT !.map = [E.map EXCEPT ![E.at[e]] = R]]
<1>1. Sound(E) /\ Has(E, e) /\ Emptied(S, E, e) /\ AgreeBesides(S, E, e)
  BY EmptySound
<1>2. T = getOrCreateStoreFor(C, e, Writes(v))
  <2>1. E.map \in [MapIds -> MapType] /\ E.at[e] \in MapIds /\ Of(E, e) = E.map[E.at[e]]
    BY <1>1, SoundFields, InUse DEF Has, Of
  <2> QED
    BY <2>1 DEF clobberAllExcept, Ents
<1>v. v \in Values(save)
  <2> SUFFICES ASSUME NEW o \in save
               PROVE  val(o) # None => val(o) \in SUBSET Vals
    BY DEF Values
  <2>1. o[1] \in Levels /\ o[2] \in Slots
    BY InScope
  <2>2. Ents(S, e, o[1]) \in EntryMaps
    BY <2>1, EntsType DEF Has
  <2> QED
    BY <2>1, <2>2 DEF EntryMaps
<1>w. \A i \in Levels, s \in Slots : <<i, s>> \in save =>
         v[<<i, s>>] = IF Ents(S, e, i)[s] = None THEN {} ELSE Ents(S, e, i)[s]
  OBVIOUS
<1>e. E = getEmptyMap(S, e)
  OBVIOUS
<1> HIDE DEF v, E
<1>3. /\ R \in MapType /\ R.ref = Of(E, e).ref /\ R.depth = Of(E, e).depth /\ R.tabs = Of(E, e).tabs
      /\ R.aoc /\ R.na = Of(E, e).na /\ R.ue = Of(E, e).ue
  <2>1. Of(E, e) \in MapType
    BY <1>1, InUse DEF Has
  <2> QED
    BY <2>1, AllClobbered
<1>c. C = [E EXCEPT !.map = [E.map EXCEPT ![E.at[e]] = R]]
  OBVIOUS
<1> HIDE DEF R, C
<1>4. R.na \subseteq Scope(E, e) /\ R.ue \subseteq Scope(E, e)
  BY <1>1, <1>3, InScope
<1>5. /\ Sound(C) /\ Has(C, e) /\ Of(C, e) = R
      /\ \A f \in Edges : E.at[f] # E.at[e] => Agree(E, C, f)
      /\ C.at = E.at /\ C.tab = E.tab
      /\ \A i \in Levels : Ents(C, e, i) = Ents(E, e, i)
  BY <1>1, <1>3, <1>4, <1>c, FlagsSound
<1>6. Within(save, C, e)
  BY <1>1, <1>3, <1>5 DEF Within, Scope, Emptied
<1>7. /\ Sound(T) /\ Has(T, e) /\ SameMap(C, T, e) /\ AgreeBesides(C, T, e)
      /\ Holds(C, T, e, save, v)
      /\ Alone(C, e) \/ save # {} => Alone(T, e)
  BY <1>2, <1>5, <1>6, <1>v, CreateObjects
<1>8. ASSUME NEW i \in Levels, NEW s \in Slots
      PROVE  Ents(T, e, i)[s] = IF <<i, s>> \notin save THEN None
                                ELSE IF Ents(S, e, i)[s] = None THEN {} ELSE Ents(S, e, i)[s]
  <2>1. Ents(C, e, i)[s] = None
    BY <1>1, <1>5 DEF Emptied, NoEntries
  <2> QED
    BY <2>1, <1>7, <1>w DEF Holds
<1>9. ASSUME NEW f \in Edges, f # e
      PROVE  Agree(S, T, f) \/ (S.at[f] = S.at[e] /\ Clobbered(S, T, f))
  <2>0. Agree(C, T, f)
    BY <1>7, <1>9 DEF AgreeBesides
  <2>1. CASE E.at[f] # E.at[e]
    <3>1. Agree(S, E, f)
      BY <1>1, <1>9 DEF AgreeBesides
    <3>2. Agree(E, C, f)
      BY <2>1, <1>5
    <3>3. Agree(S, C, f)
      BY <3>1, <3>2, AgreeTrans
    <3> QED
      BY <3>3, <2>0, AgreeTrans
  <2>2. CASE E.at[f] = E.at[e]
    <3>1. ~Alone(E, e)
      BY <1>1, <1>9, <2>2, AloneOnly
    <3>2. E = S
      BY <1>1, <3>1 DEF Emptied
    <3>3. Has(S, f) /\ Of(S, f) = Of(S, e) /\ \A i \in Levels : Ents(S, f, i) = Ents(S, e, i)
      BY <2>2, <3>2, SharedMap
    <3>4. C.at[f] = C.at[e]
      BY <2>2, <1>5
    <3>5. Has(C, f) /\ Of(C, f) = Of(C, e) /\ \A i \in Levels : Ents(C, f, i) = Ents(C, e, i)
      BY <3>4, <1>5, SharedMap
    <3>6. /\ Has(T, f) /\ Of(T, f).depth = Of(C, f).depth /\ Of(T, f).aoc = Of(C, f).aoc
          /\ Of(T, f).na = Of(C, f).na /\ Of(T, f).ue = Of(C, f).ue
          /\ \A i \in Levels : Ents(T, f, i) = Ents(C, f, i)
      BY <2>0, <3>5 DEF Agree, Has
    <3>7. \A i \in Levels : NoEntries(Ents(S, e, i))
      BY <1>1, <3>2 DEF Emptied
    <3> QED
      BY <2>2, <3>2, <3>3, <3>5, <3>6, <3>7, <1>3, <1>5 DEF Clobbered
  <2> QED
    BY <2>1, <2>2
<1>10. /\ Of(T, e).depth = Of(S, e).depth /\ Of(T, e).aoc
       /\ \/ Of(T, e).na = Of(S, e).na /\ Of(T, e).ue = Of(S, e).ue
          \/ Of(T, e).na = {} /\ Of(T, e).ue = {}
  <2>1. Of(T, e).depth = R.depth /\ Of(T, e).aoc = R.aoc /\ Of(T, e).na = R.na /\ Of(T, e).ue = R.ue
    BY <1>5, <1>7 DEF SameMap
  <2> QED
    BY <2>1, <1>1, <1>3 DEF Emptied, SameMap
<1> QED
  BY <1>7, <1>8, <1>9, <1>10


(***************************************************************************)
(* Merging.                                                                *)
(***************************************************************************)
(* What a merge over D makes of the objects of a level.                    *)
SomeClobbered(S, D)    == \E f \in D : Of(S, f).aoc
MergedValue(S, D, i, s) == MergedEntry(S, D, i, s, \E f \in D : Of(S, f).aoc)
MergedEnts(S, D, i)    == [s \in Slots |-> MergedEntry(S, D, i, s, \E f \in D : Of(S, f).aoc)]

(* Merged entries are entries, and where all have the same, so has the     *)
(* result.                                                                 *)
LEMMA MergedFields ==
    ASSUME NEW S, Sound(S), NEW D, D \subseteq Edges, \A f \in D : Has(S, f),
           NEW g \in D, NEW i \in Levels
    PROVE  /\ MergedEnts(S, D, i) \in EntryMaps
           /\ \A s \in Slots : MergedEnts(S, D, i)[s] = MergedValue(S, D, i, s)
           /\ (\A f \in D : Ents(S, f, i) = Ents(S, g, i)) =>
                \A s \in Slots : MergedValue(S, D, i, s) = Ents(S, g, i)[s]
<1>1. \A f \in D : Ents(S, f, i) \in EntryMaps
  BY EntsType DEF Has
<1>2. ASSUME NEW s \in Slots
      PROVE  /\ MergedValue(S, D, i, s) \in (SUBSET Vals) \cup {None}
             /\ (\A f \in D : Ents(S, f, i) = Ents(S, g, i)) =>
                  MergedValue(S, D, i, s) = Ents(S, g, i)[s]
  <2> DEFINE known == {Ents(S, f, i)[s] : f \in D} \ {None}
             some == \E f \in D : Of(S, f).aoc
             none == \E f \in D : Ents(S, f, i)[s] = None
  <2>1. MergedValue(S, D, i, s) = IF known = {} \/ (some /\ none) THEN None ELSE UNION known
    BY DEF MergedValue, MergedEntry, Ents
  <2>2. \A f \in D : Ents(S, f, i)[s] \in (SUBSET Vals) \cup {None}
    BY <1>1 DEF EntryMaps
  <2>3. UNION known \in SUBSET Vals
    BY <2>2
  <2>4. ASSUME \A f \in D : Ents(S, f, i) = Ents(S, g, i)
        PROVE  MergedValue(S, D, i, s) = Ents(S, g, i)[s]
    <3>1. PICK x : x = Ents(S, g, i)[s]
      OBVIOUS
    <3>2. \A f \in D : Ents(S, f, i)[s] = x
      BY <2>4, <3>1
    <3>3. CASE x = None
      <4>1. known = {}
        BY <3>2, <3>3
      <4> QED
        BY <4>1, <2>1, <3>1, <3>3
    <3>4. CASE x # None
      <4>1. known = {x} /\ ~none
        BY <3>2, <3>4
      <4>2. UNION {x} = x
        OBVIOUS
      <4> QED
        BY <4>1, <4>2, <2>1, <3>1
    <3> QED
      BY <3>3, <3>4
  <2> QED
    BY <2>1, <2>3, <2>4
<1>3. MergedEnts(S, D, i) = [s \in Slots |-> MergedValue(S, D, i, s)]
  BY DEF MergedEnts, MergedValue
<1>4. MergedEnts(S, D, i) \in EntryMaps
  BY <1>2, <1>3 DEF EntryMaps
<1> QED
  BY <1>2, <1>3, <1>4

(* A table that gets the merged entries.                                   *)
LEMMA WithMerged ==
    ASSUME NEW M \in TabType, M.empty => NoEntries(M.ents), NEW merged \in EntryMaps
    PROVE  /\ withMerged(M, merged) \in TabType /\ withMerged(M, merged).ref = M.ref
           /\ withMerged(M, merged).ents = merged
           /\ withMerged(M, merged).empty => NoEntries(merged)
<1> DEFINE still == M.empty /\ \A s \in Slots : M.ents[s] = None => merged[s] = None
<1>1. withMerged(M, merged) = [M EXCEPT !.ents = merged, !.empty = still]
  BY DEF withMerged
<1>2. still \in BOOLEAN
  BY TabFields
<1>3. still => NoEntries(merged)
  BY DEF NoEntries
<1> HIDE DEF still
<1> QED
  BY <1>1, <1>2, <1>3 DEF TabType, EntryMaps

(* The map that a merge makes.                                             *)
MergedMap(S, D, g, M) ==
    Flagged([M EXCEPT !.aoc = \E f \in D : Of(S, f).aoc],
            {o \in Of(S, g).na : \A f \in D : o \in Of(S, f).na},
            {o \in Of(S, g).ue : \A f \in D : o \in Of(S, f).ue})

(* The merged map has the flags that all maps have, and none out of        *)
(* scope.                                                                  *)
LEMMA MergedMapFields ==
    ASSUME NEW S, Sound(S), NEW D, NEW g \in Edges, Has(S, g), NEW M \in MapType,
           NEW R, R = MergedMap(S, D, g, M)
    PROVE  /\ R \in MapType /\ R.ref = M.ref /\ R.depth = M.depth /\ R.tabs = M.tabs
           /\ R.aoc <=> SomeClobbered(S, D)
           /\ R.na = {o \in Of(S, g).na : \A f \in D : o \in Of(S, f).na}
           /\ R.ue = {o \in Of(S, g).ue : \A f \in D : o \in Of(S, f).ue}
           /\ R.na \subseteq Scope(S, g) /\ R.ue \subseteq Scope(S, g)
<1> DEFINE some == \E f \in D : Of(S, f).aoc
           na == {o \in Of(S, g).na : \A f \in D : o \in Of(S, f).na}
           ue == {o \in Of(S, g).ue : \A f \in D : o \in Of(S, f).ue}
           Q == [M EXCEPT !.aoc = some]
<1>1. R = Flagged(Q, na, ue)
  BY DEF MergedMap
<1>2. na \subseteq Scope(S, g) /\ ue \subseteq Scope(S, g)
  BY InScope
<1>3. na \in SUBSET (Levels \X Slots) /\ ue \in SUBSET (Levels \X Slots)
  BY <1>2, InScope
<1>4. some \in BOOLEAN /\ (some <=> SomeClobbered(S, D))
  BY DEF SomeClobbered
<1> HIDE DEF some, na, ue
<1>5. /\ Q \in MapType /\ Q.ref = M.ref /\ Q.depth = M.depth /\ Q.tabs = M.tabs
      /\ Q.aoc = some
  BY <1>4 DEF MapType
<1> HIDE DEF Q
<1>6. /\ R \in MapType /\ R.ref = Q.ref /\ R.depth = Q.depth /\ R.tabs = Q.tabs
      /\ R.aoc = Q.aoc /\ R.na = na /\ R.ue = ue
  BY <1>1, <1>3, <1>5, FlaggedFields
<1> QED
  BY <1>2, <1>4, <1>5, <1>6 DEF na, ue

(* doMerge: g has, of each object, the union of what the edges D know of   *)
(* it, the flags that all of them have, and allOthersClobbered if one has; *)
(* no other edge sees a difference.                                        *)
Merged(S, T, D, g) ==
    /\ Of(T, g).depth = Of(S, g).depth
    /\ Of(T, g).aoc <=> SomeClobbered(S, D)
    /\ Of(T, g).na = {o \in Of(S, g).na : \A f \in D : o \in Of(S, f).na}
    /\ Of(T, g).ue = {o \in Of(S, g).ue : \A f \in D : o \in Of(S, f).ue}
    /\ \A i \in Levels, s \in Slots : Ents(T, g, i)[s] = MergedValue(S, D, i, s)

(* doMerge leaves the store sound and does that to edge g.                 *)
LEMMA MergeSound ==
    ASSUME NEW S, Sound(S), NEW D, D \subseteq Edges, \A f \in D : Has(S, f), NEW g \in D,
           \A f \in D : Of(S, f).depth = Of(S, g).depth,
           NEW T, T = doMerge(S, D, g)
    PROVE  Sound(T) /\ Has(T, g) /\ AgreeBesides(S, T, g) /\ Merged(S, T, D, g)
<1> DEFINE I == {i \in 0..Of(S, g).depth : \E f \in D : Of(S, f).tabs[i] # Of(S, g).tabs[i]}
<1>g. g \in Edges /\ Has(S, g)
  OBVIOUS
<1>1. CASE \A f \in D : S.at[f] = S.at[g]
  <2>1. T = S
    BY <1>1 DEF doMerge
  <2>2. \A f \in D : Of(S, f) = Of(S, g)
    BY <1>1, SharedMap
  <2>3. \A i \in Levels : \A f \in D : Ents(S, f, i) = Ents(S, g, i)
    BY <1>1, SharedMap
  <2>4. \A i \in Levels, s \in Slots : MergedValue(S, D, i, s) = Ents(S, g, i)[s]
    BY <2>3, MergedFields
  <2>5. Of(S, g).aoc <=> SomeClobbered(S, D)
    BY <2>2 DEF SomeClobbered
  <2>6. /\ Of(S, g).na = {o \in Of(S, g).na : \A f \in D : o \in Of(S, f).na}
        /\ Of(S, g).ue = {o \in Of(S, g).ue : \A f \in D : o \in Of(S, f).ue}
    BY <2>2
  <2>7. AgreeBesides(S, S, g)
    BY DEF AgreeBesides, Agree
  <2> QED
    BY <1>g, <2>1, <2>4, <2>5, <2>6, <2>7 DEF Merged
<1>2. CASE ~\A f \in D : S.at[f] = S.at[g]
  <2>i. I \subseteq 0..Of(S, g).depth /\ I \subseteq Levels
    BY <1>g, InScope DEF Levels
  <2>j. ASSUME NEW i \in Levels, i \notin I, NEW f \in D
        PROVE  Of(S, f).tabs[i] = Of(S, g).tabs[i]
    <3>1. CASE i \in 0..Of(S, g).depth
      BY <3>1, <2>j
    <3>2. CASE i \notin 0..Of(S, g).depth
      <4>1. S.at[f] \in MapIds /\ S.at[g] \in MapIds /\ Of(S, f) = S.map[S.at[f]]
            /\ Of(S, g) = S.map[S.at[g]]
        BY InUse DEF Has, Of
      <4>2. SoundMap(S, S.at[f]) /\ SoundMap(S, S.at[g])
        BY <4>1, SoundFields
      <4>3. i \in Levels \ {0} /\ ~(i <= Of(S, g).depth)
        BY <1>g, <3>2, InScope, CowAssumption DEF Levels
      <4>4. Of(S, f).tabs[i] = NoTab /\ Of(S, g).tabs[i] = NoTab
        BY <4>1, <4>2, <4>3 DEF SoundMap
      <4> QED
        BY <4>4
    <3> QED
      BY <3>1, <3>2
  <2>k. ASSUME NEW i \in Levels, i \notin I, NEW s \in Slots
        PROVE  MergedValue(S, D, i, s) = Ents(S, g, i)[s]
    <3>1. \A f \in D : Ents(S, f, i) = Ents(S, g, i)
      BY <2>k, <2>j DEF Ents
    <3> QED
      BY <3>1, MergedFields
  <2> DEFINE W == Prepared(S, g, I)
  <2>w. /\ Sound(W) /\ Has(W, g) /\ Alone(W, g)
        /\ \A f \in Edges : Agree(S, W, f)
        /\ \A i \in I : Owns(W, g, i)
    BY <1>g, <2>i, PreparedSound
  <2>t. T = [W EXCEPT
               !.map = [W.map EXCEPT ![W.at[g]] = MergedMap(S, D, g, W.map[W.at[g]])],
               !.tab = [i \in Levels |-> [k \in MapIds |->
                 IF i \notin I \/ k # Of(W, g).tabs[i] THEN W.tab[i][k]
                 ELSE withMerged(W.tab[i][k], MergedEnts(S, D, i))]]]
    BY <1>2 DEF doMerge, Prepared, MergedMap, MergedEnts
  <2> HIDE DEF I, W
  <2> DEFINE N == [i \in I |-> withMerged(TableOf(W, g, i), MergedEnts(S, D, i))]
             R == MergedMap(S, D, g, Of(W, g))
  <2>s. /\ W = [map |-> W.map, tab |-> W.tab, at |-> W.at] /\ W.map \in [MapIds -> MapType]
        /\ \A i \in Levels, k \in MapIds : SoundTab(W, i, k) /\ W.tab[i][k] \in TabType
    BY <2>w, SoundFields
  <2>m. W.at[g] \in MapIds /\ Of(W, g) \in MapType /\ Of(W, g) = W.map[W.at[g]]
    BY <1>g, <2>w, InUse DEF Of, Has
  <2>o. \A i \in I : Of(W, g).tabs[i] \in MapIds /\ TableOf(W, g, i).ref = 1
    BY <2>w DEF Owns
  <2>c. SameMap(S, W, g) /\ \A i \in Levels : Ents(W, g, i) = Ents(S, g, i)
    BY <1>g, <2>w DEF Agree, Has, SameMap
  <2>r. /\ R \in MapType /\ R.ref = Of(W, g).ref /\ R.depth = Of(W, g).depth /\ R.tabs = Of(W, g).tabs
        /\ R.aoc <=> SomeClobbered(S, D)
        /\ R.na = {o \in Of(S, g).na : \A f \in D : o \in Of(S, f).na}
        /\ R.ue = {o \in Of(S, g).ue : \A f \in D : o \in Of(S, f).ue}
        /\ R.na \subseteq Scope(S, g) /\ R.ue \subseteq Scope(S, g)
    BY <1>g, <2>m, MergedMapFields
  <2>q. R.ref = 1 /\ R.na \subseteq Scope(W, g) /\ R.ue \subseteq Scope(W, g)
    BY <2>r, <2>w, <2>c DEF Alone, Scope, SameMap
  <2>1. ASSUME NEW i \in I
        PROVE  /\ N[i] \in TabType /\ N[i].ref = 1 /\ N[i].ents = MergedEnts(S, D, i)
               /\ N[i].empty => NoEntries(N[i].ents)
    <3>1. TableOf(W, g, i) \in TabType /\ TableOf(W, g, i).ref = 1
          /\ (TableOf(W, g, i).empty => NoEntries(TableOf(W, g, i).ents))
      BY <2>o, <2>s, <2>i DEF TableOf, SoundTab
    <3>2. MergedEnts(S, D, i) \in EntryMaps
      BY <2>i, MergedFields
    <3>3. N[i] = withMerged(TableOf(W, g, i), MergedEnts(S, D, i))
      OBVIOUS
    <3>4. PICK M, n : M = TableOf(W, g, i) /\ n = MergedEnts(S, D, i)
      OBVIOUS
    <3> HIDE DEF N
    <3>5. M \in TabType /\ n \in EntryMaps /\ N[i] = withMerged(M, n) /\ M.ref = 1
          /\ (M.empty => NoEntries(M.ents))
      BY <3>1, <3>2, <3>3, <3>4
    <3>6. N[i] \in TabType /\ N[i].ref = 1 /\ N[i].ents = n /\ (N[i].empty => NoEntries(n))
      BY <3>5, WithMerged
    <3> QED
      BY <3>4, <3>6
  <2>2. /\ T = [map |-> T.map, tab |-> T.tab, at |-> T.at] /\ T.at = W.at
        /\ T.map = [W.map EXCEPT ![W.at[g]] = R]
        /\ T.tab = [i \in Levels |-> [k \in MapIds |->
                 IF i \notin I \/ k # Of(W, g).tabs[i] THEN W.tab[i][k]
                 ELSE withMerged(W.tab[i][k], MergedEnts(S, D, i))]]
    BY <2>t, <2>s, <2>m
  <2> HIDE DEF R
  <2>3. ASSUME NEW i \in Levels, NEW k \in MapIds
        PROVE  T.tab[i][k] = IF i \notin I \/ k # Of(W, g).tabs[i] THEN W.tab[i][k] ELSE N[i]
    <3>1. T.tab[i][k] = IF i \notin I \/ k # Of(W, g).tabs[i] THEN W.tab[i][k]
                  ELSE withMerged(W.tab[i][k], MergedEnts(S, D, i))
      BY <2>2
    <3> QED
      BY <3>1 DEF TableOf
  <2>4. /\ T.map = [p \in MapIds |-> IF p = W.at[g] THEN R ELSE W.map[p]]
        /\ T.tab = [i \in Levels |-> [k \in MapIds |-> T.tab[i][k]]]
    BY <2>2, <2>m, <2>s
  <2>a. Wrote(W, T, g, I, R, N)
    <3>1. \A i \in I : N[i] \in TabType /\ N[i].ref = 1 /\ (N[i].empty => NoEntries(N[i].ents))
      BY <2>1
    <3> HIDE DEF N
    <3> QED
      BY <3>1, <2>i, <2>w, <2>r, <2>q, <2>2, <2>3, <2>4 DEF Wrote
  <2>6. /\ Sound(T) /\ Has(T, g) /\ Of(T, g) = R /\ AgreeBesides(W, T, g)
        /\ \A i \in Levels : i \notin I => Ents(T, g, i) = Ents(W, g, i)
        /\ \A i \in I : Ents(T, g, i) = N[i].ents
    <3> HIDE DEF N
    <3> QED
      BY <1>g, <2>a, <2>w, WriteSound
  <2>7. ASSUME NEW i \in Levels, NEW s \in Slots
        PROVE  Ents(T, g, i)[s] = MergedValue(S, D, i, s)
    <3>1. CASE i \notin I
      BY <3>1, <2>6, <2>c, <2>k
    <3>2. CASE i \in I
      <4>1. Ents(T, g, i) = MergedEnts(S, D, i)
        BY <3>2, <2>6, <2>1
      <4> QED
        BY <4>1, MergedFields
    <3> QED
      BY <3>1, <3>2
  <2>8. AgreeBesides(S, T, g)
    BY <2>6, <2>w, AgreeTrans DEF AgreeBesides
  <2>9. Merged(S, T, D, g)
    BY <2>6, <2>7, <2>c, <2>r DEF SameMap, Merged
  <2> QED
    BY <2>6, <2>8, <2>9
<1> QED
  BY <1>1, <1>2

(***************************************************************************)
(* Flags.                                                                  *)
(***************************************************************************)
(* Edge e has the same objects in S and in T, and no other edge sees a     *)
(* difference.                                                             *)
SameObjects(S, T, e) ==
    /\ Of(T, e).depth = Of(S, e).depth /\ Of(T, e).aoc = Of(S, e).aoc
    /\ \A i \in Levels : Ents(T, e, i) = Ents(S, e, i)
OnlyFlags(S, T, e) == Sound(T) /\ Has(T, e) /\ AgreeBesides(S, T, e) /\ SameObjects(S, T, e)

(* Such changes compose.                                                   *)
LEMMA OnlyFlagsTrans ==
    ASSUME NEW S, NEW T, NEW U, NEW e, OnlyFlags(S, T, e), OnlyFlags(T, U, e)
    PROVE  OnlyFlags(S, U, e)
<1>1. AgreeBesides(S, U, e)
  BY AgreeTrans DEF AgreeBesides, OnlyFlags
<1>2. SameObjects(S, U, e)
  BY DEF SameObjects, OnlyFlags
<1> QED
  BY <1>1, <1>2 DEF OnlyFlags

(* A map made private for its flags' sake.                                 *)
LEMMA PrivateFlags ==
    ASSUME NEW S, Sound(S), NEW e \in Edges, Has(S, e), NEW T, T = getWritableFrameList(S, e)
    PROVE  OnlyFlags(S, T, e) /\ Alone(T, e) /\ Of(T, e).na = Of(S, e).na /\ Of(T, e).ue = Of(S, e).ue
<1>1. Sound(T) /\ T.at[e] # NoMap /\ Of(T, e).ref = 1 /\ \A f \in Edges : Agree(S, T, f)
  BY FrameListSound DEF Has
<1>2. Agree(S, T, e) /\ AgreeBesides(S, T, e)
  BY <1>1 DEF AgreeBesides
<1>3. /\ SameObjects(S, T, e) /\ Of(T, e).na = Of(S, e).na /\ Of(T, e).ue = Of(S, e).ue
  BY <1>2 DEF Agree, Has, SameObjects
<1> QED
  BY <1>1, <1>2, <1>3 DEF OnlyFlags, Has, Alone

(* A private copy, and then its flags are set.                             *)
LEMMA SetFlags ==
    ASSUME NEW S, Sound(S), NEW e \in Edges, Has(S, e),
           NEW na, na \subseteq Of(S, e).na, NEW ue, ue \subseteq Of(S, e).ue,
           NEW T, T = withFlags(getWritableFrameList(S, e), e, na, ue)
    PROVE  OnlyFlags(S, T, e) /\ Of(T, e).na = na /\ Of(T, e).ue = ue
<1> DEFINE V == getWritableFrameList(S, e)
<1>1. OnlyFlags(S, V, e) /\ Alone(V, e) /\ Of(V, e).na = Of(S, e).na /\ Of(V, e).ue = Of(S, e).ue
  BY PrivateFlags
<1>t. T = withFlags(V, e, na, ue)
  OBVIOUS
<1> HIDE DEF V
<1>2. Sound(V) /\ Has(V, e)
  BY <1>1 DEF OnlyFlags
<1>3. Within(na, V, e) /\ Within(ue, V, e)
  BY <1>1, <1>2, InScope DEF Within
<1>4. /\ Sound(T) /\ Has(T, e) /\ AgreeBesides(V, T, e)
      /\ Of(T, e).depth = Of(V, e).depth /\ Of(T, e).aoc = Of(V, e).aoc
      /\ Of(T, e).na = na /\ Of(T, e).ue = ue
      /\ \A i \in Levels : Ents(T, e, i) = Ents(V, e, i)
  BY <1>1, <1>2, <1>3, <1>t, WithFlags
<1>5. OnlyFlags(V, T, e)
  BY <1>4 DEF OnlyFlags, SameObjects
<1> QED
  BY <1>1, <1>4, <1>5, OnlyFlagsTrans

(* pointerEscaped.                                                         *)
LEMMA Escapes ==
    ASSUME NEW S, Sound(S), NEW e \in Edges, Has(S, e), NEW E, NEW T, T = pointerEscaped(S, e, E)
    PROVE  OnlyFlags(S, T, e) /\ Of(T, e).na = Of(S, e).na /\ Of(T, e).ue = Of(S, e).ue \ E
<1>0. OnlyFlags(S, S, e)
  BY DEF OnlyFlags, AgreeBesides, Agree, SameObjects
<1>1. CASE E \cap Of(S, e).ue = {}
  BY <1>0, <1>1 DEF pointerEscaped
<1>2. CASE E \cap Of(S, e).ue # {}
  <2> DEFINE V == getWritableFrameList(S, e)
  <2>1. T = withFlags(V, e, Of(V, e).na, Of(V, e).ue \ E)
    BY <1>2 DEF pointerEscaped
  <2>2. Of(V, e).na = Of(S, e).na /\ Of(V, e).ue = Of(S, e).ue
    BY PrivateFlags
  <2>3. T = withFlags(V, e, Of(S, e).na, Of(S, e).ue \ E)
    BY <2>1, <2>2
  <2> QED
    BY <2>3, SetFlags
<1> QED
  BY <1>1, <1>2

(* setObjectsMayAliasOld: those reachable from what was stored, or all     *)
(* that have escaped.                                                      *)
LEMMA MayAlias ==
    ASSUME NEW S, Sound(S), NEW e \in Edges, Has(S, e), NEW w,
           NEW T, T = setObjectsMayAliasOld(S, e, w)
    PROVE  /\ OnlyFlags(S, T, e) /\ Of(T, e).ue = Of(S, e).ue
           /\ Of(T, e).na = IF w.any = "all" THEN Of(S, e).na \cap Of(S, e).ue
                            ELSE Of(S, e).na \ (w.p \cup w.reach)
<1> DEFINE V == getWritableFrameList(S, e)
           R == w.p \cup w.reach
<1>0. OnlyFlags(S, S, e)
  BY DEF OnlyFlags, AgreeBesides, Agree, SameObjects
<1>v. Of(V, e).na = Of(S, e).na /\ Of(V, e).ue = Of(S, e).ue
  BY PrivateFlags
<1>1. CASE w.any = "all"
  <2>1. T = withFlags(V, e, Of(V, e).na \cap Of(V, e).ue, Of(V, e).ue)
    BY <1>1 DEF setObjectsMayAliasOld, setAllObjectsMayAliasOld
  <2>2. T = withFlags(V, e, Of(S, e).na \cap Of(S, e).ue, Of(S, e).ue)
    BY <1>v, <2>1
  <2> QED
    BY <1>1, <2>2, SetFlags
<1>2. CASE w.any # "all"
  <2>1. T = setMayAliasOld(S, e, R)
    BY <1>2 DEF setObjectsMayAliasOld
  <2> HIDE DEF R
  <2>2. CASE R \cap Of(S, e).na = {}
    <3>1. T = S
      BY <2>1, <2>2 DEF setMayAliasOld
    <3> QED
      BY <1>0, <1>2, <2>2, <3>1 DEF R
  <2>3. CASE R \cap Of(S, e).na # {}
    <3>1. T = withFlags(V, e, Of(V, e).na \ R, Of(V, e).ue)
      BY <2>1, <2>3 DEF setMayAliasOld
    <3>2. T = withFlags(V, e, Of(S, e).na \ R, Of(S, e).ue)
      BY <1>v, <3>1
    <3>3. OnlyFlags(S, T, e) /\ Of(T, e).na = Of(S, e).na \ R /\ Of(T, e).ue = Of(S, e).ue
      BY <3>2, SetFlags
    <3> QED
      BY <1>2, <3>3 DEF R
  <2> QED
    BY <2>2, <2>3
<1> QED
  BY <1>1, <1>2

(* setObjectsThreadGlobal.                                                 *)
LEMMA ThreadGlobal ==
    ASSUME NEW S, Sound(S), NEW e \in Edges, Has(S, e), NEW w,
           NEW T, T = setObjectsThreadGlobal(S, e, w)
    PROVE  OnlyFlags(S, T, e) /\ Of(T, e).na = Of(S, e).na /\ Of(T, e).ue = Of(S, e).ue
<1>0. OnlyFlags(S, S, e)
  BY DEF OnlyFlags, AgreeBesides, Agree, SameObjects
<1>1. CASE w.any = "none"
  BY <1>0, <1>1 DEF setObjectsThreadGlobal
<1>2. CASE w.any # "none"
  <2>1. T = getWritableFrameList(S, e)
    BY <1>2 DEF setObjectsThreadGlobal, setAllObjectsThreadGlobal
  <2> QED
    BY <2>1, PrivateFlags
<1> QED
  BY <1>1, <1>2

(* propagateStoreFlags, when it does something.                            *)
Unaliased(na, ue, w) == IF w.any = "all" THEN na \cap ue ELSE na \ (w.p \cup w.reach)

(* Flags are lost on this edge, and that is all.                           *)
LEMMA Propagates ==
    ASSUME NEW S, Sound(S), NEW e \in Edges, Has(S, e), NEW w,
           NEW T, T = setObjectsThreadGlobal(setObjectsMayAliasOld(S, e, w), e, w)
    PROVE  /\ OnlyFlags(S, T, e) /\ Of(T, e).ue = Of(S, e).ue
           /\ Of(T, e).na = Unaliased(Of(S, e).na, Of(S, e).ue, w)
<1> DEFINE V == setObjectsMayAliasOld(S, e, w)
<1>1. /\ OnlyFlags(S, V, e) /\ Of(V, e).ue = Of(S, e).ue
      /\ Of(V, e).na = IF w.any = "all" THEN Of(S, e).na \cap Of(S, e).ue
                       ELSE Of(S, e).na \ (w.p \cup w.reach)
  BY MayAlias
<1>2. T = setObjectsThreadGlobal(V, e, w)
  OBVIOUS
<1> HIDE DEF V
<1>3. Sound(V) /\ Has(V, e)
  BY <1>1 DEF OnlyFlags
<1>4. OnlyFlags(V, T, e) /\ Of(T, e).na = Of(V, e).na /\ Of(T, e).ue = Of(V, e).ue
  BY <1>2, <1>3, ThreadGlobal
<1>5. OnlyFlags(S, T, e)
  BY <1>1, <1>4, OnlyFlagsTrans
<1> QED
  BY <1>1, <1>4, <1>5 DEF Unaliased

(***************************************************************************)
(* Stack frames.                                                           *)
(***************************************************************************)
(* Edge e's map, which it has to itself, becomes R, and differs from what  *)
(* it was in the table at level d.                                         *)
Resized(S, T, e, d, R) ==
    /\ R \in MapType /\ R.ref = 1
    /\ \A i \in Levels : i # d => R.tabs[i] = Of(S, e).tabs[i]
    /\ \A i \in Levels \ {0} : R.tabs[i] # NoTab <=> i <= R.depth
    /\ R.na \subseteq (0..R.depth) \X Slots /\ R.ue \subseteq (0..R.depth) \X Slots
    /\ T = [map |-> T.map, tab |-> T.tab, at |-> T.at] /\ T.at = S.at
    /\ T.map = [p \in MapIds |-> IF p = S.at[e] THEN R ELSE S.map[p]]
    /\ T.tab = [i \in Levels |-> [k \in MapIds |-> T.tab[i][k]]]
    /\ \A i \in Levels, k \in MapIds : i # d => T.tab[i][k] = S.tab[i][k]
    /\ Replaced(S, T, d, Of(S, e).tabs[d], R.tabs[d])

(* That leaves the store sound, and the other edges alone.                 *)
LEMMA ResizedSound ==
    ASSUME NEW S, Sound(S), NEW e \in Edges, Has(S, e), Alone(S, e),
           NEW d \in Levels, NEW R, NEW T, Resized(S, T, e, d, R)
    PROVE  /\ Sound(T) /\ Has(T, e) /\ Of(T, e) = R /\ AgreeBesides(S, T, e)
           /\ \A i \in Levels : i # d => Ents(T, e, i) = Ents(S, e, i)
           /\ Ents(T, e, d) = Entries(T, d, R.tabs[d])
<1> DEFINE m == S.at[e]
<1>s. \A i \in Levels, k \in MapIds : SoundTab(S, i, k) /\ S.tab[i][k] \in TabType
  BY SoundFields
<1>m. m \in MapIds /\ Of(S, e) = S.map[m] /\ S.map[m].ref = 1 /\ S.map[m] \in MapType
  BY InUse DEF Of, Has, Alone
<1>e. m = S.at[e] /\ m # NoMap
  BY DEF Has
<1>t. /\ R \in MapType /\ R.ref = 1
      /\ \A i \in Levels : i # d => R.tabs[i] = S.map[m].tabs[i]
      /\ \A i \in Levels \ {0} : R.tabs[i] # NoTab <=> i <= R.depth
      /\ R.na \subseteq (0..R.depth) \X Slots /\ R.ue \subseteq (0..R.depth) \X Slots
  BY <1>m DEF Resized
<1>u. /\ T = [map |-> T.map, tab |-> T.tab, at |-> T.at] /\ T.at = S.at
      /\ T.map = [p \in MapIds |-> IF p = m THEN R ELSE S.map[p]]
      /\ T.tab = [i \in Levels |-> [k \in MapIds |-> T.tab[i][k]]]
  BY DEF Resized
<1>k. \A i \in Levels, k \in MapIds : i # d => T.tab[i][k] = S.tab[i][k]
  BY DEF Resized
<1>r. Replaced(S, T, d, S.map[m].tabs[d], R.tabs[d])
  BY <1>m DEF Resized
<1> HIDE DEF m
<1>1. T.map[m] = R /\ Of(T, e) = R
  BY <1>u, <1>m, <1>e DEF Of
<1>2. ASSUME NEW i \in Levels, i # d
      PROVE  R.tabs[i] = S.map[m].tabs[i] /\ Kept(S, T, i, S.map[m].tabs[i])
  <2> DEFINE k == S.map[m].tabs[i]
  <2>1. R.tabs[i] = k
    BY <1>t, <1>2
  <2>2. k \in MapIds \cup {NoTab}
    BY <1>m, MapFields
  <2>3. \A j \in MapIds : T.tab[i][j] = S.tab[i][j]
    BY <1>k, <1>2
  <2> HIDE DEF k
  <2>4. k # NoTab => SoundTab(S, i, k) /\ S.tab[i][k] \in TabType
    BY <2>2, <1>s
  <2>5. Kept(S, T, i, k)
    BY <2>2, <2>3, <2>4 DEF Kept, SoundTab
  <2> QED
    BY <2>1, <2>5 DEF k
<1>3. \A i \in Levels : \/ R.tabs[i] = S.map[m].tabs[i] /\ Kept(S, T, i, S.map[m].tabs[i])
                        \/ Replaced(S, T, i, S.map[m].tabs[i], R.tabs[i])
  BY <1>2, <1>r
<1>4. Retabled(S, T, m)
  BY <1>1, <1>3, <1>t, <1>u, <1>m DEF Retabled
<1>5. Sound(T) /\ \A f \in Edges : S.at[f] # m => Agree(S, T, f)
  BY <1>4, <1>m, RetabledSound
<1>6. AgreeBesides(S, T, e)
  BY <1>5, <1>e, AloneOnly DEF AgreeBesides
<1>7. ASSUME NEW i \in Levels, i # d
      PROVE  Ents(T, e, i) = Ents(S, e, i)
  <2> DEFINE k == S.map[m].tabs[i]
  <2>1. k \in MapIds \cup {NoTab}
    BY <1>m, MapFields
  <2>2. Ents(T, e, i) = Entries(T, i, k) /\ Ents(S, e, i) = Entries(S, i, k)
    BY <1>1, <1>2, <1>7, <1>m DEF Ents
  <2>3. k # NoTab => T.tab[i][k] = S.tab[i][k]
    BY <2>1, <1>k, <1>7
  <2> HIDE DEF k
  <2> QED
    BY <2>2, <2>3 DEF Entries
<1>8. Has(T, e) /\ Ents(T, e, d) = Entries(T, d, R.tabs[d])
  BY <1>1, <1>u, <1>e DEF Has, Ents
<1> QED
  BY <1>1, <1>5, <1>6, <1>7, <1>8

(* Fields of a map with a frame more or less.                              *)
Framed(M, c, d, k) == [M EXCEPT !.depth = c, !.tabs[d] = k]

(* A map with a frame more or less is otherwise the same.                  *)
LEMMA FrameFields ==
    ASSUME NEW M \in MapType, NEW c \in Levels, NEW d \in Levels, NEW k \in MapIds \cup {NoTab},
           NEW R, R = Framed(M, c, d, k)
    PROVE  /\ R \in MapType /\ R.ref = M.ref /\ R.depth = c /\ R.aoc = M.aoc
           /\ R.na = M.na /\ R.ue = M.ue
           /\ R.tabs[d] = k /\ \A i \in Levels : i # d => R.tabs[i] = M.tabs[i]
<1> DEFINE X == [M.tabs EXCEPT ![d] = k]
<1>1. M.tabs \in [Levels -> MapIds \cup {NoTab}]
  BY MapFields
<1>2. X \in [Levels -> MapIds \cup {NoTab}] /\ X[d] = k /\ \A i \in Levels : i # d => X[i] = M.tabs[i]
  BY <1>1
<1>3. R = [M EXCEPT !.depth = c, !.tabs = X]
  BY DEF Framed
<1> HIDE DEF X
<1>4. /\ R \in MapType /\ R.ref = M.ref /\ R.depth = c /\ R.aoc = M.aoc
      /\ R.na = M.na /\ R.ue = M.ue /\ R.tabs = X
  BY <1>2, <1>3 DEF MapType
<1> QED
  BY <1>2, <1>4

(* A new frame has no entries.                                             *)
LEMMA PushSound ==
    ASSUME NEW S, Sound(S), NEW e \in Edges, Has(S, e), Of(S, e).depth < MaxDepth,
           NEW T, T = pushStackFrame(S, e)
    PROVE  /\ Sound(T) /\ Has(T, e) /\ AgreeBesides(S, T, e)
           /\ Of(T, e).depth = Of(S, e).depth + 1 /\ Of(T, e).aoc = Of(S, e).aoc
           /\ Of(T, e).na = Of(S, e).na /\ Of(T, e).ue = Of(S, e).ue
           /\ \A i \in Levels : Ents(T, e, i) = Ents(S, e, i)
           /\ NoEntries(Ents(T, e, Of(T, e).depth))
<1> DEFINE V == getWritableFrameList(S, e)
           m == V.at[e]
           d == Of(V, e).depth + 1
           n == NewTab(V, d)
           R == [V.map[m] EXCEPT !.depth = d, !.tabs[d] = n]
<1>v. /\ OnlyFlags(S, V, e) /\ Alone(V, e) /\ Of(V, e).na = Of(S, e).na /\ Of(V, e).ue = Of(S, e).ue
  BY PrivateFlags
<1>w. /\ Sound(V) /\ Has(V, e) /\ AgreeBesides(S, V, e) /\ SameObjects(S, V, e)
  BY <1>v DEF OnlyFlags
<1>t. T = [V EXCEPT !.map = [V.map EXCEPT ![m] = R], !.tab = [V.tab EXCEPT ![d] = [V.tab[d] EXCEPT ![n] = NewTable]]]
  BY DEF pushStackFrame
<1>d. d = Of(V, e).depth + 1 /\ m = V.at[e]
  OBVIOUS
<1> HIDE DEF V
<1>s. /\ V = [map |-> V.map, tab |-> V.tab, at |-> V.at] /\ V.map \in [MapIds -> MapType]
      /\ V.tab \in [Levels -> [MapIds -> TabType]]
      /\ \A p \in MapIds : SoundMap(V, p)
  BY <1>w, SoundFields
<1>m. m \in MapIds /\ Of(V, e) = V.map[m] /\ V.map[m].ref = 1 /\ V.map[m] \in MapType
  BY <1>w, <1>v, InUse DEF Of, Has, Alone
<1> HIDE DEF m
<1>1. d \in Levels /\ d # 0 /\ V.map[m].depth \in Nat /\ d = V.map[m].depth + 1
      /\ Of(S, e).depth + 1 = d
  <2>1. Of(V, e).depth = Of(S, e).depth
    BY <1>w DEF SameObjects
  <2>2. Of(S, e).depth \in Nat
    BY InScope, CowAssumption DEF Levels
  <2> QED
    BY <2>1, <2>2, <1>d, <1>m, CowAssumption DEF Levels
<1> HIDE DEF d
<1>2. V.map[m].tabs[d] = NoTab
  <2>1. SoundMap(V, m)
    BY <1>s, <1>m
  <2>2. ~(d <= V.map[m].depth)
    BY <1>1
  <2> QED
    BY <2>1, <2>2, <1>1 DEF SoundMap
<1>3. n \in MapIds /\ V.tab[d][n] = FreeTab
  BY <1>w, <1>2, <1>1, <1>m, NewTabFree DEF Sound
<1> HIDE DEF n
<1>4. /\ R \in MapType /\ R.ref = 1 /\ R.depth = d /\ R.aoc = V.map[m].aoc
      /\ R.na = V.map[m].na /\ R.ue = V.map[m].ue
      /\ R.tabs[d] = n /\ \A i \in Levels : i # d => R.tabs[i] = V.map[m].tabs[i]
  <2>1. PICK M : M = V.map[m]
    OBVIOUS
  <2>2. R = Framed(M, d, d, n)
    BY <2>1 DEF Framed
  <2> HIDE DEF R
  <2>3. M \in MapType /\ M.ref = 1 /\ n \in MapIds \cup {NoTab}
    BY <2>1, <1>m, <1>3
  <2>4. /\ R \in MapType /\ R.ref = M.ref /\ R.depth = d /\ R.aoc = M.aoc
        /\ R.na = M.na /\ R.ue = M.ue
        /\ R.tabs[d] = n /\ \A i \in Levels : i # d => R.tabs[i] = M.tabs[i]
    BY <2>2, <2>3, <1>1, FrameFields
  <2> QED
    BY <2>1, <2>3, <2>4
<1> HIDE DEF R
<1>5. /\ T = [map |-> T.map, tab |-> T.tab, at |-> T.at] /\ T.at = V.at
      /\ T.map = [V.map EXCEPT ![m] = R]
      /\ T.tab = [V.tab EXCEPT ![d] = [V.tab[d] EXCEPT ![n] = NewTable]]
  BY <1>t, <1>s
<1>6. /\ T.map = [p \in MapIds |-> IF p = m THEN R ELSE V.map[p]]
      /\ T.tab = [i \in Levels |-> [k \in MapIds |-> T.tab[i][k]]]
      /\ \A i \in Levels, k \in MapIds : i # d => T.tab[i][k] = V.tab[i][k]
      /\ \A k \in MapIds : T.tab[d][k] = IF k = n THEN NewTable ELSE V.tab[d][k]
  <2>1. T.map = [p \in MapIds |-> IF p = m THEN R ELSE V.map[p]]
    BY <1>5, <1>s, <1>m
  <2>2. /\ \A i \in Levels, k \in MapIds : i # d => T.tab[i][k] = V.tab[i][k]
        /\ \A k \in MapIds : T.tab[d][k] = IF k = n THEN NewTable ELSE V.tab[d][k]
    BY <1>5, <1>s, <1>1, <1>3
  <2>3. T.tab \in [Levels -> [MapIds -> TabType]]
    BY <1>5, <1>s, <1>1, <1>3, FreeFields
  <2>4. T.tab = [i \in Levels |-> [k \in MapIds |-> T.tab[i][k]]]
    BY <2>3
  <2> QED
    BY <2>1, <2>2, <2>4
<1>7. Replaced(V, T, d, NoTab, n)
  BY <1>3, <1>6, FreeFields, MapIdsFinite DEF Replaced
<1>8. /\ R.na \subseteq (0..R.depth) \X Slots /\ R.ue \subseteq (0..R.depth) \X Slots
      /\ \A i \in Levels \ {0} : R.tabs[i] # NoTab <=> i <= R.depth
  <2>1. SoundMap(V, m)
    BY <1>s, <1>m
  <2>2. 0..V.map[m].depth \subseteq 0..d
    BY <1>1
  <2>3. /\ V.map[m].na \subseteq (0..V.map[m].depth) \X Slots
        /\ V.map[m].ue \subseteq (0..V.map[m].depth) \X Slots
        /\ \A i \in Levels \ {0} : V.map[m].tabs[i] # NoTab <=> i <= V.map[m].depth
    BY <2>1 DEF SoundMap
  <2>4. \A i \in Levels : i # d => (i <= V.map[m].depth <=> i <= d)
    BY <1>1, CowAssumption DEF Levels
  <2>5. n # NoTab /\ d <= d
    BY <1>1, <1>3, MapIdsFinite
  <2> QED
    BY <2>2, <2>3, <2>4, <2>5, <1>4
<1>9. Resized(V, T, e, d, R)
  <2>1. \A i \in Levels : i # d => R.tabs[i] = Of(V, e).tabs[i]
    BY <1>4, <1>m
  <2>2. Replaced(V, T, d, Of(V, e).tabs[d], R.tabs[d])
    BY <1>7, <1>2, <1>4, <1>m
  <2>3. T.map = [p \in MapIds |-> IF p = V.at[e] THEN R ELSE V.map[p]]
    BY <1>6, <1>d
  <2>4. R \in MapType /\ R.ref = 1
    BY <1>4
  <2> QED
    BY <2>1, <2>2, <2>3, <2>4, <1>5, <1>6, <1>8 DEF Resized
<1>a. /\ Sound(V) /\ e \in Edges /\ Has(V, e) /\ Alone(V, e)
      /\ d \in Levels /\ Resized(V, T, e, d, R)
  BY <1>1, <1>9, <1>v, <1>w
<1>10. /\ Sound(T) /\ Has(T, e) /\ Of(T, e) = R /\ AgreeBesides(V, T, e)
       /\ \A i \in Levels : i # d => Ents(T, e, i) = Ents(V, e, i)
       /\ Ents(T, e, d) = Entries(T, d, R.tabs[d])
  BY ONLY <1>a, ResizedSound
<1>11. Ents(T, e, d) = FreeTab.ents /\ Ents(V, e, d) = FreeTab.ents
  <2>1. Ents(T, e, d) = FreeTab.ents
    <3>1. T.tab[d][n] = NewTable
      BY <1>6, <1>3
    <3>2. Entries(T, d, n) = T.tab[d][n].ents
      BY <1>3, MapIdsFinite DEF Entries
    <3> QED
      BY <3>1, <3>2, <1>10, <1>4, FreeFields
  <2>2. Ents(V, e, d) = FreeTab.ents
    BY <1>2, <1>m DEF Ents, Entries
  <2> QED
    BY <2>1, <2>2
<1>12. \A i \in Levels : Ents(T, e, i) = Ents(S, e, i)
  BY <1>10, <1>11, <1>w DEF SameObjects
<1>13. AgreeBesides(S, T, e)
  BY <1>10, <1>w, AgreeTrans DEF AgreeBesides
<1>14. NoEntries(Ents(T, e, Of(T, e).depth))
  BY <1>10, <1>11, <1>4, FreeFields
<1>15. /\ Of(T, e).depth = Of(S, e).depth + 1 /\ Of(T, e).aoc = Of(S, e).aoc
       /\ Of(T, e).na = Of(S, e).na /\ Of(T, e).ue = Of(S, e).ue
  BY <1>10, <1>4, <1>1, <1>m, <1>v, <1>w DEF SameObjects
<1> QED
  BY <1>10, <1>12, <1>13, <1>14, <1>15

(* The last frame goes, with its objects and their flags.                  *)
LEMMA PopSound ==
    ASSUME NEW S, Sound(S), NEW e \in Edges, Has(S, e), Of(S, e).depth > 0,
           NEW T, T = popStackFrame(S, e)
    PROVE  /\ Sound(T) /\ Has(T, e) /\ AgreeBesides(S, T, e)
           /\ Of(T, e).depth = Of(S, e).depth - 1 /\ Of(T, e).aoc = Of(S, e).aoc
           /\ Of(T, e).na = Of(S, e).na \ ({Of(S, e).depth} \X Slots)
           /\ Of(T, e).ue = Of(S, e).ue \ ({Of(S, e).depth} \X Slots)
           /\ \A i \in Levels : i # Of(S, e).depth => Ents(T, e, i) = Ents(S, e, i)
<1> DEFINE V == getWritableFrameList(S, e)
           m == V.at[e]
           d == Of(V, e).depth
           local == {d} \X Slots
           k0 == Of(V, e).tabs[d]
           Q == [V.map[m] EXCEPT !.depth = d - 1, !.tabs[d] = NoTab]
           R == Flagged(Q, V.map[m].na \ local, V.map[m].ue \ local)
<1>v. /\ OnlyFlags(S, V, e) /\ Alone(V, e) /\ Of(V, e).na = Of(S, e).na /\ Of(V, e).ue = Of(S, e).ue
  BY PrivateFlags
<1>w. /\ Sound(V) /\ Has(V, e) /\ AgreeBesides(S, V, e) /\ SameObjects(S, V, e)
  BY <1>v DEF OnlyFlags
<1>t. T = [V EXCEPT !.map = [V.map EXCEPT ![m] = R],
                    !.tab = [V.tab EXCEPT ![d] = [V.tab[d] EXCEPT ![k0] = Dropped(V.tab[d][k0])]]]
  BY DEF popStackFrame
<1>d. d = Of(V, e).depth /\ m = V.at[e] /\ k0 = Of(V, e).tabs[d] /\ local = {d} \X Slots
  OBVIOUS
<1> HIDE DEF V
<1>s. /\ V = [map |-> V.map, tab |-> V.tab, at |-> V.at] /\ V.map \in [MapIds -> MapType]
      /\ V.tab \in [Levels -> [MapIds -> TabType]]
      /\ \A p \in MapIds : SoundMap(V, p)
  BY <1>w, SoundFields
<1>m. m \in MapIds /\ Of(V, e) = V.map[m] /\ V.map[m].ref = 1 /\ V.map[m] \in MapType
  BY <1>w, <1>v, InUse DEF Of, Has, Alone
<1> HIDE DEF m
<1>1. d \in Levels /\ d # 0 /\ d \in Nat /\ d - 1 \in Levels /\ d = V.map[m].depth /\ Of(S, e).depth = d
  <2>1. Of(V, e).depth = Of(S, e).depth
    BY <1>w DEF SameObjects
  <2>2. Of(S, e).depth \in Levels
    BY InScope
  <2> QED
    BY <2>1, <2>2, <1>d, <1>m, CowAssumption DEF Levels
<1> HIDE DEF d
<1>2. k0 \in MapIds /\ k0 = V.map[m].tabs[d]
  <2>1. SoundMap(V, m)
    BY <1>s, <1>m
  <2>2. V.map[m].tabs[d] # NoTab
    BY <2>1, <1>1 DEF SoundMap
  <2> QED
    BY <2>2, <1>m, <1>d, <1>1, MapFields
<1> HIDE DEF k0
<1>3. V.tab[d][k0] \in TabType /\ V.tab[d][k0].ref >= 1
  <2>1. V.tab[d][k0] \in TabType
    BY <1>s, <1>1, <1>2
  <2>2. V.tab[d][Of(V, e).tabs[d]].ref >= 1
    BY <1>w, <1>1, <1>2, <1>m, MapIdsFinite, InUse DEF Has
  <2> QED
    BY <2>1, <2>2, <1>2, <1>m
<1>q. /\ Q \in MapType /\ Q.ref = 1 /\ Q.depth = d - 1 /\ Q.aoc = V.map[m].aoc
      /\ Q.tabs[d] = NoTab /\ \A i \in Levels : i # d => Q.tabs[i] = V.map[m].tabs[i]
  <2>1. PICK M, c : M = V.map[m] /\ c = d - 1
    OBVIOUS
  <2>2. Q = Framed(M, c, d, NoTab)
    BY <2>1 DEF Framed
  <2> HIDE DEF Q
  <2>3. M \in MapType /\ M.ref = 1 /\ c \in Levels /\ NoTab \in MapIds \cup {NoTab}
    BY <2>1, <1>m, <1>1
  <2>4. /\ Q \in MapType /\ Q.ref = M.ref /\ Q.depth = c /\ Q.aoc = M.aoc
        /\ Q.tabs[d] = NoTab /\ \A i \in Levels : i # d => Q.tabs[i] = M.tabs[i]
    <3>1. d \in Levels
      BY <1>1
    <3> QED
      BY <2>2, <2>3, <3>1, FrameFields
  <2> QED
    BY <2>1, <2>3, <2>4
<1> HIDE DEF Q
<1>4. /\ R \in MapType /\ R.ref = 1 /\ R.depth = d - 1 /\ R.aoc = V.map[m].aoc
      /\ R.na = V.map[m].na \ local /\ R.ue = V.map[m].ue \ local
      /\ R.tabs = Q.tabs
  <2>1. /\ V.map[m].na \ local \in SUBSET (Levels \X Slots)
        /\ V.map[m].ue \ local \in SUBSET (Levels \X Slots)
    BY <1>m, MapFields
  <2> QED
    BY <2>1, <1>q, FlaggedFields
<1> HIDE DEF R
<1>5. /\ T = [map |-> T.map, tab |-> T.tab, at |-> T.at] /\ T.at = V.at
      /\ T.map = [V.map EXCEPT ![m] = R]
      /\ T.tab = [V.tab EXCEPT ![d] = [V.tab[d] EXCEPT ![k0] = Dropped(V.tab[d][k0])]]
  BY <1>t, <1>s
<1>6. /\ T.map = [p \in MapIds |-> IF p = m THEN R ELSE V.map[p]]
      /\ T.tab = [i \in Levels |-> [k \in MapIds |-> T.tab[i][k]]]
      /\ \A i \in Levels, k \in MapIds : i # d => T.tab[i][k] = V.tab[i][k]
      /\ \A k \in MapIds : T.tab[d][k] = IF k = k0 THEN Dropped(V.tab[d][k0]) ELSE V.tab[d][k]
  <2>1. T.map = [p \in MapIds |-> IF p = m THEN R ELSE V.map[p]]
    BY <1>5, <1>s, <1>m
  <2>2. /\ \A i \in Levels, k \in MapIds : i # d => T.tab[i][k] = V.tab[i][k]
        /\ \A k \in MapIds : T.tab[d][k] = IF k = k0 THEN Dropped(V.tab[d][k0]) ELSE V.tab[d][k]
    <3>1. PICK X : X = Dropped(V.tab[d][k0])
      OBVIOUS
    <3>2. T.tab = [V.tab EXCEPT ![d] = [V.tab[d] EXCEPT ![k0] = X]]
      BY <3>1, <1>5
    <3>3. T.tab[d] = [V.tab[d] EXCEPT ![k0] = X] /\ \A i \in Levels : i # d => T.tab[i] = V.tab[i]
      BY <3>2, <1>s, <1>1
    <3>4. V.tab[d] \in [MapIds -> TabType]
      BY <1>s, <1>1
    <3>5. \A k \in MapIds : T.tab[d][k] = IF k = k0 THEN X ELSE V.tab[d][k]
      BY <3>3, <3>4, <1>2
    <3> QED
      BY <3>1, <3>3, <3>5
  <2>3. Dropped(V.tab[d][k0]) \in TabType
    BY <1>3, DroppedFields
  <2>4. T.tab \in [Levels -> [MapIds -> TabType]]
    <3>1. PICK X : X = Dropped(V.tab[d][k0])
      OBVIOUS
    <3>2. T.tab = [V.tab EXCEPT ![d] = [V.tab[d] EXCEPT ![k0] = X]] /\ X \in TabType
      BY <3>1, <1>5, <2>3
    <3> QED
      BY <3>2, <1>s, <1>1, <1>2
  <2>5. T.tab = [i \in Levels |-> [k \in MapIds |-> T.tab[i][k]]]
    BY <2>4
  <2> QED
    BY <2>1, <2>2, <2>5
<1>7. Replaced(V, T, d, k0, NoTab)
  BY <1>2, <1>6, MapIdsFinite DEF Replaced
<1>8. /\ R.na \subseteq (0..R.depth) \X Slots /\ R.ue \subseteq (0..R.depth) \X Slots
      /\ \A i \in Levels \ {0} : R.tabs[i] # NoTab <=> i <= R.depth
  <2>1. SoundMap(V, m)
    BY <1>s, <1>m
  <2>2. \A i \in 0..d : i # d => i \in 0..(d - 1)
    BY <1>1
  <2>3. /\ V.map[m].na \subseteq (0..d) \X Slots
        /\ V.map[m].ue \subseteq (0..d) \X Slots
        /\ \A i \in Levels \ {0} : V.map[m].tabs[i] # NoTab <=> i <= d
    BY <2>1, <1>1 DEF SoundMap
  <2>4. \A i \in Levels : i # d => (i <= d <=> i <= d - 1)
    BY <1>1, CowAssumption DEF Levels
  <2>5. ~(d <= d - 1)
    BY <1>1
  <2>6. R.na \subseteq (0..(d - 1)) \X Slots /\ R.ue \subseteq (0..(d - 1)) \X Slots
    BY <2>2, <2>3, <1>4, <1>d
  <2>7. \A i \in Levels \ {0} : R.tabs[i] # NoTab <=> i <= d - 1
    BY <2>3, <2>4, <2>5, <1>4, <1>q
  <2> QED
    BY <2>6, <2>7, <1>4
<1>9. Resized(V, T, e, d, R)
  <2>1. \A i \in Levels : i # d => R.tabs[i] = Of(V, e).tabs[i]
    BY <1>4, <1>q, <1>m
  <2>2. Replaced(V, T, d, Of(V, e).tabs[d], R.tabs[d])
    BY <1>7, <1>2, <1>4, <1>q, <1>m
  <2>3. T.map = [p \in MapIds |-> IF p = V.at[e] THEN R ELSE V.map[p]]
    BY <1>6, <1>d
  <2>4. R \in MapType /\ R.ref = 1
    BY <1>4
  <2> QED
    BY <2>1, <2>2, <2>3, <2>4, <1>5, <1>6, <1>8 DEF Resized
<1>a. /\ Sound(V) /\ e \in Edges /\ Has(V, e) /\ Alone(V, e)
      /\ d \in Levels /\ Resized(V, T, e, d, R)
  BY <1>1, <1>9, <1>v, <1>w
<1>10. /\ Sound(T) /\ Has(T, e) /\ Of(T, e) = R /\ AgreeBesides(V, T, e)
       /\ \A i \in Levels : i # d => Ents(T, e, i) = Ents(V, e, i)
  BY ONLY <1>a, ResizedSound
<1>11. \A i \in Levels : i # d => Ents(T, e, i) = Ents(S, e, i)
  BY <1>10, <1>w DEF SameObjects
<1>12. AgreeBesides(S, T, e)
  BY <1>10, <1>w, AgreeTrans DEF AgreeBesides
<1>13. /\ Of(T, e).depth = Of(S, e).depth - 1 /\ Of(T, e).aoc = Of(S, e).aoc
       /\ Of(T, e).na = Of(S, e).na \ ({Of(S, e).depth} \X Slots)
       /\ Of(T, e).ue = Of(S, e).ue \ ({Of(S, e).depth} \X Slots)
  BY <1>10, <1>4, <1>1, <1>m, <1>v, <1>w, <1>d DEF SameObjects
<1> QED
  BY <1>10, <1>11, <1>12, <1>13, <1>1

(***************************************************************************)
(* Edges that come.                                                        *)
(***************************************************************************)
(* A second edge gets what the first one has.                              *)
LEMMA ForkSound ==
    ASSUME NEW S, Sound(S), NEW e \in Edges, Has(S, e), NEW f \in Edges, ~Has(S, f),
           NEW T, T = refStores(S, e, f)
    PROVE  /\ Sound(T) /\ AgreeBesides(S, T, f)
           /\ Has(T, f) /\ Of(T, f).depth = Of(S, e).depth /\ Of(T, f).aoc = Of(S, e).aoc
           /\ Of(T, f).na = Of(S, e).na /\ Of(T, f).ue = Of(S, e).ue
           /\ \A i \in Levels : Ents(T, f, i) = Ents(S, e, i)
<1> DEFINE m == S.at[e]
<1>s. /\ S = [map |-> S.map, tab |-> S.tab, at |-> S.at]
      /\ S.map \in [MapIds -> MapType] /\ S.tab \in [Levels -> [MapIds -> TabType]]
      /\ S.at \in [Edges -> MapIds \cup {NoMap}]
      /\ \A p \in MapIds : SoundMap(S, p) /\ S.map[p] \in MapType
      /\ \A i \in Levels, k \in MapIds : SoundTab(S, i, k)
  BY SoundFields
<1>m. m \in MapIds /\ S.map[m].ref \in Nat /\ S.map[m].ref >= 1
  <2>1. m \in MapIds /\ Of(S, e).ref >= 1
    BY InUse DEF Has
  <2> QED
    BY <2>1, <1>s, MapFields DEF Of
<1>e. m = S.at[e] /\ m # NoMap /\ S.at[f] = NoMap /\ e # f
  BY DEF Has
<1>t. /\ T = [map |-> T.map, tab |-> T.tab, at |-> T.at] /\ T.tab = S.tab
      /\ T.map = [p \in MapIds |-> IF p = m THEN [S.map[m] EXCEPT !.ref = S.map[m].ref + 1] ELSE S.map[p]]
      /\ T.at = [g \in Edges |-> IF g = f THEN m ELSE S.at[g]]
  <2>1. T = [S EXCEPT !.map = [S.map EXCEPT ![m] = [S.map[m] EXCEPT !.ref = S.map[m].ref + 1]],
                      !.at = [S.at EXCEPT ![f] = m]]
    BY DEF refStores
  <2> HIDE DEF m
  <2>2. PICK R : R = [S.map[m] EXCEPT !.ref = S.map[m].ref + 1]
    OBVIOUS
  <2>3. T = [map |-> [S.map EXCEPT ![m] = R], tab |-> S.tab, at |-> [S.at EXCEPT ![f] = m]]
    BY <2>1, <2>2, <1>s
  <2>4. T.map = [p \in MapIds |-> IF p = m THEN R ELSE S.map[p]]
    BY <2>3, <1>s
  <2>5. T.at = [g \in Edges |-> IF g = f THEN m ELSE S.at[g]]
    BY <2>3, <1>s
  <2> QED
    BY <2>2, <2>3, <2>4, <2>5
<1> HIDE DEF m
<1>r. ASSUME NEW p \in MapIds
      PROVE  /\ T.map[p].ref = IF p = m THEN S.map[m].ref + 1 ELSE S.map[p].ref
             /\ T.map[p].depth = S.map[p].depth /\ T.map[p].tabs = S.map[p].tabs
             /\ T.map[p].aoc = S.map[p].aoc
             /\ T.map[p].na = S.map[p].na /\ T.map[p].ue = S.map[p].ue
             /\ T.map[p].ref \in 0..Cardinality(Edges) => T.map[p] \in MapType
             /\ p # m => T.map[p] = S.map[p]
  <2>1. T.map[p] = IF p = m THEN [S.map[p] EXCEPT !.ref = S.map[p].ref + 1] ELSE S.map[p]
    BY <1>t
  <2>2. S.map[p] \in MapType
    BY <1>s
  <2> QED
    BY <2>1, <2>2, MapRef
<1>1. ASSUME NEW p \in MapIds
      PROVE  T.map[p].ref = Cardinality(Holders(T, p))
  <2>1. CASE p = m
    <3>1. Holders(T, p) = Holders(S, p) \cup {f} /\ f \notin Holders(S, p)
      BY <2>1, <1>t, <1>e DEF Holders
    <3>2. Cardinality(Holders(S, p) \cup {f}) = Cardinality(Holders(S, p)) + 1
      BY <3>1, FS_AddElement, HolderCount
    <3>3. S.map[m].ref = Cardinality(Holders(S, m))
      BY <1>s, <1>m DEF SoundMap
    <3> QED
      BY <3>1, <3>2, <3>3, <1>r, <2>1
  <2>2. CASE p # m
    <3>1. Holders(T, p) = Holders(S, p)
      BY <2>2, <1>t, <1>e, MapIdsFinite DEF Holders
    <3> QED
      BY <3>1, <2>2, <1>r, <1>s DEF SoundMap
  <2> QED
    BY <2>1, <2>2
<1>2. ASSUME NEW p \in MapIds
      PROVE  SoundMap(T, p)
  <2>1. SoundMap(S, p)
    BY <1>s
  <2>2. T.map[p].ref = 0 => T.map[p] = FreeMap
    <3>1. p = m => T.map[p].ref # 0
      BY <1>r, <1>m
    <3>2. p # m => T.map[p] = S.map[p]
      BY <1>r
    <3> QED
      BY <3>1, <3>2, <2>1 DEF SoundMap
  <2> QED
    BY <2>1, <2>2, <1>1, <1>r DEF SoundMap
<1>3. ASSUME NEW i \in Levels, NEW k \in MapIds
      PROVE  SoundTab(T, i, k)
  <2>1. Users(T, i, k) = Users(S, i, k)
    BY <1>r DEF Users
  <2>2. SoundTab(S, i, k) /\ T.tab = S.tab
    BY <1>s, <1>t
  <2> QED
    BY <2>1, <2>2 DEF SoundTab
<1>4. Sound(T)
  <2>1. T.at \in [Edges -> MapIds \cup {NoMap}]
    BY <1>t, <1>s, <1>m
  <2>2. /\ T.map = [p \in MapIds |-> T.map[p]]
        /\ T.tab = [i \in Levels |-> [k \in MapIds |-> T.tab[i][k]]]
    BY <1>t, <1>s
  <2> QED
    BY <2>1, <2>2, <1>2, <1>3, <1>t, SoundIf
<1>5. \A p \in MapIds, i \in Levels : Entries(T, i, T.map[p].tabs[i]) = Entries(S, i, S.map[p].tabs[i])
  BY <1>r, <1>t DEF Entries
<1>6. AgreeBesides(S, T, f)
  <2> SUFFICES ASSUME NEW g \in Edges, g # f
               PROVE  Agree(S, T, g)
    BY DEF AgreeBesides
  <2>1. T.at[g] = S.at[g]
    BY <1>t
  <2>2. ASSUME S.at[g] # NoMap
        PROVE  SameMap(S, T, g) /\ \A i \in Levels : Ents(T, g, i) = Ents(S, g, i)
    <3>1. PICK p \in MapIds : S.at[g] = p /\ T.at[g] = p
      BY <2>1, <2>2, <1>s
    <3> QED
      BY <3>1, <1>r, <1>5 DEF Of, Ents, SameMap
  <2> QED
    BY <2>1, <2>2 DEF Agree, SameMap
<1>7. T.at[f] = m
  BY <1>t
<1> QED
  BY <1>4, <1>5, <1>6, <1>7, <1>r, <1>m, <1>e DEF Of, Ents, Has

(***************************************************************************)
(* What instructions do.                                                   *)
(***************************************************************************)
(* A new object, unreachable from old ones and unescaped.                  *)
LEMMA AddFlags ==
    ASSUME NEW S, Sound(S), NEW e \in Edges, Has(S, e), Alone(S, e), NEW o \in Scope(S, e),
           NEW T, T = withFlags(S, e, Of(S, e).na \cup {o}, Of(S, e).ue \cup {o})
    PROVE  /\ OnlyFlags(S, T, e)
           /\ Of(T, e).na = Of(S, e).na \cup {o} /\ Of(T, e).ue = Of(S, e).ue \cup {o}
<1>1. PICK na, ue : na = Of(S, e).na \cup {o} /\ ue = Of(S, e).ue \cup {o}
  OBVIOUS
<1>2. Within(na, S, e) /\ Within(ue, S, e)
  BY <1>1, InScope DEF Within
<1>3. T = withFlags(S, e, na, ue)
  BY <1>1
<1>5. /\ Sound(T) /\ Has(T, e) /\ AgreeBesides(S, T, e)
      /\ Of(T, e).depth = Of(S, e).depth /\ Of(T, e).aoc = Of(S, e).aoc
      /\ Of(T, e).na = na /\ Of(T, e).ue = ue
      /\ \A i \in Levels : Ents(T, e, i) = Ents(S, e, i)
  <2>1. e \in Edges /\ Sound(S) /\ Has(S, e) /\ Alone(S, e)
    OBVIOUS
  <2> QED
    BY ONLY <1>2, <1>3, <2>1, WithFlags
<1> QED
  BY <1>1, <1>5 DEF OnlyFlags, SameObjects

(* executeAllocInst.                                                       *)
LEMMA AllocEffect ==
    ASSUME NEW S, Sound(S), NEW e \in Edges, Has(S, e), NEW o \in Scope(S, e), NEW O, O = {o},
           NEW v \in Values(O), NEW V, V = getOrCreateStoreFor(S, e, Writes(v)),
           NEW T, T = withFlags(V, e, Of(V, e).na \cup {o}, Of(V, e).ue \cup {o})
    PROVE  /\ Sound(T) /\ Has(T, e) /\ AgreeBesides(S, T, e) /\ Holds(S, T, e, O, v)
           /\ Of(T, e).na = Of(S, e).na \cup {o} /\ Of(T, e).ue = Of(S, e).ue \cup {o}
<1>2. Within(O, S, e) /\ O # {}
  BY DEF Within
<1>3. /\ Sound(V) /\ Has(V, e) /\ SameMap(S, V, e) /\ AgreeBesides(S, V, e)
      /\ Holds(S, V, e, O, v) /\ Alone(V, e)
  BY <1>2, CreateObjects
<1>4. o \in Scope(V, e)
  BY <1>3 DEF Scope, SameMap
<1>5. /\ OnlyFlags(V, T, e)
      /\ Of(T, e).na = Of(V, e).na \cup {o} /\ Of(T, e).ue = Of(V, e).ue \cup {o}
  BY <1>3, <1>4, AddFlags
<1>6. Sound(T) /\ Has(T, e) /\ AgreeBesides(V, T, e) /\ SameObjects(V, T, e)
  BY <1>5 DEF OnlyFlags
<1>7. AgreeBesides(S, T, e)
  BY <1>3, <1>6, AgreeTrans DEF AgreeBesides
<1>8. Holds(S, T, e, O, v)
  BY <1>3, <1>6 DEF Holds, SameObjects
<1>9. Of(T, e).na = Of(S, e).na \cup {o} /\ Of(T, e).ue = Of(S, e).ue \cup {o}
  BY <1>3, <1>5 DEF SameMap
<1> QED
  BY <1>6, <1>7, <1>8, <1>9

(* executeWriteInst through a known pointer, after the pointers stored     *)
(* have escaped, and before or after the objects' flags are propagated.    *)
LEMMA WriteEffect ==
    ASSUME NEW S, Sound(S), NEW e \in Edges, Has(S, e), NEW O, Within(O, S, e),
           NEW v \in Values(O), NEW w,
           NEW T, T = getOrCreateStoreFor(pointerEscaped(S, e, w.p), e, Writes(v)),
           NEW U, \/ U = T
                  \/ U = setObjectsThreadGlobal(setObjectsMayAliasOld(T, e, w), e, w)
    PROVE  /\ Sound(U) /\ Has(U, e) /\ AgreeBesides(S, U, e) /\ Holds(S, U, e, O, v)
           /\ Of(U, e).ue = Of(S, e).ue \ w.p
           /\ \/ Of(U, e).na = Of(S, e).na
              \/ Of(U, e).na = Of(S, e).na \cap (Of(S, e).ue \ w.p)
              \/ Of(U, e).na = Of(S, e).na \ (w.p \cup w.reach)
<1> DEFINE V == pointerEscaped(S, e, w.p)
<1>1. OnlyFlags(S, V, e) /\ Of(V, e).na = Of(S, e).na /\ Of(V, e).ue = Of(S, e).ue \ w.p
  BY Escapes
<1>t. T = getOrCreateStoreFor(V, e, Writes(v))
  OBVIOUS
<1> HIDE DEF V
<1>2. Sound(V) /\ Has(V, e) /\ AgreeBesides(S, V, e) /\ SameObjects(S, V, e)
  BY <1>1 DEF OnlyFlags
<1>3. Within(O, V, e)
  BY <1>2 DEF SameObjects, Scope, Within
<1>4. /\ Sound(T) /\ Has(T, e) /\ SameMap(V, T, e) /\ AgreeBesides(V, T, e)
      /\ Holds(V, T, e, O, v)
  BY <1>2, <1>3, <1>t, CreateObjects
<1>5. AgreeBesides(S, T, e)
  BY <1>2, <1>4, AgreeTrans DEF AgreeBesides
<1>6. Holds(S, T, e, O, v)
  BY <1>2, <1>4 DEF Holds, SameObjects
<1>7. Of(T, e).na = Of(S, e).na /\ Of(T, e).ue = Of(S, e).ue \ w.p
  BY <1>1, <1>4 DEF SameMap
<1>8. CASE U = T
  BY <1>4, <1>5, <1>6, <1>7, <1>8
<1>9. CASE U = setObjectsThreadGlobal(setObjectsMayAliasOld(T, e, w), e, w)
  <2>1. /\ OnlyFlags(T, U, e) /\ Of(U, e).ue = Of(T, e).ue
        /\ Of(U, e).na = Unaliased(Of(T, e).na, Of(T, e).ue, w)
    <3>1. Sound(T) /\ Has(T, e)
      BY <1>4
    <3> QED
      BY <3>1, <1>9, Propagates
  <2>2. Sound(U) /\ Has(U, e) /\ AgreeBesides(T, U, e) /\ SameObjects(T, U, e)
    BY <2>1 DEF OnlyFlags
  <2>3. AgreeBesides(S, U, e)
    BY <1>5, <2>2, AgreeTrans DEF AgreeBesides
  <2>4. Holds(S, U, e, O, v)
    BY <1>6, <2>2 DEF Holds, SameObjects
  <2>5. \/ Of(U, e).na = Of(S, e).na \cap (Of(S, e).ue \ w.p)
        \/ Of(U, e).na = Of(S, e).na \ (w.p \cup w.reach)
    BY <2>1, <1>7 DEF Unaliased
  <2> QED
    BY <2>1, <2>2, <2>3, <2>4, <2>5, <1>7
<1> QED
  BY <1>8, <1>9

(* Nothing is known of e's objects any more, but for those saved.          *)
Forgot(S, T, e, save) ==
    /\ Of(T, e).depth = Of(S, e).depth /\ Of(T, e).aoc
    /\ \A i \in Levels, s \in Slots :
         Ents(T, e, i)[s] = IF <<i, s>> \notin save THEN None
                            ELSE IF Ents(S, e, i)[s] = None THEN {} ELSE Ents(S, e, i)[s]

(* The others see no difference, unless e had no entries either and shared *)
(* its map with them.                                                      *)
Spared(S, T, e) ==
    \A f \in Edges : f # e => \/ Agree(S, T, f)
                              \/ /\ Clobbered(S, T, f) /\ Of(S, f).aoc = Of(S, e).aoc
                                 /\ \A i \in Levels : NoEntries(Ents(S, e, i))

(* Clobbering, between changes of flags.                                   *)
LEMMA SparedTrans ==
    ASSUME NEW S, NEW V, NEW W, NEW T, NEW e,
           AgreeBesides(S, V, e), SameObjects(S, V, e), Spared(V, W, e), AgreeBesides(W, T, e)
    PROVE  Spared(S, T, e)
<1> SUFFICES ASSUME NEW f \in Edges, f # e
             PROVE  \/ Agree(S, T, f)
                    \/ /\ Clobbered(S, T, f) /\ Of(S, f).aoc = Of(S, e).aoc
                       /\ \A i \in Levels : NoEntries(Ents(S, e, i))
  BY DEF Spared
<1>1. Agree(S, V, f) /\ Agree(W, T, f)
  BY DEF AgreeBesides
<1>2. CASE Agree(V, W, f)
  <2>1. Agree(S, W, f)
    BY <1>1, <1>2, AgreeTrans
  <2> QED
    BY <1>1, <2>1, AgreeTrans
<1>3. CASE /\ Clobbered(V, W, f) /\ Of(V, f).aoc = Of(V, e).aoc
           /\ \A i \in Levels : NoEntries(Ents(V, e, i))
  <2>1. \A i \in Levels : NoEntries(Ents(S, e, i))
    BY <1>3 DEF SameObjects
  <2>2. Clobbered(S, T, f)
    BY <1>1, <1>3 DEF Clobbered, Agree, Has
  <2>3. Of(S, f).aoc = Of(S, e).aoc
    BY <1>1, <1>3, <2>2 DEF Clobbered, Agree, Has, SameObjects
  <2> QED
    BY <2>1, <2>2, <2>3
<1> QED
  BY <1>2, <1>3 DEF Spared

(* clobberAllExcept once more, in these words.                             *)
LEMMA ClobberEffect ==
    ASSUME NEW S, Sound(S), NEW e \in Edges, Has(S, e), NEW save, save \subseteq Scope(S, e),
           NEW T, T = clobberAllExcept(S, e, save)
    PROVE  /\ Sound(T) /\ Has(T, e) /\ Forgot(S, T, e, save) /\ Spared(S, T, e)
           /\ \/ Of(T, e).na = Of(S, e).na /\ Of(T, e).ue = Of(S, e).ue
              \/ Of(T, e).na = {} /\ Of(T, e).ue = {}
<1>1. /\ Sound(T) /\ Has(T, e) /\ Of(T, e).depth = Of(S, e).depth /\ Of(T, e).aoc
      /\ \/ Of(T, e).na = Of(S, e).na /\ Of(T, e).ue = Of(S, e).ue
         \/ Of(T, e).na = {} /\ Of(T, e).ue = {}
      /\ \A i \in Levels, s \in Slots :
           Ents(T, e, i)[s] = IF <<i, s>> \notin save THEN None
                              ELSE IF Ents(S, e, i)[s] = None THEN {} ELSE Ents(S, e, i)[s]
      /\ \A f \in Edges : f # e => \/ Agree(S, T, f)
                                   \/ S.at[f] = S.at[e] /\ Clobbered(S, T, f)
  BY ClobberSound
<1>2. Forgot(S, T, e, save)
  BY <1>1 DEF Forgot
<1>3. Spared(S, T, e)
  <2>1. ASSUME NEW f \in Edges, S.at[f] = S.at[e], Clobbered(S, T, f)
        PROVE  Of(S, f).aoc = Of(S, e).aoc /\ \A i \in Levels : NoEntries(Ents(S, e, i))
    BY <2>1, SharedMap DEF Clobbered
  <2> QED
    BY <1>1, <2>1 DEF Spared
<1> QED
  BY <1>1, <1>2, <1>3

(* executeWriteInst through an unknown pointer.                            *)
Unseen(S, e, w) == Of(S, e).ue \ w.p

(* Escape of what is stored, clobbering and loss of flags together, on an  *)
(* edge and on those that share its map.                                   *)
LEMMA UnknownEffect ==
    ASSUME NEW S, Sound(S), NEW e \in Edges, Has(S, e), NEW w,
           NEW V, V = pointerEscaped(S, e, w.p),
           NEW save, save = Of(V, e).na \/ save = Of(V, e).ue,
           NEW W, W = clobberAllExcept(V, e, save),
           NEW T, T = setObjectsThreadGlobal(setObjectsMayAliasOld(W, e, w), e, w)
    PROVE  /\ Sound(T) /\ Has(T, e) /\ Forgot(S, T, e, save) /\ Spared(S, T, e)
           /\ Of(V, e).na = Of(S, e).na /\ Of(V, e).ue = Unseen(S, e, w)
           /\ \/ /\ Of(T, e).ue = Unseen(S, e, w)
                 /\ Of(T, e).na = Unaliased(Of(S, e).na, Unseen(S, e, w), w)
              \/ Of(T, e).na = {} /\ Of(T, e).ue = {}
<1>1. OnlyFlags(S, V, e) /\ Of(V, e).na = Of(S, e).na /\ Of(V, e).ue = Unseen(S, e, w)
  BY Escapes DEF Unseen
<1>2. Sound(V) /\ Has(V, e) /\ AgreeBesides(S, V, e) /\ SameObjects(S, V, e)
  BY <1>1 DEF OnlyFlags
<1>3. save \subseteq Scope(V, e)
  BY <1>2, InScope
<1>4. /\ Sound(W) /\ Has(W, e) /\ Forgot(V, W, e, save) /\ Spared(V, W, e)
      /\ \/ Of(W, e).na = Of(V, e).na /\ Of(W, e).ue = Of(V, e).ue
         \/ Of(W, e).na = {} /\ Of(W, e).ue = {}
  BY <1>2, <1>3, ClobberEffect
<1>5. /\ OnlyFlags(W, T, e) /\ Of(T, e).ue = Of(W, e).ue
      /\ Of(T, e).na = Unaliased(Of(W, e).na, Of(W, e).ue, w)
  <2>1. Sound(W) /\ Has(W, e)
    BY <1>4
  <2> QED
    BY <2>1, Propagates
<1>6. Sound(T) /\ Has(T, e) /\ AgreeBesides(W, T, e) /\ SameObjects(W, T, e)
  BY <1>5 DEF OnlyFlags
<1>7. Spared(S, T, e)
  BY <1>2, <1>4, <1>6, SparedTrans
<1>8. Forgot(S, T, e, save)
  BY <1>2, <1>4, <1>6 DEF Forgot, SameObjects
<1>9. \/ Of(T, e).ue = Unseen(S, e, w) /\ Of(T, e).na = Unaliased(Of(S, e).na, Unseen(S, e, w), w)
      \/ Of(T, e).na = {} /\ Of(T, e).ue = {}
  <2>1. CASE Of(W, e).na = Of(V, e).na /\ Of(W, e).ue = Of(V, e).ue
    BY <2>1, <1>1, <1>5
  <2>2. CASE Of(W, e).na = {} /\ Of(W, e).ue = {}
    BY <2>2, <1>5 DEF Unaliased
  <2> QED
    BY <2>1, <2>2, <1>4
<1> QED
  BY <1>1, <1>6, <1>7, <1>8, <1>9

(***************************************************************************)
(* The actions.                                                            *)
(***************************************************************************)
LEMMA LiveHas ==
    /\ Live \subseteq Edges
    /\ \A e \in Edges : e \in Live <=> Has(Store, e)
  BY DEF Live, Has, Store

(* The next state is the store an action names.                            *)
LEMMA Became ==
    ASSUME NEW T, Sound(T), Becomes(T)
    PROVE  Store' = T
<1>1. T = [map |-> T.map, tab |-> T.tab, at |-> T.at]
  BY SoundFields
<1> QED
  BY <1>1 DEF Becomes, Store

(* What can be chosen.                                                     *)
LEMMA SizeFields ==
    ASSUME size \in Sizes
    PROVE  /\ size.edges <= Cardinality(Edges) /\ size.edges \in Nat
           /\ size.depth \in Levels /\ size.written \subseteq SUBSET Vals
           /\ size.fresh \subseteq SUBSET Vals
<1>1. size \in [edges : 1..Cardinality(Edges), depth : Levels, written : SUBSET Written,
                  fresh : SUBSET Written]
  BY CowAssumption
<1>2. size.edges \in 1..Cardinality(Edges) /\ size.depth \in Levels /\ size.written \subseteq Written
      /\ size.fresh \subseteq Written
  BY <1>1
<1>3. Written \subseteq SUBSET Vals
  BY DEF Written
<1> QED
  BY <1>2, <1>3, MapIdsFinite

(* Edge f has in T what e has in S.                                        *)
SameStore(S, e, T, f) ==
    /\ Has(T, f) /\ Of(T, f).depth = Of(S, e).depth /\ Of(T, f).aoc = Of(S, e).aoc
    /\ Of(T, f).na = Of(S, e).na /\ Of(T, f).ue = Of(S, e).ue
    /\ \A i \in Levels : Ents(T, f, i) = Ents(S, e, i)

(* Fork: one edge more, with the store of another.                         *)
LEMMA ForkStep ==
    ASSUME Sound(Store), size \in Sizes, NEW e \in Live, Fork(e)
    PROVE  /\ Sound(Store')
           /\ \E f \in Edges : /\ ~Has(Store, f) /\ AgreeBesides(Store, Store', f)
                               /\ SameStore(Store, e, Store', f)
<1> DEFINE f == CHOOSE f \in Edges : f \notin Live
           T == refStores(Store, e, f)
<1>1. Cardinality(Live) < size.edges /\ Becomes(T)
  BY DEF Fork
<1>2. \E g \in Edges : g \notin Live
  <2>1. size.edges <= Cardinality(Edges) /\ size.edges \in Nat
    BY SizeFields
  <2>2. Live # Edges
    BY <2>1, <1>1, MapIdsFinite
  <2> QED
    BY <2>2, LiveHas
<1>3. f \in Edges /\ f \notin Live
  BY <1>2
<1>4. T = refStores(Store, e, f)
  OBVIOUS
<1>5. e \in Edges /\ Has(Store, e) /\ ~Has(Store, f)
  BY <1>3, LiveHas
<1> HIDE DEF f, T
<1>6. /\ Sound(T) /\ AgreeBesides(Store, T, f)
      /\ Has(T, f) /\ Of(T, f).depth = Of(Store, e).depth /\ Of(T, f).aoc = Of(Store, e).aoc
      /\ Of(T, f).na = Of(Store, e).na /\ Of(T, f).ue = Of(Store, e).ue
      /\ \A i \in Levels : Ents(T, f, i) = Ents(Store, e, i)
  BY <1>3, <1>4, <1>5, ForkSound
<1>7. Store' = T
  BY <1>1, <1>6, Became
<1>8. SameStore(Store, e, T, f)
  BY <1>6 DEF SameStore
<1> QED
  BY <1>3, <1>5, <1>6, <1>7, <1>8

(* Free: one edge less, and no other sees a difference.                    *)
LEMMA FreeStep ==
    ASSUME Sound(Store), NEW e \in Live, Free(e)
    PROVE  Sound(Store') /\ ~Has(Store', e) /\ AgreeBesides(Store, Store', e)
<1>1. PICK D, T : D = {e} /\ T = dropReferences(Store, {e})
  OBVIOUS
<1>2. T = dropReferences(Store, D) /\ D \subseteq Edges
  BY <1>1, LiveHas
<1>3. Sound(T) /\ (\A f \in D : ~Has(T, f)) /\ \A f \in Edges : f \notin D => Agree(Store, T, f)
  BY <1>2, DropSound
<1>4. Store' = T
  BY <1>1, <1>3, Became DEF Free
<1>5. AgreeBesides(Store, T, e)
  BY <1>1, <1>3 DEF AgreeBesides
<1> QED
  BY <1>1, <1>3, <1>4, <1>5

Pushed(S, T, e) ==
    /\ Has(T, e) /\ AgreeBesides(S, T, e)
    /\ Of(S, e).depth < MaxDepth
    /\ Of(T, e).depth = Of(S, e).depth + 1 /\ Of(T, e).aoc = Of(S, e).aoc
    /\ Of(T, e).na = Of(S, e).na /\ Of(T, e).ue = Of(S, e).ue
    /\ \A i \in Levels : Ents(T, e, i) = Ents(S, e, i)
    /\ NoEntries(Ents(T, e, Of(T, e).depth))

(* PushFrame: an empty frame more, on this edge only.                      *)
LEMMA PushStep ==
    ASSUME Sound(Store), size \in Sizes, NEW e \in Live, PushFrame(e)
    PROVE  Sound(Store') /\ Pushed(Store, Store', e)
<1>1. e \in Edges /\ Has(Store, e)
  BY LiveHas
<1>2. PICK T : T = pushStackFrame(Store, e)
  OBVIOUS
<1>3. Of(Store, e).depth < size.depth /\ Becomes(T)
  BY <1>2 DEF PushFrame
<1>4. Of(Store, e).depth < MaxDepth
  <2>1. size.depth \in Levels /\ Of(Store, e).depth \in Levels
    BY <1>1, SizeFields, InScope
  <2> QED
    BY <2>1, <1>3, CowAssumption DEF Levels
<1>5. Sound(T) /\ Pushed(Store, T, e)
  BY <1>1, <1>2, <1>4, PushSound DEF Pushed
<1>6. Store' = T
  BY <1>3, <1>5, Became
<1> QED
  BY <1>5, <1>6

Popped(S, T, e) ==
    /\ Has(T, e) /\ AgreeBesides(S, T, e) /\ Of(S, e).depth > 0
    /\ Of(T, e).depth = Of(S, e).depth - 1 /\ Of(T, e).aoc = Of(S, e).aoc
    /\ Of(T, e).na = Of(S, e).na \ ({Of(S, e).depth} \X Slots)
    /\ Of(T, e).ue = Of(S, e).ue \ ({Of(S, e).depth} \X Slots)
    /\ \A i \in Levels : i # Of(S, e).depth => Ents(T, e, i) = Ents(S, e, i)

(* PopFrame: the last frame goes, with the flags of its objects.           *)
LEMMA PopStep ==
    ASSUME Sound(Store), NEW e \in Live, PopFrame(e)
    PROVE  Sound(Store') /\ Popped(Store, Store', e)
<1>1. e \in Edges /\ Has(Store, e)
  BY LiveHas
<1>2. PICK T : T = popStackFrame(Store, e)
  OBVIOUS
<1>3. Of(Store, e).depth > 0 /\ Becomes(T)
  BY <1>2 DEF PopFrame
<1>4. Sound(T) /\ Popped(Store, T, e)
  BY <1>1, <1>2, <1>3, PopSound DEF Popped
<1>5. Store' = T
  BY <1>3, <1>4, Became
<1> QED
  BY <1>4, <1>5

(* valueEscaped: objects lose a flag, on this edge only.                   *)
LEMMA EscapeStep ==
    ASSUME Sound(Store), NEW e \in Live, NEW P, valueEscaped(e, P)
    PROVE  /\ Sound(Store') /\ OnlyFlags(Store, Store', e)
           /\ Of(Store', e).na = Of(Store, e).na /\ Of(Store', e).ue = Of(Store, e).ue \ P
<1>1. e \in Edges /\ Has(Store, e)
  BY LiveHas
<1>2. PICK T : T = pointerEscaped(Store, e, P)
  OBVIOUS
<1>3. OnlyFlags(Store, T, e) /\ Of(T, e).na = Of(Store, e).na /\ Of(T, e).ue = Of(Store, e).ue \ P
  BY <1>1, <1>2, Escapes
<1>4. Sound(T) /\ Becomes(T)
  BY <1>2, <1>3 DEF OnlyFlags, valueEscaped
<1>5. Store' = T
  BY <1>4, Became
<1> QED
  BY <1>3, <1>4, <1>5

(* Alloc: one object gets a value and both flags, on this edge only.       *)
LEMMA AllocStep ==
    ASSUME Sound(Store), size \in Sizes, NEW e \in Live, NEW o, NEW x \in size.fresh, Alloc(e, o, x)
    PROVE  /\ Sound(Store') /\ Has(Store', e) /\ AgreeBesides(Store, Store', e)
           /\ o \in Scope(Store, e)
           /\ Of(Store', e).na = Of(Store, e).na \cup {o} /\ Of(Store', e).ue = Of(Store, e).ue \cup {o}
           /\ \E v \in Values({o}) : v[o] = x /\ Holds(Store, Store', e, {o}, v)
<1>1. e \in Edges /\ Has(Store, e)
  BY LiveHas
<1>2. x \in SUBSET Vals
  BY SizeFields
<1>3. PICK v, O : v = [q \in {o} |-> x] /\ O = {o}
  OBVIOUS
<1>4. v \in Values(O) /\ v[o] = x
  BY <1>2, <1>3 DEF Values
<1>5. PICK V : V = getOrCreateStoreFor(Store, e, Writes(v))
  OBVIOUS
<1>6. PICK T : T = withFlags(V, e, Of(V, e).na \cup {o}, Of(V, e).ue \cup {o})
  OBVIOUS
<1>7. o \in Scope(Store, e) /\ Becomes(T)
  BY <1>3, <1>5, <1>6 DEF Alloc
<1>8. /\ Sound(T) /\ Has(T, e) /\ AgreeBesides(Store, T, e) /\ Holds(Store, T, e, O, v)
      /\ Of(T, e).na = Of(Store, e).na \cup {o} /\ Of(T, e).ue = Of(Store, e).ue \cup {o}
  <2>1. O = {o}
    BY <1>3
  <2> QED
    BY <2>1, <1>1, <1>4, <1>5, <1>6, <1>7, AllocEffect
<1>9. Store' = T
  BY <1>7, <1>8, Became
<1> QED
  BY <1>3, <1>4, <1>7, <1>8, <1>9

(* What a store to a part of o, or by a pointer that may be to others,     *)
(* leaves of what it may hold.                                             *)
Rest(S, e, o, whole) ==
    IF whole THEN {} ELSE IF Ents(S, e, o[1])[o[2]] # None THEN Ents(S, e, o[1])[o[2]]
    ELSE IF Of(S, e).aoc THEN Vals ELSE {}

(* The objects O of e have been written, and flags are lost, to what was   *)
(* stored at least.                                                        *)
Overwrites(S, T, e, O, x, whole) ==
    \E v \in Values(O) : /\ \A o \in O : v[o] = Rest(S, e, o, whole) \cup x
                         /\ Holds(S, T, e, O, v)
StoreFlags(S, T, e, w) ==
    /\ Of(T, e).ue = Unseen(S, e, w)
    /\ \/ Of(T, e).na = Of(S, e).na
       \/ Of(T, e).na = Of(S, e).na \cap Unseen(S, e, w)
       \/ Of(T, e).na = Of(S, e).na \ (w.p \cup w.reach)

(* executeWriteInst through a pointer to one of known objects: only these  *)
(* change, and only on this edge.                                          *)
LEMMA StoreStep ==
    ASSUME Sound(Store), size \in Sizes, NEW e \in Live, NEW O, NEW w, NEW x \in size.written,
           NEW whole \in BOOLEAN, StoreInst(e, O, w, x, whole)
    PROVE  /\ Sound(Store') /\ Has(Store', e) /\ AgreeBesides(Store, Store', e)
           /\ O \subseteq Scope(Store, e)
           /\ Overwrites(Store, Store', e, O, x, whole)
           /\ StoreFlags(Store, Store', e, w)
<1>1. e \in Edges /\ Has(Store, e) /\ map[at[e]] = Of(Store, e)
  BY LiveHas DEF Of, Store
<1>2. x \in SUBSET Vals
  BY SizeFields
<1>3. PICK v : v = [o \in O |-> Rest(Store, e, o, whole) \cup x]
  OBVIOUS
<1>4. PICK T : T = getOrCreateStoreFor(pointerEscaped(Store, e, w.p), e, Writes(v))
  OBVIOUS
<1>5. PICK U : U = IF ~O \subseteq Of(Store, e).na
                     THEN setObjectsThreadGlobal(setObjectsMayAliasOld(T, e, w), e, w) ELSE T
  OBVIOUS
<1>6. O \subseteq Scope(Store, e)
  BY DEF StoreInst
<1>7. Becomes(U)
  BY <1>1, <1>3, <1>4, <1>5 DEF StoreInst, propagateStoreFlags, Rest, Ents
<1>8. v \in Values(O)
  <2> SUFFICES ASSUME NEW o \in O
               PROVE  Rest(Store, e, o, whole) \in SUBSET Vals
    BY <1>2, <1>3 DEF Values
  <2>1. o[1] \in Levels /\ o[2] \in Slots
    BY <1>1, <1>6, InScope
  <2>2. Ents(Store, e, o[1]) \in EntryMaps
    BY <1>1, <2>1, EntsType DEF Has
  <2> QED
    BY <2>1, <2>2 DEF Rest, EntryMaps
<1>9. Within(O, Store, e)
  BY <1>6 DEF Within
<1>10. \/ U = T
       \/ U = setObjectsThreadGlobal(setObjectsMayAliasOld(T, e, w), e, w)
  BY <1>5
<1>11. /\ Sound(U) /\ Has(U, e) /\ AgreeBesides(Store, U, e) /\ Holds(Store, U, e, O, v)
       /\ Of(U, e).ue = Of(Store, e).ue \ w.p
       /\ \/ Of(U, e).na = Of(Store, e).na
          \/ Of(U, e).na = Of(Store, e).na \cap (Of(Store, e).ue \ w.p)
          \/ Of(U, e).na = Of(Store, e).na \ (w.p \cup w.reach)
  BY <1>1, <1>4, <1>8, <1>9, <1>10, WriteEffect
<1>12. Store' = U
  BY <1>7, <1>11, Became
<1>13. \A o \in O : v[o] = Rest(Store, e, o, whole) \cup x
  BY <1>3
<1>14. Overwrites(Store, Store', e, O, x, whole)
  BY <1>8, <1>11, <1>12, <1>13 DEF Overwrites
<1>15. StoreFlags(Store, Store', e, w)
  BY <1>11, <1>12 DEF StoreFlags, Unseen
<1> QED
  BY <1>6, <1>11, <1>12, <1>14, <1>15

(* StoreUnknown: all objects but the saved ones are forgotten, on this     *)
(* edge and perhaps on others without entries.                             *)
LEMMA UnknownStep ==
    ASSUME Sound(Store), NEW e \in Live, NEW w, NEW old \in BOOLEAN, StoreUnknown(e, old, w)
    PROVE  /\ Sound(Store') /\ Has(Store', e) /\ Spared(Store, Store', e)
           /\ Forgot(Store, Store', e, IF old THEN Of(Store, e).na ELSE Unseen(Store, e, w))
           /\ \/ /\ Of(Store', e).ue = Unseen(Store, e, w)
                 /\ Of(Store', e).na = Unaliased(Of(Store, e).na, Unseen(Store, e, w), w)
              \/ Of(Store', e).na = {} /\ Of(Store', e).ue = {}
<1>1. e \in Edges /\ Has(Store, e)
  BY LiveHas
<1>2. PICK V : V = pointerEscaped(Store, e, w.p)
  OBVIOUS
<1>3. PICK save : save = IF old THEN Of(V, e).na ELSE Of(V, e).ue
  OBVIOUS
<1>4. PICK W : W = clobberAllExcept(V, e, save)
  OBVIOUS
<1>5. PICK T : T = setObjectsThreadGlobal(setObjectsMayAliasOld(W, e, w), e, w)
  OBVIOUS
<1>6. Becomes(T)
  BY <1>2, <1>3, <1>4, <1>5 DEF StoreUnknown, propagateStoreFlags
<1>7. save = Of(V, e).na \/ save = Of(V, e).ue
  BY <1>3
<1>8. /\ Sound(T) /\ Has(T, e) /\ Forgot(Store, T, e, save) /\ Spared(Store, T, e)
      /\ Of(V, e).na = Of(Store, e).na /\ Of(V, e).ue = Unseen(Store, e, w)
      /\ \/ /\ Of(T, e).ue = Unseen(Store, e, w)
            /\ Of(T, e).na = Unaliased(Of(Store, e).na, Unseen(Store, e, w), w)
         \/ Of(T, e).na = {} /\ Of(T, e).ue = {}
  BY <1>1, <1>2, <1>4, <1>5, <1>7, UnknownEffect
<1>9. Store' = T
  BY <1>6, <1>8, Became
<1> QED
  BY <1>3, <1>8, <1>9

(* A call's arguments escape.                                              *)
LEMMA ArgumentsEffect ==
    ASSUME NEW S, Sound(S), NEW e \in Edges, Has(S, e), NEW w,
           NEW T, T = setObjectsMayAliasOld(pointerEscaped(S, e, w.p), e, w),
           NEW U, U = setObjectsThreadGlobal(T, e, w)
    PROVE  /\ OnlyFlags(S, U, e) /\ Of(U, e).ue = Unseen(S, e, w)
           /\ Of(U, e).na = Unaliased(Of(S, e).na, Unseen(S, e, w), w)
<1>1. PICK V : V = pointerEscaped(S, e, w.p)
  OBVIOUS
<1>2. OnlyFlags(S, V, e) /\ Of(V, e).na = Of(S, e).na /\ Of(V, e).ue = Unseen(S, e, w)
  BY <1>1, Escapes DEF Unseen
<1>3. Sound(V) /\ Has(V, e)
  BY <1>2 DEF OnlyFlags
<1>4. U = setObjectsThreadGlobal(setObjectsMayAliasOld(V, e, w), e, w)
  BY <1>1
<1>5. /\ OnlyFlags(V, U, e) /\ Of(U, e).ue = Of(V, e).ue
      /\ Of(U, e).na = Unaliased(Of(V, e).na, Of(V, e).ue, w)
  BY <1>3, <1>4, Propagates
<1>6. OnlyFlags(S, U, e)
  BY <1>2, <1>5, OnlyFlagsTrans
<1> QED
  BY <1>2, <1>5, <1>6

(* UnexpandedCall: like a write of anything through an unknown pointer,    *)
(* if it writes memory at all; the arguments escape.                       *)
LEMMA CallStep ==
    ASSUME Sound(Store), NEW e \in Live, NEW w, NEW clobbersMemory \in BOOLEAN,
           UnexpandedCall(e, w, clobbersMemory)
    PROVE  /\ Sound(Store') /\ Has(Store', e)
           /\ ~clobbersMemory =>
                /\ OnlyFlags(Store, Store', e) /\ Of(Store', e).ue = Unseen(Store, e, w)
                /\ Of(Store', e).na = Unaliased(Of(Store, e).na, Unseen(Store, e, w), w)
           /\ clobbersMemory =>
                /\ Forgot(Store, Store', e, Of(Store, e).ue) /\ Spared(Store, Store', e)
                /\ \/ /\ Of(Store', e).ue = Unseen(Store, e, w)
                      /\ Of(Store', e).na = Unaliased(Of(Store, e).na \cap Of(Store, e).ue,
                                                      Unseen(Store, e, w), w)
                   \/ Of(Store', e).na = {} /\ Of(Store', e).ue = {}
<1>1. e \in Edges /\ Has(Store, e) /\ map[at[e]] = Of(Store, e)
  BY LiveHas DEF Of, Store
<1>2. PICK save : save = Of(Store, e).ue
  OBVIOUS
<1>3. PICK C : C = clobberAllExcept(Store, e, save)
  OBVIOUS
<1>4. PICK S : S = IF clobbersMemory
                     THEN setObjectsThreadGlobal(setObjectsMayAliasOld(C, e, Unknown), e, Unknown)
                     ELSE Store
  OBVIOUS
<1>5. PICK T : T = setObjectsMayAliasOld(pointerEscaped(S, e, w.p), e, w)
  OBVIOUS
<1>6. PICK U : U = setObjectsThreadGlobal(T, e, w)
  OBVIOUS
<1>7. Becomes(U)
  BY <1>1, <1>2, <1>3, <1>4, <1>5, <1>6 DEF UnexpandedCall, propagateStoreFlags
<1>8. CASE ~clobbersMemory
  <2>1. S = Store
    BY <1>4, <1>8
  <2>2. /\ OnlyFlags(Store, U, e) /\ Of(U, e).ue = Unseen(Store, e, w)
        /\ Of(U, e).na = Unaliased(Of(Store, e).na, Unseen(Store, e, w), w)
    BY <1>1, <1>5, <1>6, <2>1, ArgumentsEffect
  <2>3. Sound(U) /\ Has(U, e)
    BY <2>2 DEF OnlyFlags
  <2>4. Store' = U
    BY <1>7, <2>3, Became
  <2> QED
    BY <1>8, <2>2, <2>3, <2>4
<1>9. CASE clobbersMemory
  <2>1. S = setObjectsThreadGlobal(setObjectsMayAliasOld(C, e, Unknown), e, Unknown)
    BY <1>4, <1>9
  <2>2. save \subseteq Scope(Store, e)
    BY <1>1, <1>2, InScope
  <2>3. /\ Sound(C) /\ Has(C, e) /\ Forgot(Store, C, e, save) /\ Spared(Store, C, e)
        /\ \/ Of(C, e).na = Of(Store, e).na /\ Of(C, e).ue = Of(Store, e).ue
           \/ Of(C, e).na = {} /\ Of(C, e).ue = {}
    BY <1>1, <1>3, <2>2, ClobberEffect
  <2>4. PICK any : any = Unknown
    OBVIOUS
  <2>5. /\ OnlyFlags(C, S, e) /\ Of(S, e).ue = Of(C, e).ue
        /\ Of(S, e).na = Unaliased(Of(C, e).na, Of(C, e).ue, any)
    <3>1. S = setObjectsThreadGlobal(setObjectsMayAliasOld(C, e, any), e, any)
      BY <2>1, <2>4
    <3> QED
      BY <1>1, <2>3, <3>1, Propagates
  <2>6. Of(S, e).na = Of(C, e).na \cap Of(C, e).ue
    BY <2>4, <2>5 DEF Unaliased, Unknown
  <2>7. Sound(S) /\ Has(S, e)
    BY <2>5 DEF OnlyFlags
  <2>8. /\ OnlyFlags(S, U, e) /\ Of(U, e).ue = Unseen(S, e, w)
        /\ Of(U, e).na = Unaliased(Of(S, e).na, Unseen(S, e, w), w)
    BY <1>1, <1>5, <1>6, <2>7, ArgumentsEffect
  <2>9. OnlyFlags(C, U, e)
    BY <2>5, <2>8, OnlyFlagsTrans
  <2>10. Sound(U) /\ Has(U, e) /\ AgreeBesides(C, U, e) /\ SameObjects(C, U, e)
    BY <2>9 DEF OnlyFlags
  <2>11. Spared(Store, U, e)
    <3>1. AgreeBesides(Store, Store, e) /\ SameObjects(Store, Store, e)
      BY DEF AgreeBesides, Agree, SameObjects
    <3> QED
      BY <3>1, <2>3, <2>10, SparedTrans
  <2>12. Forgot(Store, U, e, save)
    BY <2>3, <2>10 DEF Forgot, SameObjects
  <2>13. \/ /\ Of(U, e).ue = Unseen(Store, e, w)
            /\ Of(U, e).na = Unaliased(Of(Store, e).na \cap Of(Store, e).ue, Unseen(Store, e, w), w)
         \/ Of(U, e).na = {} /\ Of(U, e).ue = {}
    <3>1. CASE Of(C, e).na = Of(Store, e).na /\ Of(C, e).ue = Of(Store, e).ue
      BY <3>1, <2>5, <2>6, <2>8 DEF Unseen
    <3>2. CASE Of(C, e).na = {} /\ Of(C, e).ue = {}
      BY <3>2, <2>5, <2>6, <2>8 DEF Unaliased, Unseen
    <3> QED
      BY <3>1, <3>2, <2>3
  <2>14. Store' = U
    BY <1>7, <2>10, Became
  <2> QED
    BY <1>2, <1>9, <2>10, <2>11, <2>12, <2>13, <2>14
<1> QED
  BY <1>8, <1>9

(* Merge: edge g has the merged store, the others that were merged have    *)
(* none.                                                                   *)
LEMMA MergeStep ==
    ASSUME Sound(Store), NEW D, NEW g \in D, Merge(D, g)
    PROVE  /\ Sound(Store') /\ Has(Store', g) /\ Merged(Store, Store', D, g)
           /\ D \subseteq Live
           /\ \A f \in D : Of(Store, f).depth = Of(Store, g).depth
           /\ \A f \in D : f # g => ~Has(Store', f)
           /\ \A f \in Edges : f \notin D => Agree(Store, Store', f)
<1>1. /\ D \subseteq Live /\ D \subseteq Edges /\ \A f \in D : Has(Store, f)
      /\ \A f \in D : Of(Store, f).depth = Of(Store, g).depth
  BY LiveHas DEF Merge
<1>2. PICK V : V = doMerge(Store, D, g)
  OBVIOUS
<1>3. PICK T : T = dropReferences(V, D \ {g})
  OBVIOUS
<1>4. Becomes(T)
  BY <1>2, <1>3 DEF Merge
<1>5. Sound(V) /\ Has(V, g) /\ AgreeBesides(Store, V, g) /\ Merged(Store, V, D, g)
  BY <1>1, <1>2, MergeSound
<1>6. PICK E : E = D \ {g}
  OBVIOUS
<1>7. E \subseteq Edges /\ T = dropReferences(V, E) /\ g \notin E /\ g \in Edges
  BY <1>1, <1>3, <1>6
<1>8. /\ Sound(T) /\ \A f \in E : ~Has(T, f)
      /\ \A f \in Edges : f \notin E => Agree(V, T, f)
  BY <1>5, <1>7, DropSound
<1>9. Agree(V, T, g) /\ Has(T, g)
  BY <1>5, <1>7, <1>8 DEF Agree, Has
<1>10. Merged(Store, T, D, g)
  BY <1>5, <1>9 DEF Merged, Agree, Has
<1>11. ASSUME NEW f \in Edges, f \notin D
       PROVE  Agree(Store, T, f)
  <2>1. Agree(Store, V, f) /\ Agree(V, T, f)
    BY <1>11, <1>5, <1>6, <1>8 DEF AgreeBesides
  <2> QED
    BY <2>1, AgreeTrans
<1>12. \A f \in D : f # g => ~Has(T, f)
  BY <1>6, <1>8
<1>13. Store' = T
  BY <1>4, <1>8, Became
<1> QED
  BY <1>1, <1>8, <1>9, <1>10, <1>11, <1>12, <1>13

(***************************************************************************)
(* The invariants.                                                         *)
(***************************************************************************)
(* The inductive invariant: none of its three parts is inductive by        *)
(* itself, for whether a table may be written in place, or a free one      *)
(* found, depends on the counts, and the counts on nothing being freed     *)
(* that is not cleared.                                                    *)
Inv == Sound(Store) /\ size \in Sizes

(* The invariant holds when interpretation starts.                         *)
LEMMA InitSound ==
    ASSUME Init
    PROVE  Inv
<1> DEFINE T == Store
           one == [FreeMap EXCEPT !.ref = 1]
<1>1. PICK e \in Edges : at = [f \in Edges |-> IF f = e THEN 1 ELSE NoMap]
  BY DEF Init
<1>2. /\ T = [map |-> T.map, tab |-> T.tab, at |-> T.at]
      /\ T.map = [m \in MapIds |-> IF m = 1 THEN one ELSE FreeMap]
      /\ T.tab = [i \in Levels |-> [k \in MapIds |-> FreeTab]]
      /\ T.at = [f \in Edges |-> IF f = e THEN 1 ELSE NoMap]
  BY <1>1 DEF Init, Store
<1>3. /\ one \in MapType /\ one.ref = 1 /\ one.depth = 0 /\ one.tabs = FreeMap.tabs
      /\ one.na = {} /\ one.ue = {}
  BY FreeFields, MapRef, MapIdsFinite
<1> HIDE DEF T, one
<1>4. ASSUME NEW m \in MapIds
      PROVE  SoundMap(T, m)
  <2>1. Cardinality(Holders(T, m)) = IF m = 1 THEN 1 ELSE 0
    <3>1. Holders(T, m) = IF m = 1 THEN {e} ELSE {}
      BY <1>2, MapIdsFinite DEF Holders, NoMap
    <3> QED
      BY <3>1, FS_Singleton, FS_EmptySet
  <2>2. T.map[m] = IF m = 1 THEN one ELSE FreeMap
    BY <1>2
  <2>3. \A i \in Levels \ {0} : ~(i <= 0)
    BY CowAssumption DEF Levels
  <2>4. /\ T.map[m] \in MapType /\ T.map[m].ref = IF m = 1 THEN 1 ELSE 0
        /\ T.map[m].ref = 0 => T.map[m] = FreeMap
        /\ T.map[m].depth = 0 /\ T.map[m].na = {} /\ T.map[m].ue = {}
        /\ \A i \in Levels : T.map[m].tabs[i] = NoTab
    BY <2>2, <1>3, FreeFields
  <2> QED
    BY <2>1, <2>3, <2>4 DEF SoundMap
<1>5. ASSUME NEW i \in Levels, NEW k \in MapIds
      PROVE  SoundTab(T, i, k)
  <2>1. \A m \in MapIds : T.map[m].tabs[i] = NoTab
    <3>1. \A m \in MapIds : T.map[m] = IF m = 1 THEN one ELSE FreeMap
      BY <1>2
    <3> QED
      BY <3>1, <1>3, FreeFields
  <2>2. Cardinality(Users(T, i, k)) = 0
    <3>1. Users(T, i, k) = {}
      BY <2>1, MapIdsFinite DEF Users
    <3> QED
      BY <3>1, FS_EmptySet
  <2>3. T.tab[i][k] = FreeTab
    BY <1>2
  <2> QED
    BY <2>2, <2>3, FreeFields DEF SoundTab
<1>6. Sound(T)
  <2>1. T.at \in [Edges -> MapIds \cup {NoMap}]
    BY <1>2, MapIdsFinite
  <2>2. /\ T.map = [m \in MapIds |-> T.map[m]]
        /\ T.tab = [i \in Levels |-> [k \in MapIds |-> T.tab[i][k]]]
    BY <1>2
  <2> QED
    BY <2>1, <2>2, <1>2, <1>4, <1>5, SoundIf
<1> QED
  BY <1>6 DEF Inv, T, Init

(* Every action keeps it.                                                  *)
LEMMA NextSound ==
    ASSUME Inv, [Next]_vars
    PROVE  Sound(Store') /\ size' \in Sizes
<1>1. Sound(Store) /\ size \in Sizes
  BY DEF Inv
<1>2. CASE UNCHANGED vars
  BY <1>1, <1>2 DEF vars, Store
<1>3. CASE Next
  <2>1. size' \in Sizes
    BY <1>1, <1>3 DEF Next
  <2>2. ASSUME NEW e \in Live, Fork(e)
        PROVE  Sound(Store')
    BY <1>1, <2>2, ForkStep
  <2>3. ASSUME NEW e \in Live, Free(e)
        PROVE  Sound(Store')
    BY <1>1, <2>3, FreeStep
  <2>4. ASSUME NEW e \in Live, PushFrame(e)
        PROVE  Sound(Store')
    BY <1>1, <2>4, PushStep
  <2>5. ASSUME NEW e \in Live, PopFrame(e)
        PROVE  Sound(Store')
    BY <1>1, <2>5, PopStep
  <2>6. ASSUME NEW e \in Live, NEW P, valueEscaped(e, P)
        PROVE  Sound(Store')
    BY <1>1, <2>6, EscapeStep
  <2>7. ASSUME NEW e \in Live, NEW o, NEW x \in size.fresh, Alloc(e, o, x)
        PROVE  Sound(Store')
    BY <1>1, <2>7, AllocStep
  <2>8. ASSUME NEW e \in Live, NEW O, NEW w, NEW x \in size.written, NEW whole \in BOOLEAN,
               StoreInst(e, O, w, x, whole)
        PROVE  Sound(Store')
    BY <1>1, <2>8, StoreStep
  <2>9. ASSUME NEW e \in Live, NEW w, NEW old \in BOOLEAN, StoreUnknown(e, old, w)
        PROVE  Sound(Store')
    BY <1>1, <2>9, UnknownStep
  <2>10. ASSUME NEW e \in Live, NEW w, NEW clobbersMemory \in BOOLEAN,
                UnexpandedCall(e, w, clobbersMemory)
         PROVE  Sound(Store')
    BY <1>1, <2>10, CallStep
  <2>11. ASSUME NEW D, NEW g \in D, Merge(D, g)
         PROVE  Sound(Store')
    BY <1>1, <2>11, MergeStep
  <2> QED
    BY <1>3, <2>1, <2>2, <2>3, <2>4, <2>5, <2>6, <2>7, <2>8, <2>9, <2>10, <2>11 DEF Next
<1> QED
  BY <1>2, <1>3

(* It holds in every reachable state.                                      *)
LEMMA SoundAlways == Spec => []Inv
<1>1. Init => Inv
  BY InitSound
<1>2. Inv /\ [Next]_vars => Inv'
  BY NextSound DEF Inv
<1> QED
  BY <1>1, <1>2, PTL DEF Spec

(* In every state that the interpreter can bring the stores to, maps and   *)
(* tables are as SharedTree.h declares them: what is free is cleared,      *)
(* frames exist without gaps up to the depth, and only objects in scope    *)
(* are flagged.                                                            *)
THEOREM TypeCorrect == Spec => []TypeOK
<1>1. Inv => TypeOK
  BY DEF Inv, TypeOK, Sound
<1> QED
  BY <1>1, SoundAlways, PTL

(* Whatever is forked, copied, cleared, merged and freed, in whatever      *)
(* order and among however many edges: every refCount is the number of     *)
(* references there are.                                                   *)
THEOREM CountsExact == Spec => []RefCountsExact
<1>1. Inv => RefCountsExact
  BY DEF Inv, RefCountsExact, Sound
<1> QED
  BY <1>1, SoundAlways, PTL

(* A frame marked empty never has an entry, so that what getEmptyMap       *)
(* returns as it is really is empty.                                       *)
THEOREM MarkedEmpty == Spec => []EmptyIsEmpty
<1>1. Inv => EmptyIsEmpty
  BY DEF Inv, EmptyIsEmpty, Sound
<1> QED
  BY <1>1, SoundAlways, PTL
=============================================================================
