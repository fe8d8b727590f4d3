---------------------------- MODULE CowRefinement ----------------------------
(***************************************************************************)
(* Proofs that CowStore has entries for the objects it holds to be         *)
(* unescaped, and that it implements AbsStore.                             *)
(***************************************************************************)
EXTENDS CowStoreProofs

(***************************************************************************)
(* Flags.                                                                  *)
(***************************************************************************)
(* What the invariant says of edge e: what has not escaped is not aliased  *)
(* by old objects, and flagged objects have entries, but for escaped ones  *)
(* that lost theirs to a write through an unknown pointer.                 *)
Lost(S, e, o) == o \notin Of(S, e).ue /\ Of(S, e).aoc
FlaggedAt(S, e) ==
    Has(S, e) => /\ Of(S, e).ue \subseteq Of(S, e).na
                 /\ \A i \in Levels, s \in Slots :
                      <<i, s>> \in Of(S, e).na => Ents(S, e, i)[s] # None \/ Lost(S, e, <<i, s>>)

(* It is about what an edge sees.                                          *)
LEMMA FlaggedAgree ==
    ASSUME NEW S, NEW T, NEW f, Agree(S, T, f), FlaggedAt(S, f)
    PROVE  FlaggedAt(T, f)
  BY DEF Agree, FlaggedAt, Has, Lost

(* If only e sees a difference, only e matters.                            *)
LEMMA FlaggedBesides ==
    ASSUME NEW S, NEW T, NEW e, AgreeBesides(S, T, e), \A f \in Edges : FlaggedAt(S, f),
           FlaggedAt(T, e)
    PROVE  \A f \in Edges : FlaggedAt(T, f)
<1>1. ASSUME NEW f \in Edges, f # e
      PROVE  FlaggedAt(T, f)
  BY <1>1, FlaggedAgree DEF AgreeBesides
<1> QED
  BY <1>1

(* If others lost what they did not know anyway, only e matters.           *)
LEMMA FlaggedSpared ==
    ASSUME NEW S, NEW T, NEW e, Spared(S, T, e), \A f \in Edges : FlaggedAt(S, f),
           FlaggedAt(T, e)
    PROVE  \A f \in Edges : FlaggedAt(T, f)
<1>1. ASSUME NEW f \in Edges, Clobbered(S, T, f)
      PROVE  FlaggedAt(T, f)
  BY <1>1 DEF FlaggedAt, Clobbered, Lost
<1>2. ASSUME NEW f \in Edges, f # e
      PROVE  FlaggedAt(T, f)
  BY <1>1, <1>2, FlaggedAgree DEF Spared
<1> QED
  BY <1>2

(* What can be reached from what is stored was escaped before, or is       *)
(* stored itself.                                                          *)
LEMMA StoredFields ==
    ASSUME NEW e, NEW w \in Stored(e)
    PROVE  w.reach \cap Of(Store, e).ue = {}
<1> DEFINE m == map[at[e]]
<1>1. m = Of(Store, e)
  BY DEF Of, Store
<1>2. PICK p \in SUBSET (m.na \cup m.ue) :
         w \in [any : {"none", "old", "all"}, p : {p}, reach : SUBSET (m.na \ (m.ue \cup p))]
  BY DEF Stored
<1> HIDE DEF m
<1>3. w.reach \in SUBSET (m.na \ (m.ue \cup p))
  BY <1>2
<1> QED
  BY <1>1, <1>3

(* Flags after objects may alias old ones.                                 *)
LEMMA UnaliasedFields ==
    ASSUME NEW na, NEW ue, ue \subseteq na, NEW w, w.reach \cap ue = {}
    PROVE  /\ ue \ w.p \subseteq Unaliased(na, ue \ w.p, w)
           /\ Unaliased(na, ue \ w.p, w) \subseteq na
           /\ w.any = "all" => Unaliased(na, ue \ w.p, w) \subseteq ue \ w.p
  BY DEF Unaliased

(* Flags are lost, and objects stay: still flagged ones have entries.      *)
LEMMA FlaggedLost ==
    ASSUME NEW S, NEW T, NEW e, Has(S, e), FlaggedAt(S, e), SameObjects(S, T, e),
           Of(T, e).na \subseteq Of(S, e).na, Of(T, e).ue \subseteq Of(T, e).na,
           Of(T, e).ue \subseteq Of(S, e).ue
    PROVE  FlaggedAt(T, e)
  BY DEF FlaggedAt, SameObjects, Lost

(* Objects are given values: those that are flagged then have had entries, *)
(* or have got them.                                                       *)
LEMMA FlaggedHolds ==
    ASSUME NEW S, NEW T, NEW e, Has(S, e), FlaggedAt(S, e), NEW O, NEW v \in Values(O),
           Holds(S, T, e, O, v), Of(T, e).na \subseteq Of(S, e).na \cup O,
           Of(T, e).ue \subseteq Of(T, e).na, Of(T, e).ue \subseteq Of(S, e).ue \cup O
    PROVE  FlaggedAt(T, e)
<1>1. \A o \in O : v[o] # None
  BY CowAssumption DEF Values
<1>2. ASSUME NEW i \in Levels, NEW s \in Slots, <<i, s>> \in Of(T, e).na
      PROVE  Ents(T, e, i)[s] # None \/ Lost(T, e, <<i, s>>)
  <2>1. CASE <<i, s>> \in O
    BY <2>1, <1>1 DEF Holds
  <2>2. CASE <<i, s>> \notin O
    BY <2>2, <1>2 DEF Holds, FlaggedAt, Lost
  <2> QED
    BY <2>1, <2>2
<1> QED
  BY <1>2 DEF FlaggedAt

(* Objects are forgotten, but for those saved, unescaped ones among them.  *)
LEMMA FlaggedForgot ==
    ASSUME NEW S, NEW T, NEW e, NEW save, Forgot(S, T, e, save),
           Of(T, e).ue \subseteq save, Of(T, e).ue \subseteq Of(T, e).na
    PROVE  FlaggedAt(T, e)
<1>1. {} # None
  BY CowAssumption
<1>2. ASSUME NEW i \in Levels, NEW s \in Slots
      PROVE  Ents(T, e, i)[s] # None \/ Lost(T, e, <<i, s>>)
  <2>1. CASE <<i, s>> \in save
    <3>1. Ents(T, e, i)[s] = IF Ents(S, e, i)[s] = None THEN {} ELSE Ents(S, e, i)[s]
      BY <2>1 DEF Forgot
    <3> QED
      BY <3>1, <1>1
  <2>2. CASE <<i, s>> \notin save
    BY <2>2 DEF Forgot, Lost
  <2> QED
    BY <2>1, <2>2
<1> QED
  BY <1>2 DEF FlaggedAt

(* Stores are merged: what is flagged on all edges has entries on all, or  *)
(* has lost one to a clobbering that the result remembers.                 *)
LEMMA FlaggedMerged ==
    ASSUME NEW S, NEW T, NEW D, NEW g \in D, \A f \in D : Has(S, f),
           \A f \in D : FlaggedAt(S, f), \A f \in D : Sound(S), D \subseteq Edges,
           Merged(S, T, D, g)
    PROVE  FlaggedAt(T, g)
<1>1. Of(T, g).ue \subseteq Of(T, g).na
  <2>1. \A f \in D : Of(S, f).ue \subseteq Of(S, f).na
    BY DEF FlaggedAt
  <2>2. /\ Of(T, g).na = {o \in Of(S, g).na : \A f \in D : o \in Of(S, f).na}
        /\ Of(T, g).ue = {o \in Of(S, g).ue : \A f \in D : o \in Of(S, f).ue}
    BY DEF Merged
  <2> QED
    BY <2>1, <2>2
<1>2. ASSUME NEW i \in Levels, NEW s \in Slots, <<i, s>> \in Of(T, g).na,
             \A f \in D : Ents(S, f, i)[s] # None
      PROVE  Ents(T, g, i)[s] # None
  <2>1. \A f \in D : <<i, s>> \in Of(S, f).na
    BY <1>2 DEF Merged
  <2>2. \A f \in D : Ents(S, f, i)[s] # None /\ Ents(S, f, i)[s] \in SUBSET Vals
    <3>1. \A f \in D : Ents(S, f, i) \in EntryMaps
      BY EntsType DEF Has
    <3> QED
      BY <1>2, <3>1 DEF EntryMaps
  <2> DEFINE known == {Ents(S, f, i)[s] : f \in D} \ {None}
             some == \E f \in D : Of(S, f).aoc
             none == \E f \in D : Ents(S, f, i)[s] = None
  <2>3. MergedValue(S, D, i, s) = IF known = {} \/ (some /\ none) THEN None ELSE UNION known
    BY DEF MergedValue, MergedEntry, Ents
  <2>4. known # {} /\ ~none /\ UNION known \in SUBSET Vals
    BY <2>2
  <2>5. UNION known # None
    BY <2>4, CowAssumption
  <2>6. MergedValue(S, D, i, s) # None
    <3> HIDE DEF known, some, none
    <3> QED
      BY <2>3, <2>4, <2>5
  <2> QED
    BY <2>6 DEF Merged
<1>3. ASSUME NEW i \in Levels, NEW s \in Slots, <<i, s>> \in Of(T, g).na,
             NEW f \in D, Ents(S, f, i)[s] = None
      PROVE  Lost(T, g, <<i, s>>)
  <2>1. <<i, s>> \in Of(S, f).na
    BY <1>3 DEF Merged
  <2>2. Lost(S, f, <<i, s>>)
    BY <1>3, <2>1 DEF FlaggedAt
  <2>3. <<i, s>> \notin Of(T, g).ue /\ SomeClobbered(S, D)
    BY <2>2 DEF Lost, Merged, SomeClobbered
  <2> QED
    BY <2>3 DEF Lost, Merged
<1> QED
  BY <1>1, <1>2, <1>3 DEF FlaggedAt

(* Every action keeps it.                                                  *)
AllFlagged(S) == \A f \in Edges : FlaggedAt(S, f)

(* Fork: the new edge has what the other has.                              *)
LEMMA FlaggedFork ==
    ASSUME Sound(Store), size \in Sizes, AllFlagged(Store), NEW e \in Live, Fork(e)
    PROVE  AllFlagged(Store')
<1>1. PICK f \in Edges : ~Has(Store, f) /\ AgreeBesides(Store, Store', f) /\ SameStore(Store, e, Store', f)
  BY ForkStep
<1>2. FlaggedAt(Store, e) /\ Has(Store, e)
  BY LiveHas DEF AllFlagged
<1>3. FlaggedAt(Store', f)
  BY <1>1, <1>2 DEF FlaggedAt, SameStore, Lost
<1> QED
  BY <1>1, <1>3, FlaggedBesides DEF AllFlagged

(* Free: an edge without store has no flags.                               *)
LEMMA FlaggedFree ==
    ASSUME Sound(Store), AllFlagged(Store), NEW e \in Live, Free(e)
    PROVE  AllFlagged(Store')
<1>1. ~Has(Store', e) /\ AgreeBesides(Store, Store', e)
  BY FreeStep
<1>2. FlaggedAt(Store', e)
  BY <1>1 DEF FlaggedAt
<1> QED
  BY <1>1, <1>2, FlaggedBesides DEF AllFlagged

(* PushFrame: no object of the new frame is flagged.                       *)
LEMMA FlaggedPush ==
    ASSUME Sound(Store), size \in Sizes, AllFlagged(Store), NEW e \in Live, PushFrame(e)
    PROVE  AllFlagged(Store')
<1>1. Pushed(Store, Store', e)
  BY PushStep
<1>2. FlaggedAt(Store, e) /\ Has(Store, e)
  BY LiveHas DEF AllFlagged
<1>3. FlaggedAt(Store', e)
  BY <1>1, <1>2 DEF FlaggedAt, Pushed, Lost
<1> QED
  BY <1>1, <1>3, FlaggedBesides DEF AllFlagged, Pushed

(* PopFrame: objects that lose their entry lose their flags, which is      *)
(* what popAllocas is for.                                                 *)
LEMMA FlaggedPop ==
    ASSUME Sound(Store), AllFlagged(Store), NEW e \in Live, PopFrame(e)
    PROVE  AllFlagged(Store')
<1>1. Popped(Store, Store', e)
  BY PopStep
<1>2. FlaggedAt(Store, e) /\ Has(Store, e)
  BY LiveHas DEF AllFlagged
<1>3. Of(Store', e).ue \subseteq Of(Store', e).na
  BY <1>1, <1>2 DEF FlaggedAt, Popped
<1>4. ASSUME NEW i \in Levels, NEW s \in Slots, <<i, s>> \in Of(Store', e).na
      PROVE  Ents(Store', e, i)[s] # None \/ Lost(Store', e, <<i, s>>)
  <2>1. <<i, s>> \in Of(Store, e).na /\ i # Of(Store, e).depth
    BY <1>1, <1>4 DEF Popped
  <2> QED
    BY <1>1, <1>2, <2>1 DEF FlaggedAt, Popped, Lost
<1>5. FlaggedAt(Store', e)
  BY <1>3, <1>4 DEF FlaggedAt
<1> QED
  BY <1>1, <1>5, FlaggedBesides DEF AllFlagged, Popped

(* valueEscaped: flags are only lost.                                      *)
LEMMA FlaggedEscape ==
    ASSUME Sound(Store), AllFlagged(Store), NEW e \in Live, NEW P, valueEscaped(e, P)
    PROVE  AllFlagged(Store')
<1>1. /\ OnlyFlags(Store, Store', e)
      /\ Of(Store', e).na = Of(Store, e).na /\ Of(Store', e).ue = Of(Store, e).ue \ P
  BY EscapeStep
<1>2. FlaggedAt(Store, e) /\ Has(Store, e)
  BY LiveHas DEF AllFlagged
<1>3. /\ Of(Store', e).na \subseteq Of(Store, e).na /\ Of(Store', e).ue \subseteq Of(Store', e).na
      /\ Of(Store', e).ue \subseteq Of(Store, e).ue
  BY <1>1, <1>2 DEF FlaggedAt
<1>4. FlaggedAt(Store', e)
  BY <1>1, <1>2, <1>3, FlaggedLost DEF OnlyFlags
<1> QED
  BY <1>1, <1>4, FlaggedBesides DEF AllFlagged, OnlyFlags

(* Alloc: the flagged object has got an entry.                             *)
LEMMA FlaggedAlloc ==
    ASSUME Sound(Store), size \in Sizes, AllFlagged(Store), NEW e \in Live, NEW o,
           NEW x \in size.fresh, Alloc(e, o, x)
    PROVE  AllFlagged(Store')
<1>1. PICK O : O = {o}
  OBVIOUS
<1>2. /\ AgreeBesides(Store, Store', e)
      /\ Of(Store', e).na = Of(Store, e).na \cup {o} /\ Of(Store', e).ue = Of(Store, e).ue \cup {o}
      /\ \E v \in Values({o}) : v[o] = x /\ Holds(Store, Store', e, {o}, v)
  BY AllocStep
<1>3. PICK v \in Values(O) : Holds(Store, Store', e, O, v)
  BY <1>1, <1>2
<1>4. FlaggedAt(Store, e) /\ Has(Store, e)
  BY LiveHas DEF AllFlagged
<1>5. /\ Of(Store', e).na \subseteq Of(Store, e).na \cup O /\ Of(Store', e).ue \subseteq Of(Store', e).na
      /\ Of(Store', e).ue \subseteq Of(Store, e).ue \cup O
  BY <1>1, <1>2, <1>4 DEF FlaggedAt
<1>6. FlaggedAt(Store', e)
  BY <1>3, <1>4, <1>5, FlaggedHolds
<1> QED
  BY <1>2, <1>6, FlaggedBesides DEF AllFlagged

(* StoreInst: entries are only made, and flags only lost; of unescaped     *)
(* objects only with what escapes.                                         *)
LEMMA FlaggedStore ==
    ASSUME Sound(Store), size \in Sizes, AllFlagged(Store), NEW e \in Live, NEW O, NEW w \in Stored(e),
           NEW x \in size.written, NEW whole \in BOOLEAN, StoreInst(e, O, w, x, whole)
    PROVE  AllFlagged(Store')
<1>1. /\ AgreeBesides(Store, Store', e)
      /\ Overwrites(Store, Store', e, O, x, whole) /\ StoreFlags(Store, Store', e, w)
  BY StoreStep
<1>2. FlaggedAt(Store, e) /\ Has(Store, e)
  BY LiveHas DEF AllFlagged
<1>3. w.reach \cap Of(Store, e).ue = {}
  BY StoredFields
<1>4. PICK v \in Values(O) : Holds(Store, Store', e, O, v)
  BY <1>1 DEF Overwrites
<1>5. /\ Of(Store', e).na \subseteq Of(Store, e).na \cup O /\ Of(Store', e).ue \subseteq Of(Store', e).na
      /\ Of(Store', e).ue \subseteq Of(Store, e).ue \cup O
  BY <1>1, <1>2, <1>3 DEF FlaggedAt, StoreFlags, Unseen
<1>6. FlaggedAt(Store', e)
  BY <1>2, <1>4, <1>5, FlaggedHolds
<1> QED
  BY <1>1, <1>6, FlaggedBesides DEF AllFlagged

(* StoreUnknown: what is still held to be unescaped was saved.             *)
LEMMA FlaggedUnknown ==
    ASSUME Sound(Store), AllFlagged(Store), NEW e \in Live, NEW w \in Stored(e),
           NEW old \in BOOLEAN, StoreUnknown(e, old, w)
    PROVE  AllFlagged(Store')
<1>1. PICK save : save = IF old THEN Of(Store, e).na ELSE Unseen(Store, e, w)
  OBVIOUS
<1>2. /\ Spared(Store, Store', e)
      /\ Forgot(Store, Store', e, save)
      /\ \/ /\ Of(Store', e).ue = Unseen(Store, e, w)
            /\ Of(Store', e).na = Unaliased(Of(Store, e).na, Unseen(Store, e, w), w)
         \/ Of(Store', e).na = {} /\ Of(Store', e).ue = {}
  BY <1>1, UnknownStep
<1>3. FlaggedAt(Store, e) /\ Has(Store, e)
  BY LiveHas DEF AllFlagged
<1>4. w.reach \cap Of(Store, e).ue = {} /\ Of(Store, e).ue \subseteq Of(Store, e).na
  BY <1>3, StoredFields DEF FlaggedAt
<1>5. Of(Store', e).ue \subseteq save /\ Of(Store', e).ue \subseteq Of(Store', e).na
  <2>1. CASE Of(Store', e).na = {} /\ Of(Store', e).ue = {}
    BY <2>1
  <2>2. CASE /\ Of(Store', e).ue = Unseen(Store, e, w)
             /\ Of(Store', e).na = Unaliased(Of(Store, e).na, Unseen(Store, e, w), w)
    BY <1>1, <1>2, <1>4, <2>2 DEF Unseen, Unaliased
  <2> QED
    BY <2>1, <2>2, <1>2
<1>6. FlaggedAt(Store', e)
  BY <1>2, <1>5, FlaggedForgot
<1>7. Spared(Store, Store', e) /\ \A f \in Edges : FlaggedAt(Store, f)
  BY <1>2 DEF AllFlagged
<1>8. \A f \in Edges : FlaggedAt(Store', f)
  BY ONLY <1>6, <1>7, FlaggedSpared
<1> QED
  BY <1>8 DEF AllFlagged

(* UnexpandedCall: so was what was unescaped before.                       *)
LEMMA FlaggedCall ==
    ASSUME Sound(Store), AllFlagged(Store), NEW e \in Live, NEW w \in Stored(e),
           NEW clobbersMemory \in BOOLEAN, UnexpandedCall(e, w, clobbersMemory)
    PROVE  AllFlagged(Store')
<1>1. FlaggedAt(Store, e) /\ Has(Store, e)
  BY LiveHas DEF AllFlagged
<1>2. w.reach \cap Of(Store, e).ue = {} /\ Of(Store, e).ue \subseteq Of(Store, e).na
  BY <1>1, StoredFields DEF FlaggedAt
<1>3. CASE ~clobbersMemory
  <2>1. /\ OnlyFlags(Store, Store', e) /\ Of(Store', e).ue = Unseen(Store, e, w)
        /\ Of(Store', e).na = Unaliased(Of(Store, e).na, Unseen(Store, e, w), w)
    BY <1>3, CallStep
  <2>2. /\ Of(Store', e).na \subseteq Of(Store, e).na /\ Of(Store', e).ue \subseteq Of(Store', e).na
        /\ Of(Store', e).ue \subseteq Of(Store, e).ue
    BY <2>1, <1>2 DEF Unseen, Unaliased
  <2>3. FlaggedAt(Store', e)
    BY <1>1, <2>1, <2>2, FlaggedLost DEF OnlyFlags
  <2> QED
    BY <2>1, <2>3, FlaggedBesides DEF AllFlagged, OnlyFlags
<1>4. CASE clobbersMemory
  <2>1. PICK save : save = Of(Store, e).ue
    OBVIOUS
  <2>2. /\ Forgot(Store, Store', e, save) /\ Spared(Store, Store', e)
        /\ \/ /\ Of(Store', e).ue = Unseen(Store, e, w)
              /\ Of(Store', e).na = Unaliased(Of(Store, e).na \cap Of(Store, e).ue,
                                              Unseen(Store, e, w), w)
           \/ Of(Store', e).na = {} /\ Of(Store', e).ue = {}
    BY <1>4, <2>1, CallStep
  <2>3. Of(Store', e).ue \subseteq save /\ Of(Store', e).ue \subseteq Of(Store', e).na
    <3>1. CASE Of(Store', e).na = {} /\ Of(Store', e).ue = {}
      BY <3>1
    <3>2. CASE /\ Of(Store', e).ue = Unseen(Store, e, w)
               /\ Of(Store', e).na = Unaliased(Of(Store, e).na \cap Of(Store, e).ue,
                                               Unseen(Store, e, w), w)
      BY <1>2, <2>1, <3>2 DEF Unseen, Unaliased
    <3> QED
      BY <3>1, <3>2, <2>2
  <2>4. FlaggedAt(Store', e)
    BY <2>2, <2>3, FlaggedForgot
  <2> QED
    BY <2>2, <2>4, FlaggedSpared DEF AllFlagged
<1> QED
  BY <1>3, <1>4

(* Merge: only what is flagged on all edges stays flagged.                 *)
LEMMA FlaggedMerge ==
    ASSUME Sound(Store), AllFlagged(Store), NEW D, NEW g \in D, Merge(D, g)
    PROVE  AllFlagged(Store')
<1>1. /\ Merged(Store, Store', D, g) /\ D \subseteq Live
      /\ \A f \in D : f # g => ~Has(Store', f)
      /\ \A f \in Edges : f \notin D => Agree(Store, Store', f)
  BY MergeStep
<1>2. D \subseteq Edges /\ (\A f \in D : Has(Store, f)) /\ \A f \in D : FlaggedAt(Store, f)
  BY <1>1, LiveHas DEF AllFlagged
<1>3. FlaggedAt(Store', g)
  BY <1>1, <1>2, FlaggedMerged
<1>4. ASSUME NEW f \in Edges
      PROVE  FlaggedAt(Store', f)
  <2>1. CASE f = g
    BY <1>3, <2>1
  <2>2. CASE f \in D /\ f # g
    BY <1>1, <2>2 DEF FlaggedAt
  <2>3. CASE f \notin D
    BY <1>1, <2>3, FlaggedAgree DEF AllFlagged
  <2> QED
    BY <2>1, <2>2, <2>3
<1> QED
  BY <1>4 DEF AllFlagged

(* Every action keeps it.                                                  *)
LEMMA NextFlagged ==
    ASSUME Inv, AllFlagged(Store), [Next]_vars
    PROVE  AllFlagged(Store')
<1>1. Sound(Store) /\ size \in Sizes
  BY DEF Inv
<1>2. CASE UNCHANGED vars
  <2>1. Store' = Store
    BY <1>2 DEF vars, Store
  <2> QED
    BY <2>1
<1>3. CASE Next
  <2>1. ASSUME NEW e \in Live, Fork(e)
        PROVE  AllFlagged(Store')
    BY <1>1, <2>1, FlaggedFork
  <2>2. ASSUME NEW e \in Live, Free(e)
        PROVE  AllFlagged(Store')
    BY <1>1, <2>2, FlaggedFree
  <2>3. ASSUME NEW e \in Live, PushFrame(e)
        PROVE  AllFlagged(Store')
    BY <1>1, <2>3, FlaggedPush
  <2>4. ASSUME NEW e \in Live, PopFrame(e)
        PROVE  AllFlagged(Store')
    BY <1>1, <2>4, FlaggedPop
  <2>5. ASSUME NEW e \in Live, NEW P, valueEscaped(e, P)
        PROVE  AllFlagged(Store')
    BY <1>1, <2>5, FlaggedEscape
  <2>6. ASSUME NEW e \in Live, NEW o, NEW x \in size.fresh, Alloc(e, o, x)
        PROVE  AllFlagged(Store')
    BY <1>1, <2>6, FlaggedAlloc
  <2>7. ASSUME NEW e \in Live, NEW O, NEW w \in Stored(e), NEW x \in size.written,
               NEW whole \in BOOLEAN, StoreInst(e, O, w, x, whole)
        PROVE  AllFlagged(Store')
    BY <1>1, <2>7, FlaggedStore
  <2>8. ASSUME NEW e \in Live, NEW w \in Stored(e), NEW old \in BOOLEAN, StoreUnknown(e, old, w)
        PROVE  AllFlagged(Store')
    BY <1>1, <2>8, FlaggedUnknown
  <2>9. ASSUME NEW e \in Live, NEW w \in Stored(e), NEW clobbersMemory \in BOOLEAN,
               UnexpandedCall(e, w, clobbersMemory)
        PROVE  AllFlagged(Store')
    BY <1>1, <2>9, FlaggedCall
  <2>10. ASSUME NEW D, NEW g \in D, Merge(D, g)
         PROVE  AllFlagged(Store')
    BY <1>1, <2>10, FlaggedMerge
  <2> QED
    BY <1>3, <2>1, <2>2, <2>3, <2>4, <2>5, <2>6, <2>7, <2>8, <2>9, <2>10 DEF Next
<1> QED
  BY <1>2, <1>3

(* Nothing is flagged when interpretation starts.                          *)
LEMMA InitFlagged ==
    ASSUME Init
    PROVE  AllFlagged(Store)
<1> SUFFICES ASSUME NEW f \in Edges, Has(Store, f)
             PROVE  Of(Store, f).na = {} /\ Of(Store, f).ue = {}
  BY DEF AllFlagged, FlaggedAt
<1>1. at[f] = 1 /\ 1 \in MapIds
  BY MapIdsFinite DEF Init, Has, Store
<1>2. map[1] = [FreeMap EXCEPT !.ref = 1]
  BY <1>1 DEF Init
<1>3. map[1].na = {} /\ map[1].ue = {}
  BY <1>2 DEF FreeMap
<1> QED
  BY <1>1, <1>3 DEF Of, Store

(* Both invariants together, step by step.                                 *)
FlaggedInv == Inv /\ AllFlagged(Store)

(* Both hold in every reachable state.                                     *)
LEMMA FlaggedAlways == Spec => []FlaggedInv
<1>1. Init => FlaggedInv
  BY InitSound, InitFlagged DEF FlaggedInv
<1>2. FlaggedInv /\ [Next]_vars => FlaggedInv'
  <2> SUFFICES ASSUME FlaggedInv, [Next]_vars
               PROVE  FlaggedInv'
    OBVIOUS
  <2>1. Inv /\ AllFlagged(Store)
    BY DEF FlaggedInv
  <2>2. AllFlagged(Store')
    BY <2>1, NextFlagged
  <2>3. Sound(Store') /\ size' \in Sizes
    BY <2>1, NextSound
  <2> QED
    BY <2>2, <2>3 DEF FlaggedInv, Inv, AllFlagged
<1> QED
  BY <1>1, <1>2, PTL DEF Spec

(* An object that LLPE holds to be unescaped has an entry, which is what   *)
(* clobberAllExcept saves: nothing that is known of it is lost by a write  *)
(* through an unknown pointer.  An object that is only held not to be      *)
(* aliased by old ones may have lost its entry, but to such a write.       *)
THEOREM FlaggedKept == Spec => []FlaggedHasEntry
<1>1. FlaggedInv => FlaggedHasEntry
  <2> SUFFICES ASSUME FlaggedInv, NEW e \in Live, NEW o \in Of(Store, e).na \cup Of(Store, e).ue
               PROVE  \/ Entries(Store, o[1], Of(Store, e).tabs[o[1]])[o[2]] # None
                      \/ o \notin Of(Store, e).ue /\ Of(Store, e).aoc
    BY DEF FlaggedHasEntry
  <2>1. e \in Edges /\ Has(Store, e) /\ FlaggedAt(Store, e) /\ Sound(Store)
    BY LiveHas DEF FlaggedInv, AllFlagged, Inv
  <2>2. o \in Of(Store, e).na
    BY <2>1 DEF FlaggedAt
  <2>3. o \in Levels \X Slots
    BY <2>1, <2>2, InScope
  <2>4. PICK i \in Levels, s \in Slots : o = <<i, s>>
    BY <2>3
  <2>5. Ents(Store, e, i)[s] # None \/ Lost(Store, e, o)
    BY <2>1, <2>2, <2>4 DEF FlaggedAt
  <2> QED
    BY <2>4, <2>5 DEF Ents, Lost
<1> QED
  BY <1>1, FlaggedAlways, PTL

(***************************************************************************)
(* Refinement.                                                             *)
(***************************************************************************)
(* What can be seen of an edge that has a store, field by field, and of    *)
(* one that has none.                                                      *)
LEMMA ViewFields ==
    ASSUME NEW S, NEW e, Has(S, e)
    PROVE  /\ View(S, e) # Abs!Nothing /\ View(S, e).live
           /\ View(S, e).depth = Of(S, e).depth /\ View(S, e).wary = Of(S, e).aoc
           /\ View(S, e).na = Of(S, e).na /\ View(S, e).ue = Of(S, e).ue
           /\ View(S, e).read = [o \in Scope(S, e) |-> Known(S, e, o)]
  BY DEF View, Has, Abs!Nothing

(* An edge without store shows nothing.                                    *)
LEMMA ViewNothing ==
    ASSUME NEW S, NEW e, ~Has(S, e)
    PROVE  View(S, e) = Abs!Nothing
  BY DEF View, Has, Abs!Nothing

(* What is written is one known value, or any.                             *)
LEMMA WrittenIn ==
    ASSUME size \in Sizes
    PROVE  size.written \subseteq Written /\ size.fresh \subseteq Written
<1>1. size \in [edges : 1..Cardinality(Edges), depth : Levels, written : SUBSET Written,
                  fresh : SUBSET Written]
  BY CowAssumption
<1> QED
  BY <1>1

(* What an object may hold, by its entry.                                  *)
Reading(x, aoc) == IF x # None THEN x ELSE IF aoc THEN Vals ELSE {}

(* It is what is read of the entry.                                        *)
LEMMA KnownEntry ==
    ASSUME NEW S, NEW e, NEW i \in Levels, NEW s \in Slots
    PROVE  Known(S, e, <<i, s>>) = Reading(Ents(S, e, i)[s], Of(S, e).aoc)
  BY DEF Known, Ents, Reading

(* Objects are pairs of a level and a slot.                                *)
LEMMA ObjectPair ==
    ASSUME NEW S, Sound(S), NEW e \in Edges, Has(S, e), NEW o \in Scope(S, e)
    PROVE  \E i \in Levels, s \in Slots : o = <<i, s>>
<1>1. o \in Levels \X Slots
  BY InScope
<1> QED
  BY <1>1

(* Edges that have the same are seen to have the same.                     *)
LEMMA ViewSame ==
    ASSUME NEW S, Sound(S), NEW e \in Edges, Has(S, e), NEW T, NEW f, SameStore(S, e, T, f)
    PROVE  View(T, f) = View(S, e)
<1>1. Scope(T, f) = Scope(S, e)
  BY DEF SameStore, Scope
<1>2. ASSUME NEW o \in Scope(S, e)
      PROVE  Known(T, f, o) = Known(S, e, o)
  <2>1. PICK i \in Levels, s \in Slots : o = <<i, s>>
    BY ObjectPair
  <2> QED
    BY <2>1, KnownEntry DEF SameStore
<1>3. [o \in Scope(T, f) |-> Known(T, f, o)] = [o \in Scope(S, e) |-> Known(S, e, o)]
  BY <1>1, <1>2
<1> QED
  BY <1>3 DEF View, Has, SameStore

(* An edge that reads the same shows the same.                             *)
LEMMA ViewAgree ==
    ASSUME NEW S, Sound(S), NEW T, NEW f \in Edges, Agree(S, T, f)
    PROVE  View(T, f) = View(S, f)
<1>1. CASE Has(S, f)
  <2>1. SameStore(S, f, T, f)
    BY <1>1 DEF Agree, Has, SameStore
  <2> QED
    BY <1>1, <2>1, ViewSame
<1>2. CASE ~Has(S, f)
  <2>1. ~Has(T, f)
    BY <1>2 DEF Agree, Has
  <2> QED
    BY <1>2, <2>1, ViewNothing
<1> QED
  BY <1>1, <1>2

(* The disjuncts of AbsStore's next-state relation.                        *)
AbsStep(H, I) ==
    \/ \E e \in Edges : Abs!Own(e, H, I) \/ Abs!Fork(e, H, I)
    \/ Abs!ClobberEmpty(H, I)
    \/ \E e \in Abs!Live(H) : Abs!Merge({e} \cup (Abs!Live(H) \ Abs!Live(I)), e, H, I)

(* What AbsStore lets an edge do by itself.                                *)
OwnStep(s, t) ==
    \/ t = Abs!Nothing \/ Abs!Escape(s, t) \/ Abs!Store(s, t) \/ Abs!Alloc(s, t)
    \/ Abs!Push(s, t) \/ Abs!Pop(s, t) \/ Abs!Clobber(s, t)

(* A step of edge e that AbsStore allows, and of which no other edge sees  *)
(* anything, is a step of AbsStore.                                        *)
LEMMA OwnView ==
    ASSUME NEW S, Sound(S), NEW T, NEW e \in Edges, Has(S, e), AgreeBesides(S, T, e),
           OwnStep(View(S, e), View(T, e))
    PROVE  AbsStep(Views(S), Views(T))
<1>1. PICK H, I : H = Views(S) /\ I = Views(T)
  OBVIOUS
<1>2. \A f \in Edges : H[f] = View(S, f) /\ I[f] = View(T, f)
  BY <1>1 DEF Views
<1>3. e \in Abs!Live(H)
  <2>1. View(S, e) # Abs!Nothing
    BY ViewFields
  <2> QED
    BY <1>2, <2>1 DEF Abs!Live
<1>4. \A f \in Edges \ {e} : I[f] = H[f]
  BY <1>2, ViewAgree DEF AgreeBesides
<1>5. OwnStep(H[e], I[e])
  BY <1>2
<1>6. Abs!Own(e, H, I)
  BY <1>3, <1>4, <1>5 DEF Abs!Own, OwnStep
<1> QED
  BY <1>1, <1>6 DEF AbsStep

(* Fork is AbsStore's Fork.                                                *)
LEMMA ForkView ==
    ASSUME Sound(Store), size \in Sizes, NEW e \in Live, Fork(e)
    PROVE  AbsStep(Views(Store), Views(Store'))
<1>1. PICK f \in Edges : ~Has(Store, f) /\ AgreeBesides(Store, Store', f) /\ SameStore(Store, e, Store', f)
  BY ForkStep
<1>2. e \in Edges /\ Has(Store, e)
  BY LiveHas
<1>3. PICK H, I : H = Views(Store) /\ I = Views(Store')
  OBVIOUS
<1>4. \A g \in Edges : H[g] = View(Store, g) /\ I[g] = View(Store', g)
  BY <1>3 DEF Views
<1>5. f \notin Abs!Live(H) /\ e \in Abs!Live(H)
  <2>1. View(Store, e) # Abs!Nothing /\ View(Store, f) = Abs!Nothing
    BY <1>1, <1>2, ViewFields, ViewNothing
  <2> QED
    BY <1>2, <1>4, <2>1 DEF Abs!Live
<1>6. I[f] = H[e]
  BY <1>1, <1>2, <1>4, ViewSame
<1>7. \A g \in Edges \ {f} : I[g] = H[g]
  BY <1>1, <1>4, ViewAgree DEF AgreeBesides
<1>8. Abs!Fork(f, H, I)
  BY <1>5, <1>6, <1>7 DEF Abs!Fork
<1> QED
  BY <1>3, <1>8 DEF AbsStep

(* Free is the end of an edge in AbsStore.                                 *)
LEMMA FreeView ==
    ASSUME Sound(Store), NEW e \in Live, Free(e)
    PROVE  AbsStep(Views(Store), Views(Store'))
<1>1. ~Has(Store', e) /\ AgreeBesides(Store, Store', e)
  BY FreeStep
<1>2. e \in Edges /\ Has(Store, e)
  BY LiveHas
<1>3. OwnStep(View(Store, e), View(Store', e))
  BY <1>1, ViewNothing DEF OwnStep
<1> QED
  BY <1>1, <1>2, <1>3, OwnView

(* Only flags are lost.                                                    *)
LEMMA EscapeView ==
    ASSUME NEW S, Sound(S), NEW e \in Edges, Has(S, e), NEW T, OnlyFlags(S, T, e),
           Of(T, e).na \subseteq Of(S, e).na, Of(T, e).ue \subseteq Of(S, e).ue
    PROVE  AbsStep(Views(S), Views(T))
<1>1. /\ Has(T, e) /\ AgreeBesides(S, T, e)
      /\ Of(T, e).depth = Of(S, e).depth /\ Of(T, e).aoc = Of(S, e).aoc
      /\ \A i \in Levels : Ents(T, e, i) = Ents(S, e, i)
  BY DEF OnlyFlags, SameObjects
<1>2. PICK s, t : s = View(S, e) /\ t = View(T, e)
  OBVIOUS
<1>3. /\ t.live /\ t.depth = Of(T, e).depth /\ t.wary = Of(T, e).aoc
      /\ t.na = Of(T, e).na /\ t.ue = Of(T, e).ue
      /\ t.read = [o \in Scope(T, e) |-> Known(T, e, o)]
  BY <1>1, <1>2, ViewFields
<1>4. /\ s.depth = Of(S, e).depth /\ s.wary = Of(S, e).aoc
      /\ s.na = Of(S, e).na /\ s.ue = Of(S, e).ue
      /\ s.read = [o \in Scope(S, e) |-> Known(S, e, o)]
  BY <1>2, ViewFields
<1>5. t.read = s.read
  <2>1. Scope(T, e) = Scope(S, e)
    BY <1>1 DEF Scope
  <2>2. ASSUME NEW o \in Scope(S, e)
        PROVE  Known(T, e, o) = Known(S, e, o)
    <3>1. PICK i \in Levels, q \in Slots : o = <<i, q>>
      BY ObjectPair
    <3>2. Ents(T, e, i) = Ents(S, e, i)
      BY <1>1
    <3> QED
      BY <3>1, <3>2, <1>1, KnownEntry
  <2> QED
    BY <2>1, <2>2, <1>3, <1>4
<1>6. Abs!Escape(s, t)
  BY <1>1, <1>3, <1>4, <1>5 DEF Abs!Escape, Abs!SameObjects, Abs!LosesFlags
<1>7. OwnStep(s, t)
  BY <1>6 DEF OwnStep
<1> QED
  BY <1>1, <1>2, <1>7, OwnView

(* Objects are written: each comes to hold what was written, or may hold   *)
(* one value more.                                                         *)
LEMMA WroteView ==
    ASSUME NEW S, Sound(S), NEW e \in Edges, Has(S, e), NEW T, Has(T, e), NEW O, NEW v \in Values(O),
           NEW x \in Written, NEW whole \in BOOLEAN,
           \A o \in O : v[o] = Rest(S, e, o, whole) \cup x,
           Holds(S, T, e, O, v)
    PROVE  /\ Abs!Wrote(View(S, e), View(T, e), O)
           /\ Abs!SameObjects(View(S, e), View(T, e))
           /\ \A o \in Scope(S, e) : Rest(S, e, o, whole) = {} /\ o \in O =>
                View(T, e).read[o] \in Written
<1>s. PICK s, t : s = View(S, e) /\ t = View(T, e)
  OBVIOUS
<1>1. Scope(T, e) = Scope(S, e)
  BY DEF Holds, Scope
<1>2. ASSUME NEW o \in Scope(S, e)
      PROVE  /\ o \notin O => Known(T, e, o) = Known(S, e, o)
             /\ o \in O => \/ Known(T, e, o) \in Written
                           \/ \E z \in Vals : Known(T, e, o) = Known(S, e, o) \cup {z}
             /\ o \in O /\ Rest(S, e, o, whole) = {} => Known(T, e, o) \in Written
  <2>1. PICK i \in Levels, q \in Slots : o = <<i, q>>
    BY ObjectPair
  <2>2. CASE o \notin O
    <3>1. Ents(T, e, i)[q] = Ents(S, e, i)[q] /\ Of(T, e).aoc = Of(S, e).aoc
      BY <2>1, <2>2 DEF Holds
    <3> QED
      BY <2>1, <2>2, <3>1, KnownEntry
  <2>3. CASE o \in O
    <3>1. v[o] = Rest(S, e, o, whole) \cup x /\ v[o] \in SUBSET Vals
      BY <2>3 DEF Values
    <3>2. Ents(T, e, i)[q] = v[o] /\ v[o] # None
      BY <2>1, <2>3, <3>1, CowAssumption DEF Holds
    <3>3. Known(T, e, o) = Rest(S, e, o, whole) \cup x
      BY <2>1, <3>1, <3>2, KnownEntry DEF Reading
    <3>4. o[1] = i /\ o[2] = q
      BY <2>1
    <3>5. whole => Rest(S, e, o, whole) = {}
      BY DEF Rest
    <3>6. ~whole => \/ Rest(S, e, o, whole) = Known(S, e, o)
                    \/ Rest(S, e, o, whole) = {}
      BY <2>1, <3>4, KnownEntry DEF Rest, Reading
    <3>7. x = Vals \/ \E z \in Vals : x = {z}
      BY DEF Written
    <3>8. CASE Rest(S, e, o, whole) = {}
      BY <2>3, <3>3, <3>8
    <3>9. CASE ~whole /\ Rest(S, e, o, whole) = Known(S, e, o)
      <4>1. CASE x = Vals
        <5>1. Known(T, e, o) = Vals
          BY <3>1, <3>3, <4>1
        <5> QED
          BY <5>1, <3>9, <2>3 DEF Written
      <4>2. CASE \E z \in Vals : x = {z}
        BY <4>2, <3>3, <3>9, <2>3
      <4> QED
        BY <4>1, <4>2, <3>7
    <3> QED
      BY <3>5, <3>6, <3>8, <3>9
  <2> QED
    BY <2>2, <2>3
<1>3. /\ t.live /\ t.depth = s.depth /\ t.wary = s.wary
  <2>1. Of(T, e).depth = Of(S, e).depth /\ Of(T, e).aoc = Of(S, e).aoc
    BY DEF Holds
  <2>2. s.depth = Of(S, e).depth /\ s.wary = Of(S, e).aoc
    BY <1>s, ViewFields
  <2>3. t.live /\ t.depth = Of(T, e).depth /\ t.wary = Of(T, e).aoc
    BY <1>s, ViewFields
  <2> QED
    BY <2>1, <2>2, <2>3
<1>4. /\ DOMAIN s.read = Scope(S, e) /\ DOMAIN t.read = Scope(S, e)
      /\ \A o \in Scope(S, e) : s.read[o] = Known(S, e, o) /\ t.read[o] = Known(T, e, o)
  <2>1. s.read = [o \in Scope(S, e) |-> Known(S, e, o)] /\ t.read = [o \in Scope(S, e) |-> Known(T, e, o)]
    BY <1>1, <1>s, ViewFields
  <2> QED
    BY <2>1
<1>5. Abs!Wrote(s, t, O)
  <2>1. \A o \in Scope(S, e) : IF o \notin O THEN t.read[o] = s.read[o] ELSE
                                 \/ t.read[o] \in Written
                                 \/ \E z \in Vals : t.read[o] = s.read[o] \cup {z}
    BY <1>2, <1>4
  <2>2. Abs!Written = Written
    BY DEF Abs!Written, Abs!Top, Written
  <2> QED
    BY <1>4, <2>1, <2>2 DEF Abs!Wrote
<1>6. Abs!SameObjects(s, t)
  BY <1>3 DEF Abs!SameObjects
<1>7. \A o \in Scope(S, e) : Rest(S, e, o, whole) = {} /\ o \in O => t.read[o] \in Written
  BY <1>2, <1>4
<1> QED
  BY <1>s, <1>5, <1>6, <1>7

(* StoreInst is AbsStore's Store.                                          *)
LEMMA StoreView ==
    ASSUME Sound(Store), size \in Sizes, NEW e \in Live, NEW O, NEW w, NEW x \in size.written,
           NEW whole \in BOOLEAN, StoreInst(e, O, w, x, whole)
    PROVE  AbsStep(Views(Store), Views(Store'))
<1>1. /\ Has(Store', e) /\ AgreeBesides(Store, Store', e) /\ O \subseteq Scope(Store, e)
      /\ Overwrites(Store, Store', e, O, x, whole) /\ StoreFlags(Store, Store', e, w)
  BY StoreStep
<1>2. e \in Edges /\ Has(Store, e) /\ x \in Written
  BY LiveHas, WrittenIn
<1>3. PICK s, t : s = View(Store, e) /\ t = View(Store', e)
  OBVIOUS
<1>4. PICK v \in Values(O) : /\ \A o \in O : v[o] = Rest(Store, e, o, whole) \cup x
                             /\ Holds(Store, Store', e, O, v)
  BY <1>1 DEF Overwrites
<1>5. Abs!Wrote(s, t, O) /\ Abs!SameObjects(s, t)
  BY <1>1, <1>2, <1>3, <1>4, WroteView
<1>6. t.na \subseteq s.na /\ t.ue \subseteq s.ue
  BY <1>1, <1>2, <1>3, ViewFields DEF StoreFlags, Unseen
<1>7. O \in SUBSET DOMAIN s.read
  <2>1. s.read = [o \in Scope(Store, e) |-> Known(Store, e, o)]
    BY <1>2, <1>3, ViewFields
  <2> QED
    BY <2>1, <1>1
<1>8. Abs!Store(s, t)
  BY <1>5, <1>6, <1>7 DEF Abs!Store, Abs!LosesFlags
<1>9. OwnStep(s, t)
  BY <1>8 DEF OwnStep
<1> QED
  BY <1>1, <1>2, <1>3, <1>9, OwnView

(* Alloc is AbsStore's Alloc.                                              *)
LEMMA AllocView ==
    ASSUME Sound(Store), size \in Sizes, NEW e \in Live, NEW o, NEW x \in size.fresh, Alloc(e, o, x)
    PROVE  AbsStep(Views(Store), Views(Store'))
<1>1. /\ Has(Store', e) /\ AgreeBesides(Store, Store', e) /\ o \in Scope(Store, e)
      /\ Of(Store', e).na = Of(Store, e).na \cup {o} /\ Of(Store', e).ue = Of(Store, e).ue \cup {o}
      /\ \E v \in Values({o}) : v[o] = x /\ Holds(Store, Store', e, {o}, v)
  BY AllocStep
<1>2. e \in Edges /\ Has(Store, e) /\ x \in Written
  BY LiveHas, WrittenIn
<1>3. PICK s, t : s = View(Store, e) /\ t = View(Store', e)
  OBVIOUS
<1>4. PICK O : O = {o}
  OBVIOUS
<1>5. PICK v \in Values(O) : v[o] = x /\ Holds(Store, Store', e, O, v)
  BY <1>1, <1>4
<1>w. PICK whole \in BOOLEAN : whole = TRUE
  OBVIOUS
<1>6. \A q : Rest(Store, e, q, whole) = {}
  BY <1>w DEF Rest
<1>a. \A q \in O : v[q] = Rest(Store, e, q, whole) \cup x
  BY <1>4, <1>5, <1>6
<1>b. /\ Abs!Wrote(s, t, O) /\ Abs!SameObjects(s, t)
      /\ \A q \in Scope(Store, e) : Rest(Store, e, q, whole) = {} /\ q \in O => t.read[q] \in Written
  BY <1>1, <1>2, <1>3, <1>5, <1>a, WroteView
<1>7. /\ Abs!Wrote(s, t, O) /\ Abs!SameObjects(s, t)
      /\ \A q \in Scope(Store, e) : q \in O => t.read[q] \in Written
  BY <1>6, <1>b
<1>8. t.na = s.na \cup {o} /\ t.ue = s.ue \cup {o}
  BY <1>1, <1>2, <1>3, ViewFields
<1>9. o \in DOMAIN s.read
  <2>1. s.read = [q \in Scope(Store, e) |-> Known(Store, e, q)]
    BY <1>2, <1>3, ViewFields
  <2> QED
    BY <2>1, <1>1
<1>10. t.read[o] \in Abs!Written
  <2>1. Abs!Written = Written
    BY DEF Abs!Written, Abs!Top, Written
  <2> QED
    BY <1>1, <1>4, <1>7, <2>1
<1>11. Abs!Alloc(s, t)
  <2>1. Abs!Wrote(s, t, {o})
    BY <1>4, <1>7
  <2> QED
    BY <1>7, <1>8, <1>9, <1>10, <2>1 DEF Abs!Alloc
<1>12. OwnStep(s, t)
  BY <1>11 DEF OwnStep
<1> QED
  BY <1>1, <1>2, <1>3, <1>12, OwnView

(* Frames come and go: what is seen of the edge is cut or extended.        *)
Visible(d, wary, na, ue, read) ==
    [live |-> TRUE, depth |-> d, wary |-> wary, na |-> na, ue |-> ue, read |-> read]

(* AbsStore's Resized, field by field.                                     *)
LEMMA ResizedFields ==
    ASSUME NEW d, NEW wary, NEW na, NEW ue, NEW read, NEW c
    PROVE  /\ Visible(d, wary, na, ue, read).depth = d
           /\ Abs!Resized(Visible(d, wary, na, ue, read), c) =
                Visible(c, wary, na \cap Abs!InScope(c), ue \cap Abs!InScope(c),
                        [o \in Abs!InScope(c) |-> IF o \in DOMAIN read THEN read[o]
                                                  ELSE IF wary THEN Vals ELSE {}])
<1>1. PICK s : s = Visible(d, wary, na, ue, read)
  OBVIOUS
<1>2. s.depth = d /\ s.wary = wary /\ s.na = na /\ s.ue = ue /\ s.read = read
  BY <1>1 DEF Visible
<1> QED
  BY <1>1, <1>2 DEF Visible, Abs!Resized, Abs!Top, Abs!Undef

(* An edge's store is seen that way.                                       *)
LEMMA ViewVisible ==
    ASSUME NEW S, NEW e, Has(S, e)
    PROVE  View(S, e) = Visible(Of(S, e).depth, Of(S, e).aoc, Of(S, e).na, Of(S, e).ue,
                                [o \in Scope(S, e) |-> Known(S, e, o)])
  BY DEF View, Visible, Has

FlagsCut(S, T, e) == /\ Of(T, e).na = Of(S, e).na \cap Scope(T, e)
                     /\ Of(T, e).ue = Of(S, e).ue \cap Scope(T, e)
ReadsCut(S, T, e) == \A o \in Scope(T, e) :
                        Known(T, e, o) = IF o \in Scope(S, e) THEN Known(S, e, o)
                                         ELSE Reading(None, Of(S, e).aoc)

(* If flags and objects are cut or extended, what is seen is resized.      *)
LEMMA ResizedView ==
    ASSUME NEW S, NEW T, NEW e, Has(S, e), Has(T, e), NEW c,
           c = Of(T, e).depth, Of(T, e).aoc = Of(S, e).aoc, FlagsCut(S, T, e), ReadsCut(S, T, e)
    PROVE  View(T, e) = Abs!Resized(View(S, e), c)
<1>1. PICK r : r = [o \in Scope(S, e) |-> Known(S, e, o)]
  OBVIOUS
<1>2. PICK d, aoc, na, ue : d = Of(S, e).depth /\ aoc = Of(S, e).aoc /\ na = Of(S, e).na /\ ue = Of(S, e).ue
  OBVIOUS
<1>3. View(S, e) = Visible(d, aoc, na, ue, r)
  BY <1>1, <1>2, ViewVisible
<1>4. Scope(T, e) = Abs!InScope(c)
  BY DEF Scope, Abs!InScope
<1>5. [o \in Scope(T, e) |-> Known(T, e, o)] =
        [o \in Abs!InScope(c) |-> IF o \in DOMAIN r THEN r[o] ELSE IF aoc THEN Vals ELSE {}]
  <2>1. \A o \in Scope(T, e) : Known(T, e, o) = IF o \in DOMAIN r THEN r[o] ELSE Reading(None, aoc)
    BY <1>1, <1>2 DEF ReadsCut
  <2>2. Reading(None, aoc) = IF aoc THEN Vals ELSE {}
    BY DEF Reading
  <2> QED
    BY <2>1, <2>2, <1>4
<1>6. View(T, e) = Visible(c, aoc, na \cap Abs!InScope(c), ue \cap Abs!InScope(c),
                           [o \in Scope(T, e) |-> Known(T, e, o)])
  <2>1. /\ Of(T, e).depth = c /\ Of(T, e).aoc = aoc
        /\ Of(T, e).na = na \cap Abs!InScope(c) /\ Of(T, e).ue = ue \cap Abs!InScope(c)
    BY <1>2, <1>4 DEF FlagsCut
  <2>2. View(T, e) = Visible(Of(T, e).depth, Of(T, e).aoc, Of(T, e).na, Of(T, e).ue,
                             [o \in Scope(T, e) |-> Known(T, e, o)])
    BY ViewVisible
  <2> QED
    BY <2>1, <2>2
<1> QED
  BY <1>3, <1>5, <1>6, ResizedFields

(* PushFrame is AbsStore's Push.                                           *)
LEMMA PushView ==
    ASSUME Sound(Store), size \in Sizes, NEW e \in Live, PushFrame(e)
    PROVE  AbsStep(Views(Store), Views(Store'))
<1>1. Sound(Store') /\ Pushed(Store, Store', e)
  BY PushStep
<1>2. e \in Edges /\ Has(Store, e)
  BY LiveHas
<1>3. PICK d, c : d = Of(Store, e).depth /\ c = Of(Store', e).depth
  OBVIOUS
<1>4. /\ d < MaxDepth /\ c = d + 1 /\ d \in Nat /\ Has(Store', e) /\ c \in Levels
      /\ AgreeBesides(Store, Store', e)
      /\ Of(Store', e).aoc = Of(Store, e).aoc
      /\ Of(Store', e).na = Of(Store, e).na /\ Of(Store', e).ue = Of(Store, e).ue
      /\ \A i \in Levels : Ents(Store', e, i) = Ents(Store, e, i)
      /\ NoEntries(Ents(Store', e, c))
  BY <1>1, <1>2, <1>3, InScope DEF Pushed, Levels
<1>5. Scope(Store, e) = (0..d) \X Slots /\ Scope(Store', e) = (0..c) \X Slots
  BY <1>3 DEF Scope
<1>6. Scope(Store, e) \subseteq Scope(Store', e)
  BY <1>4, <1>5
<1>7. FlagsCut(Store, Store', e)
  <2>1. Of(Store, e).na \subseteq Scope(Store, e) /\ Of(Store, e).ue \subseteq Scope(Store, e)
    BY <1>2, InScope
  <2> QED
    BY <2>1, <1>4, <1>6 DEF FlagsCut
<1>8. ASSUME NEW o \in Scope(Store', e)
      PROVE  Known(Store', e, o) = IF o \in Scope(Store, e) THEN Known(Store, e, o)
                                   ELSE Reading(None, Of(Store, e).aoc)
  <2>1. PICK i \in Levels, q \in Slots : o = <<i, q>>
    BY <1>1, <1>2, <1>4, ObjectPair
  <2>2. Known(Store', e, o) = Reading(Ents(Store', e, i)[q], Of(Store', e).aoc)
    BY <2>1, KnownEntry
  <2>3. CASE o \in Scope(Store, e)
    <3>1. Known(Store, e, o) = Reading(Ents(Store, e, i)[q], Of(Store, e).aoc)
      BY <2>1, KnownEntry
    <3>2. Ents(Store', e, i) = Ents(Store, e, i)
      BY <1>4
    <3> QED
      BY <2>2, <2>3, <3>1, <3>2, <1>4
  <2>4. CASE o \notin Scope(Store, e)
    <3>1. i = c
      BY <2>1, <2>4, <1>4, <1>5
    <3>2. Ents(Store', e, i)[q] = None
      BY <2>1, <3>1, <1>4 DEF NoEntries
    <3> QED
      BY <2>2, <2>4, <3>2, <1>4
  <2> QED
    BY <2>3, <2>4
<1>a. ReadsCut(Store, Store', e)
  BY <1>8 DEF ReadsCut
<1>9. PICK s, t : s = View(Store, e) /\ t = View(Store', e)
  OBVIOUS
<1>10. t = Abs!Resized(s, c)
  <2>1. /\ Has(Store, e) /\ Has(Store', e) /\ c = Of(Store', e).depth
        /\ Of(Store', e).aoc = Of(Store, e).aoc
    BY <1>2, <1>3, <1>4
  <2>2. View(Store', e) = Abs!Resized(View(Store, e), c)
    BY ONLY <2>1, <1>7, <1>a, ResizedView
  <2> QED
    BY <2>2, <1>9
<1>11. s.depth = d
  BY <1>2, <1>3, <1>9, ViewFields
<1>12. Abs!Push(s, t)
  BY <1>4, <1>10, <1>11 DEF Abs!Push
<1>13. OwnStep(s, t)
  BY <1>12 DEF OwnStep
<1> QED
  BY <1>2, <1>4, <1>9, <1>13, OwnView

(* PopFrame is AbsStore's Pop.                                             *)
LEMMA PopView ==
    ASSUME Sound(Store), NEW e \in Live, PopFrame(e)
    PROVE  AbsStep(Views(Store), Views(Store'))
<1>1. Sound(Store') /\ Popped(Store, Store', e)
  BY PopStep
<1>2. e \in Edges /\ Has(Store, e)
  BY LiveHas
<1>3. PICK d, c : d = Of(Store, e).depth /\ c = Of(Store', e).depth
  OBVIOUS
<1>4. /\ d > 0 /\ c = d - 1 /\ d \in Nat /\ Has(Store', e)
      /\ AgreeBesides(Store, Store', e)
      /\ Of(Store', e).aoc = Of(Store, e).aoc
      /\ Of(Store', e).na = Of(Store, e).na \ ({d} \X Slots)
      /\ Of(Store', e).ue = Of(Store, e).ue \ ({d} \X Slots)
      /\ \A i \in Levels : i # d => Ents(Store', e, i) = Ents(Store, e, i)
  BY <1>1, <1>2, <1>3, InScope, CowAssumption DEF Popped, Levels
<1>5. Scope(Store, e) = (0..d) \X Slots /\ Scope(Store', e) = (0..c) \X Slots
  BY <1>3 DEF Scope
<1>6. Scope(Store', e) \subseteq Scope(Store, e) /\ Scope(Store', e) = Scope(Store, e) \ ({d} \X Slots)
  BY <1>4, <1>5
<1>7. FlagsCut(Store, Store', e)
  <2>1. Of(Store, e).na \subseteq Scope(Store, e) /\ Of(Store, e).ue \subseteq Scope(Store, e)
    BY <1>2, InScope
  <2> QED
    BY <2>1, <1>4, <1>6 DEF FlagsCut
<1>8. ASSUME NEW o \in Scope(Store', e)
      PROVE  Known(Store', e, o) = IF o \in Scope(Store, e) THEN Known(Store, e, o)
                                   ELSE Reading(None, Of(Store, e).aoc)
  <2>1. PICK i \in Levels, q \in Slots : o = <<i, q>>
    BY <1>1, <1>2, <1>4, ObjectPair
  <2>2. Known(Store', e, o) = Reading(Ents(Store', e, i)[q], Of(Store', e).aoc)
    BY <2>1, KnownEntry
  <2>3. Known(Store, e, o) = Reading(Ents(Store, e, i)[q], Of(Store, e).aoc)
    BY <2>1, KnownEntry
  <2>4. i # d /\ o \in Scope(Store, e)
    BY <2>1, <1>4, <1>5, <1>6
  <2> QED
    BY <2>2, <2>3, <2>4, <1>4
<1>a. ReadsCut(Store, Store', e)
  BY <1>8 DEF ReadsCut
<1>9. PICK s, t : s = View(Store, e) /\ t = View(Store', e)
  OBVIOUS
<1>10. t = Abs!Resized(s, c)
  <2>1. /\ Has(Store, e) /\ Has(Store', e) /\ c = Of(Store', e).depth
        /\ Of(Store', e).aoc = Of(Store, e).aoc
    BY <1>2, <1>3, <1>4
  <2>2. View(Store', e) = Abs!Resized(View(Store, e), c)
    BY ONLY <2>1, <1>7, <1>a, ResizedView
  <2> QED
    BY <2>2, <1>9
<1>11. s.depth = d
  BY <1>2, <1>3, <1>9, ViewFields
<1>12. Abs!Pop(s, t)
  BY <1>4, <1>10, <1>11 DEF Abs!Pop
<1>13. OwnStep(s, t)
  BY <1>12 DEF OwnStep
<1> QED
  BY <1>2, <1>4, <1>9, <1>13, OwnView

(* A write through an unknown pointer: what is saved has an entry, and is  *)
(* kept as it is, or has lost it, and is taken for unwritten.              *)
Saved(S, e, save) ==
    \A i \in Levels, s \in Slots :
       <<i, s>> \in save => \/ Ents(S, e, i)[s] # None
                            \/ <<i, s>> \in Of(S, e).na /\ Lost(S, e, <<i, s>>)
LosesFlags(S, T, e) == Of(T, e).na \subseteq Of(S, e).na /\ Of(T, e).ue \subseteq Of(S, e).ue

(* If it loses flags and forgets the rest, the edge makes AbsStore's       *)
(* step.                                                                   *)
LEMMA KeptView ==
    ASSUME NEW S, Sound(S), NEW e \in Edges, Has(S, e), NEW T, Has(T, e), NEW save,
           Forgot(S, T, e, save), Saved(S, e, save), LosesFlags(S, T, e)
    PROVE  Abs!Kept(View(S, e), View(T, e), save)
<1>1. PICK s, t : s = View(S, e) /\ t = View(T, e)
  OBVIOUS
<1>2. Scope(T, e) = Scope(S, e)
  BY DEF Forgot, Scope
<1>3. ASSUME NEW o \in Scope(S, e)
      PROVE  IF o \notin save THEN Known(T, e, o) = Vals
             ELSE \/ Known(T, e, o) = Known(S, e, o)
                  \/ /\ o \in Of(S, e).na /\ Lost(S, e, o)
                     /\ Known(S, e, o) = Vals /\ Known(T, e, o) = {}
  <2>1. PICK i \in Levels, q \in Slots : o = <<i, q>>
    BY ObjectPair
  <2>2. /\ Known(T, e, o) = Reading(Ents(T, e, i)[q], Of(T, e).aoc)
        /\ Known(S, e, o) = Reading(Ents(S, e, i)[q], Of(S, e).aoc)
    BY <2>1, KnownEntry
  <2>3. CASE o \in save
    <3>1. CASE Ents(S, e, i)[q] # None
      <4>1. Ents(T, e, i)[q] = Ents(S, e, i)[q]
        BY <2>1, <2>3, <3>1 DEF Forgot
      <4> QED
        BY <2>2, <2>3, <3>1, <4>1 DEF Reading
    <3>2. CASE Ents(S, e, i)[q] = None
      <4>1. Ents(T, e, i)[q] = {} /\ {} # None
        BY <2>1, <2>3, <3>2, CowAssumption DEF Forgot
      <4>2. o \in Of(S, e).na /\ Lost(S, e, o)
        BY <2>1, <2>3, <3>2 DEF Saved
      <4>3. Known(S, e, o) = Vals /\ Known(T, e, o) = {}
        BY <2>2, <3>2, <4>1, <4>2 DEF Reading, Lost
      <4> QED
        BY <2>3, <4>2, <4>3
    <3> QED
      BY <3>1, <3>2
  <2>4. CASE o \notin save
    <3>1. Ents(T, e, i)[q] = None /\ Of(T, e).aoc
      BY <2>1, <2>4 DEF Forgot
    <3> QED
      BY <2>2, <2>4, <3>1 DEF Reading
  <2> QED
    BY <2>3, <2>4
<1>4. /\ s.depth = Of(S, e).depth /\ s.wary = Of(S, e).aoc
      /\ s.na = Of(S, e).na /\ s.ue = Of(S, e).ue
      /\ s.read = [o \in Scope(S, e) |-> Known(S, e, o)]
  BY <1>1, ViewFields
<1>5. /\ t.live /\ t.depth = Of(T, e).depth /\ t.wary = Of(T, e).aoc
      /\ t.na = Of(T, e).na /\ t.ue = Of(T, e).ue
      /\ t.read = [o \in Scope(T, e) |-> Known(T, e, o)]
  BY <1>1, ViewFields
<1>6. /\ DOMAIN t.read = DOMAIN s.read
      /\ \A o \in DOMAIN s.read : IF o \in save THEN Abs!Spared(s, t, o) ELSE t.read[o] = Vals
  <2>1. DOMAIN t.read = Scope(S, e) /\ DOMAIN s.read = Scope(S, e)
    BY <1>2, <1>4, <1>5
  <2>2. ASSUME NEW o \in Scope(S, e)
        PROVE  IF o \in save THEN Abs!Spared(s, t, o) ELSE t.read[o] = Vals
    <3>1. s.read[o] = Known(S, e, o) /\ t.read[o] = Known(T, e, o)
      BY <1>2, <1>4, <1>5
    <3>2. CASE Lost(S, e, o) /\ o \in Of(S, e).na
      BY <1>3, <1>4, <3>1, <3>2 DEF Lost, Abs!Spared, Abs!Top, Abs!Undef
    <3>3. CASE ~(Lost(S, e, o) /\ o \in Of(S, e).na)
      BY <1>3, <3>1, <3>3 DEF Abs!Spared
    <3> QED
      BY <3>2, <3>3
  <2> QED
    BY <2>1, <2>2
<1>7. t.depth = s.depth /\ t.wary
  BY <1>4, <1>5 DEF Forgot
<1>8. t.na \subseteq s.na /\ t.ue \subseteq s.ue
  BY <1>4, <1>5 DEF LosesFlags
<1> QED
  BY <1>1, <1>5, <1>6, <1>7, <1>8 DEF Abs!Kept, Abs!LosesFlags, Abs!Top

(* Others that share an empty map see that allOthersClobbered is set, if   *)
(* it was not.                                                             *)
LEMMA ClobberedView ==
    ASSUME NEW S, Sound(S), NEW T, NEW f \in Edges, Clobbered(S, T, f)
    PROVE  \/ View(T, f) = View(S, f)
           \/ Abs!Unwritten(View(S, f)) /\ Abs!Kept(View(S, f), View(T, f), {})
<1>1. /\ Has(S, f) /\ Has(T, f)
      /\ Of(T, f).depth = Of(S, f).depth /\ Of(T, f).aoc
      /\ Of(T, f).na = Of(S, f).na /\ Of(T, f).ue = Of(S, f).ue
      /\ \A i \in Levels : Ents(T, f, i) = Ents(S, f, i) /\ NoEntries(Ents(S, f, i))
  BY DEF Clobbered
<1>2. CASE Of(T, f).aoc = Of(S, f).aoc
  <2>1. SameStore(S, f, T, f)
    BY <1>1, <1>2 DEF SameStore
  <2> QED
    BY <1>1, <2>1, ViewSame
<1>3. CASE ~Of(S, f).aoc
  <2>1. PICK none : none = {}
    OBVIOUS
  <2>2. Forgot(S, T, f, none) /\ Saved(S, f, none) /\ LosesFlags(S, T, f)
    BY <2>1, <1>1 DEF Forgot, Saved, LosesFlags, NoEntries
  <2>3. Abs!Kept(View(S, f), View(T, f), none)
    BY <1>1, <2>2, KeptView
  <2>4. PICK s : s = View(S, f)
    OBVIOUS
  <2>5. s.live /\ s.read = [o \in Scope(S, f) |-> Known(S, f, o)]
    BY <2>4, <1>1, ViewFields
  <2>6. ASSUME NEW o \in Scope(S, f)
        PROVE  Known(S, f, o) = {}
    <3>1. PICK i \in Levels, q \in Slots : o = <<i, q>>
      BY <1>1, ObjectPair
    <3>2. Known(S, f, o) = Reading(Ents(S, f, i)[q], Of(S, f).aoc)
      BY <3>1, KnownEntry
    <3>3. Ents(S, f, i)[q] = None
      BY <1>1 DEF NoEntries
    <3> QED
      BY <3>2, <3>3, <1>3 DEF Reading
  <2>7. Abs!Unwritten(s)
    BY <2>5, <2>6 DEF Abs!Unwritten, Abs!Undef
  <2> QED
    BY <2>1, <2>3, <2>4, <2>7
<1>4. Of(S, f).aoc \in BOOLEAN /\ Of(T, f).aoc \in BOOLEAN
  <2>1. Of(S, f) \in MapType
    BY <1>1, InUse DEF Has
  <2> QED
    BY <2>1, <1>1, MapFields
<1> QED
  BY <1>1, <1>2, <1>3, <1>4

(* With AbsStore's Clobber on edge e itself, that is all.                  *)
LEMMA ClobberView ==
    ASSUME NEW S, Sound(S), NEW e \in Edges, Has(S, e), FlaggedAt(S, e),
           NEW T, Sound(T), Has(T, e), NEW save,
           Forgot(S, T, e, save), Spared(S, T, e), LosesFlags(S, T, e),
           save \subseteq Of(S, e).na,
           Abs!Clobber(View(S, e), View(T, e))
    PROVE  AbsStep(Views(S), Views(T))
<1>1. CASE \A f \in Edges : f # e => Agree(S, T, f)
  <2>1. AgreeBesides(S, T, e)
    BY <1>1 DEF AgreeBesides
  <2>2. OwnStep(View(S, e), View(T, e))
    BY DEF OwnStep
  <2> QED
    BY <2>1, <2>2, OwnView
<1>2. CASE \E f \in Edges : f # e /\ ~Agree(S, T, f)
  <2>1. (\A i \in Levels : NoEntries(Ents(S, e, i))) /\ ~Of(S, e).aoc
    <3>1. PICK f \in Edges : f # e /\ ~Agree(S, T, f)
      BY <1>2
    <3>2. /\ Clobbered(S, T, f) /\ Of(S, f).aoc = Of(S, e).aoc
          /\ \A i \in Levels : NoEntries(Ents(S, e, i))
      BY <3>1 DEF Spared
    <3>3. Of(S, f).aoc \in BOOLEAN /\ Of(T, f).aoc \in BOOLEAN
      <4>1. Of(S, f) \in MapType /\ Of(T, f) \in MapType
        BY <3>2, InUse DEF Has, Clobbered
      <4> QED
        BY <4>1, MapFields
    <3>4. ~Of(S, f).aoc
      <4>1. Of(T, f).aoc = Of(S, f).aoc => Agree(S, T, f)
        BY <3>2 DEF Clobbered, Agree, Has
      <4>2. Of(T, f).aoc
        BY <3>2 DEF Clobbered
      <4> QED
        BY <3>1, <3>3, <4>1, <4>2
    <3> QED
      BY <3>2, <3>4
  <2>2. Of(S, e).na = {} /\ Of(S, e).ue = {}
    <3>1. Of(S, e).na \subseteq Levels \X Slots /\ Of(S, e).ue \subseteq Of(S, e).na
      BY InScope DEF FlaggedAt
    <3>2. \A i \in Levels, s \in Slots : <<i, s>> \notin Of(S, e).na
      BY <2>1 DEF FlaggedAt, NoEntries, Lost
    <3> QED
      BY <3>1, <3>2
  <2>3. Of(T, e).na = {} /\ Of(T, e).ue = {} /\ save = {}
    BY <2>2 DEF LosesFlags
  <2>4. ASSUME NEW i \in Levels
        PROVE  Ents(T, e, i) = Ents(S, e, i)
    <3>1. Ents(T, e, i) \in EntryMaps /\ Ents(S, e, i) \in EntryMaps
      BY EntsType DEF Has
    <3>2. \A s \in Slots : Ents(T, e, i)[s] = None /\ Ents(S, e, i)[s] = None
      BY <2>1, <2>3 DEF Forgot, NoEntries
    <3> QED
      BY <3>1, <3>2 DEF EntryMaps
  <2>5. Clobbered(S, T, e)
    BY <2>1, <2>2, <2>3, <2>4 DEF Clobbered, Forgot
  <2>6. PICK H, I : H = Views(S) /\ I = Views(T)
    OBVIOUS
  <2>7. \A f \in Edges : H[f] = View(S, f) /\ I[f] = View(T, f)
    BY <2>6 DEF Views
  <2>8. ASSUME NEW f \in Edges
        PROVE  \/ I[f] = H[f]
               \/ Abs!Unwritten(H[f]) /\ Abs!Kept(H[f], I[f], {})
    <3>1. Agree(S, T, f) \/ Clobbered(S, T, f)
      BY <2>5 DEF Spared
    <3>2. CASE Agree(S, T, f)
      BY <3>2, <2>7, ViewAgree
    <3>3. CASE Clobbered(S, T, f)
      <4>1. \/ View(T, f) = View(S, f)
            \/ Abs!Unwritten(View(S, f)) /\ Abs!Kept(View(S, f), View(T, f), {})
        BY <3>3, ClobberedView
      <4> QED
        BY <4>1, <2>7
    <3> QED
      BY <3>1, <3>2, <3>3
  <2>9. Abs!ClobberEmpty(H, I)
    BY <2>8 DEF Abs!ClobberEmpty
  <2> QED
    BY <2>6, <2>9 DEF AbsStep
<1> QED
  BY <1>1, <1>2

(* StoreUnknown is AbsStore's Clobber, or its ClobberEmpty.                *)
LEMMA UnknownView ==
    ASSUME Sound(Store), AllFlagged(Store), NEW e \in Live, NEW w \in Stored(e),
           NEW old \in BOOLEAN, StoreUnknown(e, old, w)
    PROVE  AbsStep(Views(Store), Views(Store'))
<1>1. PICK save : save = IF old THEN Of(Store, e).na ELSE Unseen(Store, e, w)
  OBVIOUS
<1>2. /\ Sound(Store') /\ Has(Store', e) /\ Spared(Store, Store', e)
      /\ Forgot(Store, Store', e, save)
      /\ \/ /\ Of(Store', e).ue = Unseen(Store, e, w)
            /\ Of(Store', e).na = Unaliased(Of(Store, e).na, Unseen(Store, e, w), w)
         \/ Of(Store', e).na = {} /\ Of(Store', e).ue = {}
  BY <1>1, UnknownStep
<1>3. e \in Edges /\ Has(Store, e) /\ FlaggedAt(Store, e)
  BY LiveHas DEF AllFlagged
<1>4. /\ Of(Store', e).ue \in {Unseen(Store, e, w), {}}
      /\ LosesFlags(Store, Store', e)
  BY <1>2 DEF Unseen, Unaliased, LosesFlags
<1>5. save \subseteq Of(Store, e).na
  BY <1>1, <1>3 DEF Unseen, FlaggedAt
<1>6. Saved(Store, e, save)
  BY <1>3, <1>5 DEF Saved, FlaggedAt
<1>7. PICK s, t : s = View(Store, e) /\ t = View(Store', e)
  OBVIOUS
<1>8. Abs!Kept(s, t, save)
  BY <1>2, <1>3, <1>4, <1>6, <1>7, KeptView
<1>9. s.na = Of(Store, e).na /\ s.ue = Of(Store, e).ue /\ t.ue = Of(Store', e).ue
  BY <1>2, <1>3, <1>7, ViewFields
<1>10. Abs!Clobber(s, t)
  <2>1. CASE old
    <3>1. Abs!Kept(s, t, s.na)
      BY <2>1, <1>1, <1>8, <1>9
    <3> QED
      BY <3>1 DEF Abs!Clobber
  <2>2. CASE ~old
    <3>1. PICK p \in SUBSET s.ue : Unseen(Store, e, w) = s.ue \ p
      <4>1. Unseen(Store, e, w) = s.ue \ (s.ue \cap w.p)
        BY <1>9 DEF Unseen
      <4> QED
        BY <4>1
    <3>2. Abs!Kept(s, t, s.ue \ p) /\ t.ue \in {s.ue \ p, {}}
      BY <2>2, <3>1, <1>1, <1>4, <1>8, <1>9
    <3> QED
      BY <3>1, <3>2 DEF Abs!Clobber
  <2> QED
    BY <2>1, <2>2
<1>11. Abs!Clobber(View(Store, e), View(Store', e))
  BY <1>7, <1>10
<1> QED
  BY ONLY <1>2, <1>3, <1>4, <1>5, <1>11, Sound(Store), ClobberView

(* UnexpandedCall is AbsStore's Clobber, or its Escape.                    *)
LEMMA CallView ==
    ASSUME Sound(Store), AllFlagged(Store), NEW e \in Live, NEW w \in Stored(e),
           NEW clobbersMemory \in BOOLEAN, UnexpandedCall(e, w, clobbersMemory)
    PROVE  AbsStep(Views(Store), Views(Store'))
<1>1. e \in Edges /\ Has(Store, e) /\ FlaggedAt(Store, e)
  BY LiveHas DEF AllFlagged
<1>2. CASE ~clobbersMemory
  <2>1. /\ OnlyFlags(Store, Store', e) /\ Of(Store', e).ue = Unseen(Store, e, w)
        /\ Of(Store', e).na = Unaliased(Of(Store, e).na, Unseen(Store, e, w), w)
    BY <1>2, CallStep
  <2>2. Of(Store', e).na \subseteq Of(Store, e).na /\ Of(Store', e).ue \subseteq Of(Store, e).ue
    BY <2>1 DEF Unseen, Unaliased
  <2> QED
    BY <1>1, <2>1, <2>2, EscapeView
<1>3. CASE clobbersMemory
  <2>1. PICK save : save = Of(Store, e).ue
    OBVIOUS
  <2>2. /\ Sound(Store') /\ Has(Store', e)
        /\ Forgot(Store, Store', e, save) /\ Spared(Store, Store', e)
        /\ \/ /\ Of(Store', e).ue = Unseen(Store, e, w)
              /\ Of(Store', e).na = Unaliased(Of(Store, e).na \cap Of(Store, e).ue,
                                              Unseen(Store, e, w), w)
           \/ Of(Store', e).na = {} /\ Of(Store', e).ue = {}
    BY <1>3, <2>1, CallStep
  <2>3. LosesFlags(Store, Store', e)
    BY <2>2 DEF Unseen, Unaliased, LosesFlags
  <2>4. save \subseteq Of(Store, e).na
    BY <1>1, <2>1 DEF FlaggedAt
  <2>5. Saved(Store, e, save)
    BY <1>1, <2>4 DEF Saved, FlaggedAt
  <2>6. PICK s, t : s = View(Store, e) /\ t = View(Store', e)
    OBVIOUS
  <2>7. Abs!Kept(s, t, save)
    BY <1>1, <2>2, <2>3, <2>5, <2>6, KeptView
  <2>8. s.ue = save
    BY <1>1, <2>1, <2>6, ViewFields
  <2>9. Abs!Clobber(s, t)
    BY <2>7, <2>8 DEF Abs!Clobber
  <2>10. Abs!Clobber(View(Store, e), View(Store', e))
    BY <2>6, <2>9
  <2> QED
    BY ONLY <1>1, <2>2, <2>3, <2>4, <2>10, Sound(Store), ClobberView
<1> QED
  BY <1>2, <1>3

(* What a merge makes of an object: what it may hold on one of the edges,  *)
(* or anything, when that is unknown on one of them.                       *)
LEMMA MergedReading ==
    ASSUME NEW S, Sound(S), NEW D, D \subseteq Edges, NEW g \in D, \A f \in D : Has(S, f),
           NEW i \in Levels, NEW q \in Slots,
           NEW x, x = MergedValue(S, D, i, q), NEW aoc \in BOOLEAN, aoc <=> SomeClobbered(S, D)
    PROVE  \/ Reading(x, aoc) = UNION {Reading(Ents(S, f, i)[q], Of(S, f).aoc) : f \in D}
           \/ aoc /\ Reading(x, aoc) = Vals
<1> DEFINE known == {Ents(S, f, i)[q] : f \in D} \ {None}
           none == \E f \in D : Ents(S, f, i)[q] = None
           all == {Reading(Ents(S, f, i)[q], Of(S, f).aoc) : f \in D}
<1>1. x = IF known = {} \/ (aoc /\ none) THEN None ELSE UNION known
  BY DEF MergedValue, MergedEntry, Ents, SomeClobbered
<1>2. \A f \in D : Ents(S, f, i)[q] \in (SUBSET Vals) \cup {None}
  <2>1. \A f \in D : Ents(S, f, i) \in EntryMaps
    BY EntsType DEF Has
  <2> QED
    BY <2>1 DEF EntryMaps
<1>3. UNION known \in SUBSET Vals /\ UNION known # None
  <2>1. UNION known \in SUBSET Vals
    BY <1>2
  <2> QED
    BY <2>1, CowAssumption
<1>4. ~aoc => \A f \in D : ~Of(S, f).aoc
  BY DEF SomeClobbered
<1>5. CASE x = None /\ aoc
  BY <1>5 DEF Reading
<1>6. CASE x = None /\ ~aoc
  <2>1. known = {}
    <3> HIDE DEF known, none
    <3> QED
      BY <1>1, <1>3, <1>6
  <2>2. \A f \in D : Reading(Ents(S, f, i)[q], Of(S, f).aoc) = {}
    BY <2>1, <1>4, <1>6 DEF Reading
  <2>3. UNION all = {}
    BY <2>2
  <2>4. Reading(x, aoc) = {}
    BY <1>6 DEF Reading
  <2> QED
    BY <2>3, <2>4
<1>7. CASE x # None
  <2>1. x = UNION known /\ known # {} /\ ~(aoc /\ none)
    <3> HIDE DEF known, none
    <3> QED
      BY <1>1, <1>7
  <2>2. Reading(x, aoc) = UNION known
    <3> HIDE DEF known, none
    <3> QED
      BY <2>1, <1>7 DEF Reading
  <2>3. \A f \in D : Reading(Ents(S, f, i)[q], Of(S, f).aoc) =
                       IF Ents(S, f, i)[q] = None THEN {} ELSE Ents(S, f, i)[q]
    <3>1. CASE aoc
      BY <3>1, <2>1 DEF Reading
    <3>2. CASE ~aoc
      BY <3>2, <1>4 DEF Reading
    <3> QED
      BY <3>1, <3>2
  <2>4. UNION all = UNION known
    <3> QED
      BY <2>3
  <2> QED
    BY <2>2, <2>4
<1> QED
  BY <1>5, <1>6, <1>7

(* Merge is AbsStore's Merge.                                              *)
LEMMA MergeView ==
    ASSUME Sound(Store), NEW D, NEW g \in D, D # {g}, Merge(D, g)
    PROVE  AbsStep(Views(Store), Views(Store'))
<1>1. /\ Sound(Store') /\ Has(Store', g) /\ Merged(Store, Store', D, g)
      /\ D \subseteq Live
      /\ \A f \in D : Of(Store, f).depth = Of(Store, g).depth
      /\ \A f \in D : f # g => ~Has(Store', f)
      /\ \A f \in Edges : f \notin D => Agree(Store, Store', f)
  BY MergeStep
<1>2. D \subseteq Edges /\ g \in Edges /\ \A f \in D : Has(Store, f)
  BY <1>1, LiveHas
<1>3. PICK H, I : H = Views(Store) /\ I = Views(Store')
  OBVIOUS
<1>4. \A f \in Edges : H[f] = View(Store, f) /\ I[f] = View(Store', f)
  BY <1>3 DEF Views
<1>5. \A f \in Edges : f \notin D => I[f] = H[f]
  BY <1>1, <1>4, ViewAgree
<1>6. \A f \in D : f # g => I[f] = Abs!Nothing
  BY <1>1, <1>2, <1>4, ViewNothing
<1>7. \A f \in D : H[f] # Abs!Nothing
  <2>1. \A f \in D : View(Store, f) # Abs!Nothing
    BY <1>2, ViewFields
  <2> QED
    BY <2>1, <1>2, <1>4
<1>8. I[g] # Abs!Nothing
  <2>1. View(Store', g) # Abs!Nothing
    BY <1>1, ViewFields
  <2> QED
    BY <2>1, <1>2, <1>4
<1>9. D = {g} \cup (Abs!Live(H) \ Abs!Live(I)) /\ g \in Abs!Live(H)
  BY <1>2, <1>5, <1>6, <1>7, <1>8 DEF Abs!Live
<1>10. \A f \in D : /\ H[f].depth = Of(Store, f).depth /\ H[f].wary = Of(Store, f).aoc
                    /\ H[f].na = Of(Store, f).na /\ H[f].ue = Of(Store, f).ue
                    /\ H[f].read = [o \in Scope(Store, f) |-> Known(Store, f, o)]
  BY <1>2, <1>4, ViewFields
<1>11. PICK t : t = I[g]
  OBVIOUS
<1>12. /\ t.live /\ t.depth = Of(Store', g).depth /\ t.wary = Of(Store', g).aoc
       /\ t.na = Of(Store', g).na /\ t.ue = Of(Store', g).ue
       /\ t.read = [o \in Scope(Store', g) |-> Known(Store', g, o)]
  BY <1>1, <1>2, <1>4, <1>11, ViewFields
<1>13. \A f \in D : H[f].depth = H[g].depth
  BY <1>1, <1>10
<1>14. t.depth = H[g].depth
  BY <1>1, <1>10, <1>12 DEF Merged
<1>15. PICK dom : dom = Scope(Store, g)
  OBVIOUS
<1>16. /\ \A f \in D : Scope(Store, f) = dom
       /\ Scope(Store', g) = dom /\ DOMAIN H[g].read = dom /\ DOMAIN t.read = dom
  <2>1. \A f \in D : Scope(Store, f) = dom
    BY <1>1, <1>15 DEF Scope
  <2>2. Scope(Store', g) = dom
    BY <1>1, <1>15 DEF Scope, Merged
  <2> QED
    BY <2>1, <2>2, <1>10, <1>12
<1>17. t.wary = \E f \in D : H[f].wary
  <2>1. Of(Store', g).aoc \in BOOLEAN /\ \A f \in D : Of(Store, f).aoc \in BOOLEAN
    <3>1. Of(Store', g) \in MapType /\ \A f \in D : Of(Store, f) \in MapType
      BY <1>1, <1>2, InUse DEF Has
    <3> QED
      BY <3>1, MapFields
  <2>2. Of(Store', g).aoc <=> \E f \in D : Of(Store, f).aoc
    BY <1>1 DEF Merged, SomeClobbered
  <2> QED
    BY <2>1, <2>2, <1>10, <1>12
<1>18. /\ t.na = {o \in dom : \A f \in D : o \in H[f].na}
       /\ t.ue = {o \in dom : \A f \in D : o \in H[f].ue}
  <2>1. Of(Store, g).na \subseteq dom /\ Of(Store, g).ue \subseteq dom
    BY <1>2, <1>15, InScope
  <2>2. /\ Of(Store', g).na = {o \in Of(Store, g).na : \A f \in D : o \in Of(Store, f).na}
        /\ Of(Store', g).ue = {o \in Of(Store, g).ue : \A f \in D : o \in Of(Store, f).ue}
    BY <1>1 DEF Merged
  <2>3. \A f \in D : H[f].na = Of(Store, f).na /\ H[f].ue = Of(Store, f).ue
    BY <1>10
  <2>4. t.na = {o \in dom : \A f \in D : o \in H[f].na}
    <3>1. \A o : o \in Of(Store', g).na <=> o \in dom /\ \A f \in D : o \in H[f].na
      BY <2>1, <2>2, <2>3
    <3> QED
      BY <3>1, <1>12
  <2>5. t.ue = {o \in dom : \A f \in D : o \in H[f].ue}
    <3>1. \A o : o \in Of(Store', g).ue <=> o \in dom /\ \A f \in D : o \in H[f].ue
      BY <2>1, <2>2, <2>3
    <3> QED
      BY <3>1, <1>12
  <2> QED
    BY <2>4, <2>5
<1>19. ASSUME NEW o \in dom
       PROVE  \/ t.read[o] = UNION {H[f].read[o] : f \in D}
              \/ t.wary /\ t.read[o] = Vals
  <2>1. PICK i \in Levels, q \in Slots : o = <<i, q>>
    BY <1>2, <1>15, ObjectPair
  <2>2. t.read[o] = Reading(Ents(Store', g, i)[q], Of(Store', g).aoc)
    BY <2>1, <1>12, <1>16, KnownEntry
  <2>3. ASSUME NEW f \in D
        PROVE  H[f].read[o] = Reading(Ents(Store, f, i)[q], Of(Store, f).aoc)
    <3>1. Known(Store, f, o) = Reading(Ents(Store, f, i)[q], Of(Store, f).aoc)
      BY <2>1, KnownEntry
    <3>2. H[f].read = [p \in Scope(Store, f) |-> Known(Store, f, p)] /\ o \in Scope(Store, f)
      BY <1>10, <1>16
    <3> QED
      BY <3>1, <3>2
  <2>4. PICK x, aoc : x = Ents(Store', g, i)[q] /\ aoc = Of(Store', g).aoc
    OBVIOUS
  <2>5. x = MergedValue(Store, D, i, q)
    BY <2>4, <1>1 DEF Merged
  <2>6. aoc \in BOOLEAN
    <3>1. Of(Store', g) \in MapType
      BY <1>1, <1>2, InUse DEF Has
    <3> QED
      BY <3>1, <2>4, MapFields
  <2>7. aoc <=> SomeClobbered(Store, D)
    BY <2>4, <1>1 DEF Merged
  <2>8. \/ Reading(x, aoc) = UNION {Reading(Ents(Store, f, i)[q], Of(Store, f).aoc) : f \in D}
        \/ aoc /\ Reading(x, aoc) = Vals
    BY <1>2, <2>5, <2>6, <2>7, MergedReading
  <2>9. {Reading(Ents(Store, f, i)[q], Of(Store, f).aoc) : f \in D} = {H[f].read[o] : f \in D}
    BY <2>3
  <2> QED
    BY <2>2, <2>4, <2>8, <2>9, <1>12
<1>20. Abs!Merge({g} \cup (Abs!Live(H) \ Abs!Live(I)), g, H, I)
  <2>1. Abs!Merge(D, g, H, I)
    BY <1>5, <1>6, <1>11, <1>12, <1>13, <1>14, <1>16, <1>17, <1>18, <1>19 DEF Abs!Merge, Abs!Top
  <2> QED
    BY <2>1, <1>9
<1> QED
  BY <1>3, <1>9, <1>20 DEF AbsStep

(* Every action is one of AbsStore's, or nothing can be seen of it.        *)
LEMMA NextView ==
    ASSUME Inv, AllFlagged(Store), Next
    PROVE  AbsStep(Views(Store), Views(Store'))
<1>1. Sound(Store) /\ size \in Sizes
  BY DEF Inv
<1>2. ASSUME NEW e \in Live, Fork(e)
      PROVE  AbsStep(Views(Store), Views(Store'))
  BY <1>1, <1>2, ForkView
<1>3. ASSUME NEW e \in Live, Free(e)
      PROVE  AbsStep(Views(Store), Views(Store'))
  BY <1>1, <1>3, FreeView
<1>4. ASSUME NEW e \in Live, PushFrame(e)
      PROVE  AbsStep(Views(Store), Views(Store'))
  BY <1>1, <1>4, PushView
<1>5. ASSUME NEW e \in Live, PopFrame(e)
      PROVE  AbsStep(Views(Store), Views(Store'))
  BY <1>1, <1>5, PopView
<1>6. ASSUME NEW e \in Live, NEW P, valueEscaped(e, P)
      PROVE  AbsStep(Views(Store), Views(Store'))
  <2>1. /\ OnlyFlags(Store, Store', e)
        /\ Of(Store', e).na = Of(Store, e).na /\ Of(Store', e).ue = Of(Store, e).ue \ P
    BY <1>1, <1>6, EscapeStep
  <2>2. Of(Store', e).na \subseteq Of(Store, e).na /\ Of(Store', e).ue \subseteq Of(Store, e).ue
    BY <2>1
  <2>3. e \in Edges /\ Has(Store, e)
    BY LiveHas
  <2> QED
    BY <1>1, <2>1, <2>2, <2>3, EscapeView
<1>7. ASSUME NEW e \in Live, NEW o, NEW x \in size.fresh, Alloc(e, o, x)
      PROVE  AbsStep(Views(Store), Views(Store'))
  BY <1>1, <1>7, AllocView
<1>8. ASSUME NEW e \in Live, NEW O, NEW w, NEW x \in size.written, NEW whole \in BOOLEAN,
             StoreInst(e, O, w, x, whole)
      PROVE  AbsStep(Views(Store), Views(Store'))
  BY <1>1, <1>8, StoreView
<1>9. ASSUME NEW e \in Live, NEW w \in Stored(e), NEW old \in BOOLEAN, StoreUnknown(e, old, w)
      PROVE  AbsStep(Views(Store), Views(Store'))
  BY <1>1, <1>9, UnknownView
<1>10. ASSUME NEW e \in Live, NEW w \in Stored(e), NEW clobbersMemory \in BOOLEAN,
              UnexpandedCall(e, w, clobbersMemory)
       PROVE  AbsStep(Views(Store), Views(Store'))
  BY <1>1, <1>10, CallView
<1>11. ASSUME NEW D, NEW g \in D, D # {g}, Merge(D, g)
       PROVE  AbsStep(Views(Store), Views(Store'))
  BY <1>1, <1>11, MergeView
<1> QED
  BY <1>2, <1>3, <1>4, <1>5, <1>6, <1>7, <1>8, <1>9, <1>10, <1>11 DEF Next

(* One edge has a store, in which nothing has been written.                *)
LEMMA InitView ==
    ASSUME Init
    PROVE  Abs!Init
<1>1. PICK e \in Edges : at = [f \in Edges |-> IF f = e THEN 1 ELSE NoMap]
  BY DEF Init
<1>2. Sound(Store)
  BY InitSound DEF Inv
<1>3. Has(Store, e) /\ \A f \in Edges : f # e => ~Has(Store, f)
  BY <1>1 DEF Has, Store, NoMap
<1>4. Of(Store, e) = [FreeMap EXCEPT !.ref = 1]
  <2>1. at[e] = 1 /\ 1 \in MapIds
    BY <1>1, MapIdsFinite
  <2> QED
    BY <2>1 DEF Of, Store, Init
<1>5. /\ Of(Store, e).depth = 0 /\ Of(Store, e).aoc = FALSE
      /\ Of(Store, e).na = {} /\ Of(Store, e).ue = {}
      /\ \A i \in Levels : Of(Store, e).tabs[i] = NoTab
  BY <1>4 DEF FreeMap
<1>6. Scope(Store, e) = Abs!InScope(0)
  BY <1>5 DEF Scope, Abs!InScope
<1>7. ASSUME NEW o \in Scope(Store, e)
      PROVE  Known(Store, e, o) = {}
  <2>1. PICK i \in Levels, q \in Slots : o = <<i, q>>
    BY <1>2, <1>3, ObjectPair
  <2>2. Ents(Store, e, i)[q] = None
    BY <1>5 DEF Ents, Entries, FreeTab
  <2> QED
    BY <2>1, <2>2, <1>5, KnownEntry DEF Reading
<1>8. [o \in Scope(Store, e) |-> Known(Store, e, o)] = [o \in Abs!InScope(0) |-> {}]
  BY <1>6, <1>7
<1>9. View(Store, e) = Visible(0, FALSE, {}, {}, [o \in Abs!InScope(0) |-> {}])
  <2>1. View(Store, e) = Visible(Of(Store, e).depth, Of(Store, e).aoc, Of(Store, e).na, Of(Store, e).ue,
                                 [o \in Scope(Store, e) |-> Known(Store, e, o)])
    BY <1>3, ViewVisible
  <2> QED
    BY <2>1, <1>5, <1>8, Zenon
<1>10. View(Store, e) = [live |-> TRUE, depth |-> 0, wary |-> FALSE, na |-> {}, ue |-> {},
                         read |-> [o \in Abs!InScope(0) |-> Abs!Undef]]
  BY <1>9 DEF Visible, Abs!Undef
<1>11. \A f \in Edges : f # e => View(Store, f) = Abs!Nothing
  BY <1>3, ViewNothing
<1> HIDE DEF Init
<1>12. Views(Store) = [f \in Edges |-> IF f # e THEN Abs!Nothing ELSE View(Store, e)]
  BY <1>11 DEF Views
<1> QED
  BY <1>10, <1>12 DEF Abs!Init

(* LLPE's copy-on-write maps implement one store per edge, as AbsStore     *)
(* describes it: however many edges share maps, frames and heaps, in       *)
(* whatever order they write, clobber, merge and go, each of them reads    *)
(* what it would if it had a store of its own.                             *)
THEOREM StoresImplemented == Spec => ImplementsAbsStore
<1>1. Init => Abs!Init
  BY InitView
<1>2. FlaggedInv /\ [Next]_vars => [Abs!Next]_(Views(Store))
  <2> SUFFICES ASSUME FlaggedInv, [Next]_vars
               PROVE  [Abs!Next]_(Views(Store))
    OBVIOUS
  <2>1. CASE UNCHANGED vars
    <3>1. Store' = Store
      BY <2>1 DEF vars, Store
    <3> QED
      BY <3>1
  <2>2. CASE Next
    <3>1. AbsStep(Views(Store), Views(Store'))
      BY <2>2, NextView DEF FlaggedInv
    <3>2. CASE Views(Store') = Views(Store)
      BY <3>2
    <3>3. CASE Views(Store') # Views(Store)
      BY <3>1, <3>3 DEF Abs!Next, AbsStep
    <3> QED
      BY <3>2, <3>3
  <2> QED
    BY <2>1, <2>2
<1> QED
  BY <1>1, <1>2, FlaggedAlways, PTL DEF Spec, ImplementsAbsStore, Abs!Spec
=============================================================================
