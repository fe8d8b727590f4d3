----------------------------- MODULE MCCowStore -----------------------------
(***************************************************************************)
(* Instances of CowStore for TLC.  States are told apart by what matters   *)
(* of them: neither the numbers of maps and tables nor the names of edges  *)
(* do, only how many edges hold which maps and which maps share a table.   *)
(***************************************************************************)
EXTENDS CowStore, TLC

Symmetry == Permutations(Vals)

(* One value that is known, or only that anything may have been written.   *)
AnyValue == Written
Unknowns == {Vals}

(* Four edges, enough for two maps that are both shared to be merged, and  *)
(* objects without flags; three, or two and known values, and flags; or    *)
(* two and a stack frame that comes and goes.                              *)
Instances == { [edges |-> 4, depth |-> 0, written |-> AnyValue, fresh |-> {}],
               [edges |-> 3, depth |-> 0, written |-> Unknowns, fresh |-> Unknowns],
               [edges |-> 2, depth |-> 0, written |-> AnyValue, fresh |-> AnyValue],
               [edges |-> 2, depth |-> 1, written |-> Unknowns, fresh |-> Unknowns] }
OneEdge == { [edges |-> 1, depth |-> 0, written |-> AnyValue, fresh |-> AnyValue] }

(* How often each value of F occurs in X.                                  *)
Tally(X, F(_)) ==
    LET f == {<<x, F(x)>> : x \in X}
    IN  [d \in {p[2] : p \in f} |-> Cardinality({p \in f : p[2] = d})]

Used   == {m \in MapIds : map[m].ref > 0}
Own(m) == <<map[m].ref, Cardinality({e \in Edges : at[e] = m}), map[m].depth, map[m].aoc,
            map[m].na, map[m].ue>>

(* A table, and the maps that share it at level i.                         *)
Shared(i, k) ==
    CASE k = NoTab          -> <<>>
      [] tab[i][k].ref = 1  -> <<tab[i][k]>>
      [] OTHER              -> <<tab[i][k], Tally({m \in Used : map[m].tabs[i] = k}, Own)>>
Whole(m) == <<Own(m), [i \in 0..map[m].depth |-> Shared(i, map[m].tabs[i])]>>

(* Exact for up to 4 edges on which nothing but the heap is shared, or 3;  *)
(* beyond that states that differ would be taken for equal.                *)
UpToNaming == <<size, Tally(Used, Whole), Cardinality({t \in Levels \X MapIds : tab[t[1]][t[2]].ref > 0}),
                map = map /\ tab = tab>>   \* TLC evaluates the functions themselves
=============================================================================
