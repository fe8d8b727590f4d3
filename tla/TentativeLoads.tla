--------------------------- MODULE TentativeLoads ---------------------------
(***************************************************************************)
(* The tentative-load pass (TentativeLoads.cpp): which loads, replaced by  *)
(* the value that the analysis found, have to be checked at run time,      *)
(* because another thread may have written there since the last check.     *)
(*                                                                         *)
(* A store says which bytes are good.  An object without an entry is good  *)
(* as a whole, unless aoc.  While a block is walked A has                  *)
(*   T         the store                                                   *)
(*   checked   the operations with isThreadLocal = TLS_MUSTCHECK           *)
(*   reads     readsTentativeData of the function                          *)
(*   backup, regionReads   the store on entry to code that is left         *)
(*             unspecialised, and its own readsTentativeData               *)
(***************************************************************************)
EXTENDS Walk

InitialTL == [aoc |-> FALSE, map |-> NoObjects]

markAllObjectsTentative == [aoc |-> TRUE, map |-> NoObjects]

(* Nothing is recorded in code that will not have checks.                  *)
markGoodBytes(T, o, B, enabled) ==
    IF ~enabled \/ ~T.aoc THEN T ELSE Put(T, o, Entry(T, o, {}) \cup B)

(* Mutant: one good byte is enough.                                        *)
shouldCheckRead_anyByte(T, o, B) ==
    IF o \in DOMAIN T.map THEN B \cap T.map[o] = {} ELSE T.aoc

shouldCheckRead(T, o, B) ==
    IF o \in DOMAIN T.map THEN ~(B \subseteq T.map[o]) ELSE T.aoc

shouldCheckLoad(T, op) ==
    /\ op.kind # "loadAny" /\ op.obj \notin Opaque
    /\ op.kind = "ordered" \/ shouldCheckRead(T, op.obj, op.bytes)

updateTLStore(T, op, enabled) ==
    CASE op.kind \in {"load", "store"}    -> markGoodBytes(T, op.obj, op.bytes, enabled)
      [] op.kind \in {"fence", "ordered"} -> markAllObjectsTentative
      [] op.kind = "lock"                 -> Put(T, op.obj, {})
      [] op.kind = "copy" ->
           markGoodBytes(markGoodBytes(T, op.to, op.bytes, enabled), op.obj, op.bytes, enabled)
      [] OTHER -> T

(* Mutant: the second pass over a loop forgets what the first had found.   *)
TLAnalyseInstruction_overwrites(A, op, id, v) ==
    LET must    == readsMemoryDirectly(op) /\ shouldCheckLoad(A.T, op)
        enabled == ~(v.inLoop /\ A.inRegion)
    IN  [A EXCEPT !.T = updateTLStore(@, op, enabled),
                  !.checked = IF must THEN @ \cup {id} ELSE @ \ {id},
                  !.reads = @ \/ must,
                  !.regionReads = @ \/ (must /\ A.inRegion)]

(* A load that had to be checked when the loop was entered is left alone   *)
(* in the second pass.                                                     *)
TLAnalyseInstruction(A, op, id, v) ==
    LET must    == readsMemoryDirectly(op) /\ shouldCheckLoad(A.T, op)
        enabled == ~(v.inLoop /\ A.inRegion)
    IN  IF readsMemoryDirectly(op) /\ v.second /\ id \in A.checked THEN A
        ELSE [A EXCEPT !.T = updateTLStore(@, op, enabled),
                       !.checked = IF must THEN @ \cup {id} ELSE @ \ {id},
                       !.reads = @ \/ must,
                       !.regionReads = @ \/ (must /\ A.inRegion)]

(* Code that is not going to be committed: what it read without a check it *)
(* may have used for anything; if it did not read such things, the store   *)
(* is again the one from before it.  A loop goes by what its function has  *)
(* read so far.  In a loop that is analysed in general nothing is undone.  *)
rerunTentativeLoads(A, op, id, v) ==
    LET reads == IF op.of = "call" THEN A.regionReads ELSE A.reads
    IN  [A EXCEPT !.T = IF v.inLoop THEN @
                        ELSE IF reads THEN markAllObjectsTentative ELSE A.backup,
                  !.checked = IF A.regionReads THEN @ \cup {id} ELSE @,
                  !.inRegion = FALSE]

(* A path condition is checked at the top of a block; outside of loops     *)
(* that are analysed in general this makes nothing good.                   *)
TLWalkPathConditions(A, op, v) ==
    IF v.inLoop THEN [A EXCEPT !.T = markGoodBytes(@, op.obj, op.bytes, TRUE)] ELSE A

TLOperation(A, op, id, v) ==
    CASE op.kind = "pathCondition" -> TLWalkPathConditions(A, op, v)
      [] op.kind = "enter" -> [A EXCEPT !.backup = A.T, !.inRegion = TRUE, !.regionReads = FALSE]
      [] op.kind = "leave" -> rerunTentativeLoads(A, op, id, v)
      [] OTHER             -> TLAnalyseInstruction(A, op, id, v)

(* An offset is good if it is good in all the stores.                      *)
TLMerge(stores) ==
    doMerge(stores, [o \in Mentioned(stores) |->
                       {b \in Bytes : \A S \in stores : b \in Entry(S, o, {})}])

TLBlock(p, A, v) ==
    LET entry == IF v.from # 0 THEN A.out[v.from]
                 ELSE IF v.block = 1 THEN InitialTL
                 ELSE TLMerge({A.out[q] : q \in preds(p, v.block)})
        end   == FoldLeft(LAMBDA B, j : TLOperation(B, p.ops[v.block][j], <<v.block, j>>, v),
                          [A EXCEPT !.T = entry], [j \in 1..Len(p.ops[v.block]) |-> j])
    IN  [end EXCEPT !.out[v.block] = end.T]

findTentativeLoads(p) ==
    FoldLeft(LAMBDA A, v : TLBlock(p, A, v),
             [T |-> InitialTL, out |-> [b \in Blocks(p) |-> InitialTL], checked |-> {},
              reads |-> FALSE, backup |-> InitialTL, inRegion |-> FALSE, regionReads |-> FALSE],
             Visits(p)).checked
=============================================================================
