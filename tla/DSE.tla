-------------------------------- MODULE DSE ---------------------------------
(***************************************************************************)
(* Dead store elimination (DSE.cpp): a store is killed if it is            *)
(* overwritten or freed before anything the specialised program really     *)
(* does reads it.                                                          *)
(*                                                                         *)
(* An object's entry has for each byte the tracked stores that may have    *)
(* written it last.  While a block is walked A has                         *)
(*   D         the store                                                   *)
(*   tracked   the writers recorded so far (TrackedStore)                  *)
(*   needed    those with isNeeded                                         *)
(*   backup, inRegion   as in TentativeLoads                               *)
(***************************************************************************)
EXTENDS Walk

NoWriters  == [b \in Bytes |-> {}]
InitialDSE == [aoc |-> FALSE, map |-> NoObjects]

Writers(D)  == UNION {UNION {D.map[o][b] : b \in Bytes} : o \in DOMAIN D.map}
getEmptyMap(D) == [D EXCEPT !.map = NoObjects]

(* setAllNeededTop, and nothing is tracked any more.                       *)
Barrier(A) == [A EXCEPT !.needed = @ \cup Writers(A.D), !.D = getEmptyMap(@)]

setWriter(entry, B, id) == [b \in Bytes |-> IF b \in B THEN {id} ELSE entry[b]]

DSEHandleWrite(A, o, B, id) ==
    [A EXCEPT !.D = Put(@, o, setWriter(Entry(@, o, NoWriters), B, id)),
              !.tracked = @ \cup {id}]

(* Mutant: the entries read are forgotten without being marked.            *)
DSEHandleRead_unmarked(A, o, B) ==
    [A EXCEPT !.D = Put(@, o, [b \in Bytes |-> IF b \in B THEN {} ELSE Entry(@, o, NoWriters)[b]])]

(* useWriters: the writers of what is read are needed, and their entries   *)
(* of no more use.                                                         *)
DSEHandleRead(A, o, B) ==
    LET entry == Entry(A.D, o, NoWriters)
    IN  [A EXCEPT !.needed = @ \cup UNION {entry[b] : b \in B},
                  !.D = Put(@, o, [b \in Bytes |-> IF b \in B THEN {} ELSE entry[b]])]

(* Check emitted after this operation.  A copy has no result, and for that *)
(* reason no check.                                                        *)
requiresRuntimeCheck(op, id, checked) == op.kind # "copy" /\ id \in checked

(* The pointers among a system call's arguments, up to the first argument  *)
(* that is not one.                                                        *)
argumentsRead(op) ==
    {op.args[i] : i \in {j \in DOMAIN op.args : \A k \in 1..j : op.args[k] # "scalar"}}

(* All of the objects are read, one after the other.                       *)
handleArguments(A, objs) ==
    [A EXCEPT !.needed = @ \cup UNION {UNION {Entry(A.D, o, NoWriters)[b] : b \in Bytes} : o \in objs},
              !.D.map = [o \in objs \cup DOMAIN @ |-> IF o \in objs THEN NoWriters ELSE @[o]]]

ReadForReal(op, id, checked, disabled) ==
    disabled \/ id \in checked \/ op.obj \in Opaque

(* A store in the second pass over a loop is not recorded, and nothing but *)
(* reads is looked at.                                                     *)
DSEAnalyseInstruction(A, op, id, v, checked) ==
    LET disabled == v.inLoop /\ A.inRegion
        atCheck  == IF requiresRuntimeCheck(op, id, checked) \/ op.kind = "fence" THEN Barrier(A)
                    ELSE A
        read     == IF ReadForReal(op, id, checked, disabled)
                    THEN DSEHandleRead(atCheck, op.obj, op.bytes) ELSE atCheck
    IN  IF v.second /\ (~readsMemoryDirectly(op) \/ A.inRegion) THEN A
        ELSE CASE op.kind \in {"load", "ordered"} -> read
               [] op.kind = "copy"    -> IF v.second THEN read
                                         ELSE DSEHandleWrite(read, op.to, op.bytes, id)
               [] op.kind = "store"   -> DSEHandleWrite(atCheck, op.obj, op.bytes, id)
               [] op.kind = "free"    -> [A EXCEPT !.D = Put(@, op.obj, NoWriters)]
               [] op.kind = "syscall" -> handleArguments(A, argumentsRead(op))
               [] op.kind \in {"loadAny", "lock"} -> Barrier(atCheck)
               [] op.kind = "fence"   -> atCheck

(* Unspecialised code reads whatever it likes.                             *)
leaveDisabled(A, v) ==
    IF v.inLoop THEN [A EXCEPT !.inRegion = FALSE]
    ELSE [A EXCEPT !.needed = @ \cup Writers(A.backup), !.inRegion = FALSE,
                   !.D = [aoc |-> TRUE, map |-> NoObjects]]

DSEOperation(A, op, id, v, checked) ==
    CASE op.kind = "pathCondition" -> Barrier(A)
      [] op.kind = "enter" -> [A EXCEPT !.backup = A.D, !.inRegion = TRUE]
      [] op.kind = "leave" -> leaveDisabled(A, v)
      [] OTHER             -> DSEAnalyseInstruction(A, op, id, v, checked)

(* Mutant: what is merged into is forgotten too.                           *)
DSEMerge_fresh(stores, into) ==
    doMerge(stores, [o \in Mentioned(stores) |-> NoWriters])

(* mergeStores: the entry of the store that is merged into.  The others'   *)
(* writers are never added to it.                                          *)
DSEMerge(stores, into) ==
    doMerge(stores, [o \in Mentioned(stores) |-> Entry(into, o, NoWriters)])

DSEBlock(p, A, v, checked) ==
    LET entry == IF v.from # 0 THEN A.out[v.from]
                 ELSE IF v.block = 1 THEN InitialDSE
                 ELSE DSEMerge({A.out[q] : q \in preds(p, v.block)}, A.out[p.target[v.block]])
        end   == FoldLeft(LAMBDA B, j :
                            DSEOperation(B, p.ops[v.block][j], <<v.block, j>>, v, checked),
                          [A EXCEPT !.D = entry], [j \in 1..Len(p.ops[v.block]) |-> j])
    IN  [end EXCEPT !.out[v.block] = end.D]

(* What no map refers to any more and nobody needed is killed; the maps of *)
(* the blocks that return are kept.                                        *)
tryKillStores(p, checked) ==
    LET end == FoldLeft(LAMBDA A, v : DSEBlock(p, A, v, checked),
                        [D |-> InitialDSE, out |-> [b \in Blocks(p) |-> InitialDSE],
                         tracked |-> {}, needed |-> {}, backup |-> InitialDSE, inRegion |-> FALSE],
                        Visits(p))
        kept == UNION {Writers(end.out[b]) : b \in {c \in Blocks(p) : p.succ[c] = {}}}
    IN  end.tracked \ (end.needed \cup kept)
=============================================================================
