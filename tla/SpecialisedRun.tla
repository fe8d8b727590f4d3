--------------------------- MODULE SpecialisedRun ---------------------------
(***************************************************************************)
(* A run of the program that LLPE commits, with other threads: loads are   *)
(* replaced by the values the analysis found, and checked if the tentative *)
(* -load pass asked for it; stores that were killed are not done.          *)
(*                                                                         *)
(* Of a byte in memory it matters whether it is                            *)
(*   dirty   another thread wrote it, so that it is not what the analysis  *)
(*           thinks (or unspecialised code did that had read such a byte)  *)
(*   stale   the last store to it was killed.                              *)
(***************************************************************************)
EXTENDS TentativeLoads, DSE

CONSTANTS
    Objects,
    Programs    \* functions to consider, as in Walk

(* What a function does to memory, as Walk says.                           *)
Operations ==
    [kind : {"load", "ordered", "store", "pathCondition"}, obj : Objects, bytes : SUBSET Bytes]
    \cup [kind : {"copy"}, obj : Objects, to : Objects, bytes : SUBSET Bytes]
    \cup [kind : {"lock", "free"}, obj : Objects]
    \cup [kind : {"loadAny", "fence", "enter"}]
    \cup [kind : {"leave"}, of : {"call", "loop"}]
    \cup [kind : {"syscall"}, args : Seq(Objects \cup {"scalar"})]

ASSUME RunAssumption ==
    /\ Opaque \subseteq Objects
    /\ \A p \in Programs : /\ 1 \in Blocks(p) /\ DOMAIN p.ops = Blocks(p)
                           /\ \A b \in Blocks(p) : /\ p.ops[b] \in Seq(Operations)
                                                   /\ p.succ[b] \subseteq Blocks(p)
                           /\ DOMAIN p.target = Blocks(p)
                           /\ \A b \in Blocks(p) : preds(p, b) # {} => p.target[b] \in preds(p, b)

Memory == Objects \X Bytes
Known  == (Objects \ Opaque) \X Bytes

VARIABLES
    prog,
    phase,      \* which pass is next; the run; where it ended
    checked,    \* what findTentativeLoads found
    killed,     \* what tryKillStores found
    pc,         \* block, and operation in it
    dirty, stale,
    region,     \* in code that was left unspecialised
    tainted     \* which has read a dirty byte

vars == <<prog, phase, checked, killed, pc, dirty, stale, region, tainted>>

Init ==
    /\ prog \in Programs
    /\ phase = "findTentativeLoads" /\ checked = {} /\ killed = {}
    /\ pc = <<1, 1>> /\ dirty = {} /\ stale = {} /\ region = FALSE /\ tainted = FALSE

FindTentativeLoads ==
    /\ phase = "findTentativeLoads"
    /\ phase' = "tryKillStores"
    /\ checked' = findTentativeLoads(prog)
    /\ UNCHANGED <<prog, killed, pc, dirty, stale, region, tainted>>

TryKillStores ==
    /\ phase = "tryKillStores"
    /\ phase' = "run"
    /\ killed' = tryKillStores(prog, checked)
    /\ UNCHANGED <<prog, checked, pc, dirty, stale, region, tainted>>

-----------------------------------------------------------------------------
AtEnd     == pc[2] > Len(prog.ops[pc[1]])
AtOp(K)   == phase = "run" /\ ~AtEnd /\ Op(prog, pc).kind \in K
op        == Op(prog, pc)
Read      == {op.obj} \X op.bytes
Advance   == pc' = <<pc[1], pc[2] + 1>> /\ phase' = "run"
Abandon   == pc' = pc /\ phase' = "unspecialised"
HasCheck  == requiresRuntimeCheck(op, pc, checked)

(* What other threads may have done to M.                                  *)
Interfered(M) == {dirty \cup W : W \in SUBSET (M \cap Known)}

(* A check fails if what is read is not what the analysis thinks.          *)
Load ==
    /\ AtOp({"load", "loadAny"})
    /\ IF ~region /\ HasCheck /\ Read \cap dirty # {} THEN Abandon ELSE Advance
    /\ tainted' = (tainted \/ (region /\ op.kind = "load" /\ Read \cap dirty # {}))
    /\ UNCHANGED <<prog, checked, killed, dirty, stale, region>>

(* Other threads' writes are seen by the load that synchronises with them. *)
OrderedLoad ==
    /\ AtOp({"ordered"})
    /\ dirty' \in Interfered(Memory)
    /\ IF ~region /\ HasCheck /\ Read \cap dirty' # {} THEN Abandon ELSE Advance
    /\ tainted' = (tainted \/ (region /\ Read \cap dirty' # {}))
    /\ UNCHANGED <<prog, checked, killed, stale, region>>

(* A path condition at the top of a block: unspecialised code if memory is *)
(* not as the user said.                                                   *)
PathCondition ==
    /\ AtOp({"pathCondition"})
    /\ IF Read \cap dirty # {} THEN Abandon ELSE Advance
    /\ UNCHANGED <<prog, checked, killed, dirty, stale, region, tainted>>

Written == {IF op.kind = "copy" THEN op.to ELSE op.obj} \X op.bytes

(* Mutant: a store that was killed leaves other threads' bytes in sight.   *)
Store_notDone ==
    /\ AtOp({"store", "copy"})
    /\ IF ~region /\ pc \in killed
       THEN stale' = stale \cup Written /\ UNCHANGED dirty
       ELSE dirty' = dirty \ Written /\ stale' = stale \ Written
    /\ Advance
    /\ UNCHANGED <<prog, checked, killed, region, tainted>>

Store ==
    /\ AtOp({"store", "copy"})
    /\ dirty' = dirty \ Written
    /\ stale' = IF ~region /\ pc \in killed THEN stale \cup Written ELSE stale \ Written
    /\ tainted' = (tainted \/ (region /\ op.kind = "copy" /\ Read \cap dirty # {}))
    /\ Advance
    /\ UNCHANGED <<prog, checked, killed, region>>

Yield ==
    /\ AtOp({"fence", "lock"})
    /\ dirty' \in Interfered(IF op.kind = "fence" THEN Memory ELSE {op.obj} \X Bytes)
    /\ Advance
    /\ UNCHANGED <<prog, checked, killed, stale, region, tainted>>

Free ==
    /\ AtOp({"free"})
    /\ dirty' = dirty \ ({op.obj} \X Bytes) /\ stale' = stale \ ({op.obj} \X Bytes)
    /\ Advance
    /\ UNCHANGED <<prog, checked, killed, region, tainted>>

SystemCall ==
    /\ AtOp({"syscall"})
    /\ Advance
    /\ UNCHANGED <<prog, checked, killed, dirty, stale, region, tainted>>

Enter ==
    /\ AtOp({"enter"})
    /\ region' = TRUE /\ tainted' = FALSE
    /\ Advance
    /\ UNCHANGED <<prog, checked, killed, dirty, stale>>

(* What it read and should not have may have gone anywhere, the result     *)
(* included.                                                               *)
Leave ==
    /\ AtOp({"leave"})
    /\ region' = FALSE /\ UNCHANGED tainted
    /\ dirty' \in Interfered(IF tainted THEN Memory ELSE {})
    /\ Advance \/ (HasCheck /\ tainted /\ Abandon)
    /\ UNCHANGED <<prog, checked, killed, stale>>

NextBlock ==
    /\ phase = "run" /\ AtEnd
    /\ \E b \in prog.succ[pc[1]] : pc' = <<b, 1>>
    /\ UNCHANGED <<prog, phase, checked, killed, dirty, stale, region, tainted>>

Return ==
    /\ phase = "run" /\ AtEnd /\ prog.succ[pc[1]] = {}
    /\ phase' = "returned"
    /\ UNCHANGED <<prog, checked, killed, pc, dirty, stale, region, tainted>>

Next ==
    \/ FindTentativeLoads \/ TryKillStores
    \/ Load \/ OrderedLoad \/ Store \/ Yield \/ Free \/ SystemCall \/ Enter \/ Leave
    \/ PathCondition \/ NextBlock \/ Return

Spec == Init /\ [][Next]_vars

-----------------------------------------------------------------------------
(* The passes' results are operations of the function of the right kinds,  *)
(* and a byte the function itself has written is not dirty: a store that   *)
(* was killed counts like one that was done.                               *)
TypeOK ==
    /\ phase \in {"findTentativeLoads", "tryKillStores", "run", "unspecialised", "returned"}
    /\ checked \subseteq {id \in Ids(prog) : readsMemoryDirectly(Op(prog, id))
                                             \/ Op(prog, id).kind = "leave"}
    /\ killed \subseteq {id \in Ids(prog) : Op(prog, id).kind \in {"store", "copy"}}
    /\ dirty \subseteq Known /\ stale \subseteq Memory /\ dirty \cap stale = {}
    /\ region \in BOOLEAN /\ tainted \in BOOLEAN

(* Whatever other threads do at fences, locks and ordered loads, a load    *)
(* that was replaced by a value and is not checked would have read that    *)
(* value, and so would a copy; and the result of code left unspecialised   *)
(* is checked if that code read anything it should not have.               *)
UncheckedLoadsClean ==
    /\ AtOp({"load", "ordered", "copy"}) /\ ~region /\ ~HasCheck /\ op.obj \notin Opaque
         => Read \cap dirty = {}
    /\ AtOp({"leave"}) /\ ~HasCheck => ~tainted

(* The bytes that a store of the tentative-load pass takes for good, and   *)
(* the pass's state at the start of a block where it takes G for good.     *)
GoodBytes(T) ==
    {m \in Memory : IF m[1] \in DOMAIN T.map THEN m[2] \in T.map[m[1]] ELSE ~T.aoc}

TLStore(G) == [aoc |-> TRUE, map |-> [o \in Objects |-> {b \in Bytes : <<o, b>> \in G}]]
TLEnter(G) == [T |-> TLStore(G), checked |-> {}, reads |-> FALSE,
               backup |-> TLStore(G), inRegion |-> FALSE, regionReads |-> FALSE]

(* The states of the pass in block b, before each operation and at the     *)
(* end, as they would be without a first and a second pass.                *)
TLStep(p, A, id) ==
    TLOperation(A, Op(p, id), id,
                [second |-> FALSE, inLoop |-> \E l \in p.loops : id[1] \in l.header..l.last])

TLStates(p, b, G) ==
    LET at[j \in 1..Len(p.ops[b]) + 1] ==
          IF j = 1 THEN TLEnter(G) ELSE TLStep(p, at[j - 1], <<b, j - 1>>)
    IN  at

(* What is good at the start of each block, on whatever path: the greatest *)
(* fixed point.                                                            *)
GoodAtStart(p) ==
    LET end(b, G) == GoodBytes(TLStates(p, b, G)[Len(p.ops[b]) + 1].T)
        good[E \in [Blocks(p) -> SUBSET Memory]] ==
          LET ends == {<<b, end(b, E[b])>> : b \in Blocks(p)}
              F    == [b \in Blocks(p) |->
                         {m \in E[b] : \A e \in ends : b \in p.succ[e[1]] => m \in e[2]}]
          IN  IF F = E THEN E ELSE good[F]
    IN  good[[b \in Blocks(p) |-> Memory]]

TLTyped(A) ==
    /\ A.T = [aoc |-> A.T.aoc, map |-> A.T.map]
    /\ A = [T |-> A.T, checked |-> A.checked, reads |-> A.reads, backup |-> A.backup,
            inRegion |-> A.inRegion, regionReads |-> A.regionReads]
    /\ {A.T.aoc, A.reads, A.inRegion, A.regionReads} \subseteq BOOLEAN

(* Code that was left unspecialised makes nothing good, and if it read     *)
(* what it should not have, nothing is good after it.                      *)
LeavesWell(A, B) ==
    /\ A.inRegion /\ GoodBytes(B.T) \subseteq GoodBytes(A.T)
    /\ A.regionReads => GoodBytes(B.T) = {}

(* The two passes over each loop have found all the checks that a fixed    *)
(* point asks for; it asks for none of copies, which never have one.  Code *)
(* left unspecialised does not nest, and ends in the block it began in.    *)
TLSettled(p) ==
    LET good == GoodAtStart(p)
        at   == [b \in Blocks(p) |-> TLStates(p, b, good[b])]
        must == findTentativeLoads(p)
    IN  /\ \A b \in Blocks(p) : at[b][1] = TLEnter(good[b])
        /\ \A id \in Ids(p) :
              LET A == at[id[1]][id[2]]
                  B == TLStep(p, A, id)
              IN  /\ at[id[1]][id[2] + 1] = B /\ TLTyped(A)
                  /\ id \in B.checked =>
                        IF Op(p, id).kind = "copy" THEN A.inRegion ELSE id \in must
                  /\ Op(p, id).kind = "enter" => A.inRegion = FALSE
                  /\ Op(p, id).kind = "leave" => LeavesWell(A, B)
        /\ \A b \in Blocks(p) : \A c \in p.succ[b] :
              LET A == at[b][Len(p.ops[b]) + 1]
              IN  A.inRegion = FALSE /\ good[c] \subseteq GoodBytes(A.T)

(* No loop needs a third pass: what two have marked is enough, be loops    *)
(* nested, entered once or left half-way (TentativeLoads.cpp, lines 1093   *)
(* to 1189).                                                               *)
ChecksSuffice == phase = "tryKillStores" => TLSettled(prog)

(* The same of the dead-store pass: the stores that a store of the pass    *)
(* takes for the last writers of a byte, and the pass's state at the start *)
(* of a block where they are as W says.                                    *)
WritersOf(D, m) == Entry(D, m[1], NoWriters)[m[2]]

DSEEnter(W) == [D |-> [aoc |-> FALSE, map |-> [o \in Objects |-> [b \in Bytes |-> W[<<o, b>>]]]],
                tracked |-> {}, needed |-> {}, backup |-> InitialDSE, inRegion |-> FALSE]

DSEStep(p, A, id, must) ==
    DSEOperation(A, Op(p, id), id,
                 [second |-> FALSE, inLoop |-> \E l \in p.loops : id[1] \in l.header..l.last], must)

DSEStates(p, b, W, must) ==
    LET at[j \in 1..Len(p.ops[b]) + 1] ==
          IF j = 1 THEN DSEEnter(W) ELSE DSEStep(p, at[j - 1], <<b, j - 1>>, must)
    IN  at

(* Who may have written last at the start of each block, on some path: the *)
(* least fixed point.                                                      *)
WritersAtStart(p, must) ==
    LET end(b, W) == LET D == DSEStates(p, b, W, must)[Len(p.ops[b]) + 1].D
                     IN  [m \in Memory |-> WritersOf(D, m)]
        writers[E \in [Blocks(p) -> [Memory -> SUBSET Ids(p)]]] ==
          LET ends == {<<b, end(b, E[b])>> : b \in Blocks(p)}
              F    == [b \in Blocks(p) |-> [m \in Memory |->
                         E[b][m] \cup UNION {e[2][m] : e \in {x \in ends : b \in p.succ[x[1]]}}]]
          IN  IF F = E THEN E ELSE writers[F]
    IN  writers[[b \in Blocks(p) |-> [m \in Memory |-> {}]]]

DSETyped(A) ==
    /\ A.D = [aoc |-> A.D.aoc, map |-> A.D.map]
    /\ A = [D |-> A.D, tracked |-> A.tracked, needed |-> A.needed, backup |-> A.backup,
            inRegion |-> A.inRegion]

(* No store has been killed that a fixed point would have found to be      *)
(* needed: by a read or a check, by code left unspecialised, which needs   *)
(* all there was before it, or by the caller.  No argument of a system     *)
(* call is overlooked.                                                     *)
DSESettled(p) ==
    LET must  == findTentativeLoads(p)
        dead  == tryKillStores(p, must)
        start == WritersAtStart(p, must)
        at    == [b \in Blocks(p) |-> DSEStates(p, b, start[b], must)]
    IN  /\ \A b \in Blocks(p) : at[b][1] = DSEEnter(start[b])
        /\ \A id \in Ids(p) :
              LET A == at[id[1]][id[2]]
                  B == DSEStep(p, A, id, must)
              IN  /\ at[id[1]][id[2] + 1] = B /\ DSETyped(A)
                  /\ B.needed \cap dead = {}
                  /\ B.inRegion => Writers(B.backup) \cap dead = {}
                  /\ Op(p, id).kind = "leave" => A.inRegion = TRUE
                  /\ Op(p, id).kind = "syscall" =>
                        \A i \in DOMAIN Op(p, id).args :
                           Op(p, id).args[i] \in Objects =>
                              Op(p, id).args[i] \in argumentsRead(Op(p, id))
        /\ \A b \in Blocks(p) :
              LET A == at[b][Len(p.ops[b]) + 1]
              IN  /\ A.inRegion = FALSE
                  /\ p.succ[b] = {} => Writers(A.D) \cap dead = {}
                  /\ \A c \in p.succ[b] : \A m \in Memory : WritersOf(A.D, m) \subseteq start[c][m]

(* Nothing is killed too many: where paths meet, after two passes over a   *)
(* loop, and at the function's end (DSE.cpp, lines 1073 to 1164).          *)
KillsSettled == phase = "tryKillStores" => DSESettled(prog)

(* What is read from memory at this point.  A check may branch to          *)
(* unspecialised code, which reads anything, and so do other threads.      *)
ReadNow ==
    IF phase = "returned" THEN Memory
    ELSE IF phase # "run" \/ AtEnd THEN {}
    ELSE CASE op.kind \in {"load", "ordered", "copy"} ->
                IF ~region /\ HasCheck THEN Memory
                ELSE IF region \/ op.obj \in Opaque THEN Read ELSE {}
           [] op.kind = "syscall" -> {o \in Objects : \E i \in DOMAIN op.args : op.args[i] = o} \X Bytes
           [] op.kind \in {"loadAny", "fence", "lock", "enter", "leave", "pathCondition"} -> Memory
           [] OTHER -> {}

(* No byte is read in the specialised program, in the code it calls or     *)
(* falls back to or by another thread whose last store was killed.         *)
KilledNeverRead == stale \cap ReadNow = {}
=============================================================================
