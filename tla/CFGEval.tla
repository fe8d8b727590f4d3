------------------------------ MODULE CFGEval ------------------------------
(***************************************************************************)
(* The evaluation of one function by LLPE's main loop (MainLoop.cpp,       *)
(* CFGEval.cpp, CreateSpecialisationContext.cpp, IAWalkers.cpp): the blocks*)
(* are analysed once each in topological order; a loop whose preheader is  *)
(* sure to run is first explored iteration by iteration, each iteration in *)
(* a context of its own (PeelIteration), and if that does not show it      *)
(* ends, a fixed point for its body is sought in the enclosing context     *)
(* (analyseLoop).                                                          *)
(*                                                                         *)
(* What the blocks compute is abstracted to one cell: a known value, or    *)
(* Top.  Control is kept: which edges come alive and when, the status of   *)
(* blocks, the count of pending edges that decides it, and who holds the   *)
(* references to the block-local stores.  A reference is charged to the    *)
(* block through whose pointer it was taken: bb[k].local and bb[k].fd      *)
(* count the references that block k's localStore and fdStore account for. *)
(***************************************************************************)
EXTENDS Integers, Sequences, SequencesExt, FiniteSets, FiniteSetsExt, Functions

CONSTANTS
    Values,         \* what the cell may hold
    Top,            \* nothing is known of the cell
    NoStore,        \* the null localStore of an abandoned block
    Programs,       \* functions: records with fn, their shape, and what the blocks do
    MaxIter         \* bound on the iterations explored

VARIABLES
    prog,       \* the function, one of Programs: fn, step, branch, exits
    entry,      \* the cell's value at the call
    bb,         \* the ShadowBBs: a function on the pairs <<context, block>> created
    ctx,        \* the contexts: pendingEdges, and whether iterStatus is Final
    retained,   \* latchStoresRetained: pairs <<context, loop>>
    stack       \* the activations of analyse, PeelAttempt::analyse and analyseLoop

vars == <<prog, entry, bb, ctx, retained, stack>>

-----------------------------------------------------------------------------
(* The shape of the function, ShadowFunctionInvar, and the user's options  *)
(* about it.                                                               *)

Blocks == 1..Len(prog.fn.succs)             \* numbered in topological order
Succs == prog.fn.succs                      \* each block's successors, parallel edges repeated
LoopEnd == prog.fn.loopEnd                  \* a loop is named by its header h: h..LoopEnd[h]
Loops == DOMAIN LoopEnd
Returns == prog.fn.returns                  \* the blocks that end in a return
Ignored == prog.fn.ignored                  \* edges that branch to unspecialised code
Exceptional == prog.fn.exceptional          \* those of them that are an invoke's unwind edge
AssumeEdges == prog.fn.assumeEdges          \* edges the user asked to assume are taken
AlwaysIterate == prog.fn.alwaysIterate      \* loops to explore until they are sure to end
OptimisticEdge == prog.fn.optimisticEdge    \* some loops' exit edge that, once dead, means
                                            \* another iteration
EndsAfter == prog.fn.endsAfter              \* some loops' last iteration, on the user's word
MaxContexts == prog.fn.maxContexts          \* past this many contexts no loop is explored
                                            \* (0: no limit)

ASSUME ShapeAssumption ==
    \A fn \in {p.fn : p \in Programs} :
        LET blocks == DOMAIN fn.succs IN
        /\ blocks # {} /\ fn.succs \in Seq(Seq(blocks))
        /\ \A l \in DOMAIN fn.loopEnd : l \in blocks /\ fn.loopEnd[l] \in blocks /\ l <= fn.loopEnd[l]
        /\ \A b \in fn.returns : fn.succs[b] = << >>
        /\ fn.exceptional \subseteq fn.ignored
        /\ \A e \in fn.exceptional : e[1] \in blocks /\ Len(fn.succs[e[1]]) = 2
\* The loops are LoopInfo's, and getLoopInfo asserts isLoopSimplifyForm: they nest, each
\* is entered by its header alone, from one preheader, and has one latch, and a block that
\* a loop exits to has no other predecessors.  Nothing branches to the entry block.
ASSUME LoopsAssumption ==
    \A fn \in {p.fn : p \in Programs} :
        LET blocks == DOMAIN fn.succs
            edge(x, y) == y \in Range(fn.succs[x])
            within(l, b) == l <= b /\ b <= fn.loopEnd[l]
        IN /\ \A x \in blocks : ~edge(x, 1)
           /\ \A l, m \in DOMAIN fn.loopEnd : within(l, m) => fn.loopEnd[m] <= fn.loopEnd[l]
           /\ \A l \in DOMAIN fn.loopEnd, x, y \in blocks : edge(x, y) =>
                 /\ within(l, y) /\ ~within(l, x) => y = l
                 /\ within(l, x) /\ ~within(l, y) =>
                       \A z \in blocks : edge(z, y) => within(l, z)
           /\ \A l \in DOMAIN fn.loopEnd :
                 \E preheader, latch \in blocks :
                    /\ ~within(l, preheader) /\ within(l, latch)
                    /\ {x \in blocks : edge(x, l)} = {preheader, latch}
ASSUME ValuesAssumption ==
    /\ Top \notin Values /\ NoStore \notin Values /\ Top # NoStore
    /\ IsFiniteSet(Values)
    /\ \A p \in Programs : p.step \in [DOMAIN p.fn.succs -> [Values -> Values \cup {Top}]]
    /\ MaxIter \in Nat

\* Scope 0 is the function itself.
contains(l, b) == l = 0 \/ (l <= b /\ b <= LoopEnd[l])

naturalScope(b) == Max({0} \cup {l \in Loops : contains(l, b)})

copies(x, y) == {p \in DOMAIN Succs[x] : Succs[x][p] = y}

\* The copies of the edges in E, which pendingEdges counts one by one.
edgeCopies(E) == UNION {{e[1]} \X copies(e[1], e[2]) : e \in E}

predIdxs(y) == {x \in Blocks : copies(x, y) # {}}

latchIdx(l) == CHOOSE b \in Blocks : contains(l, b) /\ b \in predIdxs(l)

preheaderIdx(l) == CHOOSE b \in Blocks : ~contains(l, b) /\ b \in predIdxs(l)

exitEdges(l) == {e \in Blocks \X Blocks :
                    contains(l, e[1]) /\ ~contains(l, e[2]) /\ copies(e[1], e[2]) # {}}

-----------------------------------------------------------------------------
(* Contexts.  A context is the sequence of the loop iterations it is in,    *)
(* outermost first: << >> is the InlineAttempt, c \o <<<<l, i>>>> the       *)
(* PeelIteration of iteration i of loop l in c.                             *)

scope(c) == IF c = << >> THEN 0 ELSE Last(c)[1]

iteration(c, l, i) == Append(c, <<l, i>>)

Iterations(c, l) == {i \in 0..MaxIter : iteration(c, l, i) \in DOMAIN ctx}

lastIteration(c, l) == iteration(c, l, Max(Iterations(c, l)))

isTerminated(c, l) == Iterations(c, l) # {} /\ ctx[lastIteration(c, l)].final

immediateChildLoop(c, b) == Min({l \in Loops : contains(l, b) /\ l > scope(c)})

\* Mutant: a block is always made in the context that branches to it.
getIAForScope_here(c, y) == c

\* getIAForScope: the context, this one or one around it, that block y belongs to.
getIAForScope(c, y) ==
    IF contains(scope(c), y) THEN c
    ELSE CHOOSE d \in {SubSeq(c, 1, n) : n \in 0..Len(c)} : scope(d) = naturalScope(y)

\* A block in scope that was never created has no live edges; of a block outside
\* the context's scope nothing is known.
edgeIsDead(c, x, y) ==
    /\ contains(scope(c), x)
    /\ <<c, x>> \in DOMAIN bb => bb[<<c, x>>].alive \cap copies(x, y) = {}

edgeBranchesToUnspecialisedCode(x, y) == <<x, y>> \in Ignored

\* Mutant: one dead exit edge is enough.
allExitEdgesDead_one(c) ==
    \E e \in exitEdges(scope(c)) : edgeIsDead(c, e[1], e[2]) \/ e \in Exceptional

allExitEdgesDead(c) ==
    \A e \in exitEdges(scope(c)) : edgeIsDead(c, e[1], e[2]) \/ e \in Exceptional

\* The contexts whose instance of x leaves by the edge x -> y, found from c by going
\* into every iteration of each terminated loop on the way.
visitLoopExitingBlocksBW(c, x, y) ==
    {d \in DOMAIN ctx :
        /\ IsPrefix(c, d)
        /\ \A n \in Len(c)..Len(d) : ~edgeIsDead(SubSeq(d, 1, n), x, y)
        /\ \A n \in Len(c)..(Len(d) - 1) :
              LET p == SubSeq(d, 1, n) IN
              /\ contains(d[n + 1][1], x)
              /\ isTerminated(p, d[n + 1][1])
        /\ contains(scope(d), x)
        /\ \/ naturalScope(x) = scope(d)
           \/ ~isTerminated(d, immediateChildLoop(d, x))}

\* edgeIsDeadRising with ignoreThisScope: dead in every iteration of the child loop.
edgeIsDeadRising(c, x, y) ==
    \A i \in Iterations(c, immediateChildLoop(c, x)) :
        visitLoopExitingBlocksBW(iteration(c, immediateChildLoop(c, x), i), x, y) = {}

-----------------------------------------------------------------------------
(* Stores and their references.                                             *)

refStores(B, k, n) == [B EXCEPT ![k].local = @ + n, ![k].fd = @ + n]

\* What a visitor that collects the live predecessors of b consumes: for each block
\* instance, the number of references (one for every copy of the edge).
visitNormalPredecessorsBW(c, b) ==
    LET live == {x \in predIdxs(b) :
                    ~edgeIsDead(c, x, b) /\ ~edgeBranchesToUnspecialisedCode(x, b)}
        instances(x) == IF naturalScope(b) # scope(c) \/ naturalScope(x) = scope(c)
                        THEN {c}
                        ELSE visitLoopExitingBlocksBW(c, x, b)
        seen == UNION {{<<d, x>> : d \in instances(x)} : x \in live}
    IN [k \in seen |-> Cardinality(copies(k[2], b))]

\* MergeBlockVisitor::doMerge and FDStoreMerger::doMerge: the references are dropped,
\* or one of them is handed on, and the value is what the stores agree on.
dropReferences(B, used) ==
    [k \in DOMAIN B |->
        IF k \in DOMAIN used
        THEN [B[k] EXCEPT !.local = @ - used[k], !.fd = @ - used[k]]
        ELSE B[k]]

mergedValue(ks) ==
    LET vs == {bb[k].store : k \in ks}
    IN IF Cardinality(vs) = 1 THEN CHOOSE v \in vs : TRUE ELSE Top

\* The block takes the merged stores, and with them one reference to each.
takeStores(B, k, v) == refStores([B EXCEPT ![k].in = v, ![k].store = v], k, 1)

\* f, and g where f is not defined (both bound as one value, for TLC to evaluate them once).
extend(f, g) ==
    CHOOSE h \in {[x \in DOMAIN p[1] \cup DOMAIN p[2] |->
                      IF x \in DOMAIN p[1] THEN p[1][x] ELSE p[2][x]] : p \in {<<f, g>>}} : TRUE

newBlock(s) == [alive |-> {}, status |-> s, in |-> NoStore, store |-> NoStore,
                result |-> NoStore, local |-> 0, fd |-> 0]

-----------------------------------------------------------------------------
(* Running a block.                                                         *)

isInvoke(b) == \E e \in Exceptional : e[1] = b

\* The block's instructions, up to a call that cannot return if there is one.
bails(b, v) == v \in Values /\ v \in prog.exits[b]

\* A block that assigns a constant makes the cell known again.
outcome(b, v) ==
    IF v \in Values THEN prog.step[b][v]
    ELSE IF Cardinality(Range(prog.step[b])) = 1 THEN CHOOSE w \in Range(prog.step[b]) : TRUE
    ELSE Top

\* The edges that evaluating b's terminator sets alive.  setEdgeAlive marks every
\* copy of an edge.
checkBlockOutgoingEdges(b, v) ==
    LET out == outcome(b, v) IN
    IF isInvoke(b) THEN (IF bails(b, v) THEN {} ELSE {1}) \cup {2}
    ELSE IF bails(b, v) \/ Succs[b] = << >> THEN {}
    ELSE IF out = Top THEN DOMAIN Succs[b]
    ELSE copies(b, Succs[b][prog.branch[b][out]])

\* analyseBlockInstructions and tryEvaluateTerminator for block b of context c, whose
\* stores hold v.  B is the blocks so far.  The result: the blocks, the edges now
\* pending, and whether anything changed.
analyseBlockInstructions(B, c, b, v) ==
    LET k == <<c, b>>
        stops == bails(b, v)
        out == IF stops THEN NoStore ELSE outcome(b, v)
        now == B[k].alive \cup checkBlockOutgoingEdges(b, v)
        live == {p \in now : ~stops /\ ~edgeBranchesToUnspecialisedCode(b, Succs[b][p])}
        anyChange == now # B[k].alive
        uniqueSucc == Cardinality({Succs[b][p] : p \in now}) = 1
        status(y) == IF B[k].status # "UNKNOWN" /\ uniqueSucc THEN B[k].status
                     ELSE IF <<b, y>> \in AssumeEdges THEN "ASSUMED"
                     ELSE "UNKNOWN"
        created == {<<getIAForScope(c, Succs[b][p]), Succs[b][p]>> : p \in live} \ DOMAIN B
        ran == [B EXCEPT ![k].alive = now, ![k].store = out, ![k].result = out]
        kept == IF b \in Returns /\ ~stops THEN 0 ELSE Cardinality(live) - 1
    IN [bb |-> extend(refStores(ran, k, kept),
                      [j \in IF anyChange THEN created ELSE {} |-> newBlock(status(j[2]))]),
        pending |-> Cardinality(live),
        changed |-> anyChange \/ out # B[k].result]

-----------------------------------------------------------------------------
(* The activations.  analyse: a context's blocks from i on.  peel: the     *)
(* iterations of loop l, the last of them i.  loop: a round of the fixed   *)
(* point of loop l, whose blocks from i on are still to be analysed.       *)

analyseFrame(c, i) == [op |-> "analyse", c |-> c, l |-> scope(c), i |-> i, changed |-> FALSE]

peelFrame(c, l, i) == [op |-> "peel", c |-> c, l |-> l, i |-> i, changed |-> FALSE]

\* i = 0: no round has begun.  first and ever are analyseLoop's firstIter and
\* everChanged, nested its nestedLoop.
loopFrame(c, l, nested) ==
    [op |-> "loop", c |-> c, l |-> l, i |-> 0, changed |-> TRUE,
     first |-> TRUE, ever |-> FALSE, nested |-> nested]

top == Last(stack)

replaceTop(f) == stack' = Append(Front(stack), f)

running(op) == stack # << >> /\ top.op = op

lastBlock(l) == IF l = 0 THEN Max(Blocks) ELSE LoopEnd[l]

\* The blocks the activation has still to look at.
ahead == {b \in top.i..lastBlock(top.l) : <<top.c, b>> \in DOMAIN bb}

inLoopAnalyser == top.op = "loop"

walking == /\ running("analyse") \/ (running("loop") /\ top.i # 0)
           /\ ahead # {}

\* The activation's next block is b.
at(b) == walking /\ b = Min(ahead)

firstBlock(l) == IF l = 0 THEN 1 ELSE l

\* Block b ran: the activation goes on to the next block.
advance(b, changed) == replaceTop([top EXCEPT !.i = b + 1, !.changed = @ \/ changed])

\* The header of a context or of a round has its stores already (skipStoreMerge).
analyseHeader(b) ==
    /\ at(b)
    /\ b = firstBlock(top.l)
    /\ LET r == analyseBlockInstructions(bb, top.c, b, bb[<<top.c, b>>].in) IN
       /\ bb' = r.bb
       /\ ctx' = [ctx EXCEPT ![top.c].pending = @ + r.pending]
       /\ advance(b, r.changed)
    /\ UNCHANGED <<prog, entry, retained>>

\* Mutant: the last pending edge is overlooked.
checkBlockStatus_early(c, b) ==
    LET in == {x \in predIdxs(b) :
                  ~edgeIsDead(c, x, b) /\ ~edgeBranchesToUnspecialisedCode(x, b)}
        pending == ctx[c].pending - Cardinality(edgeCopies(in \X {b}))
    IN [pending |-> pending,
        status |-> IF pending <= 1 /\ ~inLoopAnalyser
                   THEN bb[<<c, firstBlock(scope(c))>>].status
                   ELSE bb[<<c, b>>].status]

\* checkBlockStatus: the edges into b are no longer pending, and if no other is, the
\* block is as sure to be reached as the context's first.
checkBlockStatus(c, b) ==
    LET in == {x \in predIdxs(b) :
                  ~edgeIsDead(c, x, b) /\ ~edgeBranchesToUnspecialisedCode(x, b)}
        pending == ctx[c].pending - Cardinality(edgeCopies(in \X {b}))
    IN [pending |-> pending,
        status |-> IF pending = 0 /\ ~inLoopAnalyser
                   THEN bb[<<c, firstBlock(scope(c))>>].status
                   ELSE bb[<<c, b>>].status]

analyseBlock(b) ==
    /\ at(b)
    /\ b # firstBlock(top.l)
    /\ naturalScope(b) = top.l
    /\ LET c == top.c
           k == <<c, b>>
           s == checkBlockStatus(c, b)
           used == visitNormalPredecessorsBW(c, b)
           marked == [bb EXCEPT ![k].status = s.status]
           v == mergedValue(DOMAIN used)
           r == analyseBlockInstructions(takeStores(dropReferences(marked, used), k, v), c, b, v)
       IN IF DOMAIN used = {}
          THEN /\ bb' = [marked EXCEPT ![k].store = NoStore]
               /\ ctx' = [ctx EXCEPT ![c].pending = s.pending]
               /\ advance(b, FALSE)
          ELSE /\ bb' = r.bb
               /\ ctx' = [ctx EXCEPT ![c].pending = s.pending + r.pending]
               /\ advance(b, r.changed)
    /\ UNCHANGED <<prog, entry, retained>>

-----------------------------------------------------------------------------
(* Peeled loops.                                                            *)

\* Create iteration i of loop l in context c: createEntryBlock and getInitialStore.
\* src is the block whose stores the header takes: the preheader's or the last
\* iteration's latch.
iterationSource(c, l, i) == IF i = 0 THEN <<c, preheaderIdx(l)>>
                            ELSE <<iteration(c, l, i - 1), latchIdx(l)>>

entryBlockIsCertain(c, l, i) ==
    /\ bb[iterationSource(c, l, i)].status = "CERTAIN"
    /\ i > 0 => allExitEdgesDead(iteration(c, l, i - 1))

beginIteration(B, c, l, i) ==
    LET d == iteration(c, l, i)
        k == <<d, l>>
        src == iterationSource(c, l, i)
        status == IF entryBlockIsCertain(c, l, i) THEN "CERTAIN" ELSE "ASSUMED"
        made == extend(refStores(B, src, -1), [j \in {k} |-> newBlock(status)])
    IN /\ bb' = takeStores(made, k, B[src].store)
       /\ ctx' = extend(ctx, [x \in {d} |-> [pending |-> 0, final |-> FALSE]])

\* getOrCreatePeelAttempt: the loop is worth exploring if its preheader is sure, or
\* assumed, to run and there are not too many contexts already.
mayPeel(c, l) ==
    /\ MaxContexts # 0 => Cardinality(DOMAIN ctx) <= MaxContexts
    /\ bb[<<c, preheaderIdx(l)>>].status \in {"CERTAIN", "ASSUMED"}

\* Mutant: the preheader keeps no reference.
enterPeel_unref(l) ==
    /\ at(l)
    /\ l # top.l /\ l \in Loops
    /\ ~inLoopAnalyser /\ mayPeel(top.c, l)
    /\ beginIteration(bb, top.c, l, 0)
    /\ stack' = stack \o <<peelFrame(top.c, l, 0), analyseFrame(iteration(top.c, l, 0), l)>>
    /\ UNCHANGED <<prog, entry, retained>>

\* analyseBlock at a loop's header: explore its iterations.  The preheader keeps a
\* reference in case that does not settle the loop.
enterPeel(l) ==
    /\ at(l)
    /\ l # top.l /\ l \in Loops
    /\ ~inLoopAnalyser /\ mayPeel(top.c, l)
    /\ beginIteration(refStores(bb, <<top.c, preheaderIdx(l)>>, 1), top.c, l, 0)
    /\ stack' = stack \o <<peelFrame(top.c, l, 0), analyseFrame(iteration(top.c, l, 0), l)>>
    /\ UNCHANGED <<prog, entry, retained>>

\* Otherwise look for a fixed point at once.
enterLoop(l) ==
    /\ at(l)
    /\ l # top.l /\ l \in Loops
    /\ inLoopAnalyser \/ ~mayPeel(top.c, l)
    /\ stack' = Append(stack, loopFrame(top.c, l, inLoopAnalyser))
    /\ UNCHANGED <<prog, entry, bb, ctx, retained>>

\* A context's last block is done.
endContext ==
    /\ running("analyse") /\ ahead = {}
    /\ Len(stack) > 1
    /\ stack' = Front(stack)
    /\ UNCHANGED <<prog, entry, bb, ctx, retained>>

\* getOrCreateNextIteration, asked of iteration d of loop l.
willIterate(d, l) ==
    LET told == \/ l \in AlwaysIterate
                \/ /\ l \in DOMAIN OptimisticEdge
                   /\ edgeIsDead(d, OptimisticEdge[l][1], OptimisticEdge[l][2])
    IN IF told THEN ~edgeIsDead(d, latchIdx(l), l) ELSE allExitEdgesDead(d)

\* The latch the next iteration starts from was reached, and holds its stores.
latchReached(c, l, i) ==
    LET latch == iterationSource(c, l, i + 1) IN
    latch \in DOMAIN bb /\ bb[latch].store # NoStore

\* If the latch was not reached the evaluator reads through a null pointer, and this
\* is as far as it gets.
nextIteration ==
    /\ running("peel")
    /\ top.i < MaxIter
    /\ willIterate(iteration(top.c, top.l, top.i), top.l)
    /\ latchReached(top.c, top.l, top.i)
    /\ beginIteration(bb, top.c, top.l, top.i + 1)
    /\ stack' = Front(stack) \o
                  <<[top EXCEPT !.i = @ + 1],
                    analyseFrame(iteration(top.c, top.l, top.i + 1), top.l)>>
    /\ UNCHANGED <<prog, entry, retained>>

\* checkFinalIteration.
isFinal(d, l, i) == edgeIsDead(d, latchIdx(l), l) \/ (l \in DOMAIN EndsAfter /\ EndsAfter[l] = i)

\* The activation below goes on after loop l.
leaveLoop(l, changed) ==
    LET below == stack[Len(stack) - 1] IN
    stack' = Append(SubSeq(stack, 1, Len(stack) - 2),
                    [below EXCEPT !.i = LoopEnd[l] + 1, !.changed = @ \/ changed])

\* Mutant: the copies in other contexts are overwritten too.
copyLoopExitingDeadEdges_all(B, c, l) ==
    LET exiting == {e[1] : e \in exitEdges(l)}
        made == extend(B, [k \in {<<c, x>> : x \in exiting} |-> newBlock("UNKNOWN")])
        leaving(x) == {p \in DOMAIN Succs[x] : ~contains(l, Succs[x][p])}
        live(x) == {p \in leaving(x) : ~edgeIsDeadRising(c, x, Succs[x][p])}
    IN [k \in DOMAIN made |->
          IF k[2] \in exiting
          THEN [made[k] EXCEPT !.alive = (@ \ leaving(k[2])) \cup live(k[2])]
          ELSE made[k]]

\* copyLoopExitingDeadEdges: the context's own copy of an exiting block says which
\* edges some iteration leaves by.
copyLoopExitingDeadEdges(B, c, l) ==
    LET exiting == {e[1] : e \in exitEdges(l)}
        made == extend(B, [k \in {<<c, x>> : x \in exiting} |-> newBlock("UNKNOWN")])
        leaving(x) == {p \in DOMAIN Succs[x] : ~contains(l, Succs[x][p])}
        live(x) == {p \in leaving(x) : ~edgeIsDeadRising(c, x, Succs[x][p])}
    IN [k \in DOMAIN made |->
          IF k[1] = c /\ k[2] \in exiting
          THEN [made[k] EXCEPT !.alive = (@ \ leaving(k[2])) \cup live(k[2])]
          ELSE made[k]]

\* The last iteration is sure to leave the loop: its iterations stand for the loop.
\* The preheader's extra reference goes, and the edges that leave the last iteration
\* are pending in the context around it, the edge into the header no longer.
endPeel ==
    /\ running("peel")
    /\ LET c == top.c
           l == top.l
           d == iteration(c, l, top.i)
       IN /\ ~willIterate(d, l)
          /\ isFinal(d, l, top.i)
          /\ bb' = copyLoopExitingDeadEdges(refStores(bb, <<c, preheaderIdx(l)>>, -1), c, l)
          /\ ctx' = [ctx EXCEPT ![c].pending = @ + ctx[d].pending - 1,
                                ![d] = [pending |-> 0, final |-> TRUE]]
          /\ leaveLoop(l, FALSE)
    /\ UNCHANGED <<prog, entry, retained>>

\* dropNonterminatedStoreRefs: the references to the localStore that the iterations
\* hold for their exit edges, and the last one for its latch edge.
dropNonterminatedStoreRefs(c, l, last) ==
    LET exits(k) == {p \in DOMAIN Succs[k[2]] :
                        LET y == Succs[k[2]][p] IN
                        /\ ~contains(l, y)
                        /\ ~edgeBranchesToUnspecialisedCode(k[2], y)
                        /\ \E i \in Iterations(c, l) :
                              k[1] \in visitLoopExitingBlocksBW(iteration(c, l, i), k[2], y)}
        latch == <<iteration(c, l, last), latchIdx(l)>>
    IN [k \in DOMAIN bb |->
          [bb[k] EXCEPT !.local = @ - Cardinality(exits(k)) - (IF k = latch THEN 1 ELSE 0)]]

\* Exploring iterations settled nothing: fall back on a fixed point.
abandonPeel ==
    /\ running("peel")
    /\ LET d == iteration(top.c, top.l, top.i) IN
       ~willIterate(d, top.l) /\ ~isFinal(d, top.l, top.i)
    /\ bb' = dropNonterminatedStoreRefs(top.c, top.l, top.i)
    /\ replaceTop(loopFrame(top.c, top.l, FALSE))
    /\ UNCHANGED <<prog, entry, ctx, retained>>

-----------------------------------------------------------------------------
(* The fixed point of a loop's body: analyseLoop.                           *)

latchAlive(c, l) == ~edgeIsDead(c, latchIdx(l), l)

betweenRounds == running("loop") /\ (top.i = 0 \/ ahead = {})

\* Mutant: one round is taken for enough.
anotherRound_once == top.changed /\ top.first

\* Mutant: going round is not tied to a change.
anotherRound_always == top.first \/ latchAlive(top.c, top.l)

\* Once round at least; then again while the last round changed something and the
\* latch edge is alive.
anotherRound == top.changed /\ (top.first \/ latchAlive(top.c, top.l))

\* Mutant: an exit edge to unspecialised code is taken to hold a reference.
liveExits_all(c, l) == {e \in exitEdges(l) : ~edgeIsDead(c, e[1], e[2])}

\* The exit edges, whose references and pending counts the last round left.
liveExits(c, l) == {e \in exitEdges(l) :
                       ~edgeIsDead(c, e[1], e[2]) /\ ~edgeBranchesToUnspecialisedCode(e[1], e[2])}

\* Start a round: take back what the last one gave to the exit edges, and merge the
\* latch's store (of the last round, or kept from an earlier visit to this loop) with
\* the preheader's into the header.
loopRound ==
    /\ betweenRounds /\ anotherRound
    /\ LET c == top.c
           l == top.l
           header == <<c, l>>
           preheader == <<c, preheaderIdx(l)>>
           latch == <<c, latchIdx(l)>>
           exits == IF top.first THEN {} ELSE liveExits(c, l)
           left(x) == {e \in exits : e[1] = x}
           count(E) == Cardinality(edgeCopies(E))
           dropped == [k \in {<<c, e[1]>> : e \in exits} |-> count(left(k[2]))]
           merged == {preheader} \cup
                     (IF ~top.first \/ <<c, l>> \in retained THEN {latch} ELSE {})
           kept == dropReferences(refStores(bb, preheader, 1), dropped)
       IN /\ bb' = takeStores(dropReferences(kept, [k \in merged |-> 1]),
                              header, mergedValue(merged))
          /\ ctx' = [ctx EXCEPT ![c].pending = @ - count(exits) - 1]
          /\ replaceTop([top EXCEPT !.i = l, !.first = FALSE, !.changed = FALSE,
                                    !.ever = @ \/ (top.i # 0 /\ top.changed)])
    /\ UNCHANGED <<prog, entry, retained>>

\* Mutant: what the loops inside retained is never released.
releaseLatchStores_none(c, l) == {}

\* releaseLatchStores: the latch stores that the loops in l retained.
releaseLatchStores(c, l) == {r \in retained : r[1] = c /\ contains(l, r[2])}

\* Nothing changed, or the latch edge is dead.  The references held for another round
\* go; a loop within a loop keeps its latch's for the next round of the loop around
\* it, and the outermost releases what those inside it kept.
endLoop ==
    /\ betweenRounds /\ ~anotherRound
    /\ LET c == top.c
           l == top.l
           live == latchAlive(c, l)
           released == IF top.nested THEN {} ELSE releaseLatchStores(c, l)
           latches == {<<c, latchIdx(r[2])>> : r \in released} \cup
                      (IF live /\ ~top.nested THEN {<<c, latchIdx(l)>>} ELSE {})
       IN /\ bb' = dropReferences(refStores(bb, <<c, preheaderIdx(l)>>, -1),
                                  [k \in latches |-> 1])
          /\ ctx' = [ctx EXCEPT ![c].pending = @ - (IF live THEN 1 ELSE 0)]
          /\ retained' = IF top.nested
                         THEN retained \cup (IF live THEN {<<c, l>>} ELSE {})
                         ELSE retained \ released
          /\ leaveLoop(l, top.ever \/ top.changed)
    /\ UNCHANGED <<prog, entry>>

-----------------------------------------------------------------------------
(* What the function does when it runs: the reference the evaluation is    *)
(* held to.  A state is a block about to run and the cell's value.         *)

\* The edges a block may leave by, and the value it leaves with.
moves(s) ==
    IF s[2] \in prog.exits[s[1]] THEN {}
    ELSE LET step == prog.step[s[1]][s[2]]
             outs == IF step = Top THEN Values ELSE {step}
             edge(w) == IF isInvoke(s[1]) \/ Len(Succs[s[1]]) = 1 THEN 1
                        ELSE prog.branch[s[1]][w]
         IN IF Succs[s[1]] = << >> THEN {} ELSE {<<edge(w), w>> : w \in outs}

follow(s) == {<<Succs[s[1]][m[1]], m[2]>> :
                 m \in {n \in moves(s) : <<s[1], Succs[s[1]][n[1]]>> \notin Ignored}}

begin == IF entry = Top THEN {<<1, v>> : v \in Values} ELSE {<<1, entry>>}

\* A run that takes more steps comes back to a state it was in.
Horizon == Cardinality(Blocks \X Values)

\* The states a run that does not go beyond block b can be in.
reached(b) ==
    LET more[n \in 0..Horizon] ==
            IF n = 0 THEN begin
            ELSE LET before == more[n - 1] IN
                 before \cup UNION {follow(s) : s \in {t \in before : t[1] # b}}
    IN more[Horizon]

\* A run that comes to go round for ever on known values is explored for ever: such a
\* function is not one LLPE can be given.
halts ==
    LET after[n \in 0..Horizon] ==
            IF n = 0 THEN Blocks \X Values
            ELSE UNION {follow(s) : s \in {t \in after[n - 1] : prog.step[t[1]][t[2]] # Top}}
    IN after[Horizon] = {}

-----------------------------------------------------------------------------
\* The return blocks that were made, whether they were abandoned or not.
visitLiveReturnBlocks == {k \in DOMAIN bb : k[2] \in Returns}

\* Whether the stores of the blocks in K can be merged: doMerge sorts the pointers and,
\* when they differ, reads the reference count behind each, the null one's first.
mergeable(K) == \A j, k \in K : bb[j].store = NoStore => bb[k].store = NoStore

\* The function's last block is done: the caller merges the stores at its returns
\* (doCallStoreMerge).  If they cannot be merged the evaluator reads through a null
\* pointer, and this is as far as it gets; with one return block they always can.
callReturn ==
    /\ running("analyse") /\ ahead = {}
    /\ Len(stack) = 1
    /\ mergeable(visitLiveReturnBlocks)
    /\ bb' = dropReferences(bb, [k \in {j \in visitLiveReturnBlocks : bb[j].store # NoStore} |-> 1])
    /\ stack' = << >>
    /\ UNCHANGED <<prog, entry, ctx, retained>>

Init ==
    /\ prog \in Programs
    /\ entry \in Values \cup {Top}
    /\ halts
    /\ bb = [k \in {<<<< >>, 1>>} |-> [newBlock("CERTAIN") EXCEPT !.in = entry, !.store = entry,
                                                                !.local = 1, !.fd = 1]]
    /\ ctx = [c \in {<< >>} |-> [pending |-> 0, final |-> FALSE]]
    /\ retained = {}
    /\ stack = <<analyseFrame(<< >>, 1)>>

Next ==
    \/ \E b \in Blocks : analyseHeader(b) \/ analyseBlock(b)
    \/ \E l \in Loops : enterPeel(l) \/ enterLoop(l)
    \/ endContext \/ nextIteration \/ endPeel \/ abandonPeel
    \/ loopRound \/ endLoop \/ callReturn

Spec == Init /\ [][Next]_vars

\* The evaluator is one thread that runs to the end.
FairSpec == Spec /\ WF_vars(Next)

-----------------------------------------------------------------------------
(* Properties.                                                              *)

done == stack = << >>

\* The evaluator's structures are well formed: a block is made only in a context whose loop
\* it is in, live edges are edges, retained latch stores are of loops, counts numbers.
TypeOK ==
    /\ entry \in Values \cup {Top}
    /\ DOMAIN bb \subseteq (DOMAIN ctx) \X Blocks
    /\ \A k \in DOMAIN bb :
          /\ contains(scope(k[1]), k[2])
          /\ bb[k].alive \subseteq DOMAIN Succs[k[2]]
          /\ bb[k].status \in {"UNKNOWN", "CERTAIN", "ASSUMED"}
          /\ {bb[k].in, bb[k].store, bb[k].result} \subseteq Values \cup {Top, NoStore}
          /\ bb[k].local \in Int /\ bb[k].fd \in Int
    /\ \A c \in DOMAIN ctx : ctx[c].pending \in Int /\ ctx[c].final \in BOOLEAN
    /\ retained \subseteq (DOMAIN ctx) \X Loops
    /\ \A f \in Range(stack) : f.c \in DOMAIN ctx /\ f.op \in {"analyse", "peel", "loop"}

\* No store is used after its last reference went: at every merge, every drop and every
\* take-over (derefStores, doMerge, takeStoresFrom) the block whose pointer is used still
\* accounts for the references taken away, whatever mixture of explored iterations,
\* abandoned explorations, rounds and nested loops came before; and no block is run on the
\* null store of a predecessor that was abandoned.
NeverOverdrawn == \A k \in DOMAIN bb :
    /\ bb[k].local >= 0 /\ bb[k].fd >= 0
    /\ bb[k].in = NoStore => bb[k].result = NoStore

\* The assertions "pendingEdges falling below zero" (checkBlockStatus), "Reducing pending
\* edges below zero" and "Decrementing pendingEdges below zero" (analyseLoop) never fail,
\* nor does its last, unchecked decrement wrap round.
PendingNeverNegative == \A c \in DOMAIN ctx : ctx[c].pending >= 0

\* When the caller has merged the returns' stores nobody holds a reference to any store
\* of the callee, no latch store is still retained for a loop around, and no edge of the
\* function is pending, so that it can be analysed again in the next round of a loop
\* around the call.  The file-descriptor stores are released with the others, unless an
\* exploration was given up: dropNonterminatedStoreRefs forgets them.
NothingHeldAtTheEnd ==
    LET gaveUp == \E c \in DOMAIN ctx, l \in Loops : Iterations(c, l) # {} /\ ~isTerminated(c, l)
    IN done => /\ \A k \in DOMAIN bb : bb[k].local = 0 /\ (bb[k].fd = 0 \/ gaveUp)
               /\ retained = {}
               /\ ctx[<< >>].pending = 0

\* An iteration is begun only from a latch that was reached: getInitialStore takes the
\* stores of the last iteration's latch block, and entryBlockIsCertain reads its status.
\* Said of functions all of whose calls return: getOrCreateNextIteration overlooks that
\* one that does not return leaves all exit edges dead without reaching the latch.
NextIterationHasLatch ==
    /\ \A b \in Blocks : prog.exits[b] = {}
    /\ running("peel")
    /\ willIterate(iteration(top.c, top.l, top.i), top.l)
    => latchReached(top.c, top.l, top.i)

\* The context is an iteration, or lies within one, of a loop that was shown to end.
settled(d) == \E n \in 1..Len(d) : isTerminated(SubSeq(d, 1, n - 1), d[n][1])

\* All there is to block k but its references.
known(B, k) == <<B[k].alive, B[k].status, B[k].in, B[k].store, B[k].result>>

\* What a settled iteration was found to do stands: no later step adds blocks to it, runs
\* one again, or changes what is known of one; its stores' references are all that still
\* moves.  The walkers (visitLoopExitingBlocksBW, edgeIsDeadRising, doMerge) go on reading
\* the settled iterations for as long as the contexts around them are analysed.
SettledIterationsStand ==
    [][\A d \in DOMAIN ctx : settled(d) =>
          /\ ctx'[d] = ctx[d] /\ settled(d)'
          /\ \A b \in Blocks :
                LET k == <<d, b>> IN
                /\ k \in DOMAIN bb' <=> k \in DOMAIN bb
                /\ k \in DOMAIN bb => known(bb', k) = known(bb, k)]_vars

covers(a, v) == a = Top \/ a = v

\* The contexts whose copy of block b stands for it in the specialised program: the
\* iterations of a loop that was shown to end, the enclosing context otherwise.
hosts(b) ==
    {c \in DOMAIN ctx :
        /\ <<c, b>> \in DOMAIN bb
        /\ contains(scope(c), b)
        /\ \A n \in 1..Len(c) : isTerminated(SubSeq(c, 1, n - 1), c[n][1])
        /\ naturalScope(b) # scope(c) => ~isTerminated(c, immediateChildLoop(c, b))}

\* Soundness of partial evaluation: whatever block the function can run, with whatever
\* value, some copy of the block in the specialised program was analysed with a store
\* that allows that value, and every edge the function can then take is alive in it.
EveryRunCovered ==
    done => \A s \in reached(0) :
               \E c \in hosts(s[1]) :
                  /\ covers(bb[<<c, s[1]>>].in, s[2])
                  /\ \A m \in moves(s) : m[1] \in bb[<<c, s[1]>>].alive

certain(b) == <<<< >>, b>> \in DOMAIN bb /\ bb[<<<< >>, b>>].status = "CERTAIN"

\* A block marked BBSTATUS_CERTAIN cannot be bypassed: no run gets to a return without
\* having been there.
CertainOnEveryReturn ==
    done => \A b \in Blocks : certain(b) =>
               ~\E s \in reached(b) : s[1] # b /\ s[1] \in Returns

\* The evaluation of a function that halts comes to an end: exploring its loops stops,
\* and so does the search for fixed points.
Terminates == <>done
=============================================================================
