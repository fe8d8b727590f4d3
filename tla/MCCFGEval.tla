----------------------------- MODULE MCCFGEval -----------------------------
(* Small functions for CFGEval.                                             *)
EXTENDS CFGEval

Cell == {0, 1}

\* A function without options or unusual edges.
Plain(succs, loopEnd, returns) ==
    [succs |-> succs, loopEnd |-> loopEnd, returns |-> returns, ignored |-> {},
     exceptional |-> {}, assumeEdges |-> {}, alwaysIterate |-> {},
     optimisticEdge |-> << >>, endsAfter |-> << >>, maxContexts |-> 0]

\* Blocks that leave the cell alone, but for the ones listed.
Steps(fn, S) == {[b \in DOMAIN fn.succs |-> IF b \in DOMAIN f THEN f[b] ELSE [v \in Cell |-> v]] :
                   f \in [S -> {[v \in Cell |-> 1], [v \in Cell |-> 1 - v],
                                [v \in Cell |-> IF v = 0 THEN 1 ELSE Top]}]}
Branches(fn, S) == {[b \in DOMAIN fn.succs |-> IF b \in DOMAIN f THEN f[b] ELSE [v \in Cell |-> 1]] :
                   f \in {g \in [S -> [Cell -> 1..3]] :
                             \A b \in S, v \in Cell : g[b][v] <= Len(fn.succs[b])}}
\* At most one block of S may call a function that does not return.
Exits(fn, S) == {[b \in DOMAIN fn.succs |-> IF b = x THEN E ELSE {}] : x \in S, E \in SUBSET Cell}

Behaviours(fn, steps, branches, exits) ==
    [fn : {fn}, step : Steps(fn, steps), branch : Branches(fn, branches), exits : Exits(fn, exits)]

\* A loop of two blocks with an exit from each; the header leaves by a switch with two
\* cases for the same target.
Loop == Plain(<<<<2>>, <<3, 4, 4>>, <<2, 5>>, <<6>>, <<6>>, << >>>>, 2 :> 3, {6})
LoopPrograms == Behaviours(Loop, {3}, {2, 3}, {2, 3, 4})

\* A loop in a loop; the inner one can leave both.  The limit on contexts is reached in
\* the middle of exploring them.
Nest == [Plain(<<<<2>>, <<3>>, <<3, 4, 6>>, <<2, 5>>, <<7>>, <<7>>, << >>>>, (2 :> 4) @@ (3 :> 3), {7})
           EXCEPT !.maxContexts = 3]
NestPrograms == Behaviours(Nest, {3, 4}, {3, 4}, {3, 4})

\* Where all calls return; of the nest, those in which the inner loop may
\* lose the cell's value and the outer one resets it.
LivePrograms == {p \in LoopPrograms \cup NestPrograms :
                    /\ \A b \in DOMAIN p.exits : p.exits[b] = {}
                    /\ p.fn = Nest => p.step[3][1] = Top /\ p.step[4] = [v \in Cell |-> 1]}

\* A branch whose one side may call exit; on the other a loop that can throw.
Call == [Plain(<<<<2, 3>>, <<7>>, <<4>>, <<5, 8>>, <<4, 6>>, <<7>>, << >>, << >>>>, 4 :> 5, {7})
           EXCEPT !.ignored = {<<4, 8>>}, !.exceptional = {<<4, 8>>},
                  !.assumeEdges = {<<1, 3>>}, !.optimisticEdge = 4 :> <<5, 6>>]
CallPrograms == Behaviours(Call, {2, 5}, {1, 5}, {2, 4})

AllPrograms == LoopPrograms \cup NestPrograms \cup CallPrograms
=============================================================================
