-------------------------- MODULE MCSpecialisedRun --------------------------
(***************************************************************************)
(* Small functions for SpecialisedRun: x and y are known to the analysis,  *)
(* u is not.                                                               *)
(***************************************************************************)
EXTENDS SpecialisedRun

Full == {0, 1}
ld(o)      == [kind |-> "load", obj |-> o, bytes |-> Full]
ldByte(o)  == [kind |-> "load", obj |-> o, bytes |-> {0}]
st(o)      == [kind |-> "store", obj |-> o, bytes |-> Full]
stByte(o)  == [kind |-> "store", obj |-> o, bytes |-> {1}]
ordered(o) == [kind |-> "ordered", obj |-> o, bytes |-> Full]
copy(o, d) == [kind |-> "copy", obj |-> o, to |-> d, bytes |-> Full]
asserted(o) == [kind |-> "pathCondition", obj |-> o, bytes |-> Full]
lock(o)    == [kind |-> "lock", obj |-> o]
free(o)    == [kind |-> "free", obj |-> o]
ldAny      == [kind |-> "loadAny"]
fence      == [kind |-> "fence"]
enter      == [kind |-> "enter"]
leave(of)  == [kind |-> "leave", of |-> of]
write(o)   == [kind |-> "syscall", args |-> <<"scalar", o>>]   \* write(fd, o, ...)
puts(o)    == [kind |-> "syscall", args |-> <<o>>]

Seqs(S, n) == [1..n -> S]
Maybe(S)   == {<<>>} \cup {<<s>> : s \in S}

(* All functions of a shape with blocks' operations from sets of           *)
(* sequences, and all choices of a target for merges (a loop header has    *)
(* its store from one block).                                              *)
Tuples(S) == LET T[n \in 0..Len(S)] ==
                   IF n = 0 THEN {<<>>} ELSE {Append(t, e) : t \in T[n - 1], e \in S[n]}
             IN  T[Len(S)]
Shaped(succ, loops, ops) ==
    LET into(b) == {q \in 1..b-1 : b \in succ[q]}
    IN  [succ : {succ}, loops : {loops}, ops : Tuples(ops),
         target : Tuples([b \in 1..Len(succ) |-> IF b = 1 THEN {0} ELSE into(b)])]

Accesses(o, x) == \/ o.kind \in {"load", "store", "lock", "free"} /\ o.obj = x
                  \/ o.kind = "syscall" /\ \E i \in DOMAIN o.args : o.args[i] = x
                  \/ o.kind = "loadAny"
Line == {p \in Shaped(<<{}>>, {},
                  <<Seqs({fence, lock("x"), ldByte("x"), ld("x"), stByte("x"), st("x"),
                          ldByte("u"), st("u"), ldAny, puts("u"), free("u")}, 4)>>) :
           \A i, j \in 1..4 : i < j /\ p.ops[1][i] = free("u") => ~Accesses(p.ops[1][j], "u")}

(* Code that is left unspecialised, a call or a loop.                      *)
Regions ==
    Shaped(<<{}>>, {},
       <<{a \o <<enter>> \o b \o <<leave(of)>> \o c :
            a \in Seqs({fence, lock("x"), ordered("x"), ld("x"), st("x")}, 2),
            b \in {<<ld("x")>>, <<st("x")>>, <<ld("x"), st("y")>>, <<fence, ld("x"), st("y")>>,
                   <<ordered("x")>>},
            of \in {"call", "loop"},
            c \in Seqs({ld("x"), ldByte("y"), st("x")}, 2)}>>)

Arm == Maybe({ldByte("x"), ld("x"), fence, lock("x"), ld("u")})
       \cup {<<enter, ld("x"), leave("call")>>}
Diamond ==
    Shaped(<<{2, 3}, {4}, {4}, {}>>, {},
       <<Seqs({fence, lock("x"), st("x"), st("u")}, 2), Arm, Arm,
         {<<asserted("x"), ld("x")>>, <<ld("x"), st("u")>>, <<ldByte("x"), ld("x")>>, <<ld("u"), st("u")>>, <<st("x"), ld("x")>>}>>)

(* A loop's second pass over its stores does not see fences.               *)
Stores(p, B)  == \E b \in B : \E i \in DOMAIN p.ops[b] : p.ops[b][i].kind = "store"
Yields(p, B)  == \E b \in B : \E i \in DOMAIN p.ops[b] : p.ops[b][i].kind \in {"fence", "lock"}
LoopsFit(P, B) == {p \in P : ~(Stores(p, B) /\ Yields(p, B))}

Body == Maybe({ld("x"), st("x"), st("u"), fence, lock("x"), ld("u"), asserted("x")})
Rotated ==
    LoopsFit(Shaped(<<{2}, {3}, {2, 4}, {}>>,
                 {[header |-> 2, latch |-> 3, preheader |-> 1, last |-> 3]},
                 <<Maybe({fence, lock("x"), st("x"), st("u")}), Body, Body,
                   Seqs({ld("x"), ld("u"), st("u"), st("x")}, 2)>>), {2, 3})

Nested ==
    LoopsFit(Shaped(<<{2}, {3}, {3, 4}, {2, 5}, {}>>,
                 {[header |-> 2, latch |-> 4, preheader |-> 1, last |-> 4],
                  [header |-> 3, latch |-> 3, preheader |-> 2, last |-> 3]},
                 <<Maybe({fence, st("u")}), Body, Body, Body, {<<ld("x"), st("u")>>}>>), {2, 3, 4})

DiamondInLoop ==
    LoopsFit(Shaped(<<{2}, {3, 4}, {5}, {5}, {2, 6}, {}>>,
                 {[header |-> 2, latch |-> 5, preheader |-> 1, last |-> 5]},
                 <<{<<fence>>, <<st("u")>>}, {<<>>, <<st("u")>>, <<ld("x")>>},
                   Maybe({ld("x"), fence, ld("u")}), Maybe({ld("x"), lock("x")}), Body,
                   {<<ld("x"), st("u")>>}>>), {2, 3, 4, 5})

(* A loop whose latch edge was found dead.                                 *)
Once == Shaped(<<{2}, {3}, {4}, {}>>, {[header |-> 2, latch |-> 3, preheader |-> 1, last |-> 3]},
                  <<Maybe({fence, st("u")}), Maybe({ld("x"), st("u")}), Maybe({fence, ld("u"), ordered("x")}),
                    {<<ld("x"), st("u")>>}>>)

(* Copies of what is known to be good.                                     *)
GoodCopies ==
    Shaped(<<{}>>, {}, <<{a \o <<b, copy("x", "y")>> \o c :
                            a \in Seqs({fence, lock("x"), lock("y"), st("y")}, 2), b \in {ld("x"), st("x")},
                            c \in Seqs({ld("x"), ld("y"), st("y"), fence}, 2)}>>)

AllPrograms == Line \cup GoodCopies \cup Regions \cup Diamond \cup Rotated \cup Nested \cup DiamondInLoop \cup Once

(* Functions that the code gets wrong: copies of what another thread may   *)
(* have written, stores on one side of a branch, system calls whose first  *)
(* argument is not a pointer, loops with an exit at the top.               *)
Copies == Shaped(<<{}>>, {}, <<{<<fence, copy("x", "y"), ld("x")>>}>>)
Sides  == Shaped(<<{2, 3}, {4}, {4}, {}>>, {}, <<{<<>>}, {<<st("u")>>}, {<<>>}, {<<ld("u"), st("u")>>}>>)
Writes == Shaped(<<{}>>, {}, <<{<<st("u"), write("u"), st("u")>>}>>)
While  == Shaped(<<{2}, {3, 4}, {2}, {}>>, {[header |-> 2, latch |-> 3, preheader |-> 1, last |-> 3]},
                  <<{<<fence>>}, {<<>>}, {<<ld("x")>>}, {<<ld("x")>>}>>)
=============================================================================
