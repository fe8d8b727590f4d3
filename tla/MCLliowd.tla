------------------------------ MODULE MCLliowd ------------------------------
(* Two configured programs over two files, one of them shared; a client of *)
(* each and one of a program the configuration does not name.              *)
EXTENDS Lliowd, TLC

CONSTANTS f1, f2, c1, c2

MCPaths == {f1, f2}
P(n) == [kind |-> "prog", name |-> n, form |-> "ok"]
F(p) == [kind |-> "file", name |-> p, form |-> "ok"]
B(p, b) == [F(p) EXCEPT !.form = b]

(* Good configurations, and malformed ones: a file line first, a line that *)
(* does not split, a hash of the wrong length, a program named twice; and  *)
(* one that does not know a client's program.                              *)
MCConfigs == { << P("A"), F(f1), F(f2), P("B"), F(f2) >>,
               << P("B"), F(f2), P("A"), F(f1), P("A") >>,
               << F(f1), P("A") >>,
               << P("A"), F(f1), B(f2, "badline") >>,
               << P("A"), B(f1, "badhash"), P("B"), F(f2) >>,
               << P("B"), F(f2) >> }
MCClients == {c1, c2}
MCExeOf == c1 :> "A" @@ c2 :> "B"

(* One program, one file, both clients its own.                            *)
OneConfig == { << P("A"), F(f1) >> }
OnePath == {f1}
OneExeOf == c1 :> "A" @@ c2 :> "A"

InodeSymmetry == Permutations(Inodes)
=============================================================================
