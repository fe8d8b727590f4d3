------------------------------ MODULE MCVFSOps ------------------------------
(* Small functions for VFSOps.                                             *)
EXTENDS VFSOps

file == 2       \* the first descriptor that is opened, and the second
also == 3

open(f)        == [kind |-> "open", fd |-> f, file |-> "regular"]
device(f)      == [kind |-> "open", fd |-> f, file |-> "other"]
close(f)       == [kind |-> "close", fd |-> f]
read(f, n)     == [kind |-> "read", fd |-> f, size |-> n]
seek(f, w, n)  == [kind |-> "seek", fd |-> f, whence |-> w, off |-> n]
tell(f)        == seek(f, "cur", 0)
rewind(f)      == seek(f, "set", 0)
toEnd(f)       == seek(f, "end", 0)
readAny        == [kind |-> "readAny"]
call           == [kind |-> "call"]

Tuples(S) == LET T[n \in 0..Len(S)] ==
                   IF n = 0 THEN {<<>>} ELSE {Append(t, e) : t \in T[n - 1], e \in S[n]}
             IN  T[Len(S)]
Maybe(S)  == {<<>>} \cup {<<s>> : s \in S}
Shaped(succ, loops, ops) ==
    [succ : {succ}, loops : {loops}, ops : Tuples(ops), target : {[b \in 1..Len(succ) |-> 0]}]

ClosedOnce(s) == \A i \in DOMAIN s : s[i].kind = "close" => i = Len(s)

back(f) == seek(f, "cur", Wide - 1)         \* by one

Calls(f) == {read(f, 1), read(f, 3), read(f, Unknown), tell(f), rewind(f), seek(f, "set", 2),
             toEnd(f), seek(f, "set", Unknown), back(f), close(f)}
Line == Shaped(<<{}>>, {},
          <<{s \in {<<open(file)>> \o t : t \in [1..4 -> Calls(file) \cup {call, readAny}]} :
               ClosedOnce(s)}>>)

(* Two files, or a file and a device, in one table.                        *)
Two == Shaped(<<{}>>, {},
          <<{<<open(file)>> \o s \o <<o>> \o t :
               s \in Maybe({read(file, 1), read(file, Unknown), call}), o \in {open(also), device(also)},
               t \in [1..3 -> {read(also, 1), rewind(file), tell(also), call, seek(also, "cur", 1)}]}>>)

(* Where paths meet, the position may be settled again before it is used.  *)
Arms == Maybe({read(file, 1), read(file, Unknown), rewind(file), toEnd(file), call,
              seek(file, "set", 1)})
       \cup {<<rewind(file), read(file, 1)>>}
Meet == {<<rewind(file), read(file, 1), read(file, 1)>>, <<tell(file)>>,
         <<toEnd(file), read(file, 1)>>, <<read(file, Unknown), rewind(file), read(file, 3)>>,
         <<call, read(file, 1), tell(file)>>, <<read(file, 1), rewind(file), read(file, 1)>>}
Diamond ==
    Shaped(<<{2, 3}, {4}, {4}, {}>>, {},
           <<{<<open(file)>> \o s : s \in Maybe({read(file, 1), rewind(file), toEnd(file)})},
             Arms \cup {<<open(also), read(also, 1)>>}, Arms, Meet>>)

(* The arms agree on where they end.                                       *)
Agreeing ==
    Shaped(<<{2, 3}, {4}, {4}, {}>>, {},
           <<{<<open(file)>>}, {<<read(file, 1)>>, <<rewind(file), read(file, 1)>>},
             {<<seek(file, "set", 1)>>, <<tell(file), read(file, 1)>>},
             {<<read(file, 1), tell(file)>>, <<tell(file), read(file, 3)>>}>>)

Loop ==
    Shaped(<<{2}, {3}, {2, 4}, {}>>,
           {[header |-> 2, latch |-> 3, preheader |-> 1, last |-> 3]},
           <<{<<open(file)>> \o s : s \in Maybe({read(file, 1), toEnd(file)})},
             Maybe({tell(file), call, read(file, Unknown)})
                \cup {<<rewind(file), read(file, 1)>>, <<tell(file), rewind(file), read(file, 3)>>},
             Maybe({tell(file), rewind(file), readAny, toEnd(file), seek(file, "set", 1)}), Meet>>)

AllPrograms == Line \cup Two \cup Diamond \cup Agreeing \cup Loop
=============================================================================
