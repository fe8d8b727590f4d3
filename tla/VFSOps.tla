------------------------------- MODULE VFSOps -------------------------------
(***************************************************************************)
(* File descriptors (VFSOps.cpp): the analysis follows the position of     *)
(* each descriptor through the function and executes reads and seeks of    *)
(* constant size on files it knows.  What it executed is replaced in the   *)
(* specialised program (emitVFSCall in Save.cpp): a read by a copy of the  *)
(* bytes and a seek to where the read would have ended, after asking the   *)
(* watch daemon whether the files are still the same.                      *)
(*                                                                         *)
(* A table of descriptors (FDStore) is a sequence, stdin the first.        *)
(* Positions are unsigned: Wide stands for 2^64 and Narrow for 2^32.       *)
(*                                                                         *)
(* The analysis may go on from a position it does not know (guesses).  The *)
(* two programs are compared up to the first such call on a path; from     *)
(* there on the specialised program may be wrong, and runs on other data.  *)
(***************************************************************************)
EXTENDS Walk, Integers, FiniteSetsExt

CONSTANTS
    FileSize,       \* of every file
    Wide, Narrow,
    Unknown,        \* an argument whose value the analysis does not know
    Programs,       \* functions to consider, as in Walk
    ElimRedundantChecks

ASSUME FilesAssumption ==
    /\ FileSize \in Nat /\ ElimRedundantChecks \in BOOLEAN
    /\ Narrow \in Nat /\ Wide \in Nat /\ FileSize < Narrow - 1 /\ 2 * Narrow <= Wide
    /\ Unknown \notin Nat

(* What a function does to files.  Sizes and offsets are 64 bits.  The     *)
(* descriptor of readAny is unknown, and call is a call that nothing is    *)
(* known of.                                                               *)
Descriptors == Nat \ {0}
Words == 0 .. Wide - 1
Operations ==
    [kind : {"open"}, fd : Descriptors, file : STRING]
    \cup [kind : {"close"}, fd : Descriptors]
    \cup [kind : {"read"}, fd : Descriptors, size : Words \cup {Unknown}]
    \cup [kind : {"seek"}, fd : Descriptors, whence : {"set", "cur", "end"}, off : Words \cup {Unknown}]
    \cup [kind : {"readAny", "call"}]

ASSUME ProgramsAssumption ==
    \A p \in Programs : /\ 1 \in Blocks(p) /\ DOMAIN p.ops = Blocks(p)
                        /\ \A b \in Blocks(p) : /\ p.ops[b] \in Seq(Operations)
                                                /\ p.succ[b] \subseteq Blocks(p)

VARIABLES
    prog,
    phase,
    resolved,   \* resolvedReadCalls and resolvedSeekCalls
    guesses,    \* calls that the analysis did not know enough of, and took for known
    pc,         \* block, and operation in it
    orig,       \* the descriptors' positions in the function as it was,
    spec,       \* and in the specialised one
    asked,      \* descriptors for which the daemon has been asked on this path
    guessed     \* whether one of the guesses is on this path

vars == <<prog, phase, resolved, guesses, pc, orig, spec, asked, guessed>>

-----------------------------------------------------------------------------
(* The analysis.                                                           *)
unknownPos == Wide - 1                       \* (uint64_t)-1
Signed(n) == IF n % Wide < Wide \div 2 THEN n % Wide ELSE (n % Wide) - Wide
Positive(n) == 0 <= n /\ n < Wide \div 2

FDStates == [file : STRING, pos : Nat, clean : BOOLEAN]
FDState(file, pos) == [file |-> file, pos |-> pos, clean |-> FALSE]
unnamed == ""
NoFile  == FDState(unnamed, unknownPos)
initialiseFDStore == <<FDState("stdin", 0)>>

(* Only files that are read and exist are promoted.                        *)
tryPromoteOpenCall(S, op) ==
    [i \in 1..Max({Len(S), op.fd}) |->
       IF i = op.fd THEN FDState(op.file, 0) ELSE IF i <= Len(S) THEN S[i] ELSE NoFile]

(* A call's outcome: the table, and what was found out about it.           *)
Unresolved(S)           == [S |-> S, result |-> {}]
Resolved(S, at, n, chk) == [S |-> S, result |-> {[at |-> at, size |-> n, checked |-> chk]}]

(* The seek is resolved unless an argument is unknown, which is recorded   *)
(* in 32 bits, or it is relative to something unknown.                     *)
seekTo(f, op) == CASE op.whence = "set" -> op.off
                   [] op.whence = "cur" -> (op.off + f.pos) % Wide
                   [] op.whence = "end" -> (op.off + FileSize) % Wide

seekCall(S, op) ==
    LET f  == S[op.fd]
        to == seekTo(f, op)
    IN  IF op.off = Unknown THEN Unresolved([S EXCEPT ![op.fd].pos = Narrow - 1])
        ELSE IF \/ op.whence = "cur" /\ f.pos = unknownPos
                \/ op.whence = "end" /\ f.file = unnamed
             THEN Unresolved(S)
        ELSE Resolved([S EXCEPT ![op.fd].pos = to], to, 0, FALSE)

(* A read of known size from a regular file is resolved, wherever it is;   *)
(* how much it reads is recorded in 32 bits.                               *)
bytesRead(f, size) == Min({Signed(size), Signed(FileSize - f.pos)})
AfterRead(f, n)    == [f EXCEPT !.pos = (@ + n) % Wide, !.clean = @ \/ ElimRedundantChecks]

readCall(S, op) ==
    LET f      == S[op.fd]
        cBytes == bytesRead(f, op.size)
    IN  IF op.size = Unknown \/ f.file # "regular"
          THEN Unresolved([S EXCEPT ![op.fd].pos = unknownPos])
        ELSE Resolved([S EXCEPT ![op.fd] = AfterRead(@, cBytes)], f.pos, cBytes % Narrow, ~f.clean)

(* A call on an unknown descriptor may be on any, and a call that is not   *)
(* understood may do anything.                                             *)
tryResolveVFSCall(S, op) ==
    CASE op.kind = "open" -> Unresolved(tryPromoteOpenCall(S, op))
      [] op.kind \in {"readAny", "call"} -> Unresolved(<<>>)
      [] op.kind = "close" -> Unresolved(S)
      [] op.kind \in {"seek", "read"} /\ op.fd > Len(S) -> Unresolved(S)
      [] op.kind = "seek" /\ op.fd <= Len(S) -> seekCall(S, op)
      [] op.kind = "read" /\ op.fd <= Len(S) -> readCall(S, op)

(* Mutant: the position of one of the paths is taken.                      *)
FDStoreMerger_first(stores) ==
    LET n == Min({Len(S) : S \in stores})
        first == CHOOSE S \in stores : TRUE
    IN  [i \in 1..n |-> [first[i] EXCEPT !.clean = \A S \in stores : S[i].clean]]

(* Mutant: clean on one of the paths is clean.                             *)
FDStoreMerger_anyClean(stores) ==
    LET n == Min({Len(S) : S \in stores})
        first == CHOOSE S \in stores : TRUE
    IN  [i \in 1..n |-> [first[i] EXCEPT
                           !.pos = IF \A S \in stores : S[i].pos = @ THEN @ ELSE unknownPos,
                           !.clean = \E S \in stores : S[i].clean]]

(* FDs only defined on one path go away, FDs with conflicting positions    *)
(* become unknown.  (One FD is of the same file on all paths.)             *)
FDStoreMerger(stores) ==
    LET n == Min({Len(S) : S \in stores})
        first == CHOOSE S \in stores : TRUE
    IN  [i \in 1..n |-> [first[i] EXCEPT
                           !.pos = IF \A S \in stores : S[i].pos = @ THEN @ ELSE unknownPos,
                           !.clean = \A S \in stores : S[i].clean]]

(* A loop is analysed once with the preheader's table, and then again with *)
(* the latch's merged in; no call on files counts as a change, so that     *)
(* this is the last time.                                                  *)
AnalyseBlock(p, A, v) ==
    LET entry == IF v.block = 1 THEN initialiseFDStore
                 ELSE IF v.from # 0 /\ ~v.second THEN A.out[v.from]
                 ELSE <<>> \o FDStoreMerger({A.out[q] : q \in preds(p, v.block)})
        ops   == p.ops[v.block]
        end   == FoldLeft(LAMBDA B, j :
                            LET r == tryResolveVFSCall(B.S, ops[j])
                            IN  [B EXCEPT !.S = r.S, !.before[<<v.block, j>>] = B.S,
                                          !.resolved[<<v.block, j>>] = r.result],
                          [A EXCEPT !.S = entry], [j \in 1..Len(ops) |-> j])
    IN  [end EXCEPT !.out[v.block] = end.S]

analyse(p) ==
    FoldLeft(LAMBDA A, v : AnalyseBlock(p, A, v),
             [S |-> <<>>, out |-> [b \in Blocks(p) |-> <<>>], before |-> [id \in Ids(p) |-> <<>>],
              resolved |-> [id \in Ids(p) |-> {}]],
             Visits(p))

(* The table at a point of the function, as the analysis left it.          *)
Table(p, A, point) ==
    IF point[2] \in DOMAIN p.ops[point[1]] THEN A.before[point] ELSE A.out[point[1]]

(* The calls of which the analysis knows enough: a read of constant size   *)
(* is at a known position within the file; a seek goes to a position that  *)
(* lseek accepts, or it is known to be relative to something unknown.      *)
Unsure(pos) == pos \in {unknownPos, Narrow - 1}

ReadsWithin(f, o) ==
    f.file = "regular" /\ o.size # Unknown =>
        ~Unsure(f.pos) /\ f.pos <= FileSize /\ Positive(o.size)
SeeksWithin(f, o) ==
    /\ o.whence = "set" => Positive(o.off)
    /\ o.whence = "cur" => \/ f.pos = unknownPos
                           \/ f.pos # Narrow - 1 /\ Positive(f.pos + Signed(o.off))
    /\ o.whence = "end" => IF f.file = unnamed THEN f.pos = unknownPos
                                          ELSE Positive(FileSize + Signed(o.off))

PositionKnown(S, o) ==
    /\ o.kind = "read" /\ o.fd \in DOMAIN S => ReadsWithin(S[o.fd], o)
    /\ o.kind = "seek" /\ o.fd \in DOMAIN S /\ o.off # Unknown => SeeksWithin(S[o.fd], o)

Guesses(p, A) == {id \in Ids(p) : ~PositionKnown(A.before[id], Op(p, id))}

-----------------------------------------------------------------------------
(* The specialised program beside the original.                            *)
Init ==
    /\ prog \in Programs
    /\ phase = "analyse" /\ resolved = <<>> /\ guesses = {}
    /\ pc = <<1, 1>> /\ orig = <<0>> /\ spec = <<0>> /\ asked = {} /\ guessed = FALSE

Analyse ==
    /\ phase = "analyse"
    /\ phase' = "run"
    /\ LET A == analyse(prog) IN resolved' = A.resolved /\ guesses' = Guesses(prog, A)
    /\ UNCHANGED <<prog, pc, orig, spec, asked, guessed>>

AtEnd   == pc[2] > Len(prog.ops[pc[1]])
AtOp(k) == phase = "run" /\ ~AtEnd /\ Op(prog, pc).kind = k
op      == Op(prog, pc)
IsOpen  == op.fd \in DOMAIN orig      \* programs use a descriptor only while it is open
Advance == /\ pc' = <<pc[1], pc[2] + 1>> /\ guessed' = (guessed \/ pc \in guesses)
           /\ UNCHANGED <<prog, phase, resolved, guesses>>

(* What the system does: how far a read of n bytes gets, and where a seek  *)
(* goes, if to a position at all.                                          *)
BytesRead(at, n) == Min({n, Max({0, FileSize - at})})
SeekTo(at, whence, off) ==
    LET to == Signed(off) + CASE whence = "set" -> 0
                              [] whence = "cur" -> at
                              [] whence = "end" -> FileSize
    IN  IF Positive(to) THEN to ELSE at

Moved(P, f, at) == [P EXCEPT ![f] = at]
Closed(P, f)    == [g \in DOMAIN P \ {f} |-> P[g]]
Opened(P, f)    == [g \in {f} \cup DOMAIN P |-> IF g = f THEN 0 ELSE P[g]]

Open ==
    /\ AtOp("open")
    /\ orig' = Opened(orig, op.fd) /\ spec' = Opened(spec, op.fd)
    /\ asked' = asked \ {op.fd}
    /\ Advance

(* Mutant: its result being known, the call is left out.                   *)
Close_leftOut ==
    /\ AtOp("close") /\ IsOpen
    /\ orig' = Closed(orig, op.fd) /\ UNCHANGED spec
    /\ asked' = asked \ {op.fd}
    /\ Advance

Close ==
    /\ AtOp("close") /\ IsOpen
    /\ orig' = Closed(orig, op.fd) /\ spec' = Closed(spec, op.fd)
    /\ asked' = asked \ {op.fd}
    /\ Advance

(* A call that was not resolved is in the specialised program too.         *)
Read ==
    /\ AtOp("read") /\ IsOpen /\ resolved[pc] = {}
    /\ \E n \in IF op.size = Unknown THEN 0..FileSize ELSE {op.size} :
          /\ orig' = Moved(orig, op.fd, orig[op.fd] + BytesRead(orig[op.fd], n))
          /\ spec' = Moved(spec, op.fd, spec[op.fd] + BytesRead(spec[op.fd], n))
    /\ Advance /\ UNCHANGED asked

(* The specialised program asks the daemon if it has to, and seeks.        *)
ResolvedRead ==
    /\ AtOp("read") /\ IsOpen
    /\ \E r \in resolved[pc] :
          /\ orig' = Moved(orig, op.fd, orig[op.fd] + BytesRead(orig[op.fd], op.size))
          /\ spec' = Moved(spec, op.fd, SeekTo(spec[op.fd], "set", r.at + r.size))
          /\ asked' = asked \cup (IF r.checked THEN {op.fd} ELSE {})
    /\ Advance

(* lliowd_ok says no: unspecialised code does the read.                    *)
CheckFails ==
    /\ AtOp("read") /\ IsOpen
    /\ \E r \in resolved[pc] : r.checked /\ spec' = Moved(spec, op.fd, SeekTo(spec[op.fd], "set", r.at))
    /\ phase' = "unspecialised" /\ guessed' = (guessed \/ pc \in guesses)
    /\ UNCHANGED <<prog, resolved, guesses, pc, orig, asked>>

(* Seeks are never left out: nobody calls tryKillAllVFSOps.                *)
Seek ==
    /\ AtOp("seek") /\ IsOpen
    /\ \E off \in IF op.off = Unknown THEN 0..FileSize ELSE {op.off} :
          /\ orig' = Moved(orig, op.fd, SeekTo(orig[op.fd], op.whence, off))
          /\ spec' = Moved(spec, op.fd, SeekTo(spec[op.fd], op.whence, off))
    /\ Advance /\ UNCHANGED asked

(* A call that nothing is known of, or a read from an unknown descriptor.  *)
Call ==
    /\ AtOp("call") \/ AtOp("readAny")
    /\ \E f \in DOMAIN orig, d, e \in 0..FileSize :
          /\ orig[f] = spec[f] => d = e
          /\ orig' = Moved(orig, f, d) /\ spec' = Moved(spec, f, e)
    /\ Advance /\ UNCHANGED asked

NextBlock ==
    /\ phase = "run" /\ AtEnd
    /\ \E b \in prog.succ[pc[1]] : pc' = <<b, 1>>
    /\ UNCHANGED <<prog, phase, resolved, guesses, orig, spec, asked, guessed>>

Next ==
    \/ Analyse
    \/ Open \/ Close \/ Read \/ ResolvedRead \/ CheckFails \/ Seek \/ Call \/ NextBlock

Spec == Init /\ [][Next]_vars

-----------------------------------------------------------------------------
(* What was resolved is calls of constant arguments, the same descriptors  *)
(* are open in both programs, and only open files have been asked about.   *)
TypeOK ==
    /\ phase \in {"analyse", "run", "unspecialised"} /\ guessed \in BOOLEAN
    /\ guesses \subseteq Ids(prog)
    /\ phase # "analyse" =>
         /\ DOMAIN resolved = Ids(prog)
         /\ \A id \in Ids(prog) : resolved[id] # {} =>
              \/ Op(prog, id).kind = "read" /\ Op(prog, id).size # Unknown
              \/ Op(prog, id).kind = "seek" /\ Op(prog, id).off # Unknown
    /\ DOMAIN orig = DOMAIN spec /\ asked \subseteq DOMAIN orig
    /\ \A f \in DOMAIN orig : orig[f] \in Nat /\ spec[f] \in Nat

(* A read or seek that was executed when the program was specialised did   *)
(* what the original would do here: the same bytes of the file, the same   *)
(* result.  "FDs with conflicting positions go to pos -1 (unknown)": what  *)
(* is unknown is not read at.                                              *)
ResolvedAsInOriginal ==
    /\ AtOp("read") /\ IsOpen => \A r \in resolved[pc] :
          r.at = orig[op.fd] /\ r.size = BytesRead(orig[op.fd], op.size)
    /\ AtOp("seek") /\ IsOpen => \A r \in resolved[pc] :
          r.at = SeekTo(orig[op.fd], op.whence, op.off)

(* Whatever path led here, unless the analysis guessed on it: what was     *)
(* executed when the program was specialised is what the original would do *)
(* here, and every descriptor is where the original has it, so that calls  *)
(* that were not resolved, and the unspecialised code that takes over      *)
(* after a failed check, go on from there.                                 *)
FilesAsInOriginal ==
    ~guessed => spec = orig /\ (pc \notin guesses => ResolvedAsInOriginal)

(* A read goes without a check only if the daemon has been asked about the *)
(* file on the path that led here (int-elim-read-checks).                  *)
UncheckedReadsAskedBefore ==
    AtOp("read") /\ IsOpen => \A r \in resolved[pc] : r.checked \/ op.fd \in asked

(* A table that knows no more than another.                                *)
KnowsLess(S, T) ==
    /\ Len(S) <= Len(T)
    /\ \A f \in DOMAIN S : /\ S[f].pos \in {unknownPos, T[f].pos}
                           /\ S[f].clean => T[f].clean

(* The analysis is done when it says so: in the tables it leaves, a call   *)
(* turns the table before it into the one after it, and where control goes *)
(* from one block to another, back to a loop's header too, nothing is      *)
(* taken for known that was not known there.  No call on files is counted  *)
(* as a change, and a loop is not analysed a third time.                   *)
Settled(p) ==
    LET A == analyse(p)
    IN  /\ A.before \in [Ids(p) -> Seq(FDStates)] /\ A.out \in [Blocks(p) -> Seq(FDStates)]
        /\ A.resolved = [id \in Ids(p) |-> tryResolveVFSCall(A.before[id], Op(p, id)).result]
        /\ \A id \in Ids(p) : Table(p, A, <<id[1], id[2] + 1>>)
                                = tryResolveVFSCall(A.before[id], Op(p, id)).S
        /\ KnowsLess(Table(p, A, <<1, 1>>), initialiseFDStore)
        /\ \A b \in Blocks(p) : \A c \in p.succ[b] : KnowsLess(Table(p, A, <<c, 1>>), A.out[b])

TwoPassesSuffice == phase = "run" /\ pc = <<1, 1>> => Settled(prog)
=============================================================================
