---------------------------- MODULE LliowdProofs ----------------------------
(***************************************************************************)
(* For every configuration, every number of clients, files and inodes and  *)
(* all values of the bounds: WatchSound, as long as no watched file is     *)
(* renamed away, RefusalFinal and NoSpuriousRefusal.                       *)
(***************************************************************************)
EXTENDS Lliowd, TLAPS

(* The typed facts about the current line that every parsing step uses.    *)
LEMMA LineTypes ==
    ASSUME TypeOK, NEW n \in DOMAIN config
    PROVE  /\ config[n] \in Line
           /\ config[n].kind = "file" => config[n].name \in Paths
           /\ Len(config) \in Nat /\ DOMAIN config = 1..Len(config)
  <1>1. config \in Seq(Line) /\ \A m \in DOMAIN config : config[m].kind = "file" => config[m].name \in Paths
    BY ConfigAssumption DEF TypeOK
  <1> QED BY <1>1

(* The typed facts about a program.                                        *)
LEMMA ProgTypes ==
    ASSUME TypeOK
    PROVE  /\ Len(progs) \in Nat /\ DOMAIN progs = 1..Len(progs)
           /\ progs # <<>> => Len(progs) \in DOMAIN progs
           /\ \A i \in DOMAIN progs : /\ progs[i] \in Prog
                                      /\ progs[i].at \in Nat
                                      /\ progs[i].fd \in Inst \cup {Failed}
           /\ config \in Seq(Line) /\ line \in Nat /\ Len(config) \in Nat
           /\ DOMAIN config = 1..Len(config) /\ line \in 1..(Len(config) + 1)
  <1>1. progs \in Seq(Prog) /\ line \in 1..(Len(config) + 1)
    BY DEF TypeOK
  <1>2. config \in Seq(Line)
    BY ConfigAssumption DEF TypeOK
  <1>3. ASSUME NEW i \in DOMAIN progs
        PROVE  progs[i] \in Prog /\ progs[i].at \in Nat /\ progs[i].fd \in Inst \cup {Failed}
    <2>1. progs[i] \in Prog BY <1>1
    <2> QED BY <2>1 DEF Prog
  <1>4. Len(progs) \in Nat /\ DOMAIN progs = 1..Len(progs) /\ (progs # <<>> => Len(progs) \in DOMAIN progs)
    BY <1>1
  <1>5. Len(config) \in Nat /\ DOMAIN config = 1..Len(config) /\ line \in Nat
    BY <1>1, <1>2
  <1> QED BY <1>1, <1>2, <1>3, <1>4, <1>5

(* If the current line is a file line of program i, then i is the program  *)
(* added last: a later program line would lie in between.                  *)
LEMMA LastProgram ==
    ASSUME TypeOK, ParseInv, progs # <<>>, NEW i \in DOMAIN progs,
           line \in FileLines(progs[i].at)
    PROVE  i = Len(progs)
  <1> DEFINE z == Len(progs)
  <1>1. z \in DOMAIN progs /\ i \in 1..z /\ z \in Nat /\ progs[z].at \in Nat
        /\ line \in Nat /\ progs[i].at \in Nat
    BY ProgTypes
  <1>2. progs[z].at < line /\ config[progs[z].at].kind = "prog"
    BY <1>1 DEF ParseInv
  <1>3. CASE i < z
    <2>1. progs[i].at < progs[z].at
      BY <1>1, <1>3 DEF ParseInv
    <2>2. progs[z].at \in (progs[i].at + 1)..line
      BY <2>1, <1>1, <1>2
    <2> QED BY <2>2, <1>2 DEF FileLines
  <1> QED BY <1>1, <1>3

(* The four hold when the daemon starts.                                   *)
LEMMA InitWatchInv == Init => WatchInv
  <1> SUFFICES ASSUME Init PROVE WatchInv
    OBVIOUS
  <1>1. TypeOK
    <2>1. config \in Seq(Line) BY ConfigAssumption DEF Init
    <2>2. line \in 1..(Len(config) + 1) BY <2>1 DEF Init
    <2> QED BY <2>2, BoundsAssumption DEF Init, TypeOK, Inst, Failed, Pending, Prog
  <1>2. ParseInv BY DEF Init, ParseInv
  <1>3. VerifiedInv BY DEF Init, VerifiedInv
  <1>4. HeldInv BY BoundsAssumption DEF Init, HeldInv, Inst, Pending
  <1> QED BY <1>1, <1>2, <1>3, <1>4 DEF WatchInv

(* Nothing but a change of the files can spoil a good descriptor.          *)
LEMMA GoodKept ==
    ASSUME NEW w, NEW p, dir' = dir, content' = content, event' = event,
           \A v \in Inst : watch[v] \subseteq watch'[v], w \in Inst
    PROVE  /\ Good(w, p) => Good(w, p)'
           /\ Covered(w, p) => Covered(w, p)'
  BY DEF Good, Covered

(* No change of a file can spoil it either: it makes the descriptor        *)
(* readable.                                                               *)
LEMMA GoodKeptByFiles ==
    ASSUME TypeOK, FilesNext, ~RenamesAway, NEW w \in Inst, NEW p \in Paths
    PROVE  /\ Good(w, p) => Good(w, p)'
           /\ Covered(w, p) => Covered(w, p)'
           /\ Covered(w, p) /\ ~event'[w] => dir'[p] = dir[p] /\ ~event[w]
  <1>1. PICK q \in Paths : Modify(q) \/ Unlink(q) \/ RenameAway(q) \/ \E i \in Inodes : Replace(q, i)
    BY DEF FilesNext
  <1>2. CASE Modify(q)
    <2>1. /\ dir' = dir /\ watch' = watch /\ (~event'[w] <=> ~event[w] /\ dir[q] \notin watch[w])
      BY <1>2 DEF Modify, Notify
    <2>2. \A i \in Inodes : i # dir[q] => content'[i] = content[i]
      BY <1>2 DEF Modify, TypeOK
    <2>3. dir[p] # NoInode => dir[p] \in Inodes
      BY DEF TypeOK
    <2> QED BY <2>1, <2>2, <2>3 DEF Good, Covered
  <1>3. CASE Unlink(q)
    BY <1>3 DEF Unlink, Notify, Good, Covered, TypeOK
  <1>4. CASE RenameAway(q)
    BY <1>4 DEF RenameAway
  <1>5. ASSUME NEW i \in Inodes, Replace(q, i) PROVE (Good(w, p) => Good(w, p)') /\ (Covered(w, p) => Covered(w, p)')
           /\ (Covered(w, p) /\ ~event'[w] => dir'[p] = dir[p] /\ ~event[w])
    BY <1>5 DEF Replace, Notify, Fresh, Good, Covered, TypeOK
  <1> QED BY <1>1, <1>2, <1>3, <1>4, <1>5
(* mark_failed changes the descriptor of the last program and nothing else *)
(* about any program.                                                      *)
LEMMA MarkFailed ==
    ASSUME TypeOK, fileLine, mark_failed
    PROVE  /\ progs' \in Seq(Prog) /\ DOMAIN progs' = DOMAIN progs
           /\ Len(progs') = Len(progs)
           /\ \A i \in DOMAIN progs : /\ progs'[i].at = progs[i].at
                                      /\ progs'[i].name = progs[i].name
                                      /\ progs'[i].fd = IF i = Len(progs) THEN Failed ELSE progs[i].fd
           /\ line' = line + 1 /\ line' \in 1..(Len(config) + 1)
  <1> DEFINE z == Len(progs)
  <1>1. /\ z \in DOMAIN progs /\ progs \in Seq(Prog) /\ progs[z] \in Prog
        /\ line \in 1..Len(config) /\ Len(config) \in Nat
    BY ProgTypes DEF fileLine, TypeOK
  <1>2. [progs[z] EXCEPT !.fd = Failed] \in Prog
    BY <1>1 DEF Prog
  <1>3. progs' = [progs EXCEPT ![z] = [progs[z] EXCEPT !.fd = Failed]]
    BY DEF mark_failed
  <1>4. progs' \in Seq(Prog) /\ DOMAIN progs' = DOMAIN progs /\ Len(progs') = z
    BY <1>1, <1>2, <1>3
  <1>5. ASSUME NEW i \in DOMAIN progs
        PROVE  /\ progs'[i].at = progs[i].at
               /\ progs'[i].name = progs[i].name
               /\ progs'[i].fd = IF i = Len(progs) THEN Failed ELSE progs[i].fd
    <2>1. progs[i] \in Prog BY <1>1
    <2>2. progs'[i] = IF i = z THEN [progs[z] EXCEPT !.fd = Failed] ELSE progs[i]
      BY <1>1, <1>3
    <2> QED BY <2>1, <2>2 DEF Prog
  <1> QED BY <1>1, <1>4, <1>5 DEF mark_failed

(* What NewProgram does to the vector.                                     *)
LEMMA NewProg ==
    ASSUME TypeOK, NewProgram
    PROVE  /\ progs' \in Seq(Prog) /\ Len(progs') = Len(progs) + 1
           /\ DOMAIN progs' = 1..(Len(progs) + 1)
           /\ \A i \in DOMAIN progs : progs'[i] = progs[i]
           /\ progs'[Len(progs) + 1].at = line
           /\ progs'[Len(progs) + 1].name = config[line].name
           /\ line' = line + 1 /\ line' \in 1..(Len(config) + 1)
  <1> DEFINE new == [name |-> curLine.name, fd |-> ninst + 1, at |-> line]
  <1>1. /\ progs \in Seq(Prog) /\ line \in 1..Len(config) /\ Len(config) \in Nat /\ line \in Nat
        /\ Len(progs) \in Nat /\ DOMAIN progs = 1..Len(progs)
    BY ProgTypes DEF NewProgram, TypeOK
  <1>2. curLine \in Line
    BY <1>1, LineTypes DEF curLine
  <1>3. ninst + 1 \in Inst
    BY BoundsAssumption DEF NewProgram, TypeOK, Inst
  <1>4. new \in Prog
    BY <1>1, <1>2, <1>3 DEF Prog, Line
  <1>5. progs' = Append(progs, new)
    BY DEF NewProgram
  <1> HIDE DEF new
  <1>6. progs' \in Seq(Prog) /\ Len(progs') = Len(progs) + 1 /\ DOMAIN progs' = 1..(Len(progs) + 1)
        /\ (\A i \in DOMAIN progs : progs'[i] = progs[i]) /\ progs'[Len(progs) + 1] = new
    BY <1>1, <1>4, <1>5
  <1>7. new.at = line /\ new.name = config[line].name
    BY DEF new, curLine
  <1> QED BY <1>1, <1>6, <1>7 DEF NewProgram

(* Every action keeps the types.                                           *)
LEMMA TypeStep ==
    ASSUME TypeOK, ParseInv, [Next]_vars
    PROVE  TypeOK'
  <1> USE BoundsAssumption, NamesAssumption
  <1>0. config \in Seq(Line) /\ Len(config) \in Nat /\ DOMAIN config = 1..Len(config) /\ line \in Nat
    BY ProgTypes
  <1>e. <<>> \in Seq(Prog)
    OBVIOUS
  <1>m. ASSUME fileLine, mark_failed
        PROVE  progs' \in Seq(Prog) /\ line' \in 1..(Len(config) + 1) /\ opened' = NoInode
               /\ dpc' = "parse" /\ serving' = serving
    BY <1>m, MarkFailed DEF mark_failed
  <1>x. ASSUME Exit
        PROVE  /\ progs' = <<>> /\ line' = line /\ opened' = NoInode /\ dpc' = "down"
               /\ serving' = NoClient
               /\ conn' \in [Clients -> {"none", "progress", "refused", "queued", "accepted",
                                         "hangup", "bad", "fd"}]
               /\ \A c \in Clients : conn'[c] = "fd" => conn[c] = "fd"
    BY <1>x DEF Exit, TypeOK
  <1>1. CASE Start
    BY <1>1, <1>0 DEF Start, TypeOK, fsVars, clientVars
  <1>2. CASE NewProgram
    <2>1. progs' \in Seq(Prog) /\ line' \in 1..(Len(config) + 1) BY <1>2, NewProg
    <2>2. ninst' \in 0..MaxInst BY <1>2 DEF NewProgram, TypeOK
    <2> QED BY <1>2, <2>1, <2>2 DEF NewProgram, TypeOK, fsVars, clientVars
  <1>3. CASE BadLine
    BY <1>3, <1>x, <1>e DEF BadLine, TypeOK, fsVars, clientVars
  <1>4. CASE SkipLine
    <2>1. line' \in 1..(Len(config) + 1) BY <1>4, <1>0 DEF SkipLine, TypeOK
    <2> QED BY <1>4, <2>1 DEF SkipLine, TypeOK, fsVars, clientVars
  <1>5. CASE AddWatch
    <2>1. fname \in Inodes \cup {NoInode}
      BY <1>5, LineTypes DEF AddWatch, fileLine, fname, curLine, TypeOK
    <2> QED BY <1>5, <2>1 DEF AddWatch, TypeOK, fsVars, clientVars
  <1>6. CASE AddWatchFails
    <2>1. faults' \in 0..MaxFaults BY <1>6 DEF AddWatchFails, Fault, TypeOK
    <2> QED BY <1>6, <1>m, <2>1 DEF AddWatchFails, TypeOK, fsVars, clientVars
  <1>7. CASE Stat
    <2>1. fileLine BY <1>7 DEF Stat, ParseInv
    <2> QED BY <1>7, <1>m, <2>1 DEF Stat, TypeOK, fsVars, clientVars
  <1>8. CASE Open
    <2>1. fileLine BY <1>8 DEF Open, ParseInv
    <2>2. fname \in Inodes \cup {NoInode}
      BY <2>1, LineTypes DEF fileLine, fname, curLine, TypeOK
    <2> QED BY <1>8, <1>m, <2>1, <2>2 DEF Open, TypeOK, fsVars, clientVars
  <1>9. CASE VerifyFault
    <2>1. fileLine BY <1>9 DEF VerifyFault, ParseInv
    <2>2. faults' \in 0..MaxFaults BY <1>9 DEF VerifyFault, Fault, TypeOK
    <2> QED BY <1>9, <1>m, <2>1, <2>2 DEF VerifyFault, TypeOK, fsVars, clientVars
  <1>10. CASE Hash
    <2>1. fileLine /\ line + 1 \in 1..(Len(config) + 1)
      BY <1>10, <1>0 DEF Hash, ParseInv, fileLine
    <2> QED BY <1>10, <1>m, <1>x, <1>e, <2>1 DEF Hash, TypeOK, fsVars, clientVars
  <1>11. CASE createlistensock
    BY <1>11 DEF createlistensock, TypeOK, fsVars, clientVars
  <1>12. ASSUME NEW c \in Clients, Accept(c) PROVE TypeOK'
    BY <1>12 DEF Accept, TypeOK, fsVars, clientVars
  <1>13. CASE Serve
    <2>1. \A i \in findprog(ExeOf[serving]) : progs[i].fd \in Inst \cup {Failed}
      BY ProgTypes DEF findprog
    <2>2. conn' \in [Clients -> {"none", "progress", "refused", "queued", "accepted",
                                 "hangup", "bad", "fd"}]
          /\ sent' \in [Clients -> Inst \cup {0}]
          /\ \A c \in Clients : conn'[c] = "fd" => sent'[c] # 0
      <3>1. 0 \notin Inst BY DEF Inst
      <3> QED BY <1>13, <2>1, <3>1 DEF Serve, TypeOK
    <2> QED BY <1>13, <2>2 DEF Serve, TypeOK, fsVars, clientVars
  <1>14. CASE ServeFault
    <2>1. faults' \in 0..MaxFaults BY <1>14 DEF ServeFault, Fault, TypeOK
    <2> QED BY <1>14, <2>1 DEF ServeFault, TypeOK, fsVars, clientVars
  <1>15. CASE Crash
    <2>1. faults' \in 0..MaxFaults BY <1>15 DEF Crash, Fault, TypeOK
    <2> QED BY <1>15, <1>x, <1>e, <2>1 DEF Crash, TypeOK, fsVars, clientVars
  <1>16. ASSUME NEW c \in Clients, ClientNext(c) PROVE TypeOK'
    <2>0. ASSUME Fault PROVE faults' \in 0..MaxFaults
      BY <2>0 DEF Fault, TypeOK
    <2> USE DEF TypeOK, notClient, fsVars, daemonVars, clientVars, GiveUp, Return
    <2>1. CASE InitConnect(c) BY <2>1 DEF InitConnect
    <2>2. CASE InitInProgress(c) BY <2>2 DEF InitInProgress
    <2>3. CASE InitFails(c) BY <2>0, <2>3 DEF InitFails
    <2>4. CASE Connected(c) BY <2>0, <2>4 DEF Connected
    <2>5. CASE lliowd_getwatchfd(c)
      <3>1. CASE conn[c] = "fd"
        <4>1. sent[c] \in Inst BY <3>1
        <4> QED BY <2>5, <3>1, <4>1 DEF lliowd_getwatchfd
      <3>2. CASE conn[c] # "fd" BY <2>5, <3>2 DEF lliowd_getwatchfd
      <3> QED BY <3>1, <3>2
    <2>6. CASE OkCall(c) BY <2>6 DEF OkCall
    <2>7. CASE OkWait(c) BY <2>0, <2>7 DEF OkWait
    <2>8. CASE OkPoll(c)
      <3>1. CASE event[watchfd[c]]
        <4>1. GiveUp(c) /\ Return(c, 0) BY <2>8, <3>1 DEF OkPoll
        <4> QED BY <2>8, <4>1 DEF OkPoll
      <3>2. CASE ~event[watchfd[c]] BY <2>8, <3>2 DEF OkPoll
      <3> QED BY <3>1, <3>2
    <2>9. CASE PollFault(c) BY <2>0, <2>9 DEF PollFault
    <2> QED BY <1>16, <2>1, <2>2, <2>3, <2>4, <2>5, <2>6, <2>7, <2>8, <2>9 DEF ClientNext
  <1>17. ASSUME NEW p \in Paths, Modify(p) PROVE TypeOK'
    BY <1>17 DEF Modify, Notify, Change, TypeOK, daemonVars, clientVars
  <1>18. ASSUME NEW p \in Paths, Unlink(p) PROVE TypeOK'
    BY <1>18 DEF Unlink, Notify, Change, TypeOK, daemonVars, clientVars
  <1>19. ASSUME NEW p \in Paths, RenameAway(p) PROVE TypeOK'
    BY <1>19 DEF RenameAway, Change, TypeOK, daemonVars, clientVars
  <1>20. ASSUME NEW p \in Paths, NEW i \in Inodes, Replace(p, i) PROVE TypeOK'
    BY <1>20 DEF Replace, Notify, Change, TypeOK, daemonVars, clientVars
  <1>21. CASE UNCHANGED vars
    BY <1>21 DEF vars, TypeOK, fsVars, daemonVars, clientVars
  <1> QED BY <1>1, <1>2, <1>3, <1>4, <1>5, <1>6, <1>7, <1>8, <1>9, <1>10, <1>11, <1>12, <1>13,
             <1>14, <1>15, <1>16, <1>17, <1>18, <1>19, <1>20, <1>21
          DEF Next, DaemonNext, FilesNext

(* Every action keeps what parse_config has established of the programs.   *)
LEMMA ParseStep ==
    ASSUME TypeOK, ParseInv, [Next]_vars
    PROVE  ParseInv'
  <1>0. /\ config \in Seq(Line) /\ Len(config) \in Nat /\ DOMAIN config = 1..Len(config)
        /\ line \in Nat /\ Len(progs) \in Nat /\ DOMAIN progs = 1..Len(progs)
        /\ \A i \in DOMAIN progs : progs[i].at \in Nat
    BY ProgTypes
  <1>s. ASSUME UNCHANGED <<config, progs, line, dpc, serving, opened>> PROVE ParseInv'
    BY <1>s DEF ParseInv, fileLine, curLine, curFd
  <1>m. ASSUME fileLine, mark_failed, config' = config
        PROVE  ParseInv'
    <2>1. /\ DOMAIN progs' = DOMAIN progs /\ line' = line + 1 /\ dpc' = "parse"
          /\ \A i \in DOMAIN progs : progs'[i].at = progs[i].at /\ progs'[i].name = progs[i].name
      BY <1>m, MarkFailed DEF mark_failed
    <2>2. config[line].kind = "file"
      BY <1>m DEF fileLine, curLine
    <2>3. dpc # "down"
      BY <1>m DEF fileLine, ParseInv
    <2>4. \A i \in DOMAIN progs' : /\ progs'[i].at \in DOMAIN config /\ progs'[i].at < line'
                                 /\ config[progs'[i].at].kind = "prog"
                                 /\ config[progs'[i].at].name = progs'[i].name
      BY <1>0, <2>1 DEF ParseInv
    <2>5. \A i, j \in DOMAIN progs' : i < j => progs'[i].at < progs'[j].at
      BY <2>1 DEF ParseInv
    <2>6. \A k \in DOMAIN config : k < line' /\ config[k].kind = "prog" =>
             \E i \in DOMAIN progs' : progs'[i].at = k
      BY <1>0, <2>1, <2>2, <2>3 DEF ParseInv
    <2> QED BY <1>m, <2>1, <2>4, <2>5, <2>6 DEF ParseInv
  <1>x. ASSUME Exit, config' = config
        PROVE  ParseInv'
    BY <1>x DEF Exit, ParseInv
  <1>1. CASE Start
    BY <1>1, <1>0 DEF Start, ParseInv, fsVars
  <1>2. CASE NewProgram
    <2>1. /\ Len(progs') = Len(progs) + 1 /\ DOMAIN progs' = 1..(Len(progs) + 1)
          /\ \A i \in DOMAIN progs : progs'[i] = progs[i]
          /\ progs'[Len(progs) + 1].at = line
          /\ progs'[Len(progs) + 1].name = config[line].name
          /\ line' = line + 1
      BY <1>2, NewProg
    <2>2. /\ dpc' = "parse" /\ dpc = "parse" /\ line \in DOMAIN config /\ config[line].kind = "prog"
          /\ config' = config
      BY <1>2 DEF NewProgram, curLine, fsVars
    <2>3. \A i \in DOMAIN progs' : /\ progs'[i].at \in DOMAIN config /\ progs'[i].at < line'
                                 /\ config[progs'[i].at].kind = "prog"
                                 /\ config[progs'[i].at].name = progs'[i].name
      BY <1>0, <2>1, <2>2 DEF ParseInv
    <2>4. \A i, j \in DOMAIN progs' : i < j => progs'[i].at < progs'[j].at
      BY <1>0, <2>1, <2>2 DEF ParseInv
    <2>5. \A k \in DOMAIN config : k < line' /\ config[k].kind = "prog" =>
             \E i \in DOMAIN progs' : progs'[i].at = k
      <3> SUFFICES ASSUME NEW k \in DOMAIN config, k < line', config[k].kind = "prog"
                   PROVE  \E i \in DOMAIN progs' : progs'[i].at = k
        OBVIOUS
      <3>1. CASE k = line
        BY <1>0, <2>1, <3>1
      <3>2. CASE k < line
        <4>1. PICK i \in DOMAIN progs : progs[i].at = k
          BY <2>2, <3>2 DEF ParseInv
        <4> QED BY <4>1, <1>0, <2>1
      <3> QED BY <1>0, <2>1, <3>1, <3>2
    <2> QED BY <2>2, <2>3, <2>4, <2>5 DEF ParseInv
  <1>3. CASE BadLine
    BY <1>3, <1>x DEF BadLine, fsVars
  <1>4. CASE SkipLine
    BY <1>4, <1>0 DEF SkipLine, ParseInv, curLine, fsVars
  <1>5. CASE AddWatch
    BY <1>5 DEF AddWatch, ParseInv, fname, fileLine, curLine, curFd, fsVars
  <1>6. CASE AddWatchFails
    BY <1>6, <1>m DEF AddWatchFails, fsVars
  <1>7. CASE Stat
    <2>1. fileLine BY <1>7 DEF Stat, ParseInv
    <2>2. CASE mark_failed BY <1>7, <1>m, <2>1, <2>2 DEF Stat, fsVars
    <2>3. CASE dpc' = "open" /\ UNCHANGED <<line, progs, opened, serving>>
      BY <1>7, <2>1, <2>3 DEF Stat, ParseInv, fileLine, curLine, curFd, fsVars
    <2> QED BY <1>7, <2>2, <2>3 DEF Stat
  <1>8. CASE Open
    <2>1. fileLine BY <1>8 DEF Open, ParseInv
    <2>2. CASE mark_failed BY <1>8, <1>m, <2>1, <2>2 DEF Open, fsVars
    <2>3. CASE /\ fname # NoInode /\ opened' = fname /\ dpc' = "hash"
               /\ UNCHANGED <<line, progs, serving>>
      <3>1. opened' \in Inodes
        BY <2>1, <2>3, LineTypes DEF fileLine, fname, curLine, TypeOK
      <3> QED BY <1>8, <2>1, <2>3, <3>1 DEF Open, ParseInv, fileLine, curLine, curFd, fsVars
    <2> QED BY <1>8, <2>2, <2>3 DEF Open, ParseInv, fname
  <1>9. CASE VerifyFault
    <2>1. fileLine BY <1>9 DEF VerifyFault, ParseInv
    <2> QED BY <1>9, <1>m, <2>1 DEF VerifyFault, fsVars
  <1>10. CASE Hash
    <2>1. fileLine BY <1>10 DEF Hash, ParseInv
    <2>2. CASE mark_failed BY <1>10, <1>m, <2>1, <2>2 DEF Hash, fsVars
    <2>3. CASE Exit BY <1>10, <1>x, <2>3 DEF Hash, fsVars
    <2>4. CASE line' = line + 1 /\ dpc' = "parse" /\ opened' = NoInode /\ UNCHANGED <<progs, serving>>
      <3>1. config[line].kind = "file" /\ config' = config /\ dpc = "hash"
        BY <1>10, <2>1 DEF Hash, fileLine, curLine, fsVars
      <3> QED BY <1>0, <2>4, <3>1 DEF ParseInv
    <2> QED BY <1>10, <2>2, <2>3, <2>4 DEF Hash
  <1>11. CASE createlistensock
    BY <1>11 DEF createlistensock, ParseInv, fsVars
  <1>12. ASSUME NEW c \in Clients, Accept(c) PROVE ParseInv'
    BY <1>12 DEF Accept, ParseInv, fsVars
  <1>13. CASE Serve \/ ServeFault
    BY <1>13 DEF Serve, ServeFault, ParseInv, fsVars
  <1>15. CASE Crash
    BY <1>15, <1>x DEF Crash, fsVars
  <1>16. ASSUME NEW c \in Clients, ClientNext(c) PROVE ParseInv'
    BY <1>16, <1>s DEF ClientNext, InitConnect, InitInProgress, InitFails, Connected, lliowd_getwatchfd,
                       OkCall, OkWait, OkPoll, PollFault, notClient, daemonVars, fsVars
  <1>17. CASE FilesNext
    BY <1>17, <1>s DEF FilesNext, Modify, Unlink, RenameAway, Replace, daemonVars
  <1>21. CASE UNCHANGED vars
    BY <1>21, <1>s DEF vars, fsVars, daemonVars
  <1> QED BY <1>1, <1>2, <1>3, <1>4, <1>5, <1>6, <1>7, <1>8, <1>9, <1>10, <1>11, <1>12, <1>13,
             <1>15, <1>16, <1>17, <1>21 DEF Next, DaemonNext

(* Passing a file line that is good, or whose program failed, keeps what   *)
(* is known of the lines passed.                                           *)
LEMMA PassLine ==
    ASSUME TypeOK, ParseInv, VerifiedInv, fileLine \/ (progs # <<>> /\ curFd = Failed),
           NEW i \in DOMAIN progs, progs[i].fd # Failed,
           NEW k \in FileLines(progs[i].at), k < line + 1,
           k = line /\ i = Len(progs) => Good(curFd, config[line].name)
    PROVE  Good(progs[i].fd, config[k].name)
  <1>1. k \in Nat /\ line \in Nat /\ k <= line
    BY ProgTypes DEF FileLines
  <1>2. CASE k < line
    BY <1>2 DEF VerifiedInv
  <1>3. CASE k = line
    <2>1. i = Len(progs) BY <1>3, LastProgram DEF fileLine
    <2> QED BY <1>3, <2>1 DEF curFd
  <1> QED BY <1>1, <1>2, <1>3

(* Every action keeps it that verified files were as configured.           *)
LEMMA VerifiedStep ==
    ASSUME TypeOK, ParseInv, VerifiedInv, ~RenamesAway, [Next]_vars
    PROVE  VerifiedInv'
  <1>0. /\ DOMAIN config = 1..Len(config) /\ Len(config) \in Nat
        /\ line \in Nat /\ Len(progs) \in Nat /\ DOMAIN progs = 1..Len(progs)
        /\ (progs # <<>> => Len(progs) \in DOMAIN progs)
        /\ \A i \in DOMAIN progs : progs[i].at \in Nat /\ progs[i].fd \in Inst \cup {Failed}
    BY ProgTypes
  <1>f. config' = config => \A n \in Nat : FileLines(n)' = FileLines(n)
    BY DEF FileLines
  <1>p. \A n \in Nat : \A k \in FileLines(n) : k \in DOMAIN config /\ config[k].name \in Paths
    BY <1>0, LineTypes DEF FileLines
  <1>k. ASSUME UNCHANGED <<config, dir, content, event>>, \A v \in Inst : watch[v] \subseteq watch'[v]
        PROVE  \A w \in Inst : \A p : /\ Good(w, p) => Good(w, p)'
                                      /\ Covered(w, p) => Covered(w, p)'
    BY <1>k, GoodKept
  <1>s. ASSUME UNCHANGED <<config, progs, line, dpc, opened, dir, content, event, watch>> PROVE VerifiedInv'
    BY <1>s DEF VerifiedInv, fileLine, curLine, curFd, Good, Covered, FileLines
  <1>m. ASSUME fileLine, mark_failed, UNCHANGED <<config, dir, content, event, watch>>
        PROVE  VerifiedInv'
    <2>1. /\ DOMAIN progs' = DOMAIN progs /\ line' = line + 1 /\ dpc' = "parse"
          /\ \A i \in DOMAIN progs : /\ progs'[i].at = progs[i].at
                                     /\ progs'[i].fd = IF i = Len(progs) THEN Failed ELSE progs[i].fd
      BY <1>m, MarkFailed DEF mark_failed
    <2>2. ASSUME NEW i \in DOMAIN progs', progs'[i].fd # Failed,
                 NEW k \in FileLines(progs[i].at)', k < line'
          PROVE  Good(progs[i].fd, config[k].name)'
      <3>1. i # Len(progs) /\ progs'[i].fd = progs[i].fd /\ progs'[i].at = progs[i].at
        BY <2>1, <2>2
      <3>2. k \in FileLines(progs[i].at)
        BY <1>m, <1>0, <2>1, <3>1 DEF FileLines
      <3>3. Good(progs[i].fd, config[k].name)
        BY <1>m, <2>1, <2>2, <3>1, <3>2, PassLine
      <3> QED BY <1>m, <3>1, <3>3 DEF Good, Covered
    <2> QED BY <2>1, <2>2 DEF VerifiedInv
  <1>x. ASSUME progs' = <<>>, dpc' = "down" PROVE VerifiedInv'
    BY <1>x DEF VerifiedInv
  <1>1. CASE Start
    BY <1>1 DEF Start, VerifiedInv, ParseInv
  <1>2. CASE NewProgram
    <2>1. /\ DOMAIN progs' = 1..(Len(progs) + 1)
          /\ \A i \in DOMAIN progs : progs'[i] = progs[i]
          /\ progs'[Len(progs) + 1].at = line /\ line' = line + 1
      BY <1>2, NewProg
    <2>2. /\ dpc' = "parse" /\ config[line].kind = "prog" /\ UNCHANGED <<config, dir, content, event, watch>>
      BY <1>2 DEF NewProgram, curLine, fsVars
    <2>3. ASSUME NEW i \in DOMAIN progs', progs'[i].fd # Failed,
                 NEW k \in FileLines(progs[i].at)', k < line'
          PROVE  Good(progs[i].fd, config[k].name)'
      <3>1. k \in DOMAIN config /\ config[k].kind = "file" /\ k > progs'[i].at /\ progs'[i].at \in Nat
        BY <1>0, <2>1, <2>2 DEF FileLines
      <3>2. k < line /\ k \in Nat
        BY <1>0, <2>1, <2>2, <2>3, <3>1
      <3>3. i \in DOMAIN progs /\ progs'[i] = progs[i]
        BY <1>0, <2>1, <3>1, <3>2
      <3>4. k \in FileLines(progs[i].at)
        BY <2>2, <3>3 DEF FileLines
      <3>5. Good(progs[i].fd, config[k].name)
        BY <2>3, <3>2, <3>3, <3>4 DEF VerifiedInv
      <3> QED BY <2>2, <3>3, <3>5 DEF Good, Covered
    <2> QED BY <2>2, <2>3 DEF VerifiedInv
  <1>3. CASE BadLine \/ Crash
    BY <1>3, <1>x DEF BadLine, Crash, Exit
  <1>4. CASE SkipLine
    <2>1. /\ dpc' = "parse" /\ UNCHANGED <<config, dir, content, event, watch, progs>>
          /\ line' = line + 1 /\ progs # <<>> /\ curFd = Failed
      BY <1>4 DEF SkipLine, fsVars
    <2>2. ASSUME NEW i \in DOMAIN progs, progs[i].fd # Failed,
                 NEW k \in FileLines(progs[i].at), k < line'
          PROVE  Good(progs[i].fd, config[k].name)
      BY <2>1, <2>2, PassLine DEF curFd
    <2> QED BY <2>1, <2>2 DEF VerifiedInv, Good, Covered, FileLines
  <1>5. CASE AddWatch
    <2>1. /\ UNCHANGED <<config, dir, content, event, progs, line>> /\ dpc' = "stat"
          /\ fileLine /\ dir[curLine.name] # NoInode
          /\ watch' = [watch EXCEPT ![curFd] = @ \cup {dir[curLine.name]}]
      BY <1>5 DEF AddWatch, fname, fsVars
    <2>2. curFd \in Inst
      BY <1>0, <2>1 DEF fileLine, curFd
    <2>3. \A v \in Inst : watch[v] \subseteq watch'[v]
      BY <2>1 DEF TypeOK
    <2>4. Covered(curFd, curLine.name)'
      BY <2>1, <2>2 DEF Covered, curFd, curLine, TypeOK
    <2>5. ASSUME NEW i \in DOMAIN progs, progs[i].fd # Failed,
                 NEW k \in FileLines(progs[i].at), k < line
          PROVE  Good(progs[i].fd, config[k].name)'
      <3>1. progs[i].fd \in Inst BY <1>0, <2>5
      <3>2. Good(progs[i].fd, config[k].name) BY <2>5 DEF VerifiedInv
      <3> QED BY <1>k, <2>1, <2>3, <3>1, <3>2 DEF Good, Covered
    <2> QED BY <2>1, <2>4, <2>5 DEF VerifiedInv, FileLines, Good, Covered
  <1>6. CASE AddWatchFails
    BY <1>6, <1>m DEF AddWatchFails, fsVars
  <1>7. CASE Stat
    <2>1. fileLine /\ Covered(curFd, curLine.name) BY <1>7 DEF Stat, ParseInv, VerifiedInv
    <2>2. CASE mark_failed BY <1>7, <1>m, <2>1, <2>2 DEF Stat, fsVars
    <2>3. CASE dpc' = "open" /\ UNCHANGED <<line, progs, opened, serving>>
      BY <1>7, <2>1, <2>3 DEF Stat, VerifiedInv, curLine, curFd, fsVars, Good, Covered, FileLines
    <2> QED BY <1>7, <2>2, <2>3 DEF Stat
  <1>8. CASE Open
    <2>1. fileLine /\ Covered(curFd, curLine.name) BY <1>8 DEF Open, ParseInv, VerifiedInv
    <2>2. CASE mark_failed BY <1>8, <1>m, <2>1, <2>2 DEF Open, fsVars
    <2>3. CASE opened' = dir[curLine.name] /\ dpc' = "hash" /\ UNCHANGED <<line, progs, serving>>
      BY <1>8, <2>1, <2>3 DEF Open, VerifiedInv, curLine, curFd, fsVars, Good, Covered, FileLines
    <2> QED BY <1>8, <2>2, <2>3 DEF Open, ParseInv, fname
  <1>9. CASE VerifyFault
    <2>1. fileLine BY <1>9 DEF VerifyFault, ParseInv
    <2> QED BY <1>9, <1>m, <2>1 DEF VerifyFault, fsVars
  <1>10. CASE Hash
    <2>1. /\ fileLine /\ Covered(curFd, curLine.name) /\ (~event[curFd] => opened = dir[curLine.name])
          /\ UNCHANGED <<config, dir, content, event, watch>>
      BY <1>10 DEF Hash, ParseInv, VerifiedInv, fsVars
    <2>2. CASE mark_failed BY <1>10, <1>m, <2>1, <2>2 DEF Hash, fsVars
    <2>3. CASE Exit BY <1>x, <2>3 DEF Exit
    <2>4. CASE content[opened] = "good" /\ line' = line + 1 /\ dpc' = "parse" /\ UNCHANGED progs
      <3>1. Good(curFd, config[line].name)
        BY <2>1, <2>4 DEF Good, curLine
      <3>2. ASSUME NEW i \in DOMAIN progs, progs[i].fd # Failed,
                   NEW k \in FileLines(progs[i].at), k < line'
            PROVE  Good(progs[i].fd, config[k].name)
        BY <2>1, <2>4, <3>1, <3>2, PassLine
      <3> QED BY <2>1, <2>4, <3>2 DEF VerifiedInv, Good, Covered, FileLines
    <2> QED BY <1>10, <2>2, <2>3, <2>4 DEF Hash
  <1>11. CASE createlistensock
    BY <1>11 DEF createlistensock, VerifiedInv, fsVars, Good, Covered, FileLines
  <1>12. ASSUME NEW c \in Clients, Accept(c) PROVE VerifiedInv'
    BY <1>12 DEF Accept, VerifiedInv, fsVars, Good, Covered, FileLines
  <1>13. CASE Serve \/ ServeFault
    BY <1>13 DEF Serve, ServeFault, VerifiedInv, fsVars, Good, Covered, FileLines
  <1>16. ASSUME NEW c \in Clients, ClientNext(c) PROVE VerifiedInv'
    BY <1>16, <1>s DEF ClientNext, InitConnect, InitInProgress, InitFails, Connected, lliowd_getwatchfd,
                       OkCall, OkWait, OkPoll, PollFault, notClient, daemonVars, fsVars
  <1>17. CASE FilesNext
    <2>1. UNCHANGED <<config, progs, line, dpc, opened, watch>>
      BY <1>17 DEF FilesNext, Modify, Unlink, RenameAway, Replace, daemonVars
    <2>2. ASSUME NEW i \in DOMAIN progs, progs[i].fd # Failed,
                 NEW k \in FileLines(progs[i].at), k < line
          PROVE  Good(progs[i].fd, config[k].name)'
      <3>1. progs[i].fd \in Inst /\ config[k].name \in Paths BY <1>0, <1>p, <2>2
      <3>2. Good(progs[i].fd, config[k].name) BY <2>2 DEF VerifiedInv
      <3>3. \A w \in Inst, p \in Paths : Good(w, p) => Good(w, p)'
        BY <1>17, GoodKeptByFiles
      <3> QED BY <2>1, <3>1, <3>2, <3>3 DEF Good, Covered
    <2>3. ASSUME dpc \in {"stat", "open", "hash"}
          PROVE  Covered(curFd, curLine.name)' /\ (dpc = "hash" /\ ~event'[curFd] => opened = dir'[curLine.name])
      <3>1. fileLine /\ Covered(curFd, curLine.name) BY <2>3 DEF ParseInv, VerifiedInv
      <3>2. curFd \in Inst /\ curLine.name \in Paths
        BY <1>0, <3>1, LineTypes DEF fileLine, curFd, curLine
      <3>3. \A w \in Inst, p \in Paths :
              /\ Covered(w, p) => Covered(w, p)'
              /\ Covered(w, p) /\ ~event'[w] => dir'[p] = dir[p] /\ ~event[w]
        BY <1>17, GoodKeptByFiles
      <3>4. Covered(curFd, curLine.name)'
        BY <2>1, <3>1, <3>2, <3>3 DEF Covered, curFd, curLine
      <3> QED BY <3>1, <3>2, <3>3, <3>4 DEF VerifiedInv
    <2> QED BY <2>1, <2>2, <2>3 DEF VerifiedInv, FileLines, curFd, curLine, Good, Covered
  <1>21. CASE UNCHANGED vars
    BY <1>21, <1>s DEF vars, fsVars, daemonVars
  <1> QED BY <1>1, <1>2, <1>3, <1>4, <1>5, <1>6, <1>7, <1>8, <1>9, <1>10, <1>11, <1>12, <1>13,
             <1>16, <1>17, <1>21 DEF Next, DaemonNext

(* What findprog finds is the program line FilesOf is about.               *)
LEMMA FoundIsFirst ==
    ASSUME TypeOK, ParseInv, VerifiedInv, dpc = "serve", NEW name,
           NEW i \in findprog(name), progs[i].fd # Failed, NEW p \in FilesOf(name)
    PROVE  Good(progs[i].fd, p)
  <1>0. /\ DOMAIN config = 1..Len(config) /\ Len(config) \in Nat /\ line \in 1..(Len(config) + 1)
        /\ DOMAIN progs = 1..Len(progs) /\ Len(progs) \in Nat
        /\ \A j \in DOMAIN progs : progs[j].at \in Nat
    BY ProgTypes
  <1>1. line = Len(config) + 1
    BY <1>0 DEF ParseInv
  <1>2. PICK n \in DOMAIN config : \E k \in FileLines(n) : IsProgLine(n, name) /\ config[k].name = p
    BY DEF FilesOf
  <1>3. PICK k \in FileLines(n) : IsProgLine(n, name) /\ config[k].name = p
    BY <1>2
  <1>4. PICK j \in DOMAIN progs : progs[j].at = n
    BY <1>0, <1>1, <1>3 DEF ParseInv, IsProgLine
  <1>5. i \in DOMAIN progs /\ i <= j
    BY <1>0, <1>3, <1>4 DEF findprog, IsProgLine, ParseInv
  <1>6. progs[i].at = n
    <2>1. CASE i < j
      <3>1. progs[i].at < n BY <1>4, <1>5, <2>1 DEF ParseInv
      <3>2. progs[i].at \in 1..(n-1) BY <1>0, <1>5, <3>1 DEF ParseInv
      <3>3. config[progs[i].at].kind = "prog" /\ config[progs[i].at].name = name
        BY <1>5 DEF ParseInv, findprog
      <3> QED BY <1>3, <3>2, <3>3 DEF IsProgLine
    <2> QED BY <1>0, <1>4, <1>5, <2>1
  <1>7. k < line BY <1>0, <1>1 DEF FileLines
  <1> QED BY <1>3, <1>5, <1>6, <1>7 DEF VerifiedInv

(* Every action keeps it that an instance is only held by who was let in,  *)
(* unless files may be renamed away.                                       *)
LEMMA HeldStep ==
    ASSUME TypeOK, ParseInv, VerifiedInv, HeldInv, ~RenamesAway, [Next]_vars
    PROVE  HeldInv'
  <1> DEFINE Full(w, name) == \A p \in FilesOf(name) : Good(w, p)
  <1>f. config' = config
    BY DEF Next, DaemonNext, Start, NewProgram, BadLine, SkipLine, AddWatch, AddWatchFails, Stat, Open,
           VerifyFault, Hash, createlistensock, Accept, Serve, ServeFault, Crash, ClientNext, InitConnect,
           InitInProgress, InitFails, Connected, lliowd_getwatchfd, OkCall, OkWait, OkPoll, PollFault,
           FilesNext, Modify, Unlink, RenameAway, Replace, notClient, fsVars, vars
  <1>n. \A name : FilesOf(name)' = FilesOf(name)
    BY <1>f DEF FilesOf, FileLines, IsProgLine
  <1>g. ASSUME NEW w \in Inst, NEW name, Full(w, name)
        PROVE  Full(w, name)'
    <2> SUFFICES ASSUME NEW p \in FilesOf(name) PROVE Good(w, p)'
      BY <1>n
    <2>0. p \in Paths /\ Good(w, p) BY <1>g DEF FilesOf
    <2>1. CASE FilesNext BY <2>0, <2>1, GoodKeptByFiles
    <2>2. CASE AddWatch
      <3>1. \A v \in Inst : watch[v] \subseteq watch'[v] BY <2>2 DEF AddWatch, TypeOK
      <3> QED BY <2>0, <2>2, <3>1, GoodKept DEF AddWatch, fsVars
    <2>3. CASE UNCHANGED <<dir, content, event, watch>>
      BY <2>0, <2>3 DEF Good, Covered
    <2>4. CASE DaemonNext /\ ~AddWatch
      BY <2>3, <2>4 DEF DaemonNext, Start, NewProgram, BadLine, SkipLine, AddWatchFails, Stat, Open,
           VerifyFault, Hash, createlistensock, Accept, Serve, ServeFault, Crash, fsVars
    <2>5. ASSUME NEW c \in Clients, ClientNext(c) PROVE Good(w, p)'
      BY <2>3, <2>5 DEF ClientNext, InitConnect, InitInProgress, InitFails, Connected, lliowd_getwatchfd,
           OkCall, OkWait, OkPoll, PollFault, notClient, fsVars
    <2>6. CASE UNCHANGED vars
      BY <2>3, <2>6 DEF vars, fsVars
    <2> QED BY <2>1, <2>2, <2>4, <2>5, <2>6 DEF Next
  <1>h. /\ \A c \in Clients : conn[c] = "fd" => sent[c] \in Inst /\ Full(sent[c], ExeOf[c])
        /\ \A c \in Clients : watchfd[c] \in Inst => Full(watchfd[c], ExeOf[c])
    BY DEF HeldInv
  <1>q. ASSUME \A c \in Clients : conn'[c] = "fd" => sent'[c] \in Inst /\ Full(sent'[c], ExeOf[c]),
               \A c \in Clients : watchfd'[c] \in Inst => Full(watchfd'[c], ExeOf[c])
        PROVE  HeldInv'
    <2>1. ASSUME NEW c \in Clients, conn'[c] = "fd"
          PROVE  sent'[c] \in Inst /\ \A p \in FilesOf(ExeOf[c])' : Good(sent[c], p)'
      <3>1. sent'[c] \in Inst /\ Full(sent'[c], ExeOf[c]) BY <1>q, <2>1
      <3>2. \A w \in Inst : Full(w, ExeOf[c]) => \A p \in FilesOf(ExeOf[c]) : Good(w, p)'
        BY <1>g, <1>n
      <3> QED BY <1>n, <3>1, <3>2 DEF Good, Covered
    <2>2. ASSUME NEW c \in Clients, watchfd'[c] \in Inst
          PROVE  \A p \in FilesOf(ExeOf[c])' : Good(watchfd[c], p)'
      <3>1. Full(watchfd'[c], ExeOf[c]) BY <1>q, <2>2
      <3>2. \A w \in Inst : Full(w, ExeOf[c]) => \A p \in FilesOf(ExeOf[c]) : Good(w, p)'
        BY <1>g, <1>n
      <3> QED BY <1>n, <2>2, <3>1, <3>2 DEF Good, Covered
    <2> QED BY <2>1, <2>2 DEF HeldInv
  <1> HIDE DEF Full
  <1>1. CASE UNCHANGED <<conn, sent, watchfd>>
    BY <1>1, <1>h, <1>q
  <1>2. CASE Exit /\ UNCHANGED <<sent, watchfd>>
    BY <1>2, <1>h, <1>q DEF Exit
  <1>3. CASE DaemonNext
    <2>1. ASSUME NEW c \in Clients, Accept(c) PROVE HeldInv'
      BY <2>1, <1>h, <1>q DEF Accept, TypeOK, clientVars
    <2>2. CASE ServeFault BY <2>2, <1>h, <1>q DEF ServeFault, TypeOK, clientVars
    <2>3. CASE Serve
      <3>1. watchfd' = watchfd /\ serving \in Clients /\ dpc = "serve"
        BY <2>3 DEF Serve, ParseInv, clientVars
      <3>2. CASE conn' = [conn EXCEPT ![serving] = "hangup"] /\ UNCHANGED sent
        BY <3>1, <3>2, <1>h, <1>q DEF TypeOK
      <3>3. CASE conn' = [conn EXCEPT ![serving] = "bad"] /\ UNCHANGED sent
        BY <3>1, <3>3, <1>h, <1>q DEF TypeOK
      <3>4. ASSUME NEW i \in findprog(ExeOf[serving]), progs[i].fd # Failed,
                   conn' = [conn EXCEPT ![serving] = "fd"],
                   sent' = [sent EXCEPT ![serving] = progs[i].fd]
            PROVE  HeldInv'
        <4>1. Full(progs[i].fd, ExeOf[serving])
          BY <3>1, <3>4, FoundIsFirst DEF Full
        <4>2. progs[i].fd \in Inst
          BY <3>4, ProgTypes DEF findprog
        <4> QED BY <3>1, <3>4, <4>1, <4>2, <1>h, <1>q DEF TypeOK
      <3> QED BY <2>3, <3>2, <3>3, <3>4 DEF Serve
    <2> QED BY <1>1, <1>2, <1>3, <2>1, <2>2, <2>3
         DEF DaemonNext, Start, NewProgram, BadLine, SkipLine, AddWatch, AddWatchFails, Stat, Open,
             VerifyFault, Hash, createlistensock, Crash, clientVars
  <1>4. ASSUME NEW c \in Clients, ClientNext(c) PROVE HeldInv'
    <2> USE DEF TypeOK, GiveUp
    <2>0. Failed \notin Inst BY BoundsAssumption DEF Failed, Inst
    <2>1. CASE InitConnect(c) \/ InitInProgress(c) BY <2>1, <1>h, <1>q DEF InitConnect, InitInProgress
    <2>2. CASE InitFails(c) \/ PollFault(c) BY <2>0, <2>2, <1>h, <1>q DEF InitFails, PollFault
    <2>3. CASE Connected(c) BY <2>3, <1>h, <1>q DEF Connected, clientVars
    <2>4. CASE lliowd_getwatchfd(c)
      BY <2>0, <2>4, <1>h, <1>q DEF lliowd_getwatchfd
    <2>5. CASE OkCall(c) BY <2>5, <1>1 DEF OkCall
    <2>6. CASE OkWait(c) BY <2>0, <2>6, <1>h, <1>q DEF OkWait
    <2>7. CASE OkPoll(c) BY <2>0, <2>7, <1>h, <1>q DEF OkPoll
    <2> QED BY <1>4, <2>1, <2>2, <2>3, <2>4, <2>5, <2>6, <2>7 DEF ClientNext
  <1>5. CASE FilesNext
    BY <1>5, <1>1 DEF FilesNext, Modify, Unlink, RenameAway, Replace, clientVars
  <1>6. CASE UNCHANGED vars
    BY <1>6, <1>1 DEF vars, clientVars
  <1> QED BY <1>3, <1>4, <1>5, <1>6 DEF Next

(* WatchInv, and with it TypeOK, is an invariant of the daemon, its        *)
(* clients and everybody who changes files.                                *)
THEOREM WatchInvariance ==
    ASSUME ~RenamesAway
    PROVE  Spec => []WatchInv
  <1>1. WatchInv /\ [Next]_vars => WatchInv'
    BY TypeStep, ParseStep, VerifiedStep, HeldStep DEF WatchInv
  <1> QED BY <1>1, InitWatchInv, PTL DEF Spec

(* lliowd_ok() returns 1 only while every file the program was specialised *)
(* on is as it was: for every configuration file, any number of clients    *)
(* and any history of changes, crashes and restarts, provided files are    *)
(* not renamed away.                                                       *)
THEOREM WatchSoundness ==
    ASSUME ~RenamesAway
    PROVE  Spec => []WatchSound
  <1>1. WatchInv => WatchSound
    BY DEF WatchInv, HeldInv, Good, Covered, WatchSound, AsRecorded
  <1> QED BY <1>1, WatchInvariance, PTL

(* Type correctness, with the control facts it needs.                      *)
THEOREM TypeCorrectness == Spec => []TypeOK
  <1>1. Init => TypeOK /\ ParseInv
    BY InitWatchInv DEF WatchInv
  <1>2. TypeOK /\ ParseInv /\ [Next]_vars => (TypeOK /\ ParseInv)'
    BY TypeStep, ParseStep
  <1> QED BY <1>1, <1>2, PTL DEF Spec

(* Where a client is decides what it can hold, and a refusal leaves -1     *)
(* behind, whatever the daemon and the clients do.                         *)
LEMMA RefusalStep ==
    ASSUME TypeOK, RefusalInv, [Next]_vars
    PROVE  RefusalInv' /\ \A c \in Clients : result[c] = 0 => result'[c] # 1
  <1>0. /\ Failed \notin Inst /\ Pending \notin Inst /\ Failed # Pending
        /\ 0 # Pending /\ 1 # Pending /\ 0 # 1
    BY BoundsAssumption DEF Failed, Pending, Inst
  <1>1. CASE UNCHANGED clientVars
    BY <1>1 DEF clientVars, RefusalInv
  <1>2. CASE DaemonNext \/ FilesNext \/ UNCHANGED vars
    BY <1>1, <1>2
       DEF DaemonNext, Start, NewProgram, BadLine, SkipLine, AddWatch, AddWatchFails, Stat, Open,
           VerifyFault, Hash, createlistensock, Accept, Serve, ServeFault, Crash,
           FilesNext, Modify, Unlink, RenameAway, Replace, vars
  <1>3. ASSUME NEW c \in Clients, ClientNext(c)
        PROVE  RefusalInv' /\ \A d \in Clients : result[d] = 0 => result'[d] # 1
    <2> USE <1>0 DEF RefusalInv, TypeOK, GiveUp, Return
    <2>1. CASE InitConnect(c) BY <2>1 DEF InitConnect
    <2>2. CASE InitInProgress(c) BY <2>2 DEF InitInProgress
    <2>3. CASE InitFails(c) BY <2>3 DEF InitFails
    <2>4. CASE Connected(c) BY <1>1, <2>4 DEF Connected
    <2>5. CASE lliowd_getwatchfd(c)
      <3>1. conn[c] = "fd" => sent[c] \in Inst OBVIOUS
      <3> QED BY <2>5, <3>1 DEF lliowd_getwatchfd
    <2>6. CASE OkCall(c) BY <2>6 DEF OkCall
    <2>7. CASE OkWait(c) BY <2>7 DEF OkWait
    <2>8. CASE OkPoll(c)
      <3>1. CASE event[watchfd[c]]
        <4>1. GiveUp(c) /\ Return(c, 0) BY <2>8, <3>1 DEF OkPoll
        <4> QED BY <4>1
      <3>2. CASE ~event[watchfd[c]] BY <2>8, <3>2 DEF OkPoll
      <3> QED BY <3>1, <3>2
    <2>9. CASE PollFault(c) BY <2>9 DEF PollFault
    <2> QED BY <1>3, <2>1, <2>2, <2>3, <2>4, <2>5, <2>6, <2>7, <2>8, <2>9 DEF ClientNext
  <1> QED BY <1>2, <1>3 DEF Next

(* Clients begin without a descriptor and without an answer.               *)
LEMMA InitRefusal == Init => RefusalInv
  BY BoundsAssumption DEF Init, RefusalInv, Failed, Pending, Inst

(* A client never gets a 1 from lliowd_ok() after a 0.                     *)
THEOREM RefusalIsFinal ==
    Spec => RefusalFinal
  BY InitRefusal, RefusalStep, TypeCorrectness, PTL DEF Spec, RefusalFinal

(* The file line parse_config is at belongs to the program added last: it  *)
(* is one of the lines after that program's own.                           *)
LEMMA CurrentIsLast ==
    ASSUME TypeOK, ParseInv, fileLine
    PROVE  line \in FileLines(progs[Len(progs)].at)
  <1> DEFINE z == Len(progs)
             n == progs[z].at
  <1>1. /\ z \in DOMAIN progs /\ DOMAIN progs = 1..z /\ z \in Nat /\ line \in Nat
        /\ \A i \in DOMAIN progs : progs[i].at \in Nat
        /\ DOMAIN config = 1..Len(config) /\ config \in Seq(Line) /\ Len(config) \in Nat
    BY ProgTypes DEF fileLine
  <1>2. dpc # "down" /\ n \in DOMAIN config /\ n < line
    BY <1>1 DEF fileLine, ParseInv
  <1>3. ASSUME NEW m \in (n+1)..line PROVE config[m].kind = "file"
    <2>1. CASE m = line BY <2>1 DEF fileLine, curLine
    <2>2. CASE m < line
      <3>1. m \in DOMAIN config BY <1>1, <1>2, <2>2 DEF fileLine
      <3>2. config[m].kind \in {"prog", "file"}
        <4>1. config[m] \in Line BY <3>1, LineTypes
        <4> QED BY <4>1 DEF Line
      <3>3. ASSUME config[m].kind = "prog" PROVE FALSE
        <4>1. PICK i \in DOMAIN progs : progs[i].at = m
          BY <1>2, <2>2, <3>1, <3>3 DEF ParseInv
        <4>2. progs[i].at <= n BY <1>1, <4>1 DEF ParseInv
        <4> QED BY <1>1, <4>1, <4>2
      <3> QED BY <3>2, <3>3
    <2> QED BY <1>1, <2>1, <2>2
  <1> QED BY <1>2, <1>3 DEF FileLines, fileLine

(* What findprog finds was begun by the first line of that name; if it     *)
(* finds nothing, there is none.                                           *)
LEMMA FoundLine ==
    ASSUME TypeOK, ParseInv, dpc = "serve", NEW name
    PROVE  /\ \A i \in findprog(name) : i \in DOMAIN progs /\ IsProgLine(progs[i].at, name)
           /\ findprog(name) = {} => \A n \in DOMAIN config : ~IsProgLine(n, name)
  <1>0. /\ DOMAIN config = 1..Len(config) /\ Len(config) \in Nat /\ line \in 1..(Len(config) + 1)
        /\ DOMAIN progs = 1..Len(progs) /\ Len(progs) \in Nat
        /\ \A j \in DOMAIN progs : progs[j].at \in Nat
    BY ProgTypes
  <1>1. line = Len(config) + 1
    BY <1>0 DEF ParseInv
  <1>2. \A m \in DOMAIN config : config[m].kind = "prog" => \E j \in DOMAIN progs : progs[j].at = m
    BY <1>0, <1>1 DEF ParseInv
  <1>3. ASSUME NEW i \in findprog(name)
        PROVE  i \in DOMAIN progs /\ IsProgLine(progs[i].at, name)
    <2>1. /\ i \in DOMAIN progs /\ progs[i].name = name
          /\ \A j \in 1..(i-1) : progs[j].name # name
      BY DEF findprog
    <2>2. ASSUME NEW m \in 1..(progs[i].at - 1), config[m].kind = "prog"
          PROVE  config[m].name # name
      <3>1. progs[i].at \in DOMAIN config BY <2>1 DEF ParseInv
      <3>2. m \in DOMAIN config BY <1>0, <3>1
      <3>3. PICK j \in DOMAIN progs : progs[j].at = m BY <1>2, <2>2, <3>2
      <3>4. j < i BY <1>0, <2>1, <3>3 DEF ParseInv
      <3>5. progs[j].name # name BY <1>0, <2>1, <3>4
      <3> QED BY <3>3, <3>5 DEF ParseInv
    <2> QED BY <2>1, <2>2 DEF ParseInv, IsProgLine
  <1>4. ASSUME NEW n \in DOMAIN config, IsProgLine(n, name)
        PROVE  findprog(name) # {}
    <2>1. PICK j \in DOMAIN progs : progs[j].at = n BY <1>2, <1>4 DEF IsProgLine
    <2>2. progs[j].name = name BY <1>4, <2>1 DEF IsProgLine, ParseInv
    <2>3. ASSUME NEW k \in 1..(j-1) PROVE progs[k].name # name
      <3>1. k \in DOMAIN progs /\ k < j BY <1>0
      <3>2. progs[k].at < n BY <2>1, <3>1 DEF ParseInv
      <3>3. progs[k].at \in DOMAIN config BY <3>1 DEF ParseInv
      <3>4. progs[k].at \in 1..(n-1) BY <1>0, <3>2, <3>3
      <3> QED BY <1>4, <3>1, <3>4 DEF IsProgLine, ParseInv
    <2> QED BY <2>2, <2>3 DEF findprog
  <1> QED BY <1>3, <1>4

(* What spoils the program findprog finds is a reason not to let the       *)
(* client in.                                                              *)
LEMMA SpoiledUnfit ==
    ASSUME TypeOK, NEW name, NEW n \in DOMAIN config, IsProgLine(n, name), Spoiled(n)
    PROVE  Unfit(name)
  <1>1. PICK k \in FileLines(n) : \/ config[k].form # "ok"
                                  \/ ~AsRecorded(config[k].name)
                                  \/ mtime[dir[config[k].name]] = "other"
    BY DEF Spoiled
  <1>2. k \in DOMAIN config /\ k \in (n+1)..k
    BY LineTypes DEF FileLines
  <1>3. config[k].kind = "file"
    BY <1>2 DEF FileLines
  <1>4. config[k].name \in FilesOf(name)
    BY <1>2, <1>3, LineTypes DEF FilesOf
  <1> QED BY <1>1, <1>4 DEF Unfit

(* Nothing has happened yet when the daemon starts.                        *)
LEMMA InitQuiet == Init => QuietInv
  BY BoundsAssumption DEF Init, QuietInv, Failed, Pending

(* Nothing changes files or fails in a step after which nothing has; the   *)
(* reasons not to let a program in stay the same.                          *)
LEMMA QuietFrame ==
    ASSUME TypeOK, [Next]_vars, faults' = 0, changes' = 0
    PROVE  /\ faults = 0 /\ changes = 0 /\ ~Fault /\ ~FilesNext
           /\ UNCHANGED <<config, dir, content, mtime, event>>
           /\ \A name : Unfit(name)' <=> Unfit(name)
           /\ \A n : Spoiled(n)' <=> Spoiled(n)
  <1>0. faults \in Nat /\ changes \in Nat
    BY BoundsAssumption DEF TypeOK
  <1>1. ~Fault
    BY <1>0 DEF Fault
  <1>2. ~FilesNext
    BY <1>0 DEF FilesNext, Modify, Unlink, RenameAway, Replace, Change
  <1>3. UNCHANGED <<config, dir, content, mtime, event, faults, changes>>
    <2>1. CASE DaemonNext
      BY <1>1, <2>1 DEF DaemonNext, Start, NewProgram, BadLine, SkipLine, AddWatch, AddWatchFails, Stat,
           Open, VerifyFault, Hash, createlistensock, Accept, Serve, ServeFault, Crash, fsVars
    <2>2. ASSUME NEW c \in Clients, ClientNext(c)
          PROVE  UNCHANGED <<config, dir, content, mtime, event, faults, changes>>
      BY <1>1, <2>2 DEF ClientNext, InitConnect, InitInProgress, InitFails, Connected, lliowd_getwatchfd,
           OkCall, OkWait, OkPoll, PollFault, notClient, fsVars
    <2>3. CASE UNCHANGED vars
      BY <2>3 DEF vars, fsVars
    <2> QED BY <1>2, <2>1, <2>2, <2>3 DEF Next
  <1>4. /\ \A name : Unfit(name)' <=> Unfit(name)
        /\ \A n : Spoiled(n)' <=> Spoiled(n)
    BY <1>3 DEF Unfit, Spoiled, IsProgLine, FileLines, FilesOf, AsRecorded
  <1> QED BY <1>1, <1>2, <1>3, <1>4

(* What QuietInv says of the daemon, and what it says of a client.         *)
QuietDaemon ==
    /\ \A w \in Inst : ~event[w]
    /\ dpc = "hash" => opened = dir[curLine.name]
    /\ \A i \in DOMAIN progs : progs[i].fd = Failed => Spoiled(progs[i].at)
QuietClient(c) ==
    /\ conn[c] # "refused"
    /\ conn[c] \in {"progress", "queued", "accepted"} => Listening
    /\ conn[c] \in {"hangup", "bad"} => Unfit(ExeOf[c])
    /\ watchfd[c] = Failed \/ result[c] = 0 => Unfit(ExeOf[c])

(* While nothing fails and nobody changes files, a program fails only for  *)
(* what is wrong with its own lines and files.                             *)
LEMMA QuietDaemonStep ==
    ASSUME TypeOK, ParseInv, QuietDaemon, [Next]_vars, ~Fault, ~FilesNext,
           UNCHANGED <<config, dir, content, mtime, event>>,
           \A n : Spoiled(n)' <=> Spoiled(n)
    PROVE  QuietDaemon'
  <1>0. /\ DOMAIN progs = 1..Len(progs) /\ Len(progs) \in Nat /\ line \in Nat
        /\ \A i \in DOMAIN progs : progs[i].fd \in Inst \cup {Failed}
    BY ProgTypes
  <1>1. \A w \in Inst : ~event'[w]
    BY DEF QuietDaemon
  <1>s. ASSUME UNCHANGED progs, dpc' # "hash" \/ UNCHANGED <<dpc, line, opened>>
        PROVE  QuietDaemon'
    BY <1>1, <1>s DEF QuietDaemon, curLine
  <1>x. ASSUME Exit PROVE QuietDaemon'
    BY <1>1, <1>x DEF Exit, QuietDaemon
  <1>m. ASSUME fileLine, mark_failed,
               \/ curLine.form # "ok"
               \/ ~AsRecorded(curLine.name)
               \/ mtime[dir[curLine.name]] = "other"
        PROVE  QuietDaemon'
    <2>1. /\ DOMAIN progs' = DOMAIN progs /\ dpc' = "parse"
          /\ \A i \in DOMAIN progs : /\ progs'[i].at = progs[i].at
                                     /\ progs'[i].fd = IF i = Len(progs) THEN Failed ELSE progs[i].fd
      BY <1>m, MarkFailed DEF mark_failed
    <2>2. line \in FileLines(progs[Len(progs)].at)
      BY <1>m, CurrentIsLast
    <2>3. Spoiled(progs[Len(progs)].at)
      BY <1>m, <2>2 DEF Spoiled, curLine
    <2>4. ASSUME NEW i \in DOMAIN progs', progs'[i].fd = Failed
          PROVE  Spoiled(progs'[i].at)
      BY <2>1, <2>3, <2>4 DEF QuietDaemon
    <2> QED BY <1>1, <2>1, <2>4 DEF QuietDaemon, Spoiled, FileLines, AsRecorded
  <1>2. CASE NewProgram
    <2>1. /\ Len(progs') = Len(progs) + 1 /\ DOMAIN progs' = 1..(Len(progs) + 1)
          /\ \A i \in DOMAIN progs : progs'[i] = progs[i]
      BY <1>2, NewProg
    <2>2. progs'[Len(progs) + 1].fd = ninst + 1 /\ ninst + 1 # Failed /\ dpc' = "parse"
      <3>1. progs' = Append(progs, [name |-> curLine.name, fd |-> ninst + 1, at |-> line])
        BY <1>2 DEF NewProgram
      <3>2. ninst \in Nat BY BoundsAssumption DEF TypeOK
      <3>3. progs \in Seq(Prog) BY DEF TypeOK
      <3>4. progs'[Len(progs) + 1] = [name |-> curLine.name, fd |-> ninst + 1, at |-> line]
        BY <3>1, <3>3
      <3> QED BY <1>2, <3>2, <3>4 DEF NewProgram, Failed
    <2>3. ASSUME NEW i \in DOMAIN progs', progs'[i].fd = Failed
          PROVE  Spoiled(progs'[i].at)
      <3>1. i \in DOMAIN progs BY <1>0, <2>1, <2>2, <2>3
      <3> QED BY <2>1, <2>3, <3>1 DEF QuietDaemon
    <2> QED BY <1>1, <2>2, <2>3 DEF QuietDaemon, Spoiled, FileLines, AsRecorded
  <1>3. CASE AddWatchFails
    <2>1. fname = NoInode /\ fileLine /\ mark_failed BY <1>3 DEF AddWatchFails
    <2>2. curLine.form # "ok" \/ ~AsRecorded(curLine.name)
      BY <2>1 DEF fname, AsRecorded
    <2> QED BY <2>1, <2>2, <1>m
  <1>4. CASE Stat
    <2>1. fileLine /\ curLine.form # "badline" BY <1>4 DEF Stat, ParseInv
    <2>2. CASE mark_failed /\ ~(fname # NoInode /\ mtime[fname] = "recorded")
      <3>1. curLine.name \in Paths BY <2>1, LineTypes DEF fileLine, curLine
      <3>2. fname = dir[curLine.name] /\ fname \in Inodes \cup {NoInode}
        BY <2>1, <3>1 DEF fname, TypeOK
      <3>3. fname \in Inodes => mtime[fname] \in {"recorded", "other"} BY DEF TypeOK
      <3>4. ~AsRecorded(curLine.name) \/ mtime[dir[curLine.name]] = "other"
        BY <2>2, <3>2, <3>3 DEF AsRecorded
      <3> QED BY <2>1, <2>2, <3>4, <1>m
    <2>3. CASE dpc' = "open" /\ UNCHANGED progs BY <1>s, <2>3
    <2> QED BY <1>4, <2>2, <2>3 DEF Stat
  <1>5. CASE Open
    <2>1. fileLine /\ curLine.form # "badline" /\ fname = dir[curLine.name]
      BY <1>5 DEF Open, ParseInv, fname
    <2>2. CASE mark_failed /\ fname = NoInode
      <3>1. ~AsRecorded(curLine.name) BY <2>1, <2>2 DEF AsRecorded
      <3> QED BY <2>1, <2>2, <3>1, <1>m
    <2>3. CASE opened' = fname /\ UNCHANGED <<line, progs>>
      BY <1>1, <2>1, <2>3 DEF QuietDaemon, curLine
    <2> QED BY <1>5, <2>2, <2>3 DEF Open
  <1>6. CASE Hash
    <2>1. fileLine /\ dpc = "hash" /\ opened = dir[curLine.name]
      BY <1>6 DEF Hash, ParseInv, QuietDaemon
    <2>2. CASE Exit BY <1>x, <2>2
    <2>3. CASE dpc' = "parse" /\ UNCHANGED progs BY <1>s, <2>3
    <2>4. CASE mark_failed /\ content[opened] # "good"
      <3>1. ~AsRecorded(curLine.name) BY <2>1, <2>4 DEF AsRecorded
      <3> QED BY <2>1, <2>4, <3>1, <1>m
    <2> QED BY <1>6, <2>2, <2>3, <2>4 DEF Hash
  <1>7. CASE BadLine \/ Crash BY <1>7, <1>x DEF BadLine, Crash
  <1>8. CASE Start \/ SkipLine \/ AddWatch \/ createlistensock \/ Serve \/ ServeFault
    BY <1>8, <1>s DEF Start, SkipLine, AddWatch, createlistensock, Serve, ServeFault
  <1>9. ASSUME NEW c \in Clients, Accept(c) PROVE QuietDaemon'
    BY <1>9, <1>s DEF Accept
  <1>10. CASE VerifyFault BY <1>10 DEF VerifyFault
  <1>11. ASSUME NEW c \in Clients, ClientNext(c) PROVE QuietDaemon'
    BY <1>11, <1>s DEF ClientNext, InitConnect, InitInProgress, InitFails, Connected, lliowd_getwatchfd,
                       OkCall, OkWait, OkPoll, PollFault, notClient, daemonVars
  <1>12. CASE UNCHANGED vars BY <1>12, <1>s DEF vars, daemonVars
  <1> QED BY <1>2, <1>3, <1>4, <1>5, <1>6, <1>7, <1>8, <1>9, <1>10, <1>11, <1>12 DEF Next, DaemonNext

(* While nothing fails and nobody changes files, the daemon lives on once  *)
(* it listens, and a client is turned away only if its program has to be.  *)
LEMMA QuietClientStep ==
    ASSUME TypeOK, ParseInv, RefusalInv, QuietDaemon, \A d \in Clients : QuietClient(d),
           [Next]_vars, ~Fault, ~FilesNext, \A name : Unfit(name)' <=> Unfit(name)
    PROVE  \A d \in Clients : QuietClient(d)'
  <1> DEFINE Reason(d) == Unfit(ExeOf[d])
             Lives == dpc \in {"accept", "serve"} => dpc' \in {"accept", "serve"}
  <1>0. \A d \in Clients : /\ conn[d] # "refused"
                           /\ conn[d] \in {"progress", "queued", "accepted"} => Listening
                           /\ conn[d] \in {"hangup", "bad"} => Reason(d)
                           /\ watchfd[d] = Failed \/ result[d] = 0 => Reason(d)
    BY DEF QuietClient
  <1>q. ASSUME \A d \in Clients :
                 /\ conn'[d] # "refused"
                 /\ conn'[d] \in {"progress", "queued", "accepted"} => dpc' \in {"accept", "serve"}
                 /\ conn'[d] \in {"hangup", "bad"} => Reason(d)
                 /\ watchfd'[d] = Failed \/ result'[d] = 0 => Reason(d)
        PROVE  \A d \in Clients : QuietClient(d)'
    BY <1>q DEF QuietClient, Listening
  <1> HIDE DEF Reason
  <1>s. ASSUME UNCHANGED <<conn, watchfd, result>>, Lives
        PROVE  \A d \in Clients : QuietClient(d)'
    BY <1>0, <1>q, <1>s DEF Listening
  <1>x. ASSUME Exit, UNCHANGED <<watchfd, result>>, dpc \notin {"accept", "serve"}
        PROVE  \A d \in Clients : QuietClient(d)'
    <2>1. ASSUME NEW d \in Clients
          PROVE  conn'[d] = conn[d] /\ conn[d] \notin {"progress", "queued", "accepted"}
      BY <1>0, <1>x DEF Exit, Listening
    <2> QED BY <1>0, <1>q, <1>x, <2>1
  <1>1. CASE Start \/ NewProgram \/ SkipLine \/ AddWatch \/ AddWatchFails \/ Stat \/ Open \/ createlistensock
    BY <1>1, <1>s DEF Start, NewProgram, SkipLine, AddWatch, AddWatchFails, Stat, Open, createlistensock,
                      clientVars
  <1>2. CASE BadLine
    BY <1>2, <1>x DEF BadLine, clientVars
  <1>3. CASE Hash
    <2>1. dpc = "hash" /\ UNCHANGED <<watchfd, result>> BY <1>3 DEF Hash, clientVars
    <2>2. CASE Exit BY <1>x, <2>1, <2>2
    <2>3. CASE UNCHANGED conn BY <1>s, <2>1, <2>3
    <2> QED BY <1>3, <2>2, <2>3 DEF Hash
  <1>4. CASE VerifyFault \/ ServeFault \/ Crash
    BY <1>4 DEF VerifyFault, ServeFault, Crash
  <1>5. ASSUME NEW c \in Clients, Accept(c) PROVE \A d \in Clients : QuietClient(d)'
    BY <1>0, <1>5, <1>q DEF Accept, clientVars, TypeOK
  <1>6. CASE Serve
    <2>1. /\ serving \in Clients /\ dpc = "serve" /\ dpc' = "accept" /\ UNCHANGED <<watchfd, result>>
          /\ conn \in [Clients -> {"none", "progress", "refused", "queued", "accepted",
                                   "hangup", "bad", "fd"}]
      BY <1>6 DEF Serve, ParseInv, clientVars, TypeOK
    <2>2. ASSUME NEW r \in {"hangup", "bad", "fd"}, conn' = [conn EXCEPT ![serving] = r],
                 r \in {"hangup", "bad"} => Reason(serving)
          PROVE  \A d \in Clients : QuietClient(d)'
      <3>1. ASSUME NEW d \in Clients PROVE conn'[d] = IF d = serving THEN r ELSE conn[d]
        BY <2>1, <2>2
      <3> QED BY <1>0, <1>q, <2>1, <2>2, <3>1
    <2>3. CASE findprog(ExeOf[serving]) = {} /\ conn' = [conn EXCEPT ![serving] = "hangup"]
      <3>1. \A n \in DOMAIN config : ~IsProgLine(n, ExeOf[serving])
        BY <2>1, <2>3, FoundLine
      <3>2. Reason(serving) BY <3>1 DEF Reason, Unfit
      <3> QED BY <2>2, <2>3, <3>2
    <2>4. ASSUME NEW i \in findprog(ExeOf[serving]), progs[i].fd = Failed,
                 conn' = [conn EXCEPT ![serving] = "bad"]
          PROVE  \A d \in Clients : QuietClient(d)'
      <3>1. i \in DOMAIN progs /\ IsProgLine(progs[i].at, ExeOf[serving])
        BY <2>1, FoundLine
      <3>2. progs[i].at \in DOMAIN config /\ Spoiled(progs[i].at)
        BY <2>4, <3>1 DEF ParseInv, QuietDaemon
      <3>3. Reason(serving) BY <3>1, <3>2, SpoiledUnfit DEF Reason
      <3> QED BY <2>2, <2>4, <3>3
    <2>5. CASE conn' = [conn EXCEPT ![serving] = "fd"]
      BY <2>2, <2>5
    <2> QED BY <1>6, <2>3, <2>4, <2>5 DEF Serve
  <1>7. ASSUME NEW c \in Clients, ClientNext(c) PROVE \A d \in Clients : QuietClient(d)'
    <2>0. /\ \A d \in Clients : watchfd[d] \in Inst \cup {Failed, Pending}
          /\ \A d \in Clients : conn[d] = "fd" => sent[d] \in Inst
          /\ Failed \notin Inst /\ Failed # Pending
          /\ watchfd = [d \in Clients |-> watchfd[d]] /\ conn = [d \in Clients |-> conn[d]]
          /\ result = [d \in Clients |-> result[d]]
      BY BoundsAssumption DEF TypeOK, Failed, Pending, Inst
    <2>l. dpc' = dpc
      BY <1>7 DEF ClientNext, InitConnect, InitInProgress, InitFails, Connected, lliowd_getwatchfd,
                  OkCall, OkWait, OkPoll, PollFault, notClient, daemonVars
    <2> USE DEF GiveUp, Return, Listening
    <2>1. CASE InitConnect(c) BY <1>0, <1>q, <2>0, <2>1, <2>l DEF InitConnect
    <2>2. CASE InitInProgress(c) BY <1>0, <1>q, <2>0, <2>2, <2>l DEF InitInProgress
    <2>3. CASE InitFails(c) \/ PollFault(c) BY <2>3 DEF InitFails, PollFault
    <2>4. CASE Connected(c) BY <1>0, <1>q, <2>0, <2>4, <2>l DEF Connected, clientVars
    <2>5. CASE lliowd_getwatchfd(c)
      <3>1. conn[c] \in {"hangup", "bad"} => Reason(c) BY <1>0
      <3> QED BY <1>0, <1>q, <2>0, <2>5, <2>l, <3>1 DEF lliowd_getwatchfd
    <2>6. CASE OkCall(c) BY <1>0, <1>q, <2>0, <2>6, <2>l DEF OkCall
    <2>7. CASE OkWait(c)
      <3>1. conn[c] # "refused" /\ UNCHANGED <<watchfd, result>> BY <1>0, <2>7 DEF OkWait
      <3>2. conn' = IF watchfd[c] = Failed THEN [conn EXCEPT ![c] = "none"] ELSE conn
        BY <2>7, <3>1 DEF OkWait
      <3> QED BY <1>0, <1>q, <2>0, <2>l, <3>1, <3>2
    <2>8. CASE OkPoll(c)
      <3>1. ~event[watchfd[c]] BY <2>8 DEF OkPoll, RefusalInv, QuietDaemon
      <3> QED BY <1>0, <1>q, <2>0, <2>8, <2>l, <3>1 DEF OkPoll
    <2> QED BY <1>7, <2>1, <2>2, <2>3, <2>4, <2>5, <2>6, <2>7, <2>8 DEF ClientNext
  <1>8. CASE UNCHANGED vars
    BY <1>8, <1>s DEF vars, daemonVars, clientVars
  <1> QED BY <1>1, <1>2, <1>3, <1>4, <1>5, <1>6, <1>7, <1>8 DEF Next, DaemonNext

(* While nothing fails and nobody changes files, nobody is refused without *)
(* a reason, for every configuration file and any number of clients: one   *)
(* program's bad files or lines never spoil another's.                     *)
THEOREM RefusalsHaveReasons == Spec => []NoSpuriousRefusal
  <1> DEFINE I == TypeOK /\ ParseInv /\ RefusalInv /\ QuietInv
  <1>1. Init => I
    BY InitWatchInv, InitRefusal, InitQuiet DEF WatchInv
  <1>2. I /\ [Next]_vars => I'
    <2> SUFFICES ASSUME I, [Next]_vars PROVE I'
      OBVIOUS
    <2>1. TypeOK' /\ ParseInv' /\ RefusalInv'
      BY TypeStep, ParseStep, RefusalStep
    <2>2. ASSUME faults' = 0, changes' = 0
          PROVE  QuietDaemon' /\ \A d \in Clients : QuietClient(d)'
      <3>1. /\ faults = 0 /\ changes = 0 /\ ~Fault /\ ~FilesNext
            /\ UNCHANGED <<config, dir, content, mtime, event>>
            /\ \A name : Unfit(name)' <=> Unfit(name)
            /\ \A n : Spoiled(n)' <=> Spoiled(n)
        BY <2>2, QuietFrame
      <3>2. QuietDaemon /\ \A d \in Clients : QuietClient(d)
        BY <3>1 DEF QuietInv, QuietDaemon, QuietClient
      <3> QED BY <3>1, <3>2, QuietDaemonStep, QuietClientStep
    <2>3. QuietInv'
      BY <2>2 DEF QuietInv, QuietDaemon, QuietClient
    <2> QED BY <2>1, <2>3
  <1>3. I => NoSpuriousRefusal
    BY DEF QuietInv, NoSpuriousRefusal
  <1> QED BY <1>1, <1>2, <1>3, PTL DEF Spec

=============================================================================
