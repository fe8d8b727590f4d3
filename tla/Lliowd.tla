------------------------------- MODULE Lliowd -------------------------------
(***************************************************************************)
(* The watch daemon (lliowd/main.cpp) and the client library linked into   *)
(* a specialised program (lliowd/clientlib.c).  LLPE specialises a program *)
(* on the contents of files; at run time the specialised code may only be  *)
(* used while those files are still what they were.  The daemon verifies   *)
(* them once at startup, having put an inotify watch on each, and hands    *)
(* the inotify descriptor to every client, which polls it before using     *)
(* specialised code.                                                       *)
(*                                                                         *)
(* The file system and inotify are external: a path names an inode, an     *)
(* inode has a content and an mtime, and a change of a watched inode makes *)
(* every inotify instance that watches it readable.                        *)
(***************************************************************************)
EXTENDS Integers, Sequences, FiniteSets

CONSTANTS
    Configs,     \* configuration files: sequences of lines, blank ones left out
    Paths,       \* file names
    Inodes,      \* inode objects
    NoInode,     \* a path that does not exist
    Clients,     \* client processes
    NoClient,    \* the daemon serves nobody
    ExeOf,       \* what /proc/<pid>/exe of each client says
    MaxInst,     \* bound: inotify instances created over the whole run
    MaxChanges,  \* bound: changes other processes make to the files
    MaxFaults,   \* bound: failing system calls, crashes, refused connections
    RenamesAway  \* whether other processes rename watched files away

Line == [kind : {"prog", "file"}, name : STRING \cup Paths,
         form : {"ok", "badline", "badhash"}]

ASSUME ConfigAssumption ==
    \A cf \in Configs : /\ cf \in Seq(Line)
                        /\ \A n \in DOMAIN cf : cf[n].kind = "file" => cf[n].name \in Paths
ASSUME BoundsAssumption == /\ MaxInst \in Nat
                           /\ MaxChanges \in Nat
                           /\ MaxFaults \in Nat
ASSUME NamesAssumption  == /\ NoInode \notin Inodes
                           /\ NoClient \notin Clients
                           /\ RenamesAway \in BOOLEAN

Failed  == -1      \* watch_fd and lliowd_watchfd: do not use specialised code
Pending == -2      \* lliowd_watchfd: connection not completed yet
Inst    == 1..MaxInst

VARIABLES
    config,               \* the configuration file (nothing changes it)
    dir, content, mtime,  \* file system: path -> inode, inode -> what is in it
    watch, event,         \* inotify: instance -> watched inodes, readable?
    ninst,                \* inotify instances created so far
    dpc,                  \* where the daemon is
    line,                 \* next line of the configuration file
    progs,                \* std::vector<spec_program> progs; "at", the line that began
                          \* the program, is there for the properties only
    opened,               \* inode behind filefd
    serving,              \* client behind the daemon's connfd
    cpc,                  \* where each client is in clientlib.c
    conn, sent,           \* each client's socket; the descriptor sent over it
    watchfd,              \* lliowd_watchfd of each client
    result,               \* what lliowd_ok() last returned
    changes, faults       \* counters for the bounds

fsVars     == <<config, dir, content, mtime>>
daemonVars == <<dpc, line, progs, opened, serving>>
clientVars == <<cpc, watchfd, result>>
vars == <<fsVars, watch, event, ninst, daemonVars, clientVars, conn, sent,
          changes, faults>>

(***************************************************************************)
(* The daemon: parse_config.                                               *)
(***************************************************************************)
curLine == config[line]
curFd   == progs[Len(progs)].fd

(* The line is a file line that the loop does not skip: it belongs to a    *)
(* program that has not failed yet.                                        *)
fileLine == /\ line \in DOMAIN config
            /\ curLine.kind = "file"
            /\ progs # <<>>
            /\ curFd # Failed

(* What fname names.  hashstart and timestart are 32 bits wide, so they    *)
(* never equal std::string::npos: a line without three fields is not found *)
(* out, and fname is the whole line, which names no file.                  *)
fname == IF curLine.form = "badline" THEN NoInode ELSE dir[curLine.name]

Fault == faults < MaxFaults /\ faults' = faults + 1

(* Mutant of mark_failed: every program fails with the last one.           *)
mark_failed_all == /\ progs' = [i \in DOMAIN progs |-> [progs[i] EXCEPT !.fd = Failed]]
                   /\ line' = line + 1
                   /\ dpc' = "parse"
                   /\ opened' = NoInode
                   /\ UNCHANGED serving

mark_failed == /\ progs' = [progs EXCEPT ![Len(progs)].fd = Failed]
               /\ line' = line + 1
               /\ dpc' = "parse"
               /\ opened' = NoInode
               /\ UNCHANGED serving

Exit == /\ dpc' = "down"
        /\ progs' = <<>>
        /\ opened' = NoInode
        /\ serving' = NoClient
        /\ conn' = [c \in Clients |-> IF conn[c] \in {"queued", "accepted"}
                                        THEN "hangup" ELSE conn[c]]
        /\ UNCHANGED line

(* main() starts, or is started again after a crash: progs is empty.       *)
Start == /\ dpc = "down"
         /\ dpc' = "parse"
         /\ line' = 1
         /\ UNCHANGED <<progs, opened, serving, fsVars, watch, event, ninst,
                        clientVars, conn, sent, changes, faults>>

NewProgram ==
    /\ dpc = "parse" /\ line \in DOMAIN config
    /\ curLine.kind = "prog"
    /\ ninst < MaxInst
    /\ ninst' = ninst + 1
    /\ progs' = Append(progs, [name |-> curLine.name, fd |-> ninst + 1, at |-> line])
    /\ line' = line + 1
    /\ UNCHANGED <<dpc, opened, serving, fsVars, watch, event, clientVars,
                   conn, sent, changes, faults>>

(* A file line before any program.                                         *)
BadLine ==
    /\ dpc = "parse" /\ line \in DOMAIN config
    /\ curLine.kind = "file"
    /\ progs = <<>>
    /\ Exit
    /\ UNCHANGED <<fsVars, watch, event, ninst, clientVars, sent, changes, faults>>

SkipLine ==
    /\ dpc = "parse" /\ line \in DOMAIN config
    /\ curLine.kind = "file"
    /\ progs # <<>> /\ curFd = Failed
    /\ line' = line + 1
    /\ UNCHANGED <<dpc, progs, opened, serving, fsVars, watch, event, ninst,
                   clientVars, conn, sent, changes, faults>>

(* "Add an inotify watch before verifying file, to avoid race."            *)
AddWatch ==
    /\ dpc = "parse" /\ fileLine
    /\ fname # NoInode
    /\ watch' = [watch EXCEPT ![curFd] = @ \cup {fname}]
    /\ dpc' = "stat"
    /\ UNCHANGED <<line, progs, opened, serving, fsVars, event, ninst,
                   clientVars, conn, sent, changes, faults>>

AddWatchFails ==
    /\ dpc = "parse" /\ fileLine
    /\ \/ fname = NoInode /\ UNCHANGED faults
       \/ Fault
    /\ mark_failed
    /\ UNCHANGED <<fsVars, watch, event, ninst, clientVars, conn, sent, changes>>

Stat ==
    /\ dpc = "stat"
    /\ IF fname # NoInode /\ mtime[fname] = "recorded"
         THEN /\ dpc' = "open"
              /\ UNCHANGED <<line, progs, opened, serving>>
         ELSE mark_failed
    /\ UNCHANGED <<fsVars, watch, event, ninst, clientVars, conn, sent, changes, faults>>

Open ==
    /\ dpc = "open"
    /\ IF fname # NoInode
         THEN /\ opened' = fname
              /\ dpc' = "hash"
              /\ UNCHANGED <<line, progs, serving>>
         ELSE mark_failed
    /\ UNCHANGED <<fsVars, watch, event, ninst, clientVars, conn, sent, changes, faults>>

(* stat, open or read fails although the file is there.                    *)
VerifyFault ==
    /\ dpc \in {"stat", "open", "hash"}
    /\ Fault
    /\ mark_failed
    /\ UNCHANGED <<fsVars, watch, event, ninst, clientVars, conn, sent, changes>>

(* Mutant of Hash: the hash is parsed but not compared.                    *)
HashUncompared ==
    /\ dpc = "hash"
    /\ \/ curLine.form = "badhash" /\ Exit
       \/ /\ curLine.form = "ok"
          /\ line' = line + 1
          /\ dpc' = "parse"
          /\ opened' = NoInode
          /\ UNCHANGED <<progs, serving, conn>>
    /\ UNCHANGED <<fsVars, watch, event, ninst, clientVars, sent, changes, faults>>

(* Read the whole file through filefd, then parse and compare the hash.    *)
Hash ==
    /\ dpc = "hash"
    /\ \/ /\ curLine.form = "badhash"
          /\ Exit
       \/ /\ curLine.form = "ok"
          /\ IF content[opened] = "good"
               THEN /\ line' = line + 1
                    /\ dpc' = "parse"
                    /\ opened' = NoInode
                    /\ UNCHANGED <<progs, serving>>
               ELSE mark_failed
          /\ UNCHANGED conn
    /\ UNCHANGED <<fsVars, watch, event, ninst, clientVars, sent, changes, faults>>

(***************************************************************************)
(* The daemon: createlistensock and the loop of main.                      *)
(***************************************************************************)
createlistensock ==
    /\ dpc = "parse" /\ line \notin DOMAIN config
    /\ dpc' = "accept"
    /\ UNCHANGED <<line, progs, opened, serving, fsVars, watch, event, ninst,
                   clientVars, conn, sent, changes, faults>>

Listening == dpc \in {"accept", "serve"}

Accept(c) ==
    /\ dpc = "accept"
    /\ conn[c] = "queued"
    /\ conn' = [conn EXCEPT ![c] = "accepted"]
    /\ serving' = c
    /\ dpc' = "serve"
    /\ UNCHANGED <<line, progs, opened, fsVars, watch, event, ninst,
                   clientVars, sent, changes, faults>>

(* Where the first program of that name is: no or one index.               *)
findprog(name) == {i \in DOMAIN progs : /\ progs[i].name = name
                                        /\ \A j \in 1..(i-1) : progs[j].name # name}

(* Answer the client and close its connection: nothing for an unknown      *)
(* program, "\0" for one whose files did not verify, else "\1" and the     *)
(* inotify descriptor.                                                     *)
Serve ==
    /\ dpc = "serve"
    /\ LET found == findprog(ExeOf[serving]) IN
         \/ /\ found = {}
            /\ conn' = [conn EXCEPT ![serving] = "hangup"]
            /\ UNCHANGED sent
         \/ \E i \in found :
            IF progs[i].fd = Failed
              THEN /\ conn' = [conn EXCEPT ![serving] = "bad"]
                   /\ UNCHANGED sent
              ELSE /\ conn' = [conn EXCEPT ![serving] = "fd"]
                   /\ sent' = [sent EXCEPT ![serving] = progs[i].fd]
    /\ serving' = NoClient
    /\ dpc' = "accept"
    /\ UNCHANGED <<line, progs, opened, fsVars, watch, event, ninst,
                   clientVars, changes, faults>>

(* Mutant of ServeFault: continue without close(connfd).                   *)
ServeFaultKeepsOpen ==
    /\ dpc = "serve"
    /\ Fault
    /\ serving' = NoClient
    /\ dpc' = "accept"
    /\ UNCHANGED <<line, progs, opened, fsVars, watch, event, ninst,
                   clientVars, conn, sent, changes>>

(* getsockopt, readlink or sendmsg fails: the connection is closed.        *)
ServeFault ==
    /\ dpc = "serve"
    /\ Fault
    /\ conn' = [conn EXCEPT ![serving] = "hangup"]
    /\ serving' = NoClient
    /\ dpc' = "accept"
    /\ UNCHANGED <<line, progs, opened, fsVars, watch, event, ninst,
                   clientVars, sent, changes>>

(* The daemon is killed, or takes one of the exit(1)s that depend on a     *)
(* failing call.  Inotify instances a client holds stay open.              *)
Crash ==
    /\ dpc # "down"
    /\ Fault
    /\ Exit
    /\ UNCHANGED <<fsVars, watch, event, ninst, clientVars, sent, changes>>

(***************************************************************************)
(* The client: lliowd_init, lliowd_getwatchfd and lliowd_ok.               *)
(***************************************************************************)
Return(c, r) == /\ cpc' = [cpc EXCEPT ![c] = "idle"]
                /\ result' = [result EXCEPT ![c] = r]

GiveUp(c) == watchfd' = [watchfd EXCEPT ![c] = Failed]

notClient == <<fsVars, watch, event, ninst, daemonVars, changes>>

(* lliowd_init, connect() returned 0: go on to the blocking recvmsg.       *)
InitConnect(c) ==
    /\ cpc[c] = "start" /\ Listening
    /\ conn' = [conn EXCEPT ![c] = "queued"]
    /\ cpc' = [cpc EXCEPT ![c] = "initrecv"]
    /\ UNCHANGED <<notClient, watchfd, result, sent, faults>>

(* lliowd_init, connect() says EINPROGRESS: lliowd_ok finishes the work.   *)
InitInProgress(c) ==
    /\ cpc[c] = "start" /\ Listening
    /\ conn' = [conn EXCEPT ![c] = "progress"]
    /\ cpc' = [cpc EXCEPT ![c] = "idle"]
    /\ UNCHANGED <<notClient, watchfd, result, sent, faults>>

(* lliowd_init, socket, HOME or connect() fails.                           *)
InitFails(c) ==
    /\ cpc[c] = "start"
    /\ Fault
    /\ GiveUp(c)
    /\ cpc' = [cpc EXCEPT ![c] = "idle"]
    /\ UNCHANGED <<notClient, result, conn, sent>>

(* The kernel completes a connection in progress.                          *)
Connected(c) ==
    /\ conn[c] = "progress"
    /\ \/ /\ Listening
          /\ conn' = [conn EXCEPT ![c] = "queued"]
          /\ UNCHANGED faults
       \/ /\ Fault
          /\ conn' = [conn EXCEPT ![c] = "refused"]
    /\ UNCHANGED <<notClient, clientVars, sent>>

(* Mutant of lliowd_getwatchfd: a "\0" answer is not looked at.            *)
getwatchfd_unread(c) ==
    /\ cpc[c] \in {"initrecv", "okrecv"}
    /\ conn[c] \in {"hangup", "bad", "fd"}
    /\ conn' = [conn EXCEPT ![c] = "none"]
    /\ watchfd' = [watchfd EXCEPT ![c] = IF conn[c] = "hangup" THEN Failed ELSE sent[c]]
    /\ cpc' = [cpc EXCEPT ![c] = "idle"]
    /\ UNCHANGED <<notClient, result, sent, faults>>

(* lliowd_getwatchfd: recvmsg returns once the daemon answered or hung up. *)
lliowd_getwatchfd(c) ==
    /\ cpc[c] \in {"initrecv", "okrecv"}
    /\ conn[c] \in {"hangup", "bad", "fd"}
    /\ conn' = [conn EXCEPT ![c] = "none"]
    /\ IF conn[c] = "fd"
         THEN /\ watchfd' = [watchfd EXCEPT ![c] = sent[c]]
              /\ cpc' = [cpc EXCEPT ![c] = IF @ = "okrecv" THEN "poll" ELSE "idle"]
              /\ UNCHANGED result
         ELSE /\ GiveUp(c)
              /\ IF cpc[c] = "okrecv"
                   THEN Return(c, 0)
                   ELSE cpc' = [cpc EXCEPT ![c] = "idle"] /\ UNCHANGED result
    /\ UNCHANGED <<notClient, sent, faults>>

(* lliowd_ok is entered: three cases on lliowd_watchfd.                    *)
OkCall(c) ==
    /\ cpc[c] = "idle"
    /\ \/ watchfd[c] = Failed /\ Return(c, 0)
       \/ watchfd[c] = Pending /\ cpc' = [cpc EXCEPT ![c] = "wait"] /\ UNCHANGED result
       \/ watchfd[c] \in Inst /\ cpc' = [cpc EXCEPT ![c] = "poll"] /\ UNCHANGED result
    /\ UNCHANGED <<notClient, watchfd, conn, sent, faults>>

(* poll(connfd, POLLOUT, 5000), then SO_ERROR.                             *)
OkWait(c) ==
    /\ cpc[c] = "wait"
    /\ \/ /\ conn[c] \notin {"progress", "refused"}
          /\ cpc' = [cpc EXCEPT ![c] = "okrecv"]
          /\ UNCHANGED <<watchfd, result, faults>>
       \/ /\ conn[c] = "refused"
          /\ GiveUp(c) /\ Return(c, 0)
          /\ UNCHANGED faults
       \/ /\ conn[c] = "progress"    \* five seconds pass
          /\ Fault
          /\ GiveUp(c) /\ Return(c, 0)
    /\ conn' = IF watchfd'[c] = Failed THEN [conn EXCEPT ![c] = "none"] ELSE conn
    /\ UNCHANGED <<notClient, sent>>

(* Mutant of OkPoll: the events are read, which makes the descriptor, that *)
(* all clients of the program share, unreadable again.                     *)
OkPollDrains(c) ==
    /\ cpc[c] = "poll"
    /\ IF event[watchfd[c]]
         THEN /\ GiveUp(c) /\ Return(c, 0)
              /\ event' = [event EXCEPT ![watchfd[c]] = FALSE]
         ELSE Return(c, 1) /\ UNCHANGED <<watchfd, event>>
    /\ UNCHANGED <<fsVars, watch, ninst, daemonVars, changes, conn, sent, faults>>

(* poll(watchfd, POLLIN, 0): nothing is read from the descriptor.          *)
OkPoll(c) ==
    /\ cpc[c] = "poll"
    /\ IF event[watchfd[c]]
         THEN GiveUp(c) /\ Return(c, 0)
         ELSE Return(c, 1) /\ UNCHANGED watchfd
    /\ UNCHANGED <<notClient, conn, sent, faults>>

(* Mutant of PollFault: lliowd_watchfd keeps its value.                    *)
PollFaultRetries(c) ==
    /\ cpc[c] = "poll"
    /\ Fault
    /\ Return(c, 0)
    /\ UNCHANGED <<notClient, watchfd, conn, sent>>

PollFault(c) ==
    /\ cpc[c] = "poll"
    /\ Fault
    /\ GiveUp(c) /\ Return(c, 0)
    /\ UNCHANGED <<notClient, conn, sent>>

(***************************************************************************)
(* The file system and inotify (external).                                 *)
(***************************************************************************)
(* Every instance watching inode i has an event queued.                    *)
Notify(i) == event' = [w \in Inst |-> event[w] \/ i \in watch[w]]

Change == changes < MaxChanges /\ changes' = changes + 1

Fresh(i) == /\ i # opened
            /\ \A p \in Paths : dir[p] # i
            /\ \A w \in Inst : i \notin watch[w]

(* A write or a touch: IN_MODIFY or IN_ATTRIB.  A write within the same    *)
(* second leaves st_mtime as it was.                                       *)
Modify(p) ==
    /\ Change
    /\ dir[p] # NoInode
    /\ \E v \in {"good", "bad"}, t \in {"recorded", "other"} :
         /\ content' = [content EXCEPT ![dir[p]] = v]
         /\ mtime' = [mtime EXCEPT ![dir[p]] = t]
    /\ Notify(dir[p])
    /\ UNCHANGED <<config, dir, watch, ninst, daemonVars, clientVars, conn, sent, faults>>

(* unlink: IN_ATTRIB (the link count) and IN_DELETE_SELF.                  *)
Unlink(p) ==
    /\ Change
    /\ dir[p] # NoInode
    /\ dir' = [dir EXCEPT ![p] = NoInode]
    /\ Notify(dir[p])
    /\ UNCHANGED <<config, content, mtime, watch, ninst, daemonVars, clientVars, conn,
                   sent, faults>>

(* Create the path, or rename another file over it: the inode that loses   *)
(* its link is notified.                                                   *)
Replace(p, i) ==
    /\ Change
    /\ Fresh(i)
    /\ dir' = [dir EXCEPT ![p] = i]
    /\ \E v \in {"good", "bad"}, t \in {"recorded", "other"} :
         /\ content' = [content EXCEPT ![i] = v]
         /\ mtime' = [mtime EXCEPT ![i] = t]
    /\ Notify(dir[p])
    /\ UNCHANGED <<config, watch, ninst, daemonVars, clientVars, conn, sent, faults>>

(* Rename the file to a name nobody watches.  The moved inode only gets    *)
(* IN_MOVE_SELF, which the mask given to inotify_add_watch leaves out.     *)
RenameAway(p) ==
    /\ RenamesAway
    /\ Change
    /\ dir[p] # NoInode
    /\ dir' = [dir EXCEPT ![p] = NoInode]
    /\ UNCHANGED <<config, content, mtime, watch, event, ninst, daemonVars, clientVars,
                   conn, sent, faults>>

(***************************************************************************)
(* The specification.                                                      *)
(***************************************************************************)
Init ==
    /\ config \in Configs
    /\ dir \in [Paths -> Inodes \cup {NoInode}]
    /\ \A p, q \in Paths : p # q /\ dir[p] = dir[q] => dir[p] = NoInode
    /\ content \in [Inodes -> {"good", "bad"}]
    /\ mtime \in [Inodes -> {"recorded", "other"}]
    /\ \A i \in Inodes : (\A p \in Paths : dir[p] # i) => content[i] = "bad" /\ mtime[i] = "other"
    /\ watch = [w \in Inst |-> {}]
    /\ event = [w \in Inst |-> FALSE]
    /\ ninst = 0
    /\ dpc = "down" /\ line = 1 /\ progs = <<>>
    /\ opened = NoInode /\ serving = NoClient
    /\ cpc = [c \in Clients |-> "start"]
    /\ conn = [c \in Clients |-> "none"]
    /\ sent = [c \in Clients |-> 0]
    /\ watchfd = [c \in Clients |-> Pending]
    /\ result = [c \in Clients |-> Pending]
    /\ changes = 0 /\ faults = 0

DaemonNext == \/ Start \/ NewProgram \/ BadLine \/ SkipLine
              \/ AddWatch \/ AddWatchFails \/ Stat \/ Open \/ VerifyFault \/ Hash
              \/ createlistensock \/ (\E c \in Clients : Accept(c))
              \/ Serve \/ ServeFault \/ Crash

ClientNext(c) == \/ InitConnect(c) \/ InitInProgress(c) \/ InitFails(c)
                 \/ Connected(c) \/ lliowd_getwatchfd(c)
                 \/ OkCall(c) \/ OkWait(c) \/ OkPoll(c) \/ PollFault(c)

FilesNext == \E p \in Paths : \/ Modify(p) \/ Unlink(p) \/ RenameAway(p)
                              \/ \E i \in Inodes : Replace(p, i)

Next == DaemonNext \/ (\E c \in Clients : ClientNext(c)) \/ FilesNext

Spec == Init /\ [][Next]_vars

(* The daemon and the clients keep running; nothing is assumed of the      *)
(* processes that change files, nor that a daemon that died is restarted.  *)
Fairness == /\ WF_vars((\E c \in Clients : Accept(c)) \/ Serve)
            /\ \A c \in Clients : WF_vars(lliowd_getwatchfd(c) \/ OkWait(c) \/ OkPoll(c))

FairSpec == Spec /\ Fairness

(***************************************************************************)
(* Properties.                                                             *)
(***************************************************************************)
Prog == [name : STRING \cup Paths, fd : Inst \cup {Failed}, at : Nat]

(* Where the daemon and each client may be, and what their descriptors,    *)
(* sockets and programs may be there.                                      *)
TypeOK ==
    /\ config \in Configs
    /\ dir \in [Paths -> Inodes \cup {NoInode}]
    /\ content \in [Inodes -> {"good", "bad"}]
    /\ mtime \in [Inodes -> {"recorded", "other"}]
    /\ watch \in [Inst -> SUBSET (Inodes \cup {NoInode})]
    /\ event \in [Inst -> BOOLEAN]
    /\ ninst \in 0..MaxInst
    /\ dpc \in {"down", "parse", "stat", "open", "hash", "accept", "serve"}
    /\ line \in 1..(Len(config) + 1)
    /\ progs \in Seq(Prog)
    /\ opened \in Inodes \cup {NoInode}
    /\ serving \in Clients \cup {NoClient}
    /\ cpc \in [Clients -> {"start", "idle", "initrecv", "wait", "okrecv", "poll"}]
    /\ conn \in [Clients -> {"none", "progress", "refused", "queued", "accepted",
                             "hangup", "bad", "fd"}]
    /\ sent \in [Clients -> Inst \cup {0}]
    /\ \A c \in Clients : conn[c] = "fd" => sent[c] # 0
    /\ watchfd \in [Clients -> Inst \cup {Failed, Pending}]
    /\ result \in [Clients -> {0, 1, Pending}]
    /\ changes \in 0..MaxChanges /\ faults \in 0..MaxFaults

(* The line of the configuration that findprog(name) is about, and the     *)
(* file lines that belong to a program line.                               *)
IsProgLine(n, name) == /\ n \in DOMAIN config
                       /\ config[n].kind = "prog" /\ config[n].name = name
                       /\ \A m \in 1..(n-1) : config[m].kind = "prog" => config[m].name # name
FileLines(n) == {k \in DOMAIN config : /\ n < k
                                       /\ \A m \in (n+1)..k : config[m].kind = "file"}
FilesOf(name) == {p \in Paths : \E n \in DOMAIN config : \E k \in FileLines(n) :
                                   IsProgLine(n, name) /\ config[k].name = p}
AsRecorded(p) == dir[p] # NoInode /\ content[dir[p]] = "good"

(* What lliowd_ok()'s "All is well! Use specialised code" rests on: while  *)
(* the descriptor a client holds is not readable, every file its program   *)
(* was specialised on exists and has the recorded content, whatever        *)
(* happened to the files before, during and after the daemon's             *)
(* verification and however often the daemon died and came back.           *)
WatchSound ==
    \A c \in Clients : watchfd[c] \in Inst /\ ~event[watchfd[c]] =>
        \A p \in FilesOf(ExeOf[c]) : AsRecorded(p)

(* The strengthening WatchSound is proved from.  An instance that is not   *)
(* readable watches the very inode each verified path names, so that no    *)
(* change can pass it by; while a file is being verified the same already  *)
(* holds of its watch.                                                     *)
Covered(w, p) == ~event[w] => dir[p] \in watch[w] /\ dir[p] # NoInode
Good(w, p) == Covered(w, p) /\ (~event[w] => content[dir[p]] = "good")

(* Control: what is true of progs and line at each point of the parse.     *)
ParseInv ==
    /\ dpc = "down" => progs = <<>>
    /\ dpc \in {"stat", "open", "hash"} => fileLine /\ curLine.form # "badline"
    /\ dpc \in {"accept", "serve"} => line \notin DOMAIN config
    /\ dpc = "serve" => serving \in Clients
    /\ dpc = "hash" => opened \in Inodes
    /\ \A i \in DOMAIN progs : /\ progs[i].at \in DOMAIN config /\ progs[i].at < line
                               /\ config[progs[i].at].kind = "prog"
                               /\ config[progs[i].at].name = progs[i].name
    /\ \A i, j \in DOMAIN progs : i < j => progs[i].at < progs[j].at
    /\ \A m \in DOMAIN config : dpc # "down" /\ m < line /\ config[m].kind = "prog" =>
         \E i \in DOMAIN progs : progs[i].at = m

(* Every file line passed so far of a program that has not failed is good, *)
(* and the one being verified is covered.                                  *)
VerifiedInv ==
    /\ \A i \in DOMAIN progs : progs[i].fd # Failed =>
         \A k \in FileLines(progs[i].at) : k < line => Good(progs[i].fd, config[k].name)
    /\ dpc \in {"stat", "open", "hash"} => Covered(curFd, curLine.name)
    /\ dpc = "hash" /\ ~event[curFd] => opened = dir[curLine.name]

(* Every descriptor on its way to a client, or with one, is good for all   *)
(* the files of the client's program.                                      *)
HeldInv ==
    /\ \A c \in Clients : conn[c] = "fd" =>
         sent[c] \in Inst /\ \A p \in FilesOf(ExeOf[c]) : Good(sent[c], p)
    /\ \A c \in Clients : watchfd[c] \in Inst =>
         \A p \in FilesOf(ExeOf[c]) : Good(watchfd[c], p)

WatchInv == TypeOK /\ ParseInv /\ VerifiedInv /\ HeldInv

(* A client that was once told not to use specialised code is never told   *)
(* to use it later, even when the files are put back and the daemon is     *)
(* restarted: a program cannot hop between the real and the specialised    *)
(* state of a file.                                                        *)
RefusalFinal == [][\A c \in Clients : result[c] = 0 => result'[c] # 1]_vars

(* What RefusalFinal is proved from: where a client is in clientlib.c      *)
(* decides which values of lliowd_watchfd it can have, and a refusal       *)
(* leaves -1 behind.                                                       *)
RefusalInv ==
    \A c \in Clients :
      /\ cpc[c] \in {"start", "initrecv", "wait", "okrecv"} => watchfd[c] = Pending
      /\ cpc[c] = "poll" => watchfd[c] \in Inst
      /\ result[c] = 0 => watchfd[c] = Failed

(* Reasons for a program not to be let in: it is not configured, one of    *)
(* its lines is malformed, or one of its files is not as recorded.         *)
Unfit(name) ==
    \/ \A n \in DOMAIN config : ~IsProgLine(n, name)
    \/ \E n \in DOMAIN config : /\ IsProgLine(n, name)
                                /\ \E k \in FileLines(n) : config[k].form # "ok"
    \/ \E p \in FilesOf(name) : ~AsRecorded(p) \/ mtime[dir[p]] = "other"

(* With nothing failing and nobody changing files a client is refused only *)
(* for such a reason; in particular one program's bad files or lines do    *)
(* not spoil another's.                                                    *)
NoSpuriousRefusal ==
    \A c \in Clients : result[c] = 0 /\ faults = 0 /\ changes = 0 => Unfit(ExeOf[c])

(* What NoSpuriousRefusal is proved from: while nothing fails and nobody   *)
(* changes files, no descriptor is readable, the daemon never dies on a    *)
(* client, and a program that has failed, a bad answer, a -1 and a refusal *)
(* each have such a reason.                                                *)
Spoiled(n) == \E k \in FileLines(n) :
                 LET p == config[k].name
                 IN  config[k].form # "ok" \/ ~AsRecorded(p) \/ mtime[dir[p]] = "other"

QuietInv == faults = 0 /\ changes = 0 =>
    /\ \A w \in Inst : ~event[w]
    /\ dpc = "hash" => opened = dir[curLine.name]
    /\ \A i \in DOMAIN progs : progs[i].fd = Failed => Spoiled(progs[i].at)
    /\ \A c \in Clients :
         /\ conn[c] # "refused"
         /\ conn[c] \in {"progress", "queued", "accepted"} => Listening
         /\ conn[c] \in {"hangup", "bad"} => Unfit(ExeOf[c])
         /\ watchfd[c] = Failed \/ result[c] = 0 => Unfit(ExeOf[c])

(* recvmsg in lliowd_getwatchfd blocks without a timeout; the client still *)
(* gets out of it, because the daemon answers or hangs up on everyone it   *)
(* accepts and its death hangs up on everyone queued.                      *)
GetWatchFdReturns ==
    \A c \in Clients : cpc[c] \in {"initrecv", "okrecv"} ~> cpc[c] \in {"idle", "poll"}

=============================================================================
