---------------------------- MODULE VFSOpsProofs ----------------------------
(***************************************************************************)
(* Proofs about VFSOps: whatever the function, if the analysis of it has   *)
(* settled, what was executed at specialisation time is what the original  *)
(* does.  The invariant is that, on any path, the table the analysis left  *)
(* at this point follows the descriptors: a position is unknown or is      *)
(* where the descriptor is, and of a clean descriptor the daemon has been  *)
(* asked.                                                                  *)
(***************************************************************************)
EXTENDS VFSOps, TLAPS

Tables == Seq(FDStates)

(* T follows the positions P, with the daemon asked about Q.               *)
Fits(e, at, f, Q)  == (Unsure(e.pos) \/ at = e.pos) /\ (e.clean => f \in Q)
Follows(T, P, Q)   == \A f \in DOMAIN T : f \in DOMAIN P => Fits(T[f], P[f], f, Q)

-----------------------------------------------------------------------------
(* Numbers.                                                                *)

(* The smaller and the larger of two.                                      *)
LEMMA MinMax ==
    ASSUME NEW a \in Int, NEW b \in Int
    PROVE  /\ Min({a, b}) = IF a <= b THEN a ELSE b
           /\ Max({a, b}) = IF a >= b THEN a ELSE b
<1>1. /\ (IF a <= b THEN a ELSE b) \in {a, b}
      /\ \A y \in {a, b} : (IF a <= b THEN a ELSE b) <= y
      /\ (IF a >= b THEN a ELSE b) \in {a, b}
      /\ \A y \in {a, b} : (IF a >= b THEN a ELSE b) >= y
  OBVIOUS
<1>2. \A x, z \in {a, b} : x <= z /\ z <= x => x = z
  OBVIOUS
<1> QED BY <1>1, <1>2 DEF Min, Max

(* A position in the range of its type is not truncated.                   *)
LEMMA InRange == ASSUME NEW n \in Nat, n < Wide PROVE n % Wide = n
BY FilesAssumption

LEMMA PastRange == ASSUME NEW n \in Nat, n < Wide PROVE (n + Wide) % Wide = n
<1>1. Wide \in Nat /\ Wide > 0 /\ n + Wide \in Nat
  BY FilesAssumption
<1> QED BY <1>1

(* Of a word's two halves, one is the negative numbers.                    *)
LEMMA SignedIs ==
    ASSUME NEW n \in Words
    PROVE  /\ n \in Nat /\ n < Wide /\ Signed(n) \in Int
           /\ Signed(n) = IF n < Wide \div 2 THEN n ELSE n - Wide
<1>1. n \in Nat /\ n < Wide /\ Wide \in Nat
  BY FilesAssumption DEF Words
<1>2. n % Wide = n
  BY <1>1, InRange
<1> QED BY <1>1, <1>2 DEF Signed

LEMMA SignedPositive ==
    ASSUME NEW n \in Nat, n < Wide \div 2
    PROVE  Signed(n) = n
<1>1. n < Wide
  BY FilesAssumption
<1> QED BY <1>1, InRange DEF Signed

(* What is left of a file at a position in it is no negative number.       *)
LEMMA LeftOfFile ==
    ASSUME NEW n \in Nat, n <= FileSize
    PROVE  Signed(n) = n /\ n % Narrow = n
<1>1. n < Narrow /\ n < Wide \div 2
  BY FilesAssumption
<1>2. n % Narrow = n
  BY <1>1, FilesAssumption
<1> QED BY <1>1, <1>2, SignedPositive

(* A sum that is a position is not truncated either.                       *)
LEMMA SumInRange ==
    ASSUME NEW w \in Words, NEW b \in Nat, Positive(b + Signed(w))
    PROVE  (w + b) % Wide = b + Signed(w)
<1>1. /\ w \in Nat /\ w < Wide /\ Wide \in Nat
      /\ Signed(w) = IF w < Wide \div 2 THEN w ELSE w - Wide
  BY SignedIs, FilesAssumption
<1>2. 0 <= b + Signed(w) /\ b + Signed(w) < Wide
  BY <1>1 DEF Positive
<1>3. CASE w < Wide \div 2
  <2>1. w + b \in Nat /\ w + b < Wide /\ Signed(w) = w
    BY <1>1, <1>2, <1>3
  <2> QED BY <1>1, <2>1, InRange
<1>4. CASE ~(w < Wide \div 2)
  <2>1. PICK n : n = b + w - Wide
    OBVIOUS
  <2>2. n \in Nat /\ n < Wide /\ w + b = n + Wide /\ b + Signed(w) = n
    BY <1>1, <1>2, <1>4, <2>1
  <2> QED BY <2>2, PastRange
<1> QED BY <1>3, <1>4

-----------------------------------------------------------------------------
(* Tables and calls.                                                       *)

(* An entry may know less, and more may have been asked.                   *)
LEMMA FitsLess ==
    ASSUME NEW e, NEW at, NEW f, NEW Q, Fits(e, at, f, Q),
           NEW d, d.pos \in {unknownPos, e.pos}, d.clean => e.clean
    PROVE  Fits(d, at, f, Q)
<1>1. (Unsure(e.pos) \/ at = e.pos) /\ (e.clean => f \in Q)
  BY DEF Fits
<1>2. Unsure(d.pos) \/ at = d.pos
  BY <1>1 DEF Unsure
<1>3. d.clean => f \in Q
  BY <1>1, Zenon
<1> QED BY <1>2, <1>3 DEF Fits

LEMMA FitsMore ==
    ASSUME NEW e, NEW at, NEW f, NEW Q, Fits(e, at, f, Q), NEW R, \A g \in Q : g \in R
    PROVE  Fits(e, at, f, R)
BY Zenon DEF Fits

(* An entry that says nothing fits.                                        *)
LEMMA FitsNew ==
    ASSUME NEW name, NEW at, NEW f, NEW Q, NEW pos, Unsure(pos) \/ at = pos
    PROVE  Fits(FDState(name, pos), at, f, Q)
<1>1. FDState(name, pos).pos = pos
  BY DEF FDState
<1>2. ~FDState(name, pos).clean
  BY Zenon DEF FDState
<1> QED BY <1>1, <1>2 DEF Fits

(* Opening a file: the descriptor is at its start and has to be asked of.  *)
LEMMA FollowsOpen ==
    ASSUME NEW S \in Tables, NEW P, NEW Q, Follows(S, P, Q),
           NEW o, o.fd \in Descriptors
    PROVE  Follows(tryPromoteOpenCall(S, o), Opened(P, o.fd), Q \ {o.fd})
<1> DEFINE T == tryPromoteOpenCall(S, o)
           N == Max({Len(S), o.fd})
<1>1. DOMAIN S = 1..Len(S)
  BY DEF Tables
<1>3. SUFFICES ASSUME NEW f \in DOMAIN T, f \in DOMAIN Opened(P, o.fd)
               PROVE  Fits(T[f], Opened(P, o.fd)[f], f, Q \ {o.fd})
  BY DEF Follows
<1>4. f \in 1..N /\ T[f] = IF f = o.fd THEN FDState(o.file, 0) ELSE IF f <= Len(S) THEN S[f] ELSE NoFile
  BY <1>3 DEF tryPromoteOpenCall
<1>5. CASE f = o.fd
  <2>1. T[f] = FDState(o.file, 0)
    BY <1>4, <1>5
  <2>2. Opened(P, o.fd)[f] = 0
    BY <1>5 DEF Opened
  <2> QED BY <2>1, <2>2, FitsNew
<1>6. CASE f # o.fd
  <2>1. f \in DOMAIN P /\ Opened(P, o.fd)[f] = P[f]
    BY <1>3, <1>6 DEF Opened
  <2>2. CASE f <= Len(S)
    <3>1. f \in DOMAIN S /\ T[f] = S[f]
      BY <1>1, <1>4, <1>6, <2>2
    <3>2. Fits(S[f], P[f], f, Q)
      BY <2>1, <3>1 DEF Follows
    <3>3. (f \in Q) <=> (f \in Q \ {o.fd})
      BY <1>6
    <3> QED BY <2>1, <3>1, <3>2, <3>3 DEF Fits
  <2>3. CASE ~(f <= Len(S))
    <3>1. T[f] = FDState(unnamed, unknownPos)
      BY <1>4, <1>6, <2>3 DEF NoFile
    <3>2. Unsure(unknownPos)
      BY DEF Unsure
    <3> QED BY <3>1, <3>2, FitsNew
  <2> QED BY <2>2, <2>3
<1> QED BY <1>5, <1>6

(* Closing it: the table keeps the entry.                                  *)
LEMMA FollowsClose ==
    ASSUME NEW S, NEW P, NEW Q, NEW g, Follows(S, P, Q)
    PROVE  Follows(S, Closed(P, g), Q \ {g})
<1>1. SUFFICES ASSUME NEW f \in DOMAIN S, f \in DOMAIN Closed(P, g)
               PROVE  Fits(S[f], Closed(P, g)[f], f, Q \ {g})
  BY DEF Follows
<1>2. f \in DOMAIN P /\ f # g /\ Closed(P, g)[f] = P[f]
  BY <1>1 DEF Closed
<1>3. Fits(S[f], P[f], f, Q)
  BY <1>2 DEF Follows
<1>4. (f \in Q) <=> (f \in Q \ {g})
  BY <1>2
<1> QED BY <1>2, <1>3, <1>4 DEF Fits

(* A table that knows less follows as well.                                *)
LEMMA FollowsLess ==
    ASSUME NEW S, DOMAIN S = 1..Len(S), Len(S) \in Nat, NEW T \in Tables,
           NEW P, NEW Q, Follows(S, P, Q), KnowsLess(T, S)
    PROVE  Follows(T, P, Q)
<1>1. SUFFICES ASSUME NEW f \in DOMAIN T, f \in DOMAIN P
               PROVE  Fits(T[f], P[f], f, Q)
  BY DEF Follows
<1>2. f \in DOMAIN S
  <2>1. Len(T) <= Len(S)
    BY DEF KnowsLess
  <2> QED BY <2>1 DEF Tables
<1>3. T[f].pos \in {unknownPos, S[f].pos} /\ (T[f].clean => S[f].clean)
  <2>1. \A h \in DOMAIN T : T[h].pos \in {unknownPos, S[h].pos} /\ (T[h].clean => S[h].clean)
    BY Zenon DEF KnowsLess
  <2> QED BY <2>1, Zenon
<1>4. Fits(S[f], P[f], f, Q)
  BY <1>1, <1>2 DEF Follows
<1> QED BY <1>3, <1>4, FitsLess

(* One descriptor moves, and its entry follows; the daemon has not been    *)
(* asked about less.                                                       *)
LEMMA FollowsMove ==
    ASSUME NEW S \in Tables, NEW P, NEW Q, Follows(S, P, Q),
           NEW g \in DOMAIN S, NEW e, NEW d, NEW R, \A f \in Q : f \in R,
           Fits(e, d, g, R)
    PROVE  Follows([S EXCEPT ![g] = e], Moved(P, g, d), R)
<1>1. SUFFICES ASSUME NEW f \in DOMAIN S, f \in DOMAIN P
               PROVE  Fits([S EXCEPT ![g] = e][f], Moved(P, g, d)[f], f, R)
  BY DEF Follows, Moved
<1>2. CASE f = g
  <2>1. [S EXCEPT ![g] = e][f] = e /\ Moved(P, g, d)[f] = d
    BY <1>1, <1>2 DEF Moved
  <2> QED BY <2>1, <1>2
<1>3. CASE f # g
  <2>1. [S EXCEPT ![g] = e][f] = S[f] /\ Moved(P, g, d)[f] = P[f]
    BY <1>1, <1>3 DEF Moved
  <2>2. Fits(S[f], P[f], f, Q)
    BY <1>1 DEF Follows
  <2>3. Fits(S[f], P[f], f, R)
    BY <2>2, FitsMore
  <2> QED BY <2>1, <2>3
<1> QED BY <1>2, <1>3

(* A descriptor moves that the table has nothing of.                       *)
LEMMA FollowsOther ==
    ASSUME NEW S, NEW P, NEW Q, Follows(S, P, Q), NEW g, g \notin DOMAIN S, NEW d
    PROVE  Follows(S, Moved(P, g, d), Q)
<1>1. SUFFICES ASSUME NEW f \in DOMAIN S, f \in DOMAIN P
               PROVE  Fits(S[f], Moved(P, g, d)[f], f, Q)
  BY DEF Follows, Moved
<1>2. Moved(P, g, d)[f] = P[f]
  BY <1>1 DEF Moved
<1> QED BY <1>1, <1>2 DEF Follows

-----------------------------------------------------------------------------
(* Reads and seeks.                                                        *)

(* A table's entries, and an entry that moves.                             *)
LEMMA Entries ==
    ASSUME NEW S \in Tables
    PROVE  /\ DOMAIN S = 1..Len(S) /\ Len(S) \in Nat
           /\ \A g \in DOMAIN S : S[g] \in FDStates
BY DEF Tables

LEMMA FitsMoved ==
    ASSUME NEW s \in FDStates, NEW at, NEW f, NEW Q, Fits(s, at, f, Q),
           NEW pos, NEW d, Unsure(pos) \/ d = pos
    PROVE  Fits([s EXCEPT !.pos = pos], d, f, Q)
<1>1. [s EXCEPT !.pos = pos].pos = pos
  BY DEF FDStates
<1>2. [s EXCEPT !.pos = pos].clean = s.clean
  BY DEF FDStates
<1>3. s.clean => f \in Q
  BY Zenon DEF Fits
<1>4. [s EXCEPT !.pos = pos].clean => f \in Q
  BY <1>2, <1>3, Zenon
<1> QED BY <1>1, <1>4 DEF Fits

(* What the analysis makes of a read.                                      *)
LEMMA ReadCallIs ==
    ASSUME NEW S, NEW o, o.kind = "read", o.fd \in Nat, Len(S) \in Nat
    PROVE  /\ o.fd > Len(S) => /\ tryResolveVFSCall(S, o).S = S
                               /\ tryResolveVFSCall(S, o).result = {}
           /\ o.fd <= Len(S) => tryResolveVFSCall(S, o) = readCall(S, o)
BY DEF tryResolveVFSCall, Unresolved

LEMMA UnresolvedReadIs ==
    ASSUME NEW S, NEW o, o.size = Unknown \/ S[o.fd].file # "regular"
    PROVE  /\ readCall(S, o).S = [S EXCEPT ![o.fd] = [S[o.fd] EXCEPT !.pos = unknownPos]]
           /\ readCall(S, o).result = {}
BY DEF readCall, Unresolved

LEMMA ResolvedReadIs ==
    ASSUME NEW S, NEW o, o.size # Unknown, S[o.fd].file = "regular"
    PROVE  LET n == bytesRead(S[o.fd], o.size)
           IN  /\ readCall(S, o).S = [S EXCEPT ![o.fd] = AfterRead(S[o.fd], n)]
               /\ readCall(S, o).result = {[at |-> S[o.fd].pos, size |-> n % Narrow, checked |-> ~S[o.fd].clean]}
               /\ readCall(S, o).result # {}
BY DEF readCall, Resolved

(* Such a read ends where the original's does, and after it the daemon has *)
(* been asked if the table says so.                                        *)
LEMMA ReadResolved ==
    ASSUME NEW s \in FDStates, NEW at, NEW f, NEW Q, Fits(s, at, f, Q),
           NEW size \in Words, ~Unsure(s.pos), s.pos <= FileSize, Positive(size),
           NEW n, n = bytesRead(s, size)
    PROVE  /\ at = s.pos /\ n = BytesRead(at, size) /\ n \in Nat /\ n % Narrow = n
           /\ Positive(at + n)
           /\ Fits(AfterRead(s, n), at + n, f, Q \cup (IF s.clean THEN {} ELSE {f}))
<1>1. s.pos \in Nat /\ at = s.pos
  BY DEF FDStates, Fits
<1>2. FileSize - s.pos \in Nat /\ FileSize - s.pos <= FileSize /\ FileSize \in Nat
  BY <1>1, FilesAssumption
<1>3. n = Min({size, FileSize - s.pos})
  <2>1. Signed(FileSize - s.pos) = FileSize - s.pos
    BY <1>2, LeftOfFile
  <2>2. Signed(size) = size
    BY SignedIs, SignedPositive DEF Positive
  <2> QED BY <2>1, <2>2 DEF bytesRead
<1>4. Max({0, FileSize - s.pos}) = FileSize - s.pos
  <2>1. ASSUME NEW z \in Int, NEW k \in Int, k >= z PROVE Max({z, k}) = k
    <3>1. Max({z, k}) = IF z >= k THEN z ELSE k
      BY MinMax
    <3> QED BY <2>1, <3>1
  <2> QED BY <1>2, <2>1
<1>5. n = BytesRead(at, size)
  BY <1>1, <1>3, <1>4 DEF BytesRead
<1>6. n \in Nat /\ n <= FileSize - s.pos
  BY <1>2, <1>3, MinMax, SignedIs
<1>7. at + n \in Nat /\ at + n < Wide /\ Positive(at + n) /\ n <= FileSize
  BY <1>1, <1>2, <1>6, FilesAssumption DEF Positive
<1>10. n % Narrow = n
  BY <1>6, <1>7, LeftOfFile
<1>8. AfterRead(s, n).pos = at + n
  <2>1. AfterRead(s, n).pos = (s.pos + n) % Wide
    BY DEF AfterRead, FDStates
  <2> QED BY <1>1, <1>7, <2>1, InRange
<1>9. f \in Q \cup (IF s.clean THEN {} ELSE {f})
  <2>1. s.clean => f \in Q
    BY Zenon DEF Fits
  <2> QED BY <2>1
<1> QED BY <1>1, <1>5, <1>6, <1>7, <1>8, <1>9, <1>10 DEF Fits

(* What is read in the original is a number of bytes.                      *)
LEMMA BytesInNat == ASSUME NEW at \in Nat, NEW n \in Nat PROVE BytesRead(at, n) \in Nat
<1>1. FileSize - at \in Int /\ 0 \in Int
  BY FilesAssumption
<1>2. PICK k \in Int : k = FileSize - at
  BY <1>1
<1>3. Max({0, k}) = IF 0 >= k THEN 0 ELSE k
  BY MinMax
<1>4. PICK m \in Nat : m = Max({0, k})
  BY <1>3
<1>5. Min({n, m}) = IF n <= m THEN n ELSE m
  BY MinMax
<1> QED BY <1>2, <1>4, <1>5 DEF BytesRead

(* What the analysis makes of a seek.                                      *)
LEMMA SeekCallIs ==
    ASSUME NEW S, NEW o, o.kind = "seek", o.fd \in Nat, Len(S) \in Nat
    PROVE  /\ o.fd > Len(S) => /\ tryResolveVFSCall(S, o).S = S
                               /\ tryResolveVFSCall(S, o).result = {}
           /\ o.fd <= Len(S) => tryResolveVFSCall(S, o) = seekCall(S, o)
BY DEF tryResolveVFSCall, Unresolved

Cannot(S, o) == \/ o.whence = "cur" /\ S[o.fd].pos = unknownPos
                \/ o.whence = "end" /\ S[o.fd].file = unnamed

LEMMA UnresolvedSeekIs ==
    ASSUME NEW S, NEW o
    PROVE  /\ o.off = Unknown =>
                seekCall(S, o).S = [S EXCEPT ![o.fd] = [S[o.fd] EXCEPT !.pos = Narrow - 1]]
           /\ o.off # Unknown /\ Cannot(S, o) => seekCall(S, o).S = S
           /\ o.off = Unknown \/ Cannot(S, o) => seekCall(S, o).result = {}
BY DEF seekCall, Cannot, Unresolved

LEMMA ResolvedSeekIs ==
    ASSUME NEW S, NEW o, o.off # Unknown, ~Cannot(S, o), NEW to, to = seekTo(S[o.fd], o)
    PROVE  /\ seekCall(S, o).S = [S EXCEPT ![o.fd] = [S[o.fd] EXCEPT !.pos = to]]
           /\ \A r \in seekCall(S, o).result : r.at = to
<1>1. seekCall(S, o) = Resolved([S EXCEPT ![o.fd].pos = to], to, 0, FALSE)
  BY Zenon DEF seekCall, Cannot
<1> QED BY <1>1 DEF Resolved

(* Such a seek goes where the original's does.                             *)
LEMMA SeekResolved ==
    ASSUME NEW s \in FDStates, NEW at, NEW f, NEW Q, Fits(s, at, f, Q),
           NEW o, o.off \in Words, o.whence \in {"set", "cur", "end"}, SeeksWithin(s, o),
           o.whence = "cur" => s.pos # unknownPos, o.whence = "end" => s.file # unnamed
    PROVE  seekTo(s, o) = SeekTo(at, o.whence, o.off)
<1>1. s.pos \in Nat /\ Signed(o.off) \in Int /\ FileSize \in Nat
  BY SignedIs, FilesAssumption DEF FDStates
<1>2. CASE o.whence = "set"
  <2>1. Positive(o.off) /\ o.off \in Nat
    BY <1>2, SignedIs DEF SeeksWithin
  <2>2. Signed(o.off) + 0 = o.off
    BY <2>1, SignedPositive DEF Positive
  <2>3. SeekTo(at, o.whence, o.off) = IF Positive(Signed(o.off) + 0) THEN Signed(o.off) + 0 ELSE at
    BY <1>2 DEF SeekTo
  <2>4. SeekTo(at, o.whence, o.off) = o.off
    BY <2>1, <2>2, <2>3
  <2> QED BY <1>2, <2>4 DEF seekTo
<1>3. CASE o.whence = "cur"
  <2>1. at = s.pos /\ Positive(s.pos + Signed(o.off))
    BY <1>3 DEF SeeksWithin, Fits, Unsure
  <2>2. (o.off + s.pos) % Wide = s.pos + Signed(o.off)
    BY <1>1, <2>1, SumInRange
  <2>3. Signed(o.off) + at = s.pos + Signed(o.off)
    BY <1>1, <2>1
  <2>4. SeekTo(at, o.whence, o.off) = IF Positive(Signed(o.off) + at) THEN Signed(o.off) + at ELSE at
    BY <1>3 DEF SeekTo
  <2>5. SeekTo(at, o.whence, o.off) = s.pos + Signed(o.off)
    BY <2>1, <2>3, <2>4
  <2> QED BY <1>3, <2>2, <2>5 DEF seekTo
<1>4. CASE o.whence = "end"
  <2>1. Positive(FileSize + Signed(o.off))
    BY <1>4 DEF SeeksWithin
  <2>2. (o.off + FileSize) % Wide = FileSize + Signed(o.off)
    BY <1>1, <2>1, SumInRange
  <2>3. Signed(o.off) + FileSize = FileSize + Signed(o.off)
    BY <1>1
  <2>4. SeekTo(at, o.whence, o.off)
          = IF Positive(Signed(o.off) + FileSize) THEN Signed(o.off) + FileSize ELSE at
    BY <1>4 DEF SeekTo
  <2>5. SeekTo(at, o.whence, o.off) = FileSize + Signed(o.off)
    BY <2>1, <2>3, <2>4
  <2> QED BY <1>4, <2>2, <2>5 DEF seekTo
<1> QED BY <1>2, <1>3, <1>4

(* And a seek goes to a position, or nowhere.                              *)
LEMMA SeekInNat ==
    ASSUME NEW at \in Nat, NEW off \in Nat, NEW whence \in {"set", "cur", "end"}
    PROVE  SeekTo(at, whence, off) \in Nat
<1>1. Signed(off) \in Int /\ FileSize \in Int
  BY FilesAssumption DEF Signed
<1>2. PICK to : to = Signed(off) + CASE whence = "set" -> 0
                                     [] whence = "cur" -> at
                                     [] whence = "end" -> FileSize
  OBVIOUS
<1>3. to \in Int
  BY <1>1, <1>2
<1>4. SeekTo(at, whence, off) = IF Positive(to) THEN to ELSE at
  BY <1>2 DEF SeekTo
<1> QED BY <1>3, <1>4 DEF Positive

(* Whatever the table, what is resolved has constant arguments.            *)
LEMMA ConstantIfResolved ==
    ASSUME NEW S \in Tables, NEW o \in Operations, tryResolveVFSCall(S, o).result # {}
    PROVE  \/ o.kind = "read" /\ o.size # Unknown
           \/ o.kind = "seek" /\ o.off # Unknown
<1>1. CASE o.kind = "read"
  <2>1. o.size = Unknown => readCall(S, o).result = {}
    BY UnresolvedReadIs
  <2>2. tryResolveVFSCall(S, o).result \in {{}, readCall(S, o).result}
    BY <1>1, Entries, ReadCallIs DEF Operations, Descriptors
  <2> QED BY <1>1, <2>1, <2>2
<1>2. CASE o.kind = "seek"
  <2>1. o.off = Unknown => seekCall(S, o).result = {}
    BY UnresolvedSeekIs
  <2>2. tryResolveVFSCall(S, o).result \in {{}, seekCall(S, o).result}
    BY <1>2, Entries, SeekCallIs DEF Operations, Descriptors
  <2> QED BY <1>2, <2>1, <2>2
<1>3. CASE o.kind \in {"open", "close", "readAny", "call"}
  BY <1>3 DEF tryResolveVFSCall, Unresolved
<1> QED BY <1>1, <1>2, <1>3 DEF Operations

-----------------------------------------------------------------------------
(* Calls in the specialised program.                                       *)

(* A read that was not resolved, wherever it ends.                         *)
LEMMA ReadFollowed ==
    ASSUME NEW S \in Tables, NEW o \in Operations, o.kind = "read",
           NEW P, NEW Q, Follows(S, P, Q), o.fd \in DOMAIN P,
           tryResolveVFSCall(S, o).result = {}, NEW d
    PROVE  Follows(tryResolveVFSCall(S, o).S, Moved(P, o.fd, d), Q)
<1>0. o.fd \in Nat /\ o.fd >= 1
  BY DEF Operations, Descriptors
<1>1. CASE o.fd > Len(S)
  <2>1. tryResolveVFSCall(S, o).S = S
    BY <1>0, <1>1, Entries, ReadCallIs
  <2>2. o.fd \notin DOMAIN S
    BY <1>0, <1>1, Entries
  <2> QED BY <2>1, <2>2, FollowsOther
<1>2. CASE o.fd <= Len(S)
  <2>1. tryResolveVFSCall(S, o) = readCall(S, o)
    BY <1>0, <1>2, Entries, ReadCallIs
  <2>2. o.size = Unknown \/ S[o.fd].file # "regular"
    <3>1. SUFFICES ASSUME o.size # Unknown, S[o.fd].file = "regular"
                   PROVE  readCall(S, o).result # {}
      BY <2>1
    <3> QED BY <3>1, ResolvedReadIs
  <2>3. readCall(S, o).S = [S EXCEPT ![o.fd] = [S[o.fd] EXCEPT !.pos = unknownPos]]
    BY <2>2, UnresolvedReadIs
  <2>4. o.fd \in DOMAIN S /\ S[o.fd] \in FDStates
    BY <1>0, <1>2, Entries
  <2>5. Fits(S[o.fd], P[o.fd], o.fd, Q)
    BY <2>4 DEF Follows
  <2>6. Unsure(unknownPos)
    BY DEF Unsure
  <2>7. Fits([S[o.fd] EXCEPT !.pos = unknownPos], d, o.fd, Q)
    BY <2>4, <2>5, <2>6, FitsMoved
  <2> QED BY <2>1, <2>3, <2>4, <2>7, FollowsMove
<1> QED BY <1>0, <1>1, <1>2, Entries

(* A check, or one before.                                                 *)
CheckedBy(r, f, Q) == r.checked \/ f \in Q

(* One that was: its result is the original's, it is not checked only if   *)
(* the daemon has been asked, and then it has been.                        *)
LEMMA ResolvedReadFollowed ==
    ASSUME NEW S \in Tables, NEW o \in Operations, o.kind = "read", PositionKnown(S, o),
           NEW P, NEW Q, Follows(S, P, Q), o.fd \in DOMAIN P,
           NEW r \in tryResolveVFSCall(S, o).result
    PROVE  LET n == BytesRead(P[o.fd], o.size)
           IN  /\ r.at = P[o.fd] /\ r.size = n /\ n \in Nat /\ Positive(P[o.fd] + n)
               /\ CheckedBy(r, o.fd, Q)
               /\ Follows(tryResolveVFSCall(S, o).S, Moved(P, o.fd, P[o.fd] + n),
                          Q \cup (IF r.checked THEN {o.fd} ELSE {}))
<1>0. o.fd \in Nat /\ o.fd >= 1
  BY DEF Operations, Descriptors
<1>1. o.fd <= Len(S)
  BY <1>0, Entries, ReadCallIs
<1>2. tryResolveVFSCall(S, o) = readCall(S, o)
  BY <1>0, <1>1, Entries, ReadCallIs
<1>3. o.size # Unknown /\ S[o.fd].file = "regular"
  <2>1. readCall(S, o).result # {}
    BY <1>2
  <2> QED BY <2>1, UnresolvedReadIs
<1>4. o.fd \in DOMAIN S /\ S[o.fd] \in FDStates
  BY <1>0, <1>1, Entries
<1>5. Fits(S[o.fd], P[o.fd], o.fd, Q)
  BY <1>4 DEF Follows
<1>6. o.size \in Words /\ ~Unsure(S[o.fd].pos) /\ S[o.fd].pos <= FileSize /\ Positive(o.size)
  BY <1>3, <1>4 DEF Operations, PositionKnown, ReadsWithin
<1>7. PICK n : n = bytesRead(S[o.fd], o.size)
  OBVIOUS
<1>8. /\ P[o.fd] = S[o.fd].pos /\ n = BytesRead(P[o.fd], o.size) /\ n \in Nat /\ n % Narrow = n
      /\ Positive(P[o.fd] + n)
      /\ Fits(AfterRead(S[o.fd], n), P[o.fd] + n, o.fd, Q \cup (IF S[o.fd].clean THEN {} ELSE {o.fd}))
  <2>1. PICK e : e = S[o.fd]
    OBVIOUS
  <2>2. PICK at : at = P[o.fd]
    OBVIOUS
  <2>3. PICK size : size = o.size
    OBVIOUS
  <2>4. /\ e \in FDStates /\ Fits(e, at, o.fd, Q) /\ size \in Words /\ ~Unsure(e.pos)
        /\ e.pos <= FileSize /\ Positive(size) /\ n = bytesRead(e, size)
    BY <1>4, <1>5, <1>6, <1>7, <2>1, <2>2, <2>3
  <2>5. /\ at = e.pos /\ n = BytesRead(at, size) /\ n \in Nat /\ n % Narrow = n /\ Positive(at + n)
        /\ Fits(AfterRead(e, n), at + n, o.fd, Q \cup (IF e.clean THEN {} ELSE {o.fd}))
    BY ONLY <2>4, ReadResolved
  <2> QED BY ONLY <2>1, <2>2, <2>3, <2>5
<1>9. /\ readCall(S, o).S = [S EXCEPT ![o.fd] = AfterRead(S[o.fd], n)]
      /\ r = [at |-> S[o.fd].pos, size |-> n % Narrow, checked |-> ~S[o.fd].clean]
  BY <1>2, <1>3, <1>7, ResolvedReadIs
<1>10. r.at = S[o.fd].pos /\ r.size = n
  BY <1>8, <1>9
<1>11. r.checked <=> ~S[o.fd].clean
  BY <1>9
<1>12. PICK R : R = Q \cup (IF r.checked THEN {o.fd} ELSE {})
  OBVIOUS
<1>13. R = Q \cup (IF S[o.fd].clean THEN {} ELSE {o.fd})
  BY <1>11, <1>12
<1>14. Follows([S EXCEPT ![o.fd] = AfterRead(S[o.fd], n)], Moved(P, o.fd, P[o.fd] + n), R)
  <2>1. \A f \in Q : f \in R
    BY <1>12
  <2> QED BY <2>1, <1>4, <1>8, <1>13, FollowsMove
<1>15. S[o.fd].clean => o.fd \in Q
  BY <1>5, Zenon DEF Fits
<1>16. CheckedBy(r, o.fd, Q)
  BY <1>11, <1>15 DEF CheckedBy
<1> QED BY <1>2, <1>8, <1>9, <1>10, <1>12, <1>14, <1>16

(* A seek, resolved or not.                                                *)
LEMMA SeekFollowed ==
    ASSUME NEW S \in Tables, NEW o \in Operations, o.kind = "seek", PositionKnown(S, o),
           NEW P, NEW Q, Follows(S, P, Q), o.fd \in DOMAIN P,
           NEW off \in IF o.off = Unknown THEN 0..FileSize ELSE {o.off}
    PROVE  LET to == SeekTo(P[o.fd], o.whence, off)
           IN  /\ Follows(tryResolveVFSCall(S, o).S, Moved(P, o.fd, to), Q)
               /\ \A r \in tryResolveVFSCall(S, o).result : r.at = SeekTo(P[o.fd], o.whence, o.off)
<1> DEFINE to == SeekTo(P[o.fd], o.whence, off)
<1>0. o.fd \in Nat /\ o.fd >= 1
  BY DEF Operations, Descriptors
<1>1. CASE o.fd > Len(S)
  <2>1. tryResolveVFSCall(S, o).S = S /\ tryResolveVFSCall(S, o).result = {}
    BY <1>0, <1>1, Entries, SeekCallIs
  <2>2. o.fd \notin DOMAIN S
    BY <1>0, <1>1, Entries
  <2> QED BY <2>1, <2>2, FollowsOther
<1>2. CASE o.fd <= Len(S)
  <2>1. tryResolveVFSCall(S, o) = seekCall(S, o)
    BY <1>0, <1>2, Entries, SeekCallIs
  <2>2. o.fd \in DOMAIN S /\ S[o.fd] \in FDStates
    BY <1>0, <1>2, Entries
  <2>3. Fits(S[o.fd], P[o.fd], o.fd, Q)
    BY <2>2 DEF Follows
  <2>4. CASE o.off = Unknown
    <3>1. /\ seekCall(S, o).S = [S EXCEPT ![o.fd] = [S[o.fd] EXCEPT !.pos = Narrow - 1]]
          /\ seekCall(S, o).result = {}
      BY <2>4, UnresolvedSeekIs
    <3>2. Unsure(Narrow - 1)
      BY DEF Unsure
    <3>3. Fits([S[o.fd] EXCEPT !.pos = Narrow - 1], to, o.fd, Q)
      BY <2>2, <2>3, <3>2, FitsMoved
    <3>4. Follows(seekCall(S, o).S, Moved(P, o.fd, to), Q)
      BY <2>2, <3>1, <3>3, FollowsMove
    <3> QED BY <2>1, <3>1, <3>4
  <2>5. CASE o.off # Unknown /\ Cannot(S, o)
    <3>1. seekCall(S, o).S = S /\ seekCall(S, o).result = {}
      BY <2>5, UnresolvedSeekIs
    <3>2. S[o.fd].pos = unknownPos
      BY <2>2, <2>5 DEF Cannot, PositionKnown, SeeksWithin
    <3>3. Fits([S[o.fd] EXCEPT !.pos = unknownPos], to, o.fd, Q)
      BY <2>2, <2>3, FitsMoved DEF Unsure
    <3>4. [S EXCEPT ![o.fd] = [S[o.fd] EXCEPT !.pos = unknownPos]] = S
      BY <2>2, <3>2 DEF FDStates, Tables
    <3>5. Follows(S, Moved(P, o.fd, to), Q)
      BY <2>2, <3>3, <3>4, FollowsMove
    <3> QED BY <2>1, <3>1, <3>5
  <2>6. CASE o.off # Unknown /\ ~Cannot(S, o)
    <3>1. SeeksWithin(S[o.fd], o)
      BY <2>2, <2>6 DEF PositionKnown
    <3>2. off = o.off
      BY <2>6
    <3>3. to = seekTo(S[o.fd], o)
      <4>1. o.off \in Words /\ o.whence \in {"set", "cur", "end"}
        BY <2>6 DEF Operations
      <4>2. /\ o.whence = "cur" => S[o.fd].pos # unknownPos
            /\ o.whence = "end" => S[o.fd].file # unnamed
        BY <2>6 DEF Cannot
      <4> QED BY <2>2, <2>3, <3>1, <3>2, <4>1, <4>2, SeekResolved
    <3>6. /\ seekCall(S, o).S = [S EXCEPT ![o.fd] = [S[o.fd] EXCEPT !.pos = to]]
          /\ \A r \in seekCall(S, o).result : r.at = to
      BY <2>6, <3>3, ResolvedSeekIs
    <3>4. Fits([S[o.fd] EXCEPT !.pos = to], to, o.fd, Q)
      BY <2>2, <2>3, FitsMoved
    <3>5. Follows(tryResolveVFSCall(S, o).S, Moved(P, o.fd, to), Q)
      BY <2>1, <2>2, <3>4, <3>6, FollowsMove
    <3> QED BY <2>1, <3>2, <3>5, <3>6
  <2> QED BY <2>4, <2>5, <2>6
<1> QED BY <1>0, <1>1, <1>2, Entries

-----------------------------------------------------------------------------
(* What is left where the analysis has guessed: descriptors may be         *)
(* elsewhere, but of a clean one the daemon has been asked.                *)
Asks(T, D, Q) == \A f \in DOMAIN T : f \in D /\ T[f].clean => f \in Q

LEMMA FollowsAsks ==
    ASSUME NEW T, NEW P, NEW Q, Follows(T, P, Q)
    PROVE  Asks(T, DOMAIN P, Q)
<1>1. SUFFICES ASSUME NEW f \in DOMAIN T, f \in DOMAIN P, T[f].clean PROVE f \in Q
  BY DEF Asks
<1>2. Fits(T[f], P[f], f, Q)
  BY <1>1 DEF Follows
<1> QED BY <1>1, <1>2, Zenon DEF Fits

(* Somewhere else, that is, where the table would be right.                *)
LEMMA AsksFollows ==
    ASSUME NEW T, NEW D, NEW Q, Asks(T, D, Q)
    PROVE  \E P : DOMAIN P = D /\ Follows(T, P, Q)
<1> DEFINE P == [f \in D |-> T[f].pos]
<1>1. ASSUME NEW f \in DOMAIN T, f \in D PROVE Fits(T[f], T[f].pos, f, Q)
  <2>1. T[f].clean => f \in Q
    BY <1>1, Zenon DEF Asks
  <2> QED BY <2>1 DEF Fits
<1>2. Follows(T, P, Q)
  BY <1>1 DEF Follows
<1> QED BY <1>2

LEMMA AsksOpen ==
    ASSUME NEW S \in Tables, NEW D, NEW Q, Asks(S, D, Q), NEW o, o.fd \in Descriptors
    PROVE  Asks(tryPromoteOpenCall(S, o), {o.fd} \cup D, Q \ {o.fd})
<1>1. PICK P : DOMAIN P = D /\ Follows(S, P, Q)
  BY AsksFollows
<1>2. Follows(tryPromoteOpenCall(S, o), Opened(P, o.fd), Q \ {o.fd})
  BY <1>1, FollowsOpen
<1>3. DOMAIN Opened(P, o.fd) = {o.fd} \cup D
  BY <1>1 DEF Opened
<1>4. PICK R : R = Opened(P, o.fd)
  OBVIOUS
<1> QED BY <1>2, <1>3, <1>4, FollowsAsks

LEMMA AsksClose ==
    ASSUME NEW S, NEW D, NEW Q, Asks(S, D, Q), NEW g
    PROVE  Asks(S, D \ {g}, Q \ {g})
BY DEF Asks

LEMMA AsksLess ==
    ASSUME NEW S, DOMAIN S = 1..Len(S), Len(S) \in Nat, NEW T \in Tables,
           NEW D, NEW Q, Asks(S, D, Q), KnowsLess(T, S)
    PROVE  Asks(T, D, Q)
<1>1. PICK P : DOMAIN P = D /\ Follows(S, P, Q)
  BY AsksFollows
<1>2. Follows(T, P, Q)
  BY <1>1, FollowsLess
<1> QED BY <1>1, <1>2, FollowsAsks

(* A read or a seek that was not resolved.                                 *)
LEMMA AsksUnresolvedRead ==
    ASSUME NEW S \in Tables, NEW o \in Operations, o.kind = "read",
           NEW D, NEW Q, Asks(S, D, Q), o.fd \in D, tryResolveVFSCall(S, o).result = {}
    PROVE  Asks(tryResolveVFSCall(S, o).S, D, Q)
<1>1. PICK P : DOMAIN P = D /\ Follows(S, P, Q)
  BY AsksFollows
<1>2. Follows(tryResolveVFSCall(S, o).S, Moved(P, o.fd, 0), Q)
  BY <1>1, ReadFollowed
<1>3. PICK R : R = Moved(P, o.fd, 0)
  OBVIOUS
<1>4. DOMAIN R = D
  BY <1>1, <1>3 DEF Moved
<1> QED BY <1>2, <1>3, <1>4, FollowsAsks

LEMMA AsksSeek ==
    ASSUME NEW S \in Tables, NEW o \in Operations, o.kind = "seek",
           NEW D, NEW Q, Asks(S, D, Q)
    PROVE  Asks(tryResolveVFSCall(S, o).S, D, Q)
<1>0. o.fd \in Nat /\ o.fd >= 1
  BY DEF Operations, Descriptors
<1>1. ASSUME NEW pos, o.fd \in DOMAIN S
      PROVE  Asks([S EXCEPT ![o.fd] = [S[o.fd] EXCEPT !.pos = pos]], D, Q)
  <2> DEFINE e == [S[o.fd] EXCEPT !.pos = pos]
             T == [S EXCEPT ![o.fd] = e]
  <2>1. S[o.fd] \in FDStates
    BY <1>1, Entries
  <2>2. e.clean = S[o.fd].clean
    BY <2>1 DEF FDStates
  <2>3. DOMAIN T = DOMAIN S /\ \A f \in DOMAIN S : T[f] = IF f = o.fd THEN e ELSE S[f]
    BY <1>1
  <2> HIDE DEF e, T
  <2>4. \A f \in DOMAIN S : T[f].clean = S[f].clean
    BY <2>2, <2>3
  <2>5. Asks(T, D, Q)
    BY <2>3, <2>4, Zenon DEF Asks
  <2> QED BY <2>5 DEF T, e
<1>2. CASE o.fd > Len(S)
  BY <1>0, <1>2, Entries, SeekCallIs
<1>3. CASE o.fd <= Len(S)
  <2>1. tryResolveVFSCall(S, o) = seekCall(S, o) /\ o.fd \in DOMAIN S
    BY <1>0, <1>3, Entries, SeekCallIs
  <2>2. \/ seekCall(S, o).S = S
        \/ \E pos : seekCall(S, o).S = [S EXCEPT ![o.fd] = [S[o.fd] EXCEPT !.pos = pos]]
    <3>1. CASE o.off = Unknown
      BY <3>1, UnresolvedSeekIs
    <3>2. CASE o.off # Unknown /\ Cannot(S, o)
      BY <3>2, UnresolvedSeekIs
    <3>3. CASE o.off # Unknown /\ ~Cannot(S, o)
      <4>1. PICK to : to = seekTo(S[o.fd], o)
        OBVIOUS
      <4> QED BY <3>3, <4>1, ResolvedSeekIs
    <3> QED BY <3>1, <3>2, <3>3
  <2>3. CASE seekCall(S, o).S = S
    BY <2>1, <2>3
  <2>4. ASSUME NEW pos, seekCall(S, o).S = [S EXCEPT ![o.fd] = [S[o.fd] EXCEPT !.pos = pos]]
        PROVE  Asks(tryResolveVFSCall(S, o).S, D, Q)
    <3>1. Asks([S EXCEPT ![o.fd] = [S[o.fd] EXCEPT !.pos = pos]], D, Q)
      BY <1>1, <2>1
    <3> QED BY <2>1, <2>4, <3>1
  <2> QED BY <2>2, <2>3, <2>4
<1> QED BY <1>0, <1>2, <1>3, Entries

(* One that was, at whatever position: it is unchecked only if the daemon  *)
(* has been asked, and then it has been.                                   *)
LEMMA AsksResolvedRead ==
    ASSUME NEW S \in Tables, NEW o \in Operations, o.kind = "read",
           NEW D, NEW Q, Asks(S, D, Q), o.fd \in D,
           NEW r \in tryResolveVFSCall(S, o).result
    PROVE  /\ CheckedBy(r, o.fd, Q) /\ r.at \in Nat /\ r.size \in Nat
           /\ Asks(tryResolveVFSCall(S, o).S, D, Q \cup (IF r.checked THEN {o.fd} ELSE {}))
<1>0. o.fd \in Nat /\ o.fd >= 1
  BY DEF Operations, Descriptors
<1>1. o.fd <= Len(S)
  BY <1>0, Entries, ReadCallIs
<1>2. tryResolveVFSCall(S, o) = readCall(S, o) /\ o.fd \in DOMAIN S /\ S[o.fd] \in FDStates
  BY <1>0, <1>1, Entries, ReadCallIs
<1>3. o.size # Unknown /\ S[o.fd].file = "regular"
  <2>1. readCall(S, o).result # {}
    BY <1>2
  <2> QED BY <2>1, UnresolvedReadIs
<1>4. PICK n : n = bytesRead(S[o.fd], o.size)
  OBVIOUS
<1>5. /\ readCall(S, o).S = [S EXCEPT ![o.fd] = AfterRead(S[o.fd], n)]
      /\ r = [at |-> S[o.fd].pos, size |-> n % Narrow, checked |-> ~S[o.fd].clean]
  BY <1>2, <1>3, <1>4, ResolvedReadIs
<1>6. r.checked <=> ~S[o.fd].clean
  BY <1>5
<1>7. S[o.fd].clean => o.fd \in Q
  BY <1>2, Zenon DEF Asks
<1>8. PICK R : R = Q \cup (IF r.checked THEN {o.fd} ELSE {})
  OBVIOUS
<1>9. o.fd \in R /\ \A f \in Q : f \in R
  BY <1>6, <1>7, <1>8
<1>10. Asks([S EXCEPT ![o.fd] = AfterRead(S[o.fd], n)], D, R)
  <2>1. SUFFICES ASSUME NEW f \in DOMAIN S, f \in D, f # o.fd, S[f].clean
                 PROVE  f \in R
    BY <1>9 DEF Asks
  <2>2. f \in Q
    BY <2>1, Zenon DEF Asks
  <2> QED BY <1>9, <2>2
<1>11. r.at \in Nat /\ r.size \in Nat
  <2>1. n \in Int
    <3>1. Signed(o.size) \in Int
      <4>1. o.size \in Words
        BY <1>3 DEF Operations
      <4> QED BY <4>1, SignedIs
    <3>2. S[o.fd].pos \in Nat
      BY <1>2 DEF FDStates
    <3>3. Signed(FileSize - S[o.fd].pos) \in Int
      BY <3>2, FilesAssumption DEF Signed
    <3>4. PICK m \in Int : m = Signed(FileSize - S[o.fd].pos)
      BY <3>3
    <3>5. PICK k \in Int : k = Signed(o.size)
      BY <3>1
    <3>6. Min({k, m}) \in Int
      BY MinMax
    <3> QED BY <1>4, <3>4, <3>5, <3>6 DEF bytesRead
  <2>2. n % Narrow \in Nat
    BY <2>1, FilesAssumption
  <2>3. S[o.fd].pos \in Nat
    BY <1>2 DEF FDStates
  <2> QED BY <1>5, <2>2, <2>3
<1>12. CheckedBy(r, o.fd, Q)
  BY <1>6, <1>7 DEF CheckedBy
<1> QED BY <1>2, <1>5, <1>8, <1>10, <1>11, <1>12

-----------------------------------------------------------------------------
(* The invariant.                                                          *)
Point == \E b \in Blocks(prog), i \in Nat \ {0} : pc = <<b, i>> /\ i <= Len(prog.ops[b]) + 1

PlacesOK ==
    /\ prog \in Programs /\ Point
    /\ phase \in {"analyse", "run", "unspecialised"}
    /\ phase = "analyse" => pc = <<1, 1>> /\ orig = <<0>> /\ asked = {} /\ guesses = {}

PositionsOK ==
    /\ orig \in [DOMAIN orig -> Nat] /\ spec \in [DOMAIN orig -> Nat] /\ asked \subseteq DOMAIN orig
    /\ guessed \in BOOLEAN
    /\ ~guessed => spec = orig

AnalysisOK ==
    /\ phase # "analyse" => /\ resolved = analyse(prog).resolved
                            /\ guesses = Guesses(prog, analyse(prog))
    /\ phase = "run" => /\ Asks(Table(prog, analyse(prog), pc), DOMAIN orig, asked)
                        /\ ~guessed => Follows(Table(prog, analyse(prog), pc), orig, asked)

Inv == PlacesOK /\ PositionsOK /\ AnalysisOK

(* At a call, the table before it, and the one after it.                   *)
LEMMA CallPoint ==
    ASSUME NEW p \in Programs, Settled(p), NEW b \in Blocks(p), NEW i \in 1..Len(p.ops[b]),
           NEW A, A = analyse(p), NEW S, S = A.before[<<b, i>>], NEW o, o = Op(p, <<b, i>>)
    PROVE  /\ <<b, i>> \in Ids(p) /\ S \in Tables /\ o \in Operations
           /\ <<b, i>> \notin Guesses(p, A) => PositionKnown(S, o)
           /\ Table(p, A, <<b, i>>) = S
           /\ Table(p, A, <<b, i + 1>>) = tryResolveVFSCall(S, o).S
           /\ A.resolved[<<b, i>>] = tryResolveVFSCall(S, o).result
<1>1. p.ops[b] \in Seq(Operations) /\ DOMAIN p.ops[b] = 1..Len(p.ops[b])
  BY ProgramsAssumption
<1>2. <<b, i>> \in Ids(p)
  BY <1>1 DEF Ids
<1>3. o = p.ops[b][i] /\ o \in Operations
  BY <1>1 DEF Op
<1>4. S \in Tables
  BY <1>2 DEF Settled, Tables
<1>5. <<b, i>> \notin Guesses(p, A) => PositionKnown(S, o)
  BY <1>2 DEF Guesses
<1>6. Table(p, A, <<b, i>>) = S
  BY <1>1 DEF Table
<1>7. Table(p, A, <<b, i + 1>>) = tryResolveVFSCall(S, o).S
  <2>1. \A id \in Ids(p) : Table(p, A, <<id[1], id[2] + 1>>) = tryResolveVFSCall(A.before[id], Op(p, id)).S
    BY DEF Settled
  <2>2. <<b, i>>[1] = b /\ <<b, i>>[2] = i
    OBVIOUS
  <2> QED BY <1>2, <2>1, <2>2
<1>8. A.resolved[<<b, i>>] = tryResolveVFSCall(S, o).result
  BY <1>2 DEF Settled
<1> QED BY <1>2, <1>3, <1>4, <1>5, <1>6, <1>7, <1>8

(* The end of a block, and the beginning of the next.                      *)
LEMMA BlockPoint ==
    ASSUME NEW p \in Programs, Settled(p), NEW b \in Blocks(p), NEW c \in p.succ[b],
           NEW A, A = analyse(p), NEW i \in Nat, i > Len(p.ops[b])
    PROVE  /\ c \in Blocks(p)
           /\ Table(p, A, <<b, i>>) \in Tables /\ Table(p, A, <<c, 1>>) \in Tables
           /\ KnowsLess(Table(p, A, <<c, 1>>), Table(p, A, <<b, i>>))
<1>1. c \in Blocks(p) /\ p.ops[b] \in Seq(Operations) /\ p.ops[c] \in Seq(Operations)
  BY ProgramsAssumption
<1>2. A.out[b] \in Tables /\ A.out[c] \in Tables
  BY <1>1 DEF Settled, Tables
<1>3. Table(p, A, <<b, i>>) = A.out[b]
  BY <1>1 DEF Table
<1>4. Table(p, A, <<c, 1>>) \in Tables
  <2>1. CASE 1 \in DOMAIN p.ops[c]
    <3>1. <<c, 1>> \in Ids(p)
      BY <1>1, <2>1 DEF Ids
    <3>2. Table(p, A, <<c, 1>>) = A.before[<<c, 1>>]
      BY <2>1 DEF Table
    <3> QED BY <3>1, <3>2 DEF Settled, Tables
  <2>2. CASE 1 \notin DOMAIN p.ops[c]
    BY <1>2, <2>2 DEF Table
  <2> QED BY <2>1, <2>2
<1>5. KnowsLess(Table(p, A, <<c, 1>>), A.out[b])
  BY DEF Settled
<1> QED BY <1>1, <1>2, <1>3, <1>4, <1>5

(* Where control is, as a block and a place in it.                         *)
LEMMA AtCall ==
    ASSUME Inv, phase = "run", ~AtEnd, Settled(prog)
    PROVE  \E S \in Tables : /\ op \in Operations /\ (pc \notin guesses => PositionKnown(S, op))
                             /\ Asks(S, DOMAIN orig, asked) /\ (~guessed => Follows(S, orig, asked))
                             /\ resolved[pc] = tryResolveVFSCall(S, op).result
                             /\ Table(prog, analyse(prog), <<pc[1], pc[2] + 1>>) = tryResolveVFSCall(S, op).S
<1>1. PICK b \in Blocks(prog), i \in Nat \ {0} : pc = <<b, i>> /\ i <= Len(prog.ops[b]) + 1
  BY DEF Inv, PlacesOK, Point
<1>2. pc[1] = b /\ pc[2] = i
  BY <1>1
<1>3. prog \in Programs /\ prog.ops[b] \in Seq(Operations)
  BY ProgramsAssumption DEF Inv, PlacesOK
<1>4. i \in 1..Len(prog.ops[b])
  BY <1>1, <1>2, <1>3 DEF AtEnd
<1>5. PICK A : A = analyse(prog)
  OBVIOUS
<1>6. PICK S : S = A.before[<<b, i>>]
  OBVIOUS
<1>7. op = Op(prog, <<b, i>>)
  BY <1>1 DEF op
<1>8. /\ S \in Tables /\ op \in Operations
      /\ <<b, i>> \notin Guesses(prog, A) => PositionKnown(S, op)
      /\ Table(prog, A, <<b, i>>) = S
      /\ Table(prog, A, <<b, i + 1>>) = tryResolveVFSCall(S, op).S
      /\ A.resolved[<<b, i>>] = tryResolveVFSCall(S, op).result
  BY <1>1, <1>3, <1>4, <1>5, <1>6, <1>7, CallPoint
<1>9. /\ Asks(S, DOMAIN orig, asked) /\ (~guessed => Follows(S, orig, asked))
      /\ resolved[pc] = A.resolved[<<b, i>>] /\ guesses = Guesses(prog, A)
  BY <1>1, <1>5, <1>8 DEF Inv, AnalysisOK
<1> QED BY <1>1, <1>2, <1>5, <1>8, <1>9

(* After it.                                                               *)
LEMMA AfterCall ==
    ASSUME Inv, phase = "run", ~AtEnd, Advance
    PROVE  PlacesOK'
<1>1. PICK b \in Blocks(prog), i \in Nat \ {0} : pc = <<b, i>> /\ i <= Len(prog.ops[b]) + 1
  BY DEF Inv, PlacesOK, Point
<1>2. pc[1] = b /\ pc[2] = i
  BY <1>1
<1>3. prog \in Programs /\ prog.ops[b] \in Seq(Operations)
  BY ProgramsAssumption DEF Inv, PlacesOK
<1>4. i + 1 <= Len(prog.ops[b]) + 1 /\ i + 1 \in Nat \ {0}
  BY <1>1, <1>2, <1>3 DEF AtEnd
<1>5. pc' = <<b, i + 1>> /\ prog' = prog /\ phase' = phase
  BY <1>2 DEF Advance
<1>6. Point'
  BY <1>4, <1>5 DEF Point
<1> QED BY <1>3, <1>5, <1>6 DEF PlacesOK

(* The descriptors after a call, in terms of the table T after it.         *)
LEMMA AfterMove ==
    ASSUME Inv, phase = "run", ~AtEnd, Advance, NEW T,
           T = Table(prog, analyse(prog), <<pc[1], pc[2] + 1>>),
           orig' \in [DOMAIN orig' -> Nat], spec' \in [DOMAIN orig' -> Nat],
           asked' \subseteq DOMAIN orig', Asks(T, DOMAIN orig', asked'),
           ~guessed /\ pc \notin guesses => spec' = orig' /\ Follows(T, orig', asked')
    PROVE  Inv'
<1>1. PlacesOK'
  BY AfterCall
<1>2. guessed' \in BOOLEAN /\ (~guessed' => ~guessed /\ pc \notin guesses)
  BY Zenon DEF Advance
<1>3. PositionsOK'
  BY <1>2 DEF PositionsOK
<1>4. prog' = prog /\ phase' = phase /\ resolved' = resolved /\ pc' = <<pc[1], pc[2] + 1>>
      /\ guesses' = guesses
  BY DEF Advance
<1>5. AnalysisOK'
  BY <1>2, <1>4 DEF AnalysisOK, Inv
<1> QED BY <1>1, <1>3, <1>5 DEF Inv

(* Moving one open descriptor.                                             *)
LEMMA MovedPositions ==
    ASSUME NEW D, NEW P \in [D -> Nat], NEW g, NEW d \in Nat
    PROVE  Moved(P, g, d) \in [D -> Nat] /\ DOMAIN Moved(P, g, d) = D
BY DEF Moved

(* The invariant holds at first, and every action keeps it.                *)
LEMMA InvInit == Init => Inv
<1>1. SUFFICES ASSUME Init PROVE Inv
  OBVIOUS
<1>2. 1 \in Blocks(prog) /\ prog.ops[1] \in Seq(Operations) /\ prog \in Programs
  BY <1>1, ProgramsAssumption DEF Init
<1>3. Point
  BY <1>1, <1>2 DEF Init, Point
<1>4. PlacesOK
  BY <1>1, <1>2, <1>3 DEF PlacesOK, Init
<1>5. PositionsOK
  <2>1. <<0>> \in [{1} -> Nat] /\ DOMAIN <<0>> = {1}
    OBVIOUS
  <2>2. orig = <<0>> /\ spec = <<0>> /\ asked = {}
    BY <1>1 DEF Init
  <2>3. guessed \in BOOLEAN
    BY <1>1, Zenon DEF Init
  <2> QED BY <2>1, <2>2, <2>3, Zenon DEF PositionsOK
<1> QED BY <1>1, <1>4, <1>5 DEF Inv, AnalysisOK, Init

(* What holds of the positions, for the steps below.                       *)
LEMMA InvHas ==
    ASSUME \A p \in Programs : Settled(p), Inv
    PROVE  /\ prog \in Programs /\ Settled(prog)
           /\ orig \in [DOMAIN orig -> Nat] /\ spec \in [DOMAIN orig -> Nat] /\ asked \subseteq DOMAIN orig
           /\ ~guessed => spec = orig
BY DEF Inv, PlacesOK, PositionsOK

LEMMA AnalyseStep ==
    ASSUME \A p \in Programs : Settled(p), Inv, Analyse
    PROVE  Inv'
<1>s. Settled(prog) /\ prog \in Programs
  BY InvHas
<1>1. PICK A : A = analyse(prog)
  OBVIOUS
<1>2. KnowsLess(Table(prog, A, <<1, 1>>), initialiseFDStore)
  BY <1>s, <1>1 DEF Settled
<1>3. pc = <<1, 1>> /\ orig = <<0>> /\ asked = {}
  BY DEF Inv, PlacesOK, Analyse
<1>4. DOMAIN initialiseFDStore = 1..Len(initialiseFDStore) /\ Len(initialiseFDStore) \in Nat
  BY DEF initialiseFDStore
<1>5. Table(prog, A, <<1, 1>>) \in Tables
  <2>1. 1 \in Blocks(prog) /\ prog.ops[1] \in Seq(Operations)
    BY <1>s, ProgramsAssumption
  <2>2. CASE 1 \in DOMAIN prog.ops[1]
    <3>1. <<1, 1>> \in Ids(prog)
      BY <2>1, <2>2 DEF Ids
    <3>2. Table(prog, A, <<1, 1>>) = A.before[<<1, 1>>]
      BY <2>2 DEF Table
    <3> QED BY <1>s, <1>1, <3>1, <3>2 DEF Settled, Tables
  <2>3. CASE 1 \notin DOMAIN prog.ops[1]
    <3>1. Table(prog, A, <<1, 1>>) = A.out[1]
      BY <2>3 DEF Table
    <3> QED BY <1>s, <1>1, <2>1, <3>1 DEF Settled, Tables
  <2> QED BY <2>2, <2>3
<1>6. Follows(initialiseFDStore, orig, asked)
  <2>1. Fits(FDState("stdin", 0), 0, 1, asked)
    BY FitsNew
  <2> QED BY <1>3, <2>1 DEF Follows, initialiseFDStore
<1>7. Follows(Table(prog, A, pc), orig, asked)
  BY <1>2, <1>3, <1>4, <1>5, <1>6, FollowsLess
<1>8. Asks(Table(prog, A, pc), DOMAIN orig, asked)
  BY <1>7, FollowsAsks
<1>9. /\ UNCHANGED <<prog, pc, orig, spec, asked, guessed>> /\ phase' = "run"
      /\ resolved' = A.resolved /\ guesses' = Guesses(prog, A)
  BY <1>1 DEF Analyse
<1>10. PlacesOK'
  BY <1>9 DEF Inv, PlacesOK, Point
<1>11. PositionsOK'
  BY <1>9 DEF Inv, PositionsOK
<1>12. AnalysisOK'
  BY <1>1, <1>7, <1>8, <1>9 DEF AnalysisOK
<1> QED BY <1>10, <1>11, <1>12 DEF Inv

LEMMA OpenStep ==
    ASSUME \A p \in Programs : Settled(p), Inv, Open
    PROVE  Inv'
<1>1. phase = "run" /\ ~AtEnd /\ Advance /\ op.kind = "open"
  BY DEF Open, AtOp, op
<1>2. PICK S \in Tables : /\ op \in Operations
                          /\ Asks(S, DOMAIN orig, asked) /\ (~guessed => Follows(S, orig, asked))
                          /\ Table(prog, analyse(prog), <<pc[1], pc[2] + 1>>) = tryResolveVFSCall(S, op).S
  BY <1>1, InvHas, AtCall
<1>3. tryResolveVFSCall(S, op).S = tryPromoteOpenCall(S, op)
  BY <1>1 DEF tryResolveVFSCall, Unresolved
<1>4. op.fd \in Descriptors
  BY <1>1, <1>2 DEF Operations
<1>5. orig' = Opened(orig, op.fd) /\ spec' = Opened(spec, op.fd) /\ asked' = asked \ {op.fd}
  BY DEF Open
<1>6. ~guessed => spec' = orig' /\ Follows(tryPromoteOpenCall(S, op), orig', asked')
  BY <1>2, <1>4, <1>5, InvHas, FollowsOpen
<1>7. /\ orig' \in [DOMAIN orig' -> Nat] /\ spec' \in [DOMAIN orig' -> Nat] /\ asked' \subseteq DOMAIN orig'
      /\ DOMAIN orig' = {op.fd} \cup DOMAIN orig
  BY <1>5, InvHas DEF Opened
<1>8. Asks(tryPromoteOpenCall(S, op), DOMAIN orig', asked')
  BY <1>2, <1>4, <1>5, <1>7, AsksOpen
<1> QED BY <1>1, <1>2, <1>3, <1>6, <1>7, <1>8, AfterMove

LEMMA CloseStep ==
    ASSUME \A p \in Programs : Settled(p), Inv, Close
    PROVE  Inv'
<1>1. phase = "run" /\ ~AtEnd /\ Advance /\ op.kind = "close"
  BY DEF Close, AtOp, op
<1>2. PICK S \in Tables : /\ Asks(S, DOMAIN orig, asked) /\ (~guessed => Follows(S, orig, asked))
                          /\ Table(prog, analyse(prog), <<pc[1], pc[2] + 1>>) = tryResolveVFSCall(S, op).S
  BY <1>1, InvHas, AtCall
<1>3. tryResolveVFSCall(S, op).S = S
  BY <1>1 DEF tryResolveVFSCall, Unresolved
<1>4. orig' = Closed(orig, op.fd) /\ spec' = Closed(spec, op.fd) /\ asked' = asked \ {op.fd}
  BY DEF Close
<1>5. ~guessed => spec' = orig' /\ Follows(S, orig', asked')
  BY <1>2, <1>4, InvHas, FollowsClose
<1>6. /\ orig' \in [DOMAIN orig' -> Nat] /\ spec' \in [DOMAIN orig' -> Nat] /\ asked' \subseteq DOMAIN orig'
      /\ DOMAIN orig' = DOMAIN orig \ {op.fd}
  BY <1>4, InvHas DEF Closed
<1>7. Asks(S, DOMAIN orig', asked')
  <2>1. Asks(S, DOMAIN orig \ {op.fd}, asked \ {op.fd})
    BY <1>2, AsksClose
  <2> QED BY <1>4, <1>6, <2>1
<1> QED BY <1>1, <1>2, <1>3, <1>5, <1>6, <1>7, AfterMove

LEMMA ReadStep ==
    ASSUME \A p \in Programs : Settled(p), Inv, Read
    PROVE  Inv'
<1>1. /\ phase = "run" /\ ~AtEnd /\ Advance /\ op.kind = "read" /\ op.fd \in DOMAIN orig
      /\ resolved[pc] = {} /\ asked' = asked
  BY DEF Read, AtOp, op, IsOpen
<1>2. PICK S \in Tables : /\ op \in Operations
                          /\ Asks(S, DOMAIN orig, asked) /\ (~guessed => Follows(S, orig, asked))
                          /\ resolved[pc] = tryResolveVFSCall(S, op).result
                          /\ Table(prog, analyse(prog), <<pc[1], pc[2] + 1>>) = tryResolveVFSCall(S, op).S
  BY <1>1, InvHas, AtCall
<1>3. PICK n \in IF op.size = Unknown THEN 0..FileSize ELSE {op.size} :
        /\ orig' = Moved(orig, op.fd, orig[op.fd] + BytesRead(orig[op.fd], n))
        /\ spec' = Moved(spec, op.fd, spec[op.fd] + BytesRead(spec[op.fd], n))
  BY DEF Read
<1>4. PICK d, e : d = orig[op.fd] + BytesRead(orig[op.fd], n) /\ e = spec[op.fd] + BytesRead(spec[op.fd], n)
  OBVIOUS
<1>5. d \in Nat /\ e \in Nat
  <2>1. n \in Nat
    BY <1>1, <1>2, FilesAssumption DEF Operations, Words
  <2>2. \A at \in Nat : BytesRead(at, n) \in Nat
    BY <2>1, BytesInNat
  <2>3. orig[op.fd] \in Nat /\ spec[op.fd] \in Nat
    BY <1>1, InvHas
  <2> QED BY <1>4, <2>2, <2>3
<1>6. ~guessed => spec' = orig' /\ Follows(tryResolveVFSCall(S, op).S, orig', asked')
  <2>1. ~guessed => spec' = orig'
    BY <1>3, InvHas
  <2> QED BY <1>1, <1>2, <1>3, <1>4, <2>1, ReadFollowed
<1>7. orig' \in [DOMAIN orig -> Nat] /\ spec' \in [DOMAIN orig -> Nat] /\ DOMAIN orig' = DOMAIN orig
  BY <1>3, <1>4, <1>5, InvHas, MovedPositions
<1>8. Asks(tryResolveVFSCall(S, op).S, DOMAIN orig', asked')
  BY <1>1, <1>2, <1>7, AsksUnresolvedRead
<1> QED BY <1>1, <1>2, <1>6, <1>7, <1>8, InvHas, AfterMove

(* To seek to a position is to be there.                                   *)
LEMMA SeekSet ==
    ASSUME NEW n \in Nat, Positive(n), NEW at
    PROVE  SeekTo(at, "set", n) = n
<1>1. Signed(n) + 0 = n
  BY SignedPositive DEF Positive
<1>2. SeekTo(at, "set", n) = IF Positive(Signed(n) + 0) THEN Signed(n) + 0 ELSE at
  BY DEF SeekTo
<1> QED BY <1>1, <1>2

LEMMA ResolvedReadStep ==
    ASSUME \A p \in Programs : Settled(p), Inv, ResolvedRead
    PROVE  Inv'
<1>1. phase = "run" /\ ~AtEnd /\ Advance /\ op.kind = "read" /\ op.fd \in DOMAIN orig
  BY DEF ResolvedRead, AtOp, op, IsOpen
<1>2. PICK S \in Tables : /\ op \in Operations /\ (pc \notin guesses => PositionKnown(S, op))
                          /\ Asks(S, DOMAIN orig, asked) /\ (~guessed => Follows(S, orig, asked))
                          /\ resolved[pc] = tryResolveVFSCall(S, op).result
                          /\ Table(prog, analyse(prog), <<pc[1], pc[2] + 1>>) = tryResolveVFSCall(S, op).S
  BY <1>1, InvHas, AtCall
<1>3. PICK r \in tryResolveVFSCall(S, op).result :
        /\ orig' = Moved(orig, op.fd, orig[op.fd] + BytesRead(orig[op.fd], op.size))
        /\ spec' = Moved(spec, op.fd, SeekTo(spec[op.fd], "set", r.at + r.size))
        /\ asked' = asked \cup (IF r.checked THEN {op.fd} ELSE {})
  BY <1>2 DEF ResolvedRead
<1>4. /\ r.at \in Nat /\ r.size \in Nat
      /\ Asks(tryResolveVFSCall(S, op).S, DOMAIN orig, asked')
  BY <1>1, <1>2, <1>3, AsksResolvedRead
<1>5. PICK n, e : n = BytesRead(orig[op.fd], op.size) /\ e = SeekTo(spec[op.fd], "set", r.at + r.size)
  OBVIOUS
<1>6. orig[op.fd] + n \in Nat /\ e \in Nat
  <2>1. orig[op.fd] \in Nat /\ spec[op.fd] \in Nat
    BY <1>1, InvHas
  <2>2. op.size \in Nat
    <3>1. op.size # Unknown
      BY <1>1, <1>2, <1>3, ConstantIfResolved
    <3> QED BY <1>1, <1>2, <3>1, FilesAssumption DEF Operations, Words
  <2>3. n \in Nat
    BY <1>5, <2>1, <2>2, BytesInNat
  <2>4. r.at + r.size \in Nat
    BY <1>4
  <2>5. SeekTo(spec[op.fd], "set", r.at + r.size) \in Nat
    BY <2>1, <2>4, SeekInNat
  <2> QED BY <1>5, <2>1, <2>3, <2>5
<1>7. ~guessed /\ pc \notin guesses => spec' = orig' /\ Follows(tryResolveVFSCall(S, op).S, orig', asked')
  <2>1. SUFFICES ASSUME ~guessed, pc \notin guesses
                 PROVE  spec' = orig' /\ Follows(tryResolveVFSCall(S, op).S, orig', asked')
    BY Zenon
  <2>2. /\ r.at = orig[op.fd] /\ r.size = n /\ Positive(orig[op.fd] + n)
        /\ Follows(tryResolveVFSCall(S, op).S, Moved(orig, op.fd, orig[op.fd] + n), asked')
    BY <1>1, <1>2, <1>3, <1>5, <2>1, ResolvedReadFollowed
  <2>3. e = orig[op.fd] + n
    BY <1>5, <1>6, <2>2, SeekSet
  <2>4. spec = orig
    BY <2>1, InvHas
  <2> QED BY <1>3, <1>5, <2>2, <2>3, <2>4
<1>8. orig' \in [DOMAIN orig -> Nat] /\ spec' \in [DOMAIN orig -> Nat] /\ DOMAIN orig' = DOMAIN orig
  BY <1>3, <1>5, <1>6, InvHas, MovedPositions
<1>9. asked' \subseteq DOMAIN orig'
  BY <1>1, <1>3, <1>8, InvHas
<1> QED BY <1>1, <1>2, <1>4, <1>7, <1>8, <1>9, AfterMove

LEMMA CheckFailsStep ==
    ASSUME \A p \in Programs : Settled(p), Inv, CheckFails
    PROVE  Inv'
<1>1. phase = "run" /\ ~AtEnd /\ op.kind = "read" /\ op.fd \in DOMAIN orig
  BY DEF CheckFails, AtOp, op, IsOpen
<1>2. PICK S \in Tables : /\ op \in Operations /\ (pc \notin guesses => PositionKnown(S, op))
                          /\ Asks(S, DOMAIN orig, asked) /\ (~guessed => Follows(S, orig, asked))
                          /\ resolved[pc] = tryResolveVFSCall(S, op).result
  BY <1>1, InvHas, AtCall
<1>3. PICK r \in tryResolveVFSCall(S, op).result : spec' = Moved(spec, op.fd, SeekTo(spec[op.fd], "set", r.at))
  BY <1>2 DEF CheckFails
<1>4. /\ phase' = "unspecialised" /\ guessed' = (guessed \/ pc \in guesses)
      /\ UNCHANGED <<prog, resolved, guesses, pc, orig, asked>>
  BY DEF CheckFails
<1>5. SeekTo(spec[op.fd], "set", r.at) \in Nat
  <2>1. spec[op.fd] \in Nat
    BY <1>1, InvHas
  <2>2. r.at \in Nat
    BY <1>1, <1>2, <1>3, AsksResolvedRead
  <2> QED BY <2>1, <2>2, SeekInNat
<1>6. ~guessed /\ pc \notin guesses => spec' = orig'
  <2>1. SUFFICES ASSUME ~guessed, pc \notin guesses PROVE spec' = orig
    BY <1>4, Zenon
  <2>2. /\ r.at = orig[op.fd] /\ r.size = BytesRead(orig[op.fd], op.size) /\ r.size \in Nat
        /\ Positive(orig[op.fd] + r.size)
    BY <1>1, <1>2, <1>3, <2>1, ResolvedReadFollowed
  <2>3. spec = orig /\ orig[op.fd] \in Nat
    BY <1>1, <2>1, InvHas
  <2>4. Positive(r.at)
    BY <2>2, <2>3, FilesAssumption DEF Positive
  <2>5. SeekTo(spec[op.fd], "set", r.at) = orig[op.fd]
    BY <2>2, <2>3, <2>4, SeekSet
  <2>6. Moved(orig, op.fd, orig[op.fd]) = orig
    BY <1>1, InvHas DEF Moved
  <2> QED BY <1>3, <2>3, <2>5, <2>6
<1>7. spec' \in [DOMAIN orig -> Nat]
  BY <1>3, <1>5, InvHas, MovedPositions
<1>8. PlacesOK'
  BY <1>1, <1>4 DEF Inv, PlacesOK, Point
<1>9. PositionsOK'
  <2>1. guessed' \in BOOLEAN /\ (~guessed' => ~guessed /\ pc \notin guesses)
    BY <1>4, Zenon
  <2> QED BY <1>4, <1>6, <1>7, <2>1 DEF Inv, PositionsOK
<1>10. AnalysisOK'
  BY <1>1, <1>4 DEF Inv, AnalysisOK
<1> QED BY <1>8, <1>9, <1>10 DEF Inv

LEMMA SeekStep ==
    ASSUME \A p \in Programs : Settled(p), Inv, Seek
    PROVE  Inv'
<1>1. phase = "run" /\ ~AtEnd /\ Advance /\ op.kind = "seek" /\ op.fd \in DOMAIN orig /\ asked' = asked
  BY DEF Seek, AtOp, op, IsOpen
<1>2. PICK S \in Tables : /\ op \in Operations /\ (pc \notin guesses => PositionKnown(S, op))
                          /\ Asks(S, DOMAIN orig, asked) /\ (~guessed => Follows(S, orig, asked))
                          /\ Table(prog, analyse(prog), <<pc[1], pc[2] + 1>>) = tryResolveVFSCall(S, op).S
  BY <1>1, InvHas, AtCall
<1>3. PICK off \in IF op.off = Unknown THEN 0..FileSize ELSE {op.off} :
        /\ orig' = Moved(orig, op.fd, SeekTo(orig[op.fd], op.whence, off))
        /\ spec' = Moved(spec, op.fd, SeekTo(spec[op.fd], op.whence, off))
  BY DEF Seek
<1>4. PICK d, e : d = SeekTo(orig[op.fd], op.whence, off) /\ e = SeekTo(spec[op.fd], op.whence, off)
  OBVIOUS
<1>5. d \in Nat /\ e \in Nat
  <2>1. off \in Nat /\ op.whence \in {"set", "cur", "end"}
    BY <1>1, <1>2, FilesAssumption DEF Operations, Words
  <2>2. orig[op.fd] \in Nat /\ spec[op.fd] \in Nat
    BY <1>1, InvHas
  <2> QED BY <1>4, <2>1, <2>2, SeekInNat
<1>6. ~guessed /\ pc \notin guesses => spec' = orig' /\ Follows(tryResolveVFSCall(S, op).S, orig', asked')
  <2>1. SUFFICES ASSUME ~guessed, pc \notin guesses
                 PROVE  spec' = orig' /\ Follows(tryResolveVFSCall(S, op).S, orig', asked')
    BY Zenon
  <2>2. spec = orig
    BY <2>1, InvHas
  <2> QED BY <1>1, <1>2, <1>3, <2>1, <2>2, SeekFollowed
<1>7. orig' \in [DOMAIN orig -> Nat] /\ spec' \in [DOMAIN orig -> Nat] /\ DOMAIN orig' = DOMAIN orig
  BY <1>3, <1>4, <1>5, InvHas, MovedPositions
<1>8. Asks(tryResolveVFSCall(S, op).S, DOMAIN orig', asked')
  BY <1>1, <1>2, <1>7, AsksSeek
<1> QED BY <1>1, <1>2, <1>6, <1>7, <1>8, InvHas, AfterMove

LEMMA CallStep ==
    ASSUME \A p \in Programs : Settled(p), Inv, Call
    PROVE  Inv'
<1>1. phase = "run" /\ ~AtEnd /\ Advance /\ op.kind \in {"readAny", "call"} /\ asked' = asked
  BY DEF Call, AtOp, op
<1>2. PICK S \in Tables : Table(prog, analyse(prog), <<pc[1], pc[2] + 1>>) = tryResolveVFSCall(S, op).S
  BY <1>1, InvHas, AtCall
<1>3. tryResolveVFSCall(S, op).S = <<>>
  BY <1>1 DEF tryResolveVFSCall, Unresolved
<1>4. PICK f \in DOMAIN orig, d, e \in 0..FileSize :
        (orig[f] = spec[f] => d = e) /\ orig' = Moved(orig, f, d) /\ spec' = Moved(spec, f, e)
  BY DEF Call
<1>5. d \in Nat /\ e \in Nat
  BY FilesAssumption
<1>6. orig' \in [DOMAIN orig -> Nat] /\ spec' \in [DOMAIN orig -> Nat] /\ DOMAIN orig' = DOMAIN orig
  BY <1>4, <1>5, InvHas, MovedPositions
<1>7. Follows(<<>>, orig', asked') /\ Asks(<<>>, DOMAIN orig', asked')
  BY DEF Follows, Asks
<1>8. ~guessed => spec' = orig'
  BY <1>4, InvHas
<1> QED BY <1>1, <1>2, <1>3, <1>6, <1>7, <1>8, InvHas, AfterMove

LEMMA NextBlockStep ==
    ASSUME \A p \in Programs : Settled(p), Inv, NextBlock
    PROVE  Inv'
<1>s. Settled(prog) /\ prog \in Programs
  BY InvHas
<1>1. PICK c \in prog.succ[pc[1]] : pc' = <<c, 1>>
  BY DEF NextBlock
<1>2. PICK b \in Blocks(prog), i \in Nat \ {0} : pc = <<b, i>>
  BY DEF Inv, PlacesOK, Point
<1>3. pc[1] = b /\ pc[2] = i /\ i > Len(prog.ops[b]) /\ phase = "run"
  BY <1>2 DEF NextBlock, AtEnd
<1>4. PICK A : A = analyse(prog)
  OBVIOUS
<1>5. /\ c \in Blocks(prog)
      /\ Table(prog, A, <<b, i>>) \in Tables /\ Table(prog, A, <<c, 1>>) \in Tables
      /\ KnowsLess(Table(prog, A, <<c, 1>>), Table(prog, A, <<b, i>>))
  BY <1>s, <1>1, <1>2, <1>3, <1>4, BlockPoint
<1>6. /\ Asks(Table(prog, A, <<b, i>>), DOMAIN orig, asked)
      /\ ~guessed => Follows(Table(prog, A, <<b, i>>), orig, asked)
  BY <1>2, <1>3, <1>4 DEF Inv, AnalysisOK
<1>7. /\ Asks(Table(prog, A, <<c, 1>>), DOMAIN orig, asked)
      /\ ~guessed => Follows(Table(prog, A, <<c, 1>>), orig, asked)
  <2>1. PICK T : T = Table(prog, A, <<b, i>>)
    OBVIOUS
  <2>2. DOMAIN T = 1..Len(T) /\ Len(T) \in Nat
    BY <1>5, <2>1, Entries
  <2> QED BY <1>5, <1>6, <2>1, <2>2, FollowsLess, AsksLess
<1>8. UNCHANGED <<prog, phase, resolved, guesses, orig, spec, asked, guessed>>
  BY DEF NextBlock
<1>9. PlacesOK'
  <2>1. Point'
    <3>1. prog.ops[c] \in Seq(Operations)
      BY <1>s, <1>5, ProgramsAssumption
    <3>2. 1 \in Nat \ {0} /\ 1 <= Len(prog.ops[c]) + 1
      BY <3>1
    <3> QED BY <1>1, <1>5, <1>8, <3>2 DEF Point
  <2> QED BY <1>3, <1>8, <2>1 DEF Inv, PlacesOK
<1>10. PositionsOK'
  BY <1>8 DEF Inv, PositionsOK
<1>11. AnalysisOK'
  BY <1>1, <1>4, <1>7, <1>8 DEF Inv, AnalysisOK
<1> QED BY <1>9, <1>10, <1>11 DEF Inv

LEMMA InvNext ==
    ASSUME \A p \in Programs : Settled(p), Inv, [Next]_vars
    PROVE  Inv'
<1>1. CASE UNCHANGED vars
  BY <1>1 DEF vars, Inv, PlacesOK, Point, PositionsOK, AnalysisOK
<1> QED BY <1>1, AnalyseStep, OpenStep, CloseStep, ReadStep, ResolvedReadStep, CheckFailsStep,
           SeekStep, CallStep, NextBlockStep DEF Next

-----------------------------------------------------------------------------
(* What follows from it.                                                   *)

(* The shape of what was resolved.                                         *)
LEMMA InvTypeOK == ASSUME \A p \in Programs : Settled(p), Inv PROVE TypeOK
<1>1. prog \in Programs /\ phase \in {"analyse", "run", "unspecialised"}
  BY DEF Inv, PlacesOK
<1>2. ASSUME phase # "analyse"
      PROVE  /\ DOMAIN resolved = Ids(prog)
             /\ \A id \in Ids(prog) : resolved[id] # {} =>
                  \/ Op(prog, id).kind = "read" /\ Op(prog, id).size # Unknown
                  \/ Op(prog, id).kind = "seek" /\ Op(prog, id).off # Unknown
  <2>1. PICK A : A = analyse(prog)
    OBVIOUS
  <2>2. resolved = [id \in Ids(prog) |-> tryResolveVFSCall(A.before[id], Op(prog, id)).result]
    BY <1>1, <1>2, <2>1 DEF Settled, Inv, AnalysisOK
  <2>3. ASSUME NEW id \in Ids(prog), resolved[id] # {}
        PROVE  \/ Op(prog, id).kind = "read" /\ Op(prog, id).size # Unknown
               \/ Op(prog, id).kind = "seek" /\ Op(prog, id).off # Unknown
    <3>1. PICK b \in Blocks(prog) : id \in {b} \X DOMAIN prog.ops[b]
      BY DEF Ids
    <3>2. PICK i \in DOMAIN prog.ops[b] : id = <<b, i>>
      BY <3>1
    <3>3. i \in 1..Len(prog.ops[b])
      BY <1>1, <3>1, <3>2, ProgramsAssumption
    <3>4. PICK S, o : S = A.before[<<b, i>>] /\ o = Op(prog, <<b, i>>)
      OBVIOUS
    <3>5. S \in Tables /\ o \in Operations
      BY <1>1, <2>1, <3>1, <3>3, <3>4, CallPoint
    <3>6. tryResolveVFSCall(S, o).result # {}
      BY <2>2, <2>3, <3>2, <3>4
    <3>7. \/ o.kind = "read" /\ o.size # Unknown
          \/ o.kind = "seek" /\ o.off # Unknown
      BY <3>5, <3>6, ConstantIfResolved
    <3> QED BY <3>2, <3>4, <3>7
  <2> QED BY <2>2, <2>3
<1>3. /\ DOMAIN orig = DOMAIN spec /\ asked \subseteq DOMAIN orig /\ guessed \in BOOLEAN
      /\ \A f \in DOMAIN orig : orig[f] \in Nat /\ spec[f] \in Nat
  BY DEF Inv, PositionsOK
<1>4. guesses \subseteq Ids(prog)
  BY DEF Inv, PlacesOK, AnalysisOK, Guesses
<1> QED BY <1>1, <1>2, <1>3, <1>4 DEF TypeOK

(* At a call that was resolved, its result and whether it is checked.      *)
LEMMA InvResolved ==
    ASSUME \A p \in Programs : Settled(p), Inv
    PROVE  FilesAsInOriginal /\ UncheckedReadsAskedBefore
<1>1. ASSUME AtOp("read"), IsOpen, NEW r \in resolved[pc]
      PROVE  /\ CheckedBy(r, op.fd, asked)
             /\ ~guessed /\ pc \notin guesses =>
                   r.at = orig[op.fd] /\ r.size = BytesRead(orig[op.fd], op.size)
  <2>1. phase = "run" /\ ~AtEnd /\ op.kind = "read" /\ op.fd \in DOMAIN orig
    BY <1>1 DEF AtOp, op, IsOpen
  <2>2. PICK S \in Tables : /\ op \in Operations /\ (pc \notin guesses => PositionKnown(S, op))
                            /\ Asks(S, DOMAIN orig, asked) /\ (~guessed => Follows(S, orig, asked))
                            /\ resolved[pc] = tryResolveVFSCall(S, op).result
    BY <2>1, InvHas, AtCall
  <2>3. r \in tryResolveVFSCall(S, op).result
    BY <1>1, <2>2
  <2>4. ~guessed /\ pc \notin guesses =>
           r.at = orig[op.fd] /\ r.size = BytesRead(orig[op.fd], op.size)
    BY <2>1, <2>2, <2>3, ResolvedReadFollowed
  <2>5. CheckedBy(r, op.fd, asked)
    BY <2>1, <2>2, <2>3, AsksResolvedRead
  <2> QED BY <2>4, <2>5
<1>2. ASSUME AtOp("seek"), IsOpen, NEW r \in resolved[pc], ~guessed, pc \notin guesses
      PROVE  r.at = SeekTo(orig[op.fd], op.whence, op.off)
  <2>1. phase = "run" /\ ~AtEnd /\ op.kind = "seek" /\ op.fd \in DOMAIN orig
    BY <1>2 DEF AtOp, op, IsOpen
  <2>2. PICK S \in Tables : /\ op \in Operations /\ PositionKnown(S, op) /\ Follows(S, orig, asked)
                            /\ resolved[pc] = tryResolveVFSCall(S, op).result
    BY <1>2, <2>1, InvHas, AtCall
  <2>3. PICK off : off \in IF op.off = Unknown THEN 0..FileSize ELSE {op.off}
    BY FilesAssumption
  <2>4. \A q \in tryResolveVFSCall(S, op).result : q.at = SeekTo(orig[op.fd], op.whence, op.off)
    BY <2>1, <2>2, <2>3, SeekFollowed
  <2> QED BY <1>2, <2>2, <2>4
<1>3. FilesAsInOriginal
  <2>1. ASSUME ~guessed, pc \notin guesses PROVE ResolvedAsInOriginal
    BY <1>1, <1>2, <2>1 DEF ResolvedAsInOriginal
  <2> QED BY <2>1, InvHas DEF FilesAsInOriginal
<1>4. UncheckedReadsAskedBefore
  <2>1. SUFFICES ASSUME AtOp("read"), IsOpen, NEW r \in resolved[pc] PROVE r.checked \/ op.fd \in asked
    BY DEF UncheckedReadsAskedBefore
  <2>2. CheckedBy(r, op.fd, asked)
    BY <1>1, <2>1
  <2> QED BY <2>2, Zenon DEF CheckedBy
<1> QED BY <1>3, <1>4

(* The three theorems are about programs of which the analysis has settled *)
(* after the two passes it makes over a loop (analyseLoop); TwoPassesSuffice is *)
(* that all functions of the run are such.                                 *)

(* What was resolved is reads and seeks of constant arguments, and the two *)
(* programs have the same descriptors open.                                *)
THEOREM TypeCorrect ==
    ASSUME \A p \in Programs : Settled(p)
    PROVE  Spec => []TypeOK
<1>1. Init => Inv
  BY InvInit
<1>2. Inv /\ [Next]_vars => Inv'
  BY InvNext
<1>3. Inv => TypeOK
  BY InvTypeOK
<1> QED BY <1>1, <1>2, <1>3, PTL DEF Spec

(* Reads and seeks executed at specialisation time do what the original    *)
(* does there, and descriptors are where it has them (emitVFSCall).        *)
THEOREM FilesFollowed ==
    ASSUME \A p \in Programs : Settled(p)
    PROVE  Spec => []FilesAsInOriginal
<1>1. Init => Inv
  BY InvInit
<1>2. Inv /\ [Next]_vars => Inv'
  BY InvNext
<1>3. Inv => FilesAsInOriginal
  BY InvResolved
<1> QED BY <1>1, <1>2, <1>3, PTL DEF Spec

(* A read goes without a check only where the daemon has been asked on     *)
(* every path that leads to it (the clean flags of FDStoreMerger).         *)
THEOREM AskedBeforeUnchecked ==
    ASSUME \A p \in Programs : Settled(p)
    PROVE  Spec => []UncheckedReadsAskedBefore
<1>1. Init => Inv
  BY InvInit
<1>2. Inv /\ [Next]_vars => Inv'
  BY InvNext
<1>3. Inv => UncheckedReadsAskedBefore
  BY InvResolved
<1> QED BY <1>1, <1>2, <1>3, PTL DEF Spec
=============================================================================
