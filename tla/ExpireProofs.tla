---------------------------- MODULE ExpireProofs ----------------------------
(***************************************************************************)
(* Proofs about expire: what it removes is never needed by a backup that   *)
(* stays, the newest full backup and the WAL for point-in-time recovery    *)
(* are kept, and an expire that ends has left nothing behind, for any      *)
(* backups, segments, settings and kills.                                  *)
(***************************************************************************)
EXTENDS Expire, FiniteSetTheorems

Segment == Nat \X Nat
Type == {"full", "diff", "incr"}

Dir == [main : BOOLEAN, copy : BOOLEAN, id : Nat, type : Type, prior : Nat \union {None}, full : Nat,
        start : Segment \union {None}, stop : Segment \union {None}]

Command == [pc : {"idle", "manifest", "copy", "dirs", "archive", "done"},
            listed : SUBSET Nat, todo : SUBSET Nat, adhoc : Nat \union {None}, retain : Nat,
            type : Type, rm : SUBSET Nat, id : Nat, seg : SUBSET Segment]

TypeOK ==
  /\ opt \in Options
  /\ pg \in [id : Nat \ {0}, tl : Nat, seg : Nat]
  /\ wal \in [1 .. pg.id -> SUBSET Segment]
  /\ pushed \in [1 .. pg.id -> SUBSET Segment]
  /\ count \in Nat
  /\ DOMAIN dir \subseteq 1 .. count
  /\ \A b \in DOMAIN dir : dir[b] \in Dir
  /\ p \in Command

(***************************************************************************)
(* One backup: it is of a cluster the stanza has had and, unless it is     *)
(* full, depends on an earlier one of that cluster.  Two backups: the      *)
(* later one is of the same cluster, where it does not start before the    *)
(* earlier one, or of a later cluster.                                     *)
(***************************************************************************)
Here == <<pg.tl, pg.seg>>

OneOK(b) ==
  /\ dir[b].id \in 1 .. pg.id
  /\ dir[b].prior = None <=> dir[b].type = "full"
  /\ dir[b].prior # None => dir[b].prior < b
  /\ dir[b].start = None <=> dir[b].stop = None
  /\ dir[b].prior \in DOMAIN dir =>
       /\ dir[dir[b].prior].id = dir[b].id
       /\ dir[b].type = "diff" => dir[dir[b].prior].type = "full"
  /\ dir[b].start # None /\ dir[b].id = pg.id => Before(dir[b].start, Here)

PairOK(b, c) ==
  b < c => /\ dir[b].id <= dir[c].id
           /\ dir[b].id = dir[c].id /\ dir[b].start # None /\ dir[c].start # None =>
                Before(dir[b].start, dir[c].start)

DirOK ==
  /\ \A b \in DOMAIN dir : OneOK(b)
  /\ \A b, c \in DOMAIN dir : PairOK(b, c)

(* A backup that has its manifest depends on one that has it.              *)
ChainOK == \A b \in Complete : dir[b].prior # None => dir[b].prior \in Complete

(* Nothing that b could have been based on is later than its prior backup. *)
Based(b, c) ==
  c < b /\ dir[c].id = dir[b].id /\ dir[b].type # "full"
    /\ (dir[c].type = "full" \/ dir[b].type = "incr") => c <= dir[b].prior

BaseOK == \A b \in DOMAIN dir : \A c \in Complete : Based(b, c)

(* The WAL that makes b consistent is between its start and its stop.      *)
Needs(b, w) == dir[b].start # None /\ Before(dir[b].start, w) /\ Before(w, dir[b].stop)

WalOK ==
  /\ \A b \in Complete : \A w \in pushed[dir[b].id] : Needs(b, w) => w \in wal[dir[b].id]
  /\ \A w \in pushed[pg.id] : ~Before(Here, w)

(***************************************************************************)
(* The command: it lists the complete backups and the one it is removing,  *)
(* and nothing it is going to remove is part of what a complete backup     *)
(* needs.                                                                  *)
(***************************************************************************)
ListOK ==
  /\ p.pc # "idle" => Complete \subseteq p.listed /\ p.listed \subseteq DOMAIN dir
  /\ p.pc = "manifest" => p.todo \subseteq p.listed /\ \A b \in p.listed \ Complete : ExpireBackup(b)
  /\ p.pc \notin {"idle", "manifest"} => p.listed = Complete /\ p.todo = {}

Unneeded(id, w) == \A b \in Complete : dir[b].id = id => ~Needs(b, w)

RemoveOK ==
  /\ p.pc \notin {"archive", "done"} => p.id = 1
  /\ p.pc = "dirs" => p.rm \intersect p.listed = {} /\ p.rm \subseteq DOMAIN dir
  /\ p.pc = "archive" => p.id \in 1 .. pg.id /\ \A w \in p.seg : Unneeded(p.id, w)
  /\ p.pc = "done" => p.id = pg.id

ExpireInv == TypeOK /\ DirOK /\ ChainOK /\ BaseOK /\ WalOK /\ ListOK /\ RemoveOK

(***************************************************************************)
(* Further invariants, each on top of ExpireInv.                           *)
(*                                                                         *)
(* A full backup that is to be expired has one that is not and that is     *)
(* newer or, when it is expired by its label, of the same cluster.         *)
(***************************************************************************)
Spares(r, c) ==
  /\ c \in Fulls(Complete) \ p.todo
  /\ c > r \/ (p.adhoc = r /\ dir[c].id = dir[r].id)

FullOK == p.pc = "manifest" => \A r \in Fulls(p.todo) : \E c \in DOMAIN dir : Spares(r, c)

(* The archives that were looked at hold nothing but what is in a range.   *)
Covered(id, w) ==
  LET here == {b \in OfType(p.listed, TypesOf(p.type)) : dir[b].id = id}
      b == ArchiveRetentionBackup(p.listed, p.retain, p.type, id)
  IN  IF here = {} THEN id = pg.id
      ELSE dir[b].start # None => \E r \in ArchiveRangeList(p.listed, b) : InRange(r, w)

LeftOK ==
  /\ p.pc = "archive" => /\ \A id \in 1 .. p.id - 1 : \A w \in wal[id] : Covered(id, w)
                         /\ \A w \in wal[p.id] \ p.seg : Covered(p.id, w)
  /\ p.pc = "done" => \A id \in 1 .. pg.id : \A w \in wal[id] : Covered(id, w)

(***************************************************************************)
(* Point-in-time recovery.  Full backups go in the order they were taken,  *)
(* a differential one goes when a newer one of these types stays, and the  *)
(* number of backups whose WAL is kept is the one that is set or all that  *)
(* will be left.                                                           *)
(***************************************************************************)
Ours(S) == {b \in S : dir[b].id = pg.id}
Typed == OfType(Complete, TypesOf(opt.type))

Recent(F, n) == {b \in F : Cardinality({c \in F : c > b}) < n}

KeptFulls ==
  IF opt.type # "full" THEN {}
  ELSE IF opt.archive = 0 THEN Fulls(Complete)
  ELSE Recent(Fulls(Complete), opt.archive)

Retained == Ours(KeptFulls) \union {b \in Ours(Typed) : \A c \in Ours(Typed) : c <= b}

Follows(b, w) == dir[b].start # None /\ Before(dir[b].start, w)

Outlasts(r, c) ==
  /\ c \in OfType(Complete, {"full", "diff"}) \ p.todo
  /\ c > r /\ dir[c].prior \notin p.todo

OrderOK ==
  p.pc = "manifest" =>
    /\ \A r \in Fulls(p.todo), f \in Fulls(Complete) : f < r => f \in p.todo
    /\ \A r \in p.todo \ Fulls(p.todo) : dir[r].type = "diff" /\ \E c \in DOMAIN dir : Outlasts(r, c)

RetainOK ==
  p.pc # "idle" =>
    /\ p.adhoc = None
    /\ \/ p.type = opt.type /\ p.retain = opt.archive
       \/ p.type = "full" /\ p.retain >= Cardinality(Fulls(p.listed) \ p.todo)
    /\ p.pc = "archive" => p.retain > 0

SegOK ==
  p.pc = "archive" /\ p.id = pg.id =>
    /\ p.seg # {} => Ours(Typed) # {}
    /\ \A w \in p.seg, b \in Retained : ~Follows(b, w)

KeptOK ==
  /\ Ours(Typed) = {} => wal[pg.id] = pushed[pg.id]
  /\ \A b \in Retained, w \in pushed[pg.id] : Follows(b, w) => w \in wal[pg.id]

RecoveryOK == ~opt.adhoc => OrderOK /\ RetainOK /\ SegOK /\ KeptOK

(***************************************************************************)
(* Segments and their order                                                *)
(***************************************************************************)
LEMMA BeforeTrans ==
  ASSUME NEW u \in Segment, NEW v \in Segment, NEW w \in Segment, Before(u, v), Before(v, w)
  PROVE  Before(u, w)
BY DEF Segment, Before

LEMMA BeforeTotal ==
  ASSUME NEW v \in Segment, NEW w \in Segment, ~Before(v, w)
  PROVE  Before(w, v)
BY DEF Segment, Before

LEMMA DivMonotone ==
  ASSUME NEW d \in Nat \ {0}, NEW a \in Nat, NEW b \in Nat, a <= b
  PROVE  a \div d <= b \div d
<1> DEFINE q == a \div d
           r == b \div d
<1>1. q \in Int /\ r \in Int /\ a % d \in 0 .. d - 1 /\ b % d \in 0 .. d - 1
  OBVIOUS
<1>2. a = d * q + (a % d) /\ b = d * r + (b % d)
  OBVIOUS
<1> HIDE DEF q, r
<1>3. SUFFICES ASSUME r + 1 <= q PROVE FALSE
  BY <1>1 DEF q, r
<1>4. d * (r + 1) <= d * q
  BY <1>1, <1>3
<1>5. d * (r + 1) = d * r + d
  BY <1>1
<1> QED
  BY <1>1, <1>2, <1>4, <1>5

LEMMA PathMonotone ==
  ASSUME NEW v \in Segment, NEW w \in Segment, Before(v, w)
  PROVE  Before(Path(v), Path(w))
<1>1. PathSize \in Nat \ {0}
  BY ExpireAssumption
<1>2. v[1] \in Nat /\ v[2] \in Nat /\ w[1] \in Nat /\ w[2] \in Nat
  BY DEF Segment
<1>3. v[2] <= w[2] => v[2] \div PathSize <= w[2] \div PathSize
  BY <1>1, <1>2, DivMonotone
<1> QED
  BY <1>2, <1>3 DEF Before, Path

(***************************************************************************)
(* The newest of some backups                                              *)
(***************************************************************************)
LEMMA AreNumbers ==
  ASSUME NEW K, NEW S \in SUBSET (1 .. K), K \in Nat
  PROVE  \A x \in S : x \in Nat
OBVIOUS

LEMMA NewestIn ==
  ASSUME NEW K \in Nat, NEW S \in SUBSET (1 .. K), S # {}
  PROVE  Newest(S) \in S /\ \A c \in S : c <= Newest(S)
<1>1. S \in SUBSET (0 .. K)
  OBVIOUS
<1>2. \E x \in S : \A y \in S : y <= x
  BY <1>1, HasLast
<1> QED
  BY <1>2 DEF Newest

(* What backup.info holds does not matter: what a command finds in it are  *)
(* the complete backups.                                                   *)
LEMMA AvailableIsComplete ==
  ASSUME ChainOK, None \notin DOMAIN dir
  PROVE  Available = Complete
<1> DEFINE Closed(T) == \A b \in T : b \in Complete /\ dir[b].prior \in T \union {None}
           All == SUBSET (info.main \union Complete)
<1>1. Complete \in All /\ Closed(Complete)
  BY DEF ChainOK
<1>2. Available = UNION {T \in All : Closed(T)}
  BY DEF Available, InfoBackupLoadFileReconstruct
<1>3. \A T \in All : Closed(T) => T \subseteq Complete
  OBVIOUS
<1> HIDE DEF Closed, All
<1> QED
  BY <1>1, <1>2, <1>3

(***************************************************************************)
(* Dependents                                                              *)
(***************************************************************************)
LEMMA DependentLeast ==
  ASSUME NEW L, NEW r, NEW T, T \subseteq L, r \in T,
         \A d \in L : dir[d].prior \in T => d \in T
  PROVE  DependentList(L, r) \subseteq T
<1>1. T \in SUBSET L
  OBVIOUS
<1> QED
  BY <1>1 DEF DependentList

LEMMA DependentClosed ==
  ASSUME NEW L, NEW r \in L
  PROVE  /\ r \in DependentList(L, r)
         /\ DependentList(L, r) \subseteq L
         /\ \A d \in L : dir[d].prior \in DependentList(L, r) => d \in DependentList(L, r)
BY DEF DependentList

LEMMA DependentPrior ==
  ASSUME NEW L, NEW r \in L, NEW c \in DependentList(L, r), c # r
  PROVE  dir[c].prior \in DependentList(L, r)
<1> DEFINE T == DependentList(L, r) \ {c}
<1>1. SUFFICES ASSUME dir[c].prior \notin DependentList(L, r) PROVE FALSE
  OBVIOUS
<1>2. T \subseteq L /\ r \in T /\ \A d \in L : dir[d].prior \in T => d \in T
  BY <1>1, DependentClosed
<1>3. DependentList(L, r) \subseteq T
  <2> HIDE DEF T
  <2> QED
    BY <1>2, DependentLeast
<1> QED
  BY <1>3

(* Dependents are of the cluster of the root, and no full backup is one.   *)
LEMMA DependentKind ==
  ASSUME TypeOK, DirOK, NEW L \in SUBSET DOMAIN dir, NEW r \in L, NEW c \in DependentList(L, r)
  PROVE  dir[c].id = dir[r].id /\ (c # r => dir[c].type # "full" /\ r < c)
<1> DEFINE T == {x \in DependentList(L, r) : dir[x].id = dir[r].id /\ (x = r \/ r < x)}
<1>1. T \subseteq L /\ r \in T
  BY DependentClosed
<1>2. ASSUME NEW d \in L, dir[d].prior \in T
      PROVE  d \in T
  <2>1. d \in DOMAIN dir /\ dir[d].prior \in DOMAIN dir /\ OneOK(d)
    BY <1>1, <1>2 DEF DirOK
  <2>2. dir[d].prior # None /\ dir[d].prior \in Nat /\ d \in Nat /\ r \in Nat
    BY <2>1, ExpireAssumption DEF TypeOK
  <2>3. dir[dir[d].prior].id = dir[d].id /\ dir[d].prior < d
    BY <2>1, <2>2 DEF OneOK
  <2>4. d \in DependentList(L, r)
    BY <1>2, DependentClosed
  <2> QED
    BY <1>2, <2>2, <2>3, <2>4
<1>3. DependentList(L, r) \subseteq T
  <2> HIDE DEF T
  <2> QED
    BY <1>1, <1>2, DependentLeast
<1>4. c # r => dir[c].type # "full"
  <2> SUFFICES ASSUME c # r PROVE dir[c].type # "full"
    OBVIOUS
  <2>1. dir[c].prior \in DependentList(L, r)
    BY DependentPrior
  <2>2. dir[c].prior \in DOMAIN dir /\ c \in DOMAIN dir
    BY <2>1, DependentClosed
  <2>3. dir[c].prior # None
    BY <2>2, ExpireAssumption DEF TypeOK
  <2> QED
    BY <2>2, <2>3 DEF DirOK, OneOK
<1> QED
  BY <1>3, <1>4

(* One backup at a time is being expired.                                  *)
LEMMA ExpireBackupUnique ==
  ASSUME TypeOK, ListOK, p.pc = "manifest", NEW b, NEW c, ExpireBackup(b), ExpireBackup(c)
  PROVE  b = c
<1>1. PICK r \in p.todo : /\ \A s \in p.todo : Sooner(r, s)
                          /\ b \in DependentList(p.listed, r)
                          /\ \A x \in DependentList(p.listed, r) : x <= b
  BY DEF ExpireBackup
<1>2. PICK s \in p.todo : /\ \A x \in p.todo : Sooner(s, x)
                          /\ c \in DependentList(p.listed, s)
                          /\ \A x \in DependentList(p.listed, s) : x <= c
  BY DEF ExpireBackup
<1>3. Sooner(r, s) /\ Sooner(s, r) /\ r \in Nat /\ s \in Nat
  BY <1>1, <1>2 DEF TypeOK, Command
<1>4. r = s
  BY <1>3 DEF Sooner
<1>5. b \in p.listed /\ c \in p.listed
  BY <1>1, <1>2 DEF DependentList
<1>6. b \in Nat /\ c \in Nat
  BY <1>5 DEF TypeOK, Command
<1>7. b <= c /\ c <= b
  BY <1>1, <1>2, <1>4
<1> QED
  BY <1>6, <1>7

(***************************************************************************)
(* The archive: what is removed, and what is kept                          *)
(***************************************************************************)
(* Every complete backup depends, over others, on a complete full one.     *)
LEMMA CompleteFull ==
  ASSUME TypeOK, DirOK, ChainOK, NEW b \in Complete
  PROVE  \E f \in Complete : dir[f].type = "full" /\ dir[f].id = dir[b].id
<1> DEFINE S == {c \in Complete : dir[c].id = dir[b].id}
<1>1. S \in SUBSET Nat /\ S # {}
  BY DEF Complete, TypeOK
<1>2. PICK f \in S : \A c \in S : f <= c
  <2> HIDE DEF S
  <2> QED
    BY <1>1, FirstIn
<1>3. f \in DOMAIN dir /\ f \in Complete /\ OneOK(f) /\ f \in Nat
  BY DEF Complete, DirOK, TypeOK
<1>4. ASSUME dir[f].type # "full" PROVE FALSE
  <2>1. dir[f].prior # None /\ dir[f].prior < f
    BY <1>3, <1>4 DEF OneOK
  <2>2. dir[f].prior \in Complete /\ dir[f].prior \in DOMAIN dir
    BY <1>3, <2>1 DEF ChainOK, Complete
  <2>3. dir[dir[f].prior].id = dir[f].id
    BY <1>3, <2>2 DEF OneOK
  <2>4. dir[f].prior \in S /\ dir[f].prior \in Nat
    BY <2>2, <2>3 DEF TypeOK
  <2>5. f <= dir[f].prior
    BY <1>2, <2>4
  <2> QED
    BY <1>3, <2>1, <2>4, <2>5
<1> QED
  BY <1>3, <1>4

(* The backups of a type in one archive, as removeExpiredArchive() picks    *)
(* them.                                                                   *)
InArchive(L, type, id) == {b \in OfType(L, TypesOf(type)) : dir[b].id = id}

LEMMA RetentionIn ==
  ASSUME TypeOK, NEW L \in SUBSET DOMAIN dir, NEW n, NEW type, NEW id, InArchive(L, type, id) # {}
  PROVE  LET rb == ArchiveRetentionBackup(L, n, type, id)
         IN  /\ rb \in InArchive(L, type, id)
             /\ \A b \in InArchive(L, type, id) : b \in ArchiveRetention(L, n, type) => rb <= b
<1> DEFINE here == InArchive(L, type, id)
           kept == here \intersect ArchiveRetention(L, n, type)
<1>1. here \in SUBSET (1 .. count) /\ kept \in SUBSET (1 .. count) /\ kept \in SUBSET Nat /\ count \in Nat
  BY DEF TypeOK, InArchive, OfType
<1>2. ArchiveRetentionBackup(L, n, type, id) = IF kept # {} THEN Oldest(kept) ELSE Newest(here)
  BY DEF ArchiveRetentionBackup, InArchive
<1>3. here # {} /\ kept \subseteq here
  OBVIOUS
<1>4. \A b \in here : b \in ArchiveRetention(L, n, type) => b \in kept
  OBVIOUS
<1> HIDE DEF here, kept
<1>5. kept # {} => Oldest(kept) \in kept /\ \A y \in kept : Oldest(kept) <= y
  BY <1>1, FirstIn DEF Oldest
<1>6. Newest(here) \in here
  BY <1>1, <1>3, NewestIn
<1>7. QED
  BY <1>2, <1>3, <1>4, <1>5, <1>6 DEF here

(* A range holds what is between its ends, in its paths too.               *)
LEMMA RangePath ==
  ASSUME NEW s \in Segment, NEW e \in Segment \union {None}, NEW w \in Segment,
         InRange([start |-> s, stop |-> e], w)
  PROVE  InPathRange([start |-> s, stop |-> e], w)
<1>1. Before(Path(s), Path(w))
  BY PathMonotone DEF InRange
<1>2. e # None => Before(Path(w), Path(e))
  BY PathMonotone DEF InRange
<1> QED
  BY <1>1, <1>2 DEF InPathRange

LEMMA NoneNoSegment ==
  None \notin Segment /\ None \notin Nat
BY ExpireAssumption DEF Segment

(* What is at or after the start of the retention backup is not expired.   *)
LEMMA LaterIsCovered ==
  ASSUME TypeOK, NEW L \in SUBSET DOMAIN dir, NEW rb \in L, dir[rb].start # None,
         NEW w \in Segment, Before(dir[rb].start, w)
  PROVE  /\ \E r \in ArchiveRangeList(L, rb) : InRange(r, w)
         /\ ~Expired(ArchiveRangeList(L, rb), dir[rb].start, w)
<1> DEFINE r == [start |-> dir[rb].start, stop |-> None]
<1>1. rb \in Nat /\ dir[rb].start \in Segment
  BY DEF TypeOK, Dir
<1>2. r \in ArchiveRangeList(L, rb)
  BY <1>1 DEF ArchiveRangeList
<1>3. InRange(r, w)
  BY DEF InRange
<1>4. InPathRange(r, w)
  BY <1>1, <1>3, RangePath
<1> HIDE DEF r
<1> QED
  BY <1>2, <1>3, <1>4 DEF Expired

(* What an older backup needs is not expired.                              *)
LEMMA OwnRangeIsCovered ==
  ASSUME TypeOK, DirOK, NEW L \in SUBSET DOMAIN dir, NEW rb \in L, NEW b \in L, b <= rb,
         dir[b].id = dir[rb].id, NEW w \in Segment, Needs(b, w)
  PROVE  ~Expired(ArchiveRangeList(L, rb), dir[rb].start, w)
<1> DEFINE r == [start |-> dir[b].start, stop |-> IF b = rb THEN None ELSE dir[b].stop]
<1>1. dir[b].start \in Segment /\ dir[b].stop \in Segment
  BY DEF TypeOK, Dir, Needs, DirOK, OneOK
<1>2. r \in ArchiveRangeList(L, rb)
  BY DEF ArchiveRangeList, Needs
<1>3. InRange(r, w)
  BY DEF InRange, Needs
<1>4. InPathRange(r, w)
  BY <1>1, <1>3, RangePath
<1> HIDE DEF r
<1> QED
  BY <1>2, <1>3, <1>4 DEF Expired

LEMMA FullIsTyped ==
  ASSUME NEW type \in Type
  PROVE  "full" \in TypesOf(type)
BY DEF Type, TypesOf

(* removeExpiredArchive() removes nothing that a complete backup needs.    *)
LEMMA NeededKept ==
  ASSUME TypeOK, DirOK, ChainOK, NEW L \in SUBSET DOMAIN dir, Complete \subseteq L,
         NEW n, NEW type \in Type, NEW id \in 1 .. pg.id, NEW w \in ToRemove(L, n, type, id)
  PROVE  Unneeded(id, w)
<1> DEFINE here == InArchive(L, type, id)
           rb == ArchiveRetentionBackup(L, n, type, id)
<1>1. SUFFICES ASSUME NEW b \in Complete, dir[b].id = id, Needs(b, w) PROVE FALSE
  BY DEF Unneeded
<1>2. here # {}
  <2>1. PICK f \in Complete : dir[f].type = "full" /\ dir[f].id = id
    BY <1>1, CompleteFull
  <2> QED
    BY <2>1, FullIsTyped DEF InArchive, OfType
<1>3. rb \in here
  BY <1>2, RetentionIn
<1>4. rb \in L /\ dir[rb].id = id /\ b \in L /\ rb \in DOMAIN dir /\ b \in DOMAIN dir /\ rb \in Nat /\ b \in Nat
  BY <1>3 DEF InArchive, OfType, Complete, TypeOK
<1>5. wal[id] \in SUBSET Segment
  BY DEF TypeOK
<1>6. w \in wal[id] /\ dir[rb].start # None /\ Expired(ArchiveRangeList(L, rb), dir[rb].start, w)
  BY <1>2 DEF ToRemove, InArchive
<1> HIDE DEF here, rb
<1>7. CASE b <= rb
  BY <1>1, <1>4, <1>5, <1>6, <1>7, OwnRangeIsCovered
<1>8. CASE rb < b
  <2>1. PairOK(rb, b)
    BY <1>4 DEF DirOK
  <2>2. dir[rb].start \in Segment /\ dir[b].start \in Segment /\ Before(dir[b].start, w)
    BY <1>1, <1>4, <1>6 DEF TypeOK, Dir, Needs
  <2>3. Before(dir[rb].start, dir[b].start)
    BY <1>1, <1>4, <1>6, <1>8, <2>1 DEF PairOK, Needs
  <2>4. Before(dir[rb].start, w)
    BY <1>5, <1>6, <2>2, <2>3, BeforeTrans
  <2> QED
    BY <1>4, <1>5, <1>6, <2>4, LaterIsCovered
<1> QED
  BY <1>4, <1>7, <1>8

(* What it does not remove is in a range.                                  *)
LEMMA KeptIsCovered ==
  ASSUME TypeOK, p.listed \subseteq DOMAIN dir, NEW id \in 1 .. pg.id,
         NEW w \in wal[id], w \notin ToRemove(p.listed, p.retain, p.type, id)
  PROVE  Covered(id, w)
<1> DEFINE here == InArchive(p.listed, p.type, id)
           rb == ArchiveRetentionBackup(p.listed, p.retain, p.type, id)
<1>1. CASE here = {}
  BY <1>1 DEF Covered, ToRemove, InArchive
<1>2. CASE here # {} /\ dir[rb].start = None
  BY <1>2 DEF Covered, InArchive
<1>3. CASE here # {} /\ dir[rb].start # None
  <2>1. rb \in here
    BY <1>3, RetentionIn
  <2>2. rb \in p.listed /\ rb \in DOMAIN dir /\ dir[rb].start \in Segment /\ w \in Segment
    BY <1>3, <2>1 DEF InArchive, OfType, TypeOK, Dir
  <2>3. ~Expired(ArchiveRangeList(p.listed, rb), dir[rb].start, w)
    BY <1>3 DEF ToRemove, InArchive
  <2> HIDE DEF here, rb
  <2>4. CASE \E r \in ArchiveRangeList(p.listed, rb) : InRange(r, w)
    BY <1>3, <2>4 DEF Covered, here, rb, InArchive
  <2>5. CASE ~Before(Path(w), Path(dir[rb].start))
    <3>1. Before(dir[rb].start, w)
      BY <2>2, <2>5, PathMonotone, BeforeTotal
    <3>2. \E r \in ArchiveRangeList(p.listed, rb) : InRange(r, w)
      BY <1>3, <2>2, <3>1, LaterIsCovered
    <3> QED
      BY <2>4, <3>2
  <2> QED
    BY <2>3, <2>4, <2>5 DEF Expired
<1> QED
  BY <1>1, <1>2, <1>3

(***************************************************************************)
(* Steps that change no backup except that it or its manifest goes         *)
(***************************************************************************)
Fewer ==
  /\ DOMAIN dir' \subseteq DOMAIN dir
  /\ \A c \in DOMAIN dir' :
       /\ dir'[c] \in Dir /\ (dir'[c].main => dir[c].main)
       /\ dir'[c].id = dir[c].id /\ dir'[c].type = dir[c].type /\ dir'[c].prior = dir[c].prior
       /\ dir'[c].start = dir[c].start /\ dir'[c].stop = dir[c].stop
  /\ UNCHANGED <<opt, pg, pushed, count>>

LEMMA FewerComplete ==
  ASSUME Fewer
  PROVE  Complete' \subseteq Complete
BY DEF Fewer, Complete

LEMMA FewerKeeps ==
  ASSUME TypeOK, DirOK, BaseOK, Fewer, p' \in Command, wal' \in [1 .. pg.id -> SUBSET Segment]
  PROVE  TypeOK' /\ DirOK' /\ BaseOK'
<1>1. TypeOK'
  <2>1. opt' \in Options /\ count' \in Nat /\ pg' \in [id : Nat \ {0}, tl : Nat, seg : Nat]
    BY DEF TypeOK, Fewer
  <2>2. wal' \in [1 .. pg'.id -> SUBSET Segment] /\ pushed' \in [1 .. pg'.id -> SUBSET Segment]
    BY DEF TypeOK, Fewer
  <2>3. DOMAIN dir' \subseteq 1 .. count' /\ \A b \in DOMAIN dir' : dir'[b] \in Dir
    BY DEF TypeOK, Fewer
  <2> QED
    BY <2>1, <2>2, <2>3 DEF TypeOK
<1>2. ASSUME NEW b \in DOMAIN dir'
      PROVE  OneOK(b)'
  <2>1. b \in DOMAIN dir /\ OneOK(b)
    BY DEF Fewer, DirOK
  <2>2. pg' = pg /\ Here' = Here
    BY DEF Fewer, Here
  <2>3. /\ dir'[b].id = dir[b].id /\ dir'[b].type = dir[b].type /\ dir'[b].prior = dir[b].prior
        /\ dir'[b].start = dir[b].start /\ dir'[b].stop = dir[b].stop
    BY DEF Fewer
  <2>4. dir'[b].prior \in DOMAIN dir' =>
          /\ dir'[dir'[b].prior].id = dir'[b].id
          /\ dir'[b].type = "diff" => dir'[dir'[b].prior].type = "full"
    <3> SUFFICES ASSUME dir[b].prior \in DOMAIN dir'
                 PROVE  /\ dir'[dir[b].prior].id = dir[b].id
                        /\ dir[b].type = "diff" => dir'[dir[b].prior].type = "full"
      BY <2>3
    <3>1. dir[b].prior \in DOMAIN dir
      BY DEF Fewer
    <3>2. dir'[dir[b].prior].id = dir[dir[b].prior].id /\ dir'[dir[b].prior].type = dir[dir[b].prior].type
      BY DEF Fewer
    <3> QED
      BY <2>1, <3>1, <3>2 DEF OneOK
  <2> QED
    BY <2>1, <2>2, <2>3, <2>4 DEF OneOK
<1>3. ASSUME NEW b \in DOMAIN dir', NEW c \in DOMAIN dir'
      PROVE  PairOK(b, c)'
  <2>1. b \in DOMAIN dir /\ c \in DOMAIN dir /\ PairOK(b, c)
    BY DEF Fewer, DirOK
  <2> QED
    BY <2>1 DEF Fewer, PairOK
<1>4. ASSUME NEW b \in DOMAIN dir', NEW c \in Complete'
      PROVE  Based(b, c)'
  <2>1. b \in DOMAIN dir /\ c \in Complete /\ c \in DOMAIN dir' /\ Based(b, c)
    BY FewerComplete DEF Fewer, BaseOK, Complete
  <2> QED
    BY <2>1 DEF Fewer, Based
<1> QED
  BY <1>1, <1>2, <1>3, <1>4 DEF DirOK, BaseOK

(* No complete backup needs more than before.                              *)
LEMMA FewerUnneeded ==
  ASSUME Fewer, NEW id, NEW w, Unneeded(id, w)
  PROVE  Unneeded(id, w)'
<1> SUFFICES ASSUME NEW b \in Complete', dir'[b].id = id PROVE ~(Needs(b, w)')
  BY DEF Unneeded
<1>1. b \in Complete /\ b \in DOMAIN dir'
  BY FewerComplete DEF Complete
<1>2. dir[b].id = id /\ dir'[b].start = dir[b].start /\ dir'[b].stop = dir[b].stop
  BY <1>1 DEF Fewer
<1> QED
  BY <1>1, <1>2 DEF Unneeded, Needs

LEMMA FewerWal ==
  ASSUME TypeOK, DirOK, WalOK, Fewer,
         \A b \in Complete' : \A w \in pushed[dir[b].id] :
            Needs(b, w) /\ w \in wal[dir[b].id] => w \in wal'[dir[b].id]
  PROVE  WalOK'
<1>1. ASSUME NEW b \in Complete', NEW w \in pushed'[dir'[b].id], Needs(b, w)'
      PROVE  w \in wal'[dir'[b].id]
  <2>1. b \in Complete /\ b \in DOMAIN dir'
    BY FewerComplete DEF Complete
  <2>2. /\ dir'[b].id = dir[b].id /\ dir'[b].start = dir[b].start /\ dir'[b].stop = dir[b].stop
        /\ pushed' = pushed
    BY <2>1 DEF Fewer
  <2>3. Needs(b, w) /\ w \in pushed[dir[b].id]
    BY <1>1, <2>2 DEF Needs
  <2>4. w \in wal[dir[b].id]
    BY <2>1, <2>3 DEF WalOK
  <2> QED
    BY <1>1, <2>2, <2>3, <2>4
<1>2. \A w \in pushed'[pg'.id] : ~Before(Here', w)
  BY DEF WalOK, Fewer, Here
<1> QED
  BY <1>1, <1>2 DEF WalOK

(* Steps of the command that change only what it is going to do.           *)
LEMMA CommandStep ==
  ASSUME ExpireInv, UNCHANGED <<opt, pg, wal, pushed, dir, count>>, p' \in Command, ListOK', RemoveOK'
  PROVE  ExpireInv'
<1> USE DEF ExpireInv
<1>1. Complete' = Complete
  BY DEF Complete
<1>2. Fewer
  <2>1. \A c \in DOMAIN dir : dir[c] \in Dir
    BY DEF TypeOK
  <2>2. dir' = dir /\ UNCHANGED <<opt, pg, pushed, count>>
    OBVIOUS
  <2> QED
    BY <2>1, <2>2 DEF Fewer
<1>3. wal' \in [1 .. pg.id -> SUBSET Segment]
  BY DEF TypeOK
<1>4. TypeOK' /\ DirOK' /\ BaseOK'
  BY <1>2, <1>3, FewerKeeps
<1>5. WalOK'
  <2>1. wal' = wal
    OBVIOUS
  <2> QED
    BY <1>2, <2>1, FewerWal
<1>6. ChainOK'
  BY <1>1 DEF ChainOK
<1> QED
  BY <1>4, <1>5, <1>6

LEMMA FiniteBackups ==
  ASSUME NEW K \in Nat, NEW S \in SUBSET (1 .. K)
  PROVE  /\ IsFiniteSet(S) /\ Cardinality(S) \in Nat
         /\ \A T \in SUBSET S : /\ Cardinality(T) \in Nat /\ Cardinality(T) <= Cardinality(S)
                                /\ T # S => Cardinality(T) < Cardinality(S)
<1>1. IsFiniteSet(1 .. K)
  BY FS_Interval
<1>2. IsFiniteSet(S)
  BY <1>1, FS_Subset
<1>3. Cardinality(S) \in Nat
  BY <1>2, FS_CardinalityType
<1>4. ASSUME NEW T \in SUBSET S
      PROVE  /\ Cardinality(T) \in Nat /\ Cardinality(T) <= Cardinality(S)
             /\ T # S => Cardinality(T) < Cardinality(S)
  <2>1. IsFiniteSet(T) /\ Cardinality(T) <= Cardinality(S) /\ (Cardinality(S) = Cardinality(T) => S = T)
    BY <1>2, FS_Subset
  <2>2. Cardinality(T) \in Nat
    BY <2>1, FS_CardinalityType
  <2> QED
    BY <1>3, <2>1, <2>2
<1> QED
  BY <1>2, <1>3, <1>4

(***************************************************************************)
(* The steps of the command                                                *)
(***************************************************************************)
LEMMA CompleteIsListed ==
  ASSUME ExpireInv
  PROVE  /\ Available = Complete /\ Complete \in SUBSET (1 .. count) /\ count \in Nat
         /\ Complete \subseteq DOMAIN dir /\ Complete \subseteq Nat
<1>1. None \notin DOMAIN dir
  BY NoneNoSegment DEF ExpireInv, TypeOK
<1> QED
  BY <1>1, AvailableIsComplete DEF ExpireInv, TypeOK, Complete

LEMMA OptionTypes ==
  ASSUME TypeOK
  PROVE  opt.full \in Nat /\ opt.diff \in Nat /\ opt.archive \in Nat /\ opt.type \in Type
BY ExpireAssumption DEF TypeOK, Type

LEMMA BeginStep ==
  ASSUME ExpireInv, NEW todo \in SUBSET Complete, NEW adhoc \in Nat \union {None}, NEW retain \in Nat,
         NEW type \in Type, Begin(Complete, todo, adhoc, retain, type)
  PROVE  ExpireInv'
<1>1. p' = [pc |-> "manifest", listed |-> Complete, todo |-> todo, adhoc |-> adhoc, retain |-> retain,
            type |-> type, rm |-> {}, id |-> 1, seg |-> {}]
  BY DEF Begin, Idle
<1>2. Complete \in SUBSET Nat /\ todo \in SUBSET Nat /\ Complete \subseteq DOMAIN dir
  BY CompleteIsListed
<1>3. p' \in Command
  BY <1>1, <1>2 DEF Command
<1>4. UNCHANGED <<opt, pg, wal, pushed, dir, count>> /\ Complete' = Complete
  BY DEF Begin, Complete
<1>5. ListOK'
  BY <1>1, <1>2, <1>4 DEF ListOK
<1>6. RemoveOK'
  BY <1>1 DEF RemoveOK
<1> QED
  BY <1>3, <1>4, <1>5, <1>6, CommandStep

(* What goes by count, by time or by age is listed, and full backups stay. *)
LEMMA RootsListed ==
  ASSUME NEW L, NEW roots \in SUBSET L
  PROVE  /\ WithDiffs(L, roots) \in SUBSET L
         /\ \A r \in WithDiffs(L, roots) : r \in roots \/ dir[r].type = "diff"
BY DEF WithDiffs, ExpireDiffBackup, Beyond, OfType

LEMMA BeginInv ==
  ASSUME ExpireInv,
         \/ ExpireByCount \/ \E min \in 1 .. count + 1 : ExpireByTime(min)
         \/ ExpireOldest \/ \E b \in 1 .. count + 1 : ExpireAdhoc(b)
  PROVE  ExpireInv'
<1>1. Available = Complete /\ Complete \in SUBSET (1 .. count) /\ count \in Nat /\ Complete \subseteq Nat
  BY CompleteIsListed
<1>2. opt.archive \in Nat /\ opt.type \in Type
  BY OptionTypes DEF ExpireInv
<1>3. None \in Nat \union {None} /\ "full" \in Type
  BY DEF Type
<1>4. CASE ExpireByCount
  <2> DEFINE roots == ExpireFullBackup(Complete, opt.full)
  <2>1. roots \in SUBSET Complete
    BY DEF ExpireFullBackup, Beyond, Fulls, OfType
  <2>2. WithDiffs(Complete, roots) \in SUBSET Complete
    BY <2>1, RootsListed
  <2>3. Begin(Complete, WithDiffs(Complete, roots), None, opt.archive, opt.type)
    BY <1>1, <1>4 DEF ExpireByCount
  <2> QED
    BY <1>2, <1>3, <2>2, <2>3, BeginStep
<1>5. ASSUME NEW min \in 1 .. count + 1, ExpireByTime(min)
      PROVE  ExpireInv'
  <2> DEFINE roots == ExpireTimeBasedBackup(Complete, min)
             left == Cardinality(Fulls(Complete) \ roots)
             unset == RetentionMet(Complete, min) # {} /\ opt.type = "full" /\ opt.archive = 0
             retain == IF unset THEN left ELSE opt.archive
  <2>1. roots \in SUBSET Complete
    BY DEF ExpireTimeBasedBackup, Fulls, OfType
  <2>2. WithDiffs(Complete, roots) \in SUBSET Complete
    BY <2>1, RootsListed
  <2>3. left \in Nat
    <3>1. Fulls(Complete) \ roots \in SUBSET (1 .. count)
      BY <1>1 DEF Fulls, OfType
    <3> HIDE DEF roots
    <3> QED
      BY <1>1, <3>1, FiniteBackups
  <2>4. Begin(Complete, WithDiffs(Complete, roots), None, retain, opt.type)
    BY <1>1, <1>5 DEF ExpireByTime
  <2>5. retain \in Nat
    <3> HIDE DEF left, unset
    <3> QED
      BY <1>2, <2>3
  <2> HIDE DEF retain, roots
  <2> QED
    BY <1>2, <1>3, <2>2, <2>4, <2>5, BeginStep
<1>6. CASE ExpireOldest
  <2> DEFINE n == Cardinality(Fulls(Complete))
             roots == ExpireFullBackup(Complete, n - 1)
  <2>1. roots \in SUBSET Complete
    BY DEF ExpireFullBackup, Beyond, Fulls, OfType
  <2>2. WithDiffs(Complete, roots) \in SUBSET Complete
    BY <2>1, RootsListed
  <2>3. n \in Nat
    <3>1. Fulls(Complete) \in SUBSET (1 .. count)
      BY <1>1 DEF Fulls, OfType
    <3> QED
      BY <1>1, <3>1, FiniteBackups
  <2>4. n > 1 /\ Begin(Complete, WithDiffs(Complete, roots), None, n - 1, "full")
    BY <1>1, <1>6 DEF ExpireOldest
  <2> HIDE DEF n, roots
  <2>5. n - 1 \in Nat
    BY <2>3, <2>4
  <2> QED
    BY <1>2, <1>3, <2>2, <2>4, <2>5, BeginStep
<1>7. ASSUME NEW b \in 1 .. count + 1, ExpireAdhoc(b)
      PROVE  ExpireInv'
  <2>1. b \in Nat \union {None}
    BY <1>1
  <2>2. \/ Begin(Complete, {b}, b, opt.archive, opt.type) /\ {b} \in SUBSET Complete
        \/ Begin(Complete, {}, b, opt.archive, opt.type) /\ {} \in SUBSET Complete
    BY <1>1, <1>7 DEF ExpireAdhoc
  <2> QED
    BY <1>2, <2>1, <2>2, BeginStep
<1> QED
  BY <1>4, <1>5, <1>6, <1>7

(* The command ends, or dies.                                              *)
LEMMA IdleInv ==
  ASSUME ExpireInv, p' = Idle, UNCHANGED <<opt, pg, wal, pushed, dir, count>>
  PROVE  ExpireInv'
<1>1. p' \in Command
  BY DEF Command, Idle, Type
<1>2. p'.pc = "idle" /\ p'.id = 1
  BY DEF Idle
<1>3. ListOK' /\ RemoveOK'
  BY <1>2 DEF ListOK, RemoveOK
<1> QED
  BY <1>1, <1>3, CommandStep

LEMMA DirectoriesOK ==
  ASSUME ExpireInv, p.pc \in {"manifest", "copy"}, p.todo = {}
  PROVE  /\ Directories \in Command /\ Directories.pc = "dirs"
         /\ Directories.listed = p.listed /\ Directories.todo = {} /\ Directories.id = p.id
         /\ Directories.rm \intersect p.listed = {} /\ Directories.rm \subseteq DOMAIN dir
<1>1. p \in Command /\ DOMAIN dir \subseteq Nat
  BY DEF ExpireInv, TypeOK
<1> DEFINE spared == {b \in DOMAIN dir : p.adhoc # None /\ b = Newest(DOMAIN dir) /\ Resumable(b)}
           rm == DOMAIN dir \ (p.listed \union spared)
<1>2. Directories = [p EXCEPT !.pc = "dirs", !.rm = rm]
  BY DEF Directories
<1>3. rm \in SUBSET Nat /\ rm \intersect p.listed = {} /\ rm \subseteq DOMAIN dir
  BY <1>1
<1> HIDE DEF rm
<1> QED
  BY <1>1, <1>2, <1>3 DEF Command

LEMMA NothingExpiring ==
  ASSUME ListOK, p.pc = "manifest", p.todo = {}
  PROVE  p.listed = Complete
<1>1. \A b : ~ExpireBackup(b)
  BY DEF ExpireBackup
<1> QED
  BY <1>1 DEF ListOK

LEMMA SaveInv ==
  ASSUME ExpireInv, SaveInfo \/ SaveInfoCopy
  PROVE  ExpireInv'
<1>1. UNCHANGED <<opt, pg, wal, pushed, dir, count>> /\ Complete' = Complete
  BY DEF SaveInfo, SaveInfoCopy, Complete
<1>2. p.pc \in {"manifest", "copy"} /\ p.todo = {} /\ p.listed = Complete
  BY NothingExpiring DEF ExpireInv, ListOK, SaveInfo, SaveInfoCopy
<1>3. CASE p' = Directories
  <2>1. /\ p' \in Command /\ p'.pc = "dirs" /\ p'.listed = p.listed /\ p'.todo = {} /\ p'.id = p.id
        /\ p'.rm \intersect p.listed = {} /\ p'.rm \subseteq DOMAIN dir
    BY <1>2, <1>3, DirectoriesOK
  <2>2. ListOK'
    BY <1>1, <1>2, <2>1 DEF ListOK, Complete
  <2>3. RemoveOK'
    BY <1>1, <1>2, <2>1 DEF RemoveOK, ExpireInv
  <2> QED
    BY <1>1, <2>1, <2>2, <2>3, CommandStep
<1>4. CASE p' = [p EXCEPT !.pc = "copy"]
  <2>1. /\ p' \in Command /\ p'.pc = "copy" /\ p'.listed = p.listed /\ p'.todo = {} /\ p'.id = p.id
    BY <1>2, <1>4 DEF ExpireInv, TypeOK, Command
  <2>2. ListOK'
    BY <1>1, <1>2, <2>1 DEF ListOK, Complete
  <2>3. RemoveOK'
    BY <1>2, <2>1 DEF RemoveOK, ExpireInv
  <2> QED
    BY <1>1, <2>1, <2>2, <2>3, CommandStep
<1> QED
  BY <1>3, <1>4 DEF SaveInfo, SaveInfoCopy

(* The manifest of the newest dependent goes first, so what remains is a   *)
(* chain.                                                                  *)
LEMMA ManifestStep ==
  ASSUME TypeOK, NEW b \in DOMAIN dir, UNCHANGED <<opt, pg, pushed, count>>,
         \/ dir' = [dir EXCEPT ![b].main = FALSE]
         \/ dir' = [dir EXCEPT ![b].copy = FALSE]
  PROVE  /\ Fewer /\ DOMAIN dir' = DOMAIN dir
         /\ dir' = [dir EXCEPT ![b].main = FALSE] => Complete' = Complete \ {b}
         /\ dir' = [dir EXCEPT ![b].copy = FALSE] => Complete' = Complete
<1>1. PICK d \in Dir : d = dir[b]
  BY DEF TypeOK
<1>2. [d EXCEPT !.main = FALSE] \in Dir /\ [d EXCEPT !.copy = FALSE] \in Dir
  BY DEF Dir
<1>3. CASE dir' = [dir EXCEPT ![b].main = FALSE]
  <2>1. DOMAIN dir' = DOMAIN dir /\ dir'[b] = [d EXCEPT !.main = FALSE]
        /\ \A c \in DOMAIN dir \ {b} : dir'[c] = dir[c]
    BY <1>1, <1>3
  <2>2. /\ ~dir'[b].main /\ dir'[b].id = dir[b].id /\ dir'[b].type = dir[b].type
        /\ dir'[b].prior = dir[b].prior /\ dir'[b].start = dir[b].start /\ dir'[b].stop = dir[b].stop
    BY <1>1, <2>1 DEF Dir
  <2>3. dir' # [dir EXCEPT ![b].copy = FALSE] \/ ~dir[b].main
    <3>1. [dir EXCEPT ![b].copy = FALSE][b].main = d.main
      BY <1>1 DEF Dir
    <3> QED
      BY <1>1, <2>2, <3>1
  <2>4. Complete' = Complete \ {b}
    BY <2>1, <2>2 DEF Complete
  <2>5. Fewer
    BY <1>2, <2>1, <2>2 DEF Fewer, TypeOK
  <2>6. ~dir[b].main => Complete \ {b} = Complete
    BY DEF Complete
  <2> QED
    BY <2>1, <2>3, <2>4, <2>5, <2>6
<1>4. CASE dir' = [dir EXCEPT ![b].copy = FALSE]
  <2>1. DOMAIN dir' = DOMAIN dir /\ dir'[b] = [d EXCEPT !.copy = FALSE]
        /\ \A c \in DOMAIN dir \ {b} : dir'[c] = dir[c]
    BY <1>1, <1>4
  <2>2. /\ dir'[b].main = dir[b].main /\ dir'[b].id = dir[b].id /\ dir'[b].type = dir[b].type
        /\ dir'[b].prior = dir[b].prior /\ dir'[b].start = dir[b].start /\ dir'[b].stop = dir[b].stop
    BY <1>1, <2>1 DEF Dir
  <2>3. Complete' = Complete
    BY <2>1, <2>2 DEF Complete
  <2>4. Fewer
    BY <1>2, <2>1, <2>2 DEF Fewer, TypeOK
  <2>5. dir' = [dir EXCEPT ![b].main = FALSE] => Complete \ {b} = Complete
    <3>1. [dir EXCEPT ![b].main = FALSE][b].main = FALSE
      BY <1>1 DEF Dir
    <3>2. dir' = [dir EXCEPT ![b].main = FALSE] => ~dir[b].main
      BY <2>2, <3>1
    <3> QED
      BY <3>2 DEF Complete
  <2> QED
    BY <2>1, <2>3, <2>4, <2>5
<1> QED
  BY <1>3, <1>4

(* The records that say which backup goes next are not changed.            *)
LEMMA SameExpireBackup ==
  ASSUME TypeOK, ListOK, p.pc = "manifest", Fewer, DOMAIN dir' = DOMAIN dir, p' = p
  PROVE  \A c : ExpireBackup(c) => ExpireBackup(c)'
<1>1. p.todo \subseteq DOMAIN dir /\ p.listed \subseteq DOMAIN dir
  BY DEF ListOK
<1>2. \A c \in DOMAIN dir : dir'[c].type = dir[c].type /\ dir'[c].prior = dir[c].prior
  BY DEF Fewer
<1>3. \A r \in p.todo, s \in p.todo : Sooner(r, s)' <=> Sooner(r, s)
  BY <1>1, <1>2 DEF Sooner
<1>4. \A r : DependentList(p.listed, r)' = DependentList(p.listed, r)
  BY <1>1, <1>2 DEF DependentList
<1> QED
  BY <1>3, <1>4 DEF ExpireBackup

LEMMA RemoveManifestInv ==
  ASSUME ExpireInv, NEW b \in p.listed, RemoveManifest(b)
  PROVE  ExpireInv'
<1> USE DEF ExpireInv
<1>1. /\ p.pc = "manifest" /\ ExpireBackup(b) /\ dir[b].main /\ dir' = [dir EXCEPT ![b].main = FALSE]
      /\ UNCHANGED <<opt, pg, wal, pushed, count, p>>
  BY DEF RemoveManifest
<1>2. b \in DOMAIN dir /\ p.listed \subseteq DOMAIN dir /\ b \in Complete
  BY <1>1 DEF ListOK, Complete
<1>3. Fewer /\ DOMAIN dir' = DOMAIN dir /\ Complete' = Complete \ {b}
  BY <1>1, <1>2, ManifestStep
<1>4. TypeOK' /\ DirOK' /\ BaseOK'
  <2>1. p' \in Command /\ wal' \in [1 .. pg.id -> SUBSET Segment]
    BY <1>1 DEF TypeOK
  <2> QED
    BY <1>3, <2>1, FewerKeeps
<1>5. WalOK'
  <2>1. wal' = wal
    BY <1>1
  <2> QED
    BY <1>3, <2>1, FewerWal
<1>6. ChainOK'
  <2> SUFFICES ASSUME NEW c \in Complete', dir'[c].prior # None
               PROVE  dir'[c].prior \in Complete'
    BY DEF ChainOK
  <2>1. c \in Complete /\ c # b /\ c \in DOMAIN dir /\ dir'[c].prior = dir[c].prior
    BY <1>3 DEF Fewer, Complete
  <2>2. dir[c].prior \in Complete
    BY <2>1 DEF ChainOK
  <2>3. ASSUME dir[c].prior = b PROVE FALSE
    <3>1. PICK r \in p.todo : /\ b \in DependentList(p.listed, r)
                              /\ \A x \in DependentList(p.listed, r) : x <= b
      BY <1>1 DEF ExpireBackup
    <3>2. r \in p.listed /\ c \in p.listed
      BY <1>1, <2>1 DEF ListOK
    <3>3. c \in DependentList(p.listed, r)
      BY <2>3, <3>1, <3>2, DependentClosed
    <3>4. c <= b /\ b < c /\ b \in Nat /\ c \in Nat
      BY <1>2, <2>1, <2>3, <3>1, <3>3 DEF DirOK, OneOK, TypeOK
    <3> QED
      BY <3>4
  <2> QED
    BY <1>3, <2>1, <2>2, <2>3
<1>7. ListOK'
  <2>1. Complete' \subseteq p'.listed /\ p'.listed \subseteq DOMAIN dir' /\ p'.todo \subseteq p'.listed
        /\ p'.pc = "manifest"
    BY <1>1, <1>3 DEF ListOK
  <2>2. \A c : ExpireBackup(c) => ExpireBackup(c)'
    BY <1>1, <1>3, SameExpireBackup
  <2>3. \A c \in p'.listed \ Complete' : ExpireBackup(c)
    BY <1>1, <1>3 DEF ListOK
  <2> QED
    BY <2>1, <2>2, <2>3 DEF ListOK
<1>8. RemoveOK'
  BY <1>1 DEF RemoveOK
<1> QED
  BY <1>4, <1>5, <1>6, <1>7, <1>8

(* Steps of the command that leave every manifest.                         *)
LEMMA KeepsChain ==
  ASSUME ChainOK, Fewer, Complete' = Complete
  PROVE  ChainOK'
<1> SUFFICES ASSUME NEW c \in Complete', dir'[c].prior # None
             PROVE  dir'[c].prior \in Complete'
  BY DEF ChainOK
<1>1. c \in Complete /\ c \in DOMAIN dir' /\ dir'[c].prior = dir[c].prior
  BY DEF Fewer, Complete
<1> QED
  BY <1>1 DEF ChainOK

LEMMA RemoveManifestCopyInv ==
  ASSUME ExpireInv, NEW b \in p.listed, RemoveManifestCopy(b)
  PROVE  ExpireInv'
<1> USE DEF ExpireInv
<1>1. /\ p.pc = "manifest" /\ ExpireBackup(b) /\ ~dir[b].main /\ dir' = [dir EXCEPT ![b].copy = FALSE]
      /\ p' = [p EXCEPT !.todo = @ \ {b}, !.listed = @ \ {b}]
      /\ UNCHANGED <<opt, pg, wal, pushed, count>>
  BY DEF RemoveManifestCopy
<1>2. b \in DOMAIN dir /\ p.listed \subseteq DOMAIN dir /\ b \notin Complete
  BY <1>1 DEF ListOK, Complete
<1>3. Fewer /\ DOMAIN dir' = DOMAIN dir /\ Complete' = Complete
  BY <1>1, <1>2, ManifestStep
<1>4. /\ p' \in Command /\ p'.pc = "manifest" /\ p'.todo = p.todo \ {b} /\ p'.listed = p.listed \ {b}
      /\ p'.id = p.id
  BY <1>1 DEF TypeOK, Command
<1>5. TypeOK' /\ DirOK' /\ BaseOK'
  <2>1. wal' \in [1 .. pg.id -> SUBSET Segment]
    BY <1>1 DEF TypeOK
  <2> QED
    BY <1>3, <1>4, <2>1, FewerKeeps
<1>6. WalOK'
  <2>1. wal' = wal
    BY <1>1
  <2> QED
    BY <1>3, <2>1, FewerWal
<1>7. ChainOK'
  BY <1>3, KeepsChain
<1>8. ListOK'
  <2>1. \A c \in p.listed \ Complete : c = b
    BY <1>1, ExpireBackupUnique DEF ListOK
  <2>2. p.listed \ {b} \subseteq Complete /\ Complete \subseteq p.listed \ {b} /\ p.todo \subseteq p.listed
    BY <1>1, <1>2, <2>1 DEF ListOK
  <2> QED
    BY <1>2, <1>3, <1>4, <2>2 DEF ListOK
<1>9. RemoveOK'
  BY <1>1, <1>4 DEF RemoveOK
<1> QED
  BY <1>5, <1>6, <1>7, <1>8, <1>9

LEMMA RemoveExpiredBackupInv ==
  ASSUME ExpireInv, NEW b \in p.rm, RemoveExpiredBackup(b)
  PROVE  ExpireInv'
<1> USE DEF ExpireInv
<1>1. /\ p.pc = "dirs" /\ dir' = [c \in DOMAIN dir \ {b} |-> dir[c]]
      /\ p' = [p EXCEPT !.rm = @ \ {b}]
      /\ UNCHANGED <<opt, pg, wal, pushed, count>>
  BY DEF RemoveExpiredBackup
<1>2. b \notin p.listed /\ p.listed = Complete /\ p.todo = {} /\ p.rm \subseteq DOMAIN dir
      /\ p.rm \intersect p.listed = {}
  BY <1>1 DEF ListOK, RemoveOK
<1>3. DOMAIN dir' = DOMAIN dir \ {b} /\ \A c \in DOMAIN dir' : dir'[c] = dir[c]
  BY <1>1
<1>4. Complete' = Complete
  BY <1>2, <1>3 DEF Complete
<1>5. Fewer
  BY <1>1, <1>3 DEF Fewer, TypeOK
<1>6. /\ p' \in Command /\ p'.pc = "dirs" /\ p'.todo = p.todo /\ p'.listed = p.listed
      /\ p'.rm = p.rm \ {b} /\ p'.id = p.id
  BY <1>1 DEF TypeOK, Command
<1>7. TypeOK' /\ DirOK' /\ BaseOK'
  <2>1. wal' \in [1 .. pg.id -> SUBSET Segment]
    BY <1>1 DEF TypeOK
  <2> QED
    BY <1>5, <1>6, <2>1, FewerKeeps
<1>8. WalOK'
  <2>1. wal' = wal
    BY <1>1
  <2> QED
    BY <1>5, <2>1, FewerWal
<1>9. ChainOK'
  BY <1>4, <1>5, KeepsChain
<1>10. ListOK'
  BY <1>2, <1>3, <1>4, <1>6 DEF ListOK, Complete
<1>11. RemoveOK'
  BY <1>1, <1>2, <1>3, <1>6 DEF RemoveOK
<1> QED
  BY <1>7, <1>8, <1>9, <1>10, <1>11

LEMMA ToRemoveType ==
  ASSUME TypeOK, NEW L, NEW n, NEW type, NEW id \in 1 .. pg.id
  PROVE  ToRemove(L, n, type, id) \in SUBSET Segment
<1>1. wal[id] \in SUBSET Segment
  BY DEF TypeOK
<1> QED
  BY <1>1 DEF ToRemove

(* The next archive is looked at.                                          *)
LEMMA ArchiveInv ==
  ASSUME ExpireInv, p.pc \notin {"idle", "manifest"}, NEW id \in 1 .. pg.id,
         p' = [p EXCEPT !.pc = "archive", !.id = id, !.seg = ToRemove(p.listed, p.retain, p.type, id)],
         UNCHANGED <<opt, pg, wal, pushed, dir, count>>
  PROVE  ExpireInv'
<1> DEFINE seg == ToRemove(p.listed, p.retain, p.type, id)
<1>1. p \in Command /\ id \in Nat /\ pg.id \in Nat /\ p.type \in Type
  BY DEF ExpireInv, TypeOK, Command
<1>2. seg \in SUBSET Segment
  BY ToRemoveType DEF ExpireInv
<1>3. p.listed \in SUBSET DOMAIN dir /\ Complete \subseteq p.listed /\ p.listed = Complete /\ p.todo = {}
  BY DEF ExpireInv, ListOK, Complete
<1>4. \A w \in seg : Unneeded(id, w)
  BY <1>1, <1>3, NeededKept DEF ExpireInv
<1> HIDE DEF seg
<1>5. p' = [p EXCEPT !.pc = "archive", !.id = id, !.seg = seg]
  BY DEF seg
<1>6. /\ p' \in Command /\ p'.pc = "archive" /\ p'.listed = p.listed /\ p'.todo = {} /\ p'.id = id
      /\ p'.seg = seg
  BY <1>1, <1>2, <1>3, <1>5 DEF Command
<1>7. Complete' = Complete /\ dir' = dir /\ pg' = pg
  BY DEF Complete
<1>8. ListOK'
  BY <1>3, <1>6, <1>7 DEF ListOK
<1>9. RemoveOK'
  BY <1>4, <1>6, <1>7 DEF RemoveOK, Unneeded, Needs
<1> QED
  BY <1>6, <1>8, <1>9, CommandStep

LEMMA ArchiveStartInv ==
  ASSUME ExpireInv, ArchiveStart
  PROVE  ExpireInv'
<1>1. UNCHANGED <<opt, pg, wal, pushed, dir, count>> /\ p.pc = "dirs"
  BY DEF ArchiveStart
<1>2. 1 \in 1 .. pg.id /\ p \in Command
  BY DEF ExpireInv, TypeOK
<1>3. CASE p' = Idle
  BY <1>1, <1>3, IdleInv
<1>4. CASE p' = [p EXCEPT !.pc = "archive", !.seg = ToRemove(p.listed, p.retain, p.type, 1)]
  <2>1. p.id = 1
    BY <1>1 DEF ExpireInv, RemoveOK
  <2>2. p' = [p EXCEPT !.pc = "archive", !.id = 1, !.seg = ToRemove(p.listed, p.retain, p.type, 1)]
    BY <1>2, <1>4, <2>1 DEF Command
  <2> QED
    BY <1>1, <1>2, <2>2, ArchiveInv
<1> QED
  BY <1>3, <1>4 DEF ArchiveStart

LEMMA NextArchiveInv ==
  ASSUME ExpireInv, NextArchive
  PROVE  ExpireInv'
<1>1. UNCHANGED <<opt, pg, wal, pushed, dir, count>> /\ p.pc = "archive"
  BY DEF NextArchive
<1>2. p \in Command /\ p.id \in 1 .. pg.id /\ pg.id \in Nat /\ p.listed = Complete /\ p.todo = {}
      /\ p.listed \subseteq DOMAIN dir
  BY <1>1 DEF ExpireInv, TypeOK, RemoveOK, ListOK
<1>3. CASE p.id = pg.id
  <2>1. p' = [p EXCEPT !.pc = "done"]
    BY <1>3 DEF NextArchive
  <2>2. p' \in Command /\ p'.pc = "done" /\ p'.listed = p.listed /\ p'.todo = {} /\ p'.id = p.id
    BY <1>2, <2>1 DEF Command
  <2>3. Complete' = Complete /\ dir' = dir /\ pg' = pg
    BY <1>1 DEF Complete
  <2>4. ListOK' /\ RemoveOK'
    BY <1>2, <1>3, <2>2, <2>3 DEF ListOK, RemoveOK
  <2> QED
    BY <1>1, <2>2, <2>4, CommandStep
<1>4. CASE p.id # pg.id
  <2>1. p' = [p EXCEPT !.id = @ + 1, !.seg = ToRemove(p.listed, p.retain, p.type, p.id + 1)]
    BY <1>4 DEF NextArchive
  <2>2. p' = [p EXCEPT !.pc = "archive", !.id = p.id + 1,
                       !.seg = ToRemove(p.listed, p.retain, p.type, p.id + 1)]
    BY <1>1, <1>2, <2>1 DEF Command
  <2>3. p.id + 1 \in 1 .. pg.id
    BY <1>2, <1>4
  <2> QED
    BY <1>1, <2>2, <2>3, ArchiveInv
<1> QED
  BY <1>3, <1>4

LEMMA RemoveExpiredArchiveInv ==
  ASSUME ExpireInv, NEW w \in p.seg, RemoveExpiredArchive(w)
  PROVE  ExpireInv'
<1> USE DEF ExpireInv
<1>1. /\ p.pc = "archive" /\ wal' = [wal EXCEPT ![p.id] = @ \ {w}] /\ p' = [p EXCEPT !.seg = @ \ {w}]
      /\ UNCHANGED <<opt, pg, pushed, dir, count>>
  BY DEF RemoveExpiredArchive
<1>2. p \in Command /\ p.id \in 1 .. pg.id /\ wal \in [1 .. pg.id -> SUBSET Segment]
  BY <1>1 DEF TypeOK, RemoveOK
<1>3. /\ p' \in Command /\ p'.pc = "archive" /\ p'.listed = p.listed /\ p'.todo = p.todo /\ p'.id = p.id
      /\ p'.seg = p.seg \ {w}
  BY <1>1, <1>2 DEF Command
<1>4. /\ wal' \in [1 .. pg.id -> SUBSET Segment]
      /\ wal'[p.id] = wal[p.id] \ {w} /\ \A i \in 1 .. pg.id : i # p.id => wal'[i] = wal[i]
  BY <1>1, <1>2
<1>5. Fewer /\ Complete' = Complete
  <2>1. dir' = dir /\ \A c \in DOMAIN dir : dir[c] \in Dir
    BY <1>1 DEF TypeOK
  <2> QED
    BY <1>1, <2>1 DEF Fewer, Complete
<1>6. TypeOK' /\ DirOK' /\ BaseOK'
  BY <1>3, <1>4, <1>5, FewerKeeps
<1>7. WalOK'
  <2>1. ASSUME NEW b \in Complete', NEW v \in pushed[dir[b].id], Needs(b, v), v \in wal[dir[b].id]
        PROVE  v \in wal'[dir[b].id]
    <3>1. b \in Complete /\ dir[b].id \in 1 .. pg.id
      BY <1>5 DEF Complete, DirOK, OneOK
    <3>2. dir[b].id = p.id => v # w
      BY <1>1, <2>1, <3>1 DEF RemoveOK, Unneeded
    <3> QED
      BY <1>4, <2>1, <3>1, <3>2
  <2> QED
    BY <1>5, <2>1, FewerWal
<1>8. ChainOK'
  BY <1>5, KeepsChain
<1>9. ListOK'
  BY <1>1, <1>3, <1>5 DEF ListOK
<1>10. RemoveOK'
  BY <1>1, <1>3, <1>5 DEF RemoveOK, Unneeded, Needs
<1> QED
  BY <1>6, <1>7, <1>8, <1>9, <1>10

(***************************************************************************)
(* The database and its backups                                            *)
(***************************************************************************)
New(n) == {<<pg.tl, s>> : s \in pg.seg .. pg.seg + n - 1}

LEMMA PushStep ==
  ASSUME TypeOK, NEW n \in Nat, Push(n)
  PROVE  /\ pg' \in [id : Nat \ {0}, tl : Nat, seg : Nat] /\ pg'.id = pg.id
         /\ pg'.tl = pg.tl /\ pg'.seg = pg.seg + n
         /\ wal' \in [1 .. pg.id -> SUBSET Segment] /\ pushed' \in [1 .. pg.id -> SUBSET Segment]
         /\ wal'[pg.id] = wal[pg.id] \union New(n) /\ pushed'[pg.id] = pushed[pg.id] \union New(n)
         /\ \A i \in 1 .. pg.id : i # pg.id => wal'[i] = wal[i] /\ pushed'[i] = pushed[i]
         /\ Before(Here, Here')
         /\ \A w \in New(n) : w \in Segment /\ Before(Here, w) /\ ~Before(Here', w)
<1>1. PICK q \in [id : Nat \ {0}, tl : Nat, seg : Nat] : q = pg
  BY DEF TypeOK
<1>2. pg' = [q EXCEPT !.seg = @ + n]
  BY <1>1 DEF Push
<1>3. pg' \in [id : Nat \ {0}, tl : Nat, seg : Nat] /\ pg'.id = q.id /\ pg'.tl = q.tl /\ pg'.seg = q.seg + n
  BY <1>2
<1>4. New(n) = {<<q.tl, s>> : s \in q.seg .. q.seg + n - 1}
  BY <1>1 DEF New
<1>5. New(n) \in SUBSET Segment
  BY <1>4 DEF Segment
<1>6. wal' = [wal EXCEPT ![q.id] = @ \union New(n)] /\ pushed' = [pushed EXCEPT ![q.id] = @ \union New(n)]
  BY <1>1 DEF Push, New
<1>7. q.id \in 1 .. q.id /\ wal \in [1 .. q.id -> SUBSET Segment] /\ pushed \in [1 .. q.id -> SUBSET Segment]
  BY <1>1 DEF TypeOK
<1>8. /\ wal' \in [1 .. q.id -> SUBSET Segment] /\ pushed' \in [1 .. q.id -> SUBSET Segment]
      /\ wal'[q.id] = wal[q.id] \union New(n) /\ pushed'[q.id] = pushed[q.id] \union New(n)
      /\ \A i \in 1 .. q.id : i # q.id => wal'[i] = wal[i] /\ pushed'[i] = pushed[i]
  <2> HIDE DEF New
  <2> QED
    BY <1>5, <1>6, <1>7
<1>9. Here = <<q.tl, q.seg>> /\ Here' = <<q.tl, q.seg + n>>
  BY <1>1, <1>3 DEF Here
<1>10. Before(Here, Here') /\ \A w \in New(n) : Before(Here, w) /\ ~Before(Here', w)
  BY <1>4, <1>9 DEF Before
<1> QED
  BY <1>1, <1>3, <1>5, <1>8, <1>10

LEMMA HereType ==
  ASSUME TypeOK
  PROVE  Here \in Segment
BY DEF TypeOK, Here, Segment

(* The database goes on, on its timeline or on the next one.               *)
LEMMA HereMoves ==
  ASSUME ExpireInv, pg' \in [id : Nat \ {0}, tl : Nat, seg : Nat], pg'.id = pg.id, Before(Here, Here'),
         wal' \in [1 .. pg.id -> SUBSET Segment], pushed' \in [1 .. pg.id -> SUBSET Segment],
         NEW S, \A w \in S : w \in Segment /\ ~Before(Here', w),
         wal'[pg.id] = wal[pg.id] \union S, pushed'[pg.id] = pushed[pg.id] \union S,
         \A i \in 1 .. pg.id : i # pg.id => wal'[i] = wal[i] /\ pushed'[i] = pushed[i]
  PROVE  /\ \A b \in DOMAIN dir : OneOK(b) =>
              (dir[b].start # None /\ dir[b].id = pg.id => Before(dir[b].start, Here'))
         /\ \A b \in Complete : \A w \in pushed'[dir[b].id] : Needs(b, w) => w \in wal'[dir[b].id]
         /\ \A w \in pushed'[pg.id] : ~Before(Here', w)
<1> USE DEF ExpireInv
<1>1. Here \in Segment /\ Here' \in Segment
  BY HereType DEF Here, Segment
<1>2. ASSUME NEW b \in DOMAIN dir, dir[b].start # None, dir[b].id = pg.id
      PROVE  Before(dir[b].start, Here')
  <2>1. dir[b].start \in Segment /\ Before(dir[b].start, Here)
    BY <1>2 DEF TypeOK, Dir, DirOK, OneOK
  <2> QED
    BY <1>1, <2>1, BeforeTrans
<1>3. ASSUME NEW b \in Complete, NEW w \in pushed'[dir[b].id], Needs(b, w)
      PROVE  w \in wal'[dir[b].id]
  <2>1. dir[b].id \in 1 .. pg.id
    BY DEF Complete, DirOK, OneOK
  <2>2. w \in pushed[dir[b].id] => w \in wal[dir[b].id]
    BY <1>3 DEF WalOK
  <2>3. CASE dir[b].id = pg.id
    BY <1>3, <2>2, <2>3
  <2>4. CASE dir[b].id # pg.id
    <3>1. wal'[dir[b].id] = wal[dir[b].id] /\ pushed'[dir[b].id] = pushed[dir[b].id]
      BY <2>1, <2>4
    <3> QED
      BY <1>3, <2>2, <3>1
  <2> QED
    BY <2>3, <2>4
<1>4. ASSUME NEW w \in pushed'[pg.id]
      PROVE  ~Before(Here', w)
  <2>1. CASE w \in S
    BY <2>1
  <2>2. CASE w \in pushed[pg.id]
    <3>1. w \in Segment /\ ~Before(Here, w)
      BY <2>2 DEF TypeOK, WalOK
    <3> QED
      BY <1>1, <3>1, BeforeTrans
  <2> QED
    BY <1>4, <2>1, <2>2
<1> QED
  BY <1>2, <1>3, <1>4

(* That keeps the invariant when no backup is taken.                       *)
LEMMA MoveInv ==
  ASSUME ExpireInv, pg' \in [id : Nat \ {0}, tl : Nat, seg : Nat], pg'.id = pg.id, Before(Here, Here'),
         wal' \in [1 .. pg.id -> SUBSET Segment], pushed' \in [1 .. pg.id -> SUBSET Segment],
         NEW S, \A w \in S : w \in Segment /\ ~Before(Here', w),
         wal'[pg.id] = wal[pg.id] \union S, pushed'[pg.id] = pushed[pg.id] \union S,
         \A i \in 1 .. pg.id : i # pg.id => wal'[i] = wal[i] /\ pushed'[i] = pushed[i],
         UNCHANGED <<opt, dir, count, p>>
  PROVE  ExpireInv'
<1> USE DEF ExpireInv
<1>1. Complete' = Complete /\ dir' = dir /\ p' = p
  BY DEF Complete
<1>2. /\ \A b \in DOMAIN dir : OneOK(b) =>
           (dir[b].start # None /\ dir[b].id = pg.id => Before(dir[b].start, Here'))
      /\ \A b \in Complete : \A w \in pushed'[dir[b].id] : Needs(b, w) => w \in wal'[dir[b].id]
      /\ \A w \in pushed'[pg.id] : ~Before(Here', w)
  BY HereMoves
<1>3. TypeOK'
  <2>1. wal' \in [1 .. pg'.id -> SUBSET Segment] /\ pushed' \in [1 .. pg'.id -> SUBSET Segment]
    OBVIOUS
  <2>2. opt' \in Options /\ count' \in Nat /\ DOMAIN dir' \subseteq 1 .. count' /\ p' \in Command
        /\ \A b \in DOMAIN dir' : dir'[b] \in Dir
    BY DEF TypeOK
  <2> QED
    BY <2>1, <2>2 DEF TypeOK
<1>4. DirOK'
  <2>1. \A b \in DOMAIN dir : OneOK(b)'
    BY <1>1, <1>2 DEF DirOK, OneOK
  <2>2. \A b \in DOMAIN dir, c \in DOMAIN dir : PairOK(b, c)'
    BY <1>1 DEF DirOK, PairOK
  <2> QED
    BY <1>1, <2>1, <2>2 DEF DirOK
<1>5. ChainOK' /\ BaseOK'
  BY <1>1 DEF ChainOK, BaseOK, Based
<1>6. WalOK'
  BY <1>1, <1>2 DEF WalOK, Needs
<1>7. ListOK'
  <2>1. \A r, s : Sooner(r, s)' <=> Sooner(r, s)
    BY <1>1 DEF Sooner
  <2>2. \A L, r : DependentList(L, r)' = DependentList(L, r)
    BY <1>1, Zenon DEF DependentList
  <2>3. \A c : ExpireBackup(c)' <=> ExpireBackup(c)
    BY <1>1, <2>1, <2>2 DEF ExpireBackup
  <2> QED
    BY <1>1, <2>3 DEF ListOK
<1>8. RemoveOK'
  BY <1>1 DEF RemoveOK, Unneeded, Needs
<1> QED
  BY <1>3, <1>4, <1>5, <1>6, <1>7, <1>8

LEMMA ArchivePushInv ==
  ASSUME ExpireInv, ArchivePush
  PROVE  ExpireInv'
<1>1. Push(1) /\ UNCHANGED <<opt, dir, count, p>> /\ 1 \in Nat /\ TypeOK
  BY DEF ArchivePush, ExpireInv
<1> QED
  BY <1>1, PushStep, MoveInv

LEMMA PromoteInv ==
  ASSUME ExpireInv, Promote
  PROVE  ExpireInv'
<1>1. PICK q \in [id : Nat \ {0}, tl : Nat, seg : Nat] : q = pg
  BY DEF ExpireInv, TypeOK
<1>2. pg' = [q EXCEPT !.tl = @ + 1] /\ UNCHANGED <<opt, wal, pushed, dir, count, p>>
  BY <1>1 DEF Promote
<1>3. pg' \in [id : Nat \ {0}, tl : Nat, seg : Nat] /\ pg'.id = pg.id /\ pg'.tl = q.tl + 1 /\ pg'.seg = q.seg
  BY <1>1, <1>2
<1>4. Before(Here, Here')
  BY <1>1, <1>3 DEF Before, Here
<1>5. wal' \in [1 .. pg.id -> SUBSET Segment] /\ pushed' \in [1 .. pg.id -> SUBSET Segment]
  BY <1>2 DEF ExpireInv, TypeOK
<1>6. PICK S : S = {}
  OBVIOUS
<1>7. /\ wal'[pg.id] = wal[pg.id] \union S /\ pushed'[pg.id] = pushed[pg.id] \union S
      /\ \A i \in 1 .. pg.id : i # pg.id => wal'[i] = wal[i] /\ pushed'[i] = pushed[i]
      /\ \A w \in S : w \in Segment /\ ~Before(Here', w)
      /\ UNCHANGED <<opt, dir, count, p>>
  BY <1>2, <1>6
<1> QED
  BY <1>3, <1>4, <1>5, <1>7, MoveInv

LEMMA StanzaUpgradeInv ==
  ASSUME ExpireInv, StanzaUpgrade
  PROVE  ExpireInv'
<1> USE DEF ExpireInv
<1>1. PICK i \in Nat \ {0} : i = pg.id
  BY DEF TypeOK
<1>2. /\ pg' = [id |-> i + 1, tl |-> 1, seg |-> 0] /\ p.pc = "idle"
      /\ wal' = [j \in 1 .. i + 1 |-> IF j <= i THEN wal[j] ELSE {}]
      /\ pushed' = [j \in 1 .. i + 1 |-> IF j <= i THEN pushed[j] ELSE {}]
      /\ UNCHANGED <<opt, dir, count, p>>
  BY <1>1 DEF StanzaUpgrade
<1>3. pg' \in [id : Nat \ {0}, tl : Nat, seg : Nat] /\ pg'.id = i + 1
  BY <1>2
<1>4. wal \in [1 .. i -> SUBSET Segment] /\ pushed \in [1 .. i -> SUBSET Segment]
  BY <1>1 DEF TypeOK
<1>5. wal' \in [1 .. i + 1 -> SUBSET Segment] /\ pushed' \in [1 .. i + 1 -> SUBSET Segment]
  BY <1>2, <1>4
<1>6. (\A j \in 1 .. i : wal'[j] = wal[j] /\ pushed'[j] = pushed[j]) /\ pushed'[i + 1] = {}
  BY <1>2
<1>7. Complete' = Complete /\ dir' = dir /\ p' = p
  BY <1>2 DEF Complete
<1>8. TypeOK'
  <2>1. wal' \in [1 .. pg'.id -> SUBSET Segment] /\ pushed' \in [1 .. pg'.id -> SUBSET Segment]
    BY <1>3, <1>5
  <2>2. opt' \in Options /\ count' \in Nat /\ DOMAIN dir' \subseteq 1 .. count' /\ p' \in Command
        /\ \A b \in DOMAIN dir' : dir'[b] \in Dir
    BY <1>2 DEF TypeOK
  <2> QED
    BY <1>3, <2>1, <2>2 DEF TypeOK
<1>9. \A b \in DOMAIN dir : dir[b].id \in 1 .. i /\ dir[b].id # i + 1
  BY <1>1 DEF DirOK, OneOK
<1>10. DirOK'
  <2>1. \A b \in DOMAIN dir : OneOK(b)'
    BY <1>3, <1>7, <1>9 DEF DirOK, OneOK
  <2>2. \A b \in DOMAIN dir, c \in DOMAIN dir : PairOK(b, c)'
    BY <1>7 DEF DirOK, PairOK
  <2> QED
    BY <1>7, <2>1, <2>2 DEF DirOK
<1>11. ChainOK' /\ BaseOK'
  BY <1>7 DEF ChainOK, BaseOK, Based
<1>12. WalOK'
  <2>1. ASSUME NEW b \in Complete, NEW w \in pushed'[dir[b].id], Needs(b, w)
        PROVE  w \in wal'[dir[b].id]
    <3>1. dir[b].id \in 1 .. i
      BY <1>9 DEF Complete
    <3> QED
      BY <1>6, <2>1, <3>1 DEF WalOK
  <2> QED
    BY <1>3, <1>6, <1>7, <2>1 DEF WalOK, Needs
<1>13. ListOK' /\ RemoveOK'
  BY <1>2, <1>7 DEF ListOK, RemoveOK
<1> QED
  BY <1>8, <1>10, <1>11, <1>12, <1>13

(* What a backup leaves: a directory for the next label, based on the      *)
(* newest backup it can be based on, and perhaps one directory less.       *)
Added(b, n) ==
  /\ b = count + 1 /\ b \in DOMAIN dir' /\ dir'[b] \in Dir
  /\ DOMAIN dir' \subseteq DOMAIN dir \union {b}
  /\ \A c \in DOMAIN dir' \ {b} : dir'[c] = dir[c]
  /\ Complete \subseteq DOMAIN dir'
  /\ dir'[b].id = pg.id
  /\ dir'[b].prior = None <=> dir'[b].type = "full"
  /\ dir'[b].type # "full" =>
       /\ dir'[b].prior \in Complete /\ dir[dir'[b].prior].id = pg.id
       /\ dir'[b].type = "diff" => dir[dir'[b].prior].type = "full"
       /\ \A c \in Complete : dir[c].id = pg.id /\ (dir[c].type = "full" \/ dir'[b].type = "incr") =>
                                c <= dir'[b].prior
  /\ dir'[b].start = None <=> dir'[b].stop = None
  /\ dir'[b].start # None =>
       /\ dir'[b].start = Here
       /\ \A w \in Segment : Before(Here, w) /\ Before(w, dir'[b].stop) => w \in New(n)

LEMMA BackupStep ==
  ASSUME ExpireInv, NEW type \in Type, NEW n \in Nat, NEW reached, Backup(type, n, reached)
  PROVE  /\ Added(count + 1, n) /\ Push(n) /\ count' = count + 1 /\ p.pc = "idle"
         /\ UNCHANGED <<opt, p>>
<1> DEFINE b == count + 1
           ours == {c \in Complete : dir[c].id = pg.id}
           base == IF type = "diff" THEN Fulls(ours) ELSE ours
           full == type = "full" \/ base = {}
           old == IF DOMAIN dir = {} THEN {} ELSE {Newest(DOMAIN dir)} \ Complete
           new == [main |-> reached # "copy", copy |-> TRUE, id |-> pg.id,
                   type |-> IF full THEN "full" ELSE type,
                   prior |-> IF full THEN None ELSE Newest(base),
                   full |-> IF full THEN b ELSE dir[Newest(base)].full,
                   start |-> IF n = 0 THEN None ELSE <<pg.tl, pg.seg>>,
                   stop |-> IF n = 0 THEN None ELSE <<pg.tl, pg.seg + n - 1>>]
<1>1. /\ Push(n) /\ count' = b /\ p.pc = "idle" /\ UNCHANGED <<opt, p>>
      /\ dir' = [c \in (DOMAIN dir \ old) \union {b} |-> IF c = b THEN new ELSE dir[c]]
  <2>1. Available = Complete
    BY CompleteIsListed
  <2> QED
    BY <2>1 DEF Backup
<1>2. /\ Complete \in SUBSET (1 .. count) /\ count \in Nat /\ Complete \subseteq DOMAIN dir
      /\ pg \in [id : Nat \ {0}, tl : Nat, seg : Nat] /\ DOMAIN dir \subseteq 1 .. count
      /\ \A c \in DOMAIN dir : dir[c] \in Dir
  BY CompleteIsListed DEF ExpireInv, TypeOK
<1>3. base \in SUBSET Complete /\ base \in SUBSET (1 .. count)
  BY <1>2 DEF Fulls, OfType
<1>4. base # {} => Newest(base) \in base /\ \A c \in base : c <= Newest(base)
  <2> HIDE DEF base
  <2> QED
    BY <1>2, <1>3, NewestIn
<1>5. /\ new.main = (reached # "copy") /\ new.copy = TRUE /\ new.id = pg.id
      /\ new.type = (IF full THEN "full" ELSE type) /\ new.prior = (IF full THEN None ELSE Newest(base))
      /\ new.full = (IF full THEN b ELSE dir[Newest(base)].full)
      /\ new.start = (IF n = 0 THEN None ELSE <<pg.tl, pg.seg>>)
      /\ new.stop = (IF n = 0 THEN None ELSE <<pg.tl, pg.seg + n - 1>>)
  OBVIOUS
<1>6. /\ ~full => type # "full" /\ base # {} /\ Newest(base) \in Complete /\ Newest(base) \in Nat
                  /\ dir[Newest(base)].full \in Nat
  <2> HIDE DEF base
  <2>1. base # {} => Newest(base) \in DOMAIN dir /\ Newest(base) \in Nat /\ Newest(base) \in Complete
    <3>1. Complete \subseteq 1 .. count /\ Complete \subseteq DOMAIN dir /\ base \subseteq Complete
      BY <1>2, <1>3
    <3>2. base # {} => Newest(base) \in Complete
      BY <1>4, <3>1, Zenon
    <3>3. 1 .. count \subseteq Nat
      BY <1>2
    <3> QED
      BY <3>1, <3>2, <3>3, Zenon
  <2>2. base # {} => dir[Newest(base)] \in Dir
    BY <1>2, <2>1
  <2>3. base # {} => dir[Newest(base)].full \in Nat
    BY <2>2 DEF Dir
  <2> QED
    BY <2>1, <2>3
<1>7. new \in Dir
  <2>1. (reached # "copy") \in BOOLEAN /\ pg.id \in Nat /\ b \in Nat
    BY <1>2
  <2>2. (IF full THEN "full" ELSE type) \in Type
    BY DEF Type
  <2>3. (IF full THEN None ELSE Newest(base)) \in Nat \union {None}
    <3> HIDE DEF full, base
    <3> QED
      BY <1>6
  <2>4. (IF full THEN b ELSE dir[Newest(base)].full) \in Nat
    <3> HIDE DEF full, base
    <3> QED
      BY <1>6, <2>1
  <2>5. /\ (IF n = 0 THEN None ELSE <<pg.tl, pg.seg>>) \in Segment \union {None}
        /\ (IF n = 0 THEN None ELSE <<pg.tl, pg.seg + n - 1>>) \in Segment \union {None}
    BY <1>2 DEF Segment
  <2> HIDE DEF full, base, b
  <2> QED
    BY <2>1, <2>2, <2>3, <2>4, <2>5 DEF Dir
<1>8. b \notin DOMAIN dir /\ old \intersect Complete = {}
  BY <1>2
<1> HIDE DEF old, new
<1>9. /\ b \in DOMAIN dir' /\ dir'[b] = new /\ DOMAIN dir' \subseteq DOMAIN dir \union {b}
      /\ \A c \in DOMAIN dir' \ {b} : dir'[c] = dir[c]
      /\ Complete \subseteq DOMAIN dir'
  BY <1>1, <1>2, <1>8
<1>10. new.prior = None <=> new.type = "full"
  <2> HIDE DEF full, base
  <2> QED
    BY <1>5, <1>6, NoneNoSegment
<1>11. ASSUME new.type # "full"
       PROVE  /\ new.prior \in Complete /\ dir[new.prior].id = pg.id
              /\ new.type = "diff" => dir[new.prior].type = "full"
              /\ \A c \in Complete : dir[c].id = pg.id /\ (dir[c].type = "full" \/ new.type = "incr") =>
                                       c <= new.prior
  <2>1. ~full /\ new.type = type /\ new.prior = Newest(base)
    BY <1>5, <1>11
  <2>2. new.prior \in base /\ \A c \in base : c <= new.prior
    BY <1>4, <1>6, <2>1
  <2>3. new.prior \in ours /\ (type = "diff" => dir[new.prior].type = "full")
    BY <2>2 DEF Fulls, OfType
  <2>4. ASSUME NEW c \in Complete, dir[c].id = pg.id, dir[c].type = "full" \/ new.type = "incr"
        PROVE  c <= new.prior
    <3>1. c \in base
      BY <2>1, <2>4 DEF Fulls, OfType
    <3> QED
      BY <2>2, <3>1
  <2> QED
    BY <2>1, <2>3, <2>4
<1>12. new.start = None <=> new.stop = None
  BY <1>2, <1>5, NoneNoSegment DEF Segment
<1>13. ASSUME new.start # None
       PROVE  /\ new.start = Here
              /\ \A w \in Segment : Before(Here, w) /\ Before(w, new.stop) => w \in New(n)
  <2>1. PICK t \in Nat, s \in Nat : t = pg.tl /\ s = pg.seg
    BY <1>2
  <2>2. n # 0 /\ new.start = <<t, s>> /\ new.stop = <<t, s + n - 1>> /\ Here = <<t, s>>
    BY <1>5, <1>13, <2>1 DEF Here
  <2>3. ASSUME NEW w \in Segment, Before(Here, w), Before(w, new.stop)
        PROVE  w \in New(n)
    <3>1. w[1] \in Nat /\ w[2] \in Nat /\ w = <<w[1], w[2]>>
      BY DEF Segment
    <3>2. w[1] = t /\ w[2] >= s /\ w[2] <= s + n - 1
      BY <2>2, <2>3, <3>1 DEF Before
    <3>3. w[2] \in s .. s + n - 1
      BY <3>1, <3>2
    <3> QED
      BY <2>1, <3>1, <3>2, <3>3 DEF New
  <2> QED
    BY <2>2, <2>3
<1>14. new.id = pg.id
  BY <1>5
<1> HIDE DEF full, base
<1> QED
  BY <1>1, <1>7, <1>9, <1>10, <1>11, <1>12, <1>13, <1>14 DEF Added

LEMMA AddedComplete ==
  ASSUME TypeOK, NEW n \in Nat, Added(count + 1, n)
  PROVE  /\ Complete \subseteq Complete' /\ Complete' \subseteq Complete \union {count + 1}
         /\ count + 1 \notin DOMAIN dir /\ count + 1 \in Nat /\ \A c \in DOMAIN dir : c < count + 1 /\ c \in Nat
<1>1. /\ DOMAIN dir' \subseteq DOMAIN dir \union {count + 1}
      /\ \A c \in DOMAIN dir' \ {count + 1} : dir'[c] = dir[c]
      /\ Complete \subseteq DOMAIN dir'
  BY DEF Added
<1>2. DOMAIN dir \subseteq 1 .. count /\ count \in Nat
  BY DEF TypeOK
<1>3. count + 1 \notin DOMAIN dir /\ count + 1 \in Nat /\ \A c \in DOMAIN dir : c < count + 1 /\ c \in Nat
  BY <1>2
<1> QED
  BY <1>1, <1>3 DEF Complete

LEMMA BackupInv ==
  ASSUME ExpireInv, NEW type \in Type, NEW n \in Nat, NEW reached, Backup(type, n, reached)
  PROVE  ExpireInv'
<1> USE DEF ExpireInv
<1>1. /\ Added(count + 1, n) /\ Push(n) /\ count' = count + 1 /\ p.pc = "idle" /\ opt' = opt /\ p' = p
  BY BackupStep
<1>2. /\ pg' \in [id : Nat \ {0}, tl : Nat, seg : Nat] /\ pg'.id = pg.id
      /\ pg'.tl = pg.tl /\ pg'.seg = pg.seg + n
      /\ wal' \in [1 .. pg.id -> SUBSET Segment] /\ pushed' \in [1 .. pg.id -> SUBSET Segment]
      /\ wal'[pg.id] = wal[pg.id] \union New(n) /\ pushed'[pg.id] = pushed[pg.id] \union New(n)
      /\ \A i \in 1 .. pg.id : i # pg.id => wal'[i] = wal[i] /\ pushed'[i] = pushed[i]
      /\ Before(Here, Here')
      /\ \A w \in New(n) : w \in Segment /\ Before(Here, w) /\ ~Before(Here', w)
  BY <1>1, PushStep
<1>3. PICK b : b = count + 1
  OBVIOUS
<1>4. /\ Complete \subseteq Complete' /\ Complete' \subseteq Complete \union {b}
      /\ b \notin DOMAIN dir /\ b \in Nat /\ \A c \in DOMAIN dir : c < b /\ c \in Nat
  BY <1>1, <1>3, AddedComplete
<1>5. Added(b, n)
  BY <1>1, <1>3
<1>6. \A c \in DOMAIN dir' : c # b => c \in DOMAIN dir /\ dir'[c] = dir[c]
  BY <1>5 DEF Added
<1>7. TypeOK'
  <2>1. DOMAIN dir' \subseteq 1 .. count' /\ count' \in Nat
    <3>1. count \in Nat /\ DOMAIN dir \subseteq 1 .. count
      BY DEF TypeOK
    <3>2. DOMAIN dir' \subseteq (1 .. count) \union {count + 1}
      BY <1>3, <1>5, <3>1 DEF Added
    <3> QED
      BY <1>1, <3>1, <3>2
  <2>2. \A c \in DOMAIN dir' : dir'[c] \in Dir
    <3>1. \A c \in DOMAIN dir : dir[c] \in Dir
      BY DEF TypeOK
    <3>2. dir'[b] \in Dir
      BY <1>5 DEF Added
    <3> QED
      BY <1>6, <3>1, <3>2
  <2>3. wal' \in [1 .. pg'.id -> SUBSET Segment] /\ pushed' \in [1 .. pg'.id -> SUBSET Segment]
    BY <1>2
  <2>4. opt' \in Options /\ p' \in Command
    BY <1>1 DEF TypeOK
  <2> QED
    BY <1>2, <2>1, <2>2, <2>3, <2>4 DEF TypeOK
<1>8. /\ \A c \in DOMAIN dir : OneOK(c) =>
           (dir[c].start # None /\ dir[c].id = pg.id => Before(dir[c].start, Here'))
      /\ \A c \in Complete : \A w \in pushed'[dir[c].id] : Needs(c, w) => w \in wal'[dir[c].id]
      /\ \A w \in pushed'[pg.id] : ~Before(Here', w)
  BY <1>2, HereMoves
<1>9. /\ dir'[b].id = pg.id /\ b \in DOMAIN dir'
      /\ dir'[b].prior = None <=> dir'[b].type = "full"
      /\ dir'[b].start = None <=> dir'[b].stop = None
      /\ dir'[b].start # None => dir'[b].start = Here
  BY <1>5 DEF Added
<1>10. dir'[b].type # "full" =>
         /\ dir'[b].prior \in Complete /\ dir[dir'[b].prior].id = pg.id
         /\ dir'[b].type = "diff" => dir[dir'[b].prior].type = "full"
         /\ \A c \in Complete : dir[c].id = pg.id /\ (dir[c].type = "full" \/ dir'[b].type = "incr") =>
                                  c <= dir'[b].prior
  BY <1>5 DEF Added
<1>11. \A c \in Complete : c \in DOMAIN dir /\ c \in DOMAIN dir' /\ c # b /\ dir'[c] = dir[c] /\ c < b
  BY <1>4, <1>5, <1>6 DEF Added, Complete
<1>12. ASSUME NEW c \in DOMAIN dir'
       PROVE  OneOK(c)'
  <2>1. CASE c = b
    <3>1. dir'[b].id \in 1 .. pg'.id
      BY <1>2, <1>9
    <3>2. dir'[b].prior # None => dir'[b].prior < b
      BY <1>9, <1>10, <1>11
    <3>3. ASSUME dir'[b].prior \in DOMAIN dir'
          PROVE  /\ dir'[dir'[b].prior].id = dir'[b].id
                 /\ dir'[b].type = "diff" => dir'[dir'[b].prior].type = "full"
      <4>1. dir'[b].prior # None
        BY <1>7, <3>3, NoneNoSegment DEF TypeOK
      <4>2. dir'[b].prior \in Complete
        BY <1>9, <1>10, <4>1
      <4> QED
        BY <1>9, <1>10, <1>11, <4>1, <4>2
    <3>4. dir'[b].start # None /\ dir'[b].id = pg'.id => Before(dir'[b].start, Here')
      BY <1>2, <1>9
    <3> QED
      BY <1>9, <2>1, <3>1, <3>2, <3>3, <3>4 DEF OneOK
  <2>2. CASE c # b
    <3>1. c \in DOMAIN dir /\ dir'[c] = dir[c] /\ OneOK(c)
      BY <1>6, <2>2 DEF DirOK
    <3>2. dir[c].prior # b
      <4>1. dir[c].prior # None => dir[c].prior < c /\ c < b /\ c \in Nat /\ dir[c].prior \in Nat
        BY <1>4, <3>1 DEF OneOK, TypeOK, Dir
      <4>2. b # None
        BY <1>4, NoneNoSegment
      <4> QED
        BY <1>4, <4>1, <4>2
    <3>3. dir[c].prior \in DOMAIN dir' => dir[c].prior \in DOMAIN dir /\ dir'[dir[c].prior] = dir[dir[c].prior]
      BY <1>6, <3>2
    <3>4. dir'[c].start # None /\ dir'[c].id = pg'.id => Before(dir'[c].start, Here')
      BY <1>2, <1>8, <3>1
    <3> QED
      BY <1>2, <3>1, <3>3, <3>4 DEF OneOK
  <2> QED
    BY <2>1, <2>2
<1>13. ASSUME NEW c \in DOMAIN dir', NEW d \in DOMAIN dir'
       PROVE  PairOK(c, d)'
  <2>1. CASE c # b /\ d # b
    <3>1. dir'[c] = dir[c] /\ dir'[d] = dir[d] /\ PairOK(c, d)
      BY <1>6, <2>1 DEF DirOK
    <3> QED
      BY <3>1 DEF PairOK
  <2>2. CASE c # b /\ d = b
    <3>1. c \in DOMAIN dir /\ dir'[c] = dir[c] /\ OneOK(c)
      BY <1>6, <2>2 DEF DirOK
    <3>2. dir[c].id <= pg.id
      BY <3>1 DEF OneOK, TypeOK
    <3>3. dir[c].id = pg.id /\ dir[c].start # None => Before(dir[c].start, Here)
      BY <3>1 DEF OneOK
    <3> QED
      BY <1>9, <2>2, <3>1, <3>2, <3>3 DEF PairOK
  <2>3. CASE c = b
    <3>1. ~(b < d)
      BY <1>4, <1>6
    <3> QED
      BY <2>3, <3>1 DEF PairOK
  <2> QED
    BY <2>1, <2>2, <2>3
<1>14. ChainOK'
  <2> SUFFICES ASSUME NEW c \in Complete', dir'[c].prior # None
               PROVE  dir'[c].prior \in Complete'
    BY DEF ChainOK
  <2>1. CASE c = b
    BY <1>4, <1>9, <1>10, <2>1
  <2>2. CASE c # b
    <3>1. c \in Complete /\ dir'[c] = dir[c]
      BY <1>4, <1>11, <2>2
    <3> QED
      BY <1>4, <3>1 DEF ChainOK
  <2> QED
    BY <2>1, <2>2
<1>15. ASSUME NEW c \in DOMAIN dir', NEW d \in Complete'
       PROVE  Based(c, d)'
  <2>1. CASE d = b
    <3>1. ~(b < c)
      BY <1>4, <1>6
    <3> QED
      BY <2>1, <3>1 DEF Based
  <2>2. CASE d # b /\ c # b
    <3>1. c \in DOMAIN dir /\ d \in Complete /\ dir'[c] = dir[c] /\ dir'[d] = dir[d]
      BY <1>4, <1>6, <1>11, <2>2
    <3> QED
      BY <3>1 DEF BaseOK, Based
  <2>3. CASE d # b /\ c = b
    <3>1. d \in Complete /\ dir'[d] = dir[d]
      BY <1>4, <1>11, <2>3
    <3> QED
      BY <1>9, <1>10, <2>3, <3>1 DEF Based
  <2> QED
    BY <2>1, <2>2, <2>3
<1>16. WalOK'
  <2>1. ASSUME NEW c \in Complete', NEW w \in pushed'[dir'[c].id], Needs(c, w)'
        PROVE  w \in wal'[dir'[c].id]
    <3>1. CASE c # b
      <4>1. c \in Complete /\ dir'[c] = dir[c]
        BY <1>4, <1>11, <3>1
      <4>2. Needs(c, w)
        BY <2>1, <4>1 DEF Needs
      <4> QED
        BY <1>8, <2>1, <4>1, <4>2
    <3>2. CASE c = b
      <4>1. w \in Segment
        BY <1>2, <1>9, <2>1, <3>2 DEF TypeOK
      <4>2. Before(Here, w) /\ Before(w, dir'[b].stop) /\ dir'[b].start # None
        BY <1>9, <2>1, <3>2 DEF Needs
      <4>3. w \in New(n)
        BY <1>5, <4>1, <4>2 DEF Added
      <4> QED
        BY <1>2, <1>9, <3>2, <4>3
    <3> QED
      BY <3>1, <3>2
  <2> QED
    BY <1>2, <1>8, <2>1 DEF WalOK
<1>17. ListOK' /\ RemoveOK'
  BY <1>1 DEF ListOK, RemoveOK
<1> QED
  BY <1>7, <1>12, <1>13, <1>14, <1>15, <1>16, <1>17 DEF DirOK, BaseOK

(***************************************************************************)
(* The invariant                                                           *)
(***************************************************************************)
LEMMA ExpireInit ==
  ASSUME Init
  PROVE  ExpireInv /\ DOMAIN dir = {} /\ p.pc = "idle"
<1>1. 1 .. 0 = {}
  OBVIOUS
<1>2. DOMAIN dir = {}
  BY <1>1 DEF Init
<1>3. Complete = {}
  BY <1>2 DEF Complete
<1>4. p \in Command /\ p.pc = "idle" /\ p.id = 1
  BY DEF Init, Idle, Command, Type
<1>5. pg \in [id : Nat \ {0}, tl : Nat, seg : Nat] /\ pg.id = 1
  BY DEF Init
<1>6. wal = [i \in 1 .. pg.id |-> {}] /\ pushed = [i \in 1 .. pg.id |-> {}]
  BY <1>5 DEF Init, Empty
<1>7. wal \in [1 .. pg.id -> SUBSET Segment] /\ pushed \in [1 .. pg.id -> SUBSET Segment]
      /\ pushed[pg.id] = {}
  BY <1>5, <1>6
<1>8. TypeOK
  BY <1>2, <1>4, <1>5, <1>7 DEF TypeOK, Init
<1>9. DirOK /\ ChainOK /\ BaseOK /\ WalOK
  BY <1>2, <1>3, <1>7 DEF DirOK, ChainOK, BaseOK, WalOK
<1>10. ListOK /\ RemoveOK
  BY <1>4 DEF ListOK, RemoveOK
<1> QED
  BY <1>2, <1>4, <1>8, <1>9, <1>10 DEF ExpireInv

LEMMA ExpireNext ==
  ASSUME ExpireInv, [Next]_vars
  PROVE  ExpireInv'
<1>1. ASSUME UNCHANGED vars PROVE ExpireInv'
  <2>1. UNCHANGED <<opt, pg, wal, pushed, dir, count, p>>
    BY <1>1 DEF vars
  <2>2. Complete' = Complete /\ p' \in Command
    BY <2>1 DEF Complete, ExpireInv, TypeOK
  <2>3. \A c : ExpireBackup(c)' <=> ExpireBackup(c)
    <3>1. \A r, s : Sooner(r, s)' <=> Sooner(r, s)
      BY <2>1 DEF Sooner
    <3>2. \A L, r : DependentList(L, r)' = DependentList(L, r)
      BY <2>1, Zenon DEF DependentList
    <3> QED
      BY <2>1, <3>1, <3>2 DEF ExpireBackup
  <2>4. ListOK'
    BY <2>1, <2>2, <2>3 DEF ListOK, ExpireInv
  <2>5. RemoveOK'
    BY <2>1, <2>2 DEF RemoveOK, ExpireInv, Unneeded, Needs
  <2> QED
    BY <2>1, <2>2, <2>4, <2>5, CommandStep
<1>2. ASSUME NEW type \in {"full", "diff", "incr"}, NEW n \in Segments, NEW reached \in {"copy", "main", "info"},
             Backup(type, n, reached)
      PROVE  ExpireInv'
  <2>1. type \in Type /\ n \in Nat
    BY ExpireAssumption DEF Type
  <2> QED
    BY <1>2, <2>1, BackupInv
<1>3. ASSUME Done \/ Crash PROVE ExpireInv'
  <2>1. p' = Idle /\ UNCHANGED <<opt, pg, wal, pushed, dir, count>>
    BY <1>3 DEF Done, Crash
  <2> QED
    BY <2>1, IdleInv
<1> QED
  BY <1>1, <1>2, <1>3, ArchivePushInv, PromoteInv, StanzaUpgradeInv, BeginInv, RemoveManifestInv,
     RemoveManifestCopyInv, SaveInv, RemoveExpiredBackupInv, ArchiveStartInv, RemoveExpiredArchiveInv,
     NextArchiveInv DEF Next

(* The invariant of the repository and of the expire command holds in      *)
(* every state of every behaviour, whatever the settings and the bounds.   *)
THEOREM ExpireInvariant == Spec => []ExpireInv
<1>1. Init => ExpireInv
  BY ExpireInit
<1>2. ExpireInv /\ [Next]_vars => ExpireInv'
  BY ExpireNext
<1> QED
  BY <1>1, <1>2, PTL DEF Spec

(* A backup found in backup.info has at any moment the backups it depends  *)
(* on and the WAL that makes it consistent, for every number of backups,   *)
(* clusters and segments, and wherever expireBackup() or                   *)
(* removeExpiredArchive() was killed.                                      *)
THEOREM ExpireAvailableIsConsistent == Spec => []AvailableIsConsistent
<1>1. ExpireInv => AvailableIsConsistent
  <2> SUFFICES ASSUME ExpireInv PROVE AvailableIsConsistent
    OBVIOUS
  <2>1. Available = Complete
    BY CompleteIsListed
  <2>2. NoIsland
    BY DEF NoIsland, ExpireInv, ChainOK
  <2> QED
    BY <2>1, <2>2 DEF AvailableIsConsistent, ExpireInv, WalOK, Needs
<1> QED
  BY <1>1, ExpireInvariant, PTL

(***************************************************************************)
(* Nothing is left behind                                                  *)
(***************************************************************************)
LEMMA SameCovered ==
  ASSUME dir' = dir, pg'.id = pg.id, p'.listed = p.listed, p'.retain = p.retain, p'.type = p.type
  PROVE  \A id, w : Covered(id, w) => Covered(id, w)'
<1>1. \A S, types : OfType(S, types)' = OfType(S, types)
  BY Zenon DEF OfType
<1>2. \A S, n, type : ArchiveRetention(S, n, type)' = ArchiveRetention(S, n, type)
  BY <1>1, Zenon DEF ArchiveRetention
<1>3. \A S, n, type, id : ArchiveRetentionBackup(S, n, type, id)' = ArchiveRetentionBackup(S, n, type, id)
  <2> TAKE S, n, type, id
  <2> DEFINE h == {b \in OfType(S, TypesOf(type)) : dir[b].id = id}
             k == h \intersect ArchiveRetention(S, n, type)
  <2>1. h' = h
    BY <1>1, Zenon
  <2>2. k' = k
    BY <1>2, <2>1, Zenon
  <2>3. ArchiveRetentionBackup(S, n, type, id) = IF k # {} THEN Oldest(k) ELSE Newest(h)
    BY DEF ArchiveRetentionBackup
  <2>4. ArchiveRetentionBackup(S, n, type, id)' = IF k' # {} THEN Oldest(k') ELSE Newest(h')
    BY DEF ArchiveRetentionBackup
  <2> HIDE DEF h, k
  <2> QED
    BY <2>1, <2>2, <2>3, <2>4
<1>4. TAKE id, w
<1> DEFINE here == {b \in OfType(p.listed, TypesOf(p.type)) : dir[b].id = id}
           b0 == ArchiveRetentionBackup(p.listed, p.retain, p.type, id)
<1>6. here' = here /\ b0' = b0
  BY <1>1, <1>3
<1>7. ArchiveRangeList(p.listed, b0)' = ArchiveRangeList(p.listed, b0)
  <2> HIDE DEF here, b0
  <2> QED
    BY <1>6, Zenon DEF ArchiveRangeList
<1>8. Covered(id, w) <=> IF here = {} THEN id = pg.id
                         ELSE dir[b0].start # None => \E r \in ArchiveRangeList(p.listed, b0) : InRange(r, w)
  BY DEF Covered
<1>9. Covered(id, w)' <=> IF here' = {} THEN id = pg'.id
                          ELSE dir'[b0'].start # None => \E r \in ArchiveRangeList(p.listed, b0)' : InRange(r, w)
  BY DEF Covered
<1> HIDE DEF here, b0
<1> QED
  BY <1>6, <1>7, <1>8, <1>9

(* A segment that arrives is at or after the start of every backup.        *)
LEMMA NewIsCovered ==
  ASSUME ExpireInv, p.pc # "idle", NEW w \in Segment, Before(Here, w)
  PROVE  Covered(pg.id, w)
<1> DEFINE here == InArchive(p.listed, p.type, pg.id)
           rb == ArchiveRetentionBackup(p.listed, p.retain, p.type, pg.id)
<1>1. p.listed \in SUBSET DOMAIN dir /\ TypeOK /\ DirOK
  BY DEF ExpireInv, ListOK
<1>2. CASE here # {} /\ dir[rb].start # None
  <2>1. rb \in here
    BY <1>1, <1>2, RetentionIn
  <2>2. rb \in p.listed /\ dir[rb].id = pg.id /\ rb \in DOMAIN dir
    BY <1>1, <2>1 DEF InArchive, OfType
  <2>3. dir[rb].start \in Segment
    BY <1>1, <1>2, <2>2 DEF TypeOK, Dir
  <2>4. Before(dir[rb].start, Here) /\ Here \in Segment
    BY <1>1, <1>2, <2>2, HereType DEF DirOK, OneOK
  <2> HIDE DEF here, rb
  <2>5. Before(dir[rb].start, w)
    BY <2>3, <2>4, BeforeTrans
  <2>6. \E r \in ArchiveRangeList(p.listed, rb) : InRange(r, w)
    BY <1>1, <1>2, <2>2, <2>5, LaterIsCovered
  <2> QED
    BY <1>2, <2>6 DEF here, rb, Covered, InArchive
<1>3. CASE here = {} \/ dir[rb].start = None
  BY <1>3 DEF Covered, InArchive
<1> QED
  BY <1>2, <1>3

LEMMA LeftNext ==
  ASSUME ExpireInv, LeftOK, [Next]_vars
  PROVE  LeftOK'
<1> USE DEF ExpireInv
<1>1. p \in Command /\ pg \in [id : Nat \ {0}, tl : Nat, seg : Nat] /\ wal \in [1 .. pg.id -> SUBSET Segment]
  BY DEF TypeOK
<1>2. ASSUME p'.pc \notin {"archive", "done"} PROVE LeftOK'
  BY <1>2 DEF LeftOK
<1>3. ASSUME UNCHANGED vars PROVE LeftOK'
  <2>1. \A id, w : Covered(id, w) => Covered(id, w)'
    BY <1>3, SameCovered DEF vars
  <2> QED
    BY <1>3, <2>1 DEF LeftOK, vars
<1>4. ASSUME ArchivePush PROVE LeftOK'
  <2>1. Push(1) /\ UNCHANGED <<dir, p>> /\ 1 \in Nat
    BY <1>4 DEF ArchivePush
  <2>2. /\ pg'.id = pg.id /\ wal'[pg.id] = wal[pg.id] \union New(1)
        /\ \A i \in 1 .. pg.id : i # pg.id => wal'[i] = wal[i]
        /\ \A w \in New(1) : w \in Segment /\ Before(Here, w)
    BY <2>1, PushStep
  <2>3. \A id, w : Covered(id, w) => Covered(id, w)'
    BY <2>1, <2>2, SameCovered
  <2>4. p.pc # "idle" => \A w \in New(1) : Covered(pg.id, w)
    BY <2>2, NewIsCovered
  <2>5. ASSUME p.pc = "archive"
        PROVE  /\ \A id \in 1 .. p.id - 1 : \A w \in wal'[id] : Covered(id, w)
               /\ \A w \in wal'[p.id] \ p.seg : Covered(p.id, w)
    <3>1. p.id \in 1 .. pg.id /\ \A id \in 1 .. p.id - 1 : id \in 1 .. pg.id /\ id # pg.id
      BY <1>1, <2>5 DEF RemoveOK
    <3>2. \A id \in 1 .. p.id - 1 : wal'[id] = wal[id]
      BY <2>2, <3>1
    <3>3. \A id \in 1 .. p.id - 1 : \A w \in wal'[id] : Covered(id, w)
      BY <2>5, <3>2 DEF LeftOK
    <3>4. \A w \in wal'[p.id] \ p.seg : Covered(p.id, w)
      <4>1. CASE p.id = pg.id
        BY <2>2, <2>4, <2>5, <4>1 DEF LeftOK
      <4>2. CASE p.id # pg.id
        BY <2>2, <2>5, <3>1, <4>2 DEF LeftOK
      <4> QED
        BY <4>1, <4>2
    <3> QED
      BY <3>3, <3>4
  <2>6. ASSUME p.pc = "done", NEW id \in 1 .. pg.id, NEW w \in wal'[id]
        PROVE  Covered(id, w)
    <3>1. CASE id = pg.id
      BY <2>2, <2>4, <2>6, <3>1 DEF LeftOK
    <3>2. CASE id # pg.id
      BY <2>2, <2>6, <3>2 DEF LeftOK
    <3> QED
      BY <3>1, <3>2
  <2> QED
    BY <2>1, <2>2, <2>3, <2>5, <2>6 DEF LeftOK
<1>5. ASSUME ArchiveStart, p' # Idle PROVE LeftOK'
  <2>1. p.pc = "dirs" /\ p.id = 1 /\ 1 \in 1 .. pg.id /\ UNCHANGED <<dir, pg, wal>>
        /\ p' = [p EXCEPT !.pc = "archive", !.seg = ToRemove(p.listed, p.retain, p.type, 1)]
    BY <1>1, <1>5 DEF ArchiveStart, RemoveOK
  <2>2. /\ p'.pc = "archive" /\ p'.id = 1 /\ p'.listed = p.listed /\ p'.retain = p.retain /\ p'.type = p.type
        /\ p'.seg = ToRemove(p.listed, p.retain, p.type, 1)
    BY <1>1, <2>1 DEF Command
  <2>3. p.listed \subseteq DOMAIN dir
    BY <2>1 DEF ListOK
  <2>4. \A w \in wal[1] \ p'.seg : Covered(1, w)
    BY <2>1, <2>2, <2>3, KeptIsCovered
  <2>5. \A id, w : Covered(id, w) => Covered(id, w)'
    BY <2>1, <2>2, SameCovered
  <2>6. 1 .. p'.id - 1 = {}
    BY <2>2
  <2> QED
    BY <2>1, <2>2, <2>4, <2>5, <2>6 DEF LeftOK
<1>6. ASSUME NextArchive PROVE LeftOK'
  <2>1. p.pc = "archive" /\ p.seg = {} /\ UNCHANGED <<dir, pg, wal>> /\ p.id \in 1 .. pg.id
    BY <1>6 DEF NextArchive, RemoveOK
  <2>2. p.listed \subseteq DOMAIN dir
    BY <2>1 DEF ListOK
  <2>3. \A id \in 1 .. p.id : \A w \in wal[id] : Covered(id, w)
    <3>1. \A id \in 1 .. p.id : id = p.id \/ id \in 1 .. p.id - 1
      BY <1>1, <2>1
    <3> QED
      BY <2>1, <3>1 DEF LeftOK
  <2>4. CASE p.id = pg.id
    <3>1. p' = [p EXCEPT !.pc = "done"]
      BY <1>6, <2>4 DEF NextArchive
    <3>2. /\ p'.pc = "done" /\ p'.listed = p.listed /\ p'.retain = p.retain /\ p'.type = p.type
      BY <1>1, <3>1 DEF Command
    <3>3. \A id, w : Covered(id, w) => Covered(id, w)'
      BY <2>1, <3>2, SameCovered
    <3> QED
      BY <2>1, <2>3, <2>4, <3>2, <3>3 DEF LeftOK
  <2>5. CASE p.id # pg.id
    <3>1. p' = [p EXCEPT !.id = @ + 1, !.seg = ToRemove(p.listed, p.retain, p.type, p.id + 1)]
      BY <1>6, <2>5 DEF NextArchive
    <3>2. /\ p'.pc = "archive" /\ p'.listed = p.listed /\ p'.retain = p.retain /\ p'.type = p.type
          /\ p'.id = p.id + 1 /\ p'.seg = ToRemove(p.listed, p.retain, p.type, p.id + 1)
      BY <1>1, <2>1, <3>1 DEF Command
    <3>3. \A id, w : Covered(id, w) => Covered(id, w)'
      BY <2>1, <3>2, SameCovered
    <3>4. p.id + 1 \in 1 .. pg.id /\ 1 .. p'.id - 1 = 1 .. p.id
      BY <1>1, <2>1, <2>5, <3>2
    <3>5. \A w \in wal[p.id + 1] \ p'.seg : Covered(p.id + 1, w)
      BY <2>2, <3>2, <3>4, KeptIsCovered
    <3> QED
      BY <2>1, <2>3, <3>2, <3>3, <3>4, <3>5 DEF LeftOK
  <2> QED
    BY <2>4, <2>5
<1>7. ASSUME NEW v \in p.seg, RemoveExpiredArchive(v) PROVE LeftOK'
  <2>1. p.pc = "archive" /\ UNCHANGED <<dir, pg>> /\ p.id \in 1 .. pg.id
        /\ wal' = [wal EXCEPT ![p.id] = @ \ {v}] /\ p' = [p EXCEPT !.seg = @ \ {v}]
    BY <1>7 DEF RemoveExpiredArchive, RemoveOK
  <2>2. /\ p'.pc = "archive" /\ p'.listed = p.listed /\ p'.retain = p.retain /\ p'.type = p.type
        /\ p'.id = p.id /\ p'.seg = p.seg \ {v}
    BY <1>1, <2>1 DEF Command
  <2>3. \A id, w : Covered(id, w) => Covered(id, w)'
    BY <2>1, <2>2, SameCovered
  <2>4. /\ wal'[p.id] = wal[p.id] \ {v}
        /\ \A id \in 1 .. p.id - 1 : id \in 1 .. pg.id /\ id # p.id /\ wal'[id] = wal[id]
    BY <1>1, <2>1
  <2> QED
    BY <2>1, <2>2, <2>3, <2>4 DEF LeftOK
<1>8. ASSUME Promote \/ StanzaUpgrade PROVE p'.pc \notin {"archive", "done"}
  BY <1>8 DEF Promote, StanzaUpgrade
<1>9. ASSUME NEW type, NEW n, NEW reached, Backup(type, n, reached) PROVE p'.pc \notin {"archive", "done"}
  BY <1>9 DEF Backup
<1>10. ASSUME \/ ExpireByCount \/ \E min \in 1 .. count + 1 : ExpireByTime(min)
              \/ ExpireOldest \/ \E b \in 1 .. count + 1 : ExpireAdhoc(b)
       PROVE  p'.pc = "manifest"
  <2>1. \A L, t, a, r, y : Begin(L, t, a, r, y) => p'.pc = "manifest"
    BY DEF Begin, Idle
  <2> QED
    BY <1>10, <2>1 DEF ExpireByCount, ExpireByTime, ExpireOldest, ExpireAdhoc
<1>11. ASSUME NEW b \in p.listed, RemoveManifest(b) \/ RemoveManifestCopy(b)
       PROVE  p'.pc = "manifest"
  BY <1>1, <1>11 DEF RemoveManifest, RemoveManifestCopy, Command
<1>12. ASSUME SaveInfo \/ SaveInfoCopy PROVE p'.pc \in {"dirs", "copy"}
  <2>1. Directories.pc = "dirs" /\ [p EXCEPT !.pc = "copy"].pc = "copy"
    BY <1>1 DEF Directories, Command
  <2> QED
    BY <1>12, <2>1 DEF SaveInfo, SaveInfoCopy
<1>13. ASSUME NEW b \in p.rm, RemoveExpiredBackup(b) PROVE p'.pc = "dirs"
  BY <1>1, <1>13 DEF RemoveExpiredBackup, Command
<1>14. ASSUME Done \/ Crash \/ p' = Idle PROVE p'.pc = "idle"
  BY <1>14 DEF Done, Crash, Idle
<1> QED
  BY <1>2, <1>3, <1>4, <1>5, <1>6, <1>7, <1>8, <1>9, <1>10, <1>11, <1>12, <1>13, <1>14 DEF Next

(* An expire that runs to its end leaves no segment outside the ranges     *)
(* that removeExpiredArchive() keeps, in no archive, although segments     *)
(* arrive meanwhile and single files are looked at in some paths only.     *)
THEOREM ExpireNothingLeftBehind == Spec => []NothingLeftBehind
<1>1. Init => LeftOK
  BY ExpireInit DEF LeftOK
<1>2. ExpireInv /\ LeftOK /\ [Next]_vars => LeftOK'
  BY LeftNext
<1>3. ExpireInv /\ LeftOK => NothingLeftBehind
  <2> SUFFICES ASSUME ExpireInv, LeftOK, p.pc = "done", NEW id \in DOMAIN wal
               PROVE  LET here == {b \in OfType(p.listed, TypesOf(p.type)) : dir[b].id = id}
                          b == ArchiveRetentionBackup(p.listed, p.retain, p.type, id)
                      IN  IF here = {} THEN id = pg.id \/ wal[id] = {}
                          ELSE dir[b].start # None =>
                                  \A w \in wal[id] : \E r \in ArchiveRangeList(p.listed, b) : InRange(r, w)
    BY DEF NothingLeftBehind
  <2>1. id \in 1 .. pg.id
    BY DEF ExpireInv, TypeOK
  <2>2. \A w \in wal[id] : Covered(id, w)
    BY <2>1 DEF LeftOK
  <2> QED
    BY <2>2 DEF Covered
<1> QED
  BY <1>1, <1>2, <1>3, ExpireInvariant, PTL DEF Spec

(***************************************************************************)
(* What is chosen to be expired                                            *)
(***************************************************************************)
Chosen(todo, adhoc) ==
  \A r \in Fulls(todo) :
    \E c \in Fulls(Complete) \ todo : c > r \/ (adhoc = r /\ dir[c].id = dir[r].id)

Ordered(todo) ==
  /\ \A r \in Fulls(todo), f \in Fulls(Complete) : f < r => f \in todo
  /\ \A r \in todo \ Fulls(todo) :
       /\ dir[r].type = "diff"
       /\ \E c \in OfType(Complete, {"full", "diff"}) \ todo : c > r /\ dir[c].prior \notin todo

Retains(todo, retain, type) ==
  \/ type = opt.type /\ retain = opt.archive
  \/ type = "full" /\ retain >= Cardinality(Fulls(Complete) \ todo)

(* The newest is never beyond retention.                                   *)
LEMMA BeyondNewest ==
  ASSUME NEW K \in Nat, NEW S \in SUBSET (1 .. K), NEW n \in Nat, NEW b \in Beyond(S, n)
  PROVE  Newest(S) \in S /\ Newest(S) > b /\ Newest(S) \notin Beyond(S, n)
<1>1. b \in S /\ n > 0 /\ Cardinality({c \in S : c > b}) >= n
  BY DEF Beyond
<1>2. Newest(S) \in S /\ \A c \in S : c <= Newest(S)
  BY <1>1, NewestIn
<1>3. \A x : {c \in S : c > x} = {} => ~(Cardinality({c \in S : c > x}) >= n)
  BY <1>1, FS_EmptySet
<1>4. {c \in S : c > Newest(S)} = {}
  <2>1. \A c \in S : c \in Nat
    BY AreNumbers
  <2>2. \A c \in S : c \in Nat /\ Newest(S) \in Nat /\ c <= Newest(S)
    BY <1>2, <2>1, Zenon
  <2>3. \A c \in S : ~(c > Newest(S))
    BY <2>2
  <2> QED
    BY <2>3, Zenon
<1>5. Newest(S) \notin Beyond(S, n)
  BY <1>3, <1>4 DEF Beyond
<1>6. PICK c \in S : c > b
  BY <1>1, <1>3
<1>7. c <= Newest(S) /\ c \in Nat /\ b \in Nat /\ Newest(S) \in Nat
  <2>1. \A x \in S : x \in Nat
    BY AreNumbers
  <2> QED
    BY <1>1, <1>2, <2>1, Zenon
<1>8. Newest(S) > b
  BY <1>6, <1>7
<1> QED
  BY <1>2, <1>5, <1>8

(* Full backups beyond retention come with all older ones, and with the    *)
(* differential ones that a newer backup outlasts.                         *)
LEMMA RootsChosen ==
  ASSUME ExpireInv, NEW roots \in SUBSET Fulls(Complete),
         \A r \in roots : \E top \in Fulls(Complete) \ roots : top > r,
         \A r \in roots, f \in Fulls(Complete) : f < r => f \in roots
  PROVE  /\ Chosen(WithDiffs(Complete, roots), None) /\ Ordered(WithDiffs(Complete, roots))
         /\ WithDiffs(Complete, roots) \in SUBSET Complete
         /\ Fulls(Complete) \ WithDiffs(Complete, roots) = Fulls(Complete) \ roots
<1> DEFINE todo == WithDiffs(Complete, roots)
           L == Complete \ Expiring(Complete, roots)
           S == OfType(L, {"full", "diff"})
           diffs == ExpireDiffBackup(L, opt.diff)
<1>1. /\ Complete \in SUBSET (1 .. count) /\ count \in Nat /\ Complete \subseteq DOMAIN dir
      /\ Complete \subseteq Nat /\ opt.diff \in Nat
  BY CompleteIsListed, OptionTypes DEF ExpireInv
<1>2. roots \subseteq Complete /\ \A r \in roots : dir[r].type = "full"
  BY DEF Fulls, OfType
<1>3. todo = roots \union diffs /\ diffs \subseteq Complete /\ \A r \in diffs : dir[r].type = "diff"
  BY DEF WithDiffs, ExpireDiffBackup, Beyond, OfType
<1>4. S \in SUBSET (1 .. count) /\ diffs \subseteq Beyond(S, opt.diff)
  BY <1>1 DEF ExpireDiffBackup, OfType
<1>5. \A r \in roots, c \in Complete : c = r \/ dir[c].prior = r => c \in Expiring(Complete, roots)
  <2> SUFFICES ASSUME NEW r \in roots, NEW c \in Complete, c = r \/ dir[c].prior = r
               PROVE  c \in Expiring(Complete, roots)
    OBVIOUS
  <2>1. r \in DependentList(Complete, r) /\ c \in DependentList(Complete, r)
    BY <1>2, DependentClosed
  <2> QED
    BY <2>1 DEF Expiring
<1>6. S \subseteq Complete /\ S \intersect Expiring(Complete, roots) = {}
      /\ \A c \in S : dir[c].type \in {"full", "diff"}
  BY DEF OfType
<1> HIDE DEF todo, L, S, diffs
<1>7. Fulls(todo) = roots
  BY <1>2, <1>3 DEF Fulls, OfType
<1>8. Fulls(Complete) \ todo = Fulls(Complete) \ roots
  BY <1>3 DEF Fulls, OfType
<1>9. ASSUME NEW r \in todo \ Fulls(todo)
      PROVE  /\ dir[r].type = "diff"
             /\ \E c \in OfType(Complete, {"full", "diff"}) \ todo : c > r /\ dir[c].prior \notin todo
  <2>1. r \in diffs /\ dir[r].type = "diff" /\ r \in Beyond(S, opt.diff)
    BY <1>3, <1>4, <1>7
  <2>2. PICK c \in S : c > r /\ c \notin Beyond(S, opt.diff)
    BY <1>1, <1>4, <2>1, BeyondNewest
  <2>3. c \in Complete /\ c \in DOMAIN dir /\ c \notin Expiring(Complete, roots) /\ dir[c].type \in {"full", "diff"}
    BY <1>1, <1>6
  <2>4. c \notin todo
    BY <1>3, <1>4, <1>5, <2>2, <2>3
  <2>5. dir[c].prior \notin roots
    BY <1>5, <2>3
  <2>6. dir[c].prior \notin diffs
    <3>1. CASE dir[c].prior = None
      BY <1>1, <1>3, <3>1, NoneNoSegment
    <3>2. CASE dir[c].prior # None
      <4>1. dir[c].prior \in Complete /\ dir[c].prior \in DOMAIN dir /\ OneOK(c)
        BY <1>1, <2>3, <3>2 DEF ExpireInv, ChainOK, DirOK
      <4>2. dir[dir[c].prior].type = "full"
        BY <2>3, <3>2, <4>1 DEF OneOK
      <4> QED
        BY <1>3, <4>2
    <3> QED
      BY <3>1, <3>2
  <2> QED
    BY <1>3, <2>1, <2>2, <2>3, <2>4, <2>5, <2>6 DEF OfType
<1>10. Chosen(todo, None)
  BY <1>7, <1>8 DEF Chosen
<1>11. Ordered(todo)
  <2>1. \A r \in Fulls(todo), f \in Fulls(Complete) : f < r => f \in todo
    BY <1>3, <1>7
  <2> QED
    BY <1>9, <2>1 DEF Ordered
<1>12. todo \in SUBSET Complete
  BY <1>2, <1>3
<1> QED
  BY <1>8, <1>10, <1>11, <1>12 DEF todo

(* Full backups beyond a number of them.                                   *)
LEMMA FullChosen ==
  ASSUME ExpireInv, NEW n \in Nat
  PROVE  LET roots == ExpireFullBackup(Complete, n)
         IN  /\ Chosen(WithDiffs(Complete, roots), None) /\ Ordered(WithDiffs(Complete, roots))
             /\ WithDiffs(Complete, roots) \in SUBSET Complete
             /\ Fulls(Complete) \ WithDiffs(Complete, roots) = Fulls(Complete) \ roots
<1> DEFINE roots == ExpireFullBackup(Complete, n)
           F == Fulls(Complete)
<1>1. F \in SUBSET (1 .. count) /\ count \in Nat
  BY CompleteIsListed DEF Fulls, OfType
<1>2. roots = Beyond(F, n) /\ roots \in SUBSET F
  BY DEF ExpireFullBackup, Beyond
<1>3. ASSUME NEW r \in roots, NEW f \in F, f < r
      PROVE  f \in roots
  <2>1. n > 0 /\ Cardinality({c \in F : c > r}) >= n
    BY <1>2 DEF Beyond
  <2>2. {c \in F : c > r} \subseteq {c \in F : c > f}
    BY <1>1, <1>2, <1>3
  <2>3. {c \in F : c > f} \in SUBSET (1 .. count)
    BY <1>1
  <2>4. /\ Cardinality({c \in F : c > f}) \in Nat /\ Cardinality({c \in F : c > r}) \in Nat
        /\ Cardinality({c \in F : c > r}) <= Cardinality({c \in F : c > f})
    BY <1>1, <2>2, <2>3, FiniteBackups
  <2> HIDE DEF F
  <2>5. Cardinality({c \in F : c > f}) >= n
    BY <2>1, <2>4
  <2> QED
    BY <1>2, <2>1, <2>5 DEF Beyond
<1> HIDE DEF roots, F
<1>4. \A r \in roots : \E top \in F \ roots : top > r
  <2> SUFFICES ASSUME NEW r \in roots PROVE \E top \in F \ roots : top > r
    OBVIOUS
  <2>1. Newest(F) \in F /\ Newest(F) > r /\ Newest(F) \notin roots
    BY <1>1, <1>2, BeyondNewest
  <2> QED
    BY <2>1
<1>5. QED
  BY <1>2, <1>3, <1>4, RootsChosen DEF roots, F

(* Everything before the newest full backup that was complete in time.     *)
LEMMA TimeChosen ==
  ASSUME ExpireInv, NEW min
  PROVE  LET roots == ExpireTimeBasedBackup(Complete, min)
         IN  /\ Chosen(WithDiffs(Complete, roots), None) /\ Ordered(WithDiffs(Complete, roots))
             /\ WithDiffs(Complete, roots) \in SUBSET Complete
             /\ Fulls(Complete) \ WithDiffs(Complete, roots) = Fulls(Complete) \ roots
<1> DEFINE roots == ExpireTimeBasedBackup(Complete, min)
           F == Fulls(Complete)
           M == RetentionMet(Complete, min)
<1>1. F \in SUBSET (1 .. count) /\ count \in Nat
  BY CompleteIsListed DEF Fulls, OfType
<1>2. roots = {b \in F : \E c \in M : b < c} /\ M \subseteq F /\ roots \in SUBSET F
  BY DEF ExpireTimeBasedBackup, RetentionMet
<1>3. M \in SUBSET (1 .. count)
  BY <1>1, <1>2
<1> HIDE DEF roots, M, F
<1>4. \A r \in roots : \E top \in F \ roots : top > r
  <2> SUFFICES ASSUME NEW r \in roots PROVE \E top \in F \ roots : top > r
    OBVIOUS
  <2>1. PICK c \in M : r < c
    BY <1>2
  <2>2. Newest(M) \in M /\ \A d \in M : d <= Newest(M)
    BY <1>1, <1>3, <2>1, NewestIn
  <2>3. r \in Nat /\ c \in Nat /\ Newest(M) \in Nat /\ \A d \in M : d \in Nat
    <3>1. (\A x \in F : x \in Nat) /\ \A x \in M : x \in Nat
      BY <1>1, <1>3, AreNumbers
    <3>2. r \in F
      BY <1>2
    <3> QED
      BY <2>1, <2>2, <3>1, <3>2, Zenon
  <2>4. Newest(M) > r /\ Newest(M) \in F /\ Newest(M) \notin roots
    BY <1>2, <2>1, <2>2, <2>3
  <2> QED
    BY <2>4
<1>5. \A r \in roots, f \in F : f < r => f \in roots
  <2> SUFFICES ASSUME NEW r \in roots, NEW f \in F, f < r PROVE f \in roots
    OBVIOUS
  <2>1. PICK c \in M : r < c
    BY <1>2
  <2>2. r \in Nat /\ c \in Nat /\ f \in Nat
    BY <1>1, <1>2, <1>3
  <2>3. f < c
    BY <2>1, <2>2
  <2> QED
    BY <1>2, <2>3
<1>6. QED
  BY <1>2, <1>4, <1>5, RootsChosen DEF F, roots

(* What an expire begins with.                                             *)
LEMMA BeginChosen ==
  ASSUME ExpireInv,
         \/ ExpireByCount \/ \E min \in 1 .. count + 1 : ExpireByTime(min)
         \/ ExpireOldest \/ \E b \in 1 .. count + 1 : ExpireAdhoc(b)
  PROVE  \E todo \in SUBSET Complete : \E adhoc, retain, type :
           /\ Begin(Complete, todo, adhoc, retain, type) /\ Chosen(todo, adhoc)
           /\ ~opt.adhoc => adhoc = None /\ Ordered(todo) /\ Retains(todo, retain, type)
<1>1. Available = Complete /\ Complete \in SUBSET (1 .. count) /\ count \in Nat /\ Complete \subseteq Nat
  BY CompleteIsListed
<1>2. opt.full \in Nat
  BY OptionTypes DEF ExpireInv
<1>3. CASE ExpireByCount
  <2> DEFINE todo == WithDiffs(Complete, ExpireFullBackup(Complete, opt.full))
  <2>1. Begin(Complete, todo, None, opt.archive, opt.type)
    BY <1>1, <1>3 DEF ExpireByCount
  <2>2. Chosen(todo, None) /\ Ordered(todo) /\ todo \in SUBSET Complete
    BY <1>2, FullChosen
  <2>3. Retains(todo, opt.archive, opt.type)
    BY DEF Retains
  <2> HIDE DEF todo
  <2> QED
    BY <2>1, <2>2, <2>3
<1>4. ASSUME NEW min \in 1 .. count + 1, ExpireByTime(min)
      PROVE  \E todo \in SUBSET Complete : \E adhoc, retain, type :
               /\ Begin(Complete, todo, adhoc, retain, type) /\ Chosen(todo, adhoc)
               /\ ~opt.adhoc => adhoc = None /\ Ordered(todo) /\ Retains(todo, retain, type)
  <2> DEFINE roots == ExpireTimeBasedBackup(Complete, min)
             todo == WithDiffs(Complete, roots)
             left == Cardinality(Fulls(Complete) \ roots)
             unset == RetentionMet(Complete, min) # {} /\ opt.type = "full" /\ opt.archive = 0
             retain == IF unset THEN left ELSE opt.archive
  <2>1. Begin(Complete, todo, None, retain, opt.type)
    BY <1>1, <1>4 DEF ExpireByTime
  <2>2. Chosen(todo, None) /\ Ordered(todo) /\ todo \in SUBSET Complete
        /\ Fulls(Complete) \ todo = Fulls(Complete) \ roots
    BY TimeChosen
  <2>3. left \in Nat
    <3>1. Fulls(Complete) \ roots \in SUBSET (1 .. count)
      BY <1>1 DEF Fulls, OfType
    <3> HIDE DEF roots
    <3> QED
      BY <1>1, <3>1, FiniteBackups
  <2>4. left = Cardinality(Fulls(Complete) \ todo)
    BY <2>2
  <2>5. Retains(todo, retain, opt.type)
    <3>1. unset => opt.type = "full"
      OBVIOUS
    <3> HIDE DEF todo, left, unset
    <3>2. unset => retain = left /\ retain >= Cardinality(Fulls(Complete) \ todo)
      BY <2>3, <2>4
    <3>3. ~unset => retain = opt.archive
      OBVIOUS
    <3> HIDE DEF retain
    <3> QED
      BY <3>1, <3>2, <3>3 DEF Retains
  <2> HIDE DEF todo, retain
  <2> QED
    BY <2>1, <2>2, <2>5
<1>5. CASE ExpireOldest
  <2> DEFINE F == Fulls(Complete)
             n == Cardinality(F)
             roots == ExpireFullBackup(Complete, n - 1)
             todo == WithDiffs(Complete, roots)
  <2>1. n > 1 /\ Begin(Complete, todo, None, n - 1, "full")
    BY <1>1, <1>5 DEF ExpireOldest
  <2>2. F \in SUBSET (1 .. count) /\ F \in SUBSET Nat
    BY <1>1 DEF Fulls, OfType
  <2>3. n \in Nat /\ IsFiniteSet(F)
    <3> HIDE DEF F
    <3> QED
      BY <1>1, <2>2, FiniteBackups
  <2>4. n - 1 \in Nat
    <3> HIDE DEF n
    <3> QED
      BY <2>1, <2>3
  <2>5. Chosen(todo, None) /\ Ordered(todo) /\ todo \in SUBSET Complete /\ F \ todo = F \ roots
    BY <2>4, FullChosen
  <2>6. Retains(todo, n - 1, "full")
    <3>1. F # {}
      <4>1. F = {} => n = 0
        BY FS_EmptySet
      <4> HIDE DEF F, n
      <4> QED
        BY <2>1, <2>3, <4>1
    <3> HIDE DEF F
    <3>2. PICK f \in F : \A c \in F : f <= c
      BY <2>2, <3>1, FirstIn
    <3>3. {c \in F : c > f} = F \ {f}
      <4>1. \A c \in F : c \in Nat
        BY <2>2
      <4>2. \A c \in F : c > f <=> c # f
        BY <3>2, <4>1
      <4> QED
        BY <4>2, Zenon
    <3>4. IsFiniteSet(F \ {f}) /\ Cardinality(F \ {f}) = n - 1
      BY <2>3, FS_RemoveElement
    <3>5. f \in roots
      <4>1. Cardinality({c \in F : c > f}) = n - 1
        BY <3>3, <3>4
      <4> HIDE DEF n
      <4>2. n - 1 > 0 /\ Cardinality({c \in F : c > f}) >= n - 1
        BY <2>1, <2>3, <4>1
      <4> QED
        BY <4>2 DEF roots, ExpireFullBackup, Beyond, F, n
    <3>6. F \ roots \in SUBSET (F \ {f})
      BY <3>5
    <3>7. Cardinality(F \ roots) <= n - 1 /\ Cardinality(F \ roots) \in Nat
      <4>1. F \ {f} \in SUBSET (1 .. count)
        BY <2>2
      <4> HIDE DEF roots, n
      <4> QED
        BY <1>1, <3>4, <3>6, <4>1, FiniteBackups
    <3> HIDE DEF n, roots, todo
    <3>8. n - 1 >= Cardinality(F \ todo)
      BY <2>3, <2>5, <3>7
    <3> QED
      BY <3>8 DEF Retains, F
  <2> HIDE DEF todo, n
  <2> QED
    BY <2>1, <2>5, <2>6
<1>6. ASSUME NEW b \in 1 .. count + 1, ExpireAdhoc(b)
      PROVE  \E todo \in SUBSET Complete : \E adhoc, retain, type :
               /\ Begin(Complete, todo, adhoc, retain, type) /\ Chosen(todo, adhoc)
               /\ ~opt.adhoc => adhoc = None /\ Ordered(todo) /\ Retains(todo, retain, type)
  <2>0. CASE Begin(Complete, {}, b, opt.archive, opt.type)
    <3>1. Chosen({}, b) /\ {} \in SUBSET Complete
      BY DEF Chosen, Fulls, OfType
    <3>2. opt.adhoc
      BY <1>6 DEF ExpireAdhoc
    <3> QED
      BY <2>0, <3>1, <3>2
  <2> SUFFICES ASSUME ~Begin(Complete, {}, b, opt.archive, opt.type)
               PROVE  \E todo \in SUBSET Complete : \E adhoc, retain, type :
                        /\ Begin(Complete, todo, adhoc, retain, type) /\ Chosen(todo, adhoc)
                        /\ ~opt.adhoc => adhoc = None /\ Ordered(todo) /\ Retains(todo, retain, type)
    BY <2>0
  <2>1. Begin(Complete, {b}, b, opt.archive, opt.type) /\ {b} \in SUBSET Complete /\ opt.adhoc
        /\ AdhocAllowed(Complete, b)
    BY <1>1, <1>6 DEF ExpireAdhoc
  <2>2. Chosen({b}, b)
    <3> SUFFICES ASSUME dir[b].type = "full"
                 PROVE  \E c \in Fulls(Complete) \ {b} : c > b \/ dir[c].id = dir[b].id
      BY DEF Chosen, Fulls, OfType
    <3> DEFINE F == Fulls(Complete)
    <3>1. F \in SUBSET (1 .. count) /\ F \ {b} \in SUBSET (1 .. count) /\ b \in F /\ b \in Nat
      BY <1>1, <2>1 DEF Fulls, OfType
    <3>2. b = Newest(F) => F \ {b} # {} /\ dir[Newest(F \ {b})].id = dir[b].id
      BY <2>1 DEF AdhocAllowed
    <3> HIDE DEF F
    <3>3. Newest(F) \in F /\ \A c \in F : c <= Newest(F)
      BY <1>1, <3>1, NewestIn
    <3>4. F \ {b} # {} => Newest(F \ {b}) \in F \ {b}
      BY <1>1, <3>1, NewestIn
    <3>5. CASE b = Newest(F)
      BY <3>2, <3>4, <3>5 DEF F
    <3>6. CASE b # Newest(F)
      <4>1. Newest(F) \in Nat /\ b <= Newest(F)
        <5>1. \A x \in F : x \in Nat
          BY <1>1, <3>1, AreNumbers
        <5> QED
          BY <3>1, <3>3, <5>1, Zenon
      <4>2. Newest(F) > b
        BY <3>1, <3>6, <4>1
      <4> QED
        BY <3>3, <3>6, <4>2 DEF F
    <3> QED
      BY <3>5, <3>6
  <2> QED
    BY <2>1, <2>2
<1> QED
  BY <1>3, <1>4, <1>5, <1>6

(***************************************************************************)
(* The newest full backup is kept                                          *)
(***************************************************************************)
(* A full backup is expired as a root.                                     *)
LEMMA FullIsRoot ==
  ASSUME ExpireInv, p.pc = "manifest", NEW b, ExpireBackup(b), dir[b].type = "full"
  PROVE  b \in p.todo /\ \A s \in p.todo : Sooner(b, s)
<1>1. PICK r \in p.todo : (\A s \in p.todo : Sooner(r, s)) /\ b \in DependentList(p.listed, r)
  BY DEF ExpireBackup
<1>2. r \in p.listed /\ p.listed \in SUBSET DOMAIN dir
  BY DEF ExpireInv, ListOK
<1>3. b = r
  BY <1>1, <1>2, DependentKind DEF ExpireInv
<1> QED
  BY <1>1, <1>3

LEMMA OnlyManifest ==
  ASSUME ExpireInv, [Next]_vars, ~(Complete \subseteq Complete')
  PROVE  \E b \in p.listed : RemoveManifest(b)
<1>1. dir' # dir
  BY DEF Complete
<1>2. ASSUME NEW type \in {"full", "diff", "incr"}, NEW n \in Segments, NEW reached \in {"copy", "main", "info"},
             Backup(type, n, reached)
      PROVE  Complete \subseteq Complete'
  <2>1. type \in Type /\ n \in Nat
    BY ExpireAssumption DEF Type
  <2>2. Added(count + 1, n)
    BY <1>2, <2>1, BackupStep
  <2> QED
    BY <2>1, <2>2, AddedComplete DEF ExpireInv
<1>3. ASSUME NEW b \in p.listed, RemoveManifestCopy(b)
      PROVE  Complete \subseteq Complete'
  <2>1. dir' = [dir EXCEPT ![b].copy = FALSE] /\ UNCHANGED <<opt, pg, pushed, count>> /\ b \in DOMAIN dir
    BY <1>3 DEF RemoveManifestCopy, ExpireInv, ListOK
  <2> QED
    BY <2>1, ManifestStep DEF ExpireInv
<1>4. ASSUME NEW b \in p.rm, RemoveExpiredBackup(b)
      PROVE  Complete \subseteq Complete'
  <2>1. p.pc = "dirs" /\ dir' = [c \in DOMAIN dir \ {b} |-> dir[c]]
    BY <1>4 DEF RemoveExpiredBackup
  <2>2. b \notin Complete
    BY <2>1 DEF ExpireInv, ListOK, RemoveOK
  <2> QED
    BY <2>1, <2>2 DEF Complete
<1>5. ASSUME \/ UNCHANGED vars \/ ArchivePush \/ Promote \/ StanzaUpgrade \/ SaveInfo \/ SaveInfoCopy
             \/ ArchiveStart \/ (\E w \in p.seg : RemoveExpiredArchive(w)) \/ NextArchive \/ Done \/ Crash
      PROVE  dir' = dir
  BY <1>5 DEF vars, ArchivePush, Promote, StanzaUpgrade, SaveInfo, SaveInfoCopy, ArchiveStart,
              RemoveExpiredArchive, NextArchive, Done, Crash
<1>6. ASSUME \/ ExpireByCount \/ \E min \in 1 .. count + 1 : ExpireByTime(min)
             \/ ExpireOldest \/ \E b \in 1 .. count + 1 : ExpireAdhoc(b)
      PROVE  dir' = dir
  BY <1>6, BeginChosen DEF Begin
<1> QED
  BY <1>1, <1>2, <1>3, <1>4, <1>5, <1>6 DEF Next

(* The steps after which manifests are being removed.                      *)
LEMMA ManifestSteps ==
  ASSUME ExpireInv, [Next]_vars, p'.pc = "manifest"
  PROVE  \/ dir' = dir /\ p' = p /\ opt' = opt /\ pg'.id = pg.id
         \/ ExpireByCount \/ \E min \in 1 .. count + 1 : ExpireByTime(min)
         \/ ExpireOldest \/ \E b \in 1 .. count + 1 : ExpireAdhoc(b)
         \/ \E b \in p.listed : RemoveManifest(b) \/ RemoveManifestCopy(b)
<1>1. p \in Command /\ pg \in [id : Nat \ {0}, tl : Nat, seg : Nat]
  BY DEF ExpireInv, TypeOK
<1>2. CASE ArchivePush
  <2>1. dir' = dir /\ p' = p /\ opt' = opt /\ pg' = [pg EXCEPT !.seg = @ + 1]
    BY <1>2 DEF ArchivePush, Push
  <2> QED
    BY <1>1, <2>1
<1>3. CASE UNCHANGED vars
  BY <1>3 DEF vars
<1>4. ASSUME NEW type, NEW n, NEW reached, Backup(type, n, reached) PROVE FALSE
  BY <1>4 DEF Backup
<1>5. ASSUME Promote \/ StanzaUpgrade PROVE FALSE
  BY <1>5 DEF Promote, StanzaUpgrade
<1>6. ASSUME SaveInfo \/ SaveInfoCopy PROVE FALSE
  <2>1. Directories.pc = "dirs" /\ [p EXCEPT !.pc = "copy"].pc = "copy"
    BY <1>1 DEF Directories, Command
  <2> QED
    BY <1>6, <2>1 DEF SaveInfo, SaveInfoCopy
<1>7. ASSUME NEW b \in p.rm, RemoveExpiredBackup(b) PROVE FALSE
  <2>1. p.pc = "dirs" /\ p' = [p EXCEPT !.rm = @ \ {b}]
    BY <1>7 DEF RemoveExpiredBackup
  <2> QED
    BY <1>1, <2>1 DEF Command
<1>8. ASSUME ArchiveStart \/ NextArchive \/ Done \/ Crash PROVE FALSE
  <2>1. Idle.pc = "idle"
    BY DEF Idle
  <2>2. /\ \A s : [p EXCEPT !.pc = "archive", !.seg = s].pc = "archive"
        /\ [p EXCEPT !.pc = "done"].pc = "done"
        /\ \A i, s : [p EXCEPT !.id = i, !.seg = s].pc = p.pc
    BY <1>1 DEF Command
  <2>3. CASE Done \/ Crash
    BY <2>1, <2>3 DEF Done, Crash
  <2>4. CASE ArchiveStart
    BY <2>1, <2>2, <2>4 DEF ArchiveStart
  <2>5. CASE NextArchive
    BY <1>1, <2>2, <2>5 DEF NextArchive
  <2> QED
    BY <1>8, <2>3, <2>4, <2>5
<1>9. ASSUME NEW w \in p.seg, RemoveExpiredArchive(w) PROVE FALSE
  <2>1. p.pc = "archive" /\ p' = [p EXCEPT !.seg = @ \ {w}]
    BY <1>9 DEF RemoveExpiredArchive
  <2> QED
    BY <1>1, <2>1 DEF Command
<1> QED
  BY <1>2, <1>3, <1>4, <1>5, <1>6, <1>7, <1>8, <1>9 DEF Next

LEMMA BeginState ==
  ASSUME NEW L, NEW todo, NEW adhoc, NEW retain, NEW type, Begin(L, todo, adhoc, retain, type)
  PROVE  /\ p'.pc = "manifest" /\ p'.listed = L /\ p'.todo = todo /\ p'.adhoc = adhoc
         /\ p'.retain = retain /\ p'.type = type
         /\ UNCHANGED <<opt, pg, wal, pushed, dir, count>>
BY DEF Begin, Idle

LEMMA FullNext ==
  ASSUME ExpireInv, FullOK, [Next]_vars
  PROVE  FullOK'
<1>1. SUFFICES ASSUME p'.pc = "manifest", NEW r \in p'.todo, dir'[r].type = "full"
               PROVE  \E c \in DOMAIN dir' : Spares(r, c)'
  BY DEF FullOK, Fulls, OfType
<1>2. CASE dir' = dir /\ p' = p
  <2>1. PICK c \in DOMAIN dir : Spares(r, c)
    BY <1>1, <1>2 DEF FullOK, Fulls, OfType
  <2> QED
    BY <1>2, <2>1 DEF Spares, Fulls, OfType, Complete
<1>3. CASE \/ ExpireByCount \/ \E min \in 1 .. count + 1 : ExpireByTime(min)
           \/ ExpireOldest \/ \E b \in 1 .. count + 1 : ExpireAdhoc(b)
  <2>1. PICK todo, adhoc, retain, type :
          todo \in SUBSET Complete /\ Begin(Complete, todo, adhoc, retain, type) /\ Chosen(todo, adhoc)
    BY <1>3, BeginChosen
  <2>2. p'.todo = todo /\ p'.adhoc = adhoc /\ dir' = dir
    BY <2>1, BeginState
  <2>3. PICK c \in Fulls(Complete) \ todo : c > r \/ (adhoc = r /\ dir[c].id = dir[r].id)
    BY <1>1, <2>1, <2>2 DEF Chosen, Fulls, OfType
  <2> QED
    BY <2>2, <2>3 DEF Spares, Fulls, OfType, Complete
<1>4. ASSUME NEW b \in p.listed, RemoveManifest(b) \/ RemoveManifestCopy(b)
      PROVE  \E c \in DOMAIN dir' : Spares(r, c)'
  <2>1. /\ p.pc = "manifest" /\ ExpireBackup(b) /\ UNCHANGED <<opt, pg, pushed, count>> /\ b \in DOMAIN dir
        /\ p.todo \subseteq DOMAIN dir
    BY <1>4 DEF RemoveManifest, RemoveManifestCopy, ExpireInv, ListOK
  <2>2. p'.todo \subseteq p.todo /\ p'.adhoc = p.adhoc
    <3>1. p \in Command
      BY DEF ExpireInv, TypeOK
    <3>2. p' = p \/ p' = [p EXCEPT !.todo = @ \ {b}, !.listed = @ \ {b}]
      BY <1>4 DEF RemoveManifest, RemoveManifestCopy
    <3> QED
      BY <3>1, <3>2 DEF Command
  <2>3. Fewer /\ DOMAIN dir' = DOMAIN dir /\ Complete \ {b} \subseteq Complete'
        /\ (RemoveManifestCopy(b) => Complete' = Complete)
    BY <1>4, <2>1, ManifestStep DEF RemoveManifest, RemoveManifestCopy, ExpireInv
  <2>4. r \in p.todo /\ r \in DOMAIN dir /\ dir[r].type = "full"
    BY <1>1, <2>1, <2>2, <2>3 DEF Fewer
  <2>5. PICK c \in DOMAIN dir : Spares(r, c)
    BY <2>1, <2>4 DEF FullOK, Fulls, OfType
  <2>6. c \in Complete /\ dir[c].type = "full" /\ c \notin p.todo
    BY <2>5 DEF Spares, Fulls, OfType
  <2>7. c # b \/ RemoveManifestCopy(b)
    BY <2>1, <2>6, FullIsRoot
  <2>8. c \in Complete'
    BY <2>3, <2>6, <2>7
  <2>9. dir'[c].type = "full" /\ dir'[c].id = dir[c].id /\ dir'[r].id = dir[r].id
    BY <2>3, <2>4, <2>6 DEF Fewer
  <2>10. c > r \/ (p.adhoc = r /\ dir[c].id = dir[r].id)
    BY <2>5 DEF Spares
  <2> QED
    BY <2>2, <2>3, <2>6, <2>8, <2>9, <2>10 DEF Spares, Fulls, OfType
<1> QED
  BY <1>1, <1>2, <1>3, <1>4, ManifestSteps

(* expireFullBackup(), expireTimeBasedBackup(), --oldest and --set never    *)
(* expire the newest full backup, unless it is named and another of its     *)
(* cluster stays: whenever the manifest of a full backup goes, the one that *)
(* replaces it is complete and stays complete in that step.                 *)
THEOREM ExpireNewestFullKept == Spec => NewestFullKept
<1>1. Init => FullOK
  BY ExpireInit DEF FullOK
<1>2. ExpireInv /\ FullOK /\ [Next]_vars => FullOK'
  BY FullNext
<1>3. ASSUME ExpireInv, FullOK, [Next]_vars
      PROVE  [\A b \in Complete \ {c \in DOMAIN dir' : dir'[c].main} :
                dir[b].type = "full" =>
                  \E c \in Fulls(Complete) \ {b} :
                    /\ dir'[c].main
                    /\ c > b \/ (p.adhoc = b /\ dir[c].id = dir[b].id)]_vars
  <2> SUFFICES ASSUME NEW b \in Complete, b \notin Complete', dir[b].type = "full"
               PROVE  \E c \in Fulls(Complete) \ {b} :
                        /\ dir'[c].main
                        /\ c > b \/ (p.adhoc = b /\ dir[c].id = dir[b].id)
    BY DEF Complete
  <2>1. PICK d \in p.listed : RemoveManifest(d)
    BY <1>3, OnlyManifest
  <2>2. /\ p.pc = "manifest" /\ ExpireBackup(d) /\ UNCHANGED <<opt, pg, pushed, count>> /\ d \in DOMAIN dir
        /\ dir' = [dir EXCEPT ![d].main = FALSE]
    BY <1>3, <2>1 DEF RemoveManifest, ExpireInv, ListOK
  <2>3. Complete' = Complete \ {d}
    BY <1>3, <2>2, ManifestStep DEF ExpireInv
  <2>4. b = d
    BY <2>3
  <2>5. b \in p.todo
    BY <1>3, <2>2, <2>4, FullIsRoot
  <2>6. PICK c \in DOMAIN dir : Spares(b, c)
    BY <1>3, <2>2, <2>5 DEF FullOK, Fulls, OfType
  <2>7. c \in Fulls(Complete) /\ c \in Complete /\ c # b
    BY <2>5, <2>6 DEF Spares, Fulls, OfType
  <2>8. dir'[c].main
    BY <2>3, <2>4, <2>7 DEF Complete
  <2> QED
    BY <2>6, <2>7, <2>8 DEF Spares
<1> QED
  BY <1>1, <1>2, <1>3, ExpireInvariant, PTL DEF Spec, NewestFullKept

(***************************************************************************)
(* Point-in-time recovery: the order in which backups go                   *)
(***************************************************************************)
LEMMA RemovesOne ==
  ASSUME ExpireInv, NEW b \in p.listed, RemoveManifest(b) \/ RemoveManifestCopy(b)
  PROVE  /\ p.pc = "manifest" /\ ExpireBackup(b) /\ b \in DOMAIN dir
         /\ UNCHANGED <<opt, pg, wal, pushed, count>>
         /\ Fewer /\ DOMAIN dir' = DOMAIN dir
         /\ p.todo \subseteq p.listed /\ p.listed \subseteq DOMAIN dir
         /\ p'.pc = p.pc /\ p'.adhoc = p.adhoc /\ p'.retain = p.retain /\ p'.type = p.type
         /\ RemoveManifest(b) => Complete' = Complete \ {b} /\ p' = p
         /\ RemoveManifestCopy(b) =>
              /\ Complete' = Complete /\ b \notin Complete
              /\ p'.todo = p.todo \ {b} /\ p'.listed = p.listed \ {b}
<1>1. /\ p.pc = "manifest" /\ ExpireBackup(b) /\ b \in DOMAIN dir /\ UNCHANGED <<opt, pg, wal, pushed, count>>
      /\ p.todo \subseteq p.listed /\ p.listed \subseteq DOMAIN dir
  BY DEF RemoveManifest, RemoveManifestCopy, ExpireInv, ListOK
<1>2. p \in Command
  BY DEF ExpireInv, TypeOK
<1>3. CASE RemoveManifest(b)
  <2>1. dir' = [dir EXCEPT ![b].main = FALSE] /\ p' = p /\ b \in Complete
    BY <1>1, <1>3 DEF RemoveManifest, Complete
  <2>2. Fewer /\ DOMAIN dir' = DOMAIN dir /\ Complete' = Complete \ {b}
    BY <1>1, <2>1, ManifestStep DEF ExpireInv
  <2>3. ~RemoveManifestCopy(b)
    BY <1>3 DEF RemoveManifest, RemoveManifestCopy
  <2> QED
    BY <1>1, <2>1, <2>2, <2>3
<1>4. CASE RemoveManifestCopy(b)
  <2>1. /\ dir' = [dir EXCEPT ![b].copy = FALSE] /\ p' = [p EXCEPT !.todo = @ \ {b}, !.listed = @ \ {b}]
        /\ b \notin Complete
    BY <1>4 DEF RemoveManifestCopy, Complete
  <2>2. Fewer /\ DOMAIN dir' = DOMAIN dir /\ Complete' = Complete
    BY <1>1, <2>1, ManifestStep DEF ExpireInv
  <2>3. ~RemoveManifest(b)
    BY <1>4 DEF RemoveManifest, RemoveManifestCopy
  <2>4. /\ p'.pc = p.pc /\ p'.adhoc = p.adhoc /\ p'.retain = p.retain /\ p'.type = p.type
        /\ p'.todo = p.todo \ {b} /\ p'.listed = p.listed \ {b}
    BY <1>2, <2>1 DEF Command
  <2> QED
    BY <1>1, <2>1, <2>2, <2>3, <2>4
<1> QED
  BY <1>3, <1>4

(* A backup that outlasts a differential one does not go before it.        *)
LEMMA OutlastsStays ==
  ASSUME ExpireInv, p.pc = "manifest", NEW b, ExpireBackup(b), NEW r, NEW c, Outlasts(r, c)
  PROVE  c # b
<1>1. SUFFICES ASSUME c = b PROVE FALSE
  OBVIOUS
<1>2. PICK s \in p.todo : b \in DependentList(p.listed, s)
  BY DEF ExpireBackup
<1>3. s \in p.listed /\ p.listed \in SUBSET DOMAIN dir /\ TypeOK /\ DirOK
  BY DEF ExpireInv, ListOK
<1>4. c \in Complete /\ dir[c].type \in {"full", "diff"} /\ c \notin p.todo /\ dir[c].prior \notin p.todo
  BY DEF Outlasts, OfType
<1>5. c # s /\ c \in DependentList(p.listed, s) /\ c \in DOMAIN dir
  BY <1>1, <1>2, <1>4 DEF Complete
<1>6. dir[c].type = "diff"
  BY <1>3, <1>4, <1>5, DependentKind
<1>7. dir[c].prior \in DependentList(p.listed, s)
  BY <1>3, <1>5, DependentPrior
<1>8. dir[c].prior \in DOMAIN dir
  BY <1>3, <1>7, DependentClosed
<1>9. dir[dir[c].prior].type = "full"
  BY <1>3, <1>5, <1>6, <1>8 DEF DirOK, OneOK
<1>10. dir[c].prior = s
  BY <1>3, <1>7, <1>9, DependentKind
<1> QED
  BY <1>4, <1>10

LEMMA OrderNext ==
  ASSUME ExpireInv, OrderOK, ~opt.adhoc, [Next]_vars
  PROVE  OrderOK'
<1>1. SUFFICES ASSUME p'.pc = "manifest"
               PROVE  /\ \A r \in Fulls(p.todo)', f \in Fulls(Complete)' : f < r => f \in p'.todo
                      /\ \A r \in p'.todo \ Fulls(p.todo)' :
                           dir'[r].type = "diff" /\ \E c \in DOMAIN dir' : Outlasts(r, c)'
  BY DEF OrderOK
<1>2. CASE dir' = dir /\ p' = p
  BY <1>1, <1>2 DEF OrderOK, Outlasts, Fulls, OfType, Complete
<1>3. CASE \/ ExpireByCount \/ \E min \in 1 .. count + 1 : ExpireByTime(min)
           \/ ExpireOldest \/ \E b \in 1 .. count + 1 : ExpireAdhoc(b)
  <2>1. PICK todo, adhoc, retain, type :
          todo \in SUBSET Complete /\ Begin(Complete, todo, adhoc, retain, type) /\ Ordered(todo)
    BY <1>3, BeginChosen
  <2>2. p'.todo = todo /\ dir' = dir /\ Complete' = Complete
    BY <2>1, BeginState DEF Complete
  <2>3. Fulls(p.todo)' = Fulls(todo) /\ Fulls(Complete)' = Fulls(Complete)
    BY <2>2 DEF Fulls, OfType
  <2>4. \A r \in Fulls(todo), f \in Fulls(Complete) : f < r => f \in todo
    BY <2>1 DEF Ordered
  <2>5. ASSUME NEW r \in todo \ Fulls(todo)
        PROVE  dir'[r].type = "diff" /\ \E c \in DOMAIN dir' : Outlasts(r, c)'
    <3>1. PICK c \in OfType(Complete, {"full", "diff"}) \ todo : c > r /\ dir[c].prior \notin todo
      BY <2>1 DEF Ordered
    <3>2. c \in DOMAIN dir'
      BY <2>2, <3>1 DEF OfType, Complete
    <3>3. Outlasts(r, c)'
      BY <2>2, <3>1 DEF Outlasts, OfType
    <3> QED
      BY <2>1, <2>2, <3>2, <3>3 DEF Ordered
  <2> QED
    BY <2>2, <2>3, <2>4, <2>5
<1>4. ASSUME NEW b \in p.listed, RemoveManifest(b) \/ RemoveManifestCopy(b)
      PROVE  /\ \A r \in Fulls(p.todo)', f \in Fulls(Complete)' : f < r => f \in p'.todo
             /\ \A r \in p'.todo \ Fulls(p.todo)' :
                  dir'[r].type = "diff" /\ \E c \in DOMAIN dir' : Outlasts(r, c)'
  <2>1. /\ p.pc = "manifest" /\ ExpireBackup(b) /\ Fewer /\ DOMAIN dir' = DOMAIN dir
        /\ p.todo \subseteq DOMAIN dir
        /\ RemoveManifest(b) => Complete' = Complete \ {b} /\ p' = p
        /\ RemoveManifestCopy(b) => Complete' = Complete /\ b \notin Complete /\ p'.todo = p.todo \ {b}
    BY <1>4, RemovesOne
  <2>2. p'.todo \subseteq p.todo /\ p.todo \subseteq p'.todo \union {b} /\ Complete' \subseteq Complete
        /\ Complete \subseteq Complete' \union {b} /\ b \notin Complete'
    BY <1>4, <2>1
  <2>3. \A c \in DOMAIN dir : dir'[c].type = dir[c].type /\ dir'[c].prior = dir[c].prior
    BY <2>1 DEF Fewer
  <2>4. Fulls(p.todo)' = {r \in p'.todo : dir[r].type = "full"}
    BY <2>1, <2>2, <2>3 DEF Fulls, OfType
  <2>5. Fulls(Complete)' = {r \in Complete' : dir[r].type = "full"}
    BY <2>1, <2>2, <2>3 DEF Fulls, OfType, Complete
  <2>6. ASSUME NEW r \in Fulls(p.todo)', NEW f \in Fulls(Complete)', f < r
        PROVE  f \in p'.todo
    <3>1. r \in Fulls(p.todo) /\ f \in Fulls(Complete) /\ f # b
      BY <2>2, <2>4, <2>5 DEF Fulls, OfType
    <3>2. f \in p.todo
      BY <2>1, <2>6, <3>1 DEF OrderOK
    <3> QED
      BY <2>2, <3>1, <3>2
  <2>7. ASSUME NEW r \in p'.todo \ Fulls(p.todo)'
        PROVE  dir'[r].type = "diff" /\ \E c \in DOMAIN dir' : Outlasts(r, c)'
    <3>1. r \in p.todo \ Fulls(p.todo) /\ r \in DOMAIN dir
      BY <2>1, <2>2, <2>4 DEF Fulls, OfType
    <3>2. PICK c \in DOMAIN dir : Outlasts(r, c)
      BY <2>1, <3>1 DEF OrderOK
    <3>3. c # b
      BY <2>1, <3>2, OutlastsStays
    <3>4. c \in Complete' /\ c \notin p'.todo /\ c > r /\ dir'[c].type \in {"full", "diff"}
          /\ dir'[c].prior \notin p'.todo
      BY <2>2, <2>3, <3>2, <3>3 DEF Outlasts, OfType
    <3>5. Outlasts(r, c)'
      BY <3>4 DEF Outlasts, OfType
    <3>6. dir'[r].type = "diff"
      BY <2>1, <2>3, <3>1 DEF OrderOK
    <3> QED
      BY <2>1, <3>5, <3>6
  <2> QED
    BY <2>6, <2>7
<1> QED
  BY <1>1, <1>2, <1>3, <1>4, ManifestSteps

(***************************************************************************)
(* Point-in-time recovery: how many backups keep their WAL to the end      *)
(***************************************************************************)
LEMMA RetainSame ==
  ASSUME ExpireInv, RetainOK, p.pc # "idle", opt' = opt,
         p'.adhoc = p.adhoc, p'.retain = p.retain, p'.type = p.type,
         Fulls(p.listed)' \ p'.todo \subseteq Fulls(p.listed) \ p.todo,
         p'.pc = "archive" => p.retain > 0
  PROVE  RetainOK'
<1> DEFINE S == Fulls(p.listed) \ p.todo
           T == Fulls(p.listed)' \ p'.todo
<1>1. /\ p.adhoc = None
      /\ \/ p.type = opt.type /\ p.retain = opt.archive
         \/ p.type = "full" /\ p.retain >= Cardinality(S)
  BY DEF RetainOK
<1>2. S \in SUBSET (1 .. count) /\ count \in Nat /\ p.retain \in Nat
  BY DEF ExpireInv, ListOK, TypeOK, Command, Fulls, OfType
<1>3. T \in SUBSET S
  OBVIOUS
<1> HIDE DEF S, T
<1>4. Cardinality(T) \in Nat /\ Cardinality(S) \in Nat /\ Cardinality(T) <= Cardinality(S)
  BY <1>2, <1>3, FiniteBackups
<1>5. p.retain >= Cardinality(S) => p.retain >= Cardinality(T)
  BY <1>2, <1>4
<1> QED
  BY <1>1, <1>5 DEF RetainOK, T

LEMMA RetainNext ==
  ASSUME ExpireInv, RetainOK, ~opt.adhoc, [Next]_vars
  PROVE  RetainOK'
<1>1. p \in Command /\ Idle.pc = "idle"
  BY DEF ExpireInv, TypeOK, Idle
<1>2. CASE p'.pc = "idle"
  BY <1>2 DEF RetainOK
<1>3. ASSUME dir' = dir, opt' = opt, p.pc # "idle",
             p'.adhoc = p.adhoc, p'.retain = p.retain, p'.type = p.type, p'.listed = p.listed, p'.todo = p.todo,
             p'.pc = "archive" => p.retain > 0
      PROVE  RetainOK'
  <2>1. Fulls(p.listed)' = Fulls(p.listed)
    BY <1>3 DEF Fulls, OfType
  <2> QED
    BY <1>3, <2>1, RetainSame
<1>4. p.pc = "archive" => p.retain > 0
  BY DEF RetainOK
<1>5. CASE ArchivePush \/ UNCHANGED vars
  <2>1. dir' = dir /\ opt' = opt /\ p' = p
    BY <1>5 DEF ArchivePush, vars
  <2> QED
    BY <1>2, <1>3, <1>4, <2>1
<1>6. ASSUME Promote \/ StanzaUpgrade PROVE p'.pc = "idle"
  BY <1>6 DEF Promote, StanzaUpgrade
<1>7. ASSUME NEW type, NEW n, NEW reached, Backup(type, n, reached) PROVE p'.pc = "idle"
  BY <1>7 DEF Backup
<1>8. CASE \/ ExpireByCount \/ \E min \in 1 .. count + 1 : ExpireByTime(min)
           \/ ExpireOldest \/ \E b \in 1 .. count + 1 : ExpireAdhoc(b)
  <2>1. PICK todo, adhoc, retain, type :
          todo \in SUBSET Complete /\ Begin(Complete, todo, adhoc, retain, type) /\ adhoc = None /\ Retains(todo, retain, type)
    BY <1>8, BeginChosen
  <2>2. /\ p'.pc = "manifest" /\ p'.listed = Complete /\ p'.todo = todo /\ p'.adhoc = None
        /\ p'.retain = retain /\ p'.type = type /\ dir' = dir /\ opt' = opt
    BY <2>1, BeginState
  <2>3. Fulls(p.listed)' = Fulls(Complete)
    BY <2>2 DEF Fulls, OfType
  <2> QED
    BY <2>1, <2>2, <2>3 DEF Retains, RetainOK
<1>9. ASSUME NEW b \in p.listed, RemoveManifest(b) \/ RemoveManifestCopy(b) PROVE RetainOK'
  <2>1. /\ p.pc = "manifest" /\ Fewer /\ DOMAIN dir' = DOMAIN dir /\ p.listed \subseteq DOMAIN dir
        /\ p'.pc = p.pc /\ p'.adhoc = p.adhoc /\ p'.retain = p.retain /\ p'.type = p.type /\ opt' = opt
        /\ RemoveManifest(b) => p' = p
        /\ RemoveManifestCopy(b) => p'.todo = p.todo \ {b} /\ p'.listed = p.listed \ {b}
    BY <1>9, RemovesOne
  <2>2. \A c \in p.listed : dir'[c].type = dir[c].type
    BY <2>1 DEF Fewer
  <2>3. p'.listed \subseteq p.listed /\ p'.listed \ p'.todo \subseteq p.listed \ p.todo
    BY <1>9, <2>1
  <2>4. Fulls(p.listed)' \ p'.todo \subseteq Fulls(p.listed) \ p.todo
    BY <2>2, <2>3 DEF Fulls, OfType
  <2> QED
    BY <2>1, <2>4, RetainSame
<1>10. CASE SaveInfo \/ SaveInfoCopy
  <2>1. dir' = dir /\ opt' = opt /\ p.pc \in {"manifest", "copy"}
        /\ (p' = Directories \/ p' = [p EXCEPT !.pc = "copy"])
    BY <1>10 DEF SaveInfo, SaveInfoCopy
  <2>2. /\ p'.adhoc = p.adhoc /\ p'.retain = p.retain /\ p'.type = p.type /\ p'.listed = p.listed
        /\ p'.todo = p.todo /\ p'.pc # "archive"
    BY <1>1, <2>1 DEF Directories, Command
  <2> QED
    BY <1>3, <2>1, <2>2
<1>11. ASSUME NEW b \in p.rm, RemoveExpiredBackup(b) PROVE RetainOK'
  <2>1. /\ p.pc = "dirs" /\ dir' = [c \in DOMAIN dir \ {b} |-> dir[c]] /\ opt' = opt
        /\ p' = [p EXCEPT !.rm = @ \ {b}]
    BY <1>11 DEF RemoveExpiredBackup
  <2>2. /\ p'.adhoc = p.adhoc /\ p'.retain = p.retain /\ p'.type = p.type /\ p'.listed = p.listed
        /\ p'.todo = p.todo /\ p'.pc # "archive"
    BY <1>1, <2>1 DEF Command
  <2>3. b \notin p.listed /\ p.listed \subseteq DOMAIN dir
    BY <2>1 DEF ExpireInv, ListOK, RemoveOK
  <2>4. \A c \in p.listed : dir'[c] = dir[c]
    BY <2>1, <2>3
  <2>5. Fulls(p.listed)' = Fulls(p.listed)
    BY <2>2, <2>4 DEF Fulls, OfType
  <2> QED
    BY <2>1, <2>2, <2>5, RetainSame
<1>12. CASE ArchiveStart
  <2>1. p' = Idle => p'.pc = "idle"
    BY <1>1
  <2>2. CASE p' # Idle
    <3>1. /\ p.pc = "dirs" /\ dir' = dir /\ opt' = opt /\ p.retain # 0
          /\ p' = [p EXCEPT !.pc = "archive", !.seg = ToRemove(p.listed, p.retain, p.type, 1)]
      BY <1>12, <2>2 DEF ArchiveStart
    <3>2. /\ p'.adhoc = p.adhoc /\ p'.retain = p.retain /\ p'.type = p.type /\ p'.listed = p.listed
          /\ p'.todo = p.todo
      BY <1>1, <3>1 DEF Command
    <3>3. p.retain > 0
      BY <1>1, <3>1 DEF Command
    <3> QED
      BY <1>3, <3>1, <3>2, <3>3
  <2> QED
    BY <1>2, <2>1, <2>2
<1>13. CASE NextArchive \/ \E w \in p.seg : RemoveExpiredArchive(w)
  <2>1. p.pc = "archive" /\ dir' = dir /\ opt' = opt
    BY <1>13 DEF NextArchive, RemoveExpiredArchive
  <2>2. \/ p' = [p EXCEPT !.pc = "done"]
        \/ p' = [p EXCEPT !.id = @ + 1, !.seg = ToRemove(p.listed, p.retain, p.type, p.id + 1)]
        \/ \E w : p' = [p EXCEPT !.seg = @ \ {w}]
    BY <1>13 DEF NextArchive, RemoveExpiredArchive
  <2>3. /\ p'.adhoc = p.adhoc /\ p'.retain = p.retain /\ p'.type = p.type /\ p'.listed = p.listed
        /\ p'.todo = p.todo
    BY <1>1, <2>2 DEF Command
  <2> QED
    BY <1>3, <1>4, <2>1, <2>3
<1>14. ASSUME Done \/ Crash PROVE p'.pc = "idle"
  BY <1>1, <1>14 DEF Done, Crash
<1> QED
  BY <1>2, <1>5, <1>6, <1>7, <1>8, <1>9, <1>10, <1>11, <1>12, <1>13, <1>14 DEF Next

(* No segment that is removed follows a backup that keeps its WAL.         *)
LEMMA SegChosen ==
  ASSUME ExpireInv, RetainOK, p.pc \notin {"idle", "manifest"}, p.retain > 0,
         NEW w \in ToRemove(p.listed, p.retain, p.type, pg.id)
  PROVE  Ours(Typed) # {} /\ \A b \in Retained : ~Follows(b, w)
<1> DEFINE L == p.listed
           here == InArchive(L, p.type, pg.id)
           rb == ArchiveRetentionBackup(L, p.retain, p.type, pg.id)
           F == Fulls(Complete)
<1>1. /\ L = Complete /\ L \in SUBSET DOMAIN dir /\ p.todo = {} /\ TypeOK /\ DirOK
      /\ pg.id \in 1 .. pg.id /\ Complete \in SUBSET (1 .. count) /\ count \in Nat /\ p.retain \in Nat
      /\ p.type \in Type /\ Complete \subseteq Nat
  BY CompleteIsListed DEF ExpireInv, ListOK, TypeOK, Command
<1>2. opt.type \in Type
  BY OptionTypes DEF ExpireInv
<1>3. \/ p.type = opt.type /\ p.retain = opt.archive
      \/ p.type = "full" /\ p.retain >= Cardinality(F)
  <2>1. Fulls(p.listed) \ p.todo = F
    BY <1>1
  <2> QED
    BY <2>1 DEF RetainOK
<1>4. here # {}
  BY DEF ToRemove, InArchive
<1>5. /\ w \in wal[pg.id] /\ dir[rb].start # None
      /\ Expired(ArchiveRangeList(L, rb), dir[rb].start, w)
  BY <1>4 DEF ToRemove, InArchive
<1>6. /\ rb \in here
      /\ \A b \in here : b \in ArchiveRetention(L, p.retain, p.type) => rb <= b
  BY <1>1, <1>4, RetentionIn
<1>7. rb \in L /\ rb \in DOMAIN dir /\ dir[rb].id = pg.id /\ rb \in Nat /\ dir[rb].type \in TypesOf(p.type)
  BY <1>1, <1>6 DEF InArchive, OfType
<1>8. TypesOf(p.type) \subseteq TypesOf(opt.type)
  BY <1>2, <1>3 DEF TypesOf, Type
<1>9. rb \in Ours(Typed)
  BY <1>1, <1>7, <1>8 DEF Ours, Typed, OfType
<1>10. w \in Segment
  BY <1>1, <1>5 DEF TypeOK
<1> HIDE DEF rb, here
<1>11. ASSUME NEW b \in Retained, Follows(b, w)
       PROVE  FALSE
  <2>1. b \in Complete /\ dir[b].id = pg.id /\ b \in Nat /\ b \in DOMAIN dir
    <3>1. b \in Complete /\ dir[b].id = pg.id
      BY DEF Retained, Ours, Typed, KeptFulls, Recent, Fulls, OfType
    <3> QED
      BY <1>1, <3>1
  <2>2. rb <= b
    <3>1. CASE \A c \in Ours(Typed) : c <= b
      BY <1>9, <3>1
    <3>2. CASE b \in KeptFulls
      <4>1. opt.type = "full" /\ p.type = "full" /\ b \in F
        BY <1>3, <3>2 DEF KeptFulls, Recent
      <4>2. TypesOf("full") = {"full"}
        BY DEF TypesOf
      <4>3. b \in here
        BY <1>1, <2>1, <4>1, <4>2 DEF here, InArchive, OfType, Fulls
      <4>4. ArchiveRetention(L, p.retain, p.type) = Recent(F, p.retain)
        BY <1>1, <4>1, <4>2 DEF ArchiveRetention, Recent, Fulls
      <4>5. b \in Recent(F, p.retain)
        <5>1. CASE p.retain = opt.archive
          <6>1. opt.archive # 0
            BY <5>1
          <6> QED
            BY <3>2, <4>1, <5>1, <6>1 DEF KeptFulls
        <5>2. CASE p.retain >= Cardinality(F)
          <6>1. F \in SUBSET (1 .. count)
            BY <1>1 DEF Fulls, OfType
          <6> HIDE DEF F
          <6>2. {c \in F : c > b} \in SUBSET F /\ {c \in F : c > b} # F
            BY <2>1, <4>1
          <6>3. Cardinality({c \in F : c > b}) < Cardinality(F) /\ Cardinality(F) \in Nat
                /\ Cardinality({c \in F : c > b}) \in Nat
            BY <1>1, <6>1, <6>2, FiniteBackups
          <6>4. Cardinality({c \in F : c > b}) < p.retain
            BY <1>1, <5>2, <6>3
          <6> QED
            BY <4>1, <6>4 DEF Recent
        <5> QED
          BY <1>3, <5>1, <5>2
      <4> QED
        BY <1>6, <4>3, <4>4, <4>5
    <3> QED
      BY <3>1, <3>2 DEF Retained, Ours
  <2>3. dir[b].start \in Segment /\ dir[rb].start \in Segment /\ Before(dir[b].start, w)
    BY <1>1, <1>5, <1>7, <1>11, <2>1 DEF TypeOK, Dir, Follows
  <2>4. rb = b \/ Before(dir[rb].start, dir[b].start)
    <3>1. PairOK(rb, b)
      BY <1>1, <1>7, <2>1 DEF DirOK
    <3>2. rb = b \/ rb < b
      BY <1>7, <2>1, <2>2
    <3> QED
      BY <1>5, <1>7, <1>11, <2>1, <3>1, <3>2 DEF PairOK, Follows
  <2>5. Before(dir[rb].start, w)
    BY <1>10, <2>3, <2>4, BeforeTrans
  <2> QED
    BY <1>1, <1>5, <1>7, <1>10, <2>5, LaterIsCovered
<1> QED
  BY <1>9, <1>11

(***************************************************************************)
(* Point-in-time recovery: what keeps its WAL stays                        *)
(***************************************************************************)
(* Nothing that depends on r was taken after a later backup c that it       *)
(* could have been based on.                                               *)
LEMMA DependentsBefore ==
  ASSUME ExpireInv, p.pc = "manifest", NEW r \in p.listed, NEW c \in Complete, r < c, dir[c].id = dir[r].id,
         \/ dir[c].type = "full"
         \/ dir[c].type = "diff" /\ dir[r].type = "diff",
         NEW b \in DependentList(p.listed, r)
  PROVE  b < c
<1> DEFINE T == {x \in DependentList(p.listed, r) : x < c}
<1>1. /\ p.listed \in SUBSET DOMAIN dir /\ TypeOK /\ DirOK /\ BaseOK /\ DOMAIN dir \subseteq Nat /\ c \in DOMAIN dir
      /\ c \in Nat /\ None \notin DOMAIN dir
  BY NoneNoSegment DEF ExpireInv, ListOK, TypeOK, Complete
<1>2. T \subseteq p.listed /\ r \in T
  BY DependentClosed
<1>3. ASSUME NEW d \in p.listed, dir[d].prior \in T
      PROVE  d \in T
  <2>1. d \in DependentList(p.listed, r) /\ dir[d].prior \in DependentList(p.listed, r) /\ dir[d].prior < c
    BY <1>3, DependentClosed
  <2>2. d \in DOMAIN dir /\ dir[d].prior \in DOMAIN dir /\ d \in Nat /\ dir[d].prior \in Nat
    BY <1>1, <1>2, <1>3
  <2>3. OneOK(d) /\ Based(d, c) /\ dir[d].prior # None
    BY <1>1, <2>2 DEF DirOK, BaseOK
  <2>4. dir[d].id = dir[c].id /\ dir[d].type # "full" /\ dir[d].prior < d
    BY <1>1, <2>1, <2>3, DependentKind DEF OneOK
  <2>5. dir[c].type = "full" \/ dir[d].type = "incr"
    <3>1. SUFFICES ASSUME dir[r].type = "diff", dir[d].type = "diff" PROVE FALSE
      BY <1>1, <2>2, <2>4 DEF TypeOK, Dir, Type
    <3>2. dir[dir[d].prior].type = "full"
      BY <2>2, <2>3, <3>1 DEF OneOK
    <3>3. dir[d].prior = r
      BY <1>1, <2>1, <3>2, DependentKind
    <3> QED
      BY <3>1, <3>2, <3>3
  <2>6. ~(c < d)
    BY <1>1, <2>1, <2>2, <2>3, <2>4, <2>5 DEF Based
  <2>7. c # d
    <3>1. SUFFICES ASSUME c = d PROVE FALSE
      OBVIOUS
    <3>2. dir[r].type = "diff" /\ dir[d].type = "diff"
      BY <2>4, <3>1
    <3> QED
      BY <2>4, <2>5, <3>1, <3>2
  <2> QED
    BY <1>1, <2>1, <2>2, <2>6, <2>7
<1>4. DependentList(p.listed, r) \subseteq T
  <2> HIDE DEF T
  <2> QED
    BY <1>2, <1>3, DependentLeast
<1> QED
  BY <1>4

(* The newest backup of the type, of the current cluster, does not go.     *)
LEMMA NewestStays ==
  ASSUME ExpireInv, FullOK, OrderOK, RetainOK, NEW b \in p.listed, RemoveManifest(b), b \in Ours(Typed)
  PROVE  \E c \in Ours(Typed) : b < c
<1>1. /\ p.pc = "manifest" /\ ExpireBackup(b) /\ b \in DOMAIN dir
      /\ p.todo \subseteq p.listed /\ p.listed \in SUBSET DOMAIN dir
  BY RemovesOne
<1>2. TypeOK /\ DirOK /\ DOMAIN dir \subseteq Nat /\ Complete \subseteq DOMAIN dir /\ opt.type \in Type
      /\ \A c \in DOMAIN dir : dir[c].id \in Nat /\ dir[c].id <= pg.id /\ dir[c].type \in Type
  BY OptionTypes DEF ExpireInv, TypeOK, Dir, DirOK, OneOK, Complete
<1>3. dir[b].id = pg.id /\ dir[b].type \in TypesOf(opt.type)
  BY DEF Ours, Typed, OfType
<1>4. PICK r \in p.todo : b \in DependentList(p.listed, r)
  BY <1>1 DEF ExpireBackup
<1>5. r \in p.listed /\ r \in DOMAIN dir /\ r \in Nat /\ b \in Nat
  BY <1>1, <1>2, <1>4
<1>6. dir[r].id = pg.id /\ (b # r => dir[b].type # "full")
  BY <1>1, <1>2, <1>3, <1>4, <1>5, DependentKind
<1>7. ASSUME NEW c \in Complete, r < c
      PROVE  dir[c].id = pg.id /\ c \in Nat
  <2>1. c \in DOMAIN dir /\ PairOK(r, c) /\ pg.id \in Nat
    BY <1>2, <1>5 DEF DirOK, TypeOK
  <2>2. dir[r].id <= dir[c].id
    BY <1>7, <2>1 DEF PairOK
  <2> QED
    BY <1>2, <1>6, <2>1, <2>2
<1>8. CASE dir[r].type = "full"
  <2>1. PICK c \in DOMAIN dir : Spares(r, c)
    BY <1>1, <1>4, <1>8 DEF FullOK, Fulls, OfType
  <2>2. p.adhoc = None /\ None \notin Nat
    BY <1>1, NoneNoSegment DEF RetainOK
  <2>3. c \in Complete /\ dir[c].type = "full" /\ r < c
    BY <1>2, <1>5, <2>1, <2>2 DEF Spares, Fulls, OfType
  <2>4. b < c
    BY <1>1, <1>4, <1>5, <1>6, <1>7, <2>3, DependentsBefore
  <2>5. c \in Ours(Typed)
    BY <1>2, <1>7, <2>3, FullIsTyped DEF Ours, Typed, OfType
  <2> QED
    BY <2>4, <2>5
<1>9. CASE dir[r].type # "full"
  <2>1. dir[r].type = "diff" /\ \E c \in DOMAIN dir : Outlasts(r, c)
    BY <1>1, <1>4, <1>9 DEF OrderOK, Fulls, OfType
  <2>2. PICK c \in DOMAIN dir : Outlasts(r, c)
    BY <2>1
  <2>3. c \in Complete /\ dir[c].type \in {"full", "diff"} /\ r < c
    BY <1>2, <1>5, <2>2 DEF Outlasts, OfType
  <2>4. b < c
    BY <1>1, <1>4, <1>5, <1>6, <1>7, <2>1, <2>3, DependentsBefore
  <2>5. opt.type # "full"
    <3>1. SUFFICES ASSUME opt.type = "full" PROVE FALSE
      OBVIOUS
    <3>2. dir[b].type = "full"
      BY <1>3, <3>1 DEF TypesOf
    <3> QED
      BY <1>6, <1>9, <3>2
  <2>6. dir[c].type \in TypesOf(opt.type)
    BY <1>2, <2>3, <2>5 DEF TypesOf, Type
  <2>7. c \in Ours(Typed)
    BY <1>7, <2>3, <2>6 DEF Ours, Typed, OfType
  <2> QED
    BY <2>4, <2>7
<1> QED
  BY <1>8, <1>9

(* Steps that leave the complete backups leave what is retained.           *)
LEMMA SameRetained ==
  ASSUME Complete' = Complete, opt' = opt, pg'.id = pg.id,
         \A c \in Complete : /\ dir'[c].id = dir[c].id /\ dir'[c].type = dir[c].type
                             /\ dir'[c].start = dir[c].start
  PROVE  /\ Ours(Typed)' = Ours(Typed) /\ Retained' = Retained
         /\ \A b \in Retained : \A w : Follows(b, w)' <=> Follows(b, w)
<1>1. Typed' = Typed /\ Fulls(Complete)' = Fulls(Complete)
  BY DEF Typed, Fulls, OfType
<1>2. Typed \subseteq Complete /\ Fulls(Complete) \subseteq Complete
  BY DEF Typed, Fulls, OfType
<1>3. Ours(Typed)' = Ours(Typed)
  BY <1>1, <1>2 DEF Ours
<1>4. KeptFulls' = KeptFulls
  BY <1>1 DEF KeptFulls
<1>5. KeptFulls \subseteq Complete
  BY <1>2 DEF KeptFulls, Recent
<1>6. Ours(KeptFulls)' = Ours(KeptFulls)
  BY <1>4, <1>5 DEF Ours
<1>7. Retained' = Retained
  BY <1>3, <1>6 DEF Retained
<1>8. Retained \subseteq Complete
  BY <1>2, <1>5 DEF Retained, Ours
<1> QED
  BY <1>3, <1>7, <1>8 DEF Follows

LEMMA SegNext ==
  ASSUME ExpireInv, RetainOK, SegOK, [Next]_vars
  PROVE  SegOK'
<1>1. p \in Command /\ Idle.pc = "idle" /\ pg \in [id : Nat \ {0}, tl : Nat, seg : Nat]
  BY DEF ExpireInv, TypeOK, Idle
<1>2. CASE p'.pc # "archive"
  BY <1>2 DEF SegOK
<1>3. ASSUME dir' = dir, opt' = opt, pg'.id = pg.id,
             p'.pc = "archive" /\ p'.id = pg.id =>
               /\ p'.seg # {} => Ours(Typed) # {}
               /\ \A w \in p'.seg, b \in Retained : ~Follows(b, w)
      PROVE  SegOK'
  <2>1. Complete' = Complete
    BY <1>3 DEF Complete
  <2>2. /\ Ours(Typed)' = Ours(Typed) /\ Retained' = Retained
        /\ \A b \in Retained : \A w : Follows(b, w)' <=> Follows(b, w)
    BY <1>3, <2>1, SameRetained
  <2> QED
    BY <1>3, <2>2 DEF SegOK
<1>4. CASE UNCHANGED vars
  <2>1. dir' = dir /\ opt' = opt /\ pg' = pg /\ p' = p
    BY <1>4 DEF vars
  <2> QED
    BY <1>3, <2>1 DEF SegOK
<1>5. CASE ArchivePush
  <2>1. dir' = dir /\ opt' = opt /\ p' = p /\ pg' = [pg EXCEPT !.seg = @ + 1]
    BY <1>5 DEF ArchivePush, Push
  <2>2. pg'.id = pg.id
    BY <1>1, <2>1
  <2> QED
    BY <1>3, <2>1, <2>2 DEF SegOK
<1>6. ASSUME Promote \/ StanzaUpgrade PROVE p'.pc # "archive"
  BY <1>6 DEF Promote, StanzaUpgrade
<1>7. ASSUME NEW type, NEW n, NEW reached, Backup(type, n, reached) PROVE p'.pc # "archive"
  BY <1>7 DEF Backup
<1>8. ASSUME \/ ExpireByCount \/ \E min \in 1 .. count + 1 : ExpireByTime(min)
             \/ ExpireOldest \/ \E b \in 1 .. count + 1 : ExpireAdhoc(b)
      PROVE  p'.pc # "archive"
  <2>1. PICK todo, adhoc, retain, type : Begin(Complete, todo, adhoc, retain, type)
    BY <1>8, BeginChosen
  <2> QED
    BY <2>1, BeginState
<1>9. ASSUME NEW b \in p.listed, RemoveManifest(b) \/ RemoveManifestCopy(b) PROVE p'.pc # "archive"
  BY <1>9, RemovesOne
<1>10. ASSUME SaveInfo \/ SaveInfoCopy PROVE p'.pc # "archive"
  <2>1. Directories.pc = "dirs" /\ [p EXCEPT !.pc = "copy"].pc = "copy"
    BY <1>1 DEF Directories, Command
  <2> QED
    BY <1>10, <2>1 DEF SaveInfo, SaveInfoCopy
<1>11. ASSUME NEW b \in p.rm, RemoveExpiredBackup(b) PROVE p'.pc # "archive"
  <2>1. p.pc = "dirs" /\ p' = [p EXCEPT !.rm = @ \ {b}]
    BY <1>11 DEF RemoveExpiredBackup
  <2> QED
    BY <1>1, <2>1 DEF Command
<1>12. CASE ArchiveStart
  <2>1. CASE p' = Idle
    BY <1>1, <1>2, <2>1
  <2>2. CASE p' # Idle
    <3>1. /\ p.pc = "dirs" /\ p.retain # 0 /\ UNCHANGED <<opt, pg, dir>>
          /\ p' = [p EXCEPT !.pc = "archive", !.seg = ToRemove(p.listed, p.retain, p.type, 1)]
      BY <1>12, <2>2 DEF ArchiveStart
    <3>2. p.id = 1 /\ p'.id = p.id /\ p'.seg = ToRemove(p.listed, p.retain, p.type, 1) /\ p.retain > 0
      BY <1>1, <3>1 DEF ExpireInv, RemoveOK, Command
    <3>3. p'.id = pg.id => \A w \in p'.seg : Ours(Typed) # {} /\ \A b \in Retained : ~Follows(b, w)
      BY <3>1, <3>2, SegChosen
    <3> QED
      BY <1>3, <3>1, <3>3
  <2> QED
    BY <2>1, <2>2
<1>13. CASE NextArchive
  <2>1. p.pc = "archive" /\ UNCHANGED <<opt, pg, dir>> /\ p.retain > 0
    BY <1>13 DEF NextArchive, RetainOK
  <2>2. \/ p' = [p EXCEPT !.pc = "done"]
        \/ p' = [p EXCEPT !.id = @ + 1, !.seg = ToRemove(p.listed, p.retain, p.type, p.id + 1)]
    BY <1>13 DEF NextArchive
  <2>3. p'.pc = "done" \/ (p'.id = p.id + 1 /\ p'.seg = ToRemove(p.listed, p.retain, p.type, p.id + 1))
    BY <1>1, <2>2 DEF Command
  <2>4. p'.pc = "archive" /\ p'.id = pg.id =>
          \A w \in p'.seg : Ours(Typed) # {} /\ \A b \in Retained : ~Follows(b, w)
    BY <2>1, <2>3, SegChosen
  <2> QED
    BY <1>3, <2>1, <2>4
<1>14. ASSUME NEW w \in p.seg, RemoveExpiredArchive(w) PROVE SegOK'
  <2>1. p.pc = "archive" /\ UNCHANGED <<opt, pg, dir>> /\ p' = [p EXCEPT !.seg = @ \ {w}]
    BY <1>14 DEF RemoveExpiredArchive
  <2>2. p'.id = p.id /\ p'.seg \subseteq p.seg
    BY <1>1, <2>1 DEF Command
  <2> QED
    BY <1>3, <2>1, <2>2 DEF SegOK
<1>15. ASSUME Done \/ Crash PROVE p'.pc # "archive"
  BY <1>1, <1>15 DEF Done, Crash
<1> QED
  BY <1>2, <1>4, <1>5, <1>6, <1>7, <1>8, <1>9, <1>10, <1>11, <1>12, <1>13, <1>14, <1>15 DEF Next

(* Backups that are gone or new leave those that keep their WAL: a full     *)
(* one that goes is older than every full one that stays.                  *)
LEMMA RecentFewer ==
  ASSUME NEW K \in Nat, NEW F \in SUBSET (1 .. K), NEW G \in SUBSET (1 .. K), NEW n \in Nat,
         NEW x \in Recent(G, n), x \in F, \A c \in F : c > x => c \in G
  PROVE  x \in Recent(F, n)
<1> DEFINE A == {c \in F : c > x}
           B == {c \in G : c > x}
<1>1. B \in SUBSET (1 .. K) /\ A \in SUBSET B
  OBVIOUS
<1>2. Cardinality(B) < n
  BY DEF Recent
<1> HIDE DEF A, B
<1>3. Cardinality(A) <= Cardinality(B) /\ Cardinality(A) \in Nat /\ Cardinality(B) \in Nat
  BY <1>1, FiniteBackups
<1>4. Cardinality(A) < n
  BY <1>2, <1>3
<1> QED
  BY <1>4 DEF Recent, A

LEMMA KeptSame ==
  ASSUME KeptOK, Complete' = Complete, opt' = opt, pg'.id = pg.id,
         \A c \in Complete : /\ dir'[c].id = dir[c].id /\ dir'[c].type = dir[c].type
                             /\ dir'[c].start = dir[c].start,
         NEW N, wal'[pg.id] = wal[pg.id] \union N, pushed'[pg.id] = pushed[pg.id] \union N
  PROVE  KeptOK'
<1>1. /\ Ours(Typed)' = Ours(Typed) /\ Retained' = Retained
      /\ \A b \in Retained : \A w : Follows(b, w)' <=> Follows(b, w)
  BY SameRetained
<1> QED
  BY <1>1 DEF KeptOK

LEMMA BackupKept ==
  ASSUME ExpireInv, KeptOK, NEW type \in Type, NEW n \in Nat, NEW reached, Backup(type, n, reached)
  PROVE  KeptOK'
<1>1. Added(count + 1, n) /\ Push(n) /\ opt' = opt /\ TypeOK /\ Complete \subseteq DOMAIN dir
  BY BackupStep DEF ExpireInv, Complete
<1>2. /\ pg'.id = pg.id /\ wal'[pg.id] = wal[pg.id] \union New(n)
      /\ pushed'[pg.id] = pushed[pg.id] \union New(n)
  BY <1>1, PushStep
<1>3. PICK b : b = count + 1
  OBVIOUS
<1>4. /\ Complete \subseteq Complete' /\ Complete' \subseteq Complete \union {b} /\ b \notin DOMAIN dir
      /\ b \in Nat /\ count' = b
  BY <1>1, <1>3, AddedComplete, BackupStep
<1>5. /\ b \in DOMAIN dir' /\ \A c \in DOMAIN dir' \ {b} : dir'[c] = dir[c]
      /\ Complete \subseteq DOMAIN dir'
      /\ dir'[b].start # None => dir'[b].start = Here
  BY <1>1, <1>3 DEF Added
<1>6. \A c \in Complete : c # b /\ dir'[c] = dir[c]
  BY <1>1, <1>4, <1>5
<1>7. Ours(Typed) \subseteq Ours(Typed)'
  BY <1>1, <1>2, <1>4, <1>6 DEF Ours, Typed, OfType
<1>8. Complete' \in SUBSET (1 .. b) /\ Complete \in SUBSET (1 .. b)
  BY <1>4, <1>3, <1>1 DEF TypeOK
<1>9. ASSUME NEW x \in Retained', x # b
      PROVE  x \in Retained
  <2>1. x \in Complete' /\ dir'[x].id = pg.id
    BY <1>2 DEF Retained, Ours, Typed, KeptFulls, Recent, Fulls, OfType
  <2>2. x \in Complete /\ dir'[x] = dir[x] /\ dir[x].id = pg.id
    BY <1>4, <1>6, <1>9, <2>1
  <2>3. CASE x \in Ours(Typed)' /\ \A c \in Ours(Typed)' : c <= x
    <3>1. x \in Ours(Typed)
      BY <1>1, <2>2, <2>3 DEF Ours, Typed, OfType
    <3> QED
      BY <1>7, <2>3, <3>1 DEF Retained
  <2>4. CASE x \in KeptFulls'
    <3> DEFINE F == Fulls(Complete)
               G == Fulls(Complete)'
    <3>1. F \in SUBSET (1 .. b) /\ G \in SUBSET (1 .. b) /\ F \subseteq G
      BY <1>4, <1>6, <1>8 DEF Fulls, OfType
    <3>2. opt.type = "full" /\ x \in G /\ (opt.archive # 0 => x \in Recent(G, opt.archive))
      BY <1>1, <2>4 DEF KeptFulls, Recent
    <3>3. x \in F
      BY <2>2, <3>2 DEF Fulls, OfType
    <3>4. opt.archive \in Nat
      BY ExpireAssumption DEF ExpireInv, TypeOK
    <3>5. opt.archive # 0 => x \in Recent(F, opt.archive)
      <4> HIDE DEF F, G
      <4> QED
        BY <1>4, <3>1, <3>2, <3>3, <3>4, RecentFewer
    <3>6. x \in KeptFulls
      BY <3>2, <3>3, <3>5 DEF KeptFulls
    <3> QED
      BY <2>2, <3>6 DEF Retained, Ours
  <2> QED
    BY <2>3, <2>4 DEF Retained, Ours
<1>10. ASSUME NEW x \in Retained', NEW w \in pushed'[pg.id], Follows(x, w)'
       PROVE  w \in wal'[pg.id]
  <2>1. SUFFICES ASSUME w \notin New(n), w \in pushed[pg.id]
                 PROVE  w \in wal[pg.id]
    BY <1>2, <1>10
  <2>2. x # b
    <3>1. SUFFICES ASSUME x = b PROVE FALSE
      OBVIOUS
    <3>2. Before(Here, w)
      BY <1>5, <1>10, <3>1 DEF Follows
    <3> QED
      BY <2>1, <3>2 DEF ExpireInv, WalOK
  <2>3. x \in Retained /\ x \in Complete
    BY <1>9, <2>2 DEF Retained, Ours, Typed, KeptFulls, Recent, Fulls, OfType
  <2>4. Follows(x, w)
    BY <1>6, <1>10, <2>3 DEF Follows
  <2> QED
    BY <2>1, <2>3, <2>4 DEF KeptOK
<1>11. Ours(Typed)' = {} => wal'[pg.id] = pushed'[pg.id]
  BY <1>2, <1>7 DEF KeptOK
<1> QED
  BY <1>2, <1>10, <1>11 DEF KeptOK

LEMMA RemoveManifestKept ==
  ASSUME ExpireInv, FullOK, OrderOK, RetainOK, KeptOK, NEW b \in p.listed, RemoveManifest(b)
  PROVE  KeptOK'
<1>1. /\ p.pc = "manifest" /\ ExpireBackup(b) /\ b \in DOMAIN dir /\ UNCHANGED <<opt, pg, wal, pushed, count>>
      /\ Fewer /\ DOMAIN dir' = DOMAIN dir /\ Complete' = Complete \ {b}
  BY RemovesOne
<1>2. /\ TypeOK /\ Complete \subseteq DOMAIN dir /\ count \in Nat /\ Complete \in SUBSET (1 .. count)
      /\ Complete \subseteq Nat /\ b \in Nat
  BY <1>1 DEF ExpireInv, TypeOK, Complete
<1>3. \A c \in DOMAIN dir : dir'[c].id = dir[c].id /\ dir'[c].type = dir[c].type /\ dir'[c].start = dir[c].start
  BY <1>1 DEF Fewer
<1>4. Ours(Typed)' = Ours(Typed) \ {b}
  BY <1>1, <1>2, <1>3 DEF Ours, Typed, OfType
<1>5. b \in Ours(Typed) => \E c \in Ours(Typed)' : b < c
  BY <1>2, <1>4, NewestStays
<1>6. Ours(Typed) \subseteq Nat
  BY <1>2 DEF Ours, Typed, OfType
<1>7. ASSUME NEW x \in Retained'
      PROVE  x \in Retained
  <2>1. x \in Complete' /\ dir'[x].id = pg.id
    BY <1>1 DEF Retained, Ours, Typed, KeptFulls, Recent, Fulls, OfType
  <2>2. x \in Complete /\ x # b /\ dir[x].id = pg.id /\ x \in Nat /\ x \in DOMAIN dir
    BY <1>1, <1>2, <1>3, <2>1
  <2>3. CASE x \in Ours(Typed)' /\ \A c \in Ours(Typed)' : c <= x
    <3>1. x \in Ours(Typed)
      BY <1>4, <2>3
    <3>2. b \in Ours(Typed) => b <= x
      BY <1>2, <1>4, <1>5, <1>6, <2>2, <2>3
    <3>3. \A c \in Ours(Typed) : c <= x
      BY <1>4, <2>3, <3>2
    <3> QED
      BY <3>1, <3>3 DEF Retained
  <2>4. CASE x \in KeptFulls'
    <3> DEFINE F == Fulls(Complete)
               G == Fulls(Complete)'
    <3>1. F \in SUBSET (1 .. count) /\ G \in SUBSET (1 .. count) /\ G = F \ {b}
      BY <1>1, <1>2, <1>3 DEF Fulls, OfType
    <3>2. opt.type = "full" /\ x \in G /\ (opt.archive # 0 => x \in Recent(G, opt.archive))
      BY <1>1, <2>4 DEF KeptFulls, Recent
    <3>3. x \in F
      BY <3>1, <3>2
    <3>4. opt.archive \in Nat
      BY ExpireAssumption DEF ExpireInv, TypeOK
    <3>5. b \in F => ~(b > x)
      <4>1. SUFFICES ASSUME b \in F, b > x PROVE FALSE
        OBVIOUS
      <4>2. b \in p.todo /\ (\A s \in p.todo : Sooner(b, s)) /\ dir[b].type = "full"
        BY <1>1, <4>1, FullIsRoot DEF Fulls, OfType
      <4>3. x \in p.todo /\ dir[x].type = "full"
        BY <1>1, <1>2, <2>2, <3>3, <4>1, <4>2 DEF OrderOK, Fulls, OfType
      <4> QED
        BY <1>2, <2>2, <4>1, <4>2, <4>3 DEF Sooner
    <3>6. opt.archive # 0 => x \in Recent(F, opt.archive)
      <4> HIDE DEF F, G
      <4>1. \A c \in F : c > x => c \in G
        BY <3>1, <3>5
      <4> QED
        BY <1>2, <3>1, <3>2, <3>3, <3>4, <4>1, RecentFewer
    <3>7. x \in KeptFulls
      BY <3>2, <3>3, <3>6 DEF KeptFulls
    <3> QED
      BY <2>2, <3>7 DEF Retained, Ours
  <2> QED
    BY <2>3, <2>4 DEF Retained, Ours
<1>8. ASSUME NEW x \in Retained'
      PROVE  x \in DOMAIN dir
  BY <1>1, <1>2 DEF Retained, Ours, Typed, KeptFulls, Recent, Fulls, OfType
<1>9. Ours(Typed)' = {} => Ours(Typed) = {}
  BY <1>4, <1>5
<1> QED
  BY <1>1, <1>3, <1>7, <1>8, <1>9 DEF KeptOK, Follows

LEMMA KeptNext ==
  ASSUME ExpireInv, FullOK, OrderOK, RetainOK, SegOK, KeptOK, [Next]_vars
  PROVE  KeptOK'
<1>1. TypeOK /\ p \in Command /\ pg \in [id : Nat \ {0}, tl : Nat, seg : Nat] /\ pg.id \in 1 .. pg.id
  BY DEF ExpireInv, TypeOK
<1>2. ASSUME dir' = dir, opt' = opt, pg'.id = pg.id, wal' = wal, pushed' = pushed
      PROVE  KeptOK'
  <2>1. Complete' = Complete
    BY <1>2 DEF Complete
  <2>2. wal'[pg.id] = wal[pg.id] \union {} /\ pushed'[pg.id] = pushed[pg.id] \union {}
    BY <1>2
  <2> QED
    BY <1>2, <2>1, <2>2, KeptSame
<1>3. CASE \/ UNCHANGED vars \/ SaveInfo \/ SaveInfoCopy \/ ArchiveStart \/ NextArchive \/ Done \/ Crash
  <2>1. dir' = dir /\ opt' = opt /\ pg' = pg /\ wal' = wal /\ pushed' = pushed
    BY <1>3 DEF vars, SaveInfo, SaveInfoCopy, ArchiveStart, NextArchive, Done, Crash
  <2> QED
    BY <1>2, <2>1
<1>4. CASE Promote
  <2>1. dir' = dir /\ opt' = opt /\ pg' = [pg EXCEPT !.tl = @ + 1] /\ wal' = wal /\ pushed' = pushed
    BY <1>4 DEF Promote
  <2> QED
    BY <1>1, <1>2, <2>1
<1>5. CASE ArchivePush
  <2>1. dir' = dir /\ opt' = opt /\ Push(1)
    BY <1>5 DEF ArchivePush
  <2>2. /\ pg'.id = pg.id /\ wal'[pg.id] = wal[pg.id] \union New(1)
        /\ pushed'[pg.id] = pushed[pg.id] \union New(1)
    BY <1>1, <2>1, PushStep
  <2>3. Complete' = Complete
    BY <2>1 DEF Complete
  <2> QED
    BY <2>1, <2>2, <2>3, KeptSame
<1>6. CASE StanzaUpgrade
  <2>1. PICK i \in Nat \ {0} : i = pg.id
    BY <1>1
  <2>2. /\ pg' = [id |-> i + 1, tl |-> 1, seg |-> 0]
        /\ wal' = [j \in 1 .. i + 1 |-> IF j <= i THEN wal[j] ELSE {}]
        /\ pushed' = [j \in 1 .. i + 1 |-> IF j <= i THEN pushed[j] ELSE {}]
        /\ dir' = dir
    BY <1>6, <2>1 DEF StanzaUpgrade
  <2>3. pg'.id = i + 1 /\ wal'[i + 1] = {} /\ pushed'[i + 1] = {}
    BY <2>2
  <2> QED
    BY <2>3 DEF KeptOK
<1>7. ASSUME NEW type \in {"full", "diff", "incr"}, NEW n \in Segments, NEW reached \in {"copy", "main", "info"},
             Backup(type, n, reached)
      PROVE  KeptOK'
  <2>1. type \in Type /\ n \in Nat
    BY ExpireAssumption DEF Type
  <2> QED
    BY <1>7, <2>1, BackupKept
<1>8. CASE \/ ExpireByCount \/ \E min \in 1 .. count + 1 : ExpireByTime(min)
           \/ ExpireOldest \/ \E b \in 1 .. count + 1 : ExpireAdhoc(b)
  <2>1. PICK todo, adhoc, retain, type : Begin(Complete, todo, adhoc, retain, type)
    BY <1>8, BeginChosen
  <2>2. UNCHANGED <<opt, pg, wal, pushed, dir>>
    BY <2>1, BeginState
  <2> QED
    BY <1>2, <2>2
<1>9. ASSUME NEW b \in p.listed, RemoveManifestCopy(b) PROVE KeptOK'
  <2>1. /\ UNCHANGED <<opt, pg, wal, pushed>> /\ Fewer /\ DOMAIN dir' = DOMAIN dir /\ Complete' = Complete
    BY <1>9, RemovesOne
  <2>2. \A c \in Complete : /\ dir'[c].id = dir[c].id /\ dir'[c].type = dir[c].type
                            /\ dir'[c].start = dir[c].start
    BY <2>1 DEF Fewer, Complete
  <2>3. wal'[pg.id] = wal[pg.id] \union {} /\ pushed'[pg.id] = pushed[pg.id] \union {}
    BY <2>1
  <2> QED
    BY <2>1, <2>2, <2>3, KeptSame
<1>10. ASSUME NEW b \in p.rm, RemoveExpiredBackup(b) PROVE KeptOK'
  <2>1. /\ p.pc = "dirs" /\ dir' = [c \in DOMAIN dir \ {b} |-> dir[c]] /\ UNCHANGED <<opt, pg, wal, pushed>>
    BY <1>10 DEF RemoveExpiredBackup
  <2>2. b \notin Complete
    BY <2>1 DEF ExpireInv, ListOK, RemoveOK
  <2>3. Complete' = Complete /\ \A c \in Complete : dir'[c] = dir[c]
    BY <2>1, <2>2 DEF Complete
  <2>4. wal'[pg.id] = wal[pg.id] \union {} /\ pushed'[pg.id] = pushed[pg.id] \union {}
    BY <2>1
  <2> QED
    BY <2>1, <2>3, <2>4, KeptSame
<1>11. ASSUME NEW w \in p.seg, RemoveExpiredArchive(w) PROVE KeptOK'
  <2>1. /\ p.pc = "archive" /\ wal' = [wal EXCEPT ![p.id] = @ \ {w}]
        /\ UNCHANGED <<opt, pg, pushed, dir>>
    BY <1>11 DEF RemoveExpiredArchive
  <2>2. p.id \in 1 .. pg.id /\ wal \in [1 .. pg.id -> SUBSET Segment]
    BY <1>1, <2>1 DEF ExpireInv, RemoveOK, TypeOK
  <2>3. Complete' = Complete
    BY <2>1 DEF Complete
  <2>4. /\ Ours(Typed)' = Ours(Typed) /\ Retained' = Retained
        /\ \A b \in Retained : \A v : Follows(b, v)' <=> Follows(b, v)
    BY <2>1, <2>3, SameRetained
  <2>5. CASE p.id # pg.id
    <3>1. wal'[pg.id] = wal[pg.id]
      BY <1>1, <2>1, <2>2, <2>5
    <3> QED
      BY <2>1, <2>4, <3>1 DEF KeptOK
  <2>6. CASE p.id = pg.id
    <3>1. wal'[pg.id] = wal[pg.id] \ {w}
      BY <2>1, <2>2, <2>6
    <3>2. Ours(Typed) # {} /\ \A b \in Retained : ~Follows(b, w)
      BY <1>11, <2>1, <2>6 DEF SegOK
    <3> QED
      BY <2>1, <2>4, <3>1, <3>2 DEF KeptOK
  <2> QED
    BY <2>5, <2>6
<1> QED
  BY <1>3, <1>4, <1>5, <1>6, <1>7, <1>8, <1>9, <1>10, <1>11, RemoveManifestKept DEF Next

LEMMA SameOptions ==
  ASSUME ExpireInv, [Next]_vars
  PROVE  opt' = opt
<1>1. ASSUME \/ ExpireByCount \/ \E min \in 1 .. count + 1 : ExpireByTime(min)
             \/ ExpireOldest \/ \E b \in 1 .. count + 1 : ExpireAdhoc(b)
      PROVE  opt' = opt
  BY <1>1, BeginChosen, BeginState
<1> QED
  BY <1>1 DEF Next, vars, ArchivePush, Promote, StanzaUpgrade, Backup, RemoveManifest, RemoveManifestCopy, SaveInfo,
              SaveInfoCopy, RemoveExpiredBackup, ArchiveStart, RemoveExpiredArchive, NextArchive, Done, Crash

LEMMA RecoveryInit ==
  ASSUME Init
  PROVE  RecoveryOK
<1>1. Complete = {} /\ p.pc = "idle" /\ wal = pushed
  BY DEF Init, Complete, Idle
<1>2. Typed = {} /\ Fulls(Complete) = {}
  BY <1>1 DEF Typed, Fulls, OfType
<1>3. KeptFulls = {}
  BY <1>2 DEF KeptFulls, Recent
<1>4. Retained = {}
  BY <1>2, <1>3 DEF Retained, Ours
<1> QED
  BY <1>1, <1>4 DEF RecoveryOK, OrderOK, RetainOK, SegOK, KeptOK

LEMMA RecoveryImplies ==
  ASSUME ExpireInv, RecoveryOK
  PROVE  WalKept
<1> DEFINE here(S) == {b \in S : dir[b].id = pg.id}
           typed == OfType(Available, TypesOf(opt.type))
           fulls == IF opt.type # "full" THEN {}
                    ELSE IF opt.archive = 0 THEN typed
                    ELSE ArchiveRetention(Available, opt.archive, "full")
           newest == IF here(typed) = {} THEN {} ELSE {Newest(here(typed))}
<1>1. Available = Complete /\ Complete \in SUBSET (1 .. count) /\ count \in Nat
  BY CompleteIsListed
<1>2. typed = Typed /\ here(typed) = Ours(Typed)
  BY <1>1 DEF Typed, Ours
<1>3. TypesOf("full") = {"full"}
  BY DEF TypesOf
<1>4. fulls = KeptFulls
  BY <1>1, <1>2, <1>3 DEF KeptFulls, Typed, Fulls, ArchiveRetention, Recent
<1>5. newest \subseteq Retained
  <2>1. Ours(Typed) \in SUBSET (1 .. count)
    BY <1>1 DEF Ours, Typed, OfType
  <2>2. Ours(Typed) # {} =>
          Newest(Ours(Typed)) \in Ours(Typed) /\ \A c \in Ours(Typed) : c <= Newest(Ours(Typed))
    BY <1>1, <2>1, NewestIn
  <2> QED
    BY <1>2, <2>2 DEF Retained
<1>6. here(fulls) \subseteq Retained
  BY <1>4 DEF Retained, Ours
<1> HIDE DEF here, typed, fulls, newest
<1>7. ASSUME ~opt.adhoc
      PROVE  /\ here(typed) = {} => wal[pg.id] = pushed[pg.id]
             /\ \A b \in here(fulls) \union newest :
                  dir[b].start # None =>
                    \A w \in pushed[pg.id] : Before(dir[b].start, w) => w \in wal[pg.id]
  <2>1. KeptOK
    BY <1>7 DEF RecoveryOK
  <2> QED
    BY <1>2, <1>5, <1>6, <2>1 DEF KeptOK, Follows
<1> QED
  BY <1>7 DEF WalKept, here, typed, fulls, newest

(* The WAL of the current cluster is complete from every backup in archive *)
(* retention, whatever removeExpiredArchive() has removed so far, for any  *)
(* settings, as long as no backup is expired by its label.                 *)
THEOREM ExpireWalKept == Spec => []WalKept
<1> DEFINE Inv == ExpireInv /\ FullOK /\ RecoveryOK
<1>1. Init => Inv
  BY ExpireInit, RecoveryInit DEF Init, Idle, FullOK
<1>2. Inv /\ [Next]_vars => Inv'
  <2> SUFFICES ASSUME Inv, [Next]_vars PROVE Inv'
    OBVIOUS
  <2>1. ExpireInv' /\ FullOK' /\ opt' = opt
    BY ExpireNext, FullNext, SameOptions
  <2>2. ASSUME ~opt.adhoc PROVE OrderOK' /\ RetainOK' /\ SegOK' /\ KeptOK'
    <3>1. OrderOK /\ RetainOK /\ SegOK /\ KeptOK
      BY <2>2 DEF RecoveryOK
    <3> QED
      BY <2>2, <3>1, OrderNext, RetainNext, SegNext, KeptNext
  <2> QED
    BY <2>1, <2>2 DEF RecoveryOK
<1>3. Inv => WalKept
  BY RecoveryImplies
<1> QED
  BY <1>1, <1>2, <1>3, PTL DEF Spec
=============================================================================
