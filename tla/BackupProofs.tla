---------------------------- MODULE BackupProofs ----------------------------
(***************************************************************************)
(* Proofs about Backup: a backup that has its manifest is never touched by *)
(* a later command, and one that is listed can be restored, for any number *)
(* of files, changes, commands and failures.                               *)
(***************************************************************************)
EXTENDS Backup, NatSets, TLAPS

(***************************************************************************)
(* Types                                                                   *)
(***************************************************************************)
LabelOrNone == Label \union {None}
ReadFile == [sum : Nat, size : Nat]
JobState == {"none", "check", "copy", "write", "written", "skip", "noop", "checksum"}
Pc == {"idle", "build", "wait", "resume", "remove", "clean", "label", "save", "process",
       "archive", "main", "history", "info", "infoCopy"}
CommandRecord ==
  [pc : Pc, listed : SUBSET Label, prior : LabelOrNone, type : {"full", "diff", "incr"},
   start : Nat, second : 0 .. MaxNow + 1, left : SUBSET Files,
   file : [Files -> Entry \union {None}], copyStart : Nat, delta : BOOLEAN,
   label : LabelOrNone, old : [Files -> SavedEntry \union {None}],
   job : [Files -> JobState], read : [Files -> ReadFile \union {None}],
   gone : SUBSET Files, stop : Nat]
RepoRecord ==
  [copy : Manifest \union {None}, main : Manifest \union {None}, file : [Files -> Int \union {None}]]

DbTypeOK ==
  /\ wal \in Seq([file : Files, gone : BOOLEAN])
  /\ pg \in [Files -> PgFile \union {None}]
  /\ now \in 1 .. MaxNow + 1

RepoTypeOK ==
  /\ DOMAIN repo \subseteq Label
  /\ \A b \in DOMAIN repo : repo[b] \in RepoRecord
  /\ hist \subseteq Label
  /\ info \in [main : SUBSET Label, copy : SUBSET Label]

TypeOK == DbTypeOK /\ RepoTypeOK /\ p \in CommandRecord /\ delta \in BOOLEAN /\ runs \in Nat

(***************************************************************************)
(* Completed backups                                                       *)
(***************************************************************************)

(* The command writes to a directory that has no manifest, and starts a    *)
(* new one only where there is none.                                       *)
LabelOK ==
  /\ p.pc \in {"remove", "clean", "process", "archive", "main"} =>
       p.label \in DOMAIN repo /\ ~HasMain(p.label)
  /\ p.pc = "save" => p.label \in Label \ DOMAIN repo
  /\ p.pc \in {"history", "info", "infoCopy"} => HasMain(p.label)

ListedOK ==
  /\ \A b \in info.main \union info.copy \union p.listed : HasMain(b)
  /\ p.prior # None => HasMain(p.prior)
  /\ p.type = "full" <=> p.prior = None

KeptInv == TypeOK /\ LabelOK /\ ListedOK

(***************************************************************************)
(* The database                                                            *)
(***************************************************************************)
FileOK(f) ==
  IF pg[f] = None
  THEN \E i \in 1 .. Lsn : wal[i].file = f /\ wal[i].gone /\ Covers(f, i, Lsn)
  ELSE pg[f].lsn <= Lsn /\ pg[f].ts <= now /\ Covers(f, pg[f].lsn, Lsn)

(* An entry with this timestamp and contents can be relied on: a file that *)
(* has the timestamp now, or ever will, has the contents.                  *)
Settled(f, ts, sum) ==
  ts < now /\ (pg[f] # None /\ pg[f].ts = ts => pg[f].lsn = sum)

(***************************************************************************)
(* The repository                                                          *)
(***************************************************************************)

(* The file is stored where the entry says.                                *)
RefOK(f, ref, sum) == HasMain(ref) /\ repo[ref].file[f] = sum

Stored(f, e, file) == IF e.ref = None THEN file[f] = e.sum ELSE RefOK(f, e.ref, e.sum)

Sound(f, e, start) == e.sum \in Nat /\ Covers(f, e.sum, start) /\ Settled(f, e.ts, e.sum)

(* A finished backup: what is said of a file that is in the directory.     *)
DoneOK(f, e, start, stop, file) ==
  IF e = None THEN Missing(f, start, stop)
  ELSE Sound(f, e, start) /\ e.sum <= stop /\ Stored(f, e, file)

MainOK(m, file) ==
  /\ m.stop \in Nat /\ m.start <= m.stop /\ m.stop <= Lsn
  /\ \A f \in Files : DoneOK(f, m.file[f], m.start, m.stop, file)

(* What a manifest copy says of a file; a full backup without delta is     *)
(* resumed from it without looking at the data directory.                  *)
CopyOK(m) ==
  \A f \in Files :
    LET e == m.file[f] IN
    e # None /\ e.sum # None =>
      e.sum <= Lsn /\ (m.type = "full" /\ ~delta => Settled(f, e.ts, e.sum))

RepoOK ==
  \A b \in DOMAIN repo : /\ repo[b].main # None => MainOK(repo[b].main, repo[b].file)
                         /\ repo[b].copy # None => CopyOK(repo[b].copy)

(***************************************************************************)
(* The command                                                             *)
(***************************************************************************)

(* A file found with this timestamp has the contents of every entry that   *)
(* has the timestamp, and so the changes until the backup was started.     *)
Fresh(f, ts, start) ==
  \A b \in DOMAIN repo :
    /\ repo[b].main # None => LET e == repo[b].main.file[f] IN
         e # None /\ e.ts = ts => Covers(f, e.sum, start)
    /\ repo[b].copy # None => LET e == repo[b].copy.file[f] IN
         e # None /\ e.sum # None /\ repo[b].copy.type = "full" /\ ~delta /\ e.ts = ts =>
           Covers(f, e.sum, start)

FoundOK(f, e, start, limit) ==
  IF e = None THEN Missing(f, start, Lsn)
  ELSE /\ e.ts <= limit /\ e.sum = None /\ e.ref = None /\ e.copy /\ ~e.delta /\ ~e.resume
       /\ Fresh(f, e.ts, start)

EntryOK(f, e, type, start) ==
  IF e = None THEN Missing(f, start, Lsn)
  ELSE /\ e.ts < now
       /\ e.sum # None => e.sum <= Lsn
       /\ e.ref # None => RefOK(f, e.ref, e.sum)
       /\ ~e.copy => e.ref # None /\ Sound(f, e, start)
       /\ e.resume => type = "full" /\ e.sum # None
       /\ e.resume /\ ~e.delta => Sound(f, e, start)
       /\ type = "full" => e.ref = None
       /\ type = "full" /\ ~delta /\ e.sum # None => Settled(f, e.ts, e.sum)

(* The job of a file, what it read, and what is in the directory.          *)
JobOK(f, e, j, r, gone, start, file) ==
  /\ gone \/ j = "skip" => Missing(f, start, Lsn)
  /\ j # "none" => e # None /\ e.copy
  /\ e # None /\ ~gone /\ j \in {"none", "noop", "checksum"} => Sound(f, e, start) /\ Stored(f, e, file)
  /\ j \in {"write", "written"} =>
       r.sum <= Lsn /\ Covers(f, r.sum, start) /\ Settled(f, e.ts, r.sum)
  /\ j = "written" => file[f] = r.sum

CommandOK ==
  /\ p.pc \notin {"idle", "history", "info", "infoCopy"} => p.start <= Lsn
  /\ p.pc # "process" => p.gone = {}
  /\ p.pc = "build" => \A f \in Files \ p.left : FoundOK(f, p.file[f], p.start, now)
  /\ p.pc = "wait" =>
       p.copyStart <= now /\ \A f \in Files : FoundOK(f, p.file[f], p.start, p.copyStart)
  /\ p.pc \in {"resume", "clean"} =>
       /\ \A f \in Files : p.file[f] # None => Fresh(f, p.file[f].ts, p.start)
       /\ p.type = "full" /\ p.delta => delta
       /\ delta => p.delta
  /\ p.pc \in {"resume", "remove", "clean", "label", "save", "process"} =>
       \A f \in Files : EntryOK(f, p.file[f], p.type, p.start)
  /\ p.pc = "clean" => /\ p.type = "full" /\ repo[p.label].copy # None
                       /\ repo[p.label].copy.type = "full" /\ p.old = repo[p.label].copy.file
  /\ p.pc = "process" =>
       \A f \in Files :
         JobOK(f, p.file[f], p.job[f], p.read[f], f \in p.gone, p.start, repo[p.label].file)
  /\ p.pc \in {"archive", "main"} =>
       /\ p.start <= p.stop /\ p.stop <= Lsn
       /\ \A f \in Files : DoneOK(f, p.file[f], p.start, p.stop, repo[p.label].file)
  /\ p.pc = "main" => repo[p.label].copy = ManifestOf(p.stop)

DataInv == (\A f \in Files : FileOK(f)) /\ RepoOK /\ CommandOK

(***************************************************************************)
(* Labels                                                                  *)
(***************************************************************************)
LEMMA LatestIn ==
  ASSUME NEW S \in SUBSET Label, S # {}
  PROVE  Latest(S) \in S /\ \A b \in S \ {Latest(S)} : Later(Latest(S), b)
<1> DEFINE K == MaxNow + 2
           fulls == {b[1] : b \in S}
<1>1. K \in Nat /\ \A b \in S : b = <<b[1], b[2]>> /\ b[1] \in 0 .. K /\ b[2] \in 0 .. K
  BY BackupAssumption DEF Label, Second
<1>2. PICK x \in fulls : \A y \in fulls : y <= x
  <2>1. fulls \in SUBSET (0 .. K) /\ fulls # {}
    BY <1>1
  <2> HIDE DEF fulls, K
  <2> QED
    BY <1>1, <2>1, HasLast
<1> DEFINE own == {b[2] : b \in {c \in S : c[1] = x}}
<1>3. PICK y \in own : \A z \in own : z <= y
  <2>1. own \in SUBSET (0 .. K) /\ own # {}
    BY <1>1
  <2> HIDE DEF own, K
  <2> QED
    BY <1>1, <2>1, HasLast
<1>4. PICK a \in S : a[1] = x /\ a[2] = y
  BY <1>3
<1>5. ASSUME NEW b \in S \ {a} PROVE Later(a, b)
  <2>1. b[1] \in Nat /\ b[2] \in Nat /\ a[1] \in Nat /\ a[2] \in Nat
    BY <1>1
  <2>2. b[1] <= a[1]
    BY <1>2, <1>4
  <2>3. b[1] = a[1] => b[2] <= a[2]
    BY <1>3, <1>4
  <2>4. b[1] # a[1] \/ b[2] # a[2]
    BY <1>1
  <2> QED
    BY <2>1, <2>2, <2>3, <2>4 DEF Later
<1>6. \E c \in S : \A b \in S \ {c} : Later(c, b)
  BY <1>5
<1> QED
  BY <1>6 DEF Latest

LEMMA LatestType ==
  ASSUME NEW S \in SUBSET Label
  PROVE  Latest(S) \in S \union {None}
<1>1. CASE S = {}
  BY <1>1 DEF Latest
<1>2. CASE S # {}
  BY <1>2, LatestIn
<1> QED
  BY <1>1, <1>2

LEMMA LaterTransitive ==
  ASSUME NEW a \in Label, NEW b \in Label, NEW c \in Label, Later(a, b), Later(b, c)
  PROVE  Later(a, c)
<1>1. /\ a[1] \in Nat /\ a[2] \in Nat /\ b[1] \in Nat /\ b[2] \in Nat
      /\ c[1] \in Nat /\ c[2] \in Nat
  BY BackupAssumption DEF Label, Second
<1> QED
  BY <1>1 DEF Later

LEMMA LaterIsOther ==
  ASSUME NEW a \in Label
  PROVE  ~Later(a, a)
<1>1. a[1] \in Nat /\ a[2] \in Nat
  BY BackupAssumption DEF Label, Second
<1> QED
  BY <1>1 DEF Later

(* backupLabelCreate(): a label that is later than the newest directory is *)
(* not the label of a directory.                                           *)
LEMMA LabelIsNew ==
  ASSUME RepoTypeOK, NEW type, NEW l \in Label,
         LabelLatest(type) = None \/ Later(l, LabelLatest(type))
  PROVE  l \notin DOMAIN repo
<1> SUFFICES ASSUME l \in DOMAIN repo PROVE FALSE
  OBVIOUS
<1> DEFINE top == Latest(DOMAIN repo)
           S == {b \in hist : type = "full" \/ b[1] = top[1]} \union
                (IF top = None THEN {} ELSE {top})
<1>1. DOMAIN repo \in SUBSET Label /\ hist \in SUBSET Label
  BY DEF RepoTypeOK
<1>2. top \in DOMAIN repo /\ \A b \in DOMAIN repo \ {top} : Later(top, b)
  BY <1>1, LatestIn
<1>3. top # None /\ top \in Label
  BY <1>1, <1>2, NoneAssumption
<1> HIDE DEF top
<1>4. top \in S /\ S \in SUBSET Label
  BY <1>1, <1>3
<1>5. LabelLatest(type) = Latest(S)
  BY DEF LabelLatest, top
<1> HIDE DEF S
<1>6. Latest(S) \in Label /\ (Latest(S) = top \/ Later(Latest(S), top))
  BY <1>4, LatestIn
<1>7. Later(l, Latest(S))
  BY <1>5, <1>6, NoneAssumption
<1>8. Later(l, top)
  BY <1>3, <1>6, <1>7, LaterTransitive
<1>9. l # top
  BY <1>3, <1>8, LaterIsOther
<1> QED
  BY <1>2, <1>3, <1>8, <1>9, LaterTransitive, LaterIsOther

(***************************************************************************)
(* A backup that has its manifest is kept.                                 *)
(***************************************************************************)
Kept ==
  \A b \in DOMAIN repo : HasMain(b) =>
    b \in DOMAIN repo' /\ repo'[b].main = repo[b].main /\ repo'[b].file = repo[b].file

LEMMA KeptHasMain ==
  ASSUME Kept, NEW b, HasMain(b)
  PROVE  HasMain(b)'
BY DEF Kept, HasMain

(* A step that leaves the repository alone.                                *)
LEMMA RepoSame ==
  ASSUME KeptInv, UNCHANGED <<repo, hist, info>>, DbTypeOK', p' \in CommandRecord,
         delta' \in BOOLEAN, runs' \in Nat, LabelOK',
         \A b \in p'.listed : HasMain(b), p'.prior # None => HasMain(p'.prior),
         p'.type = "full" <=> p'.prior = None
  PROVE  KeptInv' /\ Kept
<1>1. RepoTypeOK' /\ Kept
  BY DEF KeptInv, TypeOK, RepoTypeOK, Kept, HasMain
<1>2. ListedOK'
  BY DEF KeptInv, ListedOK, HasMain
<1> QED
  BY <1>1, <1>2 DEF KeptInv, TypeOK

(* The steps of the database.                                              *)
LEMMA DbKept ==
  ASSUME KeptInv, Tick \/ \E f \in Files : PgWrite(f) \/ PgRemove(f)
  PROVE  KeptInv' /\ Kept
<1> USE DEF KeptInv, TypeOK
<1>1. UNCHANGED <<repo, hist, info, p, delta, runs>>
  BY DEF Tick, PgWrite, PgRemove
<1>2. DbTypeOK'
  <2>1. CASE Tick
    BY <2>1, BackupAssumption DEF Tick, DbTypeOK
  <2>2. ASSUME NEW f \in Files, PgWrite(f) PROVE DbTypeOK'
    <3>1. PICK size \in Sizes : pg' = [pg EXCEPT ![f] = [lsn |-> Lsn + 1, ts |-> now, size |-> size]]
      BY <2>2 DEF PgWrite
    <3>2. [lsn |-> Lsn + 1, ts |-> now, size |-> size] \in PgFile
      BY DEF PgFile, DbTypeOK, Lsn
    <3>3. pg' \in [Files -> PgFile \union {None}] /\ now' = now
      BY <2>2, <3>1, <3>2 DEF DbTypeOK, PgWrite
    <3>4. wal' \in Seq([file : Files, gone : BOOLEAN])
      BY <2>2 DEF PgWrite, DbTypeOK
    <3> QED
      BY <3>3, <3>4 DEF DbTypeOK
  <2>3. ASSUME NEW f \in Files, PgRemove(f) PROVE DbTypeOK'
    BY <2>3 DEF PgRemove, DbTypeOK
  <2> QED
    BY <2>1, <2>2, <2>3
<1>3. LabelOK'
  BY <1>1 DEF LabelOK, HasMain
<1> QED
  BY <1>1, <1>2, <1>3, RepoSame DEF ListedOK

LEMMA IdleType == Idle \in CommandRecord
<1>1. NoFiles \in [Files -> Entry \union {None}] /\ NoFiles \in [Files -> SavedEntry \union {None}]
      /\ NoFiles \in [Files -> ReadFile \union {None}]
  BY DEF NoFiles
<1>2. [f \in Files |-> "none"] \in [Files -> JobState]
  BY DEF JobState
<1>3. 0 \in 0 .. MaxNow + 1
  BY BackupAssumption
<1> QED
  BY <1>1, <1>2, <1>3 DEF Idle, CommandRecord, Pc, LabelOrNone

(* The command ends.                                                       *)
LEMMA IdleKept ==
  ASSUME KeptInv, UNCHANGED <<repo, hist, info>>, DbTypeOK', p' = Idle,
         delta' \in BOOLEAN, runs' \in Nat
  PROVE  KeptInv' /\ Kept
<1>1. p'.pc = "idle" /\ p'.listed = {} /\ p'.prior = None /\ p'.type = "full"
  BY DEF Idle
<1>2. LabelOK'
  BY <1>1 DEF LabelOK
<1> QED
  BY <1>1, <1>2, IdleType, RepoSame

(* A step of the command that leaves the repository and the choice of the  *)
(* prior backup alone.                                                     *)
LEMMA CommandKept ==
  ASSUME KeptInv, UNCHANGED <<wal, pg, now, repo, hist, info, delta, runs>>, p' \in CommandRecord,
         LabelOK', p'.listed = p.listed, p'.prior = p.prior, p'.type = p.type
  PROVE  KeptInv' /\ Kept
<1>1. DbTypeOK'
  BY DEF KeptInv, TypeOK, DbTypeOK
<1> QED
  BY <1>1, RepoSame DEF KeptInv, TypeOK, ListedOK

LEMMA ReconstructHasMain ==
  ASSUME NEW S, NEW b \in InfoBackupLoadFileReconstruct(S)
  PROVE  HasMain(b)
BY DEF InfoBackupLoadFileReconstruct

LEMMA StartKept ==
  ASSUME KeptInv, BackupStart
  PROVE  KeptInv' /\ Kept
<1> USE DEF KeptInv, TypeOK
<1> DEFINE listed == InfoBackupLoadFileReconstruct(info.main)
<1>1. PICK type \in Types, d \in BOOLEAN :
        /\ LET prior == BackupBuildIncrPrior(type, listed)
           IN  p' = [Idle EXCEPT !.pc = "build", !.listed = listed, !.prior = prior,
                                 !.type = IF prior = None THEN "full" ELSE type,
                                 !.start = Lsn, !.second = now, !.left = Files]
        /\ delta' = d
  BY DEF BackupStart
<1> DEFINE prior == BackupBuildIncrPrior(type, listed)
           ptype == IF prior = None THEN "full" ELSE type
<1>2. \A b \in listed : HasMain(b) /\ b \in Label
  BY ReconstructHasMain DEF HasMain, RepoTypeOK
<1> HIDE DEF listed
<1>3. prior # None => prior \in listed /\ type # "full"
  <2> DEFINE S == {b \in listed : type = "incr" \/ (type = "diff" /\ b[2] = 0)}
  <2>1. prior \in S \union {None}
    <3>1. S \in SUBSET Label
      BY <1>2
    <3>2. prior = Latest(S)
      BY DEF BackupBuildIncrPrior
    <3> HIDE DEF S, prior
    <3> QED
      BY <3>1, <3>2, LatestType
  <2> QED
    BY <2>1
<1> HIDE DEF prior
<1>4. ptype \in {"full", "diff", "incr"} /\ (ptype = "full" <=> prior = None)
  BY <1>3, BackupAssumption
<1>5. p' = [Idle EXCEPT !.pc = "build", !.listed = listed, !.prior = prior, !.type = ptype,
                        !.start = Lsn, !.second = now, !.left = Files]
  BY <1>1 DEF prior
<1> HIDE DEF ptype
<1>6. Lsn \in Nat /\ now \in 0 .. MaxNow + 1 /\ listed \in SUBSET Label /\ prior \in LabelOrNone
  BY <1>2, <1>3, BackupAssumption DEF Lsn, DbTypeOK, LabelOrNone
<1>7. /\ p' \in CommandRecord /\ p'.pc = "build" /\ p'.listed = listed /\ p'.prior = prior
      /\ p'.type = ptype
  <2>1. PICK q \in CommandRecord : q = Idle
    BY IdleType
  <2>2. "build" \in Pc
    BY DEF Pc
  <2> HIDE DEF KeptInv, TypeOK
  <2> QED
    BY <1>4, <1>5, <1>6, <2>1, <2>2 DEF CommandRecord
<1>8. UNCHANGED <<wal, pg, now, repo, hist, info>> /\ delta' \in BOOLEAN /\ runs' \in Nat
  BY <1>1 DEF BackupStart, db
<1>9. DbTypeOK'
  BY <1>8 DEF DbTypeOK
<1>10. LabelOK'
  BY <1>7 DEF LabelOK
<1> QED
  BY <1>2, <1>3, <1>4, <1>7, <1>8, <1>9, <1>10, RepoSame

LEMMA AbortKept ==
  ASSUME KeptInv, Abort
  PROVE  KeptInv' /\ Kept
<1>1. UNCHANGED <<wal, pg, now, repo, hist, info, delta, runs>> /\ p' = Idle
  BY DEF Abort, db
<1>2. DbTypeOK'
  BY <1>1 DEF KeptInv, TypeOK, DbTypeOK
<1> QED
  BY <1>1, <1>2, IdleKept DEF KeptInv, TypeOK

LEMMA BuildInfoKept ==
  ASSUME KeptInv, NEW f \in Files, ManifestBuildInfo(f)
  PROVE  KeptInv' /\ Kept
<1> USE DEF KeptInv, TypeOK
<1> DEFINE e == IF pg[f] = None THEN None
                ELSE [ts |-> pg[f].ts, size |-> pg[f].size, orig |-> pg[f].size,
                      sum |-> None, ref |-> None, copy |-> TRUE, delta |-> FALSE, resume |-> FALSE]
<1>1. /\ p' = [p EXCEPT !.left = @ \ {f}, !.file[f] = e] /\ p.pc = "build"
      /\ UNCHANGED <<wal, pg, now, repo, hist, info, delta, runs>>
  BY DEF ManifestBuildInfo, db
<1>2. e \in Entry \union {None}
  <2>1. CASE pg[f] # None
    <3>1. pg[f] \in PgFile
      BY <2>1 DEF DbTypeOK
    <3>2. pg[f].ts \in Nat /\ pg[f].size \in Nat
      BY <3>1, BackupAssumption DEF PgFile
    <3> QED
      BY <2>1, <3>2 DEF Entry
  <2> QED
    BY <2>1
<1> HIDE DEF e
<1>3. p' \in CommandRecord /\ p'.pc = "build" /\ p'.listed = p.listed /\ p'.prior = p.prior
      /\ p'.type = p.type
  <2>1. p \in CommandRecord
    OBVIOUS
  <2> HIDE DEF KeptInv, TypeOK
  <2> QED
    BY <1>1, <1>2, <2>1 DEF CommandRecord
<1>4. LabelOK'
  BY <1>3 DEF LabelOK
<1> QED
  BY <1>1, <1>3, <1>4, CommandKept

LEMMA TimeKept ==
  ASSUME KeptInv, BackupTime
  PROVE  KeptInv' /\ Kept
<1>1. p \in CommandRecord /\ now \in Nat
  BY DEF KeptInv, TypeOK, DbTypeOK
<1>2. p' = [p EXCEPT !.pc = "wait", !.copyStart = now]
      /\ UNCHANGED <<wal, pg, now, repo, hist, info, delta, runs>>
  BY DEF BackupTime, db
<1>3. p' \in CommandRecord /\ p'.pc = "wait" /\ p'.listed = p.listed /\ p'.prior = p.prior
      /\ p'.type = p.type
  BY <1>1, <1>2 DEF CommandRecord, Pc
<1>4. LabelOK'
  BY <1>3 DEF LabelOK
<1> QED
  BY <1>2, <1>3, <1>4, CommandKept

(* The entry that manifestBuildIncr() makes.                               *)
LEMMA BuildIncrType ==
  ASSUME NEW e \in Entry \union {None}, NEW q \in SavedEntry \union {None},
         NEW label \in Label, NEW d \in BOOLEAN
  PROVE  BuildIncr(e, q, label, d) \in Entry \union {None}
<1>1. CASE e = None \/ q = None
  BY <1>1 DEF BuildIncr
<1>2. CASE e # None /\ q # None
  <2> DEFINE ref == IF q.ref = None THEN label ELSE q.ref
             copy == d \/ e.ts # q.ts
  <2>1. ref \in Label /\ copy \in BOOLEAN /\ q.sum \in Nat \union {None} /\ e \in Entry
    BY <1>2 DEF SavedEntry
  <2>2. BuildIncr(e, q, label, d) = IF e.size # q.size THEN e
          ELSE [e EXCEPT !.sum = q.sum, !.ref = ref, !.delta = d, !.copy = copy]
    BY <1>2 DEF BuildIncr
  <2> HIDE DEF ref, copy
  <2> QED
    BY <2>1, <2>2 DEF Entry
<1> QED
  BY <1>1, <1>2

(* The entries of the prior backup.                                        *)
PriorFiles == IF p.prior = None THEN NoFiles ELSE repo[p.prior].main.file

LEMMA PriorFilesType ==
  ASSUME KeptInv
  PROVE  PriorFiles \in [Files -> SavedEntry \union {None}]
<1>1. CASE p.prior = None
  BY <1>1 DEF PriorFiles, NoFiles
<1>2. CASE p.prior # None
  <2>1. p.prior \in DOMAIN repo /\ repo[p.prior].main # None /\ repo[p.prior] \in RepoRecord
    BY <1>2 DEF KeptInv, TypeOK, RepoTypeOK, ListedOK, HasMain
  <2>2. repo[p.prior].main \in Manifest
    BY <2>1 DEF RepoRecord
  <2>3. repo[p.prior].main.file \in [Files -> SavedEntry \union {None}]
    BY <2>2 DEF Manifest
  <2> QED
    BY <1>2, <2>3 DEF PriorFiles
<1> QED
  BY <1>1, <1>2

(* What the step of manifestBuildIncr() does.                              *)
LEMMA BuildIncrStep ==
  ASSUME KeptInv, ManifestBuildIncr
  PROVE  \E d \in BOOLEAN :
           /\ delta => d
           /\ p.prior = None /\ d => delta \/ NeedsDelta(p.file, PriorFiles, p.copyStart)
           /\ p' \in CommandRecord /\ p'.pc = "resume" /\ p'.delta = d
           /\ \A f \in Files : p'.file[f] = BuildIncr(p.file[f], PriorFiles[f], p.prior, d)
           /\ p'.listed = p.listed /\ p'.prior = p.prior /\ p'.type = p.type
           /\ p'.start = p.start /\ p'.gone = p.gone
<1>0. PICK switched \in {FALSE, p.prior # None} :
        LET d == delta \/ switched \/ NeedsDelta(p.file, PriorFiles, p.copyStart)
        IN  p' = [p EXCEPT !.pc = "resume", !.copyStart = 0, !.delta = d,
                           !.file = [f \in Files |-> BuildIncr(p.file[f], PriorFiles[f], p.prior, d)]]
  BY DEF ManifestBuildIncr, PriorFiles
<1> DEFINE d == delta \/ switched \/ NeedsDelta(p.file, PriorFiles, p.copyStart)
           file == [f \in Files |-> BuildIncr(p.file[f], PriorFiles[f], p.prior, d)]
<1>1. p' = [p EXCEPT !.pc = "resume", !.copyStart = 0, !.delta = d, !.file = file]
  BY <1>0
<1>2. d \in BOOLEAN
  BY DEF KeptInv, TypeOK, NeedsDelta
<1>7. (delta => d) /\ (p.prior = None /\ d => delta \/ NeedsDelta(p.file, PriorFiles, p.copyStart))
  OBVIOUS
<1> HIDE DEF d
<1>3. p \in CommandRecord
  BY DEF KeptInv, TypeOK
<1>4. ASSUME NEW f \in Files PROVE BuildIncr(p.file[f], PriorFiles[f], p.prior, d) \in Entry \union {None}
  <2>1. p.file[f] \in Entry \union {None} /\ p.prior \in Label \union {None}
    BY <1>3 DEF CommandRecord, LabelOrNone
  <2>2. PriorFiles[f] \in SavedEntry \union {None}
    BY PriorFilesType
  <2>3. CASE p.prior \in Label
    BY <1>2, <2>1, <2>2, <2>3, BuildIncrType
  <2>4. CASE p.prior = None
    BY <2>1, <2>4 DEF PriorFiles, NoFiles, BuildIncr
  <2> QED
    BY <2>1, <2>3, <2>4
<1>5. file \in [Files -> Entry \union {None}]
      /\ \A f \in Files : file[f] = BuildIncr(p.file[f], PriorFiles[f], p.prior, d)
  BY <1>4
<1> HIDE DEF file
<1>6. /\ p' \in CommandRecord /\ p'.pc = "resume" /\ p'.file = file /\ p'.delta = d
      /\ p'.listed = p.listed /\ p'.prior = p.prior /\ p'.type = p.type /\ p'.start = p.start
      /\ p'.gone = p.gone
  BY <1>1, <1>2, <1>3, <1>5 DEF CommandRecord, Pc
<1> QED
  BY <1>2, <1>5, <1>6, <1>7

LEMMA BuildIncrKept ==
  ASSUME KeptInv, ManifestBuildIncr
  PROVE  KeptInv' /\ Kept
<1>1. p' \in CommandRecord /\ p'.pc = "resume" /\ p'.listed = p.listed /\ p'.prior = p.prior
      /\ p'.type = p.type
  BY BuildIncrStep
<1>2. UNCHANGED <<wal, pg, now, repo, hist, info, delta, runs>>
  BY DEF ManifestBuildIncr, db
<1>3. LabelOK'
  BY <1>1 DEF LabelOK
<1> QED
  BY <1>1, <1>2, <1>3, CommandKept

(* A step that changes at most the directory of the command, which has no  *)
(* manifest.                                                               *)
LEMMA DirectoryKept ==
  ASSUME KeptInv, UNCHANGED <<wal, pg, now, hist, info, delta, runs>>, p' \in CommandRecord,
         NEW l \in Label, ~HasMain(l),
         DOMAIN repo \ {l} \subseteq DOMAIN repo', DOMAIN repo' \subseteq DOMAIN repo \union {l},
         \A b \in DOMAIN repo' \ {l} : repo'[b] = repo[b],
         l \in DOMAIN repo' => repo'[l] \in RepoRecord,
         LabelOK', \A b \in p'.listed : HasMain(b), p'.prior # None => HasMain(p'.prior),
         p'.type = "full" <=> p'.prior = None
  PROVE  KeptInv' /\ Kept
<1>1. Kept
  BY DEF Kept, HasMain
<1>2. DbTypeOK' /\ delta' \in BOOLEAN /\ runs' \in Nat
  BY DEF KeptInv, TypeOK, DbTypeOK
<1>3. RepoTypeOK'
  BY DEF KeptInv, TypeOK, RepoTypeOK
<1>4. ListedOK'
  <2>1. \A b : HasMain(b) => HasMain(b)'
    BY <1>1, KeptHasMain
  <2> QED
    BY <2>1 DEF KeptInv, ListedOK
<1> QED
  BY <1>1, <1>2, <1>3, <1>4 DEF KeptInv, TypeOK

(* What the step of backupResumeFind() does.                               *)
LEMMA ResumeFindStep ==
  ASSUME KeptInv, BackupResumeFind
  PROVE  /\ p' \in CommandRecord /\ p'.listed = p.listed /\ p'.prior = p.prior /\ p'.type = p.type
         /\ p'.start = p.start /\ p'.gone = p.gone /\ p'.file = p.file /\ p'.delta = p.delta
         /\ \/ p'.pc = "label"
            \/ p'.pc = "remove" /\ p'.label \in DOMAIN repo /\ ~HasMain(p'.label)
            \/ /\ p'.pc = "clean" /\ p'.label \in DOMAIN repo /\ ~HasMain(p'.label)
               /\ p.type = "full" /\ repo[p'.label].copy # None
               /\ repo[p'.label].copy.type = "full" /\ p'.old = repo[p'.label].copy.file
<1> DEFINE b == Latest(DOMAIN repo)
           left == {f \in Files : repo[b].file[f] # None}
<1>1. p \in CommandRecord
  BY DEF KeptInv, TypeOK
<1>2. b \in DOMAIN repo \union {None} /\ b \in LabelOrNone
  <2>1. DOMAIN repo \in SUBSET Label
    BY DEF KeptInv, TypeOK, RepoTypeOK
  <2>2. Latest(DOMAIN repo) \in DOMAIN repo \union {None}
    BY <2>1, LatestType
  <2> QED
    BY <2>1, <2>2 DEF LabelOrNone
<1>3. \/ p' = [p EXCEPT !.pc = "label"]
      \/ Unfinished(b) /\ p' = [p EXCEPT !.pc = "remove", !.label = b]
      \/ /\ Unfinished(b) /\ Resumable(b)
         /\ p' = [p EXCEPT !.pc = "clean", !.label = b, !.old = repo[b].copy.file, !.left = left]
  BY DEF BackupResumeFind
<1> HIDE DEF b
<1>4. left \in SUBSET Files
  OBVIOUS
<1> HIDE DEF left
<1>5. Unfinished(b) => b \in DOMAIN repo /\ ~HasMain(b)
  BY <1>2 DEF Unfinished
<1>6. CASE p' = [p EXCEPT !.pc = "label"]
  BY <1>1, <1>6 DEF CommandRecord, Pc
<1>7. CASE Unfinished(b) /\ p' = [p EXCEPT !.pc = "remove", !.label = b]
  BY <1>1, <1>2, <1>5, <1>7 DEF CommandRecord, Pc
<1>8. CASE /\ Unfinished(b) /\ Resumable(b)
           /\ p' = [p EXCEPT !.pc = "clean", !.label = b, !.old = repo[b].copy.file, !.left = left]
  <2>1. repo[b] \in RepoRecord /\ repo[b].copy # None /\ repo[b].copy.type = "full" /\ p.type = "full"
    BY <1>5, <1>8 DEF KeptInv, TypeOK, RepoTypeOK, Resumable
  <2> DEFINE copy == repo[b].copy
             old == copy.file
  <2>2. copy \in Manifest
    BY <2>1 DEF RepoRecord
  <2> HIDE DEF copy
  <2>3. old \in [Files -> SavedEntry \union {None}]
    BY <2>2 DEF Manifest
  <2>4. p' = [p EXCEPT !.pc = "clean", !.label = b, !.old = old, !.left = left]
    BY <1>8 DEF copy
  <2>5. old = repo[b].copy.file
    BY DEF copy
  <2> HIDE DEF old
  <2>6. /\ p' \in CommandRecord /\ p'.listed = p.listed /\ p'.prior = p.prior /\ p'.type = p.type
        /\ p'.start = p.start /\ p'.gone = p.gone /\ p'.file = p.file /\ p'.delta = p.delta
        /\ p'.pc = "clean" /\ p'.label = b /\ p'.old = old
    BY <1>1, <1>2, <1>4, <2>3, <2>4 DEF CommandRecord, Pc
  <2> QED
    BY <1>5, <1>8, <2>1, <2>5, <2>6
<1> QED
  BY <1>3, <1>6, <1>7, <1>8

LEMMA ResumeFindKept ==
  ASSUME KeptInv, BackupResumeFind
  PROVE  KeptInv' /\ Kept
<1>1. UNCHANGED <<wal, pg, now, repo, hist, info, delta, runs>>
  BY DEF BackupResumeFind, db
<1>2. LabelOK'
  BY <1>1, ResumeFindStep DEF LabelOK, HasMain
<1> QED
  BY <1>1, <1>2, ResumeFindStep, CommandKept

(* What the steps of storagePathRemove() do.                               *)
LEMMA RemoveStep ==
  ASSUME KeptInv, StoragePathRemove
  PROVE  /\ p.pc = "remove" /\ p.label \in DOMAIN repo /\ ~HasMain(p.label) /\ p.label \in Label
         /\ p' \in CommandRecord
         /\ \A b \in DOMAIN repo' \ {p.label} : repo'[b] = repo[b]
         /\ \/ /\ p' = p /\ DOMAIN repo' = DOMAIN repo
               /\ repo'[p.label] \in RepoRecord /\ repo'[p.label].main = None
               /\ repo'[p.label].copy \in {None, repo[p.label].copy}
            \/ p' = [p EXCEPT !.pc = "label"] /\ DOMAIN repo' = DOMAIN repo \ {p.label}
<1>1. p \in CommandRecord /\ p.pc = "remove" /\ p.label \in DOMAIN repo /\ ~HasMain(p.label)
      /\ p.label \in Label
  BY DEF KeptInv, TypeOK, LabelOK, StoragePathRemove, RepoTypeOK
<1> DEFINE l == p.label
           r == repo[l]
<1>2. r \in RepoRecord /\ r.main = None
  BY <1>1 DEF KeptInv, TypeOK, RepoTypeOK, HasMain
<1>3. CASE repo' = [repo EXCEPT ![p.label].copy = None] /\ p' = p
  <2>1. DOMAIN repo' = DOMAIN repo /\ repo'[l] = [r EXCEPT !.copy = None]
        /\ \A b \in DOMAIN repo' \ {l} : repo'[b] = repo[b]
    BY <1>1, <1>3
  <2>2. repo'[l] \in RepoRecord /\ repo'[l].main = None /\ repo'[l].copy = None
    <3> HIDE DEF l, r
    <3> QED
      BY <1>2, <2>1 DEF RepoRecord
  <2> QED
    BY <1>1, <1>3, <2>1, <2>2
<1>4. ASSUME NEW f \in Files, repo' = [repo EXCEPT ![p.label].file[f] = None], p' = p
      PROVE  /\ p' = p /\ DOMAIN repo' = DOMAIN repo
             /\ \A b \in DOMAIN repo' \ {p.label} : repo'[b] = repo[b]
             /\ repo'[p.label] \in RepoRecord /\ repo'[p.label].main = None
             /\ repo'[p.label].copy = repo[p.label].copy
  <2>1. DOMAIN repo' = DOMAIN repo /\ repo'[l] = [r EXCEPT !.file[f] = None]
        /\ \A b \in DOMAIN repo' \ {l} : repo'[b] = repo[b]
    BY <1>1, <1>4
  <2>2. repo'[l] \in RepoRecord /\ repo'[l].main = None /\ repo'[l].copy = r.copy
    <3> HIDE DEF l, r
    <3> QED
      BY <1>2, <2>1 DEF RepoRecord
  <2> QED
    BY <1>4, <2>1, <2>2
<1>5. CASE repo' = [b \in DOMAIN repo \ {p.label} |-> repo[b]] /\ p' = [p EXCEPT !.pc = "label"]
  <2>1. DOMAIN repo' = DOMAIN repo \ {p.label} /\ \A b \in DOMAIN repo' \ {p.label} : repo'[b] = repo[b]
    BY <1>5
  <2>2. p' \in CommandRecord
    BY <1>1, <1>5 DEF CommandRecord, Pc
  <2> QED
    BY <1>1, <1>5, <2>1, <2>2
<1> QED
  BY <1>1, <1>3, <1>4, <1>5 DEF StoragePathRemove

LEMMA RemoveKept ==
  ASSUME KeptInv, StoragePathRemove
  PROVE  KeptInv' /\ Kept
<1>1. UNCHANGED <<wal, pg, now, hist, info, delta, runs>>
  BY DEF StoragePathRemove, db
<1>2. /\ p \in CommandRecord /\ \A b \in p.listed : HasMain(b)
      /\ (p.prior # None => HasMain(p.prior)) /\ (p.type = "full" <=> p.prior = None)
  BY DEF KeptInv, TypeOK, ListedOK
<1>3. /\ p'.listed = p.listed /\ p'.prior = p.prior /\ p'.type = p.type
      /\ \/ /\ p'.pc = "remove" /\ p'.label = p.label
            /\ p.label \in DOMAIN repo' /\ repo'[p.label].main = None
         \/ p'.pc = "label"
  BY <1>2, RemoveStep DEF CommandRecord
<1>4. LabelOK'
  BY <1>3 DEF LabelOK, HasMain
<1> QED
  BY <1>1, <1>2, <1>3, <1>4, RemoveStep, DirectoryKept

(* What the backup is of, chosen when it was started.                      *)
SameChoice ==
  p'.listed = p.listed /\ p'.prior = p.prior /\ p'.type = p.type /\ p'.start = p.start

(* A file of the directory of the command is stored or removed.            *)
LEMMA FileStep ==
  ASSUME KeptInv, NEW l \in DOMAIN repo, ~HasMain(l), NEW f \in Files, NEW v \in Int \union {None},
         repo' = [repo EXCEPT ![l].file[f] = v]
  PROVE  /\ DOMAIN repo' = DOMAIN repo /\ \A b \in DOMAIN repo' \ {l} : repo'[b] = repo[b]
         /\ repo'[l] \in RepoRecord /\ repo'[l].main = None /\ repo'[l].copy = repo[l].copy
         /\ repo'[l].file[f] = v /\ \A g \in Files \ {f} : repo'[l].file[g] = repo[l].file[g]
<1> DEFINE r == repo[l]
<1>1. r \in RepoRecord /\ r.main = None
  BY DEF KeptInv, TypeOK, RepoTypeOK, HasMain
<1>2. DOMAIN repo' = DOMAIN repo /\ repo'[l] = [r EXCEPT !.file[f] = v]
      /\ \A b \in DOMAIN repo' \ {l} : repo'[b] = repo[b]
  OBVIOUS
<1>3. /\ repo'[l] \in RepoRecord /\ repo'[l].main = None /\ repo'[l].copy = r.copy
      /\ repo'[l].file[f] = v /\ \A g \in Files \ {f} : repo'[l].file[g] = r.file[g]
  <2> HIDE DEF r
  <2> QED
    BY <1>1, <1>2 DEF RepoRecord
<1> QED
  BY <1>2, <1>3

(* A step of the command on its directory that leaves the choice alone and *)
(* does not end the work on the directory.                                 *)
LEMMA WorkKept ==
  ASSUME KeptInv, UNCHANGED <<wal, pg, now, hist, info, delta, runs>>, p' \in CommandRecord,
         p.label \in DOMAIN repo, ~HasMain(p.label), SameChoice, p'.label = p.label,
         p'.pc \in {"remove", "clean", "process", "archive", "main"},
         DOMAIN repo' = DOMAIN repo, \A b \in DOMAIN repo' \ {p.label} : repo'[b] = repo[b],
         repo'[p.label] \in RepoRecord, repo'[p.label].main = None
  PROVE  KeptInv' /\ Kept
<1>1. LabelOK'
  BY DEF LabelOK, HasMain
<1>2. p.label \in Label
  BY DEF KeptInv, TypeOK, RepoTypeOK
<1>3. /\ \A b \in p'.listed : HasMain(b)
      /\ (p'.prior # None => HasMain(p'.prior)) /\ (p'.type = "full" <=> p'.prior = None)
  BY DEF KeptInv, ListedOK, SameChoice
<1> QED
  BY <1>1, <1>2, <1>3, DirectoryKept

(* The same for a step that leaves the directory alone.                    *)
LEMMA StillKept ==
  ASSUME KeptInv, UNCHANGED <<wal, pg, now, repo, hist, info, delta, runs>>, p' \in CommandRecord,
         p.label \in DOMAIN repo, ~HasMain(p.label), SameChoice, p'.label = p.label,
         p'.pc \in {"remove", "clean", "process", "archive", "main"}
  PROVE  KeptInv' /\ Kept
<1>1. LabelOK'
  BY DEF LabelOK, HasMain
<1> QED
  BY <1>1, CommandKept DEF SameChoice

(* What the step of backupResumeClean() does.                              *)
KeptEntry(e, r) == [e EXCEPT !.sum = r.sum, !.resume = TRUE, !.delta = p.delta]

LEMMA CleanStep ==
  ASSUME KeptInv, NEW f \in Files, BackupResumeClean(f)
  PROVE  /\ p' \in CommandRecord /\ SameChoice /\ p'.gone = p.gone /\ p'.delta = p.delta
         /\ p.pc = "clean" /\ p'.pc = "clean" /\ p'.label = p.label /\ p'.old = p.old
         /\ p.label \in DOMAIN repo /\ ~HasMain(p.label)
         /\ \/ /\ Keeps(p.file[f], p.old[f]) /\ repo' = repo
               /\ p.file[f] \in Entry /\ p.old[f] \in SavedEntry
               /\ p'.file = [p.file EXCEPT ![f] = KeptEntry(p.file[f], p.old[f])]
            \/ p'.file = p.file /\ repo' = [repo EXCEPT ![p.label].file[f] = None]
<1>1. p \in CommandRecord /\ p.label \in DOMAIN repo /\ ~HasMain(p.label) /\ p.pc = "clean"
  BY DEF KeptInv, TypeOK, LabelOK, BackupResumeClean
<1> DEFINE left == p.left \ {f}
<1>2. left \in SUBSET Files
  BY <1>1 DEF CommandRecord
<1>3. CASE Keeps(p.file[f], p.old[f])
  <2>1. p.file[f] \in Entry /\ p.old[f] \in SavedEntry /\ p.delta \in BOOLEAN
    BY <1>1, <1>3 DEF Keeps, CommandRecord
  <2>2. KeptEntry(p.file[f], p.old[f]) \in Entry
    <3>1. PICK e \in Entry, r \in SavedEntry, d \in BOOLEAN :
            e = p.file[f] /\ r = p.old[f] /\ d = p.delta
      BY <2>1
    <3>2. [e EXCEPT !.sum = r.sum, !.resume = TRUE, !.delta = d] \in Entry
      BY DEF Entry, SavedEntry
    <3> QED
      BY <3>1, <3>2 DEF KeptEntry
  <2>3. repo' = repo /\ p' = [p EXCEPT !.left = left, !.file[f] = KeptEntry(p.file[f], p.old[f])]
    <3>1. repo' = repo /\ p' = [p EXCEPT !.left = @ \ {f},
            !.file[f] = [@ EXCEPT !.sum = p.old[f].sum, !.resume = TRUE, !.delta = p.delta]]
      BY <1>3 DEF BackupResumeClean
    <3>2. p.file \in [Files -> Entry \union {None}]
      BY <1>1 DEF CommandRecord
    <3> QED
      BY <3>1, <3>2 DEF KeptEntry
  <2> HIDE DEF left
  <2>4. /\ p' \in CommandRecord /\ SameChoice /\ p'.gone = p.gone /\ p'.delta = p.delta
        /\ p'.pc = p.pc /\ p'.label = p.label /\ p'.old = p.old
        /\ p'.file = [p.file EXCEPT ![f] = KeptEntry(p.file[f], p.old[f])]
    BY <1>1, <1>2, <2>2, <2>3 DEF CommandRecord, SameChoice
  <2> QED
    BY <1>1, <1>3, <2>1, <2>3, <2>4
<1>4. CASE ~Keeps(p.file[f], p.old[f])
  <2>1. p' = [p EXCEPT !.left = left] /\ repo' = [repo EXCEPT ![p.label].file[f] = None]
    BY <1>4 DEF BackupResumeClean
  <2> HIDE DEF left
  <2>2. /\ p' \in CommandRecord /\ SameChoice /\ p'.gone = p.gone /\ p'.delta = p.delta
        /\ p'.pc = p.pc /\ p'.label = p.label /\ p'.old = p.old /\ p'.file = p.file
    BY <1>1, <1>2, <2>1 DEF CommandRecord, SameChoice
  <2> QED
    BY <1>1, <2>1, <2>2
<1> QED
  BY <1>3, <1>4

LEMMA CleanKept ==
  ASSUME KeptInv, NEW f \in Files, BackupResumeClean(f)
  PROVE  KeptInv' /\ Kept
<1>1. UNCHANGED <<wal, pg, now, hist, info, delta, runs>>
  BY DEF BackupResumeClean, db
<1>2. CASE repo' = repo
  BY <1>1, <1>2, CleanStep, StillKept
<1>3. CASE repo' = [repo EXCEPT ![p.label].file[f] = None]
  <2>1. /\ DOMAIN repo' = DOMAIN repo /\ \A b \in DOMAIN repo' \ {p.label} : repo'[b] = repo[b]
        /\ repo'[p.label] \in RepoRecord /\ repo'[p.label].main = None
    BY <1>3, CleanStep, FileStep
  <2> QED
    BY <1>1, <2>1, CleanStep, WorkKept
<1> QED
  BY <1>2, <1>3, CleanStep

(* What the step of backupLabelCreate() does.                              *)
LEMMA LabelStep ==
  ASSUME KeptInv, BackupLabel
  PROVE  \/ p' = Idle
         \/ /\ p' \in CommandRecord /\ SameChoice /\ p'.gone = p.gone /\ p'.delta = p.delta
            /\ p'.file = p.file /\ p'.pc = "save" /\ p'.label \in Label \ DOMAIN repo
<1> DEFINE l == BackupLabelCreate(p.type, p.prior, p.second)
           this == BackupLabelFormat(p.type, p.prior, p.second)
           next == BackupLabelFormat(p.type, p.prior, p.second + 1)
           top == LabelLatest(p.type)
<1>1. p \in CommandRecord
  BY DEF KeptInv, TypeOK
<1>2. p.second \in Second /\ p.second + 1 \in Second /\ 0 \in Second
  BY <1>1, BackupAssumption DEF CommandRecord, Second
<1>3. p.type # "full" => p.prior \in Label
  BY <1>1 DEF KeptInv, ListedOK, CommandRecord, LabelOrNone
<1>4. this \in Label /\ next \in Label
  BY <1>2, <1>3 DEF BackupLabelFormat, Label
<1>5. l = None \/ (l \in Label /\ (top = None \/ Later(l, top)))
  <2>1. l = IF top = None \/ Later(this, top) THEN this
            ELSE IF top = None \/ Later(next, top) THEN next ELSE None
    BY DEF BackupLabelCreate
  <2> HIDE DEF l, this, next, top
  <2> QED
    BY <1>4, <2>1
<1>6. p' = IF l = None THEN Idle ELSE [p EXCEPT !.pc = "save", !.label = l]
  BY DEF BackupLabel
<1>7. l # None => l \in Label \ DOMAIN repo
  BY <1>5, LabelIsNew DEF KeptInv, TypeOK
<1> HIDE DEF l
<1>8. CASE l # None
  <2>1. l \in LabelOrNone
    BY <1>7, <1>8 DEF LabelOrNone
  <2>2. p' \in CommandRecord /\ SameChoice /\ p'.gone = p.gone /\ p'.delta = p.delta
        /\ p'.file = p.file /\ p'.pc = "save" /\ p'.label = l
    BY <1>1, <1>6, <1>8, <2>1 DEF CommandRecord, Pc, SameChoice
  <2> QED
    BY <1>7, <1>8, <2>2
<1> QED
  BY <1>6, <1>8

LEMMA LabelKept ==
  ASSUME KeptInv, BackupLabel
  PROVE  KeptInv' /\ Kept
<1>1. UNCHANGED <<wal, pg, now, repo, hist, info, delta, runs>>
  BY DEF BackupLabel, db
<1>2. DbTypeOK' /\ delta' \in BOOLEAN /\ runs' \in Nat
  BY <1>1 DEF KeptInv, TypeOK, DbTypeOK
<1>3. CASE p' = Idle
  BY <1>1, <1>2, <1>3, IdleKept
<1>4. CASE p' # Idle
  <2>1. p' \in CommandRecord /\ SameChoice /\ p'.pc = "save" /\ p'.label \in Label \ DOMAIN repo
    BY <1>4, LabelStep
  <2>2. LabelOK'
    BY <1>1, <2>1 DEF LabelOK
  <2> QED
    BY <1>1, <2>1, <2>2, CommandKept DEF SameChoice
<1> QED
  BY <1>3, <1>4

(* What is saved of the entries.                                           *)
SavedOf(e) ==
  IF e = None THEN None ELSE [ts |-> e.ts, size |-> e.size, orig |-> e.orig, sum |-> e.sum, ref |-> e.ref]

LEMMA ManifestType ==
  ASSUME p \in CommandRecord, NEW stop \in Nat \union {None}
  PROVE  /\ ManifestOf(stop) \in Manifest
         /\ ManifestOf(stop).type = p.type /\ ManifestOf(stop).prior = p.prior
         /\ ManifestOf(stop).start = p.start /\ ManifestOf(stop).stop = stop
         /\ \A f \in Files : ManifestOf(stop).file[f] = SavedOf(p.file[f])
<1> DEFINE file == [f \in Files |-> SavedOf(p.file[f])]
<1>1. ASSUME NEW f \in Files PROVE SavedOf(p.file[f]) \in SavedEntry \union {None}
  <2>1. PICK e \in Entry \union {None} : e = p.file[f]
    BY DEF CommandRecord
  <2>2. SavedOf(e) \in SavedEntry \union {None}
    BY DEF SavedOf, Entry, SavedEntry
  <2> QED
    BY <2>1, <2>2
<1>2. file \in [Files -> SavedEntry \union {None}] /\ \A f \in Files : file[f] = SavedOf(p.file[f])
  BY <1>1
<1>3. ManifestOf(stop) = [type |-> p.type, prior |-> p.prior, start |-> p.start, stop |-> stop, file |-> file]
  BY DEF ManifestOf, SavedOf
<1> HIDE DEF file
<1>4. /\ p.type \in {"full", "diff", "incr"} /\ p.prior \in Label \union {None} /\ p.start \in Nat
  BY DEF CommandRecord, LabelOrNone
<1> QED
  BY <1>2, <1>3, <1>4 DEF Manifest

(* The copy of the manifest is saved.                                      *)
LEMMA SavedStep ==
  ASSUME KeptInv, NEW l \in Label, ~HasMain(l), NEW m \in Manifest, repo' = Saved(l, m)
  PROVE  /\ DOMAIN repo' = DOMAIN repo \union {l}
         /\ \A b \in DOMAIN repo' \ {l} : repo'[b] = repo[b]
         /\ repo'[l] \in RepoRecord /\ repo'[l].main = None /\ repo'[l].copy = m
         /\ l \in DOMAIN repo => repo'[l].file = repo[l].file
         /\ l \notin DOMAIN repo => repo'[l].file = NoFiles
<1>1. DOMAIN repo' = DOMAIN repo \union {l}
  BY DEF Saved
<1>2. ASSUME NEW b \in DOMAIN repo' \ {l} PROVE repo'[b] = repo[b]
  <2>1. b \in DOMAIN repo /\ repo[b] \in RepoRecord
    BY <1>1 DEF KeptInv, TypeOK, RepoTypeOK
  <2>2. repo'[b] = [repo[b] EXCEPT !.copy = repo[b].copy]
    BY <2>1 DEF Saved
  <2> QED
    BY <2>1, <2>2 DEF RepoRecord
<1>3. CASE l \in DOMAIN repo
  <2> DEFINE r == repo[l]
  <2>1. r \in RepoRecord /\ r.main = None
    BY <1>3 DEF KeptInv, TypeOK, RepoTypeOK, HasMain
  <2>2. repo'[l] = [r EXCEPT !.copy = m]
    BY <1>3 DEF Saved
  <2>3. repo'[l] \in RepoRecord /\ repo'[l].main = None /\ repo'[l].copy = m /\ repo'[l].file = r.file
    <3> HIDE DEF r
    <3> QED
      BY <2>1, <2>2 DEF RepoRecord
  <2> QED
    BY <1>1, <1>2, <1>3, <2>3
<1>4. CASE l \notin DOMAIN repo
  <2>1. repo'[l] = [copy |-> m, main |-> None, file |-> NoFiles]
    BY <1>1, <1>4 DEF Saved
  <2>2. NoFiles \in [Files -> Int \union {None}]
    BY DEF NoFiles
  <2>3. repo'[l] \in RepoRecord /\ repo'[l].main = None /\ repo'[l].copy = m /\ repo'[l].file = NoFiles
    BY <2>1, <2>2 DEF RepoRecord
  <2> QED
    BY <1>1, <1>2, <1>4, <2>3
<1> QED
  BY <1>3, <1>4

(* What the first save of the copy does.                                   *)
FirstJob(f) ==
  IF f \notin Queue THEN "none"
  ELSE IF p.file[f].delta \/ p.file[f].resume THEN "check" ELSE "copy"

LEMMA SaveCopyStep ==
  ASSUME KeptInv, BackupManifestSaveCopy
  PROVE  /\ p.label \in Label /\ ~HasMain(p.label)
         /\ p.pc \in {"save", "clean"} /\ repo' = Saved(p.label, ManifestOf(None))
         /\ \/ p' = Idle
            \/ /\ p' \in CommandRecord /\ SameChoice /\ p'.gone = p.gone /\ p'.delta = p.delta
               /\ p'.file = p.file /\ p'.pc = "process" /\ p'.label = p.label
               /\ \A f \in Files : p'.job[f] = FirstJob(f)
<1>1. p \in CommandRecord /\ p.pc \in {"save", "clean"}
  BY DEF KeptInv, TypeOK, BackupManifestSaveCopy
<1>2. p.label \in Label /\ ~HasMain(p.label)
  BY <1>1 DEF KeptInv, TypeOK, RepoTypeOK, LabelOK, HasMain
<1> DEFINE job == [f \in Files |-> FirstJob(f)]
<1>3. repo' = Saved(p.label, ManifestOf(None))
      /\ p' = IF Queue = {} THEN Idle
              ELSE [p EXCEPT !.pc = "process", !.second = 0, !.old = NoFiles, !.job = job]
  BY DEF BackupManifestSaveCopy, FirstJob
<1>4. job \in [Files -> JobState] /\ \A f \in Files : job[f] = FirstJob(f)
  BY DEF JobState, FirstJob
<1> HIDE DEF job
<1>5. NoFiles \in [Files -> SavedEntry \union {None}] /\ 0 \in 0 .. MaxNow + 1
  BY BackupAssumption DEF NoFiles
<1>6. CASE Queue # {}
  <2>1. /\ p' \in CommandRecord /\ SameChoice /\ p'.gone = p.gone /\ p'.delta = p.delta
        /\ p'.file = p.file /\ p'.pc = "process" /\ p'.label = p.label /\ p'.job = job
    BY <1>1, <1>3, <1>4, <1>5, <1>6 DEF CommandRecord, Pc, SameChoice
  <2> QED
    BY <1>1, <1>2, <1>3, <1>4, <2>1
<1> QED
  BY <1>1, <1>2, <1>3, <1>6

LEMMA SaveCopyKept ==
  ASSUME KeptInv, BackupManifestSaveCopy
  PROVE  KeptInv' /\ Kept
<1>1. UNCHANGED <<wal, pg, now, hist, info, delta, runs>>
  BY DEF BackupManifestSaveCopy, db
<1>2. p \in CommandRecord /\ ManifestOf(None) \in Manifest
  BY ManifestType DEF KeptInv, TypeOK
<1>3. /\ DOMAIN repo' = DOMAIN repo \union {p.label}
      /\ \A b \in DOMAIN repo' \ {p.label} : repo'[b] = repo[b]
      /\ repo'[p.label] \in RepoRecord /\ repo'[p.label].main = None
  BY <1>2, SaveCopyStep, SavedStep
<1>4. CASE p' = Idle
  <2>1. p'.pc = "idle" /\ p'.listed = {} /\ p'.prior = None /\ p'.type = "full" /\ p' \in CommandRecord
    BY <1>4, IdleType DEF Idle
  <2>2. LabelOK'
    BY <2>1 DEF LabelOK
  <2> QED
    BY <1>1, <1>3, <2>1, <2>2, SaveCopyStep, DirectoryKept
<1>5. CASE p' # Idle
  <2>1. p' \in CommandRecord /\ SameChoice /\ p'.pc = "process" /\ p'.label = p.label
    BY <1>5, SaveCopyStep
  <2>2. LabelOK'
    BY <1>3, <2>1 DEF LabelOK, HasMain
  <2>3. /\ \A b \in p'.listed : HasMain(b)
        /\ (p'.prior # None => HasMain(p'.prior)) /\ (p'.type = "full" <=> p'.prior = None)
    BY <2>1 DEF KeptInv, ListedOK, SameChoice
  <2> QED
    BY <1>1, <1>3, <2>1, <2>2, <2>3, SaveCopyStep, DirectoryKept
<1> QED
  BY <1>4, <1>5

(* What a job needs to know of its file, and the last save.                *)
WorkOK ==
  /\ p.pc = "process" => \A f \in Files :
       /\ p.job[f] # "none" => p.file[f] \in Entry
       /\ p.job[f] \in {"write", "written"} => p.read[f] \in ReadFile
  /\ p.pc = "main" => repo[p.label].copy # None

(* The steps of a job change the job, and what is known of its file.       *)
SameWork ==
  /\ p' \in CommandRecord /\ SameChoice /\ p.pc = "process" /\ p'.pc = "process"
  /\ p'.label = p.label /\ p.label \in DOMAIN repo /\ ~HasMain(p.label)

LEMMA JobStep ==
  ASSUME KeptInv, p.pc = "process", NEW f \in Files, NEW j \in JobState, p' = [p EXCEPT !.job[f] = j]
  PROVE  /\ SameWork /\ p'.job = [p.job EXCEPT ![f] = j]
         /\ p'.file = p.file /\ p'.read = p.read /\ p'.gone = p.gone
<1>1. p \in CommandRecord /\ p.label \in DOMAIN repo /\ ~HasMain(p.label)
  BY DEF KeptInv, TypeOK, LabelOK
<1>2. /\ p' \in CommandRecord /\ SameChoice /\ p'.pc = p.pc /\ p'.label = p.label
      /\ p'.job = [p.job EXCEPT ![f] = j]
      /\ p'.file = p.file /\ p'.read = p.read /\ p'.gone = p.gone
  BY <1>1 DEF CommandRecord, SameChoice
<1> QED
  BY <1>1, <1>2 DEF SameWork

(* A job leaves the directory alone, or stores or removes its file there.  *)
LEMMA JobKept ==
  ASSUME KeptInv, UNCHANGED <<wal, pg, now, hist, info, delta, runs>>, SameWork,
         NEW f \in Files, NEW v \in Int \union {None},
         repo' = repo \/ repo' = [repo EXCEPT ![p.label].file[f] = v]
  PROVE  KeptInv' /\ Kept
<1>1. CASE repo' = repo
  BY <1>1, StillKept DEF SameWork
<1>2. CASE repo' = [repo EXCEPT ![p.label].file[f] = v]
  <2>1. /\ DOMAIN repo' = DOMAIN repo /\ \A b \in DOMAIN repo' \ {p.label} : repo'[b] = repo[b]
        /\ repo'[p.label] \in RepoRecord /\ repo'[p.label].main = None
    BY <1>2, FileStep DEF SameWork
  <2> QED
    BY <2>1, WorkKept DEF SameWork
<1> QED
  BY <1>1, <1>2

LEMMA JobTyped ==
  ASSUME KeptInv, WorkOK, p.pc = "process", p'.file = p.file, p'.read = p.read,
         NEW f \in Files, NEW j \in JobState, p'.job = [p.job EXCEPT ![f] = j], p.job[f] # "none",
         j = "written" => p.job[f] = "write", j # "write", p'.pc = "process"
  PROVE  WorkOK'
<1>1. p.job \in [Files -> JobState]
  BY DEF KeptInv, TypeOK, CommandRecord
<1>2. ASSUME NEW g \in Files
      PROVE  /\ p'.job[g] # "none" => p'.file[g] \in Entry
             /\ p'.job[g] \in {"write", "written"} => p'.read[g] \in ReadFile
  <2>1. CASE g = f
    BY <1>1, <2>1 DEF WorkOK
  <2>2. CASE g # f
    BY <1>1, <2>2 DEF WorkOK
  <2> QED
    BY <2>1, <2>2
<1> QED
  BY <1>2 DEF WorkOK

(* What pass one of backupFile() decides.                                  *)
LEMMA CheckStep ==
  ASSUME KeptInv, NEW f \in Files, BackupFileCheck(f)
  PROVE  LET e == p.file[f] IN
         \E j \in {"skip", "noop", "checksum", "copy"} :
           /\ SameWork /\ p'.job = [p.job EXCEPT ![f] = j] /\ p.job[f] = "check"
           /\ p'.file = p.file /\ p'.read = p.read /\ p'.gone = p.gone
           /\ j = "skip" => pg[f] = None
           /\ j = "noop" => e.delta /\ pg[f] # None /\ Match(f) /\ e.ref # None
           /\ j = "checksum" => /\ e.resume /\ repo[p.label].file[f] = e.sum
                                /\ e.delta => pg[f] # None /\ Match(f)
           /\ repo' = repo \/ (j = "skip" /\ repo' = [repo EXCEPT ![p.label].file[f] = None])
<1> DEFINE e == p.file[f]
           skip == e.delta /\ pg[f] = None
           match == e.delta /\ ~skip /\ Match(f)
           valid == e.resume /\ ~skip /\ (~e.delta \/ match) /\ repo[p.label].file[f] = e.sum
           j == CASE skip -> "skip" [] match /\ e.ref # None -> "noop"
                  [] valid -> "checksum" [] OTHER -> "copy"
<1>1. /\ p.pc = "process" /\ p.job[f] = "check" /\ p' = [p EXCEPT !.job[f] = j]
      /\ repo' = IF skip /\ e.resume THEN [repo EXCEPT ![p.label].file[f] = None] ELSE repo
  BY DEF BackupFileCheck
<1> HIDE DEF e
<1>2. CASE skip
  <2>1. j = "skip"
    BY <1>2
  <2> HIDE DEF j
  <2>2. p' = [p EXCEPT !.job[f] = "skip"] /\ "skip" \in JobState
    BY <1>1, <2>1 DEF JobState
  <2>3. /\ SameWork /\ p'.job = [p.job EXCEPT ![f] = "skip"]
        /\ p'.file = p.file /\ p'.read = p.read /\ p'.gone = p.gone
    BY <1>1, <2>2, JobStep
  <2> QED
    BY <1>1, <1>2, <2>3
<1>3. CASE ~skip
  <2>1. repo' = repo /\ (e.delta => pg[f] # None)
    BY <1>1, <1>3
  <2>2. \/ j = "noop" /\ match /\ e.ref # None
        \/ j = "checksum" /\ valid
        \/ j = "copy"
    BY <1>3
  <2>3. j \in JobState /\ (match => e.delta /\ Match(f))
        /\ (valid => /\ e.resume /\ repo[p.label].file[f] = e.sum /\ (e.delta => Match(f)))
    BY <2>2 DEF JobState
  <2> HIDE DEF j, valid, match
  <2>4. /\ SameWork /\ p'.job = [p.job EXCEPT ![f] = j]
        /\ p'.file = p.file /\ p'.read = p.read /\ p'.gone = p.gone
    BY <1>1, <2>3, JobStep
  <2> QED
    BY <1>1, <2>1, <2>2, <2>3, <2>4 DEF e
<1> QED
  BY <1>2, <1>3

LEMMA CheckKept ==
  ASSUME KeptInv, WorkOK, NEW f \in Files, BackupFileCheck(f)
  PROVE  KeptInv' /\ Kept /\ WorkOK'
<1>1. UNCHANGED <<wal, pg, now, hist, info, delta, runs>>
  BY DEF BackupFileCheck, db
<1>2. SameWork /\ (repo' = repo \/ repo' = [repo EXCEPT ![p.label].file[f] = None])
  BY CheckStep
<1>3. None \in Int \union {None}
  OBVIOUS
<1>4. WorkOK'
  <2>1. PICK j \in {"skip", "noop", "checksum", "copy"} :
          /\ p'.job = [p.job EXCEPT ![f] = j] /\ p.job[f] = "check"
          /\ p'.file = p.file /\ p'.read = p.read
    BY CheckStep
  <2>2. j \in JobState /\ p.pc = "process" /\ p'.pc = "process"
    BY <1>2 DEF JobState, SameWork
  <2> QED
    BY <2>1, <2>2, JobTyped
<1> QED
  BY <1>1, <1>2, <1>3, <1>4, JobKept

(* What pass two of backupFile() does.                                     *)
LEMMA CopyStep ==
  ASSUME KeptInv, WorkOK, NEW f \in Files, BackupFileCopy(f)
  PROVE  /\ SameWork /\ p.job[f] = "copy" /\ p'.file = p.file /\ p'.gone = p.gone
         /\ \/ /\ pg[f] = None /\ repo' = repo
               /\ p'.job = [p.job EXCEPT ![f] = "skip"] /\ p'.read = p.read
            \/ /\ pg[f] # None /\ p.file[f].ref # None /\ Match(f) /\ repo' = repo
               /\ p'.job = [p.job EXCEPT ![f] = "noop"] /\ p'.read = p.read
            \/ /\ pg[f] # None /\ repo' = [repo EXCEPT ![p.label].file[f] = Torn]
               /\ p'.job = [p.job EXCEPT ![f] = "write"]
               /\ \E r \in ReadFile : r.sum = pg[f].lsn /\ p'.read = [p.read EXCEPT ![f] = r]
<1>1. p.pc = "process" /\ p.job[f] = "copy" /\ p \in CommandRecord
      /\ p.label \in DOMAIN repo /\ ~HasMain(p.label)
  BY DEF BackupFileCopy, KeptInv, TypeOK, LabelOK
<1> DEFINE size == Smaller(pg[f].size, p.file[f].orig)
           r == [sum |-> pg[f].lsn, size |-> size]
<1>2. \/ pg[f] = None /\ repo' = repo /\ p' = [p EXCEPT !.job[f] = "skip"]
      \/ pg[f] # None /\ p.file[f].ref # None /\ Match(f) /\ repo' = repo
         /\ p' = [p EXCEPT !.job[f] = "noop"]
      \/ pg[f] # None /\ repo' = [repo EXCEPT ![p.label].file[f] = Torn]
         /\ p' = [p EXCEPT !.job[f] = "write", !.read[f] = r]
  BY DEF BackupFileCopy
<1>3. CASE pg[f] = None /\ repo' = repo /\ p' = [p EXCEPT !.job[f] = "skip"]
  BY <1>1, <1>3, JobStep DEF JobState
<1>4. CASE pg[f] # None /\ p.file[f].ref # None /\ Match(f) /\ repo' = repo
           /\ p' = [p EXCEPT !.job[f] = "noop"]
  BY <1>1, <1>4, JobStep DEF JobState
<1>5. CASE pg[f] # None /\ repo' = [repo EXCEPT ![p.label].file[f] = Torn]
           /\ p' = [p EXCEPT !.job[f] = "write", !.read[f] = r]
  <2>1. pg[f].lsn \in Nat /\ pg[f].size \in Nat
    <3>1. PICK q \in PgFile : q = pg[f]
      BY <1>5 DEF KeptInv, TypeOK, DbTypeOK
    <3>2. q.lsn \in Nat /\ q.size \in Nat
      BY BackupAssumption DEF PgFile
    <3> QED
      BY <3>1, <3>2
  <2>2. p.file[f].orig \in Nat
    <3>1. PICK e \in Entry : e = p.file[f]
      BY <1>1 DEF WorkOK
    <3>2. e.orig \in Nat
      BY DEF Entry
    <3> QED
      BY <3>1, <3>2
  <2>3. r \in ReadFile /\ r.sum = pg[f].lsn
    BY <2>1, <2>2 DEF ReadFile, Smaller
  <2> HIDE DEF r
  <2>4. /\ p' \in CommandRecord /\ SameChoice /\ p'.pc = p.pc /\ p'.label = p.label
        /\ p'.job = [p.job EXCEPT ![f] = "write"] /\ p'.read = [p.read EXCEPT ![f] = r]
        /\ p'.file = p.file /\ p'.gone = p.gone
    BY <1>1, <1>5, <2>3 DEF CommandRecord, SameChoice, JobState
  <2> QED
    BY <1>1, <1>5, <2>3, <2>4 DEF SameWork
<1> QED
  BY <1>2, <1>3, <1>4, <1>5

LEMMA CopyKept ==
  ASSUME KeptInv, WorkOK, NEW f \in Files, BackupFileCopy(f)
  PROVE  KeptInv' /\ Kept /\ WorkOK'
<1>1. UNCHANGED <<wal, pg, now, hist, info, delta, runs>>
  BY DEF BackupFileCopy, db
<1>2. SameWork /\ (repo' = repo \/ repo' = [repo EXCEPT ![p.label].file[f] = Torn])
  BY CopyStep
<1>3. Torn \in Int \union {None}
  BY DEF Torn
<1>4. WorkOK'
  <2>1. /\ p \in CommandRecord /\ p' \in CommandRecord /\ p.pc = "process" /\ p'.pc = "process"
        /\ p'.file = p.file /\ p.job[f] = "copy"
    BY CopyStep DEF SameWork, KeptInv, TypeOK
  <2>2. \E j \in JobState : p'.job = [p.job EXCEPT ![f] = j]
    BY CopyStep DEF JobState
  <2>3. p'.read = p.read \/ \E r \in ReadFile : p'.read = [p.read EXCEPT ![f] = r]
    BY CopyStep
  <2>4. p'.job[f] \in {"write", "written"} => \E r \in ReadFile : p'.read = [p.read EXCEPT ![f] = r]
    <3>1. p.job \in [Files -> JobState]
      BY <2>1 DEF CommandRecord
    <3> QED
      BY <3>1, CopyStep
  <2>5. p.job \in [Files -> JobState] /\ p.read \in [Files -> ReadFile \union {None}]
    BY <2>1 DEF CommandRecord
  <2> QED
    BY <2>1, <2>2, <2>3, <2>4, <2>5 DEF WorkOK
<1> QED
  BY <1>1, <1>2, <1>3, <1>4, JobKept

(* What closing the file in the repository does.                           *)
LEMMA CloseStep ==
  ASSUME KeptInv, WorkOK, NEW f \in Files, BackupFileClose(f)
  PROVE  /\ SameWork /\ p.job[f] = "write" /\ p'.job = [p.job EXCEPT ![f] = "written"]
         /\ p'.file = p.file /\ p'.read = p.read /\ p'.gone = p.gone
         /\ p.read[f].sum \in Nat /\ repo' = [repo EXCEPT ![p.label].file[f] = p.read[f].sum]
<1>1. /\ p.pc = "process" /\ p.job[f] = "write" /\ p' = [p EXCEPT !.job[f] = "written"]
      /\ repo' = [repo EXCEPT ![p.label].file[f] = p.read[f].sum]
  BY DEF BackupFileClose
<1>2. /\ SameWork /\ p'.job = [p.job EXCEPT ![f] = "written"]
      /\ p'.file = p.file /\ p'.read = p.read /\ p'.gone = p.gone
  BY <1>1, JobStep DEF JobState
<1>3. p.read[f].sum \in Nat
  BY <1>1 DEF WorkOK, ReadFile
<1> QED
  BY <1>1, <1>2, <1>3

LEMMA CloseKept ==
  ASSUME KeptInv, WorkOK, NEW f \in Files, BackupFileClose(f)
  PROVE  KeptInv' /\ Kept /\ WorkOK'
<1>1. UNCHANGED <<wal, pg, now, hist, info, delta, runs>>
  BY DEF BackupFileClose, db
<1>2. WorkOK'
  <2>1. "written" \in JobState
    BY DEF JobState
  <2> QED
    BY <2>1, CloseStep, JobTyped DEF SameWork
<1>3. p.read[f].sum \in Nat
  BY CloseStep
<1>4. p.read[f].sum \in Int \union {None}
  BY <1>3
<1> QED
  BY <1>1, <1>2, <1>4, CloseStep, JobKept

(* What the result of a job changes.                                       *)
WrittenEntry(e, r) == [e EXCEPT !.sum = r.sum, !.size = r.size, !.ref = None]

LEMMA WrittenType ==
  ASSUME NEW e \in Entry, NEW r \in ReadFile
  PROVE  /\ WrittenEntry(e, r) \in Entry /\ WrittenEntry(e, r).sum = r.sum /\ WrittenEntry(e, r).ref = None
         /\ WrittenEntry(e, r).ts = e.ts /\ WrittenEntry(e, r).copy = e.copy
         /\ WrittenEntry(e, r).resume = e.resume /\ WrittenEntry(e, r).delta = e.delta
BY DEF Entry, ReadFile, WrittenEntry

LEMMA ResultStep ==
  ASSUME KeptInv, WorkOK, NEW f \in Files, BackupJobResult(f)
  PROVE  /\ SameWork /\ p.job[f] \in {"skip", "noop", "checksum", "written"} /\ p.file[f] \in Entry
         /\ p'.job = [p.job EXCEPT ![f] = "none"] /\ p'.read = [p.read EXCEPT ![f] = None]
         /\ \/ /\ p.job[f] = "written" /\ p'.gone = p.gone /\ p.read[f] \in ReadFile
               /\ p'.file = [p.file EXCEPT ![f] = WrittenEntry(p.file[f], p.read[f])]
            \/ p.job[f] = "skip" /\ p'.gone = p.gone \union {f} /\ p'.file = p.file
            \/ p.job[f] \in {"noop", "checksum"} /\ p'.gone = p.gone /\ p'.file = p.file
<1>1. p.pc = "process" /\ p.job[f] \in {"skip", "noop", "checksum", "written"} /\ p \in CommandRecord
      /\ p.label \in DOMAIN repo /\ ~HasMain(p.label)
  BY DEF BackupJobResult, KeptInv, TypeOK, LabelOK
<1>2. p.file[f] \in Entry /\ (p.job[f] = "written" => p.read[f] \in ReadFile)
  BY <1>1 DEF WorkOK
<1> DEFINE gone == IF p.job[f] = "skip" THEN p.gone \union {f} ELSE p.gone
           e == IF p.job[f] = "written" THEN WrittenEntry(p.file[f], p.read[f]) ELSE p.file[f]
<1>3. p' = [p EXCEPT !.job[f] = "none", !.read[f] = None, !.gone = gone, !.file[f] = e]
  BY <1>1 DEF BackupJobResult, WrittenEntry, CommandRecord
<1>4. gone \in SUBSET Files /\ e \in Entry
  BY <1>1, <1>2, WrittenType DEF CommandRecord
<1>5. p.file \in [Files -> Entry \union {None}] /\ (p.job[f] # "written" => [p.file EXCEPT ![f] = e] = p.file)
  BY <1>1 DEF CommandRecord
<1>6. /\ p' \in CommandRecord /\ SameChoice /\ p'.pc = p.pc /\ p'.label = p.label
      /\ p'.job = [p.job EXCEPT ![f] = "none"] /\ p'.read = [p.read EXCEPT ![f] = None]
      /\ p'.gone = gone /\ p'.file = [p.file EXCEPT ![f] = e]
  <2> HIDE DEF gone, e
  <2> QED
    BY <1>1, <1>3, <1>4 DEF CommandRecord, SameChoice, JobState
<1> QED
  BY <1>1, <1>2, <1>5, <1>6 DEF SameWork

LEMMA ResultKept ==
  ASSUME KeptInv, WorkOK, NEW f \in Files, BackupJobResult(f)
  PROVE  KeptInv' /\ Kept /\ WorkOK'
<1>1. UNCHANGED <<wal, pg, now, repo, hist, info, delta, runs>>
  BY DEF BackupJobResult, db
<1>2. WorkOK'
  <2>1. /\ p.job \in [Files -> JobState] /\ p.read \in [Files -> ReadFile \union {None}]
        /\ p.file \in [Files -> Entry \union {None}]
    BY DEF KeptInv, TypeOK, CommandRecord
  <2>2. /\ p.pc = "process" /\ p'.pc = "process" /\ p'.job = [p.job EXCEPT ![f] = "none"]
        /\ p'.read = [p.read EXCEPT ![f] = None]
        /\ \A g \in Files \ {f} : p'.file[g] = p.file[g]
    BY <2>1, ResultStep DEF SameWork
  <2> QED
    BY <2>1, <2>2 DEF WorkOK
<1> QED
  BY <1>1, <1>2, ResultStep, StillKept DEF SameWork

LEMMA ProcessSaveKept ==
  ASSUME KeptInv, WorkOK, BackupProcessSave
  PROVE  KeptInv' /\ Kept /\ WorkOK'
<1>1. UNCHANGED <<wal, pg, now, hist, info, p, delta, runs>> /\ p.pc = "process"
      /\ repo' = Saved(p.label, ManifestOf(None))
  BY DEF BackupProcessSave, db
<1>2. p \in CommandRecord /\ p.label \in DOMAIN repo /\ p.label \in Label /\ ~HasMain(p.label)
  BY <1>1 DEF KeptInv, TypeOK, RepoTypeOK, LabelOK
<1>3. ManifestOf(None) \in Manifest
  BY <1>2, ManifestType
<1>4. /\ DOMAIN repo' = DOMAIN repo /\ \A b \in DOMAIN repo' \ {p.label} : repo'[b] = repo[b]
      /\ repo'[p.label] \in RepoRecord /\ repo'[p.label].main = None
  BY <1>1, <1>2, <1>3, SavedStep
<1>5. WorkOK'
  BY <1>1 DEF WorkOK
<1> QED
  BY <1>1, <1>2, <1>4, <1>5, WorkKept DEF SameChoice

(* What the step of backupStop() does.                                     *)
LEMMA StopStep ==
  ASSUME KeptInv, BackupStop
  PROVE  /\ p' \in CommandRecord /\ SameChoice /\ p.pc = "process" /\ p'.pc = "archive"
         /\ p'.label = p.label /\ p.label \in DOMAIN repo /\ ~HasMain(p.label)
         /\ p'.stop = Lsn /\ p'.gone = {} /\ \A f \in Files : p.job[f] = "none"
         /\ \A f \in Files : p'.file[f] = IF f \in p.gone THEN None ELSE p.file[f]
<1> DEFINE file == [f \in Files |-> IF f \in p.gone THEN None ELSE p.file[f]]
<1>1. /\ p \in CommandRecord /\ p.pc = "process" /\ p.label \in DOMAIN repo /\ ~HasMain(p.label)
      /\ p' = [p EXCEPT !.pc = "archive", !.stop = Lsn, !.gone = {}, !.delta = FALSE, !.file = file]
      /\ \A f \in Files : p.job[f] = "none"
  BY DEF KeptInv, TypeOK, LabelOK, BackupStop
<1>2. Lsn \in Nat
  BY DEF KeptInv, TypeOK, DbTypeOK, Lsn
<1>3. file \in [Files -> Entry \union {None}] /\ \A f \in Files : file[f] = IF f \in p.gone THEN None ELSE p.file[f]
  BY <1>1 DEF CommandRecord
<1> HIDE DEF file
<1>4. /\ p' \in CommandRecord /\ SameChoice /\ p'.pc = "archive" /\ p'.label = p.label
      /\ p'.stop = Lsn /\ p'.gone = {} /\ p'.file = file
  BY <1>1, <1>2, <1>3 DEF CommandRecord, SameChoice, Pc
<1> QED
  BY <1>1, <1>3, <1>4

LEMMA StopKept ==
  ASSUME KeptInv, BackupStop
  PROVE  KeptInv' /\ Kept
<1>1. UNCHANGED <<wal, pg, now, repo, hist, info, delta, runs>>
  BY DEF BackupStop, db
<1> QED
  BY <1>1, StopStep, StillKept

(* What the step of backupArchiveCheckCopy() does.                         *)
LEMMA ArchiveStep ==
  ASSUME KeptInv, BackupArchiveCheckCopy
  PROVE  /\ p' \in CommandRecord /\ SameChoice /\ p.pc = "archive" /\ p'.pc = "main"
         /\ p'.label = p.label /\ p.label \in DOMAIN repo /\ ~HasMain(p.label)
         /\ p'.stop = p.stop /\ p'.gone = p.gone /\ p'.file = p.file
         /\ ManifestOf(p.stop) \in Manifest /\ p.label \in Label
         /\ repo' = Saved(p.label, ManifestOf(p.stop))
<1>1. /\ p \in CommandRecord /\ p.pc = "archive" /\ p.label \in DOMAIN repo /\ ~HasMain(p.label)
      /\ p' = [p EXCEPT !.pc = "main"] /\ p.label \in Label
      /\ repo' = Saved(p.label, ManifestOf(p.stop))
  BY DEF KeptInv, TypeOK, RepoTypeOK, LabelOK, BackupArchiveCheckCopy
<1>2. p.stop \in Nat
  BY <1>1 DEF CommandRecord
<1>3. ManifestOf(p.stop) \in Manifest
  BY <1>1, <1>2, ManifestType
<1>4. /\ p' \in CommandRecord /\ SameChoice /\ p'.pc = "main" /\ p'.label = p.label
      /\ p'.stop = p.stop /\ p'.gone = p.gone /\ p'.file = p.file
  BY <1>1 DEF CommandRecord, SameChoice, Pc
<1> QED
  BY <1>1, <1>3, <1>4

LEMMA ArchiveKept ==
  ASSUME KeptInv, BackupArchiveCheckCopy
  PROVE  KeptInv' /\ Kept /\ WorkOK'
<1>1. UNCHANGED <<wal, pg, now, hist, info, delta, runs>>
  BY DEF BackupArchiveCheckCopy, db
<1>2. /\ DOMAIN repo' = DOMAIN repo /\ \A b \in DOMAIN repo' \ {p.label} : repo'[b] = repo[b]
      /\ repo'[p.label] \in RepoRecord /\ repo'[p.label].main = None
      /\ repo'[p.label].copy = ManifestOf(p.stop)
  BY ArchiveStep, SavedStep
<1>3. WorkOK'
  BY <1>2, ArchiveStep, NoneAssumption DEF WorkOK
<1> QED
  BY <1>1, <1>2, <1>3, ArchiveStep, WorkKept

(* What the steps of backupComplete() do.                                  *)
LEMMA CompleteStep ==
  ASSUME KeptInv, WorkOK, CompleteManifest
  PROVE  /\ p.pc = "main" /\ p.label \in DOMAIN repo /\ ~HasMain(p.label) /\ p.label \in Label
         /\ p' \in CommandRecord /\ p'.pc = "history" /\ p'.listed = p.listed /\ p'.label = p.label
         /\ p'.prior = None /\ p'.type = "full" /\ p'.gone = {}
         /\ DOMAIN repo' = DOMAIN repo /\ \A b \in DOMAIN repo' \ {p.label} : repo'[b] = repo[b]
         /\ repo'[p.label] \in RepoRecord /\ repo'[p.label].main = repo[p.label].copy
         /\ repo'[p.label].main # None /\ repo'[p.label].copy = repo[p.label].copy
         /\ repo'[p.label].file = repo[p.label].file
<1>1. /\ p \in CommandRecord /\ p.pc = "main" /\ p.label \in DOMAIN repo /\ ~HasMain(p.label)
      /\ p.label \in Label /\ repo' = [repo EXCEPT ![p.label].main = repo[p.label].copy]
      /\ p' = [Idle EXCEPT !.pc = "history", !.listed = p.listed, !.label = p.label]
  BY DEF KeptInv, TypeOK, RepoTypeOK, LabelOK, CompleteManifest
<1> DEFINE r == repo[p.label]
<1>2. r \in RepoRecord /\ r.copy # None
  BY <1>1 DEF KeptInv, TypeOK, RepoTypeOK, WorkOK
<1>3. /\ DOMAIN repo' = DOMAIN repo /\ \A b \in DOMAIN repo' \ {p.label} : repo'[b] = repo[b]
      /\ repo'[p.label] = [r EXCEPT !.main = r.copy]
  BY <1>1
<1>4. /\ repo'[p.label] \in RepoRecord /\ repo'[p.label].main = r.copy /\ repo'[p.label].copy = r.copy
      /\ repo'[p.label].file = r.file
  <2> HIDE DEF r
  <2> QED
    BY <1>2, <1>3 DEF RepoRecord
<1>5. /\ p' \in CommandRecord /\ p'.pc = "history" /\ p'.listed = p.listed /\ p'.label = p.label
      /\ p'.prior = None /\ p'.type = "full" /\ p'.gone = {}
  <2>1. PICK q \in CommandRecord : q = Idle /\ q.prior = None /\ q.type = "full" /\ q.gone = {}
    BY IdleType DEF Idle
  <2>2. p.listed \in SUBSET Label /\ p.label \in LabelOrNone /\ "history" \in Pc
    BY <1>1 DEF CommandRecord, Pc
  <2>3. p' = [q EXCEPT !.pc = "history", !.listed = p.listed, !.label = p.label]
    BY <1>1, <2>1
  <2> QED
    BY <2>1, <2>2, <2>3 DEF CommandRecord
<1> QED
  BY <1>1, <1>2, <1>3, <1>4, <1>5

LEMMA CompleteKept ==
  ASSUME KeptInv, WorkOK, CompleteManifest
  PROVE  KeptInv' /\ Kept
<1>1. UNCHANGED <<wal, pg, now, hist, info, delta, runs>>
  BY DEF CompleteManifest, db
<1>2. LabelOK'
  BY CompleteStep DEF LabelOK, HasMain
<1>3. \A b \in p.listed : HasMain(b)
  BY DEF KeptInv, ListedOK
<1> QED
  BY <1>1, <1>2, <1>3, CompleteStep, DirectoryKept

LEMMA HistoryStep ==
  ASSUME KeptInv, CompleteHistory
  PROVE  /\ p.pc = "history" /\ HasMain(p.label) /\ p.label \in Label
         /\ p' \in CommandRecord /\ p'.pc = "info" /\ p'.listed = p.listed \union {p.label}
         /\ p'.label = p.label /\ p'.prior = p.prior /\ p'.type = p.type /\ p'.gone = p.gone
<1>1. /\ p \in CommandRecord /\ p.pc = "history" /\ HasMain(p.label) /\ p.label \in Label
      /\ p' = [p EXCEPT !.pc = "info", !.listed = @ \union {p.label}]
  BY DEF KeptInv, TypeOK, RepoTypeOK, LabelOK, HasMain, CompleteHistory
<1> DEFINE listed == p.listed \union {p.label}
<1>2. listed \in SUBSET Label /\ p' = [p EXCEPT !.pc = "info", !.listed = listed]
  BY <1>1 DEF CommandRecord
<1>3. /\ p' \in CommandRecord /\ p'.pc = "info" /\ p'.listed = listed
      /\ p'.label = p.label /\ p'.prior = p.prior /\ p'.type = p.type /\ p'.gone = p.gone
  <2> HIDE DEF listed
  <2> QED
    BY <1>1, <1>2 DEF CommandRecord, Pc
<1> QED
  BY <1>1, <1>3

LEMMA HistoryKept ==
  ASSUME KeptInv, CompleteHistory
  PROVE  KeptInv' /\ Kept
<1>1. UNCHANGED <<wal, pg, now, repo, info, delta, runs>> /\ hist' = hist \union {p.label}
  BY DEF CompleteHistory, db
<1>2. Kept
  BY <1>1 DEF Kept, HasMain
<1>3. DbTypeOK' /\ RepoTypeOK' /\ delta' \in BOOLEAN /\ runs' \in Nat
  BY <1>1, HistoryStep DEF KeptInv, TypeOK, DbTypeOK, RepoTypeOK
<1>4. LabelOK' /\ ListedOK'
  BY <1>1, HistoryStep DEF KeptInv, LabelOK, ListedOK, HasMain
<1> QED
  BY <1>2, <1>3, <1>4, HistoryStep DEF KeptInv, TypeOK

LEMMA InfoKept ==
  ASSUME KeptInv, CompleteInfo \/ CompleteInfoCopy
  PROVE  KeptInv' /\ Kept
<1>1. p \in CommandRecord /\ p.listed \in SUBSET Label /\ info \in [main : SUBSET Label, copy : SUBSET Label]
      /\ \A b \in p.listed \union info.main \union info.copy : HasMain(b)
  BY DEF KeptInv, TypeOK, RepoTypeOK, ListedOK, CommandRecord
<1>2. UNCHANGED <<wal, pg, now, repo, hist, delta, runs>>
  BY DEF CompleteInfo, CompleteInfoCopy, db
<1>3. info' \in [main : SUBSET Label, copy : SUBSET Label]
      /\ info'.main \union info'.copy \subseteq p.listed \union info.main \union info.copy
  BY <1>1 DEF CompleteInfo, CompleteInfoCopy
<1>4. p' \in CommandRecord /\ LabelOK' /\ p'.listed \subseteq p.listed
      /\ (p'.prior # None => HasMain(p'.prior)) /\ (p'.type = "full" <=> p'.prior = None)
  <2>1. CASE CompleteInfo
    <3>1. p' = [p EXCEPT !.pc = "infoCopy"] /\ p.pc = "info"
      BY <2>1 DEF CompleteInfo
    <3>2. /\ p' \in CommandRecord /\ p'.pc = "infoCopy" /\ p'.label = p.label /\ p'.listed = p.listed
          /\ p'.prior = p.prior /\ p'.type = p.type
      BY <1>1, <3>1 DEF CommandRecord, Pc
    <3> QED
      BY <1>2, <3>1, <3>2 DEF KeptInv, LabelOK, ListedOK, HasMain
  <2>2. CASE CompleteInfoCopy
    <3>1. p'.pc = "idle" /\ p'.listed = {} /\ p'.prior = None /\ p'.type = "full" /\ p' \in CommandRecord
      BY <2>2, IdleType DEF CompleteInfoCopy, Idle
    <3> QED
      BY <3>1 DEF LabelOK
  <2> QED
    BY <2>1, <2>2
<1>5. DbTypeOK' /\ RepoTypeOK' /\ delta' \in BOOLEAN /\ runs' \in Nat
  BY <1>2, <1>3 DEF KeptInv, TypeOK, DbTypeOK, RepoTypeOK
<1>6. ListedOK' /\ Kept
  BY <1>1, <1>2, <1>3, <1>4 DEF ListedOK, HasMain, Kept
<1> QED
  BY <1>4, <1>5, <1>6 DEF KeptInv, TypeOK

(* The inductive invariant of the repository's structure.                  *)
RepoInv == KeptInv /\ WorkOK

LEMMA RepoInvInit == Init => RepoInv
<1> SUFFICES ASSUME Init PROVE RepoInv
  OBVIOUS
<1>1. PICK size \in Sizes : pg = [f \in Files |-> [lsn |-> 0, ts |-> 0, size |-> size]]
  BY DEF Init
<1>2. [lsn |-> 0, ts |-> 0, size |-> size] \in PgFile
  BY DEF PgFile
<1>3. DbTypeOK
  BY <1>1, <1>2, BackupAssumption DEF Init, DbTypeOK
<1>4. DOMAIN repo = {}
  BY DEF Init
<1>5. RepoTypeOK
  BY <1>4 DEF Init, RepoTypeOK
<1>6. p.pc = "idle" /\ p.listed = {} /\ p.prior = None /\ p.type = "full" /\ p \in CommandRecord
  BY IdleType DEF Init, Idle
<1>7. LabelOK /\ ListedOK /\ WorkOK
  BY <1>6 DEF Init, LabelOK, ListedOK, WorkOK
<1> QED
  BY <1>3, <1>5, <1>6, <1>7 DEF Init, RepoInv, KeptInv, TypeOK

(* Outside process and main there is nothing to know.                      *)
LEMMA WorkOutside ==
  ASSUME p'.pc \notin {"process", "main"}
  PROVE  WorkOK'
BY DEF WorkOK

LEMMA SaveCopyWork ==
  ASSUME KeptInv, BackupManifestSaveCopy
  PROVE  WorkOK'
<1>1. CASE p' = Idle
  BY <1>1, WorkOutside DEF Idle
<1>2. CASE p' # Idle
  <2>1. /\ p'.file = p.file /\ p'.pc = "process" /\ \A f \in Files : p'.job[f] = FirstJob(f)
    BY <1>2, SaveCopyStep
  <2>2. \A f \in Files : p.file[f] \in Entry \union {None}
    BY DEF KeptInv, TypeOK, CommandRecord
  <2> QED
    BY <2>1, <2>2 DEF WorkOK, FirstJob, Queue
<1> QED
  BY <1>1, <1>2

LEMMA RepoInvNext ==
  ASSUME RepoInv, [Next]_vars
  PROVE  RepoInv' /\ Kept
<1> USE DEF RepoInv
<1>1. CASE UNCHANGED vars
  BY <1>1 DEF vars, KeptInv, TypeOK, DbTypeOK, RepoTypeOK, LabelOK, ListedOK, WorkOK, HasMain, Kept
<1>2. CASE Tick \/ \E f \in Files : PgWrite(f) \/ PgRemove(f)
  <2>1. WorkOK'
    BY <1>2 DEF Tick, PgWrite, PgRemove, WorkOK
  <2> QED
    BY <1>2, <2>1, DbKept
<1>3. CASE BackupStart
  <2>1. p'.pc \notin {"process", "main"}
    BY <1>3 DEF BackupStart, Idle
  <2> QED
    BY <1>3, <2>1, StartKept, WorkOutside
<1>4. CASE Abort
  BY <1>4, AbortKept, WorkOutside DEF Abort, Idle
<1>5. CASE BackupProcessSave
  BY <1>5, ProcessSaveKept
<1>6. CASE BackupTime
  <2>1. p'.pc \notin {"process", "main"}
    BY <1>6 DEF BackupTime, KeptInv, TypeOK, CommandRecord
  <2> QED
    BY <1>6, <2>1, TimeKept, WorkOutside
<1>7. CASE ManifestBuildIncr
  BY <1>7, BuildIncrKept, BuildIncrStep, WorkOutside
<1>8. CASE BackupResumeFind
  BY <1>8, ResumeFindKept, ResumeFindStep, WorkOutside
<1>9. CASE StoragePathRemove
  <2>1. p \in CommandRecord
    BY DEF KeptInv, TypeOK
  <2>2. p'.pc \notin {"process", "main"}
    BY <1>9, <2>1, RemoveStep DEF CommandRecord
  <2> QED
    BY <1>9, <2>2, RemoveKept, WorkOutside
<1>10. CASE BackupLabel
  <2>1. p'.pc \notin {"process", "main"}
    BY <1>10, LabelStep DEF Idle
  <2> QED
    BY <1>10, <2>1, LabelKept, WorkOutside
<1>11. CASE BackupManifestSaveCopy
  BY <1>11, SaveCopyKept, SaveCopyWork
<1>12. CASE BackupStop
  BY <1>12, StopKept, StopStep, WorkOutside
<1>13. CASE BackupArchiveCheckCopy
  BY <1>13, ArchiveKept
<1>14. CASE CompleteManifest
  BY <1>14, CompleteKept, CompleteStep, WorkOutside
<1>15. CASE CompleteHistory
  BY <1>15, HistoryKept, HistoryStep, WorkOutside
<1>16. CASE CompleteInfo \/ CompleteInfoCopy
  <2>1. p \in CommandRecord
    BY DEF KeptInv, TypeOK
  <2>2. p'.pc \notin {"process", "main"}
    BY <1>16, <2>1 DEF CompleteInfo, CompleteInfoCopy, Idle, CommandRecord
  <2> QED
    BY <1>16, <2>2, InfoKept, WorkOutside
<1>17. ASSUME NEW f \in Files, ManifestBuildInfo(f) PROVE RepoInv' /\ Kept
  <2>1. p'.pc \notin {"process", "main"}
    BY <1>17 DEF ManifestBuildInfo, KeptInv, TypeOK, CommandRecord
  <2> QED
    BY <1>17, <2>1, BuildInfoKept, WorkOutside
<1>18. ASSUME NEW f \in Files, BackupResumeClean(f) PROVE RepoInv' /\ Kept
  BY <1>18, CleanKept, CleanStep, WorkOutside
<1>19. ASSUME NEW f \in Files, BackupFileCheck(f) PROVE RepoInv' /\ Kept
  BY <1>19, CheckKept
<1>20. ASSUME NEW f \in Files, BackupFileCopy(f) PROVE RepoInv' /\ Kept
  BY <1>20, CopyKept
<1>21. ASSUME NEW f \in Files, BackupFileClose(f) PROVE RepoInv' /\ Kept
  BY <1>21, CloseKept
<1>22. ASSUME NEW f \in Files, BackupJobResult(f) PROVE RepoInv' /\ Kept
  BY <1>22, ResultKept
<1> HIDE DEF RepoInv
<1> QED
  BY <1>1, <1>2, <1>3, <1>4, <1>5, <1>6, <1>7, <1>8, <1>9, <1>10, <1>11, <1>12, <1>13, <1>14,
     <1>15, <1>16, <1>17, <1>18, <1>19, <1>20, <1>21, <1>22 DEF Next, Command

(* A backup command works in a directory without a manifest, chooses a     *)
(* label no directory has, and takes as prior and lists only backups that  *)
(* have their manifest.                                                    *)
THEOREM BackupInvariant == Spec => []RepoInv
BY RepoInvInit, RepoInvNext, PTL DEF Spec

(* A backup that has its backup.manifest is never changed or removed by a  *)
(* later command, however the commands before it ended (backupResumeFind(),*)
(* backupLabelCreate()).                                                   *)
THEOREM BackupCompletedIsKept == Spec => CompletedIsKept
<1>1. RepoInv /\ [Next]_vars =>
        [\A b \in DOMAIN repo : HasMain(b) =>
            b \in DOMAIN repo' /\ repo'[b].main = repo[b].main /\ repo'[b].file = repo[b].file]_vars
  BY RepoInvNext DEF Kept
<1> QED
  BY <1>1, BackupInvariant, PTL DEF Spec, CompletedIsKept

(***************************************************************************)
(* What is said of the WAL, the data directory and the repository stays    *)
(* true while the database writes and commands work.                       *)
(***************************************************************************)
Grows ==
  /\ Lsn \in Nat /\ Lsn' \in Nat /\ Lsn <= Lsn'
  /\ now \in Nat /\ now' \in Nat /\ now <= now'
  /\ \A j \in 1 .. Lsn : wal'[j] = wal[j]
  /\ \A f \in Files : pg'[f] = pg[f] \/ pg'[f] = None \/ pg'[f].ts = now

LEMMA SameGrows ==
  ASSUME KeptInv, UNCHANGED <<wal, pg, now>>
  PROVE  Grows
BY DEF KeptInv, TypeOK, DbTypeOK, Grows, Lsn

LEMMA DbGrows ==
  ASSUME KeptInv, Tick \/ \E f \in Files : PgWrite(f) \/ PgRemove(f)
  PROVE  Grows
<1>1. DbTypeOK /\ DbTypeOK'
  BY DbKept DEF KeptInv, TypeOK
<1>2. Lsn \in Nat /\ Lsn' \in Nat /\ now \in Nat /\ now' \in Nat
  BY <1>1 DEF DbTypeOK, Lsn
<1>3. CASE Tick
  BY <1>2, <1>3 DEF Tick, Grows, Lsn
<1>4. ASSUME NEW f \in Files, PgWrite(f) \/ PgRemove(f) PROVE Grows
  <2>1. now' = now /\ \E x : wal' = Append(wal, x)
    BY <1>4 DEF PgWrite, PgRemove
  <2>2. Lsn' = Lsn + 1 /\ \A j \in 1 .. Lsn : wal'[j] = wal[j]
    BY <1>1, <2>1 DEF DbTypeOK, Lsn
  <2>3. \A g \in Files : pg'[g] = pg[g] \/ pg'[g] = None \/ pg'[g].ts = now
    BY <1>1, <1>4 DEF DbTypeOK, PgWrite, PgRemove
  <2>4. now' = now
    BY <2>1
  <2>5. Lsn <= Lsn' /\ now <= now'
    BY <1>2, <2>2, <2>4
  <2> QED
    BY <1>2, <2>2, <2>3, <2>5 DEF Grows
<1> QED
  BY <1>3, <1>4

LEMMA CoversKept ==
  ASSUME Grows, NEW f, NEW i, NEW n \in Nat, n <= Lsn, Covers(f, i, n)
  PROVE  Covers(f, i, n)'
BY DEF Grows, Covers

LEMMA MissingKept ==
  ASSUME Grows, NEW f, NEW start \in Nat, NEW stop \in Nat, NEW end \in Nat,
         start <= Lsn, stop <= Lsn, stop <= end, Missing(f, start, stop)
  PROVE  Missing(f, start, end)'
<1>1. PICK i \in 1 .. stop : wal[i].file = f /\ (i > start \/ (wal[i].gone /\ Covers(f, i, start)))
  BY DEF Missing
<1>2. i \in 1 .. end /\ i \in 1 .. Lsn /\ wal'[i] = wal[i]
  BY <1>1 DEF Grows
<1>3. Covers(f, i, start) => Covers(f, i, start)'
  BY CoversKept
<1> QED
  BY <1>1, <1>2, <1>3 DEF Missing

LEMMA SettledKept ==
  ASSUME Grows, NEW f \in Files, NEW ts \in Nat, NEW sum, Settled(f, ts, sum)
  PROVE  Settled(f, ts, sum)'
BY DEF Grows, Settled

LEMMA RefKept ==
  ASSUME Kept, NEW f, NEW ref, NEW sum, RefOK(f, ref, sum)
  PROVE  RefOK(f, ref, sum)'
BY DEF Kept, RefOK, HasMain

LEMMA StoredKept ==
  ASSUME Kept, NEW f, NEW e, NEW file, Stored(f, e, file)
  PROVE  Stored(f, e, file)'
BY RefKept DEF Stored

LEMMA SoundKept ==
  ASSUME Grows, NEW f \in Files, NEW e, e.ts \in Nat, NEW start \in Nat, start <= Lsn,
         Sound(f, e, start)
  PROVE  Sound(f, e, start)'
BY CoversKept, SettledKept DEF Sound

LEMMA DoneKept ==
  ASSUME Grows, Kept, NEW f \in Files, NEW e, e # None => e.ts \in Nat,
         NEW start \in Nat, NEW stop \in Nat, start <= stop, stop <= Lsn, NEW file,
         DoneOK(f, e, start, stop, file)
  PROVE  DoneOK(f, e, start, stop, file)'
<1>1. Lsn \in Nat /\ start <= Lsn
  BY DEF Grows
<1>2. CASE e = None
  BY <1>1, <1>2, MissingKept DEF DoneOK
<1>3. CASE e # None
  BY <1>1, <1>3, SoundKept, StoredKept DEF DoneOK
<1> QED
  BY <1>2, <1>3

LEMMA MainKept ==
  ASSUME Grows, Kept, NEW m \in Manifest, NEW file, MainOK(m, file)
  PROVE  MainOK(m, file)'
<1>1. m.start \in Nat /\ m.stop \in Nat /\ m.start <= m.stop /\ m.stop <= Lsn
  BY DEF Manifest, MainOK
<1>2. \A f \in Files : m.file[f] # None => m.file[f].ts \in Nat
  BY DEF Manifest, SavedEntry
<1>3. \A f \in Files : DoneOK(f, m.file[f], m.start, m.stop, file)'
  BY <1>1, <1>2, DoneKept DEF MainOK
<1>4. m.stop <= Lsn'
  BY <1>1 DEF Grows
<1> QED
  BY <1>1, <1>3, <1>4 DEF MainOK

LEMMA CopyKeptOK ==
  ASSUME Grows, delta' = delta, NEW m \in Manifest, CopyOK(m)
  PROVE  CopyOK(m)'
<1> SUFFICES ASSUME NEW f \in Files, m.file[f] # None, m.file[f].sum # None
             PROVE  /\ m.file[f].sum <= Lsn'
                    /\ m.type = "full" /\ ~delta' => Settled(f, m.file[f].ts, m.file[f].sum)'
  BY DEF CopyOK
<1>1. m.file[f].ts \in Nat /\ m.file[f].sum \in Nat
  BY DEF Manifest, SavedEntry
<1>2. m.file[f].sum <= Lsn /\ (m.type = "full" /\ ~delta => Settled(f, m.file[f].ts, m.file[f].sum))
  BY DEF CopyOK
<1>3. m.file[f].sum <= Lsn'
  BY <1>1, <1>2 DEF Grows
<1> QED
  BY <1>1, <1>2, <1>3, SettledKept

(* A directory that a step leaves alone.                                   *)
LEMMA OtherKept ==
  ASSUME KeptInv, RepoOK, Grows, Kept, delta' = delta, NEW b \in DOMAIN repo, repo'[b] = repo[b]
  PROVE  /\ repo'[b].main # None => MainOK(repo[b].main, repo[b].file)'
         /\ repo'[b].copy # None => CopyOK(repo[b].copy)'
<1>1. PICK r \in RepoRecord : r = repo[b]
  BY DEF KeptInv, TypeOK, RepoTypeOK
<1>2. r.main # None => r.main \in Manifest /\ MainOK(r.main, r.file)
  BY <1>1 DEF RepoOK, RepoRecord
<1>3. r.copy # None => r.copy \in Manifest /\ CopyOK(r.copy)
  BY <1>1 DEF RepoOK, RepoRecord
<1>4. (r.main # None => MainOK(r.main, r.file)') /\ (r.copy # None => CopyOK(r.copy)')
  BY <1>2, <1>3, MainKept, CopyKeptOK
<1> QED
  BY <1>1, <1>4

(* Every other directory is as it was; the one of the command has no       *)
(* manifest, and a copy that can be relied on.                             *)
LEMMA RepoKept ==
  ASSUME KeptInv, RepoOK, Grows, Kept, delta' = delta, NEW l,
         \A b \in DOMAIN repo' \ {l} : b \in DOMAIN repo /\ repo'[b] = repo[b],
         l \in DOMAIN repo' =>
           /\ repo'[l].main = None
           /\ repo'[l].copy # None => \E m \in Manifest : repo'[l].copy = m /\ CopyOK(m)
  PROVE  RepoOK'
<1> SUFFICES ASSUME NEW b \in DOMAIN repo'
             PROVE  /\ repo'[b].main # None => MainOK(repo[b].main, repo[b].file)'
                    /\ repo'[b].copy # None => CopyOK(repo[b].copy)'
  BY DEF RepoOK
<1>1. CASE b # l
  BY <1>1, OtherKept
<1>2. CASE b = l
  <2>1. repo'[b].main = None
    BY <1>2
  <2>2. repo'[b].copy # None => \E m \in Manifest : repo'[b].copy = m /\ CopyOK(m)'
    BY <1>2, CopyKeptOK
  <2> QED
    BY <2>1, <2>2
<1> QED
  BY <1>1, <1>2

LEMMA EntryKept ==
  ASSUME Grows, Kept, delta' = delta, NEW f \in Files, NEW e \in Entry \union {None},
         NEW type, NEW start \in Nat, start <= Lsn, EntryOK(f, e, type, start)
  PROVE  EntryOK(f, e, type, start)'
<1>1. Lsn \in Nat /\ Lsn' \in Nat /\ Lsn <= Lsn' /\ now \in Nat /\ now' \in Nat /\ now <= now'
  BY DEF Grows
<1>2. CASE e = None
  BY <1>1, <1>2, MissingKept DEF EntryOK
<1>3. CASE e # None
  <2>1. e.ts \in Nat /\ e.sum \in Nat \union {None}
    BY <1>3 DEF Entry
  <2>2. e.ts < now' /\ (e.sum # None => e.sum <= Lsn')
    BY <1>1, <1>3, <2>1 DEF EntryOK
  <2>3. e.ref # None => RefOK(f, e.ref, e.sum)'
    BY <1>3, RefKept DEF EntryOK
  <2>4. Sound(f, e, start) => Sound(f, e, start)'
    BY <2>1, SoundKept
  <2>5. Settled(f, e.ts, e.sum) => Settled(f, e.ts, e.sum)'
    BY <2>1, SettledKept
  <2> QED
    BY <1>3, <2>2, <2>3, <2>4, <2>5 DEF EntryOK
<1> QED
  BY <1>2, <1>3

LEMMA FreshKept ==
  ASSUME Grows, delta' = delta, NEW f \in Files, NEW ts, NEW start \in Nat, start <= Lsn,
         \A b \in DOMAIN repo' :
           b \in DOMAIN repo /\ repo'[b].main = repo[b].main /\ repo'[b].copy = repo[b].copy,
         Fresh(f, ts, start)
  PROVE  Fresh(f, ts, start)'
<1>1. \A i : Covers(f, i, start) => Covers(f, i, start)'
  BY CoversKept
<1> QED
  BY <1>1 DEF Fresh

LEMMA FoundKept ==
  ASSUME Grows, delta' = delta, NEW f \in Files, NEW e \in Entry \union {None},
         NEW start \in Nat, start <= Lsn, NEW limit \in Nat, NEW upper \in Nat, limit <= upper,
         \A b \in DOMAIN repo' :
           b \in DOMAIN repo /\ repo'[b].main = repo[b].main /\ repo'[b].copy = repo[b].copy,
         FoundOK(f, e, start, limit)
  PROVE  FoundOK(f, e, start, upper)'
<1>1. Lsn \in Nat /\ Lsn' \in Nat /\ Lsn <= Lsn'
  BY DEF Grows
<1>2. CASE e = None
  BY <1>1, <1>2, MissingKept DEF FoundOK
<1>3. CASE e # None
  <2>1. e.ts \in Nat
    BY <1>3 DEF Entry
  <2>2. Fresh(f, e.ts, start)'
    BY <1>3, FreshKept DEF FoundOK
  <2> QED
    BY <1>3, <2>1, <2>2 DEF FoundOK
<1> QED
  BY <1>2, <1>3

LEMMA JobDataKept ==
  ASSUME Grows, Kept, NEW f \in Files, NEW e \in Entry \union {None}, NEW j, NEW r,
         j \in {"write", "written"} => r \in ReadFile, NEW gone, NEW start \in Nat, start <= Lsn,
         NEW file, JobOK(f, e, j, r, gone, start, file)
  PROVE  JobOK(f, e, j, r, gone, start, file)'
<1>1. Lsn \in Nat /\ Lsn' \in Nat /\ Lsn <= Lsn'
  BY DEF Grows
<1>2. Missing(f, start, Lsn) => Missing(f, start, Lsn)'
  BY <1>1, MissingKept
<1>3. e # None => e.ts \in Nat
  BY DEF Entry
<1>4. e # None /\ Sound(f, e, start) => Sound(f, e, start)'
  BY <1>3, SoundKept
<1>5. Stored(f, e, file) => Stored(f, e, file)'
  BY StoredKept
<1>6. ASSUME j \in {"write", "written"}
      PROVE  r.sum <= Lsn' /\ Covers(f, r.sum, start)' /\ Settled(f, e.ts, r.sum)'
  <2>1. r.sum \in Nat /\ e # None
    BY <1>6 DEF ReadFile, JobOK
  <2>2. r.sum <= Lsn /\ Covers(f, r.sum, start) /\ Settled(f, e.ts, r.sum)
    BY <1>6 DEF JobOK
  <2> QED
    BY <1>1, <1>3, <2>1, <2>2, CoversKept, SettledKept
<1> QED
  BY <1>2, <1>4, <1>5, <1>6 DEF JobOK

(* The database: the steps of Tick, PgWrite and PgRemove.                  *)
LEMMA FileKept ==
  ASSUME KeptInv, Tick \/ \E f \in Files : PgWrite(f) \/ PgRemove(f), NEW g \in Files, FileOK(g)
  PROVE  FileOK(g)'
<1>1. DbTypeOK /\ DbTypeOK' /\ Grows
  BY DbKept, DbGrows DEF KeptInv, TypeOK
<1>2. Lsn \in Nat /\ Lsn' \in Nat /\ now \in Nat /\ now' \in Nat /\ now <= now'
  BY <1>1 DEF Grows
<1>3. pg[g] # None => pg[g].lsn \in Nat /\ pg[g].ts \in Nat
  BY <1>1 DEF DbTypeOK, PgFile
<1>4. CASE Tick
  <2>1. wal' = wal /\ pg' = pg
    BY <1>4 DEF Tick
  <2> QED
    BY <1>2, <1>3, <2>1 DEF FileOK, Covers, Lsn
<1>5. ASSUME NEW f \in Files, PgWrite(f) \/ PgRemove(f) PROVE FileOK(g)'
  <2>1. PICK x \in [file : Files, gone : BOOLEAN] :
          /\ wal' = Append(wal, x) /\ now' = now /\ x.file = f /\ (pg'[f] = None => x.gone)
          /\ pg'[f] # None => pg'[f].lsn = Lsn + 1 /\ pg'[f].ts = now
          /\ \A h \in Files \ {f} : pg'[h] = pg[h]
    <3>1. CASE PgWrite(f)
      <4>1. PICK size \in Sizes : pg' = [pg EXCEPT ![f] = [lsn |-> Lsn + 1, ts |-> now, size |-> size]]
        BY <3>1 DEF PgWrite
      <4>2. [lsn |-> Lsn + 1, ts |-> now, size |-> size] \in PgFile
        BY <1>2 DEF PgFile
      <4>3. pg'[f] = [lsn |-> Lsn + 1, ts |-> now, size |-> size] /\ \A h \in Files \ {f} : pg'[h] = pg[h]
        BY <1>1, <4>1 DEF DbTypeOK
      <4>4. pg'[f] # None /\ pg'[f].lsn = Lsn + 1 /\ pg'[f].ts = now
        BY <4>2, <4>3, NoneAssumption
      <4>5. PICK x \in [file : Files, gone : BOOLEAN] : x = [file |-> f, gone |-> FALSE]
        OBVIOUS
      <4>6. wal' = Append(wal, x) /\ now' = now /\ x.file = f
        BY <3>1, <4>5 DEF PgWrite
      <4> QED
        BY <4>3, <4>4, <4>6
    <3>2. CASE PgRemove(f)
      <4>1. PICK x \in [file : Files, gone : BOOLEAN] : x = [file |-> f, gone |-> TRUE]
        OBVIOUS
      <4>2. wal' = Append(wal, x) /\ now' = now /\ x.file = f /\ x.gone
        BY <3>2, <4>1 DEF PgRemove
      <4>3. pg'[f] = None /\ \A h \in Files \ {f} : pg'[h] = pg[h]
        BY <1>1, <3>2 DEF PgRemove, DbTypeOK
      <4> QED
        BY <4>2, <4>3
    <3> QED
      BY <1>5, <3>1, <3>2
  <2>2. PICK k \in Nat : k = Lsn
    BY <1>2
  <2>3. /\ Lsn' = k + 1 /\ wal'[k + 1] = x
        /\ \A j \in 1 .. k : wal'[j] = wal[j]
    BY <1>1, <2>1, <2>2 DEF DbTypeOK, Lsn
  <2>4. CASE g = f
    <3>1. Covers(f, k + 1, k + 1)' /\ k + 1 \in 1 .. k + 1
      BY DEF Covers
    <3>2. CASE pg'[f] = None
      <4>1. wal'[k + 1].file = f /\ wal'[k + 1].gone
        BY <2>1, <2>3, <3>2
      <4> QED
        BY <2>3, <2>4, <3>1, <3>2, <4>1 DEF FileOK
    <3>3. CASE pg'[f] # None
      <4>1. pg'[f].lsn = k + 1 /\ pg'[f].ts = now /\ now' = now
        BY <2>1, <2>2, <3>3
      <4>2. k + 1 <= Lsn' /\ now <= now' /\ Covers(f, k + 1, k + 1)'
        BY <1>2, <2>3, <3>1, <4>1
      <4> QED
        BY <2>3, <2>4, <3>3, <4>1, <4>2 DEF FileOK
    <3> QED
      BY <3>2, <3>3
  <2>5. CASE g # f
    <3>1. ASSUME NEW i \in Nat, Covers(g, i, k) PROVE Covers(g, i, k + 1)'
      <4>1. ASSUME NEW j \in 1 .. k + 1, wal'[j].file = g PROVE j <= i
        <5>1. j # k + 1
          BY <2>1, <2>3, <2>5, <4>1
        <5>2. j \in 1 .. k /\ wal'[j] = wal[j]
          BY <2>3, <5>1
        <5> QED
          BY <3>1, <4>1, <5>2 DEF Covers
      <4> QED
        BY <4>1 DEF Covers
    <3>2. pg'[g] = pg[g]
      BY <2>1, <2>5
    <3>3. CASE pg[g] = None
      <4>1. PICK i \in 1 .. k : wal[i].file = g /\ wal[i].gone /\ Covers(g, i, k)
        BY <2>2, <3>3 DEF FileOK
      <4>2. i \in 1 .. k + 1 /\ wal'[i] = wal[i] /\ Covers(g, i, k + 1)'
        BY <2>3, <3>1, <4>1
      <4> QED
        BY <2>3, <3>2, <3>3, <4>1, <4>2 DEF FileOK
    <3>4. CASE pg[g] # None
      <4>1. PICK i \in Nat : i = pg[g].lsn
        BY <1>3, <3>4
      <4>2. i <= k /\ Covers(g, i, k) /\ pg[g].ts <= now
        BY <2>2, <3>4, <4>1 DEF FileOK
      <4>3. i <= k + 1 /\ Covers(g, i, k + 1)' /\ pg'[g].ts <= now' /\ pg'[g].lsn = i
        BY <1>2, <1>3, <2>1, <3>1, <3>2, <3>4, <4>1, <4>2
      <4> QED
        BY <2>3, <3>2, <3>4, <4>3 DEF FileOK
    <3> QED
      BY <3>3, <3>4
  <2> QED
    BY <2>4, <2>5
<1> QED
  BY <1>4, <1>5

(* The parts of CommandOK that most steps leave alone.                     *)
LEMMA EntriesKept ==
  ASSUME KeptInv, Grows, Kept, delta' = delta, p.start <= Lsn,
         p'.file = p.file, p'.type = p.type, p'.start = p.start,
         \A f \in Files : EntryOK(f, p.file[f], p.type, p.start)
  PROVE  \A f \in Files : EntryOK(f, p.file[f], p.type, p.start)'
<1> SUFFICES ASSUME NEW f \in Files PROVE EntryOK(f, p.file[f], p.type, p.start)'
  OBVIOUS
<1>1. PICK q \in CommandRecord : q = p
  BY DEF KeptInv, TypeOK
<1>2. q.file[f] \in Entry \union {None} /\ q.start \in Nat
  BY DEF CommandRecord
<1>3. EntryOK(f, q.file[f], q.type, q.start)'
  BY <1>1, <1>2, EntryKept
<1> QED
  BY <1>1, <1>3

LEMMA RepoSameOK ==
  ASSUME KeptInv, RepoOK, Grows, Kept, delta' = delta, repo' = repo
  PROVE  RepoOK'
<1>1. None \notin DOMAIN repo'
  BY NoneAssumption DEF KeptInv, TypeOK, RepoTypeOK
<1> QED
  BY <1>1, RepoKept

LEMMA DbData ==
  ASSUME RepoInv, DataInv, Tick \/ \E f \in Files : PgWrite(f) \/ PgRemove(f)
  PROVE  DataInv'
<1>1. KeptInv /\ WorkOK /\ Grows /\ Kept
  BY DbKept, DbGrows DEF RepoInv
<1>2. UNCHANGED <<repo, p, delta>>
  BY DEF Tick, PgWrite, PgRemove
<1>3. \A f \in Files : FileOK(f)'
  BY <1>1, FileKept DEF DataInv
<1>4. RepoOK'
  BY <1>1, <1>2, RepoSameOK DEF DataInv
<1>5. PICK q \in CommandRecord : q = p
  BY <1>1 DEF KeptInv, TypeOK
<1>6. q.start \in Nat /\ q.stop \in Nat /\ q.copyStart \in Nat /\ \A f \in Files : q.file[f] \in Entry \union {None}
  BY DEF CommandRecord
<1>7. CommandOK /\ Lsn \in Nat /\ Lsn' \in Nat /\ Lsn <= Lsn' /\ now \in Nat /\ now' \in Nat /\ now <= now'
  BY <1>1 DEF DataInv, Grows
<1>8. \A b \in DOMAIN repo' :
         b \in DOMAIN repo /\ repo'[b].main = repo[b].main /\ repo'[b].copy = repo[b].copy
  BY <1>2
<1>9. q.pc \notin {"idle", "history", "info", "infoCopy"} => q.start <= Lsn /\ q.start <= Lsn'
  BY <1>5, <1>6, <1>7 DEF CommandOK
<1>10. q.pc = "build" => \A f \in Files \ q.left : FoundOK(f, q.file[f], q.start, now)'
  <2> SUFFICES ASSUME q.pc = "build", NEW f \in Files \ q.left
               PROVE  FoundOK(f, q.file[f], q.start, now)'
    OBVIOUS
  <2>1. FoundOK(f, q.file[f], q.start, now) /\ q.start <= Lsn
    BY <1>5, <1>7, <1>9 DEF CommandOK
  <2> QED
    BY <1>1, <1>2, <1>6, <1>7, <1>8, <2>1, FoundKept
<1>11. q.pc = "wait" =>
         q.copyStart <= now' /\ \A f \in Files : FoundOK(f, q.file[f], q.start, q.copyStart)'
  <2> SUFFICES ASSUME q.pc = "wait"
               PROVE  /\ q.copyStart <= now'
                      /\ \A f \in Files : FoundOK(f, q.file[f], q.start, q.copyStart)'
    OBVIOUS
  <2>1. q.copyStart <= now /\ q.start <= Lsn /\ \A f \in Files : FoundOK(f, q.file[f], q.start, q.copyStart)
    BY <1>5, <1>7, <1>9 DEF CommandOK
  <2>2. q.copyStart <= now' /\ q.copyStart <= q.copyStart
    BY <1>6, <1>7, <2>1
  <2> QED
    BY <1>1, <1>2, <1>6, <1>8, <2>1, <2>2, FoundKept
<1>12. q.pc \in {"resume", "clean"} =>
         /\ \A f \in Files : q.file[f] # None => Fresh(f, q.file[f].ts, q.start)'
         /\ q.type = "full" /\ q.delta => delta
         /\ delta => q.delta
  <2> SUFFICES ASSUME q.pc \in {"resume", "clean"}
               PROVE  /\ \A f \in Files : q.file[f] # None => Fresh(f, q.file[f].ts, q.start)'
                      /\ q.type = "full" /\ q.delta => delta
                      /\ delta => q.delta
    OBVIOUS
  <2>1. /\ q.start <= Lsn /\ \A f \in Files : q.file[f] # None => Fresh(f, q.file[f].ts, q.start)
        /\ q.type = "full" /\ q.delta => delta
        /\ delta => q.delta
    BY <1>5, <1>7, <1>9 DEF CommandOK
  <2> QED
    BY <1>1, <1>2, <1>6, <1>8, <2>1, FreshKept
<1>13. q.pc \in {"resume", "remove", "clean", "label", "save", "process"} =>
         \A f \in Files : EntryOK(f, p.file[f], p.type, p.start)'
  BY <1>1, <1>2, <1>5, <1>7, <1>9, EntriesKept DEF CommandOK
<1>14. q.pc = "process" =>
         \A f \in Files :
           JobOK(f, q.file[f], q.job[f], q.read[f], f \in q.gone, q.start, repo[q.label].file)'
  <2> SUFFICES ASSUME q.pc = "process", NEW f \in Files
               PROVE  JobOK(f, q.file[f], q.job[f], q.read[f], f \in q.gone, q.start, repo[q.label].file)'
    OBVIOUS
  <2>1. PICK file : file = repo[q.label].file
    OBVIOUS
  <2>2. JobOK(f, q.file[f], q.job[f], q.read[f], f \in q.gone, q.start, file) /\ q.start <= Lsn
    BY <1>5, <1>7, <1>9, <2>1 DEF CommandOK
  <2>3. q.job[f] \in {"write", "written"} => q.read[f] \in ReadFile
    BY <1>1, <1>5 DEF WorkOK
  <2>4. JobOK(f, q.file[f], q.job[f], q.read[f], f \in q.gone, q.start, file)'
    BY <1>1, <1>6, <2>2, <2>3, JobDataKept
  <2> QED
    BY <1>2, <2>1, <2>4
<1>15. q.pc \in {"archive", "main"} =>
         /\ q.start <= q.stop /\ q.stop <= Lsn'
         /\ \A f \in Files : DoneOK(f, q.file[f], q.start, q.stop, repo[q.label].file)'
  <2> SUFFICES ASSUME q.pc \in {"archive", "main"}
               PROVE  /\ q.start <= q.stop /\ q.stop <= Lsn'
                      /\ \A f \in Files : DoneOK(f, q.file[f], q.start, q.stop, repo[q.label].file)'
    OBVIOUS
  <2>1. PICK file : file = repo[q.label].file
    OBVIOUS
  <2>2. /\ q.start <= q.stop /\ q.stop <= Lsn
        /\ \A f \in Files : DoneOK(f, q.file[f], q.start, q.stop, file)
    BY <1>5, <1>7, <2>1 DEF CommandOK
  <2>3. q.stop <= Lsn'
    BY <1>6, <1>7, <2>2
  <2>4. \A f \in Files : q.file[f] # None => q.file[f].ts \in Nat
    BY <1>6 DEF Entry
  <2>5. \A f \in Files : DoneOK(f, q.file[f], q.start, q.stop, file)'
    BY <1>1, <1>6, <2>2, <2>4, DoneKept
  <2> QED
    BY <1>2, <2>1, <2>2, <2>3, <2>5
<1>16. /\ q.pc # "process" => q.gone = {}
       /\ q.pc = "clean" => /\ q.type = "full" /\ repo[q.label].copy # None
                            /\ repo[q.label].copy.type = "full" /\ q.old = repo[q.label].copy.file
  BY <1>5, <1>7 DEF CommandOK
<1>17. (p.pc = "main" => repo[p.label].copy = ManifestOf(p.stop))'
  BY <1>2, <1>7 DEF CommandOK, ManifestOf
<1>18. CommandOK'
  BY <1>2, <1>5, <1>9, <1>10, <1>11, <1>12, <1>13, <1>14, <1>15, <1>16, <1>17 DEF CommandOK
<1> QED
  BY <1>3, <1>4, <1>18 DEF DataInv

(***************************************************************************)
(* The steps of the command                                                *)
(***************************************************************************)
LEMMA FileSame ==
  ASSUME DataInv, UNCHANGED <<wal, pg, now>>
  PROVE  \A f \in Files : FileOK(f)'
BY DEF DataInv, FileOK, Covers, Lsn

(* What is in the data directory now holds the changes until start.        *)
LEMMA FoundFacts ==
  ASSUME KeptInv, DataInv, NEW f \in Files, NEW start \in Nat, start <= Lsn
  PROVE  /\ pg[f] = None => Missing(f, start, Lsn)
         /\ pg[f] # None => /\ pg[f].lsn \in Nat /\ pg[f].lsn <= Lsn /\ Covers(f, pg[f].lsn, start)
                            /\ pg[f].ts \in Nat /\ pg[f].ts <= now
<1>1. FileOK(f) /\ Lsn \in Nat
  BY DEF DataInv, KeptInv, TypeOK, DbTypeOK, Lsn
<1>2. \A i : Covers(f, i, Lsn) => Covers(f, i, start)
  BY <1>1 DEF Covers
<1>3. pg[f] # None => pg[f].lsn \in Nat /\ pg[f].ts \in Nat
  BY DEF KeptInv, TypeOK, DbTypeOK, PgFile
<1> QED
  BY <1>1, <1>2, <1>3 DEF FileOK, Missing

LEMMA IdleOK ==
  ASSUME p'.pc \in {"idle", "history", "info", "infoCopy"}, p'.gone = {}
  PROVE  CommandOK'
BY DEF CommandOK

(* A step that leaves the database and the repository alone and ends the   *)
(* work of the command.                                                    *)
LEMMA IdleData ==
  ASSUME KeptInv, DataInv, UNCHANGED <<wal, pg, now, repo, delta>>, Kept,
         p'.pc \in {"idle", "history", "info", "infoCopy"}, p'.gone = {}
  PROVE  DataInv'
BY SameGrows, FileSame, RepoSameOK, IdleOK DEF DataInv

LEMMA StartData ==
  ASSUME RepoInv, DataInv, ~DeltaMayChange, BackupStart
  PROVE  DataInv'
<1>1. KeptInv /\ Kept
  BY StartKept DEF RepoInv
<1>2. UNCHANGED <<wal, pg, now, repo, delta>>
  BY DEF BackupStart, db
<1>3. p'.pc = "build" /\ p'.left = Files /\ p'.gone = {} /\ p'.start = Lsn
  BY DEF BackupStart, Idle
<1>4. Lsn \in Nat /\ Lsn' = Lsn
  BY <1>1, <1>2 DEF KeptInv, TypeOK, DbTypeOK, Lsn
<1>5. p'.start <= Lsn'
  BY <1>3, <1>4
<1>6. CommandOK'
  BY <1>3, <1>5 DEF CommandOK
<1> QED
  BY <1>1, <1>2, <1>6, SameGrows, FileSame, RepoSameOK DEF DataInv

LEMMA AbortData ==
  ASSUME RepoInv, DataInv, Abort
  PROVE  DataInv'
<1>1. KeptInv /\ Kept
  BY AbortKept DEF RepoInv
<1>2. UNCHANGED <<wal, pg, now, repo, delta>> /\ p'.pc = "idle" /\ p'.gone = {}
  BY DEF Abort, db, Idle
<1> QED
  BY <1>1, <1>2, IdleData

LEMMA CompleteInfoData ==
  ASSUME RepoInv, DataInv, CompleteHistory \/ CompleteInfo \/ CompleteInfoCopy
  PROVE  DataInv'
<1>1. KeptInv /\ Kept /\ p \in CommandRecord
  BY HistoryKept, InfoKept DEF RepoInv, KeptInv, TypeOK
<1>2. UNCHANGED <<wal, pg, now, repo, delta>>
  BY DEF CompleteHistory, CompleteInfo, CompleteInfoCopy, db
<1>3. p.gone = {} \/ CompleteInfoCopy
  BY DEF DataInv, CommandOK, CompleteHistory, CompleteInfo
<1>4. p'.pc \in {"idle", "info", "infoCopy"} /\ p'.gone = {}
  <2>1. CASE CompleteHistory
    BY <1>1, <1>3, <2>1, HistoryStep DEF CompleteHistory, CompleteInfoCopy
  <2>2. CASE CompleteInfo
    <3>1. p' = [p EXCEPT !.pc = "infoCopy"] /\ p.gone = {}
      BY <1>3, <2>2 DEF CompleteInfo, CompleteInfoCopy
    <3> QED
      BY <1>1, <3>1 DEF CommandRecord
  <2>3. CASE CompleteInfoCopy
    BY <2>3 DEF CompleteInfoCopy, Idle
  <2> QED
    BY <2>1, <2>2, <2>3
<1> QED
  BY <1>1, <1>2, <1>4, IdleData

(* A file that is found has the contents of every entry with its timestamp.*)
LEMMA FoundIsFresh ==
  ASSUME KeptInv, DataInv, NEW f \in Files, pg[f] # None, NEW start \in Nat, start <= Lsn
  PROVE  Fresh(f, pg[f].ts, start)
<1>1. Covers(f, pg[f].lsn, start)
  BY FoundFacts
<1>2. ASSUME NEW b \in DOMAIN repo, repo[b].main # None, repo[b].main.file[f] # None,
             repo[b].main.file[f].ts = pg[f].ts
      PROVE  Covers(f, repo[b].main.file[f].sum, start)
  <2>1. Settled(f, repo[b].main.file[f].ts, repo[b].main.file[f].sum)
    BY <1>2 DEF DataInv, RepoOK, MainOK, DoneOK, Sound
  <2> QED
    BY <1>1, <1>2, <2>1 DEF Settled
<1>3. ASSUME NEW b \in DOMAIN repo, repo[b].copy # None, repo[b].copy.file[f] # None,
             repo[b].copy.file[f].sum # None, repo[b].copy.type = "full", ~delta,
             repo[b].copy.file[f].ts = pg[f].ts
      PROVE  Covers(f, repo[b].copy.file[f].sum, start)
  <2>1. Settled(f, repo[b].copy.file[f].ts, repo[b].copy.file[f].sum)
    BY <1>3 DEF DataInv, RepoOK, CopyOK
  <2> QED
    BY <1>1, <1>3, <2>1 DEF Settled
<1> QED
  BY <1>2, <1>3 DEF Fresh

LEMMA BuildInfoData ==
  ASSUME RepoInv, DataInv, NEW f \in Files, ManifestBuildInfo(f)
  PROVE  DataInv'
<1>1. KeptInv /\ Kept /\ p \in CommandRecord
  BY BuildInfoKept DEF RepoInv, KeptInv, TypeOK
<1>2. UNCHANGED <<wal, pg, now, repo, delta>> /\ Grows
  BY <1>1, SameGrows DEF ManifestBuildInfo, db
<1> DEFINE e == IF pg[f] = None THEN None
                ELSE [ts |-> pg[f].ts, size |-> pg[f].size, orig |-> pg[f].size,
                      sum |-> None, ref |-> None, copy |-> TRUE, delta |-> FALSE, resume |-> FALSE]
<1>3. p.pc = "build" /\ p' = [p EXCEPT !.left = @ \ {f}, !.file[f] = e]
  BY DEF ManifestBuildInfo
<1>4. pg[f] # None => e # None
  <2> SUFFICES ASSUME pg[f] # None PROVE e # None
    OBVIOUS
  <2>1. PICK q \in PgFile : q = pg[f]
    BY <1>1 DEF KeptInv, TypeOK, DbTypeOK
  <2>2. q.ts \in Nat /\ q.size \in Nat
    BY BackupAssumption DEF PgFile
  <2>3. e \in Entry
    BY <2>1, <2>2 DEF Entry
  <2> QED
    BY <2>3, NoneAssumption
<1>5. FoundOK(f, e, p.start, now) /\ p.start \in Nat /\ p.start <= Lsn
  <2>1. p.start \in Nat /\ p.start <= Lsn
    BY <1>1, <1>3 DEF DataInv, CommandOK, CommandRecord
  <2>2. CASE pg[f] = None
    BY <1>1, <2>1, <2>2, FoundFacts DEF FoundOK
  <2>3. CASE pg[f] # None
    <3>1. Fresh(f, pg[f].ts, p.start) /\ pg[f].ts <= now
      BY <1>1, <2>1, <2>3, FoundIsFresh, FoundFacts
    <3>2. e # None /\ e.ts = pg[f].ts /\ e.sum = None /\ e.ref = None /\ e.copy /\ ~e.delta /\ ~e.resume
      BY <1>4, <2>3
    <3> HIDE DEF e
    <3> QED
      BY <2>1, <3>1, <3>2 DEF FoundOK
  <2> QED
    BY <2>1, <2>2, <2>3
<1> HIDE DEF e
<1>6. /\ p'.pc = "build" /\ p'.gone = p.gone /\ p'.start = p.start /\ p'.left = p.left \ {f}
      /\ p'.file[f] = e /\ \A g \in Files \ {f} : p'.file[g] = p.file[g]
  BY <1>1, <1>3 DEF CommandRecord
<1>7. ASSUME NEW g \in Files \ p'.left PROVE FoundOK(g, p'.file[g], p.start, now)
  BY <1>3, <1>5, <1>6 DEF DataInv, CommandOK
<1>8. (\A g \in Files \ p.left : FoundOK(g, p.file[g], p.start, now))'
  BY <1>2, <1>6, <1>7 DEF FoundOK, Fresh, Missing, Covers, Lsn
<1>9. CommandOK'
  BY <1>2, <1>3, <1>5, <1>6, <1>8 DEF DataInv, CommandOK, Lsn
<1> QED
  BY <1>1, <1>2, <1>9, FileSame, RepoSameOK DEF DataInv

LEMMA TimeData ==
  ASSUME RepoInv, DataInv, BackupTime
  PROVE  DataInv'
<1>1. KeptInv /\ Kept /\ p \in CommandRecord
  BY TimeKept DEF RepoInv, KeptInv, TypeOK
<1>2. UNCHANGED <<wal, pg, now, repo, delta>> /\ Grows
  BY <1>1, SameGrows DEF BackupTime, db
<1>3. p.pc = "build" /\ p.left = {} /\ p' = [p EXCEPT !.pc = "wait", !.copyStart = now]
  BY DEF BackupTime
<1>4. p'.pc = "wait" /\ p'.gone = p.gone /\ p'.start = p.start /\ p'.file = p.file /\ p'.copyStart = now
  BY <1>1, <1>3 DEF CommandRecord
<1>5. p.start <= Lsn /\ p.gone = {} /\ \A f \in Files : FoundOK(f, p.file[f], p.start, now)
  BY <1>3 DEF DataInv, CommandOK
<1>6. (\A f \in Files : FoundOK(f, p.file[f], p.start, p.copyStart))'
  BY <1>2, <1>4, <1>5 DEF FoundOK, Fresh, Missing, Covers, Lsn
<1>7. p'.copyStart <= now' /\ p'.start <= Lsn'
  BY <1>2, <1>4, <1>5 DEF Grows, Lsn
<1>8. CommandOK'
  BY <1>4, <1>5, <1>6, <1>7 DEF CommandOK
<1> QED
  BY <1>1, <1>2, <1>8, FileSame, RepoSameOK DEF DataInv

(* An entry of the prior backup.                                           *)
LEMMA PriorFacts ==
  ASSUME KeptInv, DataInv, NEW f \in Files, PriorFiles[f] # None
  PROVE  LET q == PriorFiles[f] IN
         /\ p.prior # None /\ p.type # "full" /\ HasMain(p.prior)
         /\ q = repo[p.prior].main.file[f] /\ q \in SavedEntry
         /\ q.sum \in Nat /\ q.sum <= Lsn /\ Settled(f, q.ts, q.sum)
         /\ Stored(f, q, repo[p.prior].file)
<1>1. p.prior # None
  BY DEF PriorFiles, NoFiles
<1>2. p.type # "full" /\ HasMain(p.prior)
  BY <1>1 DEF KeptInv, ListedOK
<1>3. PriorFiles[f] = repo[p.prior].main.file[f]
  BY <1>1 DEF PriorFiles
<1>4. MainOK(repo[p.prior].main, repo[p.prior].file)
  BY <1>2 DEF DataInv, RepoOK, HasMain
<1> DEFINE q == PriorFiles[f]
           m == repo[p.prior].main
<1>5. /\ q.sum \in Nat /\ q.sum <= m.stop /\ Settled(f, q.ts, q.sum)
      /\ Stored(f, q, repo[p.prior].file)
  BY <1>3, <1>4 DEF MainOK, DoneOK, Sound
<1>6. m.stop \in Nat /\ m.stop <= Lsn /\ Lsn \in Nat
  BY <1>4 DEF MainOK, KeptInv, TypeOK, DbTypeOK, Lsn
<1>7. q.sum <= Lsn
  BY <1>5, <1>6
<1>8. q \in SavedEntry
  BY PriorFilesType
<1> QED
  BY <1>1, <1>2, <1>3, <1>5, <1>7, <1>8

LEMMA BuildIncrEntry ==
  ASSUME KeptInv, DataInv, p.pc = "wait", SecondPassed, NEW f \in Files, NEW d \in BOOLEAN,
         NEW e, e = BuildIncr(p.file[f], PriorFiles[f], p.prior, d)
  PROVE  /\ EntryOK(f, e, p.type, p.start)
         /\ e # None => Fresh(f, e.ts, p.start)
<1>1. PICK e0 \in Entry \union {None} : e0 = p.file[f]
  BY DEF KeptInv, TypeOK, CommandRecord
<1>2. FoundOK(f, e0, p.start, p.copyStart) /\ p.start <= Lsn /\ p.start \in Nat
  BY <1>1 DEF DataInv, CommandOK, KeptInv, TypeOK, CommandRecord
<1>3. p.copyStart \in Nat /\ now \in Nat /\ p.copyStart < now
  BY DEF SecondPassed, KeptInv, TypeOK, CommandRecord, DbTypeOK
<1>4. CASE e0 = None
  BY <1>1, <1>2, <1>4 DEF BuildIncr, FoundOK, EntryOK
<1>5. CASE e0 # None
  <2>1. /\ e0 \in Entry /\ e0.ts \in Nat /\ e0.sum = None /\ e0.ref = None /\ e0.copy = TRUE
        /\ e0.resume = FALSE /\ Fresh(f, e0.ts, p.start) /\ e0.ts <= p.copyStart
    BY <1>2, <1>5 DEF FoundOK, Entry
  <2>2. e0.ts < now
    BY <1>3, <2>1
  <2>3. CASE e = e0
    BY <1>5, <2>1, <2>2, <2>3 DEF EntryOK
  <2>4. CASE e # e0
    <3> DEFINE q == PriorFiles[f]
               ref == IF q.ref = None THEN p.prior ELSE q.ref
               copy == d \/ e0.ts # q.ts
    <3>1. q # None /\ e = [e0 EXCEPT !.sum = q.sum, !.ref = ref, !.delta = d, !.copy = copy]
      BY <1>1, <1>5, <2>4 DEF BuildIncr
    <3>2. /\ p.prior # None /\ p.type # "full" /\ HasMain(p.prior)
          /\ q = repo[p.prior].main.file[f] /\ q \in SavedEntry
          /\ q.sum \in Nat /\ q.sum <= Lsn /\ Settled(f, q.ts, q.sum)
          /\ Stored(f, q, repo[p.prior].file)
      BY <3>1, PriorFacts
    <3>3. ref # None /\ RefOK(f, ref, q.sum)
      BY <3>2 DEF Stored, RefOK
    <3>4. copy \in BOOLEAN /\ (~copy => e0.ts = q.ts)
      OBVIOUS
    <3>5. e0.ts = q.ts => Covers(f, q.sum, p.start)
      BY <2>1, <3>1, <3>2 DEF Fresh, HasMain
    <3>6. ref \in Label
      <4>1. p.prior \in Label
        BY <3>2 DEF KeptInv, TypeOK, CommandRecord, LabelOrNone
      <4> QED
        BY <3>2, <4>1 DEF SavedEntry
    <3> HIDE DEF q, ref, copy
    <3>7. e \in Entry /\ e.ts = e0.ts /\ e.sum = q.sum /\ e.ref = ref /\ e.copy = copy /\ e.resume = FALSE
      <4>1. PICK s \in Nat : s = q.sum
        BY <3>2
      <4>2. e = [e0 EXCEPT !.sum = s, !.ref = ref, !.delta = d, !.copy = copy]
        BY <3>1, <4>1
      <4> QED
        BY <2>1, <3>4, <3>6, <4>1, <4>2 DEF Entry
    <3>8. ~e.copy => Sound(f, e, p.start)
      BY <3>2, <3>4, <3>5, <3>7 DEF Sound
    <3>9. e # None
      BY <3>7, NoneAssumption
    <3> QED
      BY <2>1, <2>2, <3>2, <3>3, <3>7, <3>8, <3>9 DEF EntryOK
  <2> QED
    BY <2>3, <2>4
<1> QED
  BY <1>4, <1>5

LEMMA BuildIncrData ==
  ASSUME RepoInv, DataInv, ManifestBuildIncr
  PROVE  DataInv'
<1>1. KeptInv /\ Kept /\ p \in CommandRecord
  BY BuildIncrKept DEF RepoInv, KeptInv, TypeOK
<1>2. UNCHANGED <<wal, pg, now, repo, delta>> /\ Grows
  BY <1>1, SameGrows DEF ManifestBuildIncr, db
<1>3. PICK d \in BOOLEAN :
        /\ delta => d
        /\ p.prior = None /\ d => delta \/ NeedsDelta(p.file, PriorFiles, p.copyStart)
        /\ p' \in CommandRecord /\ p'.pc = "resume" /\ p'.delta = d
        /\ \A f \in Files : p'.file[f] = BuildIncr(p.file[f], PriorFiles[f], p.prior, d)
        /\ p'.listed = p.listed /\ p'.prior = p.prior /\ p'.type = p.type
        /\ p'.start = p.start /\ p'.gone = p.gone
  BY <1>1, BuildIncrStep
<1>4. p.pc = "wait" /\ SecondPassed /\ p.gone = {} /\ p.start <= Lsn
  BY DEF ManifestBuildIncr, DataInv, CommandOK
<1>5. ASSUME NEW f \in Files
      PROVE  /\ EntryOK(f, p'.file[f], p.type, p.start)
             /\ p'.file[f] # None => Fresh(f, p'.file[f].ts, p.start)
  BY <1>1, <1>3, <1>4, BuildIncrEntry
<1>6. (\A f \in Files : EntryOK(f, p.file[f], p.type, p.start))'
  <2> SUFFICES ASSUME NEW f \in Files PROVE EntryOK(f, p.file[f], p.type, p.start)'
    OBVIOUS
  <2>1. PICK q \in CommandRecord : q = p'
    BY <1>3
  <2>2. q.file[f] \in Entry \union {None} /\ q.start \in Nat
    BY DEF CommandRecord
  <2>3. EntryOK(f, q.file[f], q.type, q.start) /\ q.start <= Lsn
    BY <1>3, <1>4, <1>5, <2>1
  <2>4. EntryOK(f, q.file[f], q.type, q.start)'
    BY <1>1, <1>2, <2>2, <2>3, EntryKept
  <2> QED
    BY <2>1, <2>4
<1>7. (\A f \in Files : p.file[f] # None => Fresh(f, p.file[f].ts, p.start))'
  BY <1>2, <1>3, <1>5 DEF Fresh, Covers
<1>8. p.type = "full" /\ d => delta
  <2> SUFFICES ASSUME p.type = "full" PROVE p.prior = None /\ ~NeedsDelta(p.file, PriorFiles, p.copyStart)
    BY <1>3
  <2>1. p.prior = None
    BY <1>1 DEF KeptInv, ListedOK
  <2>2. \A f \in Files : PriorFiles[f] = None
    BY <2>1 DEF PriorFiles, NoFiles
  <2>3. ASSUME NEW f \in Files, p.file[f] # None PROVE ~(p.file[f].ts > p.copyStart)
    <3>1. p.file[f] \in Entry /\ p.copyStart \in Nat
      BY <1>1, <2>3 DEF CommandRecord
    <3>2. p.file[f].ts <= p.copyStart
      BY <1>4, <2>3 DEF DataInv, CommandOK, FoundOK
    <3>3. p.file[f].ts \in Nat
      BY <3>1 DEF Entry
    <3> QED
      BY <3>1, <3>2, <3>3
  <2> QED
    BY <2>1, <2>2, <2>3 DEF NeedsDelta
<1>9. delta => d
  BY <1>3
<1>10. CommandOK'
  BY <1>2, <1>3, <1>4, <1>6, <1>7, <1>8, <1>9 DEF CommandOK, Lsn
<1> QED
  BY <1>1, <1>2, <1>10, FileSame, RepoSameOK DEF DataInv

LEMMA ResumeFindData ==
  ASSUME RepoInv, DataInv, BackupResumeFind
  PROVE  DataInv'
<1>1. KeptInv /\ Kept
  BY ResumeFindKept DEF RepoInv
<1>2. UNCHANGED <<wal, pg, now, repo, delta>> /\ Grows
  BY <1>1, SameGrows DEF BackupResumeFind, db
<1>3. p.pc = "resume" /\ CommandOK
  BY DEF BackupResumeFind, DataInv
<1>4. /\ p.start <= Lsn /\ p.gone = {} /\ \A f \in Files : EntryOK(f, p.file[f], p.type, p.start)
      /\ \A f \in Files : p.file[f] # None => Fresh(f, p.file[f].ts, p.start)
      /\ p.type = "full" /\ p.delta => delta
      /\ delta => p.delta
  BY <1>3 DEF CommandOK
<1>5. /\ p'.type = p.type /\ p'.start = p.start /\ p'.gone = p.gone /\ p'.file = p.file /\ p'.delta = p.delta
      /\ p'.pc \in {"label", "remove", "clean"}
      /\ p'.pc = "clean" => /\ p.type = "full" /\ repo[p'.label].copy # None
                            /\ repo[p'.label].copy.type = "full" /\ p'.old = repo[p'.label].copy.file
  BY <1>1, ResumeFindStep
<1>6. (\A f \in Files : EntryOK(f, p.file[f], p.type, p.start))'
  BY <1>1, <1>2, <1>4, <1>5, EntriesKept
<1>7. (\A f \in Files : p.file[f] # None => Fresh(f, p.file[f].ts, p.start))'
  BY <1>2, <1>4, <1>5 DEF Fresh, Covers
<1>8. CommandOK'
  BY <1>2, <1>4, <1>5, <1>6, <1>7 DEF CommandOK, Lsn
<1> QED
  BY <1>1, <1>2, <1>8, FileSame, RepoSameOK DEF DataInv

(* The directory of the command keeps its copy of the manifest or loses it.*)
LEMMA DirectoryOK ==
  ASSUME KeptInv, DataInv, Grows, Kept, delta' = delta, NEW l \in DOMAIN repo,
         DOMAIN repo' \subseteq DOMAIN repo, \A b \in DOMAIN repo' \ {l} : repo'[b] = repo[b],
         l \in DOMAIN repo' => repo'[l].main = None /\ repo'[l].copy \in {None, repo[l].copy}
  PROVE  RepoOK'
<1>1. repo[l].copy # None => repo[l].copy \in Manifest /\ CopyOK(repo[l].copy)
  BY DEF KeptInv, TypeOK, RepoTypeOK, RepoRecord, DataInv, RepoOK
<1>2. l \in DOMAIN repo' =>
        /\ repo'[l].main = None
        /\ repo'[l].copy # None => \E m \in Manifest : repo'[l].copy = m /\ CopyOK(m)
  BY <1>1
<1>3. RepoOK
  BY DEF DataInv
<1> QED
  BY <1>2, <1>3, RepoKept

LEMMA RemoveData ==
  ASSUME RepoInv, DataInv, StoragePathRemove
  PROVE  DataInv'
<1>1. KeptInv /\ Kept /\ p \in CommandRecord
  BY RemoveKept DEF RepoInv, KeptInv, TypeOK
<1>2. UNCHANGED <<wal, pg, now, delta>> /\ Grows
  BY <1>1, SameGrows DEF StoragePathRemove, db
<1>3. /\ p.pc = "remove" /\ p.label \in DOMAIN repo /\ DOMAIN repo' \subseteq DOMAIN repo
      /\ \A b \in DOMAIN repo' \ {p.label} : repo'[b] = repo[b]
      /\ p.label \in DOMAIN repo' => repo'[p.label].main = None /\ repo'[p.label].copy \in {None, repo[p.label].copy}
  BY <1>1, RemoveStep
<1>4. RepoOK'
  BY <1>1, <1>2, <1>3, DirectoryOK
<1>5. p'.pc \in {"remove", "label"} /\ p'.type = p.type /\ p'.start = p.start /\ p'.file = p.file /\ p'.gone = p.gone
  BY <1>1, <1>3, RemoveStep DEF CommandRecord
<1>6. p.start <= Lsn /\ p.gone = {} /\ \A f \in Files : EntryOK(f, p.file[f], p.type, p.start)
  BY <1>3 DEF DataInv, CommandOK
<1>7. (\A f \in Files : EntryOK(f, p.file[f], p.type, p.start))'
  BY <1>1, <1>2, <1>5, <1>6, EntriesKept
<1>8. CommandOK'
  BY <1>2, <1>5, <1>6, <1>7 DEF CommandOK, Lsn
<1> QED
  BY <1>2, <1>4, <1>8, FileSame DEF DataInv

(* What a resumed backup stored stands for the file: the option delta did  *)
(* not change, so without it the copy's timestamps can be relied on.       *)
LEMMA KeptEntryOK ==
  ASSUME KeptInv, DataInv, p.pc = "clean", NEW f \in Files, Keeps(p.file[f], p.old[f]),
         NEW e, e = KeptEntry(p.file[f], p.old[f])
  PROVE  EntryOK(f, e, p.type, p.start) /\ e # None /\ e.ts = p.file[f].ts
<1>1. PICK e0 \in Entry, r \in SavedEntry : e0 = p.file[f] /\ r = p.old[f]
  BY DEF Keeps, KeptInv, TypeOK, CommandRecord
<1>2. /\ p.type = "full" /\ repo[p.label].copy # None /\ repo[p.label].copy.type = "full"
      /\ r = repo[p.label].copy.file[f] /\ r # None /\ e0 # None
      /\ r.sum # None /\ (p.delta \/ r.ts = e0.ts)
  BY <1>1 DEF DataInv, CommandOK, Keeps
<1>3. r.sum <= Lsn /\ (~delta => Settled(f, r.ts, r.sum))
  BY <1>2 DEF DataInv, RepoOK, CopyOK, KeptInv, LabelOK
<1>4. EntryOK(f, e0, p.type, p.start) /\ Fresh(f, e0.ts, p.start)
      /\ (p.delta => delta) /\ (delta => p.delta)
  BY <1>1, <1>2 DEF DataInv, CommandOK
<1>5. p.delta \in BOOLEAN /\ r.sum \in Nat
  BY <1>2 DEF KeptInv, TypeOK, CommandRecord, SavedEntry
<1>6. ~p.delta => Covers(f, r.sum, p.start) /\ Settled(f, e0.ts, r.sum)
  BY <1>2, <1>3, <1>4 DEF Fresh, KeptInv, LabelOK
<1>7. /\ e \in Entry /\ e.ts = e0.ts /\ e.sum = r.sum /\ e.ref = e0.ref /\ e.copy = e0.copy
      /\ e.resume = TRUE /\ e.delta = p.delta
  <2>1. PICK d \in BOOLEAN, s \in Nat : d = p.delta /\ s = r.sum
    BY <1>5
  <2>2. e = [e0 EXCEPT !.sum = s, !.resume = TRUE, !.delta = d]
    BY <1>1, <2>1 DEF KeptEntry
  <2> QED
    BY <2>1, <2>2 DEF Entry
<1>8. e # None
  BY <1>7, NoneAssumption
<1>9. e0.ref = None /\ e0.copy
  BY <1>2, <1>4 DEF EntryOK
<1>10. ~e.delta => Sound(f, e, p.start)
  BY <1>5, <1>6, <1>7 DEF Sound
<1>11. ~delta => Settled(f, e.ts, e.sum)
  BY <1>4, <1>6, <1>7
<1>12. e.ts < now
  BY <1>2, <1>4, <1>7 DEF EntryOK
<1> QED
  BY <1>1, <1>2, <1>3, <1>7, <1>8, <1>9, <1>10, <1>11, <1>12 DEF EntryOK

LEMMA CleanData ==
  ASSUME RepoInv, DataInv, NEW f \in Files, BackupResumeClean(f)
  PROVE  DataInv'
<1>1. KeptInv /\ Kept /\ p \in CommandRecord
  BY CleanKept DEF RepoInv, KeptInv, TypeOK
<1>2. UNCHANGED <<wal, pg, now, delta>> /\ Grows
  BY <1>1, SameGrows DEF BackupResumeClean, db
<1>3. /\ p' \in CommandRecord /\ SameChoice /\ p'.gone = p.gone /\ p'.delta = p.delta
      /\ p.pc = "clean" /\ p'.pc = "clean" /\ p'.label = p.label /\ p'.old = p.old
      /\ p.label \in DOMAIN repo /\ ~HasMain(p.label)
  BY <1>1, CleanStep
<1>4. /\ DOMAIN repo' = DOMAIN repo /\ \A b \in DOMAIN repo' \ {p.label} : repo'[b] = repo[b]
      /\ repo'[p.label].main = None /\ repo'[p.label].copy = repo[p.label].copy
  <2>1. CASE repo' = repo
    BY <1>3, <2>1 DEF HasMain
  <2>2. CASE repo' = [repo EXCEPT ![p.label].file[f] = None]
    <3>1. None \in Int \union {None}
      OBVIOUS
    <3> QED
      BY <1>1, <1>3, <2>2, <3>1, FileStep
  <2> QED
    BY <1>1, <2>1, <2>2, CleanStep
<1>5. RepoOK'
  BY <1>1, <1>2, <1>3, <1>4, DirectoryOK
<1>6. /\ p.start <= Lsn /\ p.gone = {} /\ \A g \in Files : EntryOK(g, p.file[g], p.type, p.start)
      /\ \A g \in Files : p.file[g] # None => Fresh(g, p.file[g].ts, p.start)
      /\ p.type = "full" /\ (p.delta => delta) /\ (delta => p.delta)
      /\ repo[p.label].copy # None /\ repo[p.label].copy.type = "full" /\ p.old = repo[p.label].copy.file
  BY <1>3 DEF DataInv, CommandOK
<1>7. ASSUME NEW g \in Files
      PROVE  /\ EntryOK(g, p'.file[g], p.type, p.start)
             /\ p'.file[g] # None => p.file[g] # None /\ p'.file[g].ts = p.file[g].ts
  <2>1. CASE p'.file = p.file
    BY <1>6, <2>1
  <2>2. CASE Keeps(p.file[f], p.old[f]) /\ p'.file = [p.file EXCEPT ![f] = KeptEntry(p.file[f], p.old[f])]
    <3>1. p.file \in [Files -> Entry \union {None}]
      BY <1>1 DEF CommandRecord
    <3>2. CASE g = f
      <4>1. p'.file[f] = KeptEntry(p.file[f], p.old[f]) /\ p.file[f] # None
        BY <2>2, <3>1 DEF Keeps
      <4> QED
        BY <1>1, <1>3, <2>2, <3>2, <4>1, KeptEntryOK
    <3>3. CASE g # f
      BY <1>6, <2>2, <3>1, <3>3
    <3> QED
      BY <3>2, <3>3
  <2> QED
    BY <1>1, <2>1, <2>2, CleanStep
<1>8. (\A g \in Files : EntryOK(g, p.file[g], p.type, p.start))'
  <2> SUFFICES ASSUME NEW g \in Files PROVE EntryOK(g, p.file[g], p.type, p.start)'
    OBVIOUS
  <2>1. PICK q \in CommandRecord : q = p'
    BY <1>3
  <2>2. q.file[g] \in Entry \union {None} /\ q.start \in Nat
    BY DEF CommandRecord
  <2>3. EntryOK(g, q.file[g], q.type, q.start) /\ q.start <= Lsn
    BY <1>3, <1>6, <1>7, <2>1 DEF SameChoice
  <2>4. EntryOK(g, q.file[g], q.type, q.start)'
    BY <1>1, <1>2, <2>2, <2>3, EntryKept
  <2> QED
    BY <2>1, <2>4
<1>9. (\A g \in Files : p.file[g] # None => Fresh(g, p.file[g].ts, p.start))'
  <2> SUFFICES ASSUME NEW g \in Files, p'.file[g] # None PROVE Fresh(g, p.file[g].ts, p.start)'
    OBVIOUS
  <2>1. \A b \in DOMAIN repo' :
          b \in DOMAIN repo /\ repo'[b].main = repo[b].main /\ repo'[b].copy = repo[b].copy
    BY <1>3, <1>4 DEF HasMain
  <2>2. p.start \in Nat /\ Fresh(g, p'.file[g].ts, p.start)
    BY <1>1, <1>6, <1>7 DEF CommandRecord
  <2>3. PICK start \in Nat : start = p.start
    BY <2>2
  <2>4. PICK ts : ts = p'.file[g].ts
    OBVIOUS
  <2>5. Fresh(g, ts, start)'
    BY <1>2, <1>6, <2>1, <2>2, <2>3, <2>4, FreshKept
  <2> QED
    BY <1>3, <2>3, <2>4, <2>5 DEF SameChoice
<1>10. CommandOK'
  BY <1>2, <1>3, <1>4, <1>6, <1>8, <1>9 DEF CommandOK, Lsn, SameChoice
<1> QED
  BY <1>2, <1>5, <1>10, FileSame DEF DataInv

LEMMA LabelData ==
  ASSUME RepoInv, DataInv, BackupLabel
  PROVE  DataInv'
<1>1. KeptInv /\ Kept /\ p \in CommandRecord
  BY LabelKept DEF RepoInv, KeptInv, TypeOK
<1>2. UNCHANGED <<wal, pg, now, repo, delta>> /\ Grows
  BY <1>1, SameGrows DEF BackupLabel, db
<1>3. CASE p' = Idle
  BY <1>1, <1>2, <1>3, IdleData DEF Idle
<1>4. CASE p' # Idle
  <2>1. SameChoice /\ p'.gone = p.gone /\ p'.file = p.file /\ p'.pc = "save"
    BY <1>1, <1>4, LabelStep
  <2>2. p.start <= Lsn /\ p.gone = {} /\ \A f \in Files : EntryOK(f, p.file[f], p.type, p.start)
    BY DEF DataInv, CommandOK, BackupLabel
  <2>3. (\A f \in Files : EntryOK(f, p.file[f], p.type, p.start))'
    BY <1>1, <1>2, <2>1, <2>2, EntriesKept DEF SameChoice
  <2>4. CommandOK'
    BY <1>2, <2>1, <2>2, <2>3 DEF CommandOK, Lsn, SameChoice
  <2> QED
    BY <1>1, <1>2, <2>4, FileSame, RepoSameOK DEF DataInv
<1> QED
  BY <1>3, <1>4

LEMMA SavedFacts ==
  ASSUME NEW e \in Entry \union {None}
  PROVE  /\ SavedOf(e) = None <=> e = None
         /\ e # None => SavedOf(e).sum = e.sum /\ SavedOf(e).ts = e.ts /\ SavedOf(e).ref = e.ref
<1>1. CASE e = None
  BY <1>1 DEF SavedOf
<1>2. CASE e # None
  <2>1. SavedOf(e) = [ts |-> e.ts, size |-> e.size, orig |-> e.orig, sum |-> e.sum, ref |-> e.ref]
    BY <1>2 DEF SavedOf
  <2>2. SavedOf(e) \in SavedEntry
    BY <1>2, <2>1 DEF Entry, SavedEntry
  <2> QED
    BY <1>2, <2>1, <2>2, NoneAssumption
<1> QED
  BY <1>1, <1>2

(* A copy of the manifest that is saved while files are copied.            *)
LEMMA SavedCopyOK ==
  ASSUME KeptInv, \A f \in Files : EntryOK(f, p.file[f], p.type, p.start)
  PROVE  CopyOK(ManifestOf(None))
<1>1. p \in CommandRecord
  BY DEF KeptInv, TypeOK
<1> DEFINE m == ManifestOf(None)
<1>2. m.type = p.type /\ \A f \in Files : m.file[f] = SavedOf(p.file[f])
  BY <1>1, ManifestType
<1> HIDE DEF m
<1>3. ASSUME NEW f \in Files, m.file[f] # None, m.file[f].sum # None
      PROVE  /\ m.file[f].sum <= Lsn
             /\ m.type = "full" /\ ~delta => Settled(f, m.file[f].ts, m.file[f].sum)
  <2>1. PICK e \in Entry \union {None} : e = p.file[f]
    BY <1>1 DEF CommandRecord
  <2>2. e # None /\ m.file[f].sum = e.sum /\ m.file[f].ts = e.ts
    BY <1>2, <1>3, <2>1, SavedFacts
  <2>3. EntryOK(f, e, p.type, p.start)
    BY <2>1
  <2> QED
    BY <1>2, <1>3, <2>2, <2>3 DEF EntryOK
<1>4. CopyOK(m)
  BY <1>3 DEF CopyOK
<1> QED
  BY <1>4 DEF m

(* The copy of the manifest is saved.                                      *)
LEMMA SavedRepoOK ==
  ASSUME KeptInv, DataInv, Grows, Kept, delta' = delta, p.label \in Label, ~HasMain(p.label),
         NEW stop \in Nat \union {None}, repo' = Saved(p.label, ManifestOf(stop)),
         CopyOK(ManifestOf(stop))
  PROVE  RepoOK' /\ repo'[p.label].copy = ManifestOf(stop)
<1>1. p \in CommandRecord /\ RepoOK
  BY DEF KeptInv, TypeOK, DataInv
<1>2. ManifestOf(stop) \in Manifest
  BY <1>1, ManifestType
<1>3. PICK m \in Manifest : m = ManifestOf(stop)
  BY <1>2
<1>4. /\ DOMAIN repo' = DOMAIN repo \union {p.label}
      /\ \A b \in DOMAIN repo' \ {p.label} : repo'[b] = repo[b]
      /\ repo'[p.label].main = None /\ repo'[p.label].copy = m
  BY <1>3, SavedStep
<1>5. \A b \in DOMAIN repo' \ {p.label} : b \in DOMAIN repo /\ repo'[b] = repo[b]
  BY <1>4
<1>6. RepoOK'
  BY <1>1, <1>3, <1>4, <1>5, RepoKept
<1> QED
  BY <1>3, <1>4, <1>6

LEMMA SaveCopyData ==
  ASSUME RepoInv, DataInv, BackupManifestSaveCopy
  PROVE  DataInv'
<1>1. KeptInv /\ Kept /\ p \in CommandRecord
  BY SaveCopyKept DEF RepoInv, KeptInv, TypeOK
<1>2. UNCHANGED <<wal, pg, now, delta>> /\ Grows
  BY <1>1, SameGrows DEF BackupManifestSaveCopy, db
<1>3. /\ p.label \in Label /\ ~HasMain(p.label) /\ p.pc \in {"save", "clean"}
      /\ repo' = Saved(p.label, ManifestOf(None))
  BY <1>1, SaveCopyStep
<1>4. p.start <= Lsn /\ p.gone = {} /\ \A f \in Files : EntryOK(f, p.file[f], p.type, p.start)
  BY <1>3 DEF DataInv, CommandOK
<1>5. RepoOK'
  BY <1>1, <1>2, <1>3, <1>4, SavedCopyOK, SavedRepoOK
<1>6. CASE p' = Idle
  BY <1>2, <1>5, <1>6, FileSame, IdleOK DEF Idle, DataInv
<1>7. CASE p' # Idle
  <2>1. /\ SameChoice /\ p'.gone = p.gone /\ p'.file = p.file /\ p'.pc = "process" /\ p'.label = p.label
        /\ \A f \in Files : p'.job[f] = FirstJob(f)
    BY <1>1, <1>7, SaveCopyStep
  <2>2. (\A f \in Files : EntryOK(f, p.file[f], p.type, p.start))'
    BY <1>1, <1>2, <1>4, <2>1, EntriesKept DEF SameChoice
  <2>3. ASSUME NEW f \in Files
        PROVE  JobOK(f, p.file[f], p.job[f], p.read[f], f \in p.gone, p.start, repo[p.label].file)'
    <3>1. p'.job[f] \in {"none", "check", "copy"} /\ (p'.job[f] # "none" <=> f \in Queue) /\ f \notin p'.gone
      BY <1>4, <2>1 DEF FirstJob
    <3>2. p'.file[f] = p.file[f] /\ p'.start = p.start
      BY <2>1 DEF SameChoice
    <3>3. CASE f \in Queue
      <4>1. p.file[f] # None /\ p.file[f].copy /\ p'.job[f] \in {"check", "copy"}
        BY <3>1, <3>3 DEF Queue
      <4> QED
        BY <3>1, <3>2, <4>1 DEF JobOK
    <3>4. CASE f \notin Queue
      <4>1. p'.job[f] = "none" /\ (p.file[f] # None => ~p.file[f].copy)
        BY <3>1, <3>4 DEF Queue
      <4>2. p.file[f] # None => p'.file[f].ref # None /\ Sound(f, p.file[f], p.start)'
        <5>1. p.file[f] # None => ~p'.file[f].copy
          BY <3>2, <4>1
        <5> QED
          BY <2>2, <3>2, <5>1 DEF EntryOK
      <4>3. p.file[f] # None => Stored(f, p.file[f], repo[p.label].file)'
        <5>1. EntryOK(f, p.file[f], p.type, p.start)'
          BY <2>2
        <5> QED
          BY <3>2, <4>2, <5>1 DEF EntryOK, Stored
      <4> QED
        BY <3>1, <3>2, <4>1, <4>2, <4>3 DEF JobOK
    <3> QED
      BY <3>3, <3>4
  <2>4. CommandOK'
    BY <1>2, <1>4, <2>1, <2>2, <2>3 DEF CommandOK, Lsn, SameChoice
  <2> QED
    BY <1>2, <1>5, <2>4, FileSame DEF DataInv
<1> QED
  BY <1>6, <1>7

LEMMA ProcessSaveData ==
  ASSUME RepoInv, DataInv, BackupProcessSave
  PROVE  DataInv'
<1>1. KeptInv /\ Kept /\ WorkOK /\ p \in CommandRecord
  BY ProcessSaveKept DEF RepoInv, KeptInv, TypeOK
<1>2. UNCHANGED <<wal, pg, now, p, delta>> /\ Grows
  BY <1>1, SameGrows DEF BackupProcessSave, db
<1>3. /\ p.pc = "process" /\ p.label \in Label /\ p.label \in DOMAIN repo /\ ~HasMain(p.label)
      /\ repo' = Saved(p.label, ManifestOf(None))
  BY <1>1 DEF BackupProcessSave, KeptInv, TypeOK, RepoTypeOK, LabelOK
<1>4. /\ p.start <= Lsn /\ \A f \in Files : EntryOK(f, p.file[f], p.type, p.start)
      /\ \A f \in Files :
           JobOK(f, p.file[f], p.job[f], p.read[f], f \in p.gone, p.start, repo[p.label].file)
  BY <1>3 DEF DataInv, CommandOK
<1>5. RepoOK'
  BY <1>1, <1>2, <1>3, <1>4, SavedCopyOK, SavedRepoOK
<1>6. ManifestOf(None) \in Manifest
  BY <1>1, ManifestType
<1>7. repo'[p.label].file = repo[p.label].file
  BY <1>1, <1>3, <1>6, SavedStep
<1>8. (\A f \in Files : EntryOK(f, p.file[f], p.type, p.start))'
  BY <1>1, <1>2, <1>4, EntriesKept
<1>9. ASSUME NEW f \in Files
      PROVE  JobOK(f, p.file[f], p.job[f], p.read[f], f \in p.gone, p.start, repo[p.label].file)'
  <2>1. PICK q \in CommandRecord : q = p
    BY <1>1
  <2>2. PICK file : file = repo[p.label].file
    OBVIOUS
  <2>3. /\ JobOK(f, q.file[f], q.job[f], q.read[f], f \in q.gone, q.start, file)
        /\ q.start \in Nat /\ q.start <= Lsn /\ q.file[f] \in Entry \union {None}
        /\ q.job[f] \in {"write", "written"} => q.read[f] \in ReadFile
    BY <1>1, <1>3, <1>4, <2>1, <2>2 DEF CommandRecord, WorkOK
  <2>4. JobOK(f, q.file[f], q.job[f], q.read[f], f \in q.gone, q.start, file)'
    BY <1>1, <1>2, <2>3, JobDataKept
  <2> QED
    BY <1>2, <1>7, <2>1, <2>2, <2>4
<1>10. CommandOK'
  BY <1>2, <1>3, <1>4, <1>8, <1>9 DEF CommandOK, Lsn
<1> QED
  BY <1>2, <1>5, <1>10, FileSame DEF DataInv

(* A step of the job of f that leaves everything else alone.               *)
LEMMA WorkData ==
  ASSUME KeptInv, WorkOK, WorkOK', DataInv, UNCHANGED <<wal, pg, now, delta>>, Kept, SameWork, RepoOK',
         NEW f \in Files,
         \A g \in Files \ {f} :
           /\ p'.file[g] = p.file[g] /\ p'.job[g] = p.job[g] /\ p'.read[g] = p.read[g]
           /\ g \in p'.gone <=> g \in p.gone
           /\ repo'[p.label].file[g] = repo[p.label].file[g],
         EntryOK(f, p'.file[f], p.type, p.start),
         JobOK(f, p'.file[f], p'.job[f], p'.read[f], f \in p'.gone, p.start, repo'[p.label].file)
  PROVE  DataInv'
<1>1. Grows /\ p.pc = "process" /\ p'.pc = "process" /\ p'.label = p.label
  BY SameGrows DEF SameWork
<1>2. PICK q \in CommandRecord : q = p'
  BY DEF SameWork
<1>3. PICK file : file = repo'[p.label].file
  OBVIOUS
<1>4. /\ p.start <= Lsn /\ \A g \in Files : EntryOK(g, p.file[g], p.type, p.start)
      /\ \A g \in Files :
           JobOK(g, p.file[g], p.job[g], p.read[g], g \in p.gone, p.start, repo[p.label].file)
  BY <1>1 DEF DataInv, CommandOK
<1>5. q.start = p.start /\ q.type = p.type /\ q.start <= Lsn /\ q.start \in Nat
      /\ \A g \in Files : q.file[g] \in Entry \union {None}
  BY <1>2, <1>4 DEF SameWork, SameChoice, CommandRecord
<1>6. ASSUME NEW g \in Files
      PROVE  /\ EntryOK(g, q.file[g], q.type, q.start)'
             /\ JobOK(g, q.file[g], q.job[g], q.read[g], g \in q.gone, q.start, file)'
  <2>1. EntryOK(g, q.file[g], q.type, q.start)
    BY <1>2, <1>4, <1>5
  <2>2. JobOK(g, q.file[g], q.job[g], q.read[g], g \in q.gone, q.start, file)
    <3>1. CASE g = f
      BY <1>2, <1>3, <1>5, <3>1
    <3>2. CASE g # f
      <4>1. /\ q.file[g] = p.file[g] /\ q.job[g] = p.job[g] /\ q.read[g] = p.read[g]
            /\ g \in q.gone <=> g \in p.gone
            /\ file[g] = repo[p.label].file[g]
        BY <1>2, <1>3, <3>2
      <4>2. JobOK(g, p.file[g], p.job[g], p.read[g], g \in p.gone, p.start, repo[p.label].file)
        BY <1>4
      <4> QED
        BY <1>5, <4>1, <4>2 DEF JobOK, Stored
    <3> QED
      BY <3>1, <3>2
  <2>3. q.job[g] \in {"write", "written"} => q.read[g] \in ReadFile
    BY <1>1, <1>2 DEF WorkOK
  <2> QED
    BY <1>1, <1>5, <2>1, <2>2, <2>3, EntryKept, JobDataKept
<1>7. p'.start <= Lsn'
  BY <1>2, <1>5 DEF Lsn
<1>8. CommandOK'
  BY <1>1, <1>2, <1>3, <1>6, <1>7 DEF CommandOK
<1> QED
  BY <1>8, FileSame DEF DataInv

(* The repository after a step of a job.                                   *)
LEMMA JobRepo ==
  ASSUME KeptInv, DataInv, UNCHANGED <<wal, pg, now, delta>>, Kept, SameWork,
         NEW f \in Files, NEW v \in Int \union {None},
         repo' = repo \/ repo' = [repo EXCEPT ![p.label].file[f] = v]
  PROVE  /\ RepoOK' /\ \A g \in Files \ {f} : repo'[p.label].file[g] = repo[p.label].file[g]
<1>1. Grows /\ p.label \in DOMAIN repo /\ ~HasMain(p.label)
  BY SameGrows DEF SameWork
<1>2. CASE repo' = repo
  BY <1>1, <1>2, RepoSameOK DEF DataInv
<1>3. CASE repo' = [repo EXCEPT ![p.label].file[f] = v]
  <2>1. /\ DOMAIN repo' = DOMAIN repo /\ \A b \in DOMAIN repo' \ {p.label} : repo'[b] = repo[b]
        /\ repo'[p.label].main = None /\ repo'[p.label].copy = repo[p.label].copy
        /\ \A g \in Files \ {f} : repo'[p.label].file[g] = repo[p.label].file[g]
    BY <1>1, <1>3, FileStep
  <2>2. RepoOK'
    BY <1>1, <2>1, DirectoryOK
  <2> QED
    BY <2>1, <2>2
<1> QED
  BY <1>2, <1>3

(* A file that has the checksum of its entry holds the changes until start.*)
LEMMA MatchSound ==
  ASSUME KeptInv, DataInv, p.pc = "process", NEW f \in Files, p.file[f] # None, pg[f] # None, Match(f)
  PROVE  Sound(f, p.file[f], p.start)
<1>1. p.start \in Nat /\ p.start <= Lsn /\ p.file[f].ts < now
  BY DEF KeptInv, TypeOK, CommandRecord, DataInv, CommandOK, EntryOK
<1>2. pg[f].lsn \in Nat /\ Covers(f, pg[f].lsn, p.start)
  BY <1>1, FoundFacts
<1>3. p.file[f].sum = pg[f].lsn
  BY DEF Match
<1> QED
  BY <1>1, <1>2, <1>3 DEF Sound, Settled

LEMMA CheckData ==
  ASSUME RepoInv, DataInv, NEW f \in Files, BackupFileCheck(f)
  PROVE  DataInv'
<1>1. KeptInv /\ Kept /\ WorkOK /\ WorkOK' /\ p \in CommandRecord
  BY CheckKept DEF RepoInv, KeptInv, TypeOK
<1>2. UNCHANGED <<wal, pg, now, delta>>
  BY DEF BackupFileCheck, db
<1>3. PICK j \in {"skip", "noop", "checksum", "copy"} :
         LET e == p.file[f] IN
           /\ SameWork /\ p'.job = [p.job EXCEPT ![f] = j] /\ p.job[f] = "check"
           /\ p'.file = p.file /\ p'.read = p.read /\ p'.gone = p.gone
           /\ j = "skip" => pg[f] = None
           /\ j = "noop" => e.delta /\ pg[f] # None /\ Match(f) /\ e.ref # None
           /\ j = "checksum" => /\ e.resume /\ repo[p.label].file[f] = e.sum
                                /\ e.delta => pg[f] # None /\ Match(f)
           /\ repo' = repo \/ (j = "skip" /\ repo' = [repo EXCEPT ![p.label].file[f] = None])
  BY <1>1, CheckStep
<1>4. p.pc = "process" /\ SameWork /\ None \in Int \union {None}
  BY <1>3 DEF SameWork
<1>5. /\ RepoOK' /\ \A g \in Files \ {f} : repo'[p.label].file[g] = repo[p.label].file[g]
  BY <1>1, <1>2, <1>3, <1>4, JobRepo
<1>6. /\ p.start <= Lsn /\ p.start \in Nat /\ EntryOK(f, p.file[f], p.type, p.start)
      /\ JobOK(f, p.file[f], p.job[f], p.read[f], f \in p.gone, p.start, repo[p.label].file)
  BY <1>1, <1>4 DEF DataInv, CommandOK, CommandRecord
<1>7. p.file[f] # None /\ p.file[f].copy /\ (f \in p.gone => Missing(f, p.start, Lsn))
  BY <1>3, <1>6 DEF JobOK
<1>8. p'.job[f] = j /\ \A g \in Files \ {f} : p'.job[g] = p.job[g]
  BY <1>1, <1>3 DEF CommandRecord
<1>9. j = "skip" => Missing(f, p.start, Lsn)
  BY <1>1, <1>3, <1>6, FoundFacts
<1>10. j = "noop" => Sound(f, p.file[f], p.start) /\ p.file[f].ref # None
  BY <1>1, <1>3, <1>4, <1>7, MatchSound
<1>11. j = "checksum" => Sound(f, p.file[f], p.start)
  BY <1>1, <1>3, <1>4, <1>6, <1>7, MatchSound DEF EntryOK
<1>12. p.file[f].ref # None => RefOK(f, p.file[f].ref, p.file[f].sum)
  BY <1>6, <1>7 DEF EntryOK
<1>13. j = "checksum" => repo'[p.label].file[f] = p.file[f].sum
  BY <1>3
<1>14. j \in {"noop", "checksum"} => Stored(f, p.file[f], repo'[p.label].file)
  BY <1>10, <1>12, <1>13 DEF Stored
<1>15. JobOK(f, p'.file[f], p'.job[f], p'.read[f], f \in p'.gone, p.start, repo'[p.label].file)
  BY <1>3, <1>7, <1>8, <1>9, <1>10, <1>11, <1>14 DEF JobOK
<1>16. EntryOK(f, p'.file[f], p.type, p.start)
  BY <1>3, <1>6
<1> QED
  BY <1>1, <1>2, <1>3, <1>5, <1>8, <1>15, <1>16, WorkData

LEMMA CopyData ==
  ASSUME RepoInv, DataInv, NEW f \in Files, BackupFileCopy(f)
  PROVE  DataInv'
<1>1. KeptInv /\ Kept /\ WorkOK /\ WorkOK' /\ p \in CommandRecord
  BY CopyKept DEF RepoInv, KeptInv, TypeOK
<1>2. UNCHANGED <<wal, pg, now, delta>>
  BY DEF BackupFileCopy, db
<1>3. /\ SameWork /\ p.job[f] = "copy" /\ p'.file = p.file /\ p'.gone = p.gone
      /\ \/ /\ pg[f] = None /\ repo' = repo
            /\ p'.job = [p.job EXCEPT ![f] = "skip"] /\ p'.read = p.read
         \/ /\ pg[f] # None /\ p.file[f].ref # None /\ Match(f) /\ repo' = repo
            /\ p'.job = [p.job EXCEPT ![f] = "noop"] /\ p'.read = p.read
         \/ /\ pg[f] # None /\ repo' = [repo EXCEPT ![p.label].file[f] = Torn]
            /\ p'.job = [p.job EXCEPT ![f] = "write"]
            /\ \E r \in ReadFile : r.sum = pg[f].lsn /\ p'.read = [p.read EXCEPT ![f] = r]
  BY <1>1, CopyStep
<1>4. p.pc = "process" /\ SameWork /\ Torn \in Int \union {None}
  BY <1>3 DEF SameWork, Torn
<1>5. RepoOK' /\ \A g \in Files \ {f} : repo'[p.label].file[g] = repo[p.label].file[g]
  BY <1>1, <1>2, <1>3, <1>4, JobRepo
<1>6. /\ p.start <= Lsn /\ p.start \in Nat /\ EntryOK(f, p.file[f], p.type, p.start)
      /\ JobOK(f, p.file[f], p.job[f], p.read[f], f \in p.gone, p.start, repo[p.label].file)
  BY <1>1, <1>4 DEF DataInv, CommandOK, CommandRecord
<1>7. p.file[f] # None /\ p.file[f].copy /\ (f \in p.gone => Missing(f, p.start, Lsn))
  BY <1>3, <1>6 DEF JobOK
<1>8. p.job \in [Files -> JobState] /\ p.read \in [Files -> ReadFile \union {None}]
  BY <1>1 DEF CommandRecord
<1>9. \A g \in Files \ {f} : p'.job[g] = p.job[g] /\ p'.read[g] = p.read[g]
  BY <1>3, <1>8
<1>10. EntryOK(f, p'.file[f], p.type, p.start)
  BY <1>3, <1>6
<1>11. JobOK(f, p'.file[f], p'.job[f], p'.read[f], f \in p'.gone, p.start, repo'[p.label].file)
  <2>1. CASE pg[f] = None /\ p'.job = [p.job EXCEPT ![f] = "skip"]
    <3>1. p'.job[f] = "skip" /\ Missing(f, p.start, Lsn)
      BY <1>1, <1>6, <1>8, <2>1, FoundFacts
    <3> QED
      BY <1>3, <1>7, <3>1 DEF JobOK
  <2>2. CASE /\ pg[f] # None /\ p.file[f].ref # None /\ Match(f)
             /\ p'.job = [p.job EXCEPT ![f] = "noop"]
    <3>1. p'.job[f] = "noop" /\ Sound(f, p.file[f], p.start)
      BY <1>1, <1>4, <1>7, <1>8, <2>2, MatchSound
    <3>2. Stored(f, p.file[f], repo'[p.label].file)
      BY <1>6, <1>7, <2>2 DEF Stored, EntryOK
    <3> QED
      BY <1>3, <1>7, <3>1, <3>2 DEF JobOK
  <2>3. CASE /\ pg[f] # None /\ p'.job = [p.job EXCEPT ![f] = "write"]
             /\ \E r \in ReadFile : r.sum = pg[f].lsn /\ p'.read = [p.read EXCEPT ![f] = r]
    <3>1. p'.job[f] = "write" /\ p'.read[f].sum = pg[f].lsn
      BY <1>8, <2>3
    <3>2. pg[f].lsn <= Lsn /\ Covers(f, pg[f].lsn, p.start)
      BY <1>1, <1>6, <2>3, FoundFacts
    <3>3. Settled(f, p.file[f].ts, pg[f].lsn)
      BY <1>6, <1>7 DEF EntryOK, Settled
    <3> QED
      BY <1>3, <1>7, <3>1, <3>2, <3>3 DEF JobOK
  <2> QED
    BY <1>3, <2>1, <2>2, <2>3
<1> QED
  BY <1>1, <1>2, <1>3, <1>5, <1>9, <1>10, <1>11, WorkData

LEMMA CloseData ==
  ASSUME RepoInv, DataInv, NEW f \in Files, BackupFileClose(f)
  PROVE  DataInv'
<1>1. KeptInv /\ Kept /\ WorkOK /\ WorkOK' /\ p \in CommandRecord
  BY CloseKept DEF RepoInv, KeptInv, TypeOK
<1>2. UNCHANGED <<wal, pg, now, delta>>
  BY DEF BackupFileClose, db
<1>3. /\ SameWork /\ p.job[f] = "write" /\ p'.job = [p.job EXCEPT ![f] = "written"]
      /\ p'.file = p.file /\ p'.read = p.read /\ p'.gone = p.gone
      /\ p.read[f].sum \in Nat /\ repo' = [repo EXCEPT ![p.label].file[f] = p.read[f].sum]
  BY <1>1, CloseStep
<1>4. p.pc = "process" /\ p.read[f].sum \in Int \union {None} /\ p.label \in DOMAIN repo /\ ~HasMain(p.label)
  BY <1>3 DEF SameWork
<1>5. /\ RepoOK' /\ \A g \in Files \ {f} : repo'[p.label].file[g] = repo[p.label].file[g]
  BY <1>1, <1>2, <1>3, <1>4, JobRepo
<1>6. repo'[p.label].file[f] = p.read[f].sum
  <2>1. PICK v \in Int \union {None} : v = p.read[f].sum
    BY <1>4
  <2>2. repo' = [repo EXCEPT ![p.label].file[f] = v]
    BY <1>3, <2>1
  <2>3. PICK r \in RepoRecord : r = repo[p.label]
    BY <1>1, <1>4 DEF KeptInv, TypeOK, RepoTypeOK
  <2>4. repo'[p.label] = [r EXCEPT !.file[f] = v]
    BY <1>4, <2>2, <2>3
  <2>5. repo'[p.label].file[f] = v
    BY <2>4 DEF RepoRecord
  <2> QED
    BY <2>1, <2>5
<1>7. /\ EntryOK(f, p.file[f], p.type, p.start)
      /\ JobOK(f, p.file[f], p.job[f], p.read[f], f \in p.gone, p.start, repo[p.label].file)
  BY <1>4 DEF DataInv, CommandOK
<1>8. p'.job[f] = "written" /\ \A g \in Files \ {f} : p'.job[g] = p.job[g]
  BY <1>1, <1>3 DEF CommandRecord
<1>9. EntryOK(f, p'.file[f], p.type, p.start)
  BY <1>3, <1>7
<1>10. JobOK(f, p'.file[f], p'.job[f], p'.read[f], f \in p'.gone, p.start, repo'[p.label].file)
  BY <1>3, <1>6, <1>7, <1>8 DEF JobOK
<1> QED
  BY <1>1, <1>2, <1>3, <1>5, <1>8, <1>9, <1>10, WorkData

LEMMA ResultData ==
  ASSUME RepoInv, DataInv, NEW f \in Files, BackupJobResult(f)
  PROVE  DataInv'
<1>1. KeptInv /\ Kept /\ WorkOK /\ WorkOK' /\ p \in CommandRecord
  BY ResultKept DEF RepoInv, KeptInv, TypeOK
<1>2. UNCHANGED <<wal, pg, now, repo, delta>> /\ Grows
  BY <1>1, SameGrows DEF BackupJobResult, db
<1>3. /\ SameWork /\ p.job[f] \in {"skip", "noop", "checksum", "written"} /\ p.file[f] \in Entry
      /\ p'.job = [p.job EXCEPT ![f] = "none"] /\ p'.read = [p.read EXCEPT ![f] = None]
      /\ \/ /\ p.job[f] = "written" /\ p'.gone = p.gone /\ p.read[f] \in ReadFile
            /\ p'.file = [p.file EXCEPT ![f] = WrittenEntry(p.file[f], p.read[f])]
         \/ p.job[f] = "skip" /\ p'.gone = p.gone \union {f} /\ p'.file = p.file
         \/ p.job[f] \in {"noop", "checksum"} /\ p'.gone = p.gone /\ p'.file = p.file
  BY <1>1, ResultStep
<1>4. p.pc = "process"
  BY <1>3 DEF SameWork
<1>5. RepoOK'
  BY <1>1, <1>2, RepoSameOK DEF DataInv
<1>6. /\ EntryOK(f, p.file[f], p.type, p.start)
      /\ JobOK(f, p.file[f], p.job[f], p.read[f], f \in p.gone, p.start, repo[p.label].file)
  BY <1>4 DEF DataInv, CommandOK
<1>7. /\ p.job \in [Files -> JobState] /\ p.read \in [Files -> ReadFile \union {None}]
      /\ p.file \in [Files -> Entry \union {None}]
  BY <1>1 DEF CommandRecord
<1>8. p'.job[f] = "none" /\ \A g \in Files \ {f} :
         /\ p'.job[g] = p.job[g] /\ p'.read[g] = p.read[g] /\ p'.file[g] = p.file[g]
         /\ g \in p'.gone <=> g \in p.gone
         /\ repo'[p.label].file[g] = repo[p.label].file[g]
  BY <1>2, <1>3, <1>7
<1>9. /\ EntryOK(f, p'.file[f], p.type, p.start)
      /\ JobOK(f, p'.file[f], p'.job[f], p'.read[f], f \in p'.gone, p.start, repo'[p.label].file)
  <2>1. CASE p.job[f] \in {"noop", "checksum"} /\ p'.gone = p.gone /\ p'.file = p.file
    BY <1>2, <1>6, <1>8, <2>1 DEF JobOK
  <2>2. CASE p.job[f] = "skip" /\ p'.gone = p.gone \union {f} /\ p'.file = p.file
    BY <1>2, <1>6, <1>8, <2>2 DEF JobOK
  <2>3. CASE /\ p.job[f] = "written" /\ p'.gone = p.gone /\ p.read[f] \in ReadFile
             /\ p'.file = [p.file EXCEPT ![f] = WrittenEntry(p.file[f], p.read[f])]
    <3>1. PICK e \in Entry, r \in ReadFile : e = p.file[f] /\ r = p.read[f]
      BY <1>3, <2>3
    <3>2. PICK n \in Entry : n = WrittenEntry(e, r)
      BY WrittenType
    <3>3. /\ n.sum = r.sum /\ n.ref = None /\ n.ts = e.ts /\ n.copy = e.copy
          /\ n.resume = e.resume /\ n.delta = e.delta /\ r.sum \in Nat /\ n # None /\ e # None
      BY <3>2, WrittenType, NoneAssumption DEF ReadFile
    <3>4. p'.file[f] = n
      BY <1>7, <2>3, <3>1, <3>2
    <3>5. /\ e.copy /\ r.sum <= Lsn /\ Covers(f, r.sum, p.start) /\ Settled(f, e.ts, r.sum)
          /\ repo[p.label].file[f] = r.sum /\ (f \in p.gone => Missing(f, p.start, Lsn))
      BY <1>6, <2>3, <3>1 DEF JobOK
    <3>6. Sound(f, n, p.start) /\ Stored(f, n, repo'[p.label].file)
      BY <1>2, <3>3, <3>5 DEF Sound, Stored
    <3>7. EntryOK(f, n, p.type, p.start)
      <4>1. e.ts < now /\ (e.resume => p.type = "full")
        BY <1>6, <3>1, <3>3 DEF EntryOK
      <4>2. n.sum # None /\ n.sum <= Lsn
        BY <3>3, <3>5, NoneAssumption
      <4> QED
        BY <3>3, <3>5, <3>6, <4>1, <4>2 DEF EntryOK
    <3>8. JobOK(f, n, "none", p'.read[f], f \in p'.gone, p.start, repo'[p.label].file)
      BY <2>3, <3>5, <3>6 DEF JobOK
    <3> QED
      BY <1>8, <3>4, <3>7, <3>8
  <2> QED
    BY <1>3, <2>1, <2>2, <2>3
<1> QED
  BY <1>1, <1>2, <1>3, <1>5, <1>8, <1>9, WorkData

LEMMA StopData ==
  ASSUME RepoInv, DataInv, BackupStop
  PROVE  DataInv'
<1>1. KeptInv /\ Kept /\ p \in CommandRecord
  BY StopKept DEF RepoInv, KeptInv, TypeOK
<1>2. UNCHANGED <<wal, pg, now, repo, delta>> /\ Grows
  BY <1>1, SameGrows DEF BackupStop, db
<1>3. /\ SameChoice /\ p.pc = "process" /\ p'.pc = "archive" /\ p'.label = p.label
      /\ p'.stop = Lsn /\ p'.gone = {} /\ \A f \in Files : p.job[f] = "none"
      /\ \A f \in Files : p'.file[f] = IF f \in p.gone THEN None ELSE p.file[f]
  BY <1>1, StopStep
<1>4. p.start <= Lsn /\ Lsn \in Nat
  BY <1>2, <1>3 DEF DataInv, CommandOK, Grows
<1>5. ASSUME NEW f \in Files PROVE DoneOK(f, p'.file[f], p.start, Lsn, repo[p.label].file)
  <2>1. /\ EntryOK(f, p.file[f], p.type, p.start) /\ p.job[f] = "none"
        /\ JobOK(f, p.file[f], p.job[f], p.read[f], f \in p.gone, p.start, repo[p.label].file)
    BY <1>3 DEF DataInv, CommandOK
  <2>2. CASE f \in p.gone
    BY <1>3, <2>1, <2>2 DEF JobOK, DoneOK
  <2>3. CASE f \notin p.gone /\ p.file[f] = None
    BY <1>3, <2>1, <2>3 DEF EntryOK, DoneOK
  <2>4. CASE f \notin p.gone /\ p.file[f] # None
    <3>1. Sound(f, p.file[f], p.start) /\ Stored(f, p.file[f], repo[p.label].file)
      BY <2>1, <2>4 DEF JobOK
    <3>2. p.file[f].sum <= Lsn
      BY <2>1, <2>4, <3>1, NoneAssumption DEF EntryOK, Sound
    <3> QED
      BY <1>3, <2>4, <3>1, <3>2 DEF DoneOK
  <2> QED
    BY <2>2, <2>3, <2>4
<1>6. (\A f \in Files : DoneOK(f, p.file[f], p.start, p.stop, repo[p.label].file))'
  BY <1>2, <1>3, <1>5 DEF DoneOK, Sound, Stored, RefOK, HasMain, Settled, Covers, Missing, SameChoice
<1>7. p'.start <= p'.stop /\ p'.stop <= Lsn' /\ p'.start <= Lsn'
  BY <1>2, <1>3, <1>4 DEF SameChoice, Lsn
<1>8. CommandOK'
  BY <1>3, <1>6, <1>7 DEF CommandOK
<1> QED
  BY <1>1, <1>2, <1>8, FileSame, RepoSameOK DEF DataInv

(* The copy that is saved last.                                            *)
LEMMA LastCopyOK ==
  ASSUME KeptInv, DataInv, p.pc = "archive"
  PROVE  CopyOK(ManifestOf(p.stop))
<1>1. p \in CommandRecord /\ p.stop \in Nat /\ p.stop <= Lsn /\ Lsn \in Nat
      /\ \A f \in Files : DoneOK(f, p.file[f], p.start, p.stop, repo[p.label].file)
  BY DEF KeptInv, TypeOK, CommandRecord, DataInv, CommandOK, DbTypeOK, Lsn
<1> DEFINE m == ManifestOf(p.stop)
<1>2. m.type = p.type /\ \A f \in Files : m.file[f] = SavedOf(p.file[f])
  BY <1>1, ManifestType
<1> HIDE DEF m
<1>3. ASSUME NEW f \in Files, m.file[f] # None
      PROVE  m.file[f].sum <= Lsn /\ Settled(f, m.file[f].ts, m.file[f].sum)
  <2>1. PICK e \in Entry \union {None} : e = p.file[f]
    BY <1>1 DEF CommandRecord
  <2>2. e # None /\ m.file[f].sum = e.sum /\ m.file[f].ts = e.ts
    BY <1>2, <1>3, <2>1, SavedFacts
  <2>3. e.sum \in Nat /\ e.sum <= p.stop /\ Settled(f, e.ts, e.sum)
    BY <1>1, <2>1, <2>2 DEF DoneOK, Sound
  <2>4. e.sum <= Lsn
    BY <1>1, <2>3
  <2> QED
    BY <2>2, <2>3, <2>4
<1>4. CopyOK(m)
  BY <1>3 DEF CopyOK
<1> QED
  BY <1>4 DEF m

LEMMA ArchiveData ==
  ASSUME RepoInv, DataInv, BackupArchiveCheckCopy
  PROVE  DataInv'
<1>1. KeptInv /\ Kept /\ p \in CommandRecord
  BY ArchiveKept DEF RepoInv, KeptInv, TypeOK
<1>2. UNCHANGED <<wal, pg, now, delta>> /\ Grows
  BY <1>1, SameGrows DEF BackupArchiveCheckCopy, db
<1>3. /\ SameChoice /\ p.pc = "archive" /\ p'.pc = "main" /\ p'.label = p.label
      /\ p.label \in DOMAIN repo /\ ~HasMain(p.label) /\ p.label \in Label
      /\ p'.stop = p.stop /\ p'.gone = p.gone /\ p'.file = p.file
      /\ ManifestOf(p.stop) \in Manifest
      /\ repo' = Saved(p.label, ManifestOf(p.stop))
  BY <1>1, ArchiveStep
<1>4. p.stop \in Nat /\ p.stop \in Nat \union {None} /\ p.start \in Nat
  BY <1>1 DEF CommandRecord
<1>5. RepoOK' /\ repo'[p.label].copy = ManifestOf(p.stop)
  BY <1>1, <1>2, <1>3, <1>4, LastCopyOK, SavedRepoOK
<1>6. repo'[p.label].file = repo[p.label].file
  BY <1>1, <1>3, SavedStep
<1>7. /\ p.start <= Lsn /\ p.gone = {} /\ p.start <= p.stop /\ p.stop <= Lsn
      /\ \A f \in Files : DoneOK(f, p.file[f], p.start, p.stop, repo[p.label].file)
  BY <1>3 DEF DataInv, CommandOK
<1>8. (\A f \in Files : DoneOK(f, p.file[f], p.start, p.stop, repo[p.label].file))'
  <2> SUFFICES ASSUME NEW f \in Files PROVE DoneOK(f, p.file[f], p.start, p.stop, repo[p.label].file)'
    OBVIOUS
  <2>1. PICK q \in CommandRecord : q = p
    BY <1>1
  <2>2. PICK file : file = repo[p.label].file
    OBVIOUS
  <2>3. /\ DoneOK(f, q.file[f], q.start, q.stop, file) /\ q.start \in Nat /\ q.stop \in Nat
        /\ q.start <= q.stop /\ q.stop <= Lsn
    BY <1>4, <1>7, <2>1, <2>2
  <2>4. q.file[f] # None => q.file[f].ts \in Nat
    BY DEF CommandRecord, Entry
  <2>5. DoneOK(f, q.file[f], q.start, q.stop, file)'
    BY <1>1, <1>2, <2>3, <2>4, DoneKept
  <2> QED
    BY <1>3, <1>6, <2>1, <2>2, <2>5 DEF SameChoice
<1>9. (repo[p.label].copy = ManifestOf(p.stop))'
  <2>1. ManifestOf(p.stop)' = ManifestOf(p.stop)
    BY <1>3 DEF ManifestOf, SameChoice
  <2> QED
    BY <1>3, <1>5, <2>1
<1>10. CommandOK'
  BY <1>2, <1>3, <1>7, <1>8, <1>9 DEF CommandOK, Lsn, SameChoice
<1> QED
  BY <1>2, <1>5, <1>10, FileSame DEF DataInv

(* The copy becomes the manifest: what it says is true.                    *)
LEMMA CompleteData ==
  ASSUME RepoInv, DataInv, CompleteManifest
  PROVE  DataInv'
<1>1. KeptInv /\ Kept /\ WorkOK /\ p \in CommandRecord
  BY CompleteKept DEF RepoInv, KeptInv, TypeOK
<1>2. UNCHANGED <<wal, pg, now, delta>> /\ Grows /\ RepoOK
  BY <1>1, SameGrows DEF CompleteManifest, db, DataInv
<1>3. /\ p.pc = "main" /\ p.label \in DOMAIN repo /\ ~HasMain(p.label)
      /\ p'.pc = "history" /\ p'.gone = {}
      /\ DOMAIN repo' = DOMAIN repo /\ \A b \in DOMAIN repo' \ {p.label} : repo'[b] = repo[b]
      /\ repo'[p.label].main = repo[p.label].copy /\ repo'[p.label].copy = repo[p.label].copy
      /\ repo'[p.label].file = repo[p.label].file
  BY <1>1, CompleteStep
<1>4. /\ p.start <= p.stop /\ p.stop <= Lsn /\ repo[p.label].copy = ManifestOf(p.stop)
      /\ \A f \in Files : DoneOK(f, p.file[f], p.start, p.stop, repo[p.label].file)
  BY <1>3 DEF DataInv, CommandOK
<1>5. PICK q \in CommandRecord : q = p
  BY <1>1
<1>6. PICK file : file = repo[p.label].file
  OBVIOUS
<1>7. q.start \in Nat /\ q.stop \in Nat /\ \A f \in Files : q.file[f] \in Entry \union {None}
  BY DEF CommandRecord
<1>8. PICK m \in Manifest : m = ManifestOf(p.stop)
  BY <1>1, <1>5, <1>7, ManifestType
<1>9. m.start = q.start /\ m.stop = q.stop /\ \A f \in Files : m.file[f] = SavedOf(q.file[f])
  BY <1>1, <1>5, <1>7, <1>8, ManifestType
<1>10. \A f \in Files : DoneOK(f, m.file[f], m.start, m.stop, file)
  <2> SUFFICES ASSUME NEW f \in Files PROVE DoneOK(f, SavedOf(q.file[f]), q.start, q.stop, file)
    BY <1>9
  <2>1. DoneOK(f, q.file[f], q.start, q.stop, file)
    BY <1>4, <1>5, <1>6
  <2>2. /\ SavedOf(q.file[f]) = None <=> q.file[f] = None
        /\ q.file[f] # None => /\ SavedOf(q.file[f]).sum = q.file[f].sum
                               /\ SavedOf(q.file[f]).ts = q.file[f].ts
                               /\ SavedOf(q.file[f]).ref = q.file[f].ref
    BY <1>7, SavedFacts
  <2> QED
    BY <2>1, <2>2 DEF DoneOK, Sound, Stored
<1>11. MainOK(m, file)
  BY <1>4, <1>5, <1>7, <1>9, <1>10 DEF MainOK
<1>12. CopyOK(m)
  <2>1. repo[p.label].copy # None
    BY <1>1, <1>3 DEF WorkOK
  <2> QED
    BY <1>2, <1>3, <1>4, <1>8, <2>1 DEF RepoOK
<1>13. MainOK(m, file)' /\ CopyOK(m)'
  BY <1>1, <1>2, <1>11, <1>12, MainKept, CopyKeptOK
<1>14. RepoOK'
  <2> SUFFICES ASSUME NEW b \in DOMAIN repo'
               PROVE  /\ repo'[b].main # None => MainOK(repo[b].main, repo[b].file)'
                      /\ repo'[b].copy # None => CopyOK(repo[b].copy)'
    BY DEF RepoOK
  <2>1. CASE b # p.label
    BY <1>1, <1>2, <1>3, <2>1, OtherKept
  <2>2. CASE b = p.label
    BY <1>3, <1>4, <1>6, <1>8, <1>13, <2>2
  <2> QED
    BY <2>1, <2>2
<1> QED
  BY <1>2, <1>3, <1>14, FileSame, IdleOK DEF DataInv

LEMMA DataInit ==
  ASSUME Init
  PROVE  DataInv
<1>1. PICK size \in Sizes : pg = [f \in Files |-> [lsn |-> 0, ts |-> 0, size |-> size]]
  BY DEF Init
<1>2. wal = <<>> /\ Lsn = 0 /\ now = 1
  BY DEF Init, Lsn
<1>3. \A f \in Files : FileOK(f)
  <2>1. [lsn |-> 0, ts |-> 0, size |-> size] \in PgFile
    BY DEF PgFile
  <2>2. \A f \in Files : pg[f] # None /\ pg[f].lsn = 0 /\ pg[f].ts = 0
    BY <1>1, <2>1, NoneAssumption
  <2>3. 1 .. 0 = {} /\ 0 <= 0 /\ 0 <= 1
    OBVIOUS
  <2>4. \A f \in Files : pg[f].lsn <= Lsn /\ pg[f].ts <= now
    BY <1>2, <2>2, <2>3
  <2>5. \A f \in Files : Covers(f, pg[f].lsn, Lsn)
    <3>1. 1 .. Lsn = {}
      BY <1>2, <2>3
    <3> QED
      BY <3>1 DEF Covers
  <2> QED
    BY <2>2, <2>4, <2>5 DEF FileOK
<1>4. DOMAIN repo = {} /\ p.pc = "idle" /\ p.gone = {}
  BY DEF Init, Idle
<1>5. RepoOK
  BY <1>4 DEF RepoOK
<1>6. CommandOK
  BY <1>4 DEF CommandOK
<1> QED
  BY <1>3, <1>5, <1>6 DEF DataInv

LEMMA DataNext ==
  ASSUME ~DeltaMayChange, RepoInv, DataInv, [Next]_vars
  PROVE  DataInv'
<1>1. CASE UNCHANGED vars
  <2>1. UNCHANGED <<wal, pg, now, repo, p, delta>>
    BY <1>1 DEF vars
  <2>2. (\A f \in Files : FileOK(f))'
    BY <2>1, FileSame
  <2>3. RepoOK'
    BY <2>1 DEF DataInv, RepoOK, MainOK, CopyOK, DoneOK, Sound, Stored, RefOK, HasMain, Settled,
                Covers, Missing, Lsn
  <2>4. CommandOK'
    <3>1. CommandOK
      BY DEF DataInv
    <3>2. (p.pc \notin {"idle", "history", "info", "infoCopy"} => p.start <= Lsn)'
      BY <2>1, <3>1 DEF CommandOK, Lsn
    <3>3. (p.pc # "process" => p.gone = {})'
      BY <2>1, <3>1 DEF CommandOK
    <3>4. (p.pc = "build" => \A f \in Files \ p.left : FoundOK(f, p.file[f], p.start, now))'
      BY <2>1, <3>1 DEF CommandOK, FoundOK, Fresh, Covers, Missing, Lsn
    <3>5. (p.pc = "wait" =>
             p.copyStart <= now /\ \A f \in Files : FoundOK(f, p.file[f], p.start, p.copyStart))'
      BY <2>1, <3>1 DEF CommandOK, FoundOK, Fresh, Covers, Missing, Lsn
    <3>6. (p.pc \in {"resume", "clean"} =>
             /\ \A f \in Files : p.file[f] # None => Fresh(f, p.file[f].ts, p.start)
             /\ p.type = "full" /\ p.delta => delta
             /\ delta => p.delta)'
      BY <2>1, <3>1 DEF CommandOK, Fresh, Covers
    <3>7. (p.pc \in {"resume", "remove", "clean", "label", "save", "process"} =>
             \A f \in Files : EntryOK(f, p.file[f], p.type, p.start))'
      BY <2>1, <3>1 DEF CommandOK, EntryOK, Sound, RefOK, HasMain, Settled, Covers, Missing, Lsn
    <3>8. (p.pc = "clean" => /\ p.type = "full" /\ repo[p.label].copy # None
                            /\ repo[p.label].copy.type = "full" /\ p.old = repo[p.label].copy.file)'
      BY <2>1, <3>1 DEF CommandOK
    <3>9. (p.pc = "process" =>
             \A f \in Files :
               JobOK(f, p.file[f], p.job[f], p.read[f], f \in p.gone, p.start, repo[p.label].file))'
      BY <2>1, <3>1 DEF CommandOK, JobOK, Sound, Stored, RefOK, HasMain, Settled, Covers, Missing, Lsn
    <3>10. (p.pc \in {"archive", "main"} =>
              /\ p.start <= p.stop /\ p.stop <= Lsn
              /\ \A f \in Files : DoneOK(f, p.file[f], p.start, p.stop, repo[p.label].file))'
      BY <2>1, <3>1 DEF CommandOK, DoneOK, Sound, Stored, RefOK, HasMain, Settled, Covers, Missing, Lsn
    <3>11. (p.pc = "main" => repo[p.label].copy = ManifestOf(p.stop))'
      BY <2>1, <3>1 DEF CommandOK, ManifestOf
    <3> QED
      BY <3>2, <3>3, <3>4, <3>5, <3>6, <3>7, <3>8, <3>9, <3>10, <3>11 DEF CommandOK
  <2> QED
    BY <2>2, <2>3, <2>4 DEF DataInv
<1>2. CASE Tick \/ \E f \in Files : PgWrite(f) \/ PgRemove(f)
  BY <1>2, DbData
<1>3. CASE BackupStart
  BY <1>3, StartData
<1>4. CASE Abort
  BY <1>4, AbortData
<1>5. CASE BackupProcessSave
  BY <1>5, ProcessSaveData
<1>6. CASE BackupTime
  BY <1>6, TimeData
<1>7. CASE ManifestBuildIncr
  BY <1>7, BuildIncrData
<1>8. CASE BackupResumeFind
  BY <1>8, ResumeFindData
<1>9. CASE StoragePathRemove
  BY <1>9, RemoveData
<1>10. CASE BackupLabel
  BY <1>10, LabelData
<1>11. CASE BackupManifestSaveCopy
  BY <1>11, SaveCopyData
<1>12. CASE BackupStop
  BY <1>12, StopData
<1>13. CASE BackupArchiveCheckCopy
  BY <1>13, ArchiveData
<1>14. CASE CompleteManifest
  BY <1>14, CompleteData
<1>15. CASE CompleteHistory \/ CompleteInfo \/ CompleteInfoCopy
  BY <1>15, CompleteInfoData
<1>16. ASSUME NEW f \in Files, ManifestBuildInfo(f) PROVE DataInv'
  BY <1>16, BuildInfoData
<1>17. ASSUME NEW f \in Files, BackupResumeClean(f) PROVE DataInv'
  BY <1>17, CleanData
<1>18. ASSUME NEW f \in Files, BackupFileCheck(f) PROVE DataInv'
  BY <1>18, CheckData
<1>19. ASSUME NEW f \in Files, BackupFileCopy(f) PROVE DataInv'
  BY <1>19, CopyData
<1>20. ASSUME NEW f \in Files, BackupFileClose(f) PROVE DataInv'
  BY <1>20, CloseData
<1>21. ASSUME NEW f \in Files, BackupJobResult(f) PROVE DataInv'
  BY <1>21, ResultData
<1> QED
  BY <1>1, <1>2, <1>3, <1>4, <1>5, <1>6, <1>7, <1>8, <1>9, <1>10, <1>11, <1>12, <1>13, <1>14,
     <1>15, <1>16, <1>17, <1>18, <1>19, <1>20, <1>21 DEF Next, Command

LEMMA DataRestorable ==
  ASSUME RepoInv, DataInv
  PROVE  ListedIsRestorable
<1> SUFFICES ASSUME NEW b \in info.main \union info.copy PROVE HasMain(b) /\ Restorable(b)
  BY DEF ListedIsRestorable
<1>1. HasMain(b)
  BY DEF RepoInv, KeptInv, ListedOK
<1>2. MainOK(repo[b].main, repo[b].file)
  BY <1>1 DEF DataInv, RepoOK, HasMain
<1>3. Restorable(b)
  BY <1>1, <1>2 DEF MainOK, DoneOK, Sound, Stored, RefOK, HasMain, Restorable
<1> QED
  BY <1>1, <1>3

(* Every backup listed in backup.info or its copy can be restored          *)
(* (backupComplete()), whatever the database changed meanwhile and however *)
(* often commands failed and were resumed, as long as the delta option is  *)
(* the same in all commands.  With an option that changes it is not true:  *)
(* the run of MCBackupDelta.                                               *)
THEOREM BackupListedIsRestorable ==
  ASSUME ~DeltaMayChange
  PROVE  Spec => []ListedIsRestorable
<1>1. Init => RepoInv /\ DataInv
  BY RepoInvInit, DataInit
<1>2. RepoInv /\ DataInv /\ [Next]_vars => (RepoInv /\ DataInv)'
  BY RepoInvNext, DataNext
<1>3. RepoInv /\ DataInv => ListedIsRestorable
  BY DataRestorable
<1> QED
  BY <1>1, <1>2, <1>3, PTL DEF Spec
=============================================================================
