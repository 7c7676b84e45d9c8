------------------------------- MODULE Expire -------------------------------
(***************************************************************************)
(* The expire command: backups beyond retention lose their manifests, then *)
(* their entry in backup.info, then their directories, and last the WAL    *)
(* that no remaining backup needs is removed.  The steps are separate and  *)
(* the command may die between any two of them and be run again, by hand   *)
(* or at the end of the next backup; WAL arrives all the time.             *)
(*                                                                         *)
(* A backup label is the number of the backup, so labels sort by time.  A  *)
(* WAL segment is <<timeline, number>> in the archive of a cluster id      *)
(* (infoPgArchiveId()); PathSize segments share a major path.  Backups,    *)
(* promotions and upgrades are single steps here (module Backup has the    *)
(* steps of a backup); they hold the same lock as expire.                  *)
(***************************************************************************)
EXTENDS Integers, FiniteSets, NatSets

CONSTANTS
    Options,      \* retention settings a stanza may have
    Segments,     \* numbers of segments a backup needs; 0 is an offline backup
    MaxBackups,   \* bound on the backups taken
    MaxSeg,       \* bound on the segment numbers
    MaxTimeline,  \* bound on the timelines
    MaxId,        \* bound on the cluster ids: upgrades
    MaxWork,      \* bound on backups, expire commands, pushes, promotions and upgrades together
    MaxExpires,   \* bound on the expire commands
    PathSize,     \* segments in a major path
    None          \* no prior backup, no WAL

ASSUME ExpireAssumption ==
    /\ \A o \in Options : /\ o.full \in Nat /\ o.diff \in Nat /\ o.archive \in Nat
                          /\ o.type \in {"full", "diff", "incr"}
                          /\ o.time \in BOOLEAN /\ o.adhoc \in BOOLEAN
    /\ Segments \subseteq Nat
    /\ {MaxBackups, MaxSeg, MaxTimeline, MaxId, MaxWork, MaxExpires} \subseteq Nat
    /\ PathSize \in Nat \ {0}
    /\ None \notin Nat \union (Nat \X Nat)

VARIABLES
    opt,       \* the settings of this stanza
    pg,        \* the database: cluster id, timeline and current segment
    wal,       \* wal[id]: the segments in the archive of cluster id
    pushed,    \* pushed[id]: the segments that ever were
    timelines, \* timelines[id]: the history files in the archive
    dir,       \* dir[label]: the backup directories
    info,      \* labels in backup.info and backup.info.copy
    count,     \* backups taken so far
    other,     \* pushes, promotions and upgrades so far
    p,         \* the running expire command
    expires    \* expire commands started

vars == <<opt, pg, wal, pushed, timelines, dir, info, count, other, p, expires>>

Idle == [pc |-> "idle", listed |-> {}, todo |-> {}, adhoc |-> None, retain |-> 0, type |-> "full",
         rm |-> {}, id |-> 1, seg |-> {}]

Before(v, w) == v[1] < w[1] \/ (v[1] = w[1] /\ v[2] <= w[2])     \* v sorts up to w
Path(w) == <<w[1], w[2] \div PathSize>>                          \* the first 16 characters
Oldest(S) == First(S)
Newest(S) == CHOOSE b \in S : \A c \in S : c <= b

(***************************************************************************)
(* backup.info as infoBackupLoadFileReconstruct() finds it: a listed       *)
(* backup without a manifest is dropped with its dependents, a complete    *)
(* backup that is not listed is added when its prior backup is listed.     *)
(***************************************************************************)
Complete == {b \in DOMAIN dir : dir[b].main}

InfoBackupLoadFileReconstruct(listed) ==
    UNION {T \in SUBSET (listed \union Complete) :
             \A b \in T : b \in Complete /\ dir[b].prior \in T \union {None}}

Available == InfoBackupLoadFileReconstruct(info.main)

OfType(S, types) == {b \in S : dir[b].type \in types}
Fulls(S) == OfType(S, {"full"})

\* infoBackupDataDependentList(): the backup and all that depend on it.
DependentList(listed, b) ==
    {c \in listed : \A T \in SUBSET listed :
        b \in T /\ (\A d \in listed : dir[d].prior \in T => d \in T) => c \in T}

(***************************************************************************)
(* The database, its archive and its backups.                              *)
(***************************************************************************)
Empty(id) == [i \in 1 .. id |-> {}]

Init ==
    /\ opt \in Options
    /\ pg = [id |-> 1, tl |-> 1, seg |-> 0]
    /\ wal = Empty(1) /\ pushed = Empty(1) /\ timelines = Empty(1)
    /\ dir = <<>> /\ info = [main |-> {}, copy |-> {}]
    /\ count = 0 /\ other = 0 /\ p = Idle /\ expires = 0

Work == count + other + expires < MaxWork

Step == Work /\ other' = other + 1

\* Segments of the current timeline are archived in order.
Push(n) ==
    /\ pg.seg + n <= MaxSeg
    /\ LET new == {<<pg.tl, s>> : s \in pg.seg .. pg.seg + n - 1}
       IN  /\ wal' = [wal EXCEPT ![pg.id] = @ \union new]
           /\ pushed' = [pushed EXCEPT ![pg.id] = @ \union new]
    /\ pg' = [pg EXCEPT !.seg = @ + n]

ArchivePush ==
    /\ Step /\ Push(1)
    /\ UNCHANGED <<opt, timelines, dir, info, count, p, expires>>

Promote ==
    /\ Step /\ p.pc = "idle" /\ pg.tl < MaxTimeline
    /\ pg' = [pg EXCEPT !.tl = @ + 1]
    /\ timelines' = [timelines EXCEPT ![pg.id] = @ \union {pg.tl + 1}]
    /\ UNCHANGED <<opt, wal, pushed, dir, info, count, p, expires>>

StanzaUpgrade ==
    /\ Step /\ p.pc = "idle" /\ pg.id < MaxId
    /\ pg' = [id |-> pg.id + 1, tl |-> 1, seg |-> 0]
    /\ LET extended(f) == [i \in 1 .. pg.id + 1 |-> IF i <= pg.id THEN f[i] ELSE {}]
       IN  wal' = extended(wal) /\ pushed' = extended(pushed) /\ timelines' = extended(timelines)
    /\ UNCHANGED <<opt, dir, info, count, p, expires>>

\* The newest directory, when it is not complete, is removed or becomes the new
\* backup.  The backup needs n segments, none when it is offline, and gets as far
\* as a copy of the manifest, the manifest, or backup.info.
Backup(type, n, reached) ==
    LET b == count + 1
        ours == {c \in Available : dir[c].id = pg.id}
        base == IF type = "diff" THEN Fulls(ours) ELSE ours
        full == type = "full" \/ base = {}
        old == IF DOMAIN dir = {} THEN {} ELSE {Newest(DOMAIN dir)} \ Complete
        new == [main |-> reached # "copy", copy |-> TRUE, id |-> pg.id,
                type |-> IF full THEN "full" ELSE type,
                prior |-> IF full THEN None ELSE Newest(base),
                full |-> IF full THEN b ELSE dir[Newest(base)].full,
                start |-> IF n = 0 THEN None ELSE <<pg.tl, pg.seg>>,
                stop |-> IF n = 0 THEN None ELSE <<pg.tl, pg.seg + n - 1>>]
    IN  /\ Work /\ p.pc = "idle" /\ count < MaxBackups
        /\ Push(n)
        /\ dir' = [c \in (DOMAIN dir \ old) \union {b} |-> IF c = b THEN new ELSE dir[c]]
        /\ info' = IF reached = "info" THEN [main |-> Available \union {b}, copy |-> Available \union {b}]
                   ELSE info
        /\ count' = b
        /\ UNCHANGED <<opt, timelines, other, p, expires>>

(***************************************************************************)
(* Which backups are expired, by the roots that expireBackup() is called   *)
(* for: each goes with all that depend on it.                              *)
(***************************************************************************)
\* All but the newest n of S; none when n is not set.
Beyond(S, n) == {b \in S : n > 0 /\ Cardinality({c \in S : c > b}) >= n}

ExpireFullBackup(listed, n) == Beyond(Fulls(listed), n)

\* Full backups count as differential ones, but do not expire here.
ExpireDiffBackup(listed, n) == OfType(Beyond(OfType(listed, {"full", "diff"}), n), {"diff"})

\* The newest full backup that stopped before min is kept, older ones go.
RetentionMet(listed, min) == {b \in Fulls(listed) : b < min}

ExpireTimeBasedBackup(listed, min) ==
    {b \in Fulls(listed) : \E c \in RetentionMet(listed, min) : b < c}

\* As if any other full backup would do.
AdhocAllowedAnyCluster(listed, b) == b = Newest(Fulls(listed)) => Fulls(listed) # {b}

\* The newest full backup goes only if the one before is of the same cluster.
AdhocAllowed(listed, b) ==
    LET fulls == Fulls(listed)
        before == fulls \ {b}
    IN  b = Newest(fulls) => before # {} /\ dir[Newest(before)].id = dir[b].id

(***************************************************************************)
(* cmdExpire(): what goes is decided before anything is removed.           *)
(***************************************************************************)
Begin(listed, todo, adhoc, retain, type) ==
    /\ p' = [Idle EXCEPT !.pc = "manifest", !.listed = listed, !.todo = todo, !.adhoc = adhoc,
                         !.retain = retain, !.type = type]
    /\ UNCHANGED <<opt, pg, wal, pushed, timelines, dir, info, count, other>>

Start ==
    /\ Work /\ p.pc = "idle" /\ expires < MaxExpires
    /\ expires' = expires + 1

Expiring(listed, roots) == UNION {DependentList(listed, r) : r \in roots}

\* The backups expired first are gone when the differential ones are looked for.
WithDiffs(listed, roots) ==
    roots \union ExpireDiffBackup(listed \ Expiring(listed, roots), opt.diff)

ExpireByCount ==
    /\ Start /\ ~opt.time
    /\ LET listed == Available
       IN  Begin(listed, WithDiffs(listed, ExpireFullBackup(listed, opt.full)), None,
                 opt.archive, opt.type)

\* Without archive retention it becomes the number of full backups that remain.
ExpireByTime(min) ==
    /\ Start /\ opt.time /\ (opt.full = 0 => min = 1)
    /\ LET listed == Available
           roots == ExpireTimeBasedBackup(listed, min)
           left == Cardinality(Fulls(listed) \ roots)
           unset == RetentionMet(listed, min) # {} /\ opt.type = "full" /\ opt.archive = 0
       IN  Begin(listed, WithDiffs(listed, roots), None, IF unset THEN left ELSE opt.archive, opt.type)

\* --oldest keeps one full backup less, whatever the settings are.
ExpireOldest ==
    /\ Start
    /\ LET listed == Available
           n == Cardinality(Fulls(listed))
       IN  /\ n > 1
           /\ Begin(listed, WithDiffs(listed, ExpireFullBackup(listed, n - 1)), None, n - 1, "full")

\* A label that is not listed is only warned of and the command goes on: nothing is
\* expired, and b stands for a backup with the same first 16 characters, if any.
ExpireAdhoc(b) ==
    /\ Start /\ opt.adhoc
    /\ \/ /\ b \in Available /\ AdhocAllowed(Available, b)
          /\ Begin(Available, {b}, b, opt.archive, opt.type)
       \/ Begin(Available, {}, b, opt.archive, opt.type)

\* An error or a signal: what was removed is gone, nothing else happens.
Crash ==
    /\ p.pc # "idle"
    /\ p' = Idle
    /\ UNCHANGED <<opt, pg, wal, pushed, timelines, dir, info, count, other, expires>>

(***************************************************************************)
(* expireBackup() of one root after the other, full backups first and the  *)
(* older ones first: of each backup, the newest dependent first, the       *)
(* manifest and then its copy.  Then backup.info.                          *)
(***************************************************************************)
Sooner(r, s) ==
    IF dir[r].type = "full" THEN dir[s].type = "full" => r <= s
    ELSE dir[s].type # "full" /\ r <= s

ExpireBackup(b) ==
    \E r \in p.todo :
        /\ \A s \in p.todo : Sooner(r, s)
        /\ b \in DependentList(p.listed, r)
        /\ \A c \in DependentList(p.listed, r) : c <= b

RemoveManifest(b) ==
    /\ p.pc = "manifest" /\ ExpireBackup(b) /\ dir[b].main
    /\ dir' = [dir EXCEPT ![b].main = FALSE]
    /\ UNCHANGED <<opt, pg, wal, pushed, timelines, info, count, other, p, expires>>

RemoveManifestCopy(b) ==
    /\ p.pc = "manifest" /\ ExpireBackup(b) /\ ~dir[b].main
    /\ dir' = [dir EXCEPT ![b].copy = FALSE]
    /\ p' = [p EXCEPT !.todo = @ \ {b}, !.listed = @ \ {b}]
    /\ UNCHANGED <<opt, pg, wal, pushed, timelines, info, count, other, expires>>

\* removeExpiredBackup(): an adhoc expire keeps the newest directory when it can
\* be resumed: it is of another full backup, or its prior backup is still listed.
Resumable(b) ==
    LET full == IF p.adhoc \in DOMAIN dir THEN dir[p.adhoc].full ELSE p.adhoc
    IN  /\ ~dir[b].main /\ dir[b].copy
        /\ dir[b].full # full \/ dir[b].prior \in p.listed

Directories ==
    LET spared == {b \in DOMAIN dir : p.adhoc # None /\ b = Newest(DOMAIN dir) /\ Resumable(b)}
    IN  [p EXCEPT !.pc = "dirs", !.rm = DOMAIN dir \ (p.listed \union spared)]

\* backup.info is saved only when it changed since it was loaded.
SaveInfo ==
    /\ p.pc = "manifest" /\ p.todo = {}
    /\ info' = [info EXCEPT !.main = p.listed]
    /\ p' = IF p.listed = info.main THEN Directories ELSE [p EXCEPT !.pc = "copy"]
    /\ UNCHANGED <<opt, pg, wal, pushed, timelines, dir, count, other, expires>>

SaveInfoCopy ==
    /\ p.pc = "copy"
    /\ info' = [info EXCEPT !.copy = p.listed]
    /\ p' = Directories
    /\ UNCHANGED <<opt, pg, wal, pushed, timelines, dir, count, other, expires>>

RemoveExpiredBackup(b) ==
    /\ p.pc = "dirs" /\ \A c \in p.rm : c <= b
    /\ dir' = [c \in DOMAIN dir \ {b} |-> dir[c]]
    /\ p' = [p EXCEPT !.rm = @ \ {b}]
    /\ UNCHANGED <<opt, pg, wal, pushed, timelines, info, count, other, expires>>

(***************************************************************************)
(* removeExpiredArchive().                                                 *)
(***************************************************************************)
TypesOf(type) ==
    CASE type = "full" -> {"full"} [] type = "diff" -> {"full", "diff"}
      [] type = "incr" -> {"full", "diff", "incr"}

\* The backups whose WAL is kept to the end: the newest n of the type.
ArchiveRetention(listed, n, type) ==
    LET S == OfType(listed, TypesOf(type))
    IN  {b \in S : Cardinality({c \in S : c > b}) < n}

\* As if it were the newest backup of the type.
ArchiveRetentionBackupNewest(listed, n, type, id) ==
    Newest({b \in OfType(listed, TypesOf(type)) : dir[b].id = id})

\* The oldest of them in this archive, or the newest backup of the type.
ArchiveRetentionBackup(listed, n, type, id) ==
    LET here == {b \in OfType(listed, TypesOf(type)) : dir[b].id = id}
        kept == here \intersect ArchiveRetention(listed, n, type)
    IN  IF kept # {} THEN Oldest(kept) ELSE Newest(here)

InRange(r, w) == Before(r.start, w) /\ (r.stop # None => Before(w, r.stop))
InPathRange(r, w) == Before(Path(r.start), Path(w)) /\ (r.stop # None => Before(Path(w), Path(r.stop)))

\* As if the WAL of older backups were not kept.
ArchiveRangeListOne(listed, b) == {[start |-> dir[b].start, stop |-> None]}

\* Older backups keep the WAL that makes them consistent.
ArchiveRangeList(listed, b) ==
    {[start |-> dir[c].start, stop |-> IF c = b THEN None ELSE dir[c].stop] :
        c \in {c \in listed : dir[c].id = dir[b].id /\ c <= b /\ dir[c].start # None}}

\* As if the path where the retention backup starts were not looked at.
ExpiredBelow(ranges, start, w) ==
    \/ \A r \in ranges : ~InPathRange(r, w)
    \/ Path(w) # Path(start) /\ Before(Path(w), Path(start)) /\ \A r \in ranges : ~InRange(r, w)

\* Whole paths go when they are in no range; single files are looked at only in
\* paths up to the one where the retention backup starts.
Expired(ranges, start, w) ==
    \/ \A r \in ranges : ~InPathRange(r, w)
    \/ Before(Path(w), Path(start)) /\ \A r \in ranges : ~InRange(r, w)

ToRemove(listed, n, type, id) ==
    LET here == {b \in OfType(listed, TypesOf(type)) : dir[b].id = id}
        b == ArchiveRetentionBackup(listed, n, type, id)
    IN  IF here = {} THEN IF id = pg.id THEN {} ELSE wal[id]
        ELSE IF dir[b].start = None THEN {}
        ELSE {w \in wal[id] : Expired(ArchiveRangeList(listed, b), dir[b].start, w)}

\* Too few backups: nothing is removed.
ArchiveStart ==
    /\ p.pc = "dirs" /\ p.rm = {}
    /\ p' = IF p.retain = 0 \/ Cardinality(OfType(p.listed, TypesOf(p.type))) < p.retain
            THEN Idle
            ELSE [p EXCEPT !.pc = "archive", !.seg = ToRemove(p.listed, p.retain, p.type, 1)]
    /\ UNCHANGED <<opt, pg, wal, pushed, timelines, dir, info, count, other, expires>>

RemoveExpiredArchive(w) ==
    /\ p.pc = "archive" /\ \A v \in p.seg : Before(w, v)
    /\ wal' = [wal EXCEPT ![p.id] = @ \ {w}]
    /\ p' = [p EXCEPT !.seg = @ \ {w}]
    /\ UNCHANGED <<opt, pg, pushed, timelines, dir, info, count, other, expires>>

\* The history files of timelines before the one the retention backup starts on.
HistoryLeft(id) ==
    LET here == {b \in OfType(p.listed, TypesOf(p.type)) : dir[b].id = id}
        b == ArchiveRetentionBackup(p.listed, p.retain, p.type, id)
    IN  IF here = {} THEN IF id = pg.id THEN timelines[id] ELSE {}
        ELSE IF dir[b].start = None THEN timelines[id]
        ELSE {t \in timelines[id] : t >= dir[b].start[1]}

NextArchive ==
    /\ p.pc = "archive" /\ p.seg = {}
    /\ timelines' = [timelines EXCEPT ![p.id] = HistoryLeft(p.id)]
    /\ p' = IF p.id = pg.id THEN [p EXCEPT !.pc = "done"]
            ELSE [p EXCEPT !.id = @ + 1, !.seg = ToRemove(p.listed, p.retain, p.type, p.id + 1)]
    /\ UNCHANGED <<opt, pg, wal, pushed, dir, info, count, other, expires>>

Done ==
    /\ p.pc = "done"
    /\ p' = Idle
    /\ UNCHANGED <<opt, pg, wal, pushed, timelines, dir, info, count, other, expires>>

Next ==
    \/ ArchivePush \/ Promote \/ StanzaUpgrade
    \/ \E type \in {"full", "diff", "incr"}, n \in Segments, reached \in {"copy", "main", "info"} :
        Backup(type, n, reached)
    \/ ExpireByCount \/ \E min \in 1 .. count + 1 : ExpireByTime(min)
    \/ ExpireOldest \/ \E b \in 1 .. count + 1 : ExpireAdhoc(b)
    \/ \E b \in p.listed : RemoveManifest(b) \/ RemoveManifestCopy(b)
    \/ SaveInfo \/ SaveInfoCopy \/ \E b \in p.rm : RemoveExpiredBackup(b)
    \/ ArchiveStart \/ \E w \in p.seg : RemoveExpiredArchive(w)
    \/ NextArchive \/ Done \/ Crash

Spec == Init /\ [][Next]_vars
-----------------------------------------------------------------------------
(***************************************************************************)
(* Properties.                                                             *)
(***************************************************************************)
\* The crash-safety invariant of expireBackup(): a manifest is never left without
\* the manifest of the backup it depends on.
NoIsland == \A b \in Complete : dir[b].prior # None => dir[b].prior \in Complete

\* A backup that a command finds in backup.info can be made consistent at any
\* moment, whatever expire has removed so far and wherever it died: the backups
\* it depends on are complete and the WAL from its start to its stop is there.
AvailableIsConsistent ==
    /\ NoIsland
    /\ \A b \in Available :
        dir[b].start # None =>
            \A w \in pushed[dir[b].id] :
                Before(dir[b].start, w) /\ Before(w, dir[b].stop) => w \in wal[dir[b].id]

\* Point-in-time recovery, where no backup was expired by hand: the WAL of the
\* current cluster is complete from the oldest full backup in archive retention
\* (every full backup when it follows the backups) and from the newest backup of
\* the retention type, or altogether when there is no backup yet.
WalKept ==
    LET here(S) == {b \in S : dir[b].id = pg.id}
        typed == OfType(Available, TypesOf(opt.type))
        fulls == IF opt.type # "full" THEN {}
                 ELSE IF opt.archive = 0 THEN typed
                 ELSE ArchiveRetention(Available, opt.archive, "full")
        newest == IF here(typed) = {} THEN {} ELSE {Newest(here(typed))}
    IN  ~opt.adhoc =>
            /\ here(typed) = {} => wal[pg.id] = pushed[pg.id]
            /\ \A b \in here(fulls) \union newest :
                dir[b].start # None =>
                    \A w \in pushed[pg.id] : Before(dir[b].start, w) => w \in wal[pg.id]

\* A full backup is expired only when a newer complete one stays, or by its own
\* label when another of the same cluster stays.
NewestFullKept ==
    [][\A b \in Complete \ {c \in DOMAIN dir' : dir'[c].main} :
        dir[b].type = "full" =>
            \E c \in Fulls(Complete) \ {b} :
                /\ dir'[c].main
                /\ c > b \/ (p.adhoc = b /\ dir[c].id = dir[b].id)]_vars

\* removeExpiredArchive() removes everything outside the ranges that are kept: an
\* expire that runs to its end leaves in no archive a segment no backup needs,
\* although it looks at single files only in some of the paths.
NothingLeftBehind ==
    p.pc = "done" =>
        \A id \in DOMAIN wal :
            LET here == {b \in OfType(p.listed, TypesOf(p.type)) : dir[b].id = id}
                b == ArchiveRetentionBackup(p.listed, p.retain, p.type, id)
            IN  IF here = {} THEN id = pg.id \/ wal[id] = {}
                ELSE dir[b].start # None =>
                        \A w \in wal[id] : \E r \in ArchiveRangeList(p.listed, b) : InRange(r, w)
=============================================================================
