----------------------------- MODULE BackupCopy -----------------------------
(***************************************************************************)
(* How the files of a backup are given to the local processes and put in   *)
(* the repository: a queue for each target, the first one for files that   *)
(* must come from the primary when the backup is made from a standby;      *)
(* small files written one after the other into bundles.  The database     *)
(* changes, truncates and drops files meanwhile, and jobs end in any order.*)
(*                                                                         *)
(* The bytes of a file are its name, as often as the file is long; a file  *)
(* of the repository is stored as it is, so its sizes are the file's.      *)
(*                                                                         *)
(* The search for WAL segments in the archive: the backup command waits    *)
(* for every segment from its start to its stop LSN and copies them when   *)
(* archive-copy is on, the check command waits in each repository for the  *)
(* segment it made the primary switch.  A search for many segments keeps   *)
(* the sorted list of a directory and takes from its front, so most of its *)
(* answers come from an old listing; meanwhile archive-push, of this       *)
(* cluster or of another one by mistake, stores files in any order.        *)
(*                                                                         *)
(* A segment is <<log, number>>, its directory (the first 16 characters of *)
(* its name) the log.  A file of the archive is a segment with a kind, a   *)
(* checksum and a compression type.  Encryption is left out.               *)
(***************************************************************************)
EXTENDS Integers, Sequences, FiniteSets, FiniteSetsExt, SequencesExt

CONSTANTS
    Manifests,     \* manifests: functions from names, which are numbers, to files
    Targets,       \* number of targets: the data directory and tablespaces
    Modes,         \* [standby, bundle]: is there a standby, are files bundled
    Clients,       \* number of processes, the one on the primary included
    BundleSize, BundleLimit,

    Arrivals,    \* files archive-push may store, in any order
    LsnRanges,   \* start and stop LSNs of backups, each as <<start, stop>>
    LogSize,     \* bytes in a log (2^32)
    SegmentSize, \* bytes in a segment
    CheckRepos,  \* repositories of the check command
    CopyTypes,   \* compression of backups with archive-copy; None without it
    MaxRound,    \* bound on the rounds of a search
    None

VARIABLES
    mode,
    manifest,      \* the manifest, updated by the results
    queueList,     \* queueList[q]: the names in a queue
    bundleId,      \* the next bundle
    client,        \* client[c]: the job of a process, or None
    done,          \* processes that got no job
    fileRemove,    \* files that were removed from the cluster
    repo,          \* repo[path]: the bytes of a file;
    from,          \* from[f]: the process that copied the file (history)

    archive,     \* archive[r]: files in the archive of a repository
    compress,    \* compression of the copies, or None
    want,        \* the searches to make, each <<repository, segment>>
    single,      \* is the search for one segment?
    find,        \* the list of the search object, and the directory and repository it is of
    round,       \* rounds of this search
    pc,
    file,        \* the file that was found
    copied,      \* files copied into the backup, or found by check
    listing      \* the archive as it was listed last in this search object (history)

vars == <<mode, manifest, queueList, bundleId, client, done, fileRemove, repo, from>>

(* A file of the manifest has the number of its target; must it come from the primary (primary); its size,
   that of the prior backup if it refers to it, and its size now (size, sizeOriginal); its timestamp (time);
   has it a reference, is it to be copied (reference, copy); the place of the copy (bundleId, bundleOffset);
   and what the database does with it before it is read (fate). *)
Names == DOMAIN manifest
File(f) == [bundle |-> FALSE, id |-> f]
Bundle(id) == [bundle |-> TRUE, id |-> id]
Standby == mode.standby

-----------------------------------------------------------------------------
(* backupProcessQueue() *)

\* As if files were sorted by time alone.
SortedByTime(m, bundle, f, g) ==
    IF m[f].time # m[g].time THEN m[f].time < m[g].time ELSE f > g

\* Larger files first; when bundled, those that fit in a bundle come last, from old to new.
BackupProcessQueueComparator(m, bundle, f, g) ==
    LET bySize == ~bundle \/ m[f].size > BundleLimit \/ m[g].size > BundleLimit
    IN  CASE bySize /\ m[f].size # m[g].size -> m[f].size > m[g].size
          [] bundle /\ m[f].time # m[g].time -> m[f].time < m[g].time
          [] OTHER -> f > g

\* The queue of a file, counted from 1.
QueueOf(m, standby, f) ==
    IF standby /\ m[f].primary THEN 1 ELSE m[f].target + IF standby THEN 1 ELSE 0

BackupProcessQueue(m, d) ==
    [q \in 1..(Targets + IF d.standby THEN 1 ELSE 0) |->
        SetToSortSeq({f \in DOMAIN m : m[f].copy /\ QueueOf(m, d.standby, f) = q},
                     LAMBDA f, g : BackupProcessQueueComparator(m, d.bundle, f, g))]

Init ==
    /\ mode \in Modes
    /\ manifest \in Manifests
    /\ queueList = BackupProcessQueue(manifest, mode)
    /\ bundleId = 1 /\ client = [c \in 0..(Clients - 1) |-> None] /\ done = {} /\ fileRemove = {}
    /\ repo = <<>> /\ from = <<>>

-----------------------------------------------------------------------------
(* backupJobCallback() *)

\* The queues a process looks at, in order: the primary's when it is the process there, else
\* all others, from the one of its number on, forward or back.
BackupJobQueueNext(c, total) == [i \in 1..total |-> (c + IF c % 2 = 1 THEN 1 - i ELSE i - 1) % total]

Scan(c) ==
    LET offset == IF Standby /\ c > 0 THEN 1 ELSE 0
        scan == BackupJobQueueNext(c, Len(queueList) - offset)
    IN  IF Standby /\ c = 0 THEN <<1>> ELSE [i \in DOMAIN scan |-> scan[i] + offset + 1]

\* The positions of a queue that go into one bundle: each file that still fits, until the bundle is full.
Bundled(queue) ==
    LET size(f) == manifest[f].size
        sum(f) == manifest[f].sizeOriginal
        taken[i \in 0..Len(queue)] ==
            IF i = 0 THEN [set |-> {}, size |-> 0]
            ELSE LET t == taken[i - 1]
                     fits == t.set = {} \/ t.size + size(queue[i]) < BundleSize
                 IN  IF fits THEN [set |-> t.set \union {i}, size |-> t.size + sum(queue[i])] ELSE t
    IN  taken[Len(queue)].set

Alone(queue) == ~mode.bundle \/ manifest[queue[1]].size > BundleLimit
Pick(queue) == IF Alone(queue) THEN {1} ELSE Bundled(queue)

Take(queue, set) == LET p == SetToSortSeq(set, LAMBDA i, j : i < j) IN [i \in DOMAIN p |-> queue[p[i]]]
Leave(queue, set) == Take(queue, DOMAIN queue \ set)

BackupJobCallback(c) ==
    /\ client[c] = None /\ c \notin done
    /\ LET scan == Scan(c)
           full == {i \in DOMAIN scan : queueList[scan[i]] # <<>>}
       IN  IF full = {}
           THEN done' = done \union {c} /\ UNCHANGED <<client, queueList, bundleId>>
           ELSE LET q == scan[Min(full)]
                    queue == queueList[q]
                IN  \E set \in {Pick(queue)} :
                    /\ client' = [client EXCEPT ![c] =
                           [path |-> IF Alone(queue) THEN File(queue[1]) ELSE Bundle(bundleId),
                            list |-> Take(queue, set), result |-> <<>>, offset |-> 0]]
                    /\ queueList' = [queueList EXCEPT ![q] = Leave(queue, set)]
                    /\ bundleId' = IF Alone(queue) THEN bundleId ELSE bundleId + 1
                    /\ UNCHANGED done
    /\ UNCHANGED <<mode, manifest, fileRemove, repo, from>>

-----------------------------------------------------------------------------
(* backupFile() *)

\* What the process finds, reading no more than the size in the manifest, and what it does with it.
ReadSize(f) == CASE manifest[f].fate = "truncated" -> 0
                 [] manifest[f].fate = "shrunk" -> 1
                 [] OTHER -> manifest[f].sizeOriginal

\* A file that is as in the prior backup is copied nevertheless if it is larger than a buffer and there is no delta.
CopyResults(f, bundle) ==
    CASE manifest[f].fate = "gone" -> {"skip"}
      [] bundle /\ ReadSize(f) = 0 -> {"truncate"}
      [] manifest[f].fate = "same" /\ manifest[f].reference /\ ReadSize(f) = manifest[f].size -> {"noop", "copy"}
      [] OTHER -> {"copy"}

Write(path, bytes) ==
    repo' = [p \in DOMAIN repo \union {path} |->
                IF p # path THEN repo[p] ELSE (IF p \in DOMAIN repo THEN repo[p] ELSE <<>>) \o bytes]

\* The next file of a job.
BackupFile(c) ==
    /\ client[c] # None /\ Len(client[c].result) < Len(client[c].list)
    /\ LET j == client[c]
           f == j.list[Len(j.result) + 1]
           size == ReadSize(f)
       IN  \E result \in CopyResults(f, j.path.bundle) :
           /\ IF result = "copy" THEN Write(j.path, [i \in 1..size |-> f]) ELSE UNCHANGED repo
           /\ client' = [client EXCEPT
                  ![c].result = Append(@, [copy |-> result, size |-> size, offset |-> IF result = "copy" THEN j.offset ELSE 0]),
                  ![c].offset = IF result = "copy" THEN @ + size ELSE @]
           /\ from' = [g \in DOMAIN from \union {f} |-> IF g = f THEN c ELSE from[g]]
    /\ UNCHANGED <<mode, manifest, queueList, bundleId, done, fileRemove>>

-----------------------------------------------------------------------------
(* backupJobResult() *)

BackupJobResult(c) ==
    /\ client[c] # None /\ Len(client[c].result) = Len(client[c].list)
    /\ LET j == client[c]
           index(f) == CHOOSE i \in DOMAIN j.list : j.list[i] = f
           result(f) == j.result[index(f)]
       IN  /\ fileRemove' = fileRemove \union {f \in Range(j.list) : result(f).copy = "skip"}
           /\ manifest' = [f \in Names |->
                  IF f \in Range(j.list) /\ result(f).copy \in {"copy", "truncate"}
                  THEN [manifest[f] EXCEPT
                           !.size = result(f).size, !.reference = FALSE,
                           !.bundleId = IF result(f).copy = "copy" /\ j.path.bundle THEN j.path.id ELSE 0,
                           !.bundleOffset = result(f).offset]
                  ELSE manifest[f]]
    /\ client' = [client EXCEPT ![c] = None]
    /\ UNCHANGED <<mode, queueList, bundleId, done, repo, from>>

Next ==
    \E c \in DOMAIN client :
        \/ BackupJobCallback(c)
        \/ BackupFile(c)
        \/ BackupJobResult(c)

Spec == Init /\ [][Next]_vars

-----------------------------------------------------------------------------
Finished == done = DOMAIN client
Copied(f) == manifest[f].copy /\ f \notin fileRemove /\ ~manifest[f].reference

\* The bytes of files that are to be copied.
SizeNow(list) == FoldSeq(LAMBDA f, sum : sum + manifest[f].sizeOriginal, 0, list)

(* When no process gets another job, every file was copied by one, from the primary if it has to be, and
   what the manifest says of its place is true: the bytes there are the file's, as long as it was when read,
   or it is still the one of the prior backup (command/backup/backup.c:1971, file.c:380).

   No file above the limit is bundled, and no file is added to a bundle that is full.  The last one may
   overfill it: the size that decides is the one in the prior backup if the file refers to it (backup.c:2011), the
   one that is counted is the file's size now (backup.c:2096). *)
FilesAreWhereListed ==
    /\ \A c \in DOMAIN client : client[c] # None /\ client[c].path.bundle =>
          LET list == client[c].list
          IN  /\ \A i \in DOMAIN list : manifest[list[i]].size <= BundleLimit
              /\ SizeNow(Front(list)) < BundleSize
    /\ Finished =>
        /\ \A q \in DOMAIN queueList : queueList[q] = <<>>
        /\ \A f \in Names :
            /\ manifest[f].copy => f \in DOMAIN from
            /\ manifest[f].copy /\ Standby /\ manifest[f].primary => from[f] = 0
            /\ Copied(f) /\ manifest[f].size > 0 =>
                LET path == IF manifest[f].bundleId = 0 THEN File(f) ELSE Bundle(manifest[f].bundleId)
                IN  SubSeq(repo[path], manifest[f].bundleOffset + 1, manifest[f].bundleOffset + manifest[f].size)
                        = [i \in 1..ReadSize(f) |-> f]
            /\ manifest[f].copy /\ manifest[f].reference /\ f \notin fileRemove => manifest[f].fate = "same"

-----------------------------------------------------------------------------
(* The WAL of a backup *)
walVars == <<archive, compress, want, single, find, round, pc, file, copied, listing>>

Kinds == <<"wal", "partial">>    \* as they sort after the segment's name
NoList == [prefix |-> None, list |-> None]

\* The segments of an LSN range, from its start up to the one that holds its stop.
PgLsnRangeToWalSegmentList(start, stop) ==
    LET minorPerMajor == (LogSize - 1) \div SegmentSize
        segment(lsn) == <<lsn \div LogSize, (lsn % LogSize) \div SegmentSize>>
        next(s) == IF s[2] + 1 > minorPerMajor THEN <<s[1] + 1, 0>> ELSE <<s[1], s[2] + 1>>
        list[s \in (0..(stop \div LogSize)) \X (0..minorPerMajor)] ==
            IF s = segment(stop) THEN <<s>> ELSE <<s>> \o list[next(s)]
    IN  list[segment(start)]

\* The backup command after pg_backup_stop().
BackupArchiveCheckCopy ==
    \E range \in LsnRanges, c \in CopyTypes :
        LET walSegmentList == PgLsnRangeToWalSegmentList(range[1], range[2])
        IN  /\ want = [i \in DOMAIN walSegmentList |-> <<1, walSegmentList[i]>>]
            /\ single = (Len(walSegmentList) = 1)
            /\ compress = c

\* The check command after dbWalSwitch().
CheckPrimary ==
    \E f \in Arrivals :
        /\ want = [r \in 1..CheckRepos |-> <<r, f.seg>>]
        /\ single = TRUE /\ compress = None

WalInit ==
    /\ BackupArchiveCheckCopy \/ CheckPrimary
    /\ archive = [r \in 1..CheckRepos |-> {}]
    /\ find = NoList /\ round = 1 /\ pc = "find" /\ file = None /\ copied = <<>> /\ listing = None

-----------------------------------------------------------------------------
(* The archive *)

\* Only what may still be looked for matters.
ArchivePush(r, f) ==
    /\ pc \in {"find", "wait"} /\ \E i \in DOMAIN want : want[i][1] = r
    /\ f \notin archive[r]
    /\ archive' = [archive EXCEPT ![r] = @ \union {f}]
    /\ UNCHANGED <<compress, want, single, find, round, pc, file, copied, listing>>

-----------------------------------------------------------------------------
(* walSegmentFind() *)

Segment == want[1][2]
Matches(f) == f.seg = Segment /\ f.kind = "wal"

\* The order of file names.
Rank(f) == <<f.seg[1], f.seg[2], CHOOSE i \in DOMAIN Kinds : Kinds[i] = f.kind, f.sum>>
Before(f, g) ==
    \E i \in DOMAIN Rank(f) : Rank(f)[i] < Rank(g)[i] /\ \A j \in 1..(i - 1) : Rank(f)[j] = Rank(g)[j]

StorageList ==
    SetToSortSeq({f \in archive[want[1][1]] : f.seg[1] = Segment[1] /\ (single => Matches(f))}, Before)

Reload == find.list = None \/ find.prefix # Segment[1]

\* The list without what comes before the segment; how many files of the segment it starts with; what follows those.
Trim(list) == IF \E f \in Range(list) : Matches(f)
              THEN SubSeq(list, SelectInSeq(list, Matches), Len(list)) ELSE <<>>
Match(list) == Len(SelectSeq(list, Matches))
Rest(list) == SubSeq(list, Match(list) + 1, Len(list))

\* As if an empty list were kept, and the directory not listed again.
KeepEmpty(list) == IF single THEN None ELSE list

\* What is kept for the next round or segment.
Keep(list) == IF single \/ list = <<>> THEN None ELSE list

\* One round of the search.
WalSegmentFind ==
    /\ pc = "find"
    /\ \E list \in {Trim(IF Reload THEN StorageList ELSE find.list)} :
        /\ pc' = CASE Match(list) > 1 -> "duplicate"
                   [] Match(list) = 1 -> "found"
                   [] OTHER -> "wait"
        /\ find' = [prefix |-> Segment[1], list |-> IF Match(list) > 1 THEN None ELSE Keep(Rest(list))]
        /\ file' = IF Match(list) = 1 THEN list[1] ELSE None
    /\ listing' = IF Reload THEN [of |-> archive[want[1][1]], for |-> Segment] ELSE listing
    /\ UNCHANGED <<archive, compress, want, single, round, copied>>

\* A wait gives at least two more rounds, whatever the clock says.
MinRound == 3

WaitMore ==
    /\ pc = "wait" /\ round < MaxRound
    /\ round' = round + 1 /\ pc' = "find"
    /\ UNCHANGED <<archive, compress, want, single, find, file, copied, listing>>

WaitOver ==
    /\ pc = "wait" /\ round >= MinRound
    /\ pc' = "timeout"
    /\ UNCHANGED <<archive, compress, want, single, find, round, file, copied, listing>>

-----------------------------------------------------------------------------
(* What is done with a segment that was found *)

Decompress(f, type) == [f EXCEPT !.type = IF @ = type THEN "none" ELSE "broken"]
Compress(f, type) == [f EXCEPT !.type = IF @ = "none" THEN type ELSE "twice"]

\* The file as the filters of archive-copy make it: left alone when both types are the same.
Recompressed(f) ==
    IF compress \in {None, f.type} THEN f
    ELSE LET plain == IF f.type # "none" THEN Decompress(f, f.type) ELSE f
         IN  IF compress # "none" THEN Compress(plain, compress) ELSE plain

\* The next segment, with a new search object when each is for one segment.
NextSegment ==
    /\ pc = "found"
    /\ copied' = Append(copied, Recompressed(file))
    /\ want' = Tail(want)
    /\ pc' = IF Len(want) = 1 THEN "done" ELSE "find"
    /\ find' = IF single THEN NoList ELSE find
    /\ round' = 1 /\ file' = None
    /\ UNCHANGED <<archive, compress, single, listing>>

WalNext ==
    \/ \E r \in 1..CheckRepos, f \in Arrivals : ArchivePush(r, f)
    \/ WalSegmentFind
    \/ WaitMore
    \/ WaitOver
    \/ NextSegment

WalSpec == WalInit /\ [][WalNext]_walVars

-----------------------------------------------------------------------------
Number(segment) == segment[1] * (LogSize \div SegmentSize) + segment[2]
FilesOf(set, segment) == {f \in set : f.seg = segment /\ f.kind = "wal"}

(* A segment is taken as archived only when a listing showed exactly one file of it, and that
   file is still in the archive; a search ends as timed out only after it listed the directory
   itself, without finding the segment there; the duplicates that are reported are in the
   archive.  So an old list never hides a segment that has arrived, and the segments of the
   backup are those from its start to its stop, each readable with the backup's compression
   (command/archive/find.c:76, command/backup/backup.c:2406). *)
FoundIsArchived ==
    /\ pc = "found" =>
        /\ FilesOf(listing.of, Segment) = {file}
        /\ file \in archive[want[1][1]]
    /\ pc = "timeout" => listing.for = Segment /\ FilesOf(listing.of, Segment) = {}
    /\ pc = "duplicate" => Cardinality(FilesOf(archive[want[1][1]], Segment)) > 1
    /\ pc = "done" =>
        \A i \in DOMAIN copied :
            /\ compress # None => copied[i].type = compress
            /\ i > 1 /\ ~single => Number(copied[i].seg) = Number(copied[i - 1].seg) + 1
=============================================================================
