------------------------------ MODULE MCBackup ------------------------------
(***************************************************************************)
(* Backup, the queues its files are taken from, its search for WAL and its *)
(* manifest.  They do not share state here: a behaviour is one of a single *)
(* part, and Parts says which are checked.                                 *)
(***************************************************************************)
EXTENDS Backup, TLC

CONSTANT Parts

VARIABLES
    part,                                       \* the command that runs
    manifest, baseTime, saved, wanted, steps,   \* ManifestStore
    mode, queueList, bundleId, client, done, fileRemove, stored, from,       \* BackupCopy, with manifest
    archive, compress, want, single, find, round, walPc, walFile, copied, listing  \* BackupCopy, the WAL

manifestVars == <<manifest, baseTime, saved, wanted, steps>>
queueVars == <<mode, queueList, bundleId, client, done, fileRemove, stored, from>>
walVars == <<archive, compress, want, single, find, round, walPc, walFile, copied, listing>>
mcVars == <<part, vars, manifestVars, queueVars, walVars>>

(* Manifests.  A file has one of the owners, modes, sizes, checksums and places in the repository below,
   the other fields being plain; the rest of the manifest goes with its owner. *)
Null == "null"

Plain ==
    [size |-> 3, sizeOriginal |-> 3, timestamp |-> 5, sum |-> "s1", sumRepo |-> Null, reference |-> Null,
     mode |-> {"ur", "uw"}, user |-> "u1", group |-> "u1", sizeRepo |-> 3, bundleId |-> 0, bundleOffset |-> 0,
     blockSize |-> 0, blockSum |-> 0, blockMap |-> 0, copy |-> TRUE, delta |-> FALSE, resume |-> FALSE,
     page |-> FALSE, pageError |-> FALSE, pageErrorList |-> Null]

OwnerFiles ==
    {[Plain EXCEPT !.user = u, !.group = g, !.mode = m] :
        u \in {Null, "u1", "u2"}, g \in {Null, "u2"}, m \in {{"ur"}, {"ur", "uw"}, {"ur", "uw", "gr"}}}

SizeFiles ==
    {[Plain EXCEPT !.size = s, !.sizeOriginal = o, !.sizeRepo = r, !.sum = c, !.sumRepo = cr, !.timestamp = t] :
        s \in {0, 3}, o \in {0, 3}, r \in {0, 3, 4}, c \in {Null, "s1"}, cr \in {Null, "s2"}, t \in {5, 7}}

RepoFiles ==
    {[Plain EXCEPT !.reference = f, !.bundleId = b[1], !.bundleOffset = b[2], !.resume = (b[1] = 2),
                   !.blockSize = k[1], !.blockSum = k[2], !.blockMap = k[3],
                   !.page = p1[1], !.pageError = p1[2], !.pageErrorList = p1[3]] :
        f \in {Null, "b1", "b2"}, b \in {<<0, 0>>, <<1, 0>>, <<2, 5>>},
        k \in {<<0, 0, 0>>, <<8192, 6, 0>>, <<16384, 7, 9>>},
        p1 \in {<<FALSE, FALSE, Null>>, <<TRUE, FALSE, Null>>, <<TRUE, TRUE, Null>>, <<TRUE, TRUE, "[0]">>}}

SampleWith(file, u, n) ==
    [steps |-> n, files |-> <<Plain, file>>, refs |-> <<"b1", "b2", "b3">>,
     path |-> [user |-> u, group |-> "u2", mode |-> {"ur", "uw", "ux"}],
     link |-> [user |-> u, group |-> Null, destination |-> "/old"],
     target |-> [path |-> "/old", type |-> "link", file |-> IF u = "u1" THEN "f" ELSE Null,
                 tablespaceId |-> IF u = "u2" THEN "1" ELSE "0", tablespaceName |-> IF u = "u2" THEN "ts" ELSE Null],
     data |-> [strings |-> [label |-> "b3", prior |-> IF u = "u1" THEN Null ELSE "b2",
                            archiveStart |-> IF u = Null THEN Null ELSE "w1"],
               bools |-> [bundle |-> u = "u1", blockIncr |-> TRUE],
               compressType |-> IF u = "u1" THEN "zst" ELSE IF u = Null THEN "none" ELSE "gz",
               variants |-> [delta |-> IF u = "u1" THEN Null ELSE "true", processMax |-> "1"]]]

\* Each is saved and loaded; some are then updated, saved and loaded again.
MCSamples ==
    {SampleWith(f, f.user, 2) : f \in OwnerFiles \union SizeFiles \union RepoFiles}
    \union {SampleWith(f, f.user, 5) : f \in {f \in OwnerFiles : f.group = Null /\ f.mode = {"ur"}}}

Man == INSTANCE ManifestStore WITH
    Bases <- [user : {Null, "u1"}, group : {"u2"}, mode : {{"ur", "uw", "ux"}, {"ur", "uw", "ux", "gr", "gx"}}],
    Samples <- MCSamples,
    Updates <- {[size |-> 0, sum |-> "zero", sizeRepo |-> 0, copy |-> FALSE, bundleId |-> 0, bundleOffset |-> 0],
                [size |-> 4, sum |-> "s2", sumRepo |-> "s1", sizeRepo |-> 2, bundleId |-> 3, bundleOffset |-> 1,
                 reference |-> Null, page |-> TRUE, pageError |-> TRUE, pageErrorList |-> "[1]"]}

(* Queues: pg_control, a file of the data directory with any fate, one of a tablespace, and one of the data
   directory that is always taken from the primary.  Bundles hold less than seven bytes, and
   files above three are not bundled. *)
QueueFile(target, primary, size, size2, time, reference, fate) ==
    [target |-> target, primary |-> primary, size |-> size, sizeOriginal |-> size2, time |-> time, reference |-> reference,
     copy |-> TRUE, fate |-> fate, bundleId |-> 0, bundleOffset |-> 0]

MCManifest(s, size2, ref, fate, s3, s4) ==
    <<QueueFile(1, TRUE, 1, 1, 2, FALSE, "changed"), QueueFile(1, FALSE, s, size2, 1, ref, fate),
      QueueFile(2, FALSE, s3, s3, 3, FALSE, "changed"), QueueFile(1, TRUE, s4, s4, 3, FALSE, "changed")>>

MCManifests ==
    {MCManifest(s, size2, ref, fate, s3, s4) :
        s \in {1, 3, 5}, size2 \in {1, 3, 5}, ref \in BOOLEAN, fate \in {"same", "changed", "shrunk", "truncated", "gone"},
        s3 \in {1, 3}, s4 \in {3, 5}}

\* Only with a reference is the size that of the prior backup.
QueueManifests == {m \in MCManifests : m[2].size # m[2].sizeOriginal => m[2].reference}

(* WAL: the last segment of a log and the first ones of the next, one of them archived by another cluster too. *)
WalFile(log, n, kind, sum, type) == [seg |-> <<log, n>>, kind |-> kind, sum |-> sum, type |-> type]
MCArrivals ==
    {WalFile(0, 1, "wal", 1, "gz"), WalFile(1, 0, "wal", 1, "none"), WalFile(1, 0, "wal", 2, "gz"),
     WalFile(1, 0, "partial", 1, "none"), WalFile(1, 1, "wal", 1, "gz")}

Cop == INSTANCE BackupCopy WITH
    Manifests <- QueueManifests, Targets <- 2, Modes <- [standby : BOOLEAN, bundle : BOOLEAN], Clients <- 2,
    BundleSize <- 7, BundleLimit <- 3, repo <- stored,
    Arrivals <- MCArrivals, LsnRanges <- {<<4, 4>>, <<4, 13>>}, LogSize <- 8, SegmentSize <- 4,
    CheckRepos <- 2, CopyTypes <- {"gz", "zst"}, MaxRound <- 3, pc <- walPc, file <- walFile

\* The files of the data directory are alike.
Symmetry == Permutations(Files)

-----------------------------------------------------------------------------
Off(v) == v = "off"

MCInit ==
    /\ part \in Parts
    /\ Init /\ (part = "backup" \/ ~delta)
    /\ IF part = "manifest" THEN Man!Init
       ELSE (IF part = "queue" THEN TRUE ELSE Off(manifest)) /\ Off(baseTime) /\ Off(saved) /\ Off(wanted) /\ Off(steps)
    /\ IF part = "queue" THEN Cop!Init
       ELSE Off(mode) /\ Off(queueList) /\ Off(bundleId) /\ Off(client) /\ Off(done) /\ Off(fileRemove) /\ Off(stored)
            /\ Off(from)
    /\ IF part = "wal" THEN Cop!WalInit
       ELSE Off(archive) /\ Off(compress) /\ Off(want) /\ Off(single) /\ Off(find) /\ Off(round) /\ Off(walPc)
            /\ Off(walFile) /\ Off(copied) /\ Off(listing)

MCNext ==
    /\ UNCHANGED part
    /\ \/ part = "backup" /\ Next /\ UNCHANGED <<manifestVars, queueVars, walVars>>
       \/ part = "manifest" /\ Man!Next /\ UNCHANGED <<vars, queueVars, walVars>>
       \/ part = "queue" /\ Cop!Next /\ UNCHANGED <<vars, baseTime, saved, wanted, steps, walVars>>
       \/ part = "wal" /\ Cop!WalNext /\ UNCHANGED <<vars, manifestVars, queueVars>>

MCSpec == MCInit /\ [][MCNext]_mcVars

\* What a backup is made of is there and is what it says: the manifest gives back what was stored in it
\* (info/manifest/store.c.inc, serialize.c.inc), every file is where the manifest says (command/backup/backup.c:1971),
\* and the WAL it needs is in the archive (command/archive/find.c:76).
PartsAreKept ==
    /\ part = "manifest" => Man!ManifestIsKept
    /\ part = "queue" => Cop!FilesAreWhereListed
    /\ part = "wal" => Cop!FoundIsArchived
=============================================================================
