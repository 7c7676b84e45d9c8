------------------------------- MODULE Verify -------------------------------
(***************************************************************************)
(* The verify command: which files it has checked by the local workers, in *)
(* which order results come back, and what it reports.  Nothing in the     *)
(* repository is changed.                                                  *)
(*                                                                         *)
(* The jobs come from a callback of the parallel executor, which asks for  *)
(* the next ones before the command has looked at the results that just    *)
(* arrived.                                                                *)
(***************************************************************************)
EXTENDS Integers, Sequences, FiniteSets, SequencesExt

CONSTANTS
    Repos,       \* repositories to check
    Workers,     \* process-max
    PathSize,    \* WAL segments in a path
    MaxErrors,   \* bound on jobs that end with an error of their own
    None

(***************************************************************************)
(* A repository has:                                                       *)
(*   info       info.backup and info.archive: which of "main" and "copy"   *)
(*              can be loaded                                              *)
(*   history    history of archive.info, the last entry being current      *)
(*   history2   history of backup.info                                     *)
(*   wal        wal[a]: the files of an archive id, [tl, n, copy, state]   *)
(*   label      labels of the backups on disk                              *)
(*   listed     labels of the backups in backup.info                       *)
(*   manifest   manifest[l]: [main, copy, pg, bundle, block, wal, file]    *)
(*   state      state[<<l, name>>]: what a check of the file finds         *)
(*   set        the label given with --set, or None                        *)
(***************************************************************************)
VARIABLES
    repo,      \* the repository
    pc,        \* where the command is
    data,      \* VerifyJobData
    jobs,      \* jobList of the executor, in the order in which they were given
    client,    \* the client to be asked next for a job
    errors     \* jobs that ended with an error of their own

vars == <<repo, pc, data, jobs, client, errors>>

Drop(s) == SubSeq(s, 2, Len(s))
Segment(w) == <<w.tl, w.n>>
WalSegmentNext(s) == <<s[1], s[2] + 1>>
Before(s, t) == s[1] < t[1] \/ (s[1] = t[1] /\ s[2] < t[2])
WalPath(w) == <<w.tl, w.n \div PathSize>>

JobData ==
    [archiveIdList |-> <<>>, walPathList |-> <<>>, walFileList |-> <<>>, backupList |-> <<>>,
     manifestFileIdx |-> 0, currentBackup |-> None, backupProcessing |-> FALSE, jobErrorTotal |-> 0,
     filter |-> None, archiveResult |-> <<>>, backupResult |-> <<>>, job |-> None]

Init ==
    /\ repo \in Repos
    /\ pc = "start" /\ data = JobData /\ jobs = <<>> /\ client = 1 /\ errors = 0

(***************************************************************************)
(* verifyProcess(), up to the parallel executor.                           *)
(***************************************************************************)
Usable(l) == repo.manifest[l].main = "ok" \/ repo.manifest[l].copy = "ok"
ArchiveIds == SetToSortSeq(DOMAIN repo.wal, <)

\* verifyBackupSet(): the WAL and, with block incremental, the backups a set depends on.
NoWal == [start |-> None, stop |-> None]
References(l) == {repo.manifest[l].file[i].ref : i \in DOMAIN repo.manifest[l].file} \ {None}
BackupSet(l) == IF Usable(l) /\ repo.manifest[l].block THEN {l} \union References(l) ELSE {l}
BackupFilter(l) == IF Usable(l) THEN repo.manifest[l].wal ELSE NoWal

\* verifyArchiveInfoFile(), verifyBackupInfoFile(): the main file or else the copy.
VerifyArchiveInfoFile == repo.info.archive # {}
VerifyBackupInfoFile == repo.info.backup # {}

\* verifyPgHistory(): the current entries, then all of them.
VerifyPgHistory == repo.history = repo.history2

History == Range(repo.history)

BackupLabels == IF repo.set = None THEN repo.label \union repo.listed ELSE BackupSet(repo.set)

\* verifySetBackupCheckArchive()
CurrentBackup == LET S == BackupLabels  l == CHOOSE m \in S : \A n \in S : n <= m
                 IN IF S # {} /\ l \notin repo.listed THEN l ELSE None

VerifyProcess ==
    /\ pc = "start"
    /\ IF \/ ~(VerifyBackupInfoFile /\ VerifyArchiveInfoFile /\ VerifyPgHistory)
          \/ repo.set # None /\ repo.set \notin repo.label
       THEN pc' = "done" /\ data' = [data EXCEPT !.jobErrorTotal = 1]
       ELSE /\ pc' = IF DOMAIN repo.wal = {} /\ BackupLabels = {} THEN "done" ELSE "process"
            /\ data' = [data EXCEPT
                    !.archiveIdList = ArchiveIds, !.backupList = SetToSortSeq(BackupLabels, <),
                    !.currentBackup = CurrentBackup, !.backupProcessing = DOMAIN repo.wal = {},
                    !.jobErrorTotal = IF DOMAIN repo.wal \subseteq History THEN 0 ELSE 1,
                    !.filter = IF repo.set = None THEN None ELSE BackupFilter(repo.set)]
    /\ UNCHANGED <<repo, jobs, client, errors>>

(***************************************************************************)
(* verifyArchive(): one round of its loop on the job data d.               *)
(***************************************************************************)
Paths(a) == SetToSortSeq({WalPath(w) : w \in repo.wal[a]}, Before)
WalFiles(a, p) ==
    SetToSortSeq({w \in repo.wal[a] : WalPath(w) = p},
                 LAMBDA v, w : Before(Segment(v), Segment(w)) \/ (Segment(v) = Segment(w) /\ v.copy < w.copy))

Filtered(d, files) ==
    IF d.filter = None THEN files
    ELSE IF d.filter.start = None THEN <<>>
    ELSE SelectSeq(files, LAMBDA w : ~Before(Segment(w), d.filter.start) /\ ~Before(d.filter.stop, Segment(w)))

\* verifyCreateArchiveIdRange(): segments that are there twice are reported and dropped,
\* the others continue the last range or begin one.
Twice(files) == {i \in DOMAIN files : \E j \in DOMAIN files \ {i} : Segment(files[j]) = Segment(files[i])}
Single(files) == LET D == {files[i] : i \in Twice(files)} IN SelectSeq(files, LAMBDA w : w \notin D)
Duplicates(files) == Cardinality({Segment(files[i]) : i \in Twice(files)})

AddToRange(ranges, w) ==
    IF ranges # <<>> /\ WalSegmentNext(ranges[Len(ranges)].stop) = Segment(w)
    THEN [ranges EXCEPT ![Len(ranges)].stop = Segment(w)]
    ELSE Append(ranges, [start |-> Segment(w), stop |-> Segment(w), invalid |-> <<>>])

LoadWal(d) ==
    LET a == Head(d.archiveIdList)  files == Filtered(d, WalFiles(a, Head(d.walPathList)))
        i == Len(d.archiveResult) IN
    [d EXCEPT !.walFileList = Single(files),
              !.jobErrorTotal = @ + Duplicates(files),
              !.archiveResult[i] = [@ EXCEPT !.total = @ + Len(files), !.dups = @ + Cardinality(Twice(files)),
                                             !.ranges = FoldLeft(AddToRange, @, Single(files))]]

NextWal(d) ==
    IF d.walFileList = <<>> THEN [d EXCEPT !.walPathList = Drop(@)]
    ELSE [d EXCEPT !.job = [type |-> "archive", id |-> Head(d.archiveIdList), file |-> Head(d.walFileList)],
                   !.walFileList = Drop(@),
                   !.walPathList = IF Len(d.walFileList) = 1 THEN Drop(@) ELSE @]

ArchiveStarted(d) ==
    LET a == Head(d.archiveIdList) IN
    IF d.archiveResult # <<>> /\ d.archiveResult[Len(d.archiveResult)].id = a THEN d
    ELSE [d EXCEPT !.archiveResult = Append(@, [id |-> a, total |-> 0, valid |-> 0, dups |-> 0, ranges |-> <<>>]),
                   !.walPathList = Paths(a)]

VerifyArchive(d) ==
    LET e == ArchiveStarted(d)
        f == IF e.walPathList = <<>> THEN e ELSE NextWal(IF e.walFileList = <<>> THEN LoadWal(e) ELSE e)
    IN IF f.walPathList = <<>> THEN [f EXCEPT !.archiveIdList = Drop(@)] ELSE f

(***************************************************************************)
(* verifyManifestFile(): the status of a backup whose manifest cannot be   *)
(* used, "valid" when it can.                                              *)
(***************************************************************************)
ManifestStatus(l, current) ==
    LET m == repo.manifest[l] IN
    IF m.main # "ok" /\ current /\ m.main = "missing" THEN "in-progress"
    ELSE IF m.main = "missing" /\ m.copy = "missing" THEN "manifest missing"
    ELSE IF ~Usable(l) \/ m.pg \notin History THEN "invalid"
    ELSE "valid"

(***************************************************************************)
(* verifyBackup(): one round of its loop.                                  *)
(***************************************************************************)
BackupStarted(d) == d.backupResult # <<>> /\ d.backupResult[Len(d.backupResult)].label = Head(d.backupList)

BackupStart(d) ==
    LET l == Head(d.backupList)  status == ManifestStatus(l, d.currentBackup = l) IN
    [d EXCEPT !.backupResult = Append(@, [label |-> l, status |-> status, complete |-> FALSE, verify |-> 0,
                                          valid |-> 0, invalid |-> <<>>,
                                          total |-> IF status = "valid" THEN Len(repo.manifest[l].file) ELSE 0]),
              !.jobErrorTotal = IF status = "invalid" THEN @ + 1 ELSE @,
              !.manifestFileIdx = 0,
              !.backupList = IF status = "valid" THEN @ ELSE Drop(@)]

\* The name a file has in its backup, on its own or as part of a bundle.
RepoPath(l, m, f) == IF m.bundle THEN <<l, "bundle">> ELSE <<l, f.name>>

Checked(d, l, f) == [d EXCEPT !.job =
    [type |-> "backup", id |-> Head(d.backupList), file |-> [state |-> <<l, f.name>>,
     path |-> RepoPath(l, repo.manifest[Head(d.backupList)], f)]]]

\* A file of a backup before whose check is complete is not checked again.
Known(d, f) == {i \in DOMAIN d.backupResult : d.backupResult[i].label = f.ref /\ d.backupResult[i].complete}

FromPrior(d, f) ==
    LET i == Len(d.backupResult)  prior == d.backupResult[CHOOSE j \in Known(d, f) : TRUE]
        found == SelectSeq(prior.invalid, LAMBDA x : x = <<f.ref, f.name>>) IN
    IF found = <<>> THEN [d EXCEPT !.backupResult[i].valid = @ + 1]
    ELSE [d EXCEPT !.backupResult[i] = [@ EXCEPT !.status = "invalid", !.invalid = Append(@, Head(found))]]

BackupFile(d, f) ==
    LET i == Len(d.backupResult)  l == Head(d.backupList) IN
    IF f.empty /\ repo.manifest[l].bundle THEN [d EXCEPT !.backupResult[i].valid = @ + 1]
    ELSE IF f.ref = None THEN Checked(d, l, f)
    ELSE IF Known(d, f) = {} THEN Checked(d, f.ref, f)
    ELSE FromPrior(d, f)

VerifyBackup(d) ==
    LET i == Len(d.backupResult)  e == [d EXCEPT !.backupResult[i].verify = @ + 1] IN
    IF ~BackupStarted(d) THEN BackupStart(d)
    ELSE IF d.backupResult[i].total = 0
    THEN [d EXCEPT !.jobErrorTotal = @ + 1, !.backupResult[i].status = "invalid", !.backupList = Drop(@)]
    ELSE LET f == BackupFile(e, repo.manifest[Head(d.backupList)].file[d.manifestFileIdx + 1]) IN
         [f EXCEPT !.manifestFileIdx = @ + 1,
                   !.backupList = IF d.manifestFileIdx + 1 = d.backupResult[i].total THEN Drop(@) ELSE @]

(***************************************************************************)
(* verifyJobCallback(): rounds of the two loops, until there is a job or   *)
(* nothing is left.                                                        *)
(***************************************************************************)
Running(c) == \E i \in DOMAIN jobs : jobs[i].client = c /\ jobs[i].result = None
NoMore(d) == d.backupProcessing /\ d.backupList = <<>>

Callback ==
    /\ pc = "process" /\ client <= Workers /\ ~Running(client) /\ ~NoMore(data)
    /\ LET d == IF ~data.backupProcessing THEN VerifyArchive(data) ELSE VerifyBackup(data)
           e == [d EXCEPT !.backupProcessing = d.archiveIdList = <<>>] IN
       IF e.job = None THEN data' = e /\ UNCHANGED <<jobs, client>>
       ELSE /\ jobs' = Append(jobs, [job |-> e.job, client |-> client, result |-> None])
            /\ data' = [e EXCEPT !.job = None] /\ client' = client + 1
    /\ UNCHANGED <<repo, pc, errors>>

\* The header of the first WAL file of an archive id gives the segment size.  It cannot
\* be read when the file is not as it should be, or is not read: the command ends there.
HeaderFails ==
    LET d == ArchiveStarted(data)
        files == Filtered(d, WalFiles(Head(d.archiveIdList), Head(d.walPathList))) IN
    /\ pc = "process" /\ client <= Workers /\ ~Running(client) /\ ~data.backupProcessing
    /\ d.walPathList # <<>> /\ d.walFileList = <<>>
    /\ files # <<>> /\ d.archiveResult[Len(d.archiveResult)].total = 0
    /\ files[1].state # "ok" \/ errors < MaxErrors
    /\ pc' = "failed"
    /\ UNCHANGED <<repo, data, jobs, client, errors>>

NextClient ==
    /\ pc = "process" /\ client <= Workers /\ (Running(client) \/ NoMore(data))
    /\ client' = client + 1
    /\ UNCHANGED <<repo, pc, data, jobs, errors>>

\* Then the command takes the results, and select() waits for more.
Take ==
    /\ pc = "process" /\ client > Workers
    /\ pc' = "results"
    /\ UNCHANGED <<repo, data, jobs, client, errors>>

\* verifyFile(), by a worker: what it finds, or an error of its own.
VerifyFile(job) == IF job.type = "backup" THEN repo.state[job.file.state] ELSE job.file.state
Outcomes(job) == {VerifyFile(job)} \union (IF errors < MaxErrors THEN {"other"} ELSE {})

Select ==
    /\ pc = "select"
    /\ \E C \in (SUBSET {c \in 1..Workers : Running(c)}) \ {{}} :
       \E r \in [C -> {"ok", "missing", "checksum", "size", "other"}] :
        LET set == {i \in DOMAIN jobs : jobs[i].client \in C /\ jobs[i].result = None} IN
        /\ \A i \in set : r[jobs[i].client] \in Outcomes(jobs[i].job)
        /\ jobs' = [i \in DOMAIN jobs |-> IF i \in set THEN [jobs[i] EXCEPT !.result = r[jobs[i].client]] ELSE jobs[i]]
        /\ errors' = errors + Cardinality({i \in set : r[jobs[i].client] # VerifyFile(jobs[i].job)})
    /\ errors' <= MaxErrors
    /\ pc' = "process" /\ client' = 1
    /\ UNCHANGED <<repo, data>>

(***************************************************************************)
(* The result of a job, in the order of the job list.                      *)
(***************************************************************************)
\* verifyAddInvalidWalFile(): the first range that does not stop before the segment.
AddInvalidWalFile(ranges, w) ==
    LET i == CHOOSE j \in DOMAIN ranges : /\ ~Before(ranges[j].stop, Segment(w))
                                          /\ \A k \in 1..(j - 1) : Before(ranges[k].stop, Segment(w))
    IN [ranges EXCEPT ![i].invalid = Append(@, w)]

\* verifyLogInvalidResult(): WAL that is missing may have expired and is no error.
LogInvalidResultAny(type, result) == result \notin {"ok", "missing"}
LogInvalidResult(type, result) == result # "ok" /\ ~(type = "archive" /\ result = "missing")

ArchiveResult(d, a, w, result) ==
    LET i == CHOOSE j \in DOMAIN d.archiveResult : d.archiveResult[j].id = a IN
    IF result = "ok" THEN [d EXCEPT !.archiveResult[i].valid = @ + 1]
    ELSE [d EXCEPT !.archiveResult[i].ranges = AddInvalidWalFile(@, w),
                   !.jobErrorTotal = IF LogInvalidResult("archive", result) THEN @ + 1 ELSE @]

BackupResult(d, l, path, result) ==
    LET i == CHOOSE j \in DOMAIN d.backupResult : d.backupResult[j].label = l
        r == d.backupResult[i]
        s == IF result = "ok" THEN [r EXCEPT !.valid = @ + 1]
             ELSE [r EXCEPT !.status = "invalid", !.invalid = Append(@, path)] IN
    [d EXCEPT !.jobErrorTotal = IF LogInvalidResult("backup", result) THEN @ + 1 ELSE @,
              !.backupResult[i] = [s EXCEPT !.complete = @ \/ r.verify = r.total]]

Finished == {i \in DOMAIN jobs : jobs[i].result # None}

Result ==
    LET i == CHOOSE j \in Finished : \A k \in Finished : j <= k
        j == jobs[i].job IN
    /\ pc = "results" /\ Finished # {}
    /\ data' = IF j.type = "archive" THEN ArchiveResult(data, j.id, j.file, jobs[i].result)
               ELSE BackupResult(data, j.id, j.file.path, jobs[i].result)
    /\ jobs' = RemoveAt(jobs, i)
    /\ UNCHANGED <<repo, pc, client, errors>>

ParallelDone ==
    /\ pc = "results" /\ Finished = {}
    /\ pc' = IF jobs = <<>> THEN "done" ELSE "select"
    /\ UNCHANGED <<repo, data, jobs, client, errors>>

Next == VerifyProcess \/ Callback \/ HeaderFails \/ NextClient \/ Take \/ Select \/ Result \/ ParallelDone
Spec == Init /\ [][Next]_vars

(***************************************************************************)
(* Properties                                                              *)
(***************************************************************************)
Done == pc = "done"
Ok(l) == \A i \in DOMAIN repo.manifest[l].file :
            LET f == repo.manifest[l].file[i] IN
            (f.empty /\ repo.manifest[l].bundle) \/ repo.state[<<IF f.ref = None THEN l ELSE f.ref, f.name>>] = "ok"
Wanted(w) == data.filter = None \/ (/\ data.filter.start # None
                                    /\ ~Before(Segment(w), data.filter.start)
                                    /\ ~Before(data.filter.stop, Segment(w)))

(* When verify reports no error, it has checked all it was to check and found it well:
   no backup whose manifest can be used has a file that is not, whichever backup the file
   is kept in, and no WAL segment is corrupt or there twice. *)
CleanIsClean ==
    Done /\ data.jobErrorTotal = 0 =>
        /\ \A l \in BackupLabels : Usable(l) /\ ManifestStatus(l, l = data.currentBackup) # "in-progress" => Ok(l)
        /\ \A a \in DOMAIN repo.wal : \A w \in repo.wal[a] : Wanted(w) =>
            w.state \in {"ok", "missing"} /\ \A v \in repo.wal[a] : Segment(v) = Segment(w) => v = w

(* Every file of a manifest is counted once, as valid or invalid, and so is every WAL
   file, although results come late, in any order, or not at all for a file that was
   checked for another backup. *)
AllAccounted ==
    Done =>
        /\ \A i \in DOMAIN data.backupResult : LET r == data.backupResult[i] IN
            r.verify = r.total /\ r.total = r.valid + Len(r.invalid)
        /\ \A i \in DOMAIN data.archiveResult : LET r == data.archiveResult[i] IN
            r.total = r.valid + r.dups + FoldLeft(LAMBDA n, g : n + Len(g.invalid), 0, r.ranges)

(* The ranges reported for an archive id are its longest runs without a gap, and a WAL
   file that is not valid is listed with the range it belongs to. *)
RangesAreRuns ==
    Done => \A i \in DOMAIN data.archiveResult :
        LET r == data.archiveResult[i].ranges
            W == {w \in repo.wal[data.archiveResult[i].id] : Wanted(w)}
            S == {Segment(w) : w \in {v \in W : \A u \in W : Segment(u) = Segment(v) => u = v}}
            Within(s, g) == ~Before(s, g.start) /\ ~Before(g.stop, s)
        IN /\ \A s \in S : Cardinality({j \in DOMAIN r : Within(s, r[j])}) = 1
           /\ \A j \in DOMAIN r : /\ {r[j].start, r[j].stop} \subseteq S /\ WalSegmentNext(r[j].stop) \notin S
                                  /\ \A s \in S : Within(s, r[j]) /\ s # r[j].stop => WalSegmentNext(s) \in S
                                  /\ \A k \in DOMAIN r[j].invalid : Within(Segment(r[j].invalid[k]), r[j])

(* What verify reports at its end is true of the repository. *)
ReportIsTrue == CleanIsClean /\ AllAccounted /\ RangesAreRuns

(* A backup that is reported as valid has no file that is not, in its own directory or in
   one of a backup before. *)
ValidIsValid ==
    Done => \A i \in DOMAIN data.backupResult :
        data.backupResult[i].status = "valid" => Ok(data.backupResult[i].label)
=============================================================================
