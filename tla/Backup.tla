------------------------------- MODULE Backup -------------------------------
(***************************************************************************)
(* The backup command: pg_backup_start, the manifest built from the data   *)
(* directory, files that reference a prior backup, a failed backup that is *)
(* resumed from backup.manifest.copy, files copied by parallel workers,    *)
(* pg_backup_stop, and the sequence of saves that makes the backup visible.*)
(* The database writes files while all of this happens; the command may    *)
(* end with an error or be killed between any two steps and be run again.  *)
(*                                                                         *)
(* The WAL is the sequence of changes of the database.  The contents of a  *)
(* file is the position of the last change in it, and stands for its       *)
(* checksum too.  All files have the same size unless a change says        *)
(* otherwise; timestamps are seconds of the clock.  Only one command runs  *)
(* at a time (the backup lock, module Lock).                               *)
(***************************************************************************)
EXTENDS Integers, Sequences

CONSTANTS
    Files,           \* names in the manifest
    Types,           \* backup types that are requested
    Sizes,           \* sizes a file may have
    MaxWal,          \* bound on the changes of the database
    MaxNow,          \* bound on the clock
    MaxRuns,         \* bound on the backup commands
    MaxWork,         \* bound on changes and commands together, and on changes and seconds together
    DeltaMayChange,  \* may the delta option differ between two commands?
    None             \* no label, manifest, file or checksum

ASSUME BackupAssumption ==
    /\ Types \subseteq {"full", "diff", "incr"}
    /\ Sizes \subseteq Nat \ {0} /\ Sizes # {}
    /\ MaxWal \in Nat /\ MaxNow \in Nat /\ MaxRuns \in Nat /\ MaxWork \in Nat
    /\ DeltaMayChange \in BOOLEAN

(***************************************************************************)
(* Data.  A file of the data directory; an entry of the manifest, as it is *)
(* saved and with what the command knows of it; a manifest.                *)
(***************************************************************************)
Second == 0 .. MaxNow + 2
Label == Second \X Second
PgFile == [lsn : Nat, ts : Nat, size : Sizes]
SavedEntry == [ts : Nat, size : Nat, orig : Nat, sum : Nat \union {None}, ref : Label \union {None}]
Entry == [ts : Nat, size : Nat, orig : Nat, sum : Nat \union {None}, ref : Label \union {None},
          copy : BOOLEAN, delta : BOOLEAN, resume : BOOLEAN]
Manifest == [type : {"full", "diff", "incr"}, prior : Label \union {None}, start : Nat,
             stop : Nat \union {None}, file : [Files -> SavedEntry \union {None}]]

ASSUME NoneAssumption ==
    None \notin Int \union Label \union PgFile \union SavedEntry \union Entry \union Manifest

VARIABLES
    wal,     \* changes of the database: <<[file, gone]>>
    pg,      \* pg[f]: the file in the data directory, or None
    now,     \* the clock, in seconds
    repo,    \* repo[label]: a directory of the repository
    hist,    \* labels with a manifest in backup.history
    info,    \* labels in backup.info and backup.info.copy
    p,       \* the running command
    delta,   \* the delta option of the command
    runs     \* commands started

vars == <<wal, pg, now, repo, hist, info, p, delta, runs>>
db == <<wal, pg, now>>

Torn == -1                    \* a repository file that was not written to its end
Lsn == Len(wal)

NoFiles == [f \in Files |-> None]

\* The command's state; a field is as it is here where nothing is read from it any more.
Idle == [pc |-> "idle", listed |-> {}, prior |-> None, type |-> "full", start |-> 0, second |-> 0,
         left |-> {}, file |-> NoFiles, copyStart |-> 0, delta |-> FALSE, label |-> None, old |-> NoFiles,
         job |-> [f \in Files |-> "none"], read |-> NoFiles, gone |-> {}, stop |-> 0]

(***************************************************************************)
(* Labels.  A full backup is <<second, 0>>; the others are the second of   *)
(* their full backup and their own.  They sort as their names do.          *)
(***************************************************************************)
Later(a, b) == a[1] > b[1] \/ (a[1] = b[1] /\ a[2] > b[2])

Latest(S) == IF S = {} THEN None ELSE CHOOSE a \in S : \A b \in S \ {a} : Later(a, b)

BackupLabelFormat(type, prior, second) ==
    IF type = "full" THEN <<second, 0>> ELSE <<prior[1], second>>

\* The newest label the new one must follow: the directories, and the history
\* (of the newest directory's full backup only, unless the backup is full).
LabelLatest(type) ==
    LET top == Latest(DOMAIN repo)
    IN  Latest({b \in hist : type = "full" \/ b[1] = top[1]} \union
               (IF top = None THEN {} ELSE {top}))

\* The label of this second, or of the next one; None is a clock error.
BackupLabelCreate(type, prior, second) ==
    LET top == LabelLatest(type)
        ok(l) == top = None \/ Later(l, top)
        this == BackupLabelFormat(type, prior, second)
        next == BackupLabelFormat(type, prior, second + 1)
    IN  IF ok(this) THEN this ELSE IF ok(next) THEN next ELSE None

(***************************************************************************)
(* The database: a change of a file sets its timestamp to the clock.       *)
(***************************************************************************)
Init ==
    /\ wal = <<>> /\ now = 1
    /\ \E size \in Sizes : pg = [f \in Files |-> [lsn |-> 0, ts |-> 0, size |-> size]]
    /\ repo = <<>> /\ hist = {} /\ info = [main |-> {}, copy |-> {}]
    /\ p = Idle /\ delta \in BOOLEAN /\ runs = 0

PgWrite(f) ==
    /\ Lsn < MaxWal /\ Lsn + runs < MaxWork /\ Lsn + now <= MaxWork
    /\ wal' = Append(wal, [file |-> f, gone |-> FALSE])
    /\ \E size \in Sizes : pg' = [pg EXCEPT ![f] = [lsn |-> Lsn + 1, ts |-> now, size |-> size]]
    /\ UNCHANGED <<now, repo, hist, info, p, delta, runs>>

PgRemove(f) ==
    /\ Lsn < MaxWal /\ Lsn + runs < MaxWork /\ Lsn + now <= MaxWork /\ pg[f] # None
    /\ wal' = Append(wal, [file |-> f, gone |-> TRUE])
    /\ pg' = [pg EXCEPT ![f] = None]
    /\ UNCHANGED <<now, repo, hist, info, p, delta, runs>>

Tick ==
    /\ now < MaxNow /\ Lsn + now <= MaxWork
    /\ now' = now + 1
    /\ UNCHANGED <<wal, pg, repo, hist, info, p, delta, runs>>

(***************************************************************************)
(* infoBackupLoadFileReconstruct(): a listed backup without a manifest is  *)
(* dropped with what depends on it, a completed backup that is not listed  *)
(* is added when its prior backup is.                                      *)
(***************************************************************************)
HasMain(b) == b \in DOMAIN repo /\ repo[b].main # None

InfoBackupLoadFileReconstruct(S) ==
    UNION {T \in SUBSET (S \union DOMAIN repo) :
             \A b \in T : HasMain(b) /\ repo[b].main.prior \in T \union {None}}

\* The newest listed backup, or the newest full one for a diff.
BackupBuildIncrPrior(type, listed) ==
    Latest({b \in listed : type = "incr" \/ (type = "diff" /\ b[2] = 0)})

\* cmdBackup() up to pg_backup_start(): without a prior backup the type is full.
BackupStart ==
    /\ p.pc = "idle" /\ runs < MaxRuns /\ Lsn + runs < MaxWork
    /\ \E type \in Types, d \in BOOLEAN :
        /\ d = delta \/ DeltaMayChange
        /\ LET listed == InfoBackupLoadFileReconstruct(info.main)
               prior == BackupBuildIncrPrior(type, listed)
           IN  p' = [Idle EXCEPT !.pc = "build", !.listed = listed, !.prior = prior,
                                 !.type = IF prior = None THEN "full" ELSE type,
                                 !.start = Lsn, !.second = now, !.left = Files]
        /\ delta' = d
    /\ runs' = runs + 1
    /\ UNCHANGED <<db, repo, hist, info>>

\* Aborting is an error thrown or a signal: what is in the repository stays.
Abort ==
    /\ p.pc # "idle"
    /\ p' = Idle
    /\ UNCHANGED <<db, repo, hist, info, delta, runs>>

(***************************************************************************)
(* The manifest: each file is found in the data directory at some moment   *)
(* after pg_backup_start().  Then the second must pass before any file is  *)
(* copied, so that a later change has a later timestamp.                   *)
(***************************************************************************)
ManifestBuildInfo(f) ==
    /\ p.pc = "build" /\ f \in p.left
    /\ p' = [p EXCEPT !.left = @ \ {f},
                      !.file[f] = IF pg[f] = None THEN None
                                  ELSE [ts |-> pg[f].ts, size |-> pg[f].size, orig |-> pg[f].size,
                                        sum |-> None, ref |-> None,
                                        copy |-> TRUE, delta |-> FALSE, resume |-> FALSE]]
    /\ UNCHANGED <<db, repo, hist, info, delta, runs>>

\* backupTime(): the time when the manifest is complete.
BackupTime ==
    /\ p.pc = "build" /\ p.left = {}
    /\ p' = [p EXCEPT !.pc = "wait", !.copyStart = now]
    /\ UNCHANGED <<db, repo, hist, info, delta, runs>>

\* The remainder of the second is slept through.
SecondPassed == now > p.copyStart

\* Timestamps that cannot be trusted to tell whether a file changed.
NeedsDelta(file, prior, copyStart) ==
    \E f \in Files :
        /\ file[f] # None
        /\ \/ file[f].ts > copyStart
           \/ /\ prior[f] # None
              /\ \/ file[f].ts < prior[f].ts
                 \/ file[f].orig # prior[f].orig /\ file[f].ts = prior[f].ts

\* manifestBuildIncr(): a file of the size it had in the prior backup refers to
\* it, and is not even looked at when the timestamp is the same (unless delta).
BuildIncr(e, q, label, d) ==
    IF e = None \/ q = None THEN e
    ELSE IF e.size # q.size THEN e
    ELSE [e EXCEPT !.sum = q.sum, !.ref = IF q.ref = None THEN label ELSE q.ref,
                   !.delta = d, !.copy = d \/ e.ts # q.ts]

\* Delta is also enabled when the timeline or the online option is not that of the
\* prior backup, neither of which is in the model: either may be so.
ManifestBuildIncr ==
    /\ p.pc = "wait" /\ SecondPassed
    /\ \E switched \in {FALSE, p.prior # None} :
       LET prior == IF p.prior = None THEN NoFiles ELSE repo[p.prior].main.file
           d == delta \/ switched \/ NeedsDelta(p.file, prior, p.copyStart)
       IN  p' = [p EXCEPT !.pc = "resume", !.copyStart = 0, !.delta = d,
                          !.file = [f \in Files |-> BuildIncr(p.file[f], prior[f], p.prior, d)]]
    /\ UNCHANGED <<db, repo, hist, info, delta, runs>>

(***************************************************************************)
(* Resume.  The newest directory is resumable when it has a copy of the    *)
(* manifest and no manifest, of a full backup, and the new one is full.    *)
(* Without a manifest and not usable, it is removed, part by part.         *)
(***************************************************************************)
\* As if backup.manifest were not looked for.
UnfinishedByName(b) == b # None
Unfinished(b) == b # None /\ ~HasMain(b)

Resumable(b) == p.type = "full" /\ repo[b].copy # None /\ repo[b].copy.type = "full"

BackupResumeFind ==
    /\ p.pc = "resume"
    /\ LET b == Latest(DOMAIN repo)
       IN  p' = CASE ~Unfinished(b) -> [p EXCEPT !.pc = "label"]
                  [] Unfinished(b) /\ Resumable(b) ->
                        [p EXCEPT !.pc = "clean", !.label = b, !.old = repo[b].copy.file,
                                  !.left = {f \in Files : repo[b].file[f] # None}]
                  [] OTHER -> [p EXCEPT !.pc = "remove", !.label = b]
    /\ UNCHANGED <<db, repo, hist, info, delta, runs>>

StoragePathRemove ==
    /\ p.pc = "remove"
    /\ \/ /\ repo[p.label].copy # None
          /\ repo' = [repo EXCEPT ![p.label].copy = None]
          /\ p' = p
       \/ \E f \in Files :
          /\ repo[p.label].file[f] # None
          /\ repo' = [repo EXCEPT ![p.label].file[f] = None]
          /\ p' = p
       \/ /\ repo[p.label].copy = None /\ \A f \in Files : repo[p.label].file[f] = None
          /\ repo' = [b \in DOMAIN repo \ {p.label} |-> repo[b]]
          /\ p' = [p EXCEPT !.pc = "label"]
    /\ UNCHANGED <<db, hist, info, delta, runs>>

\* As if the timestamp of the resumed file were not compared.
KeepsBySize(e, r) == e # None /\ r # None /\ r.sum # None /\ r.size = e.size

\* May what the failed backup stored stand for this file?
Keeps(e, r) ==
    /\ e # None /\ r # None
    /\ r.sum # None /\ r.size = e.size
    /\ p.delta \/ r.ts = e.ts

BackupResumeClean(f) ==
    /\ p.pc = "clean" /\ f \in p.left
    /\ IF Keeps(p.file[f], p.old[f])
       THEN /\ p' = [p EXCEPT !.left = @ \ {f},
                              !.file[f] = [@ EXCEPT !.sum = p.old[f].sum, !.resume = TRUE, !.delta = p.delta]]
            /\ repo' = repo
       ELSE /\ p' = [p EXCEPT !.left = @ \ {f}]
            /\ repo' = [repo EXCEPT ![p.label].file[f] = None]
    /\ UNCHANGED <<db, hist, info, delta, runs>>

BackupLabel ==
    /\ p.pc = "label"
    /\ LET l == BackupLabelCreate(p.type, p.prior, p.second)
       IN  p' = IF l = None THEN Idle ELSE [p EXCEPT !.pc = "save", !.label = l]
    /\ UNCHANGED <<db, repo, hist, info, delta, runs>>

\* What is saved; the LSN of pg_backup_stop() is not known before it.
ManifestOf(stop) ==
    [type |-> p.type, prior |-> p.prior, start |-> p.start, stop |-> stop,
     file |-> [f \in Files |-> IF p.file[f] = None THEN None
                               ELSE [ts |-> p.file[f].ts, size |-> p.file[f].size, orig |-> p.file[f].orig,
                                     sum |-> p.file[f].sum, ref |-> p.file[f].ref]]]

Saved(label, m) ==
    [b \in DOMAIN repo \union {label} |->
        IF b \in DOMAIN repo THEN [repo[b] EXCEPT !.copy = IF b = label THEN m ELSE @]
        ELSE [copy |-> m, main |-> None, file |-> NoFiles]]

Queue == {f \in Files : p.file[f] # None /\ p.file[f].copy}

\* The copy is saved before the first file; a backup of no file is an error.
\* Pass one of backupFile() does nothing for a file without delta and resume.
BackupManifestSaveCopy ==
    /\ p.pc = "save" \/ (p.pc = "clean" /\ p.left = {})
    /\ repo' = Saved(p.label, ManifestOf(None))
    /\ p' = IF Queue = {} THEN Idle
            ELSE [p EXCEPT !.pc = "process", !.second = 0, !.old = NoFiles,
                           !.job = [f \in Files |-> IF f \notin Queue THEN "none"
                                                    ELSE IF p.file[f].delta \/ p.file[f].resume
                                                    THEN "check" ELSE "copy"]]
    /\ UNCHANGED <<db, hist, info, delta, runs>>

(***************************************************************************)
(* backupFile() in a worker, in two passes, and its result.                *)
(***************************************************************************)
Match(f) == pg[f].lsn = p.file[f].sum /\ pg[f].size >= p.file[f].size

\* Pass one: the file in the data directory (delta) and the one in the repository (resume).
BackupFileCheck(f) ==
    /\ p.pc = "process" /\ p.job[f] = "check"
    /\ LET e == p.file[f]
           skip == e.delta /\ pg[f] = None
           match == e.delta /\ ~skip /\ Match(f)
           valid == e.resume /\ ~skip /\ (~e.delta \/ match) /\ repo[p.label].file[f] = e.sum
       IN  /\ p' = [p EXCEPT !.job[f] = CASE skip -> "skip"
                                          [] match /\ e.ref # None -> "noop"
                                          [] valid -> "checksum"
                                          [] OTHER -> "copy"]
           /\ repo' = IF skip /\ e.resume THEN [repo EXCEPT ![p.label].file[f] = None] ELSE repo
    /\ UNCHANGED <<db, hist, info, delta, runs>>

Smaller(a, b) == IF a < b THEN a ELSE b

\* Pass two: the file is read up to its size in the manifest.  When its first
\* buffer is all of it and it equals the prior backup's, nothing is written.
BackupFileCopy(f) ==
    /\ p.pc = "process" /\ p.job[f] = "copy"
    /\ \/ /\ pg[f] = None
          /\ p' = [p EXCEPT !.job[f] = "skip"]
          /\ repo' = repo
       \/ /\ pg[f] # None /\ p.file[f].ref # None /\ Match(f)
          /\ p' = [p EXCEPT !.job[f] = "noop"]
          /\ repo' = repo
       \/ /\ pg[f] # None
          /\ p' = [p EXCEPT !.job[f] = "write",
                            !.read[f] = [sum |-> pg[f].lsn, size |-> Smaller(pg[f].size, p.file[f].orig)]]
          /\ repo' = [repo EXCEPT ![p.label].file[f] = Torn]
    /\ UNCHANGED <<db, hist, info, delta, runs>>

BackupFileClose(f) ==
    /\ p.pc = "process" /\ p.job[f] = "write"
    /\ p' = [p EXCEPT !.job[f] = "written"]
    /\ repo' = [repo EXCEPT ![p.label].file[f] = p.read[f].sum]
    /\ UNCHANGED <<db, hist, info, delta, runs>>

BackupJobResult(f) ==
    /\ p.pc = "process" /\ p.job[f] \in {"skip", "noop", "checksum", "written"}
    /\ p' = [p EXCEPT !.job[f] = "none", !.read[f] = None,
                      !.gone = IF p.job[f] = "skip" THEN @ \union {f} ELSE @,
                      !.file[f] = IF p.job[f] = "written"
                                  THEN [@ EXCEPT !.sum = p.read[f].sum, !.size = p.read[f].size, !.ref = None]
                                  ELSE @]
    /\ UNCHANGED <<db, repo, hist, info, delta, runs>>

\* The copy is saved again whenever enough bytes were copied.
BackupProcessSave ==
    /\ p.pc = "process"
    /\ repo' = Saved(p.label, ManifestOf(None))
    /\ UNCHANGED <<db, hist, info, p, delta, runs>>

\* All jobs done: files the database removed leave the manifest, pg_backup_stop().
BackupStop ==
    /\ p.pc = "process" /\ \A f \in Files : p.job[f] = "none"
    /\ p' = [p EXCEPT !.pc = "archive", !.stop = Lsn, !.gone = {}, !.delta = FALSE,
                      !.file = [f \in Files |-> IF f \in p.gone THEN None ELSE p.file[f]]]
    /\ UNCHANGED <<db, repo, hist, info, delta, runs>>

\* backupArchiveCheckCopy() saves the copy, then waits for the WAL; backupComplete()
\* validates and saves it again.
BackupArchiveCheckCopy ==
    /\ p.pc = "archive"
    /\ repo' = Saved(p.label, ManifestOf(p.stop))
    /\ p' = [p EXCEPT !.pc = "main"]
    /\ UNCHANGED <<db, hist, info, delta, runs>>

(***************************************************************************)
(* backupComplete(): backup.manifest.copy becomes backup.manifest, then    *)
(* the history, then backup.info and its copy.                             *)
(***************************************************************************)
CompleteManifest ==
    /\ p.pc = "main"
    /\ \A f \in Files : p.file[f] # None => p.file[f].sum # None
    /\ repo' = [repo EXCEPT ![p.label].main = repo[p.label].copy]
    /\ p' = [Idle EXCEPT !.pc = "history", !.listed = p.listed, !.label = p.label]
    /\ UNCHANGED <<db, hist, info, delta, runs>>

CompleteHistory ==
    /\ p.pc = "history"
    /\ hist' = hist \union {p.label}
    /\ p' = [p EXCEPT !.pc = "info", !.listed = @ \union {p.label}]
    /\ UNCHANGED <<db, repo, info, delta, runs>>

CompleteInfo ==
    /\ p.pc = "info"
    /\ info' = [info EXCEPT !.main = p.listed]
    /\ p' = [p EXCEPT !.pc = "infoCopy"]
    /\ UNCHANGED <<db, repo, hist, delta, runs>>

CompleteInfoCopy ==
    /\ p.pc = "infoCopy"
    /\ info' = [info EXCEPT !.copy = p.listed]
    /\ p' = Idle
    /\ UNCHANGED <<db, repo, hist, delta, runs>>

Command ==
    \/ BackupTime \/ ManifestBuildIncr \/ BackupResumeFind \/ StoragePathRemove
    \/ BackupLabel \/ BackupManifestSaveCopy \/ BackupStop \/ BackupArchiveCheckCopy
    \/ CompleteManifest \/ CompleteHistory \/ CompleteInfo \/ CompleteInfoCopy
    \/ \E f \in Files :
        \/ ManifestBuildInfo(f) \/ BackupResumeClean(f)
        \/ BackupFileCheck(f) \/ BackupFileCopy(f) \/ BackupFileClose(f) \/ BackupJobResult(f)

Next ==
    \/ \E f \in Files : PgWrite(f) \/ PgRemove(f)
    \/ Tick \/ BackupStart \/ Abort \/ BackupProcessSave \/ Command

Spec == Init /\ [][Next]_vars

(***************************************************************************)
(* Properties.                                                             *)
(***************************************************************************)
\* The position i holds all changes of f up to the position n of the WAL.
Covers(f, i, n) == \A j \in 1 .. n : wal[j].file = f => j <= i

\* At start f did not exist, or it was changed until stop.
Missing(f, start, stop) ==
    \E i \in 1 .. stop : wal[i].file = f /\ (i > start \/ (wal[i].gone /\ Covers(f, i, start)))

\* Replaying the WAL from start to stop over the stored files gives the database
\* at stop: every stored file is found where the manifest says, is what the
\* manifest says, and holds all changes before start and none after stop; a file
\* the manifest does not have did not exist at start or was changed until stop.
Restorable(b) ==
    LET m == repo[b].main
        stored(f) == IF m.file[f].ref = None THEN b ELSE m.file[f].ref
    IN  \A f \in Files :
            IF m.file[f] = None THEN Missing(f, m.start, m.stop)
            ELSE /\ stored(f) \in DOMAIN repo
                 /\ repo[stored(f)].file[f] = m.file[f].sum
                 /\ Covers(f, m.file[f].sum, m.start) /\ m.file[f].sum <= m.stop

\* Every backup listed in backup.info or its copy is complete and can be restored
\* (backup.c, backupComplete()), whatever the database changed meanwhile, and
\* however often the command died and was resumed before.
ListedIsRestorable ==
    \A b \in info.main \union info.copy : HasMain(b) /\ Restorable(b)

\* A backup that has its backup.manifest is never changed or removed by a later
\* backup command, listed or not (backupResumeFind(), backupLabelCreate()).
CompletedIsKept ==
    [][\A b \in DOMAIN repo : HasMain(b) =>
            b \in DOMAIN repo' /\ repo'[b].main = repo[b].main /\ repo'[b].file = repo[b].file]_vars

=============================================================================
