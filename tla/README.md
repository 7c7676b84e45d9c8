# A TLA+ verification project for pgBackRest

pgBackRest backs up PostgreSQL clusters, archives their WAL and restores both.
It is a set of short-lived processes: every command is a process of its own,
commands start further processes (a detached background process, local workers,
remotes over ssh or tls), and almost all state lies in files that several of
them read and write. What is hard about it is therefore rarely in one function:
it is between processes, between two writes of one process that may be killed in
between, and in long chains of legal calls. The modules here model those parts,
TLC checks them on small instances, and TLAPS proves the most important results
for instances of any size.

`PROJECT.json` lists components, runs, mutants, the map from definitions to
source lines, findings, hazards and theorems. Paths below are relative to
`src/src`.

## 1. Inventory

| Component | State it keeps | Operations | Shares with |
|---|---|---|---|
| Command locks (`common/lock.c`, `command/lock.c`) | lock files, the process's `lockList`, `held` | acquire one file per type and repository, read, write progress, release | every command, `info`, `stop --force` |
| Stop, start, exit (`command/control`, `command/exit.c`) | stop files | create, remove, test; SIGTERM to lock holders; release on exit | locks |
| archive-push (`command/archive/push`) | `.ok`, `.error`, `global.error` in the spool | foreground polls and forks; background lists ready segments, drops over the limit, checks, pushes to all repositories | PostgreSQL's `archive_status`, repositories, lock, workers |
| archive-get (`command/archive/get`) | segments and status files in the spool queue | foreground looks, moves, prunes the queue and forks; background searches and fetches a window | PostgreSQL's recovery, repositories, lock, workers |
| WAL search (`command/archive/find.c`) | a cached listing of one path | find one segment, wait for it | archive-push, archive-get, backup, check |
| Protocol client and server (`protocol/client.c`, `protocol/server.c`) | sessions, at most one queued or stored response each; server sessions | open, request, response, close, cancel, free; handlers with retries | remotes and local workers |
| Parallel executor (`protocol/parallel.c`) | job list, job per client | wait with select, collect, give jobs | archive-push, archive-get, backup, restore, verify |
| Protocol helper (`protocol/helper.c`), local, remote and server commands | started processes and their clients | start, keep alive, free | protocol |
| backup (`command/backup`) | manifest and its copy, repository files | start, resume, copy, save the manifest, stop, wait for WAL, add to `backup.info` | executor, db, info files, expire |
| Block incremental (`command/backup/block*.c`, `command/restore/block*.c`) | block maps | build, read, delta | backup, restore |
| Page checksums (`command/backup/pageChecksum.c`) | pages in error | check, look again, report | backup |
| restore (`command/restore`) | the data directory | validate, clean, fetch, recovery settings, `pg_control` last | executor, manifest |
| expire (`command/expire`) | `backup.info`, backup and archive paths | retention of backups and of the WAL they need | info files, repositories |
| verify (`command/verify`) | results per archive and backup | jobs over files, what they add up to | executor, repositories |
| stanza-create, -upgrade, -delete (`command/stanza`) | `archive.info`, `backup.info` | create, upgrade, delete | info files, locks, stop files |
| Info files, manifest (`info`) | file and copy, database history | save both, load either | nearly all |
| info, check, annotate, manifest, repo, help | none of their own | read and report | repositories |
| Storage (`storage`) | files, temporary files, parts of an upload | atomic write, read, list, remove, sync | all |
| http, tls, sockets, io filters (`common/io`) | connections, buffers | request with retries, filters | storage drivers, protocol |
| Errors, memory contexts (`common/error`, `common/memContext.c`) | stacks | try, catch, finally; free with callbacks | all |
| Configuration (`config`) | option values | parse, resolve dependencies and defaults | all |
| Database and PostgreSQL interface (`db`, `postgres`) | connections, what a cluster said | choose primary and standby, wait for replay, ping | backup, check, stanza |
| Data types, json, pack, compression, ciphers (`common`) | - | conversions | all |

What makes these correct:

* a lock file means a running command of this invocation and no other; nothing is
  left locked by a process that died;
* PostgreSQL may recycle a segment only when every repository has it, each ready
  segment is archived in the end, and recovery gets each archived segment in the end;
* a response belongs to the request that waits for it; both ends of a connection
  agree on the open sessions; no call waits for ever;
* every job is run, finished and reported once, and the command ends;
* a listed backup can be restored byte for byte, stays so, is consistent with its WAL,
  and the newest backups can be recovered to any later point;
* a cluster that was restored in part cannot be started;
* the info files can be loaded after a kill at any point and name each database once;
* what was written is read: through filters, drivers, retries, remotes and encodings;
* memory is freed once, and an error leaves the stacks where its handler expects them.

Hard behaviours: two or more processes between any two system calls, spool files
written and read in different orders, processes that are killed and run again, outages
of some repositories, responses that arrive for another session, jobs on workers that
die, polling loops with time-outs, sizes that hit a buffer's end. `PROJECT.json` lists
them as hazards with the line where each bites and the properties that would catch it.

## 2. Modules

An MC module extends one component and instantiates others beside it. The parts do
not share state in it: a behaviour is one of a single part, which the variable `part`
(or the set `Parts` of the cfg) names.

```
MCCommands    Lock, Verify, Stanza
MCCluster     ArchivePush, ArchiveGet, Standby, PageChecksum
Protocol      (its own cfg)
MCTransfer    ProtocolParallel (implements JobPool), Io (filters and connections),
              ObjectStore (with HTTP), RemoteStorage
MCBackup      Backup, ManifestStore, BackupCopy (queues, and the search for WAL)
MCRepository  Expire, BlockIncr, Recovery, Remap (and the choice of databases)
MCLibrary     Restore, Config, Storage (drivers and iterator), PackJson, MemContext,
              Types (encodings, lists, buffers)
NatSets       the first and the last of a set of numbers, and lemmas about them
CommandsProofs (Lock, Stanza), ClusterProofs (ArchivePush, Standby), TransferProofs
(ProtocolParallel, ObjectStore), ProtocolProofs, BackupProofs, RestoreProofs,
ExpireProofs  the proofs of section 4
```

### 2.1 Processes

**Lock.** The lock directory is modelled with inodes, since every race in this code is
about a name and an inode that have parted: `dir` maps a name to an inode, `owner` is
the kernel's flock table, `data` says whose exec id and pid an inode holds. Each process
has the program point `pc`, the files `cmdLockAcquire()` has still to try (`todo`), the
descriptor `lockAcquire()` has open (`fd`), its `lockList` (an inode, the
`LOCK_ON_EXEC_ID` mark or nothing per name) and `held`. One action per system call;
`Crash` is a signal or any other end without a release. Readers (`info` and
`stop --force`) go through `lockRead()`. `TestFirst` tells commands that test the stop
file before they lock (remotes, archive foregrounds) from main commands, which do so
afterwards. JSON is reduced to its writer, and how soon a signal is acted upon is left
open.

**ArchivePush.** `ready`, `done` and `wal` are PostgreSQL's side (external), `ok`, `err`,
`gerr` the spool, `dropped` the segments acknowledged over the queue limit,
`archive[r][s]` the versions of segment `s` in repository `r` (ours, a rival's). The
foreground looks for the ok, the error and the global error file one after the other and
reads the one it found in a further step, takes the lock, removes error files and forks (the
lock is released before the background process has it) and polls until it succeeds or
times out. A background process lists the status files, lists the ready files, and removes
the ok files that have no ready file one by one, by lists that are old by then; PostgreSQL
and the foreground run in between. Then it drops or checks and runs one job per segment. A job is `archivePushFile()`: search each repository, copy to those without the
segment, collecting errors per repository. After `AsyncCrash` the workers of the dead
process go on until `WorkerExit`.

**ArchiveGet.** `archive` and `want` are the repository and what recovery asks for next
(external; `Seek` is a change of mind). `ok[s]` tells a notice that a segment is missing
from a warning about one that was fetched, as the code cannot: both are the same ok file.
The foreground looks for the segment and then for the status, moves the segment, takes
the lock, prunes the queue (`QueueNeed`) and forks. `archiveGetFind()` is reduced to what
it finds.

**Protocol.** One connection with two FIFO channels. A session holds `open`, `queued`,
`stored` and the stored message, whether it is in `sessionList` and whether its memory is
alive; `call` is the client function that waits. `SessionFree` is the free callback: it
drains a queued response, cancels an open session and takes it out of the list. Sessions are
freed in any state. One that is freed with a stored response is cancelled while it still
counts as queued (`stale`), and one whose free throws, because the connection failed or the
drained response was an error, is gone and still in the list; `check` says which of the
client's checks a response failed. Packs are reduced to session, command and type; the retries of a handler are one outcome.

**ProtocolParallel and JobPool.** `Select`, `Collect`, then for each client `NoMore`,
`Assign` or `Busy`, then `Result` for each of the `completed` results. `Dist` is the
callback: which jobs it may give to which client. `JobPool` is the abstract view: a job
starts, finishes and is reported once, and the pool is complete only when all are
reported; `ProtocolParallel` implements it (`ImplementsPool`, with `Phase` and `Over` as
the refinement mapping).

**Verify.** Archives and backups with their files, jobs handed out and results in any
order, `totalFileVerify` and `fileVerifyComplete` as the code counts them. The header of the
first WAL file of an archive is read between two jobs; when that throws the command ends
(`HeaderFails`).

**Stanza.** `archive.info` and `backup.info`, file and copy each, written one after the
other by create, upgrade and delete, killed anywhere, with a PostgreSQL that is upgraded
or replaced in between. `cmd.todo` is what the running command has still to write and
remove; archive-push reads the id it stores under in one step (`PushCheck`) and stores in
another (`PushFile`), without a lock. `orphan` is not state of the program: it records that
a push stored under an id that `archive.info` had lost by then.

**Standby.** Clusters that write, replay, crash, are promoted and follow each other; the
backup command connects, checks, waits for the replay of the start LSN, copies and pings.
Queries are atomic; a time-out is an error. How many clusters there are is chosen at the
start; `MaxWal` bounds the WAL for each number of them.

### 2.2 Backups

**Backup.** One database whose files change while it is copied; directories, manifests,
copies of manifests, `backup.info` and its copy; resume with and without delta; time in
seconds, since what is trusted depends on timestamps. That a timeline switch or a change of
the online option turns delta on is a free choice (`switched`). Bundles and standby backups
are in other modules, offline ones are left out. `BackupCopy` has the
queues, the bundles and the order in which clients take files, and the wait for the
WAL of a backup with the cached listing; `ManifestStore` the packed manifest, its defaults
and what is saved and loaded; `BlockIncr` the block maps and what a restore fetches with
them; `PageChecksum` the page filter.

**Expire.** Backups are numbers, so labels sort by time; a segment is
`<<timeline, number>>` in the archive of a cluster id and `PathSize` segments share a
major path. A command decides first (`ExpireByCount`, `ExpireByTime`, `ExpireOldest`,
`ExpireAdhoc`, whose label need not exist) and then removes one manifest, copy, directory or segment per step;
backups, promotions and upgrades are single steps between commands, WAL arrives at any
time. Sets are given without recursion: `Available` is the largest set of complete
backups closed under their priors, `DependentList` the smallest set that contains a
backup and all that depend on it.

**Restore, Recovery, Remap.** `Restore`: `pg_control` removed and its path synced, cleaning,
copying by workers with data that may be bad, with `--delta` and `--force`, syncs, the rewrite of
`pg_control.tmp` and its rename last; a command ends between any two of these and the host may
crash. Two variables are history: `trusted` has the files that `--delta --force` kept for
their size and time, and `unsynced` says that a command ended after it removed `pg_control` and
before it synced the path, and none has synced it since. `Recovery`: the target timeline and the
recovery settings that earlier restores left. `Remap`: tablespaces and links that move into each
other, and the databases to be zeroed.

### 2.3 Library

`Storage` (atomic writes, lists and removals under kills and crashes of the host, posix
and sftp, whose driver does not look at some failures (`Silent`), and the recursive iterator
over a tree that changes), `ObjectStore` with the HTTP client under it (parts of an upload, reads
with retries, removal in batches), `RemoteStorage` (both ends of the remote driver), `Io` (filter
groups with compression, ciphers, sizes, sinks; connections over several addresses, TLS, ends
without notice), `Config` (precedence, negation, reset, dependencies, groups), `PackJson` and
`Types` (data types against reference definitions), `MemContext` (contexts, the error stack, and
destructors that throw wherever a context is freed).

## 3. Runs

Each property of a passing run has a mutant in `PROJECT.json`: a plausible mistake in
the code it is about, under which TLC finds it violated.

### 3.1 What each run checks, and its bounds

| Run | Checks | Bounds, and why they are enough |
|---|---|---|
| `commands` | `ListAgreesWithKernel`, `HeldCoversLockFiles`, `ReportIsTrue`, `OneDatabasePerId`, `AtMostOneAhead` | Lock: a process that locks two files with `.returnOnNoLock` and one of its invocation that locks one of them, `stop --force` and `info`, two inodes: one has lost its name while another has it. Both properties are proved for any number of processes, files and inodes. Verify: every small repository of two backups, two workers, one error. Stanza: two databases, two changes of PostgreSQL, five commands, two faults: a second upgrade can follow one that died, and a stanza can be deleted and created again under a push that had checked the old one |
| `lock_race` (violation) | `MutualExclusion` | three processes are the least the race takes: one that leaves, one that opened before and one that comes after |
| `verify_valid` (violation) | `ValidIsValid` | two backups of which the second refers to the first, two workers |
| `cluster` | `DoneIsArchived`, `OkStaysForReader`, `CopiedIsConsistent`, `PagesAreReported` | Push: two segments and a limit of one (the queue overflows), two repositories (one can fail), two background processes (one follows another that died), one fault, a rival, both modes. Standby: a primary and two standbys with three WAL records, and a primary and its only standby with five; one promotion and one crash. Three pages in buffers of two: a page at a buffer's end and one that is written meanwhile |
| `archive_live` | `WaitingIsServed` | both archive commands, asynchronous; get: a window of two, several repositories, one fault, one jump of recovery. No rival, whose segment can never be archived |
| `protocol` | `ServerSessionIsOpen`, `InSync`, `CallEnds` | four sessions, one of each kind (opened or not, asynchronous or not), one more request each, one error, one loss |
| `transfer` | `CompletedIsDone`, `ImplementsPool`, `StreamIsExact`, `OwnResponse`, `TransfersAreExact`, `RemovedIsEmpty`, `WorkEnds` | four jobs on three clients of which one has jobs of its own (a backup from a standby), two faults; eleven chains of filters over up to three bytes, with buffers that split them; uploads whose part size grows, with lost connections; three addresses, two with TLS; remote lists of up to three entries, files of up to four units in buffers of two |
| `object_chunk` (violation) | `WorkEnds` | a file handed to the driver in one piece when the part size grows |
| `backup` | `ListedIsRestorable`, `CompletedIsKept`, `PartsAreKept` | two files, three commands, two changes of the files, four seconds, `MaxWork` (4) changes and commands together, and changes and the second together, kills and resumes: enough for a full backup, a resumed one and one that refers to both. Queues: four files, two targets, two clients, bundles that overflow |
| `backup_delta` (violation) | `ListedIsRestorable` | as `backup`, where the delta option may change between attempts |
| `repository` | `AvailableIsConsistent`, `WalKept`, `NothingLeftBehind`, `NewestFullKept`, `BlocksAreRestored`, `RestoreIsFollowed`, `RestoredAsAsked` | Expire: three backups, six segments in paths of two, two timelines, two clusters, two expires, four sets of options. Blocks: three backups of a file of 3 or 7 units, blocks of 2, super blocks of 3 blocks. Recovery: three timelines, two backups, two restores. Three databases and up to three words; two links, two tablespaces |
| `library` | `StartableIsRestored`, `ReplacedIsUntouched`, `PrecedenceHolds`, `FilesAreWhole`, `AnswerIsTrue`, `ItrIsExact`, `ValuesAreExact`, `KeysAreFound`, `ErrorRestores`, `FreedExactlyOnce` | Restore: two restores of any of three backups, one without a `pg_control`, with two workers over an empty data directory or one with a file of none, with and without `--delta` and `--force`, ended anywhere, and a crash of the host. Library: two settings of an option in every place they can have; two operations of the storage at a time over an empty tree or one with the file, kills and crashes; trees of two levels; documents of two levels, with a key that another begins with; three contexts, nested three deep; up to four items in a list that starts with room for two |

Bounds by name: `Inode`, `MaxOps`, `MaxVersion`, `MaxTry`, `MaxBlock`, `MaxList`, `MaxFields`, `MaxTokens`, `MaxSeg`, `MaxFault`, `MaxSeek`, `MaxRequest`, `MaxError`,
`MaxLoss`, `MaxWal`, `MaxCrashes`, `MaxPromotions`, `MaxNow`, `MaxRuns`, `MaxWork`, `MaxBackups`, `MaxTimeline`, `MaxId`,
`MaxExpires`, `MaxSettings`, `KeyMax`, and the slots in `Async`. Background processes are
interchangeable: `cluster` uses them as a symmetry set; so do `commands` inodes and databases,
`backup` files, and `library` processes and workers.

Deadlock is not checked: the models end when all commands have ended or the bounds are
used up, which is right for short-lived processes. That nobody waits for ever is what
the liveness properties say.

### 3.2 Fairness

* `ArchivePush`, `ArchiveGet`: weak fairness of the foreground (PostgreSQL calls the
  command again after a failure), of each background process and of the jobs; strong
  fairness of the time-out, since `waitMore()` ends after archive-timeout however often
  another round comes first. `PatientForeground` states that archive-timeout (a minute by
  default) is longer than it takes a forked process to reach its lock. Without it a
  foreground that gives up at once, again and again, keeps the lock from every process it
  starts. Faults and jumps are bounded, so they come to an end.
* `Protocol`: the client reads while it waits, and a server that runs serves; callers
  and losses are free.
* `ProtocolParallel`: the command's loop runs, and a worker that lives answers in the end
  (it has time-outs of its own).
* `Io`, `ObjectStore`, `RemoteStorage`: weak fairness of their steps. They
  are sequential code that waits only for a peer, and waiting ends with a time-out.

### 3.3 Findings

The four violation runs show disagreements between the code and what its comments or its
help say; `PROJECT.json` quotes the lines.

* `lock_race`: `lockAcquire()` does not check after flock that the name still belongs to
  the inode it locked. A process that opened the file before its holder unlinked it gets
  a lock nobody else can see.
* `backup_delta`: a resumed backup takes checksums over for files of the same size when
  delta is on and saves the manifest before it compares them; killed there and resumed
  without delta, the old bytes are kept under the new timestamp.
* `verify_valid`: files count as verified when their job is handed out, so a backup can
  be marked complete while a result is outstanding, and the next one relies on it.
* `object_chunk`: the part size grows inside the loop that fills the part buffer, which is
  not resized there: the write never ends (S3, Azure, GCS).

Others, met while modelling. Where a module has the behaviour, its property says in its formula
and in its comment where it ends; those are named first.

Modelled, as exceptions of a property:
* `HeldCoversLockFiles`: with several repositories an archive foreground takes several files with
  `.returnOnNoLock`, passes over the ones that are held, and `held` is the result of the last
  (`push.c:372`, `get.c:760`). `command/lock.c:97` means to forbid it, the assertion below it
  only excludes `lockTypeAll`;
* `InSync`, `ServerSessionIsOpen`: a session that is freed with a stored response, which a read
  with read-ahead that is not read to its end is (`restore/file.c:287-368`), is cancelled as if
  nothing were outstanding, and the response to the cancel meets no session (`client.c:468`);
  when the response that is drained is an error no cancel follows and the server keeps the
  session (`client.c:474`);
* `StartableIsRestored`, `ReplacedIsUntouched`: a worker gives a file its size and time before it
  compares the checksum (`restore/file.c:408-410`, `424-430`), so a later `--delta --force` keeps
  a file that is bad; and a restore that ends between the removal of `pg_control` and the sync
  of its path leaves the next one nothing to remove, and so nothing it would sync
  (`clean.c.inc:504-512`);
* `RestoreIsFollowed`: a timeline that left the backup's between its start and its stop is
  accepted (`restore/timeline.c:232-253`), and recovery fails before it is consistent;
* `AnswerIsTrue`: over sftp a list that fails or times out ends where it is, and a removal or an
  open that failed passes for done or missing (`sftp/storage.c:812-842`, `914-920`,
  `sftp/read.c:64-81`); `WrittenIsKept`: sftp replaces a file by unlink and rename;
* `FilesAreWhereListed`: a bundle's size check uses `size`, its sum `sizeOriginal` (`backup.c:2011`,
  `2096`), and the last file may overfill it;
* `OneDatabasePerId`: `stanza/delete.c:5` says that both lock types are taken "so no archive-push
  or backup can be in flight", but a synchronous archive-push to a repository that is not remote
  takes no lock and tests the stop file once, when it begins (`push.c:340`). One that checked
  `archive.info` before the stanza was deleted and stores after it was created again puts
  its file under an id that later becomes another database's. It takes five commands; the
  attempt to prove the property brought it up (`orphan`). Two faults can make an id be used again,
  too;
* `PrecedenceHolds`: a setting of `pg2` alone is skipped without a word, since no index has its
  key (`parse.c:2342-2358`), and one repository that is left of several becomes key 1
  (`2866-2869`);
* `FreedExactlyOnce`: a destructor that throws in `memContextDiscard()` or `memContextClean()`
  leaves its context on the stack, and it is freed again (`memContext.c:1090`, `1239`);
* `ValuesAreExact`: `lstClear` frees the moved start of a list (`list.c:55-76`); `bufCatC` past a
  limit leaves more used than there is (`buffer.c:139-165`); `decodeToBinSizeBase64("")` reads
  before the text (`encode.c:210-221`);
* `KeysAreFound`: `jsonReadKeyExpect` accepts a key that the one asked for begins with
  (`json.c:647`);
* `RestoredAsAsked`: databases that are excluded by name are treated unlike included ones
  (`select.c.inc:335-346`); three file links to one directory and a file link below another
  link's destination are not refused.

Locks and processes:
* between `ftruncate()` and `write()` of a progress update the lock file is empty
  (`lock.c:413`); `stop --force` that reads it then sends no signal, and has removed the
  file;
* a remote tests the stop file before it locks, so `stop --force` can miss it;
* a lock is shared by exec id although its owner may have released it by then;
* a segment just fetched can be reported as not found: the foreground of archive-get
  looks for the segment before the ok file, the background process writes a warning's ok
  file first (`get.c:690`);
* a background process can be started for work that an earlier one has done meanwhile,
  and fails with an error file; `WaitingIsServed` shows that later calls get over it;
* `queueNeed()` removes ok files without a segment, contrary to the comment above it, and
  keeps those of segments it removes.

Backup, restore and repository:
* `find.c:5` speaks of 16 segments, the prefix is 16 characters (256 segments); duplicates
  archived after a directory was listed are not noticed;
* the comment of the comparator of the queues says descending, it is ascending;
* a restore killed between the creation of paths and the save of the manifest makes the next
  `--delta` refuse; a link to a parent of the data directory is not refused;
* an upgrade killed between `archive.info` and its copy leaves a stale copy
  (`stanza/upgrade.c:68-109`); killed and followed by another change of PostgreSQL, an upgrade
  fails for ever.

Library:
* `addrInfoPrefer` prefers the wrong address when a connection that waited completes, and the
  error of a waiting connection skips the next address of the round
  (`socket/client.c:163-243`); `sckServerAccept` leaks its descriptor when `sckOptionSet` throws;
* over plain http a response without a length that is cut off passes for a whole one
  (`response.c:139-145`);
* `memContextMove` does not lower the free index (`memContext.c:954-986`); `bufFind` compares the
  size of the buffer instead of what is used (`buffer.c:210-235`).

## 4. Proofs

Theorems hold for all constants that satisfy the assumptions `LockAssumption`,
`PushAssumption`, `ParallelAssumption`, `ProtocolAssumption`, `BackupAssumption`,
`NoneAssumption`, `RestoreAssumption`, `ExpireAssumption`, `DatabasesAssumption`,
`WalAssumption` and `SlotsAssumption`, which say little more than that names are distinct,
numbers are natural numbers, the clients are finitely many, and the object store model has
at least as many sessions as tasks that can hold one; TLC evaluates them in every run (`RestoreAssumption` as `RestoreConstants` of
`MCLibrary`).

| Theorem | States |
|---|---|
| `LockTypeCorrect`, `LockListAgrees` | `Spec => []LockTypeOK`, `Spec => []ListAgreesWithKernel` |
| `LockHeldCovers` | `Spec => []HeldCoversLockFiles`: all files, or the last one with `.returnOnNoLock` |
| `StanzaAtMostOneAhead`, `StanzaOneDatabasePerId` | `MCSpec => []AtMostOneAhead`, `MCSpec => []OneDatabasePerId`: the formulas the run checks, in the module the run instantiates |
| `PushDoneIsArchived`, `PushOkStaysForReader` | `Spec => []DoneIsArchived`, `Spec => []OkStaysForReader` |
| `StandbyCopiedIsConsistent` | `MCSpec => []CopiedIsConsistent`, for any number of clusters and crashes and one promotion |
| `ObjectOwnResponse` | `MCSpec => []OwnResponse`, for any sessions, tasks and faults |
| `ParallelCompletedIsDone` | `Spec => []CompletedIsDone` |
| `ParallelImplementsPool` | `Spec => ImplementsPool`: the executor implements the job pool |
| `ProtocolInSync`, `ProtocolServerSession` | `Spec => []InSync`, `Spec => []ServerSessionIsOpen`, whatever state sessions are freed in |
| `BackupCompletedIsKept` | `Spec => CompletedIsKept` |
| `BackupListedIsRestorable` | `Spec => []ListedIsRestorable` where the delta option stays the same |
| `RestoreStartableIsRestored`, `RestoreReplacedIsUntouched` | `Spec => []StartableIsRestored`, `Spec => ReplacedIsUntouched`, with `--force` and with kills anywhere; the formulas name the two exceptions |
| `ExpireAvailableIsConsistent`, `ExpireWalKept`, `ExpireNothingLeftBehind` | `Spec => []` of each |
| `ExpireNewestFullKept` | `Spec => NewestFullKept` |

One has a hypothesis about how the code is used, because without it it is false: a delta option
that changes between the attempts is the finding `backup_delta`, whose run shows the violation.
In the others the cases in which the code falls short are behaviours of the model, and the
formulas say what still holds then: the last lock file with `.returnOnNoLock`, sessions that were
not cancelled with a stored response, files that `--delta --force` kept.

Each rests on an inductive invariant (`LockInvariant`, `PushInvariant`, `ParallelInvariant`,
`ProtocolInvariant`, `BackupInvariant`, `RestoreInvariant`, `ExpireInvariant`,
`StanzaInvariant`, `StandbyInvariant`, `ObjectInvariant`), proved with one lemma per action:

* `LockInv` adds to types and agreement what the steps of an acquire know (`Attempting`:
  a file is being tried, it is open, its name is not in the list yet), that the entry
  between unlink and close is a real lock (`Closing`) and that a reader has what it reads
  open (`Probing`). Without `Attempting` an attempt could overwrite an entry and leak its
  lock.
* `StanzaInv` is about the outcome of the running command: the files once it has done what it
  has still to do (`Outcome`; a command writes each file at most once and in one order,
  `Sorted`). `AheadInv`: the files are in step as they are and after each further write
  (`Stages`), so a kill between any two of them is harmless; `InStep` has to say how the
  copies and the other info file stand when a main file is missing, since the next command
  starts from there. `DbInv`: the histories in the files and in the outcome, and the data
  that is stored, give every id one meaning (`OneMeaning`), and none of the ids in use lies
  beyond both histories that a command would load from the outcome (`AllBelow`), so an id
  that `infoPgSet()` assigns is new. Before the first fault all files have one history which the
  command replaces by one other (`Replaces`); that is what a kill or a loss starts from.
* `PushInv` says why an acknowledgement is safe before it is given. The ok files
  (`StatusSafe`) and a foreground about to succeed (`FgSafe`) come before PostgreSQL's
  list, and before those the jobs: a job without an error covers every repository by what
  it found, copied or has still to do (`JobSafe`). It is used that the archive only grows
  (`Grows`).
* `OkInv` is why a foreground can read the ok file it found: a background process lists the ok
  files before the ready files, so one it removes (`Listed`) is of a segment that is done and
  will not be ready again, and a foreground asks only for a segment that is ready. Swapping the
  two lists, or removing without the second, breaks it.
* `StandbyInv` has a part for the clusters: a timeline has one writer (`OneWriter`), and
  whoever has a record of it has what the writer has up to there (`FromWriter`). The record
  that `pg_backup_start()` writes is therefore new to everyone. From then on, while the
  primary is the one the backup is connected to, whoever has a record of its timeline since
  the start follows it and has a prefix of its WAL, and nobody follows another primary that
  has such a record (`Followed`; without the second half a replay could break the first).
  A checkpoint of the standby at or after the start and on the primary's timeline
  (`dbReplayWait()`) makes the standby one of these; the ping of the primary after the copy
  shows that it still is the one it was, and the ping of the standby that it was not promoted
  before it was copied. What was copied then stays a prefix, as WAL is only added to
  (`WalGrows`). One promotion is a real limit, of the code too: when a second standby that
  has replayed the start is promoted while the primary stays up, and the standby that is
  copied, whose old upstream is down, follows that one, it has the start and a checkpoint on
  the primary's timeline, then records of another, and nothing that `dbReplayWait()` or
  `dbPing()` asks tells.
* `ObjectInv` says what the http client does with sessions. A session is kept for reuse once
  and is empty, or carries one request and at most the response to it, or is closed
  (`HttpInv`); a task asks anew only when nothing of its earlier request is out (`TaskInv`).
  That a free session exists when one is opened is a count: there are at least as many sessions as tasks.
* `ParallelInv` relates who has which job (`TodoIsNone`, `ClientJobRuns`, `OneClient`),
  what a round has done so far (`AskedInRound`) and the count (`CompletedCounts`).
  `AskedInRound` is what makes the end right: when the job list is empty after a round, no
  client is left that the callback would give a job.
* `ProtocolInv` accounts for every request under way, every response under way and what
  each session expects: the responses come in the order of the requests, so the one that
  is read is either the caller's or that of an earlier session that still has it queued. A
  session that was cancelled with a stored response is accounted for on its own: what it has
  under way is of no other session, and if it ends the connection it is because its response
  meets no session.
* The backup's invariant has two layers. `RepoInv`: the command works only in a directory
  without a manifest, whose label is later than every other, and what it builds on has a
  manifest; hence completed backups are kept. `DataInv`: every entry of a manifest is
  sound (the repository file has the bytes of the entry) and settled (the database file
  cannot have changed under the entry's timestamp), which holds because files are copied
  only when the clock has passed the second of the copy start; references lead to backups
  that have a manifest and are therefore kept.
* The restore's invariant is about `pg_control` as it is and as a crash of the host would
  bring it back. Unless a removal was left unsynced (`unsynced`), if either exists the command
  has changed nothing yet or has done everything, and what is on disk of the other files is what they are (`ControlInv`); and
  if it is of a backup that backup is there (`RestoredInv`). Until then each file of the
  backup is waiting, in the hands of a worker or right, or kept for its size and time
  (`trusted`, `FilesInv`), so that nothing is
  missing when the workers are done (`DoneInv`). It does not matter that two workers
  could have one file. A crash is harmless because files differ from the disk only when
  there is no `pg_control` that could come back.
* `ExpireInv`: in the order of their labels backups have growing cluster ids and starts
  (`DirOK`), a complete backup depends on a complete one (`ChainOK`) and on the latest it
  could have been based on (`BaseOK`), the WAL it needs is there (`WalOK`), the command
  lists the complete backups and the one it is removing (`ListOK`), and nothing it will
  remove is needed (`RemoveOK`). `ChainOK` makes what a command finds in `backup.info`
  independent of how far the file was written: it is always the complete backups. It
  survives because dependents go newest first (`DependentLeast`, `DependentClosed`). WAL is
  safe because a complete backup either is not later than the retention backup and has a
  range of its own, or is later and starts after it (`NeededKept`).
  On top of it come `LeftOK` (the archives visited hold only what a range covers; paths
  are monotone in segments, which makes it enough to look at single files up to the path
  where the retention backup starts), `FullOK` (each full backup to be expired has one that
  is spared) and `RecoveryOK`: full backups go oldest first and a differential one only
  when a newer one stays (`OrderOK`), the number of backups that keep their WAL is the one
  that is set or at least all that will be left (`RetainOK`), and no segment on the way out
  follows a backup that keeps its WAL (`SegOK`). TLC checked these invariants on the
  instance of `repository` before they were proved. That `RemoveManifest` never takes the
  newest backup of the retention type (`NewestStays`) is the step that needs all of them.

Only model-checked: all liveness properties, since fairness is beyond the prover; the
conversions of the library (`PackJson`, `Types`, `Config`, `ManifestStore`), whose
definitions are recursive over data; and the safety of the other components.

## 5. Not modelled, and what is next

What the models leave out, beyond what section 2 says:

* `Backup`: offline backups, annotations, results of page checksums; resume is always on.
* `Expire`: dry runs, `removeExpiredHistory()` (`expire.c:940-951`), several repositories.
* `Restore`: ownership, the kinds of entries other than files, workers that outlive a killed restore (`restore/file.c:300-410`).
  `Recovery` assumes that PostgreSQL is started right after the restore; backups without an
  LSN and standby options are left out. `Remap` has absolute destinations only.
* `Standby`: only the primary's system id is compared with the stanza (`backup.c:256-264`); a
  standby that follows another branch between two pings is not noticed.
* `Storage`: non-atomic writes, moves and links. Parent paths are never synced
  (`posix/storage.c:402-440`), so a file is promised to survive a crash as long as its path does.
* `ObjectStore`: connections are TLS, as the drivers of the cloud services use them; that a plain
  socket that is cut passes for the end of the content (`response.c:139-145`) is left out, and so
  are signing, tokens and their margins, a late duplicate of a request, and files replaced between
  retries of a read.
* `RemoteStorage`, `Io`: the bytes, the format of compressed blocks,
  certificates, the order of addresses. A filter is what it does to lengths and ends.
* `Config`: deprecated names, the rules of `load.c` but two, the loading of several files.
  `PackJson`: numbers up to 2^14, no skipping of unread arrays.
* `Verify`: the text of its report; files in bundles are taken under their own name.

Left out for good: option tables and help text, xml and strings, the compressed formats,
ciphers, control file layouts and build-time generators. They are conversions of data or
plain I/O, which unit tests reach well.

Proofs to follow: `ErrorRestores` and `FreedExactlyOnce` (`MemContext`), `ReportIsTrue`
(`Verify`).
