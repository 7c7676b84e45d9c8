---------------------------- MODULE ArchivePush -----------------------------
(***************************************************************************)
(* WAL archiving: PostgreSQL's archiver calls archive-push for one segment *)
(* at a time; in async mode that foreground process polls the spool        *)
(* directory and starts a background process, which pushes every ready     *)
(* segment to all repositories with parallel workers and leaves one status *)
(* file per segment (command/archive/push, command/archive/common.c).      *)
(*                                                                         *)
(* What must not go wrong: PostgreSQL may recycle a segment as soon as     *)
(* archive-push has succeeded for it.                                      *)
(***************************************************************************)
EXTENDS Naturals, FiniteSets, NatSets

CONSTANTS
  Repo,          \* repositories, numbered as in the configuration
  MaxSeg,        \* bound: WAL segments PostgreSQL completes
  Async,         \* slots for background processes
  FG,            \* the foreground process
  NoLock,        \* value of lock when nobody holds the archive lock
  ArchiveAsync,  \* values archive-async may have: it can be changed between calls
  QueueMax,      \* archive-push-queue-max, in segments
  ProcessMax,    \* process-max
  MaxFault,      \* bound: outages of repositories, and crashes
  Rival          \* does another host push the same segments?

ASSUME PushAssumption ==
  /\ Repo \subseteq Nat /\ Repo # {}
  /\ MaxSeg \in Nat /\ MaxFault \in Nat
  /\ FG \notin Async /\ NoLock \notin Async \cup {FG}
  /\ ArchiveAsync \subseteq BOOLEAN /\ Rival \in BOOLEAN

Seg == 1 .. MaxSeg
Pusher == Async \cup {FG}

VARIABLES
  ready,    \* segments with a .ready file in archive_status
  done,     \* segments PostgreSQL knows to be archived and may recycle
  wal,      \* number of segments completed so far
  ok,       \* segments with a .ok file in the spool
  err,      \* segments with a .error file in the spool
  gerr,     \* is there a global.error file?
  dropped,  \* segments acknowledged with the queue-max warning
  lock,     \* holder of the archive lock
  fg,       \* foreground process
  async,    \* background processes
  job,      \* archivePushFile() calls: pusher -> segment -> progress
  archive,  \* repository -> segment -> contents ("ours", "rival") found there
  faults    \* outages still to come

spool == <<ok, err, gerr, dropped>>
pgVars == <<ready, done, wal>>
vars == <<ready, done, wal, ok, err, gerr, dropped, lock, fg, async, job,
          archive, faults>>

NoJob == [st |-> "none", find |-> {}, copy |-> {}, err |-> FALSE]
AsyncNone == [pc |-> "none", okList |-> {}, todo |-> {}, valid |-> {}]
FgIdle == [pc |-> "idle", seg |-> 0, forked |-> FALSE, throw |-> FALSE]

Init ==
  /\ ready = {} /\ done = {} /\ wal = 0
  /\ ok = {} /\ err = {} /\ gerr = FALSE /\ dropped = {}
  /\ lock = NoLock
  /\ fg = FgIdle
  /\ async = [a \in Async |-> AsyncNone]
  /\ job = [x \in Pusher |-> [s \in Seg |-> NoJob]]
  /\ archive = [r \in Repo |-> [s \in Seg |-> {}]]
  /\ faults = MaxFault

-----------------------------------------------------------------------------
(* PostgreSQL *)

(* A segment is completed and gets its .ready file.                        *)
WalSwitch ==
  /\ wal < MaxSeg
  /\ wal' = wal + 1
  /\ ready' = ready \cup {wal + 1}
  /\ UNCHANGED <<done, spool, lock, fg, async, job, archive, faults>>

(* The archiver runs archive_command for the oldest ready segment.         *)
ArchiveCommand ==
  /\ fg.pc = "idle" /\ ready # {}
  /\ \E archiveAsync \in ArchiveAsync :
       fg' = [FgIdle EXCEPT !.pc = IF archiveAsync THEN "poll" ELSE "sync",
                            !.seg = First(ready)]
  /\ UNCHANGED <<pgVars, spool, lock, async, job, archive, faults>>

(* archive_command returned success: .ready becomes .done.                 *)
Acknowledge ==
  /\ fg.pc = "success"
  /\ ready' = ready \ {fg.seg}
  /\ done' = done \cup {fg.seg}
  /\ fg' = FgIdle
  /\ UNCHANGED <<wal, spool, lock, async, job, archive, faults>>

-----------------------------------------------------------------------------
(* Foreground, asynchronous: archiveAsyncStatus() and the polling loop of  *)
(* cmdArchivePush()                                                        *)

(* Where the foreground goes on when it found nothing that ends it.        *)
GoesOn == IF fg.forked THEN "wait" ELSE "lock"

(* Which status file exists? The ok file is looked for first, then the     *)
(* segment's error file, then the global one.                              *)
StatusExists ==
  /\ \/ /\ fg.pc = "poll"
        /\ fg' = [fg EXCEPT !.pc = IF fg.seg \in ok THEN "ok" ELSE "error"]
     \/ /\ fg.pc = "error"
        /\ fg' = [fg EXCEPT !.pc = IF fg.seg \in err THEN "content" ELSE "global"]
     \/ /\ fg.pc = "global"
        /\ fg' = [fg EXCEPT !.pc = IF gerr THEN "globalContent" ELSE GoesOn]
  /\ UNCHANGED <<pgVars, spool, lock, async, job, archive, faults>>

(* The file that was found is read in a further step. A file that is gone  *)
(* by now is an error; one that says that the push failed is thrown only   *)
(* from the second round on.                                               *)
StatusContent ==
  /\ \/ /\ fg.pc = "ok"
        /\ fg' = IF fg.seg \in ok THEN [fg EXCEPT !.pc = "success"] ELSE FgIdle
     \/ /\ fg.pc \in {"content", "globalContent"}
        /\ LET there == IF fg.pc = "content" THEN fg.seg \in err ELSE gerr IN
             fg' = IF fg.throw \/ ~there THEN FgIdle ELSE [fg EXCEPT !.pc = GoesOn]
  /\ UNCHANGED <<pgVars, spool, lock, async, job, archive, faults>>

(* cmdLockAcquire(.returnOnNoLock), and archiveAsyncErrorClear() under it. *)
ForkLock ==
  /\ fg.pc = "lock"
  /\ \/ /\ lock = NoLock
        /\ lock' = FG
        /\ err' = err \ {fg.seg}
        /\ gerr' = FALSE
        /\ fg' = [fg EXCEPT !.pc = "fork"]
     \/ /\ lock # NoLock
        /\ fg' = [fg EXCEPT !.pc = "wait"]
        /\ UNCHANGED <<lock, err, gerr>>
  /\ UNCHANGED <<pgVars, ok, dropped, async, job, archive, faults>>

(* cmdLockRelease() and cmdAsyncExec(): the new process still has to take  *)
(* the lock.                                                               *)
ForkExec ==
  /\ fg.pc = "fork"
  /\ \E a \in Async :
       /\ async[a].pc = "none" /\ \A s \in Seg : job[a][s].st = "none"
       /\ async' = [async EXCEPT ![a] = [AsyncNone EXCEPT !.pc = "start"]]
  /\ lock' = NoLock
  /\ fg' = [fg EXCEPT !.pc = "wait", !.forked = TRUE]
  /\ UNCHANGED <<pgVars, spool, job, archive, faults>>

(* waitMore(): another round...                                            *)
WaitMore ==
  /\ fg.pc = "wait"
  /\ fg' = [fg EXCEPT !.pc = "poll", !.throw = TRUE]
  /\ UNCHANGED <<pgVars, spool, lock, async, job, archive, faults>>

(* ...or ArchiveTimeoutError.                                              *)
ArchiveTimeout ==
  /\ fg.pc = "wait"
  /\ fg' = FgIdle
  /\ UNCHANGED <<pgVars, spool, lock, async, job, archive, faults>>

-----------------------------------------------------------------------------
(* archivePushFile(): one segment to the repositories that passed the      *)
(* check; x is the foreground process or a background one                  *)

(* Mutant: errors of the check are not passed on to the job.               *)
JobNewForgetsErrors(valid) == [st |-> IF valid = {} THEN "done" ELSE "find",
                               find |-> valid, copy |-> {}, err |-> valid = {}]

JobNew(valid) == [st |-> IF valid = {} THEN "done" ELSE "find",
                  find |-> valid, copy |-> {}, err |-> valid # Repo]

(* The next state of a job that looked into, or wrote to, one repository.  *)
JobFound(j, copy, error) ==
  LET r == First(j.find) IN
  [st |-> IF j.find # {r} THEN "find"
          ELSE IF copy \/ j.copy # {} THEN "copy" ELSE "done",
   find |-> j.find \ {r},
   copy |-> IF copy THEN j.copy \cup {r} ELSE j.copy,
   err |-> j.err \/ error]

JobCopied(j, error) ==
  LET r == First(j.copy) IN
  [st |-> IF j.copy = {r} THEN "done" ELSE "copy",
   find |-> {}, copy |-> j.copy \ {r}, err |-> j.err \/ error]

(* A job that threw: nothing more is copied.                               *)
JobThrown == [st |-> "done", find |-> {}, copy |-> {}, err |-> TRUE]

(* Look for the segment in one repository.                                 *)
JobFind(x, s) ==
  LET j == job[x][s]
      there == archive[First(j.find)][s] IN
  /\ j.st = "find"
  /\ \/ /\ there = {}                         \* not there: needs a copy
        /\ job' = [job EXCEPT ![x][s] = JobFound(j, TRUE, FALSE)]
        /\ UNCHANGED faults
     \/ /\ there = {"ours"}                   \* same checksum: nothing to do
        /\ job' = [job EXCEPT ![x][s] = JobFound(j, FALSE, FALSE)]
        /\ UNCHANGED faults
     \/ /\ there = {"rival"}                  \* other checksum: ArchiveDuplicateError
        /\ job' = [job EXCEPT ![x][s] = JobThrown]
        /\ UNCHANGED faults
     \/ /\ there = {"ours", "rival"}          \* several: walSegmentFind() throws
        /\ job' = [job EXCEPT ![x][s] = JobFound(j, FALSE, TRUE)]
        /\ UNCHANGED faults
     \/ /\ faults > 0                         \* the repository cannot be read
        /\ faults' = faults - 1
        /\ job' = [job EXCEPT ![x][s] = JobFound(j, FALSE, TRUE)]
  /\ UNCHANGED <<pgVars, spool, lock, fg, async, archive>>

(* Write to one repository: the file appears when it is closed.            *)
JobCopy(x, s) ==
  LET j == job[x][s]
      r == First(j.copy) IN
  /\ j.st = "copy"
  /\ \/ /\ archive' = [archive EXCEPT ![r][s] = @ \cup {"ours"}]
        /\ job' = [job EXCEPT ![x][s] = JobCopied(j, FALSE)]
        /\ UNCHANGED faults
     \/ /\ faults > 0                         \* open, write or close failed
        /\ faults' = faults - 1
        /\ job' = [job EXCEPT ![x][s] = JobCopied(j, TRUE)]
        /\ UNCHANGED archive
  /\ UNCHANGED <<pgVars, spool, lock, fg, async>>

(* The WAL file cannot be read or its header does not match the stanza.    *)
JobFail(x, s) ==
  /\ job[x][s].st \in {"find", "copy"}
  /\ faults > 0
  /\ faults' = faults - 1
  /\ job' = [job EXCEPT ![x][s] = JobThrown]
  /\ UNCHANGED <<pgVars, spool, lock, fg, async, archive>>

(* Another host with the same stanza pushes the same segment, found and    *)
(* written between any two steps of ours.                                  *)
RivalPush ==
  /\ Rival
  /\ \E r \in Repo, s \in Seg :
       archive' = [archive EXCEPT ![r][s] = @ \cup {"rival"}]
  /\ UNCHANGED <<pgVars, spool, lock, fg, async, job, faults>>

-----------------------------------------------------------------------------
(* Background process: cmdArchivePushAsync()                               *)

(* cfgLoad() takes the archive lock; when it is held the process ends,     *)
(* without a status file.                                                  *)
AsyncStart(a) ==
  /\ async[a].pc = "start"
  /\ \/ /\ lock = NoLock
        /\ lock' = a
        /\ async' = [async EXCEPT ![a].pc = "status"]
     \/ /\ lock # NoLock
        /\ async' = [async EXCEPT ![a] = AsyncNone]
        /\ UNCHANGED lock
  /\ UNCHANGED <<pgVars, spool, fg, job, archive, faults>>

(* The process ends: global.error when something threw, lock released.     *)
AsyncEnd(a, thrown) ==
  /\ gerr' = (gerr \/ thrown)
  /\ async' = [async EXCEPT ![a] = AsyncNone]
  /\ lock' = NoLock

(* archivePushProcessList(), the spool: everything but ok files is removed.*)
(* A stop file, or a spool that cannot be read, is an error before that.   *)
ProcessListStatus(a) ==
  /\ async[a].pc = "status"
  /\ \/ /\ async' = [async EXCEPT ![a].pc = "ready", ![a].okList = ok]
        /\ err' = {} /\ gerr' = FALSE
        /\ UNCHANGED <<lock, faults>>
     \/ /\ faults > 0 /\ faults' = faults - 1
        /\ AsyncEnd(a, TRUE)
        /\ UNCHANGED err
  /\ UNCHANGED <<pgVars, ok, dropped, fg, job, archive>>

(* archivePushProcessList(), PostgreSQL's ready files.                     *)
ProcessListReady(a) ==
  /\ async[a].pc = "ready"
  /\ async' = [async EXCEPT ![a].pc = "remove", ![a].todo = ready]
  /\ UNCHANGED <<pgVars, spool, lock, fg, job, archive, faults>>

(* Mutant: every ok file of the list is removed.                           *)
ProcessListRemoveAll(a) ==
  /\ async[a].pc = "remove"
  /\ ok' = ok \ async[a].okList
  /\ LET todo == async[a].todo \ async[a].okList IN
       IF todo = {}
       THEN AsyncEnd(a, TRUE)
       ELSE /\ async' = [async EXCEPT ![a].pc = "check", ![a].todo = todo]
            /\ UNCHANGED <<gerr, lock>>
  /\ UNCHANGED <<pgVars, err, dropped, fg, job, archive, faults>>

(* Then ok files that were not in that list are removed, one by one; what  *)
(* was in it without an ok file is to be pushed or dropped. An empty list  *)
(* is an AssertError.                                                      *)
ProcessListRemove(a) ==
  LET remove == async[a].okList \ async[a].todo
      todo == async[a].todo \ async[a].okList IN
  /\ async[a].pc = "remove"
  /\ \/ /\ remove # {}
        /\ ok' = ok \ {First(remove)}
        /\ async' = [async EXCEPT ![a].okList = @ \ {First(remove)}]
        /\ UNCHANGED <<gerr, lock>>
     \/ /\ remove = {} /\ todo = {}
        /\ AsyncEnd(a, TRUE)
        /\ UNCHANGED ok
     \/ /\ remove = {} /\ todo # {}
        /\ async' = [async EXCEPT
             ![a].pc = IF Cardinality(todo) > QueueMax THEN "drop" ELSE "check",
             ![a].todo = todo]
        /\ UNCHANGED <<ok, gerr, lock>>
  /\ UNCHANGED <<pgVars, err, dropped, fg, job, archive, faults>>

(* Queue over its maximum: an ok file with a warning for every segment.    *)
AsyncDrop(a) ==
  /\ async[a].pc = "drop"
  /\ \/ /\ async[a].todo # {}
        /\ LET s == First(async[a].todo) IN
             /\ ok' = ok \cup {s}
             /\ dropped' = dropped \cup {s}
             /\ async' = [async EXCEPT ![a].todo = @ \ {s}]
        /\ UNCHANGED <<gerr, lock>>
     \/ /\ async[a].todo = {}
        /\ AsyncEnd(a, FALSE)
        /\ UNCHANGED <<ok, dropped>>
  /\ UNCHANGED <<pgVars, err, fg, job, archive, faults>>

(* archivePushCheck(): the repositories whose archive.info was loaded and  *)
(* matches. An outage can hide any of them.                                *)
CheckedRepos(valid) ==
  \/ valid = Repo /\ UNCHANGED faults
  \/ valid # Repo /\ faults > 0 /\ faults' = faults - 1

AsyncCheck(a) ==
  /\ async[a].pc = "check"
  /\ \E valid \in SUBSET Repo :
       /\ CheckedRepos(valid)
       /\ IF valid = {}
          THEN AsyncEnd(a, TRUE)
          ELSE /\ async' = [async EXCEPT ![a].pc = "work", ![a].valid = valid]
               /\ UNCHANGED <<gerr, lock>>
  /\ UNCHANGED <<pgVars, ok, err, dropped, fg, job, archive>>

InFlight(a) == {s \in Seg : job[a][s].st # "none"}

(* archivePushAsyncCallback(): an idle worker gets the next segment.       *)
AsyncJob(a) ==
  /\ async[a].pc = "work" /\ async[a].todo # {}
  /\ Cardinality(InFlight(a)) < ProcessMax
  /\ LET s == First(async[a].todo) IN
       /\ job' = [job EXCEPT ![a][s] = JobNew(async[a].valid)]
       /\ async' = [async EXCEPT ![a].todo = @ \ {s}]
  /\ UNCHANGED <<pgVars, spool, lock, fg, archive, faults>>

(* A result becomes an ok or an error file, in any order.                  *)
AsyncResult(a, s) ==
  /\ async[a].pc = "work" /\ job[a][s].st = "done"
  /\ job' = [job EXCEPT ![a][s] = NoJob]
  /\ IF job[a][s].err
     THEN err' = err \cup {s} /\ UNCHANGED ok
     ELSE ok' = ok \cup {s} /\ UNCHANGED err
  /\ UNCHANGED <<pgVars, gerr, dropped, lock, fg, async, archive, faults>>

AsyncFinish(a) ==
  /\ async[a].pc = "work" /\ async[a].todo = {} /\ InFlight(a) = {}
  /\ AsyncEnd(a, FALSE)
  /\ UNCHANGED <<pgVars, ok, err, dropped, fg, job, archive, faults>>

(* A worker dies: the parallel executor throws, which is a global error;   *)
(* results of the other workers that were not taken yet are lost.          *)
AsyncLost(a, s) ==
  /\ async[a].pc = "work" /\ job[a][s].st \in {"find", "copy"}
  /\ faults > 0 /\ faults' = faults - 1
  /\ job' = [job EXCEPT ![a][s] = NoJob]
  /\ AsyncEnd(a, TRUE)
  /\ UNCHANGED <<pgVars, ok, err, dropped, fg, archive>>

(* The background process is killed. Its workers finish what they do, but  *)
(* nobody takes their results.                                             *)
AsyncCrash(a) ==
  /\ async[a].pc # "none"
  /\ faults > 0 /\ faults' = faults - 1
  /\ async' = [async EXCEPT ![a] = AsyncNone]
  /\ lock' = IF lock = a THEN NoLock ELSE lock
  /\ UNCHANGED <<pgVars, spool, fg, job, archive>>

WorkerExit(a, s) ==
  /\ async[a].pc = "none" /\ job[a][s].st = "done"
  /\ job' = [job EXCEPT ![a][s] = NoJob]
  /\ UNCHANGED <<pgVars, spool, lock, fg, async, archive, faults>>

-----------------------------------------------------------------------------
(* Foreground, synchronous *)

(* Queue check, archivePushCheck() and the start of archivePushFile().     *)
SyncPush ==
  /\ fg.pc = "sync"
  /\ \/ /\ Cardinality(ready) > QueueMax
        /\ dropped' = dropped \cup {fg.seg}
        /\ fg' = [fg EXCEPT !.pc = "success"]
        /\ UNCHANGED <<job, faults>>
     \/ /\ Cardinality(ready) <= QueueMax
        /\ \E valid \in SUBSET Repo :
             /\ CheckedRepos(valid)
             /\ job' = [job EXCEPT ![FG][fg.seg] = JobNew(valid)]
        /\ fg' = [fg EXCEPT !.pc = "push"]
        /\ UNCHANGED dropped
  /\ UNCHANGED <<pgVars, ok, err, gerr, lock, async, archive>>

SyncResult ==
  /\ fg.pc = "push" /\ job[FG][fg.seg].st = "done"
  /\ fg' = IF job[FG][fg.seg].err THEN FgIdle ELSE [fg EXCEPT !.pc = "success"]
  /\ job' = [job EXCEPT ![FG][fg.seg] = NoJob]
  /\ UNCHANGED <<pgVars, spool, lock, async, archive, faults>>

(* The foreground is killed or finds a stop file, or the archiver dies     *)
(* before it records the success: the segment stays ready and is tried     *)
(* again.                                                                  *)
FgCrash ==
  /\ fg.pc # "idle"
  /\ faults > 0 /\ faults' = faults - 1
  /\ fg' = FgIdle
  /\ lock' = IF lock = FG THEN NoLock ELSE lock
  /\ job' = [job EXCEPT ![FG] = [s \in Seg |-> NoJob]]
  /\ UNCHANGED <<pgVars, spool, async, archive>>

-----------------------------------------------------------------------------
Foreground ==
  \/ ArchiveCommand \/ Acknowledge \/ StatusExists \/ StatusContent
  \/ ForkLock \/ ForkExec \/ WaitMore \/ ArchiveTimeout \/ SyncPush \/ SyncResult

Background(a) ==
  \/ AsyncStart(a) \/ ProcessListStatus(a) \/ ProcessListReady(a)
  \/ ProcessListRemove(a) \/ AsyncDrop(a) \/ AsyncCheck(a) \/ AsyncJob(a) \/ AsyncFinish(a)
  \/ \E s \in Seg : AsyncResult(a, s) \/ WorkerExit(a, s)

Job(x, s) == JobFind(x, s) \/ JobCopy(x, s) \/ JobFail(x, s)

Next ==
  \/ WalSwitch \/ Foreground \/ FgCrash \/ RivalPush
  \/ \E a \in Async : Background(a) \/ AsyncCrash(a) \/ \E s \in Seg : AsyncLost(a, s)
  \/ \E x \in Pusher, s \in Seg : Job(x, s)

Spec == Init /\ [][Next]_vars

(* archive-timeout (a minute by default) is longer than a process takes to *)
(* start: a foreground does not give up while one that was forked has not  *)
(* come to its lock yet.                                                   *)
PatientForeground ==
  fg.pc = "wait" /\ fg'.pc = "idle" => \A a \in Async : async[a].pc # "start"

PatientSpec == Init /\ [][Next /\ PatientForeground]_vars

(* Processes that can run do run, archive-timeout runs out, PostgreSQL     *)
(* calls archive_command again after a failure, and (by MaxFault) outages  *)
(* and crashes come to an end.                                             *)
FairSpec ==
  /\ PatientSpec
  /\ WF_vars(Foreground) /\ SF_vars(ArchiveTimeout)
  /\ \A a \in Async : WF_vars(Background(a))
  /\ \A x \in Pusher, s \in Seg : WF_vars(JobFind(x, s) \/ JobCopy(x, s))

-----------------------------------------------------------------------------
(* Type invariant *)

PgTypeOK == ready \subseteq Seg /\ done \subseteq Seg /\ wal \in 0 .. MaxSeg

SpoolTypeOK ==
  /\ ok \subseteq Seg /\ err \subseteq Seg /\ dropped \subseteq Seg
  /\ gerr \in BOOLEAN
  /\ lock \in Pusher \cup {NoLock}
  /\ faults \in Nat

FgTypeOK ==
  fg \in [pc : {"idle", "poll", "ok", "error", "content", "global", "globalContent",
               "lock", "fork", "wait", "sync", "push", "success"},
         seg : Seg \cup {0}, forked : BOOLEAN, throw : BOOLEAN]

AsyncRec == [pc : {"none", "start", "status", "ready", "remove", "drop", "check", "work"},
             okList : SUBSET Seg, todo : SUBSET Seg, valid : SUBSET Repo]
AsyncTypeOK == async \in [Async -> AsyncRec]

JobRec == [st : {"none", "find", "copy", "done"}, find : SUBSET Repo,
           copy : SUBSET Repo, err : BOOLEAN]
JobTypeOK == job \in [Pusher -> [Seg -> JobRec]]

ArchiveTypeOK == archive \in [Repo -> [Seg -> SUBSET {"ours", "rival"}]]

PushTypeOK ==
  PgTypeOK /\ SpoolTypeOK /\ FgTypeOK /\ AsyncTypeOK /\ JobTypeOK /\ ArchiveTypeOK

-----------------------------------------------------------------------------
(* Safety and liveness *)

Archived(s) == \A r \in Repo : "ours" \in archive[r][s]

(* A segment PostgreSQL may recycle is in every repository, with the       *)
(* contents PostgreSQL wrote, unless it was dropped with a warning because *)
(* the queue was over archive-push-queue-max.                              *)
DoneIsArchived == \A s \in done : Archived(s) \/ s \in dropped

(* The ok file that archiveAsyncStatus() found is still there when its     *)
(* content is read, whatever a background process removes, of lists it     *)
(* made before: PostgreSQL is told of the success, and what was pushed     *)
(* ahead is not lost with a spurious error.                                *)
OkStaysForReader == fg.pc = "ok" => fg.seg \in ok

(* Every segment PostgreSQL has ready is acknowledged in the end, after    *)
(* any number of time-outs and despite outages, crashes and error files    *)
(* left behind by earlier runs.                                            *)
ReadyIsArchived == \A s \in Seg : s \in ready ~> s \in done
=============================================================================
