----------------------------- MODULE ArchiveGet -----------------------------
(***************************************************************************)
(* Asynchronous archive-get: PostgreSQL's restore_command asks for one WAL *)
(* segment at a time; the foreground process looks for it in the spool and *)
(* starts a background process, which fetches a window of segments ahead   *)
(* of the requested one (command/archive/get, command/archive/common.c).   *)
(*                                                                         *)
(* What must not go wrong: PostgreSQL takes "not found" for the end of the *)
(* archive, so a segment may only be reported as missing when a search of  *)
(* the archive did not find it.                                            *)
(***************************************************************************)
EXTENDS Naturals, FiniteSets, NatSets

CONSTANTS
  MaxSeg,        \* bound: segments that ever reach the archive
  QueueMax,      \* archive-get-queue-max, in segments
  ProcessMax,    \* process-max
  MissingRetry,  \* archive-missing-retry
  MultiRepo,     \* can another repository deliver, with a warning, what one cannot?
  Async,         \* slots for background processes
  FG,            \* the foreground process
  NoLock,        \* value of lock when nobody holds the archive lock
  MaxFault,      \* bound: outages of repositories, and crashes
  MaxSeek        \* bound: times PostgreSQL asks for another segment

GetAssumption ==
  /\ MaxSeg \in Nat \ {0} /\ QueueMax \in Nat
  /\ ProcessMax \in Nat \ {0}
  /\ MaxFault \in Nat /\ MaxSeek \in Nat
  /\ MissingRetry \in BOOLEAN /\ MultiRepo \in BOOLEAN
  /\ FG \notin Async /\ NoLock \notin Async \cup {FG}

Seg == 1 .. MaxSeg

(* The queue holds at least two segments or async would make no sense.     *)
QueueTotal == IF QueueMax < 2 THEN 2 ELSE QueueMax

(* Segments that are asked for: the window goes past the archive's end.    *)
Name == 1 .. (MaxSeg + QueueTotal)

VARIABLES
  archive,  \* segments in the archive
  want,     \* the segment recovery needs next
  spool,    \* segments in the spool
  ok,       \* .ok files: "none", "missing" (no such segment) or "warn"
  err,      \* segments with a .error file
  gerr,     \* is there a global.error file?
  lock,     \* holder of the archive lock
  fg,       \* foreground process
  async,    \* background processes
  faults,   \* outages and crashes still to come
  seeks     \* jumps of recovery still to come

spoolVars == <<spool, ok, err, gerr>>
pgVars == <<archive, want, seeks>>
vars == <<archive, want, spool, ok, err, gerr, lock, fg, async, faults, seeks>>

GetIdle == [pc |-> "idle", seg |-> 0, first |-> TRUE, found |-> FALSE,
            forked |-> FALSE, full |-> FALSE, need |-> {}, why |-> "none"]
AsyncNone == [pc |-> "none", request |-> {}, map |-> {}, flight |-> {},
              warn |-> FALSE, move |-> 0, stop |-> "none", stopSeg |-> 0]

Init ==
  /\ archive = {} /\ want = 1
  /\ spool = {} /\ ok = [s \in Name |-> "none"] /\ err = {} /\ gerr = FALSE
  /\ lock = NoLock
  /\ fg = GetIdle
  /\ async = [a \in Async |-> AsyncNone]
  /\ faults = MaxFault /\ seeks = MaxSeek

-----------------------------------------------------------------------------
(* The archive and PostgreSQL *)

(* Some host pushes a segment; parallel pushes arrive in any order.        *)
ArchiveSegment ==
  /\ \E s \in Seg \ archive : archive' = archive \cup {s}
  /\ UNCHANGED <<want, seeks, spoolVars, lock, fg, async, faults>>

(* Recovery is restarted, or switches to another timeline.                 *)
Seek ==
  /\ fg.pc = "idle" /\ seeks > 0
  /\ \E s \in Seg \ {want} : want' = s
  /\ seeks' = seeks - 1
  /\ UNCHANGED <<archive, spoolVars, lock, fg, async, faults>>

(* restore_command for the segment recovery needs.                         *)
RestoreCommand ==
  /\ fg.pc = "idle" /\ want \in Seg
  /\ fg' = [GetIdle EXCEPT !.pc = "found", !.seg = want]
  /\ UNCHANGED <<pgVars, spoolVars, lock, async, faults>>

(* The command ended. After a failure, and after "not found" on a standby, *)
(* PostgreSQL asks for the same segment again.                             *)
Restored ==
  /\ fg.pc \in {"success", "notfound", "error"}
  /\ want' = IF fg.pc = "success" THEN fg.seg + 1 ELSE want
  /\ fg' = GetIdle
  /\ UNCHANGED <<archive, seeks, spoolVars, lock, async, faults>>

-----------------------------------------------------------------------------
(* Foreground: cmdArchiveGet()                                             *)

(* With archive-async=n, and for history files, there is no spool. With    *)
(* several repositories an outage of one is a warning, and the segment is  *)
(* missing if the others do not have it.                                   *)
SyncGet ==
  /\ fg.pc = "found" /\ fg.first
  /\ \/ /\ fg' = [fg EXCEPT !.pc = IF fg.seg \in archive THEN "success" ELSE "notfound",
                            !.why = IF fg.seg \in archive THEN "none" ELSE "missing"]
        /\ UNCHANGED faults
     \/ /\ faults > 0 /\ faults' = faults - 1
        /\ \/ fg' = [fg EXCEPT !.pc = "error"]
           \/ MultiRepo /\ fg' = [fg EXCEPT !.pc = "notfound", !.why = "missing"]
  /\ UNCHANGED <<pgVars, spoolVars, lock, async>>

(* Is the segment in the spool?                                            *)
GetFound ==
  /\ fg.pc = "found"
  /\ fg' = [fg EXCEPT !.pc = "status", !.found = fg.seg \in spool]
  /\ UNCHANGED <<pgVars, spoolVars, lock, async, faults>>

(* Mutant: errors are thrown in the first round, before a process had a    *)
(* chance to clear them.                                                   *)
GetStatusErrorFirst ==
  LET seg == fg.seg
      okFile == ok[seg] # "none"
      missingRetry == fg.first /\ MissingRetry IN
  /\ fg.pc = "status"
  /\ ok' = [ok EXCEPT ![seg] = "none"]
  /\ fg' = IF okFile /\ ~fg.found /\ ~missingRetry
           THEN [fg EXCEPT !.pc = "notfound", !.why = ok[seg]]
           ELSE IF ~okFile /\ (seg \in err \/ gerr)
           THEN [fg EXCEPT !.pc = "error"]
           ELSE [fg EXCEPT !.pc = IF fg.found THEN "move" ELSE "lock"]
  /\ UNCHANGED <<pgVars, spool, err, gerr, lock, async, faults>>

(* archiveAsyncStatus(), and what is done about its result: an ok file is  *)
(* removed, and without a segment it means missing, except in the first    *)
(* round when a missing segment is to be retried; errors are thrown from   *)
(* the second round on.                                                    *)
GetStatus ==
  LET seg == fg.seg
      okFile == ok[seg] # "none"
      missingRetry == fg.first /\ MissingRetry IN
  /\ fg.pc = "status"
  /\ ok' = [ok EXCEPT ![seg] = "none"]
  /\ fg' = IF okFile /\ ~fg.found /\ ~missingRetry
           THEN [fg EXCEPT !.pc = "notfound", !.why = ok[seg]]
           ELSE IF ~okFile /\ ~fg.first /\ (seg \in err \/ gerr)
           THEN [fg EXCEPT !.pc = "error"]
           ELSE [fg EXCEPT !.pc = IF fg.found THEN "move" ELSE "lock"]
  /\ UNCHANGED <<pgVars, spool, err, gerr, lock, async, faults>>

(* Move the segment to where PostgreSQL wants it, and look how many are    *)
(* left in the queue.                                                      *)
GetMove ==
  /\ fg.pc = "move"
  /\ spool' = spool \ {fg.seg}
  /\ fg' = [fg EXCEPT !.pc = "lock", !.full = 2 * Cardinality(spool') > QueueMax]
  /\ UNCHANGED <<pgVars, ok, err, gerr, lock, async, faults>>

(* Where the loop goes when no process is, or could be, forked.            *)
RoundEnd == IF fg.found THEN "success" ELSE "wait"

(* A background process is wanted once, unless the queue is full enough;   *)
(* cmdLockAcquire(.returnOnNoLock) fails while one is running.             *)
GetLock ==
  LET fork == ~fg.forked /\ ~(fg.found /\ fg.full) IN
  /\ fg.pc = "lock"
  /\ \/ /\ fork /\ lock = NoLock
        /\ lock' = FG
        /\ fg' = [fg EXCEPT !.pc = "queue"]
     \/ /\ ~(fork /\ lock = NoLock)
        /\ fg' = [fg EXCEPT !.pc = RoundEnd]
        /\ UNCHANGED lock
  /\ UNCHANGED <<pgVars, spoolVars, async, faults>>

(* The window: QueueTotal segments from the one requested, or from the     *)
(* next one if that was found.                                             *)
IdealQueue ==
  LET first == IF fg.found THEN fg.seg + 1 ELSE fg.seg IN
  first .. (first + QueueTotal - 1)

(* queueNeed(): remove all that is not in the window, but for the ok files *)
(* of segments that were in the queue, and list what is to be fetched.     *)
QueueNeed ==
  /\ fg.pc = "queue"
  /\ spool' = spool \cap IdealQueue
  /\ ok' = [s \in Name |-> IF s \in spool THEN ok[s] ELSE "none"]
  /\ err' = {} /\ gerr' = FALSE
  /\ fg' = [fg EXCEPT !.pc = "fork", !.need = IdealQueue \ spool]
  /\ UNCHANGED <<pgVars, lock, async, faults>>

(* cmdLockRelease() and cmdAsyncExec().                                    *)
GetFork ==
  /\ fg.pc = "fork"
  /\ \E a \in Async :
       /\ async[a].pc = "none"
       /\ async' = [async EXCEPT ![a] = [AsyncNone EXCEPT !.pc = "start",
                                                          !.request = fg.need]]
  /\ lock' = NoLock
  /\ fg' = [fg EXCEPT !.pc = RoundEnd, !.forked = TRUE, !.need = {}]
  /\ UNCHANGED <<pgVars, spoolVars, faults>>

(* waitMore(): another round...                                            *)
WaitMore ==
  /\ fg.pc = "wait"
  /\ fg' = [fg EXCEPT !.pc = "found", !.first = FALSE]
  /\ UNCHANGED <<pgVars, spoolVars, lock, async, faults>>

(* ...or ArchiveTimeoutError.                                              *)
ArchiveTimeout ==
  /\ fg.pc = "wait"
  /\ fg' = [fg EXCEPT !.pc = "error"]
  /\ UNCHANGED <<pgVars, spoolVars, lock, async, faults>>

(* The foreground process is killed.                                       *)
FgCrash ==
  /\ fg.pc \notin {"idle", "success", "notfound", "error"}
  /\ faults > 0 /\ faults' = faults - 1
  /\ fg' = [fg EXCEPT !.pc = "error"]
  /\ lock' = IF lock = FG THEN NoLock ELSE lock
  /\ UNCHANGED <<pgVars, spoolVars, async>>

-----------------------------------------------------------------------------
(* Background: cmdArchiveGetAsync()                                        *)

(* cfgLoad() takes the archive lock; the process ends when it is held.     *)
AsyncStart(a) ==
  /\ async[a].pc = "start"
  /\ \/ /\ lock = NoLock
        /\ lock' = a
        /\ async' = [async EXCEPT ![a].pc = "check"]
     \/ /\ lock # NoLock
        /\ async' = [async EXCEPT ![a] = AsyncNone]
        /\ UNCHANGED lock
  /\ UNCHANGED <<pgVars, spoolVars, fg, faults>>

(* The segments of a request that come before the first one not found.     *)
FoundPrefix(request, visible) ==
  {s \in request : \A t \in request : t <= s => t \in visible}

(* archiveGetCheck(): load archive.info of each repository and search each *)
(* for the requested segments in order, up to the first that is missing or *)
(* that no repository could be searched for. Errors of some repositories   *)
(* are warnings.                                                           *)
GetCheck(a) ==
  LET request == async[a].request
      Checked(visible, warn, stop) ==
        LET map == FoundPrefix(request, visible) IN
        async' = [async EXCEPT ![a].pc = "work", ![a].map = map, ![a].warn = warn,
                    ![a].stop = IF map = request THEN "none" ELSE stop,
                    ![a].stopSeg = IF map = request THEN 0 ELSE First(request \ map)]
      Failed == async' = [async EXCEPT ![a].pc = "work", ![a].stop = "global"] IN
  /\ async[a].pc = "check"
  /\ \/ /\ request = {}                    \* at least one segment is required
        /\ Failed
        /\ UNCHANGED faults
     \/ /\ request # {}
        /\ Checked(archive, FALSE, "missing")
        /\ UNCHANGED faults
     \/ /\ request # {} /\ faults > 0 /\ faults' = faults - 1
        /\ \/ \E visible \in SUBSET archive :
                \/ MultiRepo /\ Checked(visible, TRUE, "missing")
                \/ \E warn \in {FALSE, MultiRepo} : Checked(visible, warn, "error")
           \/ Failed
  /\ UNCHANGED <<pgVars, spoolVars, lock, fg>>

(* archiveGetAsyncCallback(): an idle worker gets the next segment.        *)
GetJob(a) ==
  /\ async[a].pc = "work" /\ async[a].map # {}
  /\ Cardinality(async[a].flight) < ProcessMax
  /\ LET s == First(async[a].map) IN
       async' = [async EXCEPT ![a].map = @ \ {s}, ![a].flight = @ \cup {s}]
  /\ UNCHANGED <<pgVars, spoolVars, lock, fg, faults>>

(* A worker copied the segment to a temporary file, from the first         *)
(* repository or, with a warning, from another one; the ok file for the    *)
(* warnings is written before the segment gets its name. Or no repository  *)
(* could deliver it.                                                       *)
GetResult(a, s) ==
  /\ async[a].pc = "work" /\ s \in async[a].flight
  /\ \/ /\ ~async[a].warn
        /\ async' = [async EXCEPT ![a].pc = "move", ![a].move = s, ![a].flight = @ \ {s}]
        /\ UNCHANGED <<ok, err, faults>>
     \/ /\ async' = [async EXCEPT ![a].pc = "move", ![a].move = s, ![a].flight = @ \ {s}]
        /\ \/ async[a].warn /\ UNCHANGED faults
           \/ MultiRepo /\ faults > 0 /\ faults' = faults - 1
        /\ ok' = [ok EXCEPT ![s] = "warn"]
        /\ UNCHANGED err
     \/ /\ faults > 0 /\ faults' = faults - 1
        /\ async' = [async EXCEPT ![a].flight = @ \ {s}]
        /\ err' = err \cup {s}
        /\ UNCHANGED ok
  /\ UNCHANGED <<pgVars, spool, gerr, lock, fg>>

(* A worker dies: the parallel executor throws, which is a global error.   *)
GetLost(a) ==
  /\ async[a].pc = "work" /\ async[a].flight # {}
  /\ faults > 0 /\ faults' = faults - 1
  /\ async' = [async EXCEPT ![a].map = {}, ![a].flight = {}, ![a].stop = "global"]
  /\ UNCHANGED <<pgVars, spoolVars, lock, fg>>

GetRename(a) ==
  /\ async[a].pc = "move"
  /\ spool' = spool \cup {async[a].move}
  /\ async' = [async EXCEPT ![a].pc = "work", ![a].move = 0]
  /\ UNCHANGED <<pgVars, ok, err, gerr, lock, fg, faults>>

(* All that was found is fetched: report why the window was not filled.    *)
GetStop(a) ==
  LET s == async[a].stopSeg IN
  /\ async[a].pc = "work" /\ async[a].map = {} /\ async[a].flight = {}
  /\ ok' = IF async[a].stop = "missing" THEN [ok EXCEPT ![s] = "missing"] ELSE ok
  /\ err' = IF async[a].stop = "error" THEN err \cup {s} ELSE err
  /\ gerr' = (gerr \/ async[a].stop = "global")
  /\ async' = [async EXCEPT ![a].pc = "exit"]
  /\ UNCHANGED <<pgVars, spool, lock, fg, faults>>

(* The process ends and its lock is free.                                  *)
GetExit(a) ==
  /\ async[a].pc = "exit"
  /\ async' = [async EXCEPT ![a] = AsyncNone]
  /\ lock' = NoLock
  /\ UNCHANGED <<pgVars, spoolVars, fg, faults>>

(* The background process is killed, or ended by a fatal error, which      *)
(* CATCH_ANY() does not catch: no status file is written.                  *)
AsyncCrash(a) ==
  /\ async[a].pc # "none"
  /\ faults > 0 /\ faults' = faults - 1
  /\ async' = [async EXCEPT ![a] = AsyncNone]
  /\ lock' = IF lock = a THEN NoLock ELSE lock
  /\ UNCHANGED <<pgVars, spoolVars, fg>>

-----------------------------------------------------------------------------
Foreground ==
  \/ RestoreCommand \/ Restored \/ SyncGet \/ GetFound \/ GetStatus \/ GetMove
  \/ GetLock \/ QueueNeed \/ GetFork \/ WaitMore \/ ArchiveTimeout

Background(a) ==
  \/ AsyncStart(a) \/ GetCheck(a) \/ GetJob(a) \/ GetRename(a)
  \/ GetStop(a) \/ GetExit(a)
  \/ \E s \in Name : GetResult(a, s)

Next ==
  \/ ArchiveSegment \/ Seek \/ Foreground \/ FgCrash
  \/ \E a \in Async : Background(a) \/ AsyncCrash(a) \/ GetLost(a)

Spec == Init /\ [][Next]_vars

(* archive-timeout (a minute by default) is longer than a process takes to *)
(* start: a foreground does not give up while one that was forked has not  *)
(* come to its lock yet.                                                   *)
PatientForeground ==
  fg.pc = "wait" /\ fg'.pc = "error" => \A a \in Async : async[a].pc # "start"

(* Processes that can run do run, archive-timeout runs out, PostgreSQL     *)
(* asks again after a failure, and (by the bounds) outages, crashes and    *)
(* jumps come to an end.                                                   *)
FairSpec ==
  /\ Init /\ [][Next /\ PatientForeground]_vars
  /\ WF_vars(Foreground) /\ SF_vars(ArchiveTimeout)
  /\ \A a \in Async : WF_vars(Background(a))

-----------------------------------------------------------------------------
(* Type invariant *)

GetTypeOK ==
  /\ archive \subseteq Seg /\ want \in 1 .. MaxSeg + 1
  /\ spool \subseteq Seg /\ err \subseteq Name /\ gerr \in BOOLEAN
  /\ ok \in [Name -> {"none", "missing", "warn"}]
  /\ lock \in Async \cup {FG, NoLock}
  /\ fg \in [pc : {"idle", "found", "status", "move", "lock", "queue", "fork",
                   "wait", "success", "notfound", "error"},
             seg : Seg \cup {0}, first : BOOLEAN, found : BOOLEAN,
             forked : BOOLEAN, full : BOOLEAN, need : SUBSET Name,
             why : {"none", "missing", "warn"}]
  /\ async \in [Async -> [pc : {"none", "start", "check", "work", "move", "exit"},
                          request : SUBSET Name, map : SUBSET Seg,
                          flight : SUBSET Seg, warn : BOOLEAN,
                          move : Seg \cup {0},
                          stop : {"none", "missing", "error", "global"},
                          stopSeg : Name \cup {0}]]
  /\ faults \in Nat /\ seeks \in Nat

-----------------------------------------------------------------------------
(* Safety and liveness *)

(* The segment recovery waits for, once archived, is delivered in the end  *)
(* (or recovery goes elsewhere), whatever error files, stale queues and    *)
(* notices earlier runs left in the spool.                                 *)
ArchivedIsDelivered ==
  \A s \in Seg : (want = s /\ s \in archive) ~> want # s
=============================================================================
