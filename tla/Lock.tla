-------------------------------- MODULE Lock --------------------------------
(***************************************************************************)
(* Command locks: flock(2) on named lock files (common/lock.c), the        *)
(* command wrapper that acquires one file per lock type and repository     *)
(* (command/lock.c), and the two commands that look at the lock files of   *)
(* other processes: info (a probe) and stop --force (probe, unlink and     *)
(* SIGTERM; command/control).                                              *)
(*                                                                         *)
(* The file system is modelled at the level of inodes, since every race in *)
(* this code is about a directory entry and an inode that have parted.     *)
(***************************************************************************)
EXTENDS Naturals, FiniteSets, NatSets

CONSTANTS
  Proc,            \* processes that take locks (main commands, remotes)
  Reader,          \* processes that only look: info and stop --force
  File,            \* lock file names, numbered in the order of cmdLockList()
  Inode,           \* inodes the lock directory can use
  ExecId,          \* ExecId[p]: the exec id p was given or made
  LockFiles,       \* LockFiles[p]: the files p's command must lock
  ReturnOnNoLock,  \* processes that pass .returnOnNoLock
  TestFirst,       \* processes that call lockStopTest() before they lock
  Progress,        \* processes that call cmdLockWrite() while they work
  Remove,          \* readers that are stop --force (lockRead .remove)
  AllowStart,      \* does the operator run start at some point?
  None,            \* no inode / no process / no lock
  OnExecId         \* the LOCK_ON_EXEC_ID sentinel

ASSUME LockAssumption ==
  /\ File \subseteq Nat
  /\ Proc \cap Reader = {}
  /\ None \notin Proc \cup Reader \cup Inode
  /\ OnExecId \notin Inode \cup {None}
  /\ LockFiles \in [Proc -> (SUBSET File) \ {{}}]
  /\ ReturnOnNoLock \subseteq Proc
  /\ TestFirst \subseteq Proc
  /\ Progress \subseteq Proc
  /\ Remove \subseteq Reader
  /\ AllowStart \in BOOLEAN

VARIABLES
  dir,       \* the lock directory: file name -> inode
  owner,     \* kernel flock table: inode -> process whose open file holds it
  data,      \* contents: inode -> process that last wrote its exec id and pid
  pc,        \* where each process is
  todo,      \* lock files cmdLockAcquire() has still to try
  fd,        \* inode that lockAcquire() has open and has not registered yet
  lockList,  \* lockLocal.lockList: name -> inode, OnExecId or None
  held,      \* cmdLockLocal.held
  stopFile,  \* does the stop file exist?
  term,      \* processes that were sent SIGTERM
  rd         \* state of each reader

fileVars == <<dir, owner, data>>
procVars == <<pc, todo, fd, lockList, held>>
vars == <<dir, owner, data, pc, todo, fd, lockList, held, stopFile, term, rd>>

Holder == Proc \cup Reader

NoLocks == [f \in File |-> None]

(* An inode nothing refers to: free for the file system to use again.      *)
FreeInode(i) ==
  /\ \A f \in File : dir[f] # i
  /\ \A p \in Proc : fd[p] # i /\ \A f \in File : lockList[p][f] # i
  /\ \A r \in Reader : rd[r].fd # i

LockReaderIdle == [pc |-> "idle", todo |-> {}, fd |-> None, pid |-> None]

Init ==
  /\ dir = NoLocks
  /\ owner = [i \in Inode |-> None]
  /\ data = [i \in Inode |-> None]
  /\ pc = [p \in Proc |-> "start"]
  /\ todo = [p \in Proc |-> {}]
  /\ fd = [p \in Proc |-> None]
  /\ lockList = [p \in Proc |-> NoLocks]
  /\ held = [p \in Proc |-> FALSE]
  /\ stopFile = FALSE
  /\ term = {}
  /\ rd = [r \in Reader |-> LockReaderIdle]

-----------------------------------------------------------------------------
(* lockAcquire() and cmdLockAcquire()                                      *)

(* cfgLoad() (main) or cmdRemote() / the archive foreground, which test    *)
(* the stop file first. "poll" is the archive foreground trying again      *)
(* after .returnOnNoLock let an acquire fail.                              *)
CmdLockAcquire(p) ==
  /\ pc[p] \in {"start", "poll"}
  /\ pc' = [pc EXCEPT ![p] = IF pc[p] = "start" /\ p \in TestFirst /\ stopFile
                             THEN "exit" ELSE "open"]
  /\ todo' = [todo EXCEPT ![p] = LockFiles[p]]
  /\ UNCHANGED <<fileVars, fd, lockList, held, stopFile, term, rd>>

(* open(O_RDWR | O_CREAT) of the next file, or the AssertError for a name  *)
(* that is already in the list.                                            *)
LockOpen(p) ==
  /\ pc[p] = "open"
  /\ LET f == First(todo[p]) IN
       \/ /\ lockList[p][f] # None
          /\ pc' = [pc EXCEPT ![p] = "exit"]
          /\ UNCHANGED <<fileVars, fd>>
       \/ /\ lockList[p][f] = None
          /\ dir[f] # None
          /\ fd' = [fd EXCEPT ![p] = dir[f]]
          /\ pc' = [pc EXCEPT ![p] = "flock"]
          /\ UNCHANGED fileVars
       \/ /\ lockList[p][f] = None
          /\ dir[f] = None
          /\ \E i \in Inode :
               /\ FreeInode(i)
               /\ dir' = [dir EXCEPT ![f] = i]
               /\ data' = [data EXCEPT ![i] = None]
               /\ fd' = [fd EXCEPT ![p] = i]
          /\ pc' = [pc EXCEPT ![p] = "flock"]
          /\ UNCHANGED owner
  /\ UNCHANGED <<todo, lockList, held, stopFile, term, rd>>

(* flock(LOCK_EX | LOCK_NB): registers the lock, or goes on to read the    *)
(* exec id of the holder.                                                  *)
LockFlock(p) ==
  /\ pc[p] = "flock"
  /\ LET f == First(todo[p]) IN
       \/ /\ owner[fd[p]] = None
          /\ owner' = [owner EXCEPT ![fd[p]] = p]
          /\ lockList' = [lockList EXCEPT ![p][f] = fd[p]]
          /\ pc' = [pc EXCEPT ![p] = "write"]
       \/ /\ owner[fd[p]] # None
          /\ pc' = [pc EXCEPT ![p] = "read"]
          /\ UNCHANGED <<owner, lockList>>
  /\ UNCHANGED <<dir, data, todo, fd, held, stopFile, term, rd>>

(* Mutant: the results of lockAcquire() are not looked at.                 *)
LockNextHeld(p, result) ==
  LET rest == todo[p] \ {First(todo[p])} IN
  /\ todo' = [todo EXCEPT ![p] = rest]
  /\ fd' = [fd EXCEPT ![p] = None]
  /\ held' = [held EXCEPT ![p] = rest = {}]
  /\ pc' = [pc EXCEPT ![p] = IF rest # {} THEN "open" ELSE IF p \in TestFirst THEN "work" ELSE "test"]

(* The loop of cmdLockAcquire() moves on; held is the result of the LAST   *)
(* file only.                                                              *)
LockNext(p, result) ==
  LET rest == todo[p] \ {First(todo[p])} IN
  /\ todo' = [todo EXCEPT ![p] = rest]
  /\ fd' = [fd EXCEPT ![p] = None]
  /\ IF rest # {}
     THEN /\ pc' = [pc EXCEPT ![p] = "open"]
          /\ UNCHANGED held
     ELSE /\ held' = [held EXCEPT ![p] = result]
          /\ pc' = [pc EXCEPT ![p] = IF ~result THEN "poll"
                                     ELSE IF p \in TestFirst THEN "work"
                                     ELSE "test"]

(* lockWrite() of a lock just acquired. An old file is not truncated, but  *)
(* the reader stops at the end of the new object.                          *)
LockWriteNew(p) ==
  /\ pc[p] = "write"
  /\ data' = [data EXCEPT ![fd[p]] = p]
  /\ LockNext(p, TRUE)
  /\ UNCHANGED <<dir, owner, lockList, stopFile, term, rd>>

(* lockReadData() of a file that could not be locked; nothing in the file  *)
(* is a failure like any other exec id.                                    *)
LockMatchExecId(p) ==
  LET writer == data[fd[p]]
      sibling == writer # None /\ ExecId[writer] = ExecId[p]
      f == First(todo[p]) IN
  /\ pc[p] = "read"
  /\ \/ /\ sibling
        /\ lockList' = [lockList EXCEPT ![p][f] = OnExecId]
        /\ LockNext(p, TRUE)
     \/ /\ ~sibling
        /\ p \in ReturnOnNoLock
        /\ LockNext(p, FALSE)
        /\ UNCHANGED lockList
     \/ /\ ~sibling
        /\ p \notin ReturnOnNoLock
        /\ pc' = [pc EXCEPT ![p] = "exit"]
        /\ fd' = [fd EXCEPT ![p] = None]
        /\ UNCHANGED <<todo, lockList, held>>
  /\ UNCHANGED <<fileVars, stopFile, term, rd>>

-----------------------------------------------------------------------------
(* While the command runs                                                  *)

(* A main command tests the stop file once it holds its locks.             *)
LockStopTest(p) ==
  /\ pc[p] = "test"
  /\ pc' = [pc EXCEPT ![p] = IF stopFile THEN "exit" ELSE "work"]
  /\ UNCHANGED <<fileVars, todo, fd, lockList, held, stopFile, term, rd>>

(* cmdLockWrite(): ftruncate() and then write(), on the first file.        *)
LockTruncate(p) ==
  /\ pc[p] = "work" /\ p \in Progress
  /\ lockList[p][First(LockFiles[p])] \in Inode
  /\ data' = [data EXCEPT ![lockList[p][First(LockFiles[p])]] = None]
  /\ pc' = [pc EXCEPT ![p] = "rewrite"]
  /\ UNCHANGED <<dir, owner, todo, fd, lockList, held, stopFile, term, rd>>

LockRewrite(p) ==
  /\ pc[p] = "rewrite"
  /\ data' = [data EXCEPT ![lockList[p][First(LockFiles[p])]] = p]
  /\ pc' = [pc EXCEPT ![p] = "work"]
  /\ UNCHANGED <<dir, owner, todo, fd, lockList, held, stopFile, term, rd>>

-----------------------------------------------------------------------------
(* cmdLockRelease(), exitSafe() and death                                  *)

(* exit(): the kernel closes every descriptor. No file is removed.         *)
ProcessExit(p) ==
  /\ owner' = [i \in Inode |-> IF owner[i] = p THEN None ELSE owner[i]]
  /\ pc' = [pc EXCEPT ![p] = "dead"]
  /\ todo' = [todo EXCEPT ![p] = {}]
  /\ fd' = [fd EXCEPT ![p] = None]
  /\ lockList' = [lockList EXCEPT ![p] = NoLocks]
  /\ held' = [held EXCEPT ![p] = FALSE]
  /\ UNCHANGED <<dir, data, stopFile, term, rd>>

(* The command is over, or it threw: exitSafe() releases what is held and  *)
(* does nothing when held is false.                                        *)
CmdLockRelease(p) ==
  /\ pc[p] \in {"work", "exit"}
  /\ \/ /\ held[p]
        /\ pc' = [pc EXCEPT ![p] = "release"]
        /\ UNCHANGED <<fileVars, todo, fd, lockList, held, stopFile, term, rd>>
     \/ /\ ~held[p]
        /\ ProcessExit(p)

Listed(p) == {f \in File : lockList[p][f] # None}

(* lockRelease(): for each lock remove the file by NAME...                 *)
LockUnlink(p) ==
  /\ pc[p] = "release" /\ Listed(p) # {}
  /\ LET f == First(Listed(p)) IN
       \/ /\ lockList[p][f] # OnExecId
          /\ dir' = [dir EXCEPT ![f] = None]
          /\ pc' = [pc EXCEPT ![p] = "close"]
          /\ UNCHANGED lockList
       \/ /\ lockList[p][f] = OnExecId
          /\ lockList' = [lockList EXCEPT ![p][f] = None]
          /\ UNCHANGED <<dir, pc>>
  /\ UNCHANGED <<owner, data, todo, fd, held, stopFile, term, rd>>

(* Mutant: the lock leaves the list but its descriptor is not closed.      *)
LockCloseLeaks(p) ==
  /\ pc[p] = "close"
  /\ lockList' = [lockList EXCEPT ![p][First(Listed(p))] = None]
  /\ pc' = [pc EXCEPT ![p] = "release"]
  /\ UNCHANGED <<fileVars, todo, fd, held, stopFile, term, rd>>

(* ...and then close it, which drops the flock.                            *)
LockClose(p) ==
  /\ pc[p] = "close"
  /\ LET f == First(Listed(p)) IN
       /\ owner' = [owner EXCEPT ![lockList[p][f]] = None]
       /\ lockList' = [lockList EXCEPT ![p][f] = None]
  /\ pc' = [pc EXCEPT ![p] = "release"]
  /\ UNCHANGED <<dir, data, todo, fd, held, stopFile, term, rd>>

LockReleased(p) ==
  /\ pc[p] = "release" /\ Listed(p) = {}
  /\ ProcessExit(p)

(* A crash, a lost connection or a signal: exitOnSignal() calls exit()     *)
(* without releasing. Also the end of an archive foreground that gives up  *)
(* polling: exitSafe() finds held false and releases nothing.              *)
Crash(p) ==
  /\ pc[p] \notin {"start", "dead"}
  /\ ProcessExit(p)

-----------------------------------------------------------------------------
(* lockRead() for info and for stop --force                                *)

(* info looks at one file; cmdStop() creates the stop file (or only warns  *)
(* when it is there) and goes through the files it lists.                  *)
ReadBegin(r) ==
  /\ rd[r].pc \in {"idle", "done"}
  /\ \/ /\ r \in Remove
        /\ ~stopFile
        /\ stopFile' = TRUE
        /\ rd' = [rd EXCEPT ![r].pc = "list"]
     \/ /\ r \notin Remove
        /\ \E f \in File : rd' = [rd EXCEPT ![r].pc = "open", ![r].todo = {f}]
        /\ UNCHANGED stopFile
  /\ UNCHANGED <<fileVars, procVars, term>>

StopList(r) ==
  /\ rd[r].pc = "list"
  /\ rd' = [rd EXCEPT ![r].pc = "open", ![r].todo = {f \in File : dir[f] # None}]
  /\ UNCHANGED <<fileVars, procVars, stopFile, term>>

(* The next file; "done" is the state of a stop --force that went through  *)
(* all of them.                                                            *)
ReadNext(r) ==
  [rd[r] EXCEPT !.pc = "open", !.fd = None, !.pid = None,
                !.todo = rd[r].todo \ {First(rd[r].todo)}]

ReadOpen(r) ==
  /\ rd[r].pc = "open"
  /\ rd' = [rd EXCEPT ![r] =
              IF rd[r].todo = {}
              THEN IF r \in Remove THEN [LockReaderIdle EXCEPT !.pc = "done"]
                                   ELSE LockReaderIdle
              ELSE LET f == First(rd[r].todo) IN
                   IF dir[f] = None THEN ReadNext(r)
                   ELSE [rd[r] EXCEPT !.pc = "flock", !.fd = dir[f]]]
  /\ UNCHANGED <<fileVars, procVars, stopFile, term>>

(* The probe takes the flock itself when the holder is gone.               *)
ReadFlock(r) ==
  /\ rd[r].pc = "flock"
  /\ \/ /\ owner[rd[r].fd] = None
        /\ owner' = [owner EXCEPT ![rd[r].fd] = r]
        /\ rd' = [rd EXCEPT ![r].pc = "unlink"]
     \/ /\ owner[rd[r].fd] # None
        /\ rd' = [rd EXCEPT ![r].pc = "data"]
        /\ UNCHANGED owner
  /\ UNCHANGED <<dir, data, procVars, stopFile, term>>

(* Whatever the file holds: the process that wrote it last, or nothing     *)
(* (lockReadStatusInvalid).                                                *)
ReadData(r) ==
  /\ rd[r].pc = "data"
  /\ rd' = [rd EXCEPT ![r].pc = "unlink", ![r].pid = data[rd[r].fd]]
  /\ UNCHANGED <<fileVars, procVars, stopFile, term>>

ReadUnlink(r) ==
  /\ rd[r].pc = "unlink"
  /\ dir' = IF r \in Remove THEN [dir EXCEPT ![First(rd[r].todo)] = None] ELSE dir
  /\ rd' = [rd EXCEPT ![r].pc = "close"]
  /\ UNCHANGED <<owner, data, procVars, stopFile, term>>

(* close(), and for stop --force SIGTERM to the pid of a valid file.       *)
ReadClose(r) ==
  /\ rd[r].pc = "close"
  /\ owner' = [owner EXCEPT ![rd[r].fd] = IF @ = r THEN None ELSE @]
  /\ term' = IF r \in Remove /\ rd[r].pid # None
             THEN term \cup {rd[r].pid} ELSE term
  /\ rd' = [rd EXCEPT ![r] = ReadNext(r)]
  /\ UNCHANGED <<dir, data, procVars, stopFile>>

(* cmdStart() removes the stop file.                                       *)
CmdStart ==
  /\ AllowStart /\ stopFile
  /\ stopFile' = FALSE
  /\ UNCHANGED <<fileVars, procVars, term, rd>>

-----------------------------------------------------------------------------
Acquire(p) ==
  \/ CmdLockAcquire(p) \/ LockOpen(p) \/ LockFlock(p)
  \/ LockWriteNew(p) \/ LockMatchExecId(p)

Release(p) == LockUnlink(p) \/ LockClose(p) \/ LockReleased(p)

Work(p) ==
  LockStopTest(p) \/ LockTruncate(p) \/ LockRewrite(p) \/ CmdLockRelease(p)

Read(r) ==
  \/ ReadBegin(r) \/ StopList(r) \/ ReadOpen(r) \/ ReadFlock(r)
  \/ ReadData(r) \/ ReadUnlink(r) \/ ReadClose(r)

Next ==
  \/ \E p \in Proc : Acquire(p) \/ Release(p) \/ Work(p) \/ Crash(p)
  \/ \E r \in Reader : Read(r)
  \/ CmdStart

Spec == Init /\ [][Next]_vars

-----------------------------------------------------------------------------
(* Type invariant *)

FileTypeOK ==
  /\ dir \in [File -> Inode \cup {None}]
  /\ owner \in [Inode -> Holder \cup {None}]
  /\ data \in [Inode -> Proc \cup {None}]

ProcTypeOK ==
  /\ pc \in [Proc -> {"start", "open", "flock", "read", "write", "poll", "test",
                      "work", "rewrite", "exit", "release", "close", "dead"}]
  /\ todo \in [Proc -> SUBSET File]
  /\ fd \in [Proc -> Inode \cup {None}]
  /\ lockList \in [Proc -> [File -> Inode \cup {None, OnExecId}]]
  /\ held \in [Proc -> BOOLEAN]

ReaderTypeOK ==
  /\ stopFile \in BOOLEAN
  /\ term \in SUBSET Proc
  /\ rd \in [Reader -> [pc : {"idle", "list", "open", "flock", "data", "unlink",
                             "close", "done"},
                       todo : SUBSET File,
                       fd : Inode \cup {None},
                       pid : Proc \cup {None}]]

LockTypeOK == FileTypeOK /\ ProcTypeOK /\ ReaderTypeOK

-----------------------------------------------------------------------------
(* Safety *)

(* A lock in lockLocal.lockList with a descriptor is a flock the kernel    *)
(* grants this process, under one name only.                               *)
ListedIsLocked ==
  \A p \in Proc, f \in File :
    lockList[p][f] \in Inode =>
      /\ owner[lockList[p][f]] = p
      /\ \A g \in File \ {f} : lockList[p][g] # lockList[p][f]

(* A flock the kernel grants a process is in its list: nothing is leaked   *)
(* by an error path, a release or an exit, so a dead process holds nothing *)
(* and no stale lock cleanup is needed (lock.c, property 1 of its header). *)
LockedIsListed ==
  \A i \in Inode, p \in Proc :
    owner[i] = p => \E f \in File : lockList[p][f] = i

(* The list of a process and the kernel's table agree, through every error *)
(* path of lockAcquire() and whatever other processes unlink.              *)
ListAgreesWithKernel == ListedIsLocked /\ LockedIsListed

(* A command that got through cmdLockAcquire() has every file it asked for *)
(* in its list, or the last one when .returnOnNoLock lets the loop pass    *)
(* over a file that another command holds. That is what an archive         *)
(* foreground with several repositories gets (push.c:372, get.c:760),      *)
(* although command/lock.c:97 does not mean to allow it.                   *)
Required(p) ==
  IF p \in ReturnOnNoLock THEN {f \in LockFiles[p] : \A g \in LockFiles[p] : g <= f}
  ELSE LockFiles[p]

Through(p) == pc[p] \in {"test", "work", "rewrite"}

HeldCoversLockFiles ==
  \A p \in Proc : Through(p) => \A f \in Required(p) : lockList[p][f] # None

Working(p) == pc[p] \in {"work", "rewrite"}

(* The lock files "prevent conflicting operations from being run           *)
(* concurrently": two commands of different invocations never work under   *)
(* the same lock.                                                          *)
MutualExclusion ==
  \A p, q \in Proc :
    /\ p # q /\ ExecId[p] # ExecId[q]
    /\ Working(p) /\ Working(q)
    => LockFiles[p] \cap LockFiles[q] = {}
=============================================================================
