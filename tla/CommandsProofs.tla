--------------------------- MODULE CommandsProofs ---------------------------
(***************************************************************************)
(* The locks of the commands, for any number of processes, readers, lock   *)
(* files and inodes: the lock list of every process agrees with the        *)
(* kernel's flock table.                                                   *)
(*                                                                         *)
(* The stanza commands, for any number of databases, commands and faults:  *)
(* what they write, file by file, keeps archive.info and backup.info in    *)
(* step and gives every id one database.                                   *)
(***************************************************************************)
EXTENDS MCCommands, SequenceTheorems, TLAPS

-----------------------------------------------------------------------------
(* What holds between the steps of lockAcquire(): a file is being tried,   *)
(* it is open from flock() on, and its name is not in the list until the   *)
(* flock is granted. Without this an attempt could overwrite an entry of   *)
(* the list and leak the lock it stood for.                                *)
Attempting(p) ==
  /\ pc[p] \in {"open", "flock", "read", "write"} => todo[p] # {}
  /\ pc[p] \in {"flock", "read", "write"} => fd[p] \in Inode
  /\ pc[p] \in {"flock", "read"} => lockList[p][First(todo[p])] = None

(* Between unlink() and close() the head of the list is a real lock.       *)
Closing(p) ==
  pc[p] = "close" => Listed(p) # {} /\ lockList[p][First(Listed(p))] \in Inode

Steps == \A p \in Proc : Attempting(p) /\ Closing(p)

(* A reader past open() has an inode open.                                 *)
Probing ==
  \A r \in Reader :
    rd[r].pc \in {"flock", "data", "unlink", "close"} => rd[r].fd \in Inode

LockInv == LockTypeOK /\ ListAgreesWithKernel /\ Steps /\ Probing

-----------------------------------------------------------------------------
LEMMA FirstFile ==
  ASSUME NEW S \in SUBSET File, S # {}
  PROVE  First(S) \in S
BY FirstIn, LockAssumption

LEMMA FirstTodo ==
  ASSUME ProcTypeOK, NEW p \in Proc, todo[p] # {}
  PROVE  First(todo[p]) \in File
BY FirstFile DEF ProcTypeOK

LEMMA FirstListed ==
  ASSUME NEW p \in Proc, Listed(p) # {}
  PROVE  First(Listed(p)) \in File /\ lockList[p][First(Listed(p))] # None
<1>1. Listed(p) \in SUBSET File
  BY DEF Listed
<1>2. First(Listed(p)) \in Listed(p)
  BY <1>1, FirstFile
<1> QED
  BY <1>2 DEF Listed

(* What a step of one process leaves alone of the others.                  *)
Frame(p) ==
  \A q \in Proc \ {p} :
    pc'[q] = pc[q] /\ todo'[q] = todo[q] /\ fd'[q] = fd[q] /\ lockList'[q] = lockList[q]

LEMMA StepsOfOne ==
  ASSUME Steps, NEW p \in Proc, Frame(p), Attempting(p)', Closing(p)'
  PROVE  Steps'
<1> SUFFICES ASSUME NEW q \in Proc, q # p PROVE Attempting(q)' /\ Closing(q)'
  BY DEF Steps
<1>1. pc'[q] = pc[q] /\ todo'[q] = todo[q] /\ fd'[q] = fd[q] /\ lockList'[q] = lockList[q]
  BY DEF Frame
<1>2. Listed(q)' = Listed(q)
  BY <1>1 DEF Listed
<1>3. Attempting(q) /\ Closing(q)
  BY DEF Steps
<1>4. Attempting(q)'
  BY <1>1, <1>3 DEF Attempting
<1>5. Closing(q)'
  BY <1>1, <1>2, <1>3 DEF Closing
<1> QED
  BY <1>4, <1>5

(* Assigning one entry of one lock list.                                   *)
LEMMA ListAssign ==
  ASSUME ProcTypeOK, NEW p \in Proc, NEW f \in File,
         NEW v \in Inode \cup {None, OnExecId},
         lockList' = [lockList EXCEPT ![p][f] = v]
  PROVE  /\ lockList' \in [Proc -> [File -> Inode \cup {None, OnExecId}]]
         /\ \A q \in Proc, g \in File :
              lockList'[q][g] = IF q = p /\ g = f THEN v ELSE lockList[q][g]
         /\ \A q \in Proc \ {p} : lockList'[q] = lockList[q]
BY DEF ProcTypeOK

(* Moving pc, when the other variables of the processes keep their types.  *)
LEMMA PcAssign ==
  ASSUME ProcTypeOK, NEW p \in Proc,
         \E s \in {"open", "flock", "read", "write", "poll", "test", "work", "rewrite",
                   "exit", "release", "close", "dead"} : pc' = [pc EXCEPT ![p] = s],
         todo' \in [Proc -> SUBSET File],
         fd' \in [Proc -> Inode \cup {None}],
         lockList' \in [Proc -> [File -> Inode \cup {None, OnExecId}]],
         held' \in [Proc -> BOOLEAN]
  PROVE  ProcTypeOK'
BY DEF ProcTypeOK

(* The agreement survives steps that touch neither side of it.             *)
LEMMA AgreementUnchanged ==
  ASSUME ListAgreesWithKernel, UNCHANGED <<owner, lockList>>
  PROVE  ListAgreesWithKernel'
BY DEF ListAgreesWithKernel, ListedIsLocked, LockedIsListed

LEMMA ReadersUnchanged ==
  ASSUME ReaderTypeOK, Probing, UNCHANGED <<stopFile, term, rd>>
  PROVE  ReaderTypeOK' /\ Probing'
BY DEF ReaderTypeOK, Probing

LEMMA InitLockInv == Init => LockInv
<1> SUFFICES ASSUME Init PROVE LockInv
  OBVIOUS
<1> USE LockAssumption DEF Init, NoLocks, LockReaderIdle
<1>1. LockTypeOK
  BY DEF LockTypeOK, FileTypeOK, ProcTypeOK, ReaderTypeOK, Holder
<1>2. ListAgreesWithKernel
  BY DEF ListAgreesWithKernel, ListedIsLocked, LockedIsListed
<1>3. Steps /\ Probing
  BY DEF Steps, Attempting, Closing, Probing
<1> QED
  BY <1>1, <1>2, <1>3 DEF LockInv

-----------------------------------------------------------------------------
(* One lemma per action. In each the parts of the invariant that the       *)
(* action can disturb are shown one by one.                                *)

LEMMA CmdLockAcquireInv ==
  ASSUME LockInv, NEW p \in Proc, CmdLockAcquire(p)
  PROVE  LockInv'
<1> USE LockAssumption DEF LockInv, LockTypeOK, CmdLockAcquire
<1>1. FileTypeOK' /\ ListAgreesWithKernel'
  BY AgreementUnchanged DEF FileTypeOK, fileVars
<1>2. ProcTypeOK'
  BY DEF ProcTypeOK
<1>3. Frame(p) /\ Attempting(p)' /\ Closing(p)'
  BY DEF ProcTypeOK, Frame, Attempting, Closing
<1> QED
  BY <1>1, <1>2, <1>3, StepsOfOne, ReadersUnchanged

LEMMA LockOpenInv ==
  ASSUME LockInv, NEW p \in Proc, LockOpen(p)
  PROVE  LockInv'
<1>1. First(todo[p]) \in File /\ todo[p] # {}
  BY FirstTodo DEF LockInv, LockTypeOK, LockOpen, Steps, Attempting
<1> USE LockAssumption, <1>1 DEF LockInv, LockTypeOK, LockOpen, fileVars
<1>2. FileTypeOK'
  BY DEF FileTypeOK
<1>3. ListAgreesWithKernel'
  BY AgreementUnchanged
<1>4. ProcTypeOK'
  <2>1. /\ UNCHANGED <<todo, lockList, held>>
        /\ \E s \in {"exit", "flock"} : pc' = [pc EXCEPT ![p] = s]
    OBVIOUS
  <2>0. dir[First(todo[p])] \in Inode \cup {None}
    BY DEF FileTypeOK
  <2>2. fd' = fd \/ \E i \in Inode : fd' = [fd EXCEPT ![p] = i]
    BY <2>0
  <2>3. fd' \in [Proc -> Inode \cup {None}]
    BY <2>2 DEF ProcTypeOK
  <2>4. /\ todo' \in [Proc -> SUBSET File]
        /\ lockList' \in [Proc -> [File -> Inode \cup {None, OnExecId}]]
        /\ held' \in [Proc -> BOOLEAN]
    BY <2>1 DEF ProcTypeOK
  <2> QED
    BY <2>1, <2>3, <2>4, PcAssign
<1>5. Frame(p) /\ Closing(p)'
  BY DEF ProcTypeOK, Frame, Closing
<1>6. Attempting(p)'
  BY DEF ProcTypeOK, FileTypeOK, Attempting
<1> QED
  BY <1>2, <1>3, <1>4, <1>5, <1>6, StepsOfOne, ReadersUnchanged

LEMMA LockFlockInv ==
  ASSUME LockInv, NEW p \in Proc, LockFlock(p)
  PROVE  LockInv'
<1> DEFINE f == First(todo[p])
<1>1. f \in File /\ todo[p] # {} /\ fd[p] \in Inode /\ lockList[p][f] = None
  BY FirstTodo DEF LockInv, LockTypeOK, LockFlock, Steps, Attempting
<1>2. CASE owner[fd[p]] # None
  <2>1. /\ pc' = [pc EXCEPT ![p] = "read"]
        /\ UNCHANGED <<dir, data, owner, lockList, todo, fd, held, stopFile, term, rd>>
    BY <1>2 DEF LockFlock
  <2>2. FileTypeOK' /\ ListAgreesWithKernel' /\ ProcTypeOK'
    BY <2>1, AgreementUnchanged DEF LockInv, LockTypeOK, FileTypeOK, ProcTypeOK
  <2>3. Frame(p) /\ Attempting(p)' /\ Closing(p)'
    BY <1>1, <2>1 DEF LockInv, LockTypeOK, ProcTypeOK, Frame, Attempting, Closing
  <2> QED
    BY <2>1, <2>2, <2>3, StepsOfOne, ReadersUnchanged DEF LockInv, LockTypeOK
<1>3. CASE owner[fd[p]] = None
  <2>1. /\ owner' = [owner EXCEPT ![fd[p]] = p]
        /\ lockList' = [lockList EXCEPT ![p][f] = fd[p]]
        /\ pc' = [pc EXCEPT ![p] = "write"]
        /\ UNCHANGED <<dir, data, todo, fd, held, stopFile, term, rd>>
    BY <1>3 DEF LockFlock
  <2> HIDE DEF f
  <2>2. /\ lockList' \in [Proc -> [File -> Inode \cup {None, OnExecId}]]
        /\ \A q \in Proc, g \in File :
             lockList'[q][g] = IF q = p /\ g = f THEN fd[p] ELSE lockList[q][g]
        /\ \A q \in Proc \ {p} : lockList'[q] = lockList[q]
    BY <1>1, <2>1, ListAssign DEF LockInv, LockTypeOK
  <2>3. \A i \in Inode : owner'[i] = IF i = fd[p] THEN p ELSE owner[i]
    BY <1>1, <2>1 DEF LockInv, LockTypeOK, FileTypeOK
  <2>4. FileTypeOK' /\ ProcTypeOK'
    BY <2>1, <2>2 DEF LockInv, LockTypeOK, FileTypeOK, ProcTypeOK, Holder
  <2>5. ListedIsLocked'
    BY <1>1, <1>3, <2>2, <2>3, LockAssumption
    DEF LockInv, ListAgreesWithKernel, ListedIsLocked
  <2>6. LockedIsListed'
    BY <1>1, <1>3, <2>2, <2>3, LockAssumption
    DEF LockInv, ListAgreesWithKernel, LockedIsListed
  <2>7. Frame(p) /\ Attempting(p)' /\ Closing(p)'
    BY <1>1, <2>1, <2>2 DEF LockInv, LockTypeOK, ProcTypeOK, Frame, Attempting, Closing
  <2> QED
    BY <2>1, <2>4, <2>5, <2>6, <2>7, StepsOfOne, ReadersUnchanged
    DEF LockInv, LockTypeOK, ListAgreesWithKernel
<1> QED
  BY <1>2, <1>3

(* The end of an attempt on one file, shared by the two actions below.     *)
LEMMA LockNextInv ==
  ASSUME ProcTypeOK, NEW p \in Proc, NEW result \in BOOLEAN, todo[p] # {},
         pc[p] \in {"read", "write"}, LockNext(p, result),
         \A q \in Proc \ {p} : lockList'[q] = lockList[q],
         lockList' \in [Proc -> [File -> Inode \cup {None, OnExecId}]]
  PROVE  ProcTypeOK' /\ Frame(p) /\ Attempting(p)' /\ Closing(p)'
<1> USE DEF LockNext, ProcTypeOK
<1>1. todo' \in [Proc -> SUBSET File] /\ fd' \in [Proc -> Inode \cup {None}]
  OBVIOUS
<1>2. held' \in [Proc -> BOOLEAN]
  OBVIOUS
<1>3. \E s \in {"open", "poll", "work", "test"} : pc' = [pc EXCEPT ![p] = s]
  OBVIOUS
<1>4. ProcTypeOK'
  BY <1>1, <1>2, <1>3
<1>5. Frame(p) /\ Closing(p)'
  BY <1>3 DEF Frame, Closing
<1>6. Attempting(p)'
  BY DEF Attempting
<1> QED
  BY <1>4, <1>5, <1>6

LEMMA LockWriteNewInv ==
  ASSUME LockInv, NEW p \in Proc, LockWriteNew(p)
  PROVE  LockInv'
<1> USE DEF LockInv, LockTypeOK, LockWriteNew
<1>1. FileTypeOK' /\ ListAgreesWithKernel'
  BY AgreementUnchanged DEF FileTypeOK
<1>2. todo[p] # {}
  BY DEF Steps, Attempting
<1>3. ProcTypeOK' /\ Frame(p) /\ Attempting(p)' /\ Closing(p)'
  BY <1>2, LockNextInv DEF ProcTypeOK
<1> QED
  BY <1>1, <1>3, StepsOfOne, ReadersUnchanged

LEMMA LockMatchExecIdInv ==
  ASSUME LockInv, NEW p \in Proc, LockMatchExecId(p)
  PROVE  LockInv'
<1> DEFINE f == First(todo[p])
<1> DEFINE sibling == data[fd[p]] # None /\ ExecId[data[fd[p]]] = ExecId[p]
<1>1. f \in File /\ todo[p] # {} /\ lockList[p][f] = None /\ pc[p] = "read"
  BY FirstTodo DEF LockInv, LockTypeOK, LockMatchExecId, Steps, Attempting
<1>2. UNCHANGED <<dir, owner, data, stopFile, term, rd>> /\ FileTypeOK'
  BY DEF LockMatchExecId, fileVars, LockInv, LockTypeOK, FileTypeOK
<1>3. CASE sibling
  <2>1. lockList' = [lockList EXCEPT ![p][f] = OnExecId] /\ LockNext(p, TRUE)
    BY <1>3 DEF LockMatchExecId
  <2> HIDE DEF f
  <2>2. /\ lockList' \in [Proc -> [File -> Inode \cup {None, OnExecId}]]
        /\ \A q \in Proc, g \in File :
             lockList'[q][g] = IF q = p /\ g = f THEN OnExecId ELSE lockList[q][g]
        /\ \A q \in Proc \ {p} : lockList'[q] = lockList[q]
    BY <1>1, <2>1, ListAssign DEF LockInv, LockTypeOK
  <2>3. ProcTypeOK' /\ Frame(p) /\ Attempting(p)' /\ Closing(p)'
    BY <1>1, <2>1, <2>2, LockNextInv DEF LockInv, LockTypeOK
  <2>4. ListAgreesWithKernel'
    BY <1>1, <1>2, <2>2, LockAssumption
    DEF LockInv, ListAgreesWithKernel, ListedIsLocked, LockedIsListed
  <2> QED
    BY <1>2, <2>3, <2>4, StepsOfOne, ReadersUnchanged DEF LockInv, LockTypeOK
<1>4. CASE ~sibling /\ p \in ReturnOnNoLock
  <2>1. lockList' = lockList /\ LockNext(p, FALSE)
    BY <1>4 DEF LockMatchExecId
  <2>2. lockList' \in [Proc -> [File -> Inode \cup {None, OnExecId}]]
    BY <2>1 DEF LockInv, LockTypeOK, ProcTypeOK
  <2>3. ProcTypeOK' /\ Frame(p) /\ Attempting(p)' /\ Closing(p)'
    BY <1>1, <2>1, <2>2, LockNextInv DEF LockInv, LockTypeOK
  <2> QED
    BY <1>2, <2>1, <2>3, AgreementUnchanged, StepsOfOne, ReadersUnchanged
    DEF LockInv, LockTypeOK
<1>5. CASE ~sibling /\ p \notin ReturnOnNoLock
  <2>1. /\ pc' = [pc EXCEPT ![p] = "exit"] /\ fd' = [fd EXCEPT ![p] = None]
        /\ UNCHANGED <<todo, lockList, held>>
    BY <1>5 DEF LockMatchExecId
  <2>2. ProcTypeOK' /\ Frame(p) /\ Attempting(p)' /\ Closing(p)'
    BY <2>1 DEF LockInv, LockTypeOK, ProcTypeOK, Frame, Attempting, Closing
  <2> QED
    BY <1>2, <2>1, <2>2, AgreementUnchanged, StepsOfOne, ReadersUnchanged
    DEF LockInv, LockTypeOK
<1> QED
  BY <1>3, <1>4, <1>5

(* lockStopTest(), cmdLockWrite() and the start of a release move only pc  *)
(* and the contents of a file.                                             *)
LEMMA WorkInv ==
  ASSUME LockInv, NEW p \in Proc,
         LockStopTest(p) \/ LockTruncate(p) \/ LockRewrite(p)
  PROVE  LockInv'
<1> USE DEF LockInv, LockTypeOK, LockStopTest, LockTruncate, LockRewrite, fileVars
<1>1. UNCHANGED <<dir, owner, todo, fd, lockList, held, stopFile, term, rd>>
  OBVIOUS
<1>2. \E s \in {"exit", "work", "rewrite"} : pc' = [pc EXCEPT ![p] = s]
  OBVIOUS
<1>3. FileTypeOK'
  BY DEF FileTypeOK
<1>4. ProcTypeOK' /\ Frame(p) /\ Attempting(p)' /\ Closing(p)'
  BY <1>1, <1>2 DEF ProcTypeOK, Frame, Attempting, Closing
<1> QED
  BY <1>1, <1>3, <1>4, AgreementUnchanged, StepsOfOne, ReadersUnchanged

(* A process that exits drops every lock, and the kernel with it.          *)
LEMMA ProcessExitInv ==
  ASSUME LockInv, NEW p \in Proc, ProcessExit(p)
  PROVE  LockInv'
<1> USE LockAssumption DEF LockInv, LockTypeOK
<1>1. /\ \A q \in Proc \ {p} : lockList'[q] = lockList[q]
      /\ lockList'[p] = [f \in File |-> None]
  BY DEF ProcessExit, ProcTypeOK, NoLocks
<1>2. \A i \in Inode : owner'[i] = IF owner[i] = p THEN None ELSE owner[i]
  BY DEF ProcessExit
<1>3. FileTypeOK'
  BY DEF ProcessExit, FileTypeOK
<1>4. ProcTypeOK'
  <2>1. /\ todo' \in [Proc -> SUBSET File]
        /\ fd' \in [Proc -> Inode \cup {None}]
        /\ held' \in [Proc -> BOOLEAN]
    BY DEF ProcessExit, ProcTypeOK
  <2>2. lockList' \in [Proc -> [File -> Inode \cup {None, OnExecId}]]
    BY DEF ProcessExit, ProcTypeOK, NoLocks
  <2>3. pc' = [pc EXCEPT ![p] = "dead"]
    BY DEF ProcessExit
  <2> QED
    BY <2>1, <2>2, <2>3, PcAssign
<1>5. ListedIsLocked'
  <2>1. \A f \in File : lockList'[p][f] \notin Inode
    BY <1>1
  <2> QED
    BY <1>1, <1>2, <2>1 DEF ListAgreesWithKernel, ListedIsLocked
<1>6. LockedIsListed'
  BY <1>1, <1>2 DEF ListAgreesWithKernel, LockedIsListed
<1>7. Frame(p) /\ Attempting(p)' /\ Closing(p)'
  BY <1>1 DEF ProcessExit, ProcTypeOK, Frame, Attempting, Closing
<1> QED
  BY <1>3, <1>4, <1>5, <1>6, <1>7, StepsOfOne, ReadersUnchanged
  DEF ProcessExit, ListAgreesWithKernel

LEMMA CmdLockReleaseInv ==
  ASSUME LockInv, NEW p \in Proc, CmdLockRelease(p)
  PROVE  LockInv'
<1>1. CASE ~held[p]
  BY <1>1, ProcessExitInv DEF CmdLockRelease
<1>2. CASE held[p]
  <2> USE <1>2 DEF LockInv, LockTypeOK, CmdLockRelease, fileVars
  <2>1. FileTypeOK' /\ ProcTypeOK'
    BY DEF FileTypeOK, ProcTypeOK
  <2>2. Frame(p) /\ Attempting(p)' /\ Closing(p)'
    BY DEF ProcTypeOK, Frame, Attempting, Closing
  <2> QED
    BY <2>1, <2>2, AgreementUnchanged, StepsOfOne, ReadersUnchanged
<1> QED
  BY <1>1, <1>2

LEMMA LockUnlinkInv ==
  ASSUME LockInv, NEW p \in Proc, LockUnlink(p)
  PROVE  LockInv'
<1> DEFINE f == First(Listed(p))
<1>1. f \in File /\ lockList[p][f] # None /\ Listed(p) # {}
  BY FirstListed DEF LockUnlink
<1>2. CASE lockList[p][f] # OnExecId
  <2>1. /\ dir' = [dir EXCEPT ![f] = None] /\ pc' = [pc EXCEPT ![p] = "close"]
        /\ UNCHANGED <<owner, data, todo, fd, lockList, held, stopFile, term, rd>>
    BY <1>2 DEF LockUnlink
  <2>2. lockList[p][f] \in Inode /\ Listed(p)' = Listed(p)
    BY <1>1, <1>2, <2>1 DEF LockInv, LockTypeOK, ProcTypeOK, Listed
  <2>3. FileTypeOK' /\ ProcTypeOK' /\ ListAgreesWithKernel'
    BY <2>1, AgreementUnchanged DEF LockInv, LockTypeOK, FileTypeOK, ProcTypeOK
  <2>4. Frame(p) /\ Attempting(p)' /\ Closing(p)'
    BY <1>1, <2>1, <2>2 DEF LockInv, LockTypeOK, ProcTypeOK, Frame, Attempting, Closing
  <2> QED
    BY <2>1, <2>3, <2>4, StepsOfOne, ReadersUnchanged DEF LockInv, LockTypeOK
<1>3. CASE lockList[p][f] = OnExecId
  <2>1. /\ lockList' = [lockList EXCEPT ![p][f] = None]
        /\ UNCHANGED <<dir, pc, owner, data, todo, fd, held, stopFile, term, rd>>
    BY <1>3 DEF LockUnlink
  <2>2. pc[p] = "release"
    BY DEF LockUnlink
  <2> HIDE DEF f
  <2>3. /\ lockList' \in [Proc -> [File -> Inode \cup {None, OnExecId}]]
        /\ \A q \in Proc, g \in File :
             lockList'[q][g] = IF q = p /\ g = f THEN None ELSE lockList[q][g]
        /\ \A q \in Proc \ {p} : lockList'[q] = lockList[q]
    BY <1>1, <2>1, ListAssign DEF LockInv, LockTypeOK
  <2>4. FileTypeOK' /\ ProcTypeOK'
    BY <2>1, <2>3 DEF LockInv, LockTypeOK, FileTypeOK, ProcTypeOK
  <2>5. ListAgreesWithKernel'
    BY <1>1, <1>3, <2>1, <2>3, LockAssumption
    DEF LockInv, ListAgreesWithKernel, ListedIsLocked, LockedIsListed
  <2>6. Frame(p) /\ Attempting(p)' /\ Closing(p)'
    BY <2>1, <2>2, <2>3 DEF Frame, Attempting, Closing
  <2> QED
    BY <2>1, <2>4, <2>5, <2>6, StepsOfOne, ReadersUnchanged DEF LockInv, LockTypeOK
<1> QED
  BY <1>2, <1>3

LEMMA LockCloseInv ==
  ASSUME LockInv, NEW p \in Proc, LockClose(p)
  PROVE  LockInv'
<1> DEFINE f == First(Listed(p))
<1>1. f \in File /\ lockList[p][f] \in Inode
  BY FirstListed DEF LockInv, LockClose, Steps, Closing
<1>2. /\ owner' = [owner EXCEPT ![lockList[p][f]] = None]
      /\ lockList' = [lockList EXCEPT ![p][f] = None]
      /\ pc' = [pc EXCEPT ![p] = "release"]
      /\ UNCHANGED <<dir, data, todo, fd, held, stopFile, term, rd>>
  BY DEF LockClose
<1> HIDE DEF f
<1>3. /\ lockList' \in [Proc -> [File -> Inode \cup {None, OnExecId}]]
      /\ \A q \in Proc, g \in File :
           lockList'[q][g] = IF q = p /\ g = f THEN None ELSE lockList[q][g]
      /\ \A q \in Proc \ {p} : lockList'[q] = lockList[q]
  BY <1>1, <1>2, ListAssign DEF LockInv, LockTypeOK
<1>4. \A i \in Inode : owner'[i] = IF i = lockList[p][f] THEN None ELSE owner[i]
  BY <1>1, <1>2 DEF LockInv, LockTypeOK, FileTypeOK
<1>5. FileTypeOK' /\ ProcTypeOK'
  BY <1>2, <1>3 DEF LockInv, LockTypeOK, FileTypeOK, ProcTypeOK
<1>6. ListedIsLocked'
  BY <1>1, <1>3, <1>4, LockAssumption DEF LockInv, ListAgreesWithKernel, ListedIsLocked
<1>7. LockedIsListed'
  BY <1>1, <1>3, <1>4, LockAssumption
  DEF LockInv, ListAgreesWithKernel, ListedIsLocked, LockedIsListed
<1>8. Frame(p) /\ Attempting(p)' /\ Closing(p)'
  BY <1>2, <1>3 DEF LockInv, LockTypeOK, ProcTypeOK, Frame, Attempting, Closing
<1> QED
  BY <1>2, <1>5, <1>6, <1>7, <1>8, StepsOfOne, ReadersUnchanged
  DEF LockInv, LockTypeOK, ListAgreesWithKernel

(* Readers own flocks under their own name only, so no step of theirs      *)
(* touches the agreement.                                                  *)
LEMMA AgreementUnderRead ==
  ASSUME ListAgreesWithKernel, NEW r \in Reader, lockList' = lockList,
         \A i \in Inode : owner'[i] = owner[i]
                       \/ (owner[i] \in {r, None} /\ owner'[i] \in {r, None})
  PROVE  ListAgreesWithKernel'
BY LockAssumption DEF ListAgreesWithKernel, ListedIsLocked, LockedIsListed

LEMMA StepsUnderRead ==
  ASSUME ProcTypeOK, Steps, UNCHANGED procVars
  PROVE  ProcTypeOK' /\ Steps'
BY DEF ProcTypeOK, Steps, Attempting, Closing, Listed, procVars

ReaderState ==
  [pc : {"idle", "list", "open", "flock", "data", "unlink", "close", "done"},
   todo : SUBSET File, fd : Inode \cup {None}, pid : Proc \cup {None}]

LEMMA ReaderAssign ==
  ASSUME ReaderTypeOK, Probing, NEW r \in Reader, NEW v \in ReaderState,
         rd' = [rd EXCEPT ![r] = v],
         v.pc \in {"flock", "data", "unlink", "close"} => v.fd \in Inode,
         stopFile' \in BOOLEAN, term' \in SUBSET Proc
  PROVE  ReaderTypeOK' /\ Probing'
BY DEF ReaderTypeOK, Probing, ReaderState

LEMMA ReadInv ==
  ASSUME LockInv, NEW r \in Reader, Read(r)
  PROVE  LockInv'
<1> USE DEF LockInv, LockTypeOK
<1>1. UNCHANGED procVars
  BY DEF Read, ReadBegin, StopList, ReadOpen, ReadFlock, ReadData, ReadUnlink, ReadClose
<1>2. ProcTypeOK' /\ Steps'
  BY <1>1, StepsUnderRead
<1>3. CASE ReadBegin(r) \/ StopList(r)
  <2>1. PICK s \in {"list", "open"}, S \in SUBSET File :
          rd' = [rd EXCEPT ![r] = [rd[r] EXCEPT !.pc = s, !.todo = S]]
    <3>1. CASE ReadBegin(r) /\ r \in Remove
      <4>1. rd' = [rd EXCEPT ![r] = [rd[r] EXCEPT !.pc = "list", !.todo = rd[r].todo]]
        BY <3>1 DEF ReadBegin, ReaderTypeOK
      <4>2. rd[r].todo \in SUBSET File
        BY DEF ReaderTypeOK
      <4> QED
        BY <4>1, <4>2
    <3>2. CASE ReadBegin(r) /\ r \notin Remove
      <4>1. PICK f \in File : rd' = [rd EXCEPT ![r].pc = "open", ![r].todo = {f}]
        BY <3>2 DEF ReadBegin
      <4>2. rd' = [rd EXCEPT ![r] = [rd[r] EXCEPT !.pc = "open", !.todo = {f}]]
        BY <4>1 DEF ReaderTypeOK
      <4> QED
        BY <4>2
    <3>3. CASE StopList(r)
      <4> DEFINE S == {f \in File : dir[f] # None}
      <4>1. rd' = [rd EXCEPT ![r] = [rd[r] EXCEPT !.pc = "open", !.todo = S]]
        BY <3>3 DEF StopList, ReaderTypeOK
      <4>2. S \in SUBSET File
        OBVIOUS
      <4> QED
        BY <4>1, <4>2
    <3> QED
      BY <1>3, <3>1, <3>2, <3>3
  <2>2. [rd[r] EXCEPT !.pc = s, !.todo = S] \in ReaderState
    BY DEF ReaderTypeOK, ReaderState
  <2>3. [rd[r] EXCEPT !.pc = s, !.todo = S].pc = s
    BY DEF ReaderTypeOK
  <2>4. stopFile' \in BOOLEAN /\ term' \in SUBSET Proc
    BY <1>3 DEF ReadBegin, StopList, ReaderTypeOK
  <2>5. ReaderTypeOK' /\ Probing'
    BY <2>1, <2>2, <2>3, <2>4, ReaderAssign
  <2>6. FileTypeOK' /\ ListAgreesWithKernel'
    BY <1>1, <1>3, AgreementUnchanged
    DEF ReadBegin, StopList, FileTypeOK, fileVars, procVars
  <2> QED
    BY <1>2, <2>5, <2>6
<1>4. CASE ReadOpen(r)
  <2>1. FileTypeOK' /\ ListAgreesWithKernel'
    BY <1>1, <1>4, AgreementUnchanged DEF ReadOpen, FileTypeOK, fileVars, procVars
  <2>2. CASE rd[r].todo = {}
    BY <1>2, <1>4, <2>1, <2>2 DEF ReadOpen, LockReaderIdle, ReaderTypeOK, Probing
  <2>3. CASE rd[r].todo # {}
    <3>1. First(rd[r].todo) \in File
      BY <2>3, FirstFile DEF ReaderTypeOK
    <3>2. dir[First(rd[r].todo)] \in Inode \cup {None}
      BY <3>1 DEF FileTypeOK
    <3> DEFINE v == IF dir[First(rd[r].todo)] = None THEN ReadNext(r)
                    ELSE [rd[r] EXCEPT !.pc = "flock", !.fd = dir[First(rd[r].todo)]]
    <3>3. rd' = [rd EXCEPT ![r] = v] /\ UNCHANGED <<stopFile, term>>
      BY <1>4, <2>3 DEF ReadOpen
    <3>4. v \in ReaderState /\ (v.pc \in {"flock", "data", "unlink", "close"} => v.fd \in Inode)
      BY <3>2 DEF ReadNext, ReaderTypeOK, ReaderState
    <3>5. ReaderTypeOK' /\ Probing'
      BY <3>3, <3>4, ReaderAssign DEF ReaderTypeOK
    <3> QED
      BY <1>2, <2>1, <3>5
  <2> QED
    BY <2>2, <2>3
<1>5. CASE ReadFlock(r)
  <2>1. rd[r].fd \in Inode
    BY <1>5 DEF ReadFlock, Probing
  <2>2. ReaderTypeOK' /\ Probing'
    BY <1>5, <2>1 DEF ReadFlock, ReaderTypeOK, Probing
  <2>3. FileTypeOK'
    BY <1>5, <2>1 DEF ReadFlock, FileTypeOK, Holder
  <2>4. ListAgreesWithKernel'
    <3>1. \/ owner[rd[r].fd] = None /\ owner' = [owner EXCEPT ![rd[r].fd] = r]
          \/ owner' = owner
      BY <1>5 DEF ReadFlock
    <3>2. \A i \in Inode : owner'[i] = owner[i]
                        \/ (owner[i] \in {r, None} /\ owner'[i] \in {r, None})
      BY <2>1, <3>1 DEF FileTypeOK
    <3> QED
      BY <1>1, <3>2, AgreementUnderRead DEF procVars
  <2> QED
    BY <1>2, <2>2, <2>3, <2>4
<1>6. CASE ReadData(r)
  <2>1. data[rd[r].fd] \in Proc \cup {None}
    BY <1>6 DEF ReadData, Probing, FileTypeOK
  <2>2. ReaderTypeOK' /\ Probing'
    BY <1>6, <2>1 DEF ReadData, ReaderTypeOK, Probing
  <2>3. FileTypeOK' /\ ListAgreesWithKernel'
    BY <1>1, <1>6, AgreementUnchanged DEF ReadData, FileTypeOK, fileVars, procVars
  <2> QED
    BY <1>2, <2>2, <2>3
<1>7. CASE ReadUnlink(r)
  <2>1. ReaderTypeOK' /\ Probing'
    BY <1>7 DEF ReadUnlink, ReaderTypeOK, Probing
  <2>2. FileTypeOK' /\ ListAgreesWithKernel'
    BY <1>1, <1>7, AgreementUnchanged DEF ReadUnlink, FileTypeOK, procVars
  <2> QED
    BY <1>2, <2>1, <2>2
<1>8. CASE ReadClose(r)
  <2>1. rd[r].fd \in Inode
    BY <1>8 DEF ReadClose, Probing
  <2>2. ReaderTypeOK' /\ Probing'
    BY <1>8 DEF ReadClose, ReadNext, ReaderTypeOK, Probing
  <2>3. FileTypeOK'
    BY <1>8, <2>1 DEF ReadClose, FileTypeOK, Holder
  <2>4. ListAgreesWithKernel'
    <3>1. \A i \in Inode : owner'[i] = owner[i]
                        \/ (owner[i] \in {r, None} /\ owner'[i] \in {r, None})
      BY <1>8, <2>1 DEF ReadClose, FileTypeOK
    <3> QED
      BY <1>1, <3>1, AgreementUnderRead DEF procVars
  <2> QED
    BY <1>2, <2>2, <2>3, <2>4
<1> QED
  BY <1>3, <1>4, <1>5, <1>6, <1>7, <1>8 DEF Read

LEMMA NextLockInv == LockInv /\ [Next]_vars => LockInv'
<1> SUFFICES ASSUME LockInv, [Next]_vars PROVE LockInv'
  OBVIOUS
<1>1. ASSUME NEW p \in Proc, Acquire(p) \/ Release(p) \/ Work(p) \/ Crash(p)
      PROVE  LockInv'
  BY <1>1, CmdLockAcquireInv, LockOpenInv, LockFlockInv, LockWriteNewInv,
     LockMatchExecIdInv, WorkInv, CmdLockReleaseInv, LockUnlinkInv, LockCloseInv,
     ProcessExitInv
  DEF Acquire, Release, Work, Crash, LockReleased
<1>2. ASSUME NEW r \in Reader, Read(r) PROVE LockInv'
  BY <1>2, ReadInv
<1>3. CASE CmdStart
  <2>1. ProcTypeOK' /\ Steps'
    BY <1>3, StepsUnderRead DEF LockInv, LockTypeOK, CmdStart
  <2>2. FileTypeOK' /\ ListAgreesWithKernel'
    BY <1>3, AgreementUnchanged
    DEF LockInv, LockTypeOK, CmdStart, FileTypeOK, fileVars, procVars
  <2>3. ReaderTypeOK' /\ Probing'
    BY <1>3 DEF LockInv, LockTypeOK, CmdStart, ReaderTypeOK, Probing
  <2> QED
    BY <2>1, <2>2, <2>3 DEF LockInv, LockTypeOK
<1>4. CASE UNCHANGED vars
  <2>1. ProcTypeOK' /\ Steps'
    BY <1>4, StepsUnderRead DEF LockInv, LockTypeOK, vars, procVars
  <2>2. FileTypeOK' /\ ListAgreesWithKernel' /\ ReaderTypeOK' /\ Probing'
    BY <1>4, AgreementUnchanged, ReadersUnchanged
    DEF LockInv, LockTypeOK, FileTypeOK, vars
  <2> QED
    BY <2>1, <2>2 DEF LockInv, LockTypeOK
<1> QED
  BY <1>1, <1>2, <1>3, <1>4 DEF Next

-----------------------------------------------------------------------------
(* The inductive invariant holds in every reachable state.                 *)
THEOREM LockInvariant == Spec => []LockInv
BY InitLockInv, NextLockInv, PTL DEF Spec

(* Type correctness of the lock files, the processes and the readers.      *)
THEOREM LockTypeCorrect == Spec => []LockTypeOK
<1>1. LockInv => LockTypeOK
  BY DEF LockInv
<1> QED
  BY <1>1, LockInvariant, PTL

(* Whatever races for the lock directory there are (a file unlinked under  *)
(* its holder, a lock taken on an unlinked inode, stop --force, crashes),  *)
(* lockLocal.lockList of every process is exactly the set of flocks the    *)
(* kernel grants it: error paths, releases and exits leak none, and a      *)
(* process never believes in a flock it does not have.                     *)
THEOREM LockListAgrees == Spec => []ListAgreesWithKernel
<1>1. LockInv => ListAgreesWithKernel
  BY DEF LockInv
<1> QED
  BY <1>1, LockInvariant, PTL

-----------------------------------------------------------------------------
(* The required files the loop has been through are in the list; from      *)
(* write() on the present one is, too.                                     *)
Covered(p) ==
  /\ todo[p] \subseteq LockFiles[p]
  /\ pc[p] \in {"open", "flock", "read", "write"} =>
       \A f \in Required(p) \ todo[p] : lockList[p][f] # None
  /\ pc[p] = "write" => lockList[p][First(todo[p])] # None
  /\ Through(p) => \A f \in Required(p) : lockList[p][f] # None

AllCovered == \A p \in Proc : Covered(p)

LEMMA CoveredOfOne ==
  ASSUME AllCovered, NEW p \in Proc, Frame(p), Covered(p)'
  PROVE  AllCovered'
BY DEF AllCovered, Covered, Frame, Through, Required

LEMMA CoveredUnchanged ==
  ASSUME AllCovered, UNCHANGED procVars
  PROVE  AllCovered'
BY DEF AllCovered, Covered, procVars, Through, Required

(* A process at a point where nothing is claimed.                          *)
LEMMA CoveredElsewhere ==
  ASSUME NEW p \in Proc, todo'[p] \subseteq LockFiles[p],
         pc'[p] \in {"poll", "exit", "release", "close", "dead"}
  PROVE  Covered(p)'
BY DEF Covered, Through

(* A file that is followed by another one is not the last.                 *)
LEMMA NotTheLast ==
  ASSUME NEW p \in ReturnOnNoLock, NEW S \in SUBSET LockFiles[p], S \ {First(S)} # {}
  PROVE  First(S) \notin Required(p)
<1>1. LockFiles[p] \subseteq Nat
  BY LockAssumption
<1>2. First(S) \in S /\ \A y \in S : First(S) <= y
  BY <1>1, FirstIn
<1>3. PICK y \in S : y # First(S)
  OBVIOUS
<1>4. y \in Nat /\ First(S) \in Nat /\ First(S) < y
  BY <1>1, <1>2, <1>3
<1> QED
  BY <1>3, <1>4 DEF Required

(* The loop moves on when the present file is in the list, when it is not  *)
(* required, or when it was the last one and its failure is returned.      *)
LEMMA LockNextCovered ==
  ASSUME ProcTypeOK, NEW p \in Proc, NEW result \in BOOLEAN, Covered(p),
         todo[p] # {}, pc[p] \in {"read", "write"}, LockNext(p, result),
         \A f \in File : lockList[p][f] # None => lockList'[p][f] # None,
         \/ result /\ lockList'[p][First(todo[p])] # None
         \/ ~result /\ (todo[p] = {First(todo[p])} \/ First(todo[p]) \notin Required(p))
  PROVE  Covered(p)'
<1> DEFINE f == First(todo[p])
           rest == todo[p] \ {f}
<1>1. todo'[p] = rest /\ rest \subseteq LockFiles[p] /\ LockFiles[p] \subseteq File /\ Required(p) \subseteq File
  BY LockAssumption DEF LockNext, ProcTypeOK, Covered, Required
<1>2. CASE rest # {}
  <2>1. pc'[p] = "open" /\ (f \in Required(p) => lockList'[p][f] # None)
    BY <1>2 DEF LockNext, ProcTypeOK
  <2>2. \A g \in Required(p) \ rest : lockList'[p][g] # None
    BY <1>1, <2>1 DEF Covered
  <2> QED
    BY <1>1, <2>1, <2>2 DEF Covered, Through, Required
<1>3. CASE rest = {} /\ result
  <2>1. pc'[p] \in {"test", "work"}
    BY <1>3 DEF LockNext, ProcTypeOK
  <2>2. \A g \in Required(p) : lockList'[p][g] # None
    BY <1>1, <1>3 DEF Covered
  <2> QED
    BY <1>1, <2>1, <2>2 DEF Covered, Through, Required
<1>4. CASE rest = {} /\ ~result
  <2>1. pc'[p] = "poll"
    BY <1>4 DEF LockNext, ProcTypeOK
  <2> QED
    BY <1>1, <2>1, CoveredElsewhere
<1> QED
  BY <1>2, <1>3, <1>4

LEMMA AcquireCovered ==
  ASSUME LockInv, AllCovered, NEW p \in Proc, Acquire(p)
  PROVE  AllCovered'
<1> USE DEF LockInv, LockTypeOK, Through
<1>1. Covered(p) /\ LockFiles[p] \subseteq File /\ Required(p) \subseteq LockFiles[p]
  BY LockAssumption DEF AllCovered, Required
<1>0. Required(p)' = Required(p)
  BY DEF Required
<1>2. CASE CmdLockAcquire(p)
  <2>1. Frame(p) /\ todo'[p] = LockFiles[p] /\ pc'[p] \in {"exit", "open"}
    BY <1>2 DEF CmdLockAcquire, Frame, ProcTypeOK
  <2> QED
    BY <1>0, <1>1, <2>1, CoveredOfOne DEF Covered
<1>3. CASE LockOpen(p)
  <2>1. /\ Frame(p) /\ todo' = todo /\ lockList' = lockList
        /\ pc'[p] \in {"exit", "flock"} /\ pc[p] = "open"
    BY <1>3 DEF LockOpen, Frame, ProcTypeOK
  <2> QED
    BY <1>0, <1>1, <2>1, CoveredOfOne DEF Covered
<1>4. CASE LockFlock(p)
  <2>1. todo[p] # {} /\ First(todo[p]) \in File /\ fd[p] \in Inode
    BY <1>4, FirstTodo DEF LockFlock, Steps, Attempting
  <2>2. /\ \A q \in Proc \ {p} : pc'[q] = pc[q] /\ lockList'[q] = lockList[q]
        /\ todo' = todo /\ fd' = fd /\ pc[p] = "flock"
    BY <1>4 DEF LockFlock, ProcTypeOK
  <2>3. CASE owner[fd[p]] = None
    <3>1. /\ pc'[p] = "write" /\ lockList'[p][First(todo[p])] = fd[p]
          /\ \A g \in File : lockList[p][g] # None => lockList'[p][g] # None
      BY <1>4, <2>1, <2>3, LockAssumption DEF LockFlock, ProcTypeOK
    <3> QED
      BY <1>0, <1>1, <2>1, <2>2, <3>1, LockAssumption, CoveredOfOne DEF Covered, Frame
  <2>4. CASE owner[fd[p]] # None
    <3>1. pc'[p] = "read" /\ lockList' = lockList
      BY <1>4, <2>4 DEF LockFlock, ProcTypeOK
    <3> QED
      BY <1>0, <1>1, <2>2, <3>1, CoveredOfOne DEF Covered, Frame
  <2> QED
    BY <2>3, <2>4
<1>5. CASE LockWriteNew(p)
  <2>1. todo[p] # {} /\ pc[p] = "write" /\ LockNext(p, TRUE) /\ lockList' = lockList
    BY <1>5 DEF LockWriteNew, Steps, Attempting
  <2>2. Frame(p)
    BY <2>1, LockNextInv DEF ProcTypeOK
  <2>3. Covered(p)'
    BY <1>1, <2>1, LockNextCovered DEF Covered
  <2> QED
    BY <2>2, <2>3, CoveredOfOne
<1>6. CASE LockMatchExecId(p)
  <2> DEFINE f == First(todo[p])
             sibling == data[fd[p]] # None /\ ExecId[data[fd[p]]] = ExecId[p]
  <2>1. f \in File /\ todo[p] # {} /\ pc[p] = "read"
    BY <1>6, FirstTodo DEF LockMatchExecId, Steps, Attempting
  <2>2. CASE sibling
    <3>1. lockList' = [lockList EXCEPT ![p][f] = OnExecId] /\ LockNext(p, TRUE)
      BY <1>6, <2>2 DEF LockMatchExecId
    <3> HIDE DEF f
    <3>2. /\ lockList' \in [Proc -> [File -> Inode \cup {None, OnExecId}]]
          /\ \A q \in Proc, g \in File :
               lockList'[q][g] = IF q = p /\ g = f THEN OnExecId ELSE lockList[q][g]
          /\ \A q \in Proc \ {p} : lockList'[q] = lockList[q]
      BY <2>1, <3>1, ListAssign
    <3>3. Frame(p)
      BY <2>1, <3>1, <3>2, LockNextInv
    <3>4. /\ lockList'[p][f] # None
          /\ \A g \in File : lockList[p][g] # None => lockList'[p][g] # None
      BY <2>1, <3>2, LockAssumption
    <3>5. Covered(p)'
      BY <1>1, <2>1, <3>1, <3>4, LockNextCovered DEF f
    <3> QED
      BY <3>3, <3>5, CoveredOfOne
  <2>3. CASE ~sibling /\ p \in ReturnOnNoLock
    <3>1. lockList' = lockList /\ LockNext(p, FALSE)
      BY <1>6, <2>3 DEF LockMatchExecId
    <3>2. Frame(p)
      BY <2>1, <3>1, LockNextInv DEF ProcTypeOK
    <3>3. todo[p] = {f} \/ f \notin Required(p)
      BY <1>1, <2>1, <2>3, NotTheLast DEF Covered
    <3>4. Covered(p)'
      BY <1>1, <2>1, <3>1, <3>3, LockNextCovered
    <3> QED
      BY <3>2, <3>4, CoveredOfOne
  <2>4. CASE ~sibling /\ p \notin ReturnOnNoLock
    <3>1. /\ pc' = [pc EXCEPT ![p] = "exit"] /\ fd' = [fd EXCEPT ![p] = None]
          /\ UNCHANGED <<todo, lockList>>
      BY <1>6, <2>4 DEF LockMatchExecId
    <3>2. Frame(p) /\ pc'[p] = "exit"
      BY <3>1 DEF Frame, ProcTypeOK
    <3> QED
      BY <1>1, <3>1, <3>2, CoveredElsewhere, CoveredOfOne DEF Covered
  <2> QED
    BY <2>2, <2>3, <2>4
<1> QED
  BY <1>2, <1>3, <1>4, <1>5, <1>6 DEF Acquire

LEMMA ExitCovered ==
  ASSUME LockInv, AllCovered, NEW p \in Proc, ProcessExit(p)
  PROVE  AllCovered'
<1>1. Frame(p) /\ pc'[p] = "dead" /\ todo'[p] = {}
  BY DEF LockInv, LockTypeOK, ProcessExit, Frame, ProcTypeOK
<1> QED
  BY <1>1, CoveredElsewhere, CoveredOfOne

(* A command that works keeps its list, one that releases claims nothing.  *)
LEMMA WorkCovered ==
  ASSUME LockInv, AllCovered, NEW p \in Proc, Work(p) \/ Release(p) \/ Crash(p)
  PROVE  AllCovered'
<1> USE DEF LockInv, LockTypeOK, Through
<1>1. Covered(p) /\ Required(p)' = Required(p)
  BY DEF AllCovered, Required
<1>2. CASE LockStopTest(p) \/ LockTruncate(p) \/ LockRewrite(p)
  <2>1. /\ Frame(p) /\ todo' = todo /\ lockList' = lockList
        /\ pc[p] \in {"test", "work", "rewrite"}
        /\ pc'[p] \in {"work", "rewrite", "exit"}
    BY <1>2 DEF LockStopTest, LockTruncate, LockRewrite, Frame, ProcTypeOK
  <2> QED
    BY <1>1, <2>1, CoveredOfOne DEF Covered
<1>3. CASE ProcessExit(p)
  BY <1>3, ExitCovered
<1>4. CASE CmdLockRelease(p) /\ held[p]
  <2>1. Frame(p) /\ todo' = todo /\ pc'[p] = "release"
    BY <1>4 DEF CmdLockRelease, Frame, ProcTypeOK
  <2> QED
    BY <1>1, <2>1, CoveredElsewhere, CoveredOfOne DEF Covered
<1>5. CASE LockUnlink(p) \/ LockClose(p)
  <2>1. /\ todo' = todo /\ fd' = fd /\ pc'[p] \in {"release", "close"}
        /\ \A q \in Proc \ {p} : pc'[q] = pc[q] /\ lockList'[q] = lockList[q]
    BY <1>5 DEF LockUnlink, LockClose, ProcTypeOK
  <2> QED
    BY <1>1, <2>1, CoveredElsewhere, CoveredOfOne DEF Covered, Frame
<1> QED
  BY <1>2, <1>3, <1>4, <1>5 DEF Work, Release, Crash, CmdLockRelease, LockReleased

(* A command that works has every lock file it asked for, whatever process *)
(* got in between, for any number of files, processes and readers; one     *)
(* that passes .returnOnNoLock has the last of its files, and no more is   *)
(* true of it (command/lock.c:108-117).                                    *)
THEOREM LockHeldCovers == Spec => []HeldCoversLockFiles
<1>1. Init => AllCovered
  BY LockAssumption DEF Init, AllCovered, Covered, Through
<1>2. LockInv /\ AllCovered /\ [Next]_vars => AllCovered'
  <2> SUFFICES ASSUME LockInv, AllCovered, [Next]_vars PROVE AllCovered'
    OBVIOUS
  <2>1. ASSUME NEW p \in Proc, Acquire(p) \/ Release(p) \/ Work(p) \/ Crash(p)
        PROVE  AllCovered'
    BY <2>1, AcquireCovered, WorkCovered
  <2>2. ASSUME NEW r \in Reader, Read(r) PROVE AllCovered'
    BY <2>2, CoveredUnchanged
    DEF Read, ReadBegin, StopList, ReadOpen, ReadFlock, ReadData, ReadUnlink, ReadClose
  <2>3. CASE CmdStart \/ UNCHANGED vars
    BY <2>3, CoveredUnchanged DEF CmdStart, vars, procVars
  <2> QED
    BY <2>1, <2>2, <2>3 DEF Next
<1>3. AllCovered => HeldCoversLockFiles
  BY DEF AllCovered, Covered, HeldCoversLockFiles
<1> QED
  BY <1>1, <1>2, <1>3, LockInvariant, PTL DEF Spec

-----------------------------------------------------------------------------
(* The stanza commands.  A command is the list of what it has still to do; *)
(* the invariants speak of its outcome, the files once it is done, and of  *)
(* the mixtures of old and new files on the way there.                     *)

(* Histories of databases, and what an info file may hold.                 *)
Histories == Seq(Databases) \ {<<>>}
Contents == Histories \union {Sta!Missing, Sta!Damaged}
Ops == [op : {"put", "clear", "stop"}, file : Sta!InfoFiles, value : Contents]

(* Every command writes the files in this order.                           *)
Ord(f) == (IF f[1] = "archive" THEN 0 ELSE 2) + (IF f[2] = "main" THEN 1 ELSE 2)

(* The writes that a command has still to do.                              *)
PutIn(s, f, v) ==
  \E j \in 1 .. Len(s) : s[j].op = "put" /\ s[j].file = f /\ s[j].value = v

Sorted(s) ==
  \A i, j \in 1 .. Len(s) :
    i < j /\ s[i].op = "put" /\ s[j].op = "put" => Ord(s[i].file) < Ord(s[j].file)

(* The files once a command has done its writes.                           *)
Outcome(s, g, fin) ==
  /\ fin \in [Sta!InfoFiles -> Contents]
  /\ \A f \in Sta!InfoFiles :
       /\ \A v \in Contents : PutIn(s, f, v) => fin[f] = v
       /\ (\A v \in Contents : ~PutIn(s, f, v)) => fin[f] = g[f]

(* Writes to the files of one kind.                                        *)
KindPlan(s, k) ==
  /\ s \in Seq(Ops)
  /\ Sorted(s)
  /\ \A f \in Sta!InfoFiles, v \in Contents : PutIn(s, f, v) => f[1] = k

-----------------------------------------------------------------------------
LEMMA FileCases ==
  ASSUME NEW f \in Sta!InfoFiles
  PROVE  /\ f \in {<<"archive", "main">>, <<"archive", "copy">>, <<"backup", "main">>, <<"backup", "copy">>}
         /\ f[1] \in Sta!Kinds
         /\ f = <<f[1], "main">> \/ f = <<f[1], "copy">>
         /\ Ord(f) \in 1 .. 4
BY DEF Sta!InfoFiles, Sta!Main, Sta!Copy, Sta!Kinds, Ord

LEMMA FileNames ==
  /\ Sta!InfoFiles = {<<"archive", "main">>, <<"archive", "copy">>, <<"backup", "main">>, <<"backup", "copy">>}
  /\ Sta!Kinds = {"archive", "backup"}
  /\ Sta!Main("archive") = <<"archive", "main">> /\ Sta!Main("backup") = <<"backup", "main">>
  /\ Sta!Copy("archive") = <<"archive", "copy">> /\ Sta!Copy("backup") = <<"backup", "copy">>
  /\ Ord(<<"archive", "main">>) = 1 /\ Ord(<<"archive", "copy">>) = 2
  /\ Ord(<<"backup", "main">>) = 3 /\ Ord(<<"backup", "copy">>) = 4
BY DEF Sta!InfoFiles, Sta!Main, Sta!Copy, Sta!Kinds, Ord

LEMMA ContentsDistinct ==
  /\ Sta!Missing \notin Histories /\ Sta!Damaged \notin Histories
  /\ Sta!Missing # Sta!Damaged
BY DatabasesAssumption DEF Histories, Sta!Missing, Sta!Damaged

LEMMA PutInTail ==
  ASSUME NEW s \in Seq(Ops), s # <<>>, NEW f, NEW v
  PROVE  PutIn(s, f, v) <=> \/ Head(s).op = "put" /\ Head(s).file = f /\ Head(s).value = v
                            \/ PutIn(Tail(s), f, v)
<1>1. /\ Len(s) \in Nat \ {0} /\ Len(Tail(s)) = Len(s) - 1 /\ Head(s) = s[1]
      /\ \A i \in 1 .. Len(Tail(s)) : Tail(s)[i] = s[i + 1]
  OBVIOUS
<1>2. ASSUME PutIn(s, f, v), ~(Head(s).op = "put" /\ Head(s).file = f /\ Head(s).value = v)
      PROVE  PutIn(Tail(s), f, v)
  <2>1. PICK j \in 1 .. Len(s) : s[j].op = "put" /\ s[j].file = f /\ s[j].value = v
    BY <1>2 DEF PutIn
  <2>2. j # 1 /\ j - 1 \in 1 .. Len(Tail(s)) /\ Tail(s)[j - 1] = s[j]
    BY <1>1, <1>2, <2>1
  <2> QED
    BY <2>1, <2>2 DEF PutIn
<1>3. ASSUME PutIn(Tail(s), f, v) PROVE PutIn(s, f, v)
  <2>1. PICK j \in 1 .. Len(Tail(s)) : Tail(s)[j].op = "put" /\ Tail(s)[j].file = f /\ Tail(s)[j].value = v
    BY <1>3 DEF PutIn
  <2>2. j + 1 \in 1 .. Len(s) /\ s[j + 1] = Tail(s)[j]
    BY <1>1, <2>1
  <2> QED
    BY <2>1, <2>2 DEF PutIn
<1>4. ASSUME Head(s).op = "put", Head(s).file = f, Head(s).value = v PROVE PutIn(s, f, v)
  BY <1>1, <1>4 DEF PutIn
<1> QED
  BY <1>2, <1>3, <1>4

LEMMA SortedTail ==
  ASSUME NEW s \in Seq(Ops), s # <<>>, Sorted(s)
  PROVE  /\ Tail(s) \in Seq(Ops) /\ Sorted(Tail(s))
         /\ \A f, v : Head(s).op = "put" /\ PutIn(Tail(s), f, v) => Ord(Head(s).file) < Ord(f)
<1>1. /\ Len(s) \in Nat \ {0} /\ Len(Tail(s)) = Len(s) - 1 /\ Head(s) = s[1]
      /\ \A i \in 1 .. Len(Tail(s)) : Tail(s)[i] = s[i + 1]
      /\ Tail(s) \in Seq(Ops)
  OBVIOUS
<1>2. Sorted(Tail(s))
  <2> SUFFICES ASSUME NEW i \in 1 .. Len(Tail(s)), NEW j \in 1 .. Len(Tail(s)), i < j,
                      Tail(s)[i].op = "put", Tail(s)[j].op = "put"
               PROVE  Ord(Tail(s)[i].file) < Ord(Tail(s)[j].file)
    BY DEF Sorted
  <2>1. i + 1 \in 1 .. Len(s) /\ j + 1 \in 1 .. Len(s) /\ i + 1 < j + 1 /\ Tail(s)[i] = s[i + 1] /\ Tail(s)[j] = s[j + 1]
    BY <1>1
  <2> QED
    BY <2>1 DEF Sorted
<1>3. ASSUME NEW f, NEW v, Head(s).op = "put", PutIn(Tail(s), f, v) PROVE Ord(Head(s).file) < Ord(f)
  <2>1. PICK j \in 1 .. Len(Tail(s)) : Tail(s)[j].op = "put" /\ Tail(s)[j].file = f /\ Tail(s)[j].value = v
    BY <1>3 DEF PutIn
  <2>2. 1 \in 1 .. Len(s) /\ j + 1 \in 1 .. Len(s) /\ 1 < j + 1 /\ s[j + 1] = Tail(s)[j]
    BY <1>1, <2>1
  <2> QED
    BY <1>1, <1>3, <2>1, <2>2 DEF Sorted
<1> QED
  BY <1>1, <1>2, <1>3

LEMMA PutInConcat ==
  ASSUME NEW s \in Seq(Ops), NEW t \in Seq(Ops), NEW f, NEW v
  PROVE  PutIn(s \o t, f, v) <=> PutIn(s, f, v) \/ PutIn(t, f, v)
<1>1. /\ Len(s \o t) = Len(s) + Len(t) /\ Len(s) \in Nat /\ Len(t) \in Nat
      /\ \A i \in 1 .. Len(s) : (s \o t)[i] = s[i]
      /\ \A i \in 1 .. Len(t) : (s \o t)[i + Len(s)] = t[i]
  BY ConcatProperties
<1>2. ASSUME PutIn(s \o t, f, v), ~PutIn(s, f, v) PROVE PutIn(t, f, v)
  <2>1. PICK j \in 1 .. Len(s \o t) : (s \o t)[j].op = "put" /\ (s \o t)[j].file = f /\ (s \o t)[j].value = v
    BY <1>2 DEF PutIn
  <2>2. j \notin 1 .. Len(s)
    BY <1>1, <1>2, <2>1 DEF PutIn
  <2>3. j - Len(s) \in 1 .. Len(t) /\ (j - Len(s)) + Len(s) = j
    BY <1>1, <2>1, <2>2
  <2>4. t[j - Len(s)] = (s \o t)[j]
    BY <1>1, <2>3
  <2> QED
    BY <2>1, <2>3, <2>4 DEF PutIn
<1>3. ASSUME PutIn(s, f, v) PROVE PutIn(s \o t, f, v)
  <2>1. PICK j \in 1 .. Len(s) : s[j].op = "put" /\ s[j].file = f /\ s[j].value = v
    BY <1>3 DEF PutIn
  <2>2. j \in 1 .. Len(s \o t) /\ (s \o t)[j] = s[j]
    BY <1>1, <2>1
  <2> QED
    BY <2>1, <2>2 DEF PutIn
<1>4. ASSUME PutIn(t, f, v) PROVE PutIn(s \o t, f, v)
  <2>1. PICK j \in 1 .. Len(t) : t[j].op = "put" /\ t[j].file = f /\ t[j].value = v
    BY <1>4 DEF PutIn
  <2>2. j + Len(s) \in 1 .. Len(s \o t) /\ (s \o t)[j + Len(s)] = t[j]
    BY <1>1, <2>1
  <2> QED
    BY <2>1, <2>2 DEF PutIn
<1> QED
  BY <1>2, <1>3, <1>4

LEMMA SortedConcat ==
  ASSUME NEW s \in Seq(Ops), NEW t \in Seq(Ops), Sorted(s), Sorted(t),
         \A f, g \in Sta!InfoFiles, v, w \in Contents : PutIn(s, f, v) /\ PutIn(t, g, w) => Ord(f) < Ord(g)
  PROVE  s \o t \in Seq(Ops) /\ Sorted(s \o t)
<1>1. /\ s \o t \in Seq(Ops) /\ Len(s \o t) = Len(s) + Len(t) /\ Len(s) \in Nat /\ Len(t) \in Nat
      /\ \A i \in 1 .. Len(s) : (s \o t)[i] = s[i]
      /\ \A i \in 1 .. Len(t) : (s \o t)[i + Len(s)] = t[i]
  BY ConcatProperties
<1>2. Sorted(s \o t)
  <2> SUFFICES ASSUME NEW i \in 1 .. Len(s \o t), NEW j \in 1 .. Len(s \o t), i < j,
                      (s \o t)[i].op = "put", (s \o t)[j].op = "put"
               PROVE  Ord((s \o t)[i].file) < Ord((s \o t)[j].file)
    BY DEF Sorted
  <2>1. CASE j <= Len(s)
    <3>1. i \in 1 .. Len(s) /\ j \in 1 .. Len(s) /\ (s \o t)[i] = s[i] /\ (s \o t)[j] = s[j]
      BY <1>1, <2>1
    <3> QED
      BY <3>1 DEF Sorted
  <2>2. CASE i > Len(s)
    <3>1. /\ i - Len(s) \in 1 .. Len(t) /\ j - Len(s) \in 1 .. Len(t) /\ i - Len(s) < j - Len(s)
          /\ (i - Len(s)) + Len(s) = i /\ (j - Len(s)) + Len(s) = j
      BY <1>1, <2>2
    <3>2. (s \o t)[i] = t[i - Len(s)] /\ (s \o t)[j] = t[j - Len(s)]
      BY <1>1, <3>1
    <3> QED
      BY <3>1, <3>2 DEF Sorted
  <2>3. CASE i <= Len(s) /\ j > Len(s)
    <3>1. i \in 1 .. Len(s) /\ j - Len(s) \in 1 .. Len(t) /\ (j - Len(s)) + Len(s) = j
      BY <1>1, <2>3
    <3>2. (s \o t)[i] = s[i] /\ (s \o t)[j] = t[j - Len(s)]
      BY <1>1, <3>1
    <3>3. s[i] \in Ops /\ t[j - Len(s)] \in Ops
      BY <3>1
    <3>4. PutIn(s, s[i].file, s[i].value) /\ PutIn(t, t[j - Len(s)].file, t[j - Len(s)].value)
      BY <3>1, <3>2 DEF PutIn
    <3> QED
      BY <3>2, <3>3, <3>4 DEF Ops
  <2> QED
    BY <1>1, <2>1, <2>2, <2>3
<1> QED
  BY <1>1, <1>2

-----------------------------------------------------------------------------
(* The plans of the commands.                                              *)

LEMMA EmptyPlan ==
  ASSUME NEW k
  PROVE  KindPlan(<<>>, k) /\ \A f, v : ~PutIn(<<>>, f, v)
BY DEF KindPlan, PutIn, Sorted

LEMMA PutIsOp ==
  ASSUME NEW f \in Sta!InfoFiles, NEW v \in Contents
  PROVE  Sta!Put(f, v) \in Ops /\ Sta!Put(f, v).op = "put" /\ Sta!Put(f, v).file = f /\ Sta!Put(f, v).value = v
BY DEF Sta!Put, Ops

LEMMA SinglePlan ==
  ASSUME NEW f \in Sta!InfoFiles, NEW v \in Contents
  PROVE  /\ KindPlan(<<Sta!Put(f, v)>>, f[1])
         /\ \A g, w : PutIn(<<Sta!Put(f, v)>>, g, w) <=> g = f /\ w = v
<1> DEFINE s == <<Sta!Put(f, v)>>
<1>1. s \in Seq(Ops) /\ Len(s) = 1 /\ s[1] = Sta!Put(f, v)
  BY PutIsOp
<1>2. \A g, w : PutIn(s, g, w) <=> g = f /\ w = v
  BY <1>1, PutIsOp DEF PutIn
<1>3. Sorted(s)
  BY <1>1 DEF Sorted
<1> QED
  BY <1>1, <1>2, <1>3 DEF KindPlan

LEMMA SavePlan ==
  ASSUME NEW k \in Sta!Kinds, NEW v \in Contents
  PROVE  /\ KindPlan(Sta!Save(k, v), k)
         /\ \A g \in Sta!InfoFiles : \A w : PutIn(Sta!Save(k, v), g, w) <=> g[1] = k /\ w = v
<1> DEFINE s == Sta!Save(k, v)
<1>0. Sta!Main(k) \in Sta!InfoFiles /\ Sta!Copy(k) \in Sta!InfoFiles /\ Ord(Sta!Main(k)) < Ord(Sta!Copy(k))
  BY DEF Sta!InfoFiles, Sta!Main, Sta!Copy, Ord
<1>1. s \in Seq(Ops) /\ Len(s) = 2 /\ s[1] = Sta!Put(Sta!Main(k), v) /\ s[2] = Sta!Put(Sta!Copy(k), v)
  BY <1>0, PutIsOp DEF Sta!Save
<1> HIDE DEF s
<1>2. \A g, w : PutIn(s, g, w) <=> g \in {Sta!Main(k), Sta!Copy(k)} /\ w = v
  <2>1. \A j \in 1 .. Len(s) : j = 1 \/ j = 2
    BY <1>1
  <2>2. 1 \in 1 .. Len(s) /\ 2 \in 1 .. Len(s)
    BY <1>1
  <2> QED
    BY <1>0, <1>1, <2>1, <2>2, PutIsOp DEF PutIn
<1>3. Sorted(s)
  <2>1. \A i, j \in 1 .. Len(s) : i < j => i = 1 /\ j = 2
    BY <1>1
  <2> QED
    BY <1>0, <1>1, <2>1, PutIsOp DEF Sorted
<1>4. \A g \in Sta!InfoFiles : g \in {Sta!Main(k), Sta!Copy(k)} <=> g[1] = k
  BY FileNames DEF Sta!Main, Sta!Copy
<1> QED
  BY <1>1, <1>2, <1>3, <1>4 DEF KindPlan, s

LEMMA TwoKindsPlan ==
  ASSUME NEW a, NEW b, KindPlan(a, "archive"), KindPlan(b, "backup")
  PROVE  /\ a \o b \in Seq(Ops) /\ Sorted(a \o b)
         /\ \A f, v : PutIn(a \o b, f, v) <=> PutIn(a, f, v) \/ PutIn(b, f, v)
<1>1. a \in Seq(Ops) /\ b \in Seq(Ops) /\ Sorted(a) /\ Sorted(b)
  BY DEF KindPlan
<1>2. \A f, g \in Sta!InfoFiles, v, w \in Contents : PutIn(a, f, v) /\ PutIn(b, g, w) => Ord(f) < Ord(g)
  <2> SUFFICES ASSUME NEW f \in Sta!InfoFiles, NEW g \in Sta!InfoFiles, f[1] = "archive", g[1] = "backup"
               PROVE  Ord(f) < Ord(g)
    BY DEF KindPlan
  <2> QED
    BY FileNames
<1> QED
  BY <1>1, <1>2, SortedConcat, PutInConcat

DeleteRest == <<Sta!Clear("archive"), Sta!Clear("backup"), Sta!RemoveStop>>

LEMMA DeletePlan ==
  ASSUME NEW s \in Seq(Ops), Sorted(s)
  PROVE  /\ s \o DeleteRest \in Seq(Ops) /\ Sorted(s \o DeleteRest)
         /\ \A f, v : PutIn(s \o DeleteRest, f, v) <=> PutIn(s, f, v)
<1>1. /\ DeleteRest \in Seq(Ops) /\ Len(DeleteRest) = 3
      /\ \A i \in 1 .. 3 : DeleteRest[i].op # "put"
  <2>1. Sta!Clear("archive") \in Ops /\ Sta!Clear("backup") \in Ops /\ Sta!RemoveStop \in Ops
    BY FileNames DEF Sta!Clear, Sta!RemoveStop, Ops, Contents
  <2>2. Sta!Clear("archive").op # "put" /\ Sta!Clear("backup").op # "put" /\ Sta!RemoveStop.op # "put"
    BY DEF Sta!Clear, Sta!RemoveStop
  <2> QED
    BY <2>1, <2>2 DEF DeleteRest
<1>2. Sorted(DeleteRest) /\ \A f, v : ~PutIn(DeleteRest, f, v)
  BY <1>1 DEF Sorted, PutIn
<1> QED
  BY <1>1, <1>2, SortedConcat, PutInConcat

-----------------------------------------------------------------------------
(* Types, and a command that writes each file once and in order.           *)
StanzaTypeOK ==
  /\ db \in Databases
  /\ info \in [Sta!InfoFiles -> Contents]
  /\ stored \subseteq Sta!Kinds \X (Nat \ {0}) \X Databases
  /\ cmd \in [on : BOOLEAN, todo : Seq(Ops)]
  /\ cmd.on <=> cmd.todo # <<>>
  /\ Sorted(cmd.todo)
  /\ push \in Nat
  /\ kills \in Nat /\ lost \in Nat
  /\ orphan \in BOOLEAN

LEMMA BeginType ==
  ASSUME StanzaTypeOK, NEW s \in Seq(Ops), Sorted(s), Sta!Begin(s)
  PROVE  /\ StanzaTypeOK'
         /\ cmd.todo = <<>> /\ ~cmd.on /\ cmd'.todo = s
         /\ UNCHANGED <<db, info, stored, push, kills, lost, orphan>>
<1>1. cmd' = [on |-> s # <<>>, todo |-> s] /\ ~cmd.on /\ UNCHANGED <<db, info, stored, push, kills, lost, orphan>>
  BY DEF Sta!Begin
<1>2. cmd' \in [on : BOOLEAN, todo : Seq(Ops)] /\ cmd'.todo = s /\ (cmd'.on <=> s # <<>>)
  BY <1>1
<1> QED
  BY <1>1, <1>2 DEF StanzaTypeOK

LEMMA ReadableIsHistory ==
  ASSUME StanzaTypeOK, NEW f \in Sta!InfoFiles
  PROVE  Sta!Readable(f) <=> info[f] \in Histories
BY ContentsDistinct DEF StanzaTypeOK, Sta!Readable, Contents

LEMMA LoadIsHistory ==
  ASSUME StanzaTypeOK, NEW k \in Sta!Kinds, Sta!Loads(k)
  PROVE  Sta!Load(k) \in Histories /\ (Sta!Load(k) = info[Sta!Main(k)] \/ Sta!Load(k) = info[Sta!Copy(k)])
<1>1. Sta!Main(k) \in Sta!InfoFiles /\ Sta!Copy(k) \in Sta!InfoFiles
  BY DEF Sta!InfoFiles
<1> QED
  BY <1>1, ReadableIsHistory DEF Sta!Loads, Sta!Load

LEMMA HistoryFacts ==
  ASSUME NEW h \in Histories
  PROVE  /\ Len(h) \in Nat \ {0}
         /\ \A i \in 1 .. Len(h) : h[i] \in Databases
         /\ Sta!Current(h) = h[Len(h)] /\ h[Len(h)] \in Databases
         /\ h \in Contents /\ h # Sta!Missing /\ h # Sta!Damaged
BY ContentsDistinct DEF Histories, Contents, Sta!Current, Sta!Last

LEMMA UpdatedFacts ==
  ASSUME NEW h \in Histories, db \in Databases
  PROVE  /\ Sta!Updated(h) \in Histories
         /\ h[Len(h)] = db => Sta!Updated(h) = h
         /\ h[Len(h)] # db => /\ Len(Sta!Updated(h)) = Len(h) + 1
                              /\ Sta!Updated(h)[Len(h) + 1] = db
                              /\ \A i \in 1 .. Len(h) : Sta!Updated(h)[i] = h[i]
                              /\ Sta!Updated(h) # h
                              /\ Sta!Front(Sta!Updated(h)) = h
<1>1. h \in Seq(Databases) /\ h # <<>> /\ Sta!Current(h) = h[Len(h)]
  BY HistoryFacts DEF Histories
<1>2. CASE h[Len(h)] = db
  BY <1>1, <1>2 DEF Sta!Updated
<1>3. CASE h[Len(h)] # db
  <2>1. Sta!Updated(h) = Append(h, db)
    BY <1>1, <1>3 DEF Sta!Updated, Sta!PgSet
  <2>2. Append(h, db) \in Seq(Databases) /\ Len(Append(h, db)) = Len(h) + 1 /\ Append(h, db)[Len(h) + 1] = db
        /\ \A i \in 1 .. Len(h) : Append(h, db)[i] = h[i]
    BY <1>1
  <2>3. SubSeq(Append(h, db), 1, Len(h)) = h
    BY <1>1
  <2>4. Append(h, db) # h /\ Append(h, db) # <<>>
    BY <1>1, <2>2
  <2>5. Len(Append(h, db)) - 1 = Len(h)
    BY <1>1, <2>2
  <2>6. Sta!Front(Append(h, db)) = h
    BY <2>3, <2>5 DEF Sta!Front
  <2>7. Append(h, db) \in Histories
    BY <2>2, <2>4 DEF Histories
  <2> QED
    BY <1>3, <2>1, <2>2, <2>4, <2>6, <2>7
<1> QED
  BY <1>2, <1>3

LEMMA CreateNewBegins ==
  ASSUME StanzaTypeOK, Sta!CreateNew
  PROVE  /\ \A f \in Sta!InfoFiles : info[f] = Sta!Missing
         /\ stored = {}
         /\ \E s \in Seq(Ops) : /\ Sorted(s) /\ Sta!Begin(s)
                                /\ \A f \in Sta!InfoFiles : \A v : PutIn(s, f, v) <=> v = <<db>>
<1>1. <<db>> \in Contents
  BY DEF StanzaTypeOK, Contents, Histories
<1>2. KindPlan(Sta!Save("archive", <<db>>), "archive") /\ KindPlan(Sta!Save("backup", <<db>>), "backup")
  BY <1>1, SavePlan, FileNames
<1>3. ASSUME NEW f \in Sta!InfoFiles, NEW v
      PROVE  PutIn(Sta!Save("archive", <<db>>) \o Sta!Save("backup", <<db>>), f, v) <=> v = <<db>>
  <2>1. /\ PutIn(Sta!Save("archive", <<db>>), f, v) <=> f[1] = "archive" /\ v = <<db>>
        /\ PutIn(Sta!Save("backup", <<db>>), f, v) <=> f[1] = "backup" /\ v = <<db>>
    BY <1>1, SavePlan DEF Sta!Kinds
  <2>2. f[1] = "archive" \/ f[1] = "backup"
    BY FileCases DEF Sta!Kinds
  <2> QED
    BY <1>2, <2>1, <2>2, TwoKindsPlan
<1>4. \A f \in Sta!InfoFiles : info[f] = Sta!Missing
  BY FileNames DEF Sta!CreateNew, Sta!AnyInfo, Sta!Exists
<1> QED
  BY <1>2, <1>3, <1>4, TwoKindsPlan DEF Sta!CreateNew

LEMMA CompletePlan ==
  ASSUME StanzaTypeOK, NEW k \in Sta!Kinds
  PROVE  /\ KindPlan(Sta!Complete(k), k)
         /\ \A f \in Sta!InfoFiles : \A v : PutIn(Sta!Complete(k), f, v) <=>
              \/ f = Sta!Main(k) /\ info[f] = Sta!Missing /\ v = info[Sta!Copy(k)]
              \/ f = Sta!Copy(k) /\ info[f] = Sta!Missing /\ info[Sta!Main(k)] # Sta!Missing /\ v = info[Sta!Main(k)]
<1>1. /\ Sta!Main(k) \in Sta!InfoFiles /\ Sta!Copy(k) \in Sta!InfoFiles
      /\ Sta!Main(k)[1] = k /\ Sta!Copy(k)[1] = k /\ Sta!Main(k) # Sta!Copy(k)
  BY DEF Sta!InfoFiles, Sta!Main, Sta!Copy
<1>2. info[Sta!Main(k)] \in Contents /\ info[Sta!Copy(k)] \in Contents
  BY <1>1 DEF StanzaTypeOK
<1>3. CASE info[Sta!Main(k)] = Sta!Missing
  <2>1. Sta!Complete(k) = <<Sta!Put(Sta!Main(k), info[Sta!Copy(k)])>>
    BY <1>3 DEF Sta!Complete, Sta!Exists
  <2> QED
    BY <1>1, <1>2, <1>3, <2>1, SinglePlan
<1>4. CASE info[Sta!Main(k)] # Sta!Missing /\ info[Sta!Copy(k)] = Sta!Missing
  <2>1. Sta!Complete(k) = <<Sta!Put(Sta!Copy(k), info[Sta!Main(k)])>>
    BY <1>4 DEF Sta!Complete, Sta!Exists
  <2> QED
    BY <1>1, <1>2, <1>4, <2>1, SinglePlan
<1>5. CASE info[Sta!Main(k)] # Sta!Missing /\ info[Sta!Copy(k)] # Sta!Missing
  <2>1. Sta!Complete(k) = <<>>
    BY <1>5 DEF Sta!Complete, Sta!Exists
  <2> QED
    BY <1>5, <2>1, EmptyPlan
<1> QED
  BY <1>3, <1>4, <1>5

LEMMA CreateExistingBegins ==
  ASSUME StanzaTypeOK, Sta!CreateExisting
  PROVE  /\ \A k \in Sta!Kinds : Sta!Loads(k)
         /\ Sta!InfosMatch(Sta!Load("archive"), Sta!Load("backup"))
         /\ \E s \in Seq(Ops) :
              /\ Sorted(s) /\ Sta!Begin(s)
              /\ \A f \in Sta!InfoFiles : \A v : PutIn(s, f, v) <=>
                   \/ f = Sta!Main(f[1]) /\ info[f] = Sta!Missing /\ v = info[Sta!Copy(f[1])]
                   \/ f = Sta!Copy(f[1]) /\ info[f] = Sta!Missing /\ info[Sta!Main(f[1])] # Sta!Missing
                      /\ v = info[Sta!Main(f[1])]
<1> DEFINE a == Sta!Complete("archive")
           b == Sta!Complete("backup")
<1>1. "archive" \in Sta!Kinds /\ "backup" \in Sta!Kinds
  BY DEF Sta!Kinds
<1>2. KindPlan(a, "archive") /\ KindPlan(b, "backup")
  BY <1>1, CompletePlan
<1>3. /\ a \o b \in Seq(Ops) /\ Sorted(a \o b)
      /\ \A f, v : PutIn(a \o b, f, v) <=> PutIn(a, f, v) \/ PutIn(b, f, v)
  BY <1>2, TwoKindsPlan
<1>4. Sta!Begin(a \o b)
  BY DEF Sta!CreateExisting
<1>5. ASSUME NEW f \in Sta!InfoFiles, NEW v
      PROVE  PutIn(a \o b, f, v) <=>
               \/ f = Sta!Main(f[1]) /\ info[f] = Sta!Missing /\ v = info[Sta!Copy(f[1])]
               \/ f = Sta!Copy(f[1]) /\ info[f] = Sta!Missing /\ info[Sta!Main(f[1])] # Sta!Missing
                  /\ v = info[Sta!Main(f[1])]
  <2>1. CASE f[1] = "archive"
    <3>1. f # Sta!Main("backup") /\ f # Sta!Copy("backup")
      BY <2>1 DEF Sta!Main, Sta!Copy
    <3>2. ~PutIn(b, f, v)
      BY <1>1, <3>1, CompletePlan
    <3> QED
      BY <1>1, <1>3, <2>1, <3>2, CompletePlan
  <2>2. CASE f[1] = "backup"
    <3>1. f # Sta!Main("archive") /\ f # Sta!Copy("archive")
      BY <2>2 DEF Sta!Main, Sta!Copy
    <3>2. ~PutIn(a, f, v)
      BY <1>1, <3>1, CompletePlan
    <3> QED
      BY <1>1, <1>3, <2>2, <3>2, CompletePlan
  <2> QED
    BY <2>1, <2>2, FileCases DEF Sta!Kinds
<1> QED
  BY <1>3, <1>4, <1>5 DEF Sta!CreateExisting, Sta!InfosMatchPg

LEMMA SavesPlan ==
  ASSUME NEW a \in Contents, NEW b \in Contents, NEW p, NEW q,
         p \in {<<>>, Sta!Save("archive", a)}, q \in {<<>>, Sta!Save("backup", b)}
  PROVE  /\ p \o q \in Seq(Ops) /\ Sorted(p \o q)
         /\ \A f \in Sta!InfoFiles : \A v : PutIn(p \o q, f, v) <=>
              \/ f[1] = "archive" /\ p = Sta!Save("archive", a) /\ v = a
              \/ f[1] = "backup" /\ q = Sta!Save("backup", b) /\ v = b
<1>0. "archive" \in Sta!Kinds /\ "backup" \in Sta!Kinds
  BY DEF Sta!Kinds
<1>1. Sta!Save("archive", a) # <<>> /\ Sta!Save("backup", b) # <<>>
  BY DEF Sta!Save
<1>2. KindPlan(p, "archive") /\ KindPlan(q, "backup")
  BY <1>0, SavePlan, EmptyPlan
<1>3. ASSUME NEW f \in Sta!InfoFiles, NEW v
      PROVE  /\ PutIn(p, f, v) <=> f[1] = "archive" /\ p = Sta!Save("archive", a) /\ v = a
             /\ PutIn(q, f, v) <=> f[1] = "backup" /\ q = Sta!Save("backup", b) /\ v = b
  BY <1>0, <1>1, SavePlan, EmptyPlan
<1> QED
  BY <1>2, <1>3, TwoKindsPlan

LEMMA UpgradeBegins ==
  ASSUME StanzaTypeOK, Sta!Upgrade
  PROVE  /\ \A k \in Sta!Kinds : Sta!Loads(k)
         /\ Sta!InfosMatch(Sta!Updated(Sta!Load("archive")), Sta!Updated(Sta!Load("backup")))
         /\ \E s \in Seq(Ops) :
              /\ Sorted(s) /\ Sta!Begin(s)
              /\ \A f \in Sta!InfoFiles : \A v : PutIn(s, f, v) <=>
                   v = Sta!Updated(Sta!Load(f[1])) /\ v # Sta!Load(f[1])
<1> DEFINE old(k) == Sta!Load(k)
           new(k) == Sta!Updated(Sta!Load(k))
           save(k) == IF new(k) = Sta!Load(k) THEN <<>> ELSE Sta!Save(k, new(k))
<1>0. "archive" \in Sta!Kinds /\ "backup" \in Sta!Kinds
  BY DEF Sta!Kinds
<1>1. /\ \A k \in Sta!Kinds : Sta!Loads(k)
      /\ Sta!InfosMatch(new("archive"), new("backup"))
      /\ Sta!Begin(save("archive") \o save("backup"))
  BY DEF Sta!Upgrade
<1>2. new("archive") \in Contents /\ new("backup") \in Contents
  BY <1>0, <1>1, LoadIsHistory, UpdatedFacts, HistoryFacts DEF StanzaTypeOK
<1>3. /\ save("archive") \in {<<>>, Sta!Save("archive", new("archive"))}
      /\ save("backup") \in {<<>>, Sta!Save("backup", new("backup"))}
  OBVIOUS
<1>4. /\ save("archive") = Sta!Save("archive", new("archive")) <=> new("archive") # old("archive")
      /\ save("backup") = Sta!Save("backup", new("backup")) <=> new("backup") # old("backup")
  BY DEF Sta!Save
<1> HIDE DEF old, new, save
<1>5. /\ save("archive") \o save("backup") \in Seq(Ops) /\ Sorted(save("archive") \o save("backup"))
      /\ \A f \in Sta!InfoFiles : \A v : PutIn(save("archive") \o save("backup"), f, v) <=>
           \/ f[1] = "archive" /\ save("archive") = Sta!Save("archive", new("archive")) /\ v = new("archive")
           \/ f[1] = "backup" /\ save("backup") = Sta!Save("backup", new("backup")) /\ v = new("backup")
  BY <1>2, <1>3, SavesPlan
<1>6. ASSUME NEW f \in Sta!InfoFiles, NEW v
      PROVE  PutIn(save("archive") \o save("backup"), f, v) <=> v = new(f[1]) /\ v # old(f[1])
  <2>1. f[1] = "archive" \/ f[1] = "backup"
    BY FileCases DEF Sta!Kinds
  <2> QED
    BY <1>4, <1>5, <2>1
<1> QED
  BY <1>1, <1>5, <1>6 DEF old, new

Present(k) == Sta!AnyInfo(k) \/ Sta!Stored(k) # {}

LEMMA DeleteBegins ==
  ASSUME StanzaTypeOK, Sta!Delete
  PROVE  \E s \in Seq(Ops) :
           /\ Sorted(s) /\ Sta!Begin(s)
           /\ \A f \in Sta!InfoFiles : \A v : PutIn(s, f, v) <=> Present(f[1]) /\ v = Sta!Missing
<1> DEFINE remove(k) == IF Present(k) THEN Sta!Save(k, Sta!Missing) ELSE <<>>
           s == remove("archive") \o remove("backup")
<1>1. Sta!Begin(s \o DeleteRest)
  BY DEF Sta!Delete, DeleteRest, Present
<1>2. /\ remove("archive") \in {<<>>, Sta!Save("archive", Sta!Missing)}
      /\ remove("backup") \in {<<>>, Sta!Save("backup", Sta!Missing)}
  OBVIOUS
<1>3. /\ remove("archive") = Sta!Save("archive", Sta!Missing) <=> Present("archive")
      /\ remove("backup") = Sta!Save("backup", Sta!Missing) <=> Present("backup")
  BY DEF Sta!Save
<1>4. Sta!Missing \in Contents
  BY DEF Contents
<1> HIDE DEF remove
<1>5. /\ s \in Seq(Ops) /\ Sorted(s)
      /\ \A f \in Sta!InfoFiles : \A v : PutIn(s, f, v) <=>
           \/ f[1] = "archive" /\ remove("archive") = Sta!Save("archive", Sta!Missing) /\ v = Sta!Missing
           \/ f[1] = "backup" /\ remove("backup") = Sta!Save("backup", Sta!Missing) /\ v = Sta!Missing
  BY <1>2, <1>4, SavesPlan
<1> HIDE DEF s
<1>6. /\ s \o DeleteRest \in Seq(Ops) /\ Sorted(s \o DeleteRest)
      /\ \A f, v : PutIn(s \o DeleteRest, f, v) <=> PutIn(s, f, v)
  BY <1>5, DeletePlan
<1>7. ASSUME NEW f \in Sta!InfoFiles, NEW v
      PROVE  PutIn(s \o DeleteRest, f, v) <=> Present(f[1]) /\ v = Sta!Missing
  <2>1. f[1] = "archive" \/ f[1] = "backup"
    BY FileCases DEF Sta!Kinds
  <2> QED
    BY <1>3, <1>5, <1>6, <2>1
<1> QED
  BY <1>1, <1>6, <1>7

-----------------------------------------------------------------------------
(* A step of a command: the first thing it has to do.                      *)
LEMMA RestOfPlan ==
  ASSUME NEW s \in Seq(Ops), s # <<>>, Sorted(s), NEW rest, rest = [on |-> Len(s) > 1, todo |-> Tail(s)]
  PROVE  /\ rest \in [on : BOOLEAN, todo : Seq(Ops)] /\ rest.todo = Tail(s)
         /\ rest.on <=> rest.todo # <<>>
         /\ Sorted(rest.todo)
<1>1. Tail(s) \in Seq(Ops) /\ Len(Tail(s)) = Len(s) - 1 /\ Len(s) \in Nat \ {0} /\ Sorted(Tail(s))
  BY SortedTail
<1>2. Tail(s) # <<>> => Len(Tail(s)) \in Nat \ {0}
  BY <1>1, EmptySeq, Zenon
<1>3. Tail(s) = <<>> => Len(Tail(s)) = 0
  BY EmptySeq, Zenon
<1>4. Len(s) > 1 <=> Tail(s) # <<>>
  BY <1>1, <1>2, <1>3
<1>5. rest.todo = Tail(s) /\ rest.on = (Len(s) > 1) /\ (Len(s) > 1) \in BOOLEAN
  OBVIOUS
<1>6. rest \in [on : BOOLEAN, todo : Seq(Ops)]
  BY <1>1, <1>5
<1> QED
  BY <1>1, <1>4, <1>5, <1>6

LEMMA StepFacts ==
  ASSUME StanzaTypeOK, Sta!Step
  PROVE  /\ StanzaTypeOK'
         /\ UNCHANGED <<db, push, kills, lost, orphan>>
         /\ stored' \subseteq stored
         /\ \/ /\ cmd.todo # <<>> /\ Head(cmd.todo) \in Ops
               /\ cmd'.todo = Tail(cmd.todo) /\ Head(cmd.todo).op = "put"
               /\ info' = [info EXCEPT ![Head(cmd.todo).file] = Head(cmd.todo).value]
               /\ UNCHANGED stored
            \/ /\ UNCHANGED info
               /\ \A f, v : PutIn(cmd'.todo, f, v) <=> PutIn(cmd.todo, f, v)
<1> DEFINE o == Head(cmd.todo)
           rest == [on |-> Len(cmd.todo) > 1, todo |-> Tail(cmd.todo)]
<1>1. cmd.todo \in Seq(Ops) /\ cmd.todo # <<>>
  BY DEF StanzaTypeOK, Sta!Step
<1>2. o \in Ops /\ Tail(cmd.todo) \in Seq(Ops) /\ Sorted(Tail(cmd.todo))
  BY <1>1, SortedTail DEF StanzaTypeOK
<1>4. rest \in [on : BOOLEAN, todo : Seq(Ops)] /\ (rest.on <=> rest.todo # <<>>) /\ Sorted(rest.todo) /\ rest.todo = Tail(cmd.todo)
  BY <1>1, RestOfPlan DEF StanzaTypeOK
<1>5. UNCHANGED <<db, push, kills, lost, orphan>>
  BY DEF Sta!Step
<1>6. CASE o.op = "put"
  <2>1. info' = [info EXCEPT ![o.file] = o.value] /\ cmd' = rest /\ UNCHANGED stored
    BY <1>6 DEF Sta!Step
  <2>2. info' \in [Sta!InfoFiles -> Contents]
    BY <1>2, <2>1 DEF StanzaTypeOK, Ops
  <2>3. StanzaTypeOK'
    BY <1>4, <1>5, <2>1, <2>2 DEF StanzaTypeOK
  <2> QED
    BY <1>1, <1>2, <1>4, <1>5, <1>6, <2>1, <2>3
<1>7. CASE o.op # "put"
  <2>1. UNCHANGED info /\ stored' \subseteq stored /\ (cmd' = rest \/ cmd' = cmd)
    BY <1>7 DEF Sta!Step, Sta!Stored
  <2>2. StanzaTypeOK'
    <3>1. /\ cmd' \in [on : BOOLEAN, todo : Seq(Ops)] /\ (cmd'.on <=> cmd'.todo # <<>>) /\ Sorted(cmd'.todo)
      BY <1>4, <2>1 DEF StanzaTypeOK
    <3> QED
      BY <1>5, <2>1, <3>1 DEF StanzaTypeOK
  <2>3. \A f, v : PutIn(cmd'.todo, f, v) <=> PutIn(cmd.todo, f, v)
    <3> SUFFICES ASSUME NEW f, NEW v PROVE PutIn(cmd'.todo, f, v) <=> PutIn(cmd.todo, f, v)
      OBVIOUS
    <3>1. PutIn(Tail(cmd.todo), f, v) <=> PutIn(cmd.todo, f, v)
      BY <1>1, <1>7, PutInTail
    <3>2. cmd'.todo = Tail(cmd.todo) \/ cmd'.todo = cmd.todo
      BY <1>4, <2>1
    <3> QED
      BY <3>1, <3>2
  <2> QED
    BY <1>5, <2>1, <2>2, <2>3
<1> QED
  BY <1>6, <1>7

LEMMA OutcomeIdle ==
  ASSUME NEW g \in [Sta!InfoFiles -> Contents]
  PROVE  /\ Outcome(<<>>, g, g)
         /\ \A fin : Outcome(<<>>, g, fin) => fin = g
BY EmptyPlan DEF Outcome

LEMMA OutcomeStep ==
  ASSUME StanzaTypeOK, StanzaTypeOK', NEW fin, Outcome(cmd.todo, info, fin),
         cmd.todo # <<>>, Head(cmd.todo) \in Ops, Head(cmd.todo).op = "put",
         cmd'.todo = Tail(cmd.todo),
         info' = [info EXCEPT ![Head(cmd.todo).file] = Head(cmd.todo).value]
  PROVE  /\ Outcome(cmd'.todo, info', fin)
         /\ Head(cmd.todo).file \in Sta!InfoFiles
         /\ info' = [info EXCEPT ![Head(cmd.todo).file] = fin[Head(cmd.todo).file]]
         /\ \A g \in Sta!InfoFiles : Ord(g) < Ord(Head(cmd.todo).file) => fin[g] = info[g]
<1> DEFINE f == Head(cmd.todo).file
           w == Head(cmd.todo).value
<1>1. f \in Sta!InfoFiles /\ w \in Contents
  BY DEF Ops
<1>2. cmd.todo \in Seq(Ops) /\ Sorted(cmd.todo) /\ info \in [Sta!InfoFiles -> Contents] /\ fin \in [Sta!InfoFiles -> Contents]
  BY DEF StanzaTypeOK, Outcome
<1>3. \A g \in Sta!InfoFiles : \A v : PutIn(cmd.todo, g, v) <=> (g = f /\ v = w) \/ PutIn(cmd'.todo, g, v)
  BY <1>2, PutInTail
<1>4. \A g, v : PutIn(cmd'.todo, g, v) => Ord(f) < Ord(g)
  BY <1>2, SortedTail
<1>5. fin[f] = w
  BY <1>1, <1>3 DEF Outcome
<1>6. ASSUME NEW g \in Sta!InfoFiles, NEW v \in Contents, PutIn(cmd'.todo, g, v) PROVE fin[g] = v
  BY <1>3, <1>6 DEF Outcome
<1>7. ASSUME NEW g \in Sta!InfoFiles, \A v \in Contents : ~PutIn(cmd'.todo, g, v) PROVE fin[g] = info'[g]
  <2>1. CASE g = f
    BY <1>2, <1>5, <2>1
  <2>2. CASE g # f
    <3>1. \A v \in Contents : ~PutIn(cmd.todo, g, v)
      BY <1>3, <1>7, <2>2
    <3> QED
      BY <1>2, <2>2, <3>1 DEF Outcome
  <2> QED
    BY <2>1, <2>2
<1>8. ASSUME NEW g \in Sta!InfoFiles, Ord(g) < Ord(f) PROVE fin[g] = info[g]
  <2>1. Ord(g) \in 1 .. 4 /\ Ord(f) \in 1 .. 4
    BY <1>1, FileCases
  <2>2. \A v \in Contents : ~PutIn(cmd.todo, g, v)
    BY <1>3, <1>4, <1>8, <2>1
  <2> QED
    BY <2>2 DEF Outcome
<1> QED
  BY <1>1, <1>2, <1>5, <1>6, <1>7, <1>8 DEF Outcome

LEMMA OutcomeSame ==
  ASSUME NEW s, NEW t, NEW g, NEW fin, Outcome(s, g, fin),
         \A f, v : PutIn(t, f, v) <=> PutIn(s, f, v)
  PROVE  Outcome(t, g, fin)
BY DEF Outcome

LEMMA InitStanzaType == Sta!Init => StanzaTypeOK
<1> SUFFICES ASSUME Sta!Init PROVE StanzaTypeOK
  OBVIOUS
<1>1. cmd = [on |-> FALSE, todo |-> <<>>]
  BY DEF Sta!Init, Sta!NoCommand
<1>2. cmd \in [on : BOOLEAN, todo : Seq(Ops)] /\ cmd.todo = <<>> /\ ~cmd.on
  BY <1>1
<1>3. Sorted(<<>>)
  BY EmptyPlan DEF KindPlan
<1>4. info \in [Sta!InfoFiles -> Contents]
  BY DEF Sta!Init, Contents
<1> QED
  BY <1>2, <1>3, <1>4 DEF Sta!Init, StanzaTypeOK

LEMMA KilledFacts ==
  ASSUME StanzaTypeOK, Sta!Killed
  PROVE  /\ StanzaTypeOK' /\ cmd'.todo = <<>> /\ kills' = kills + 1
         /\ UNCHANGED <<db, info, stored, push, lost, orphan>>
<1>1. cmd' = [on |-> FALSE, todo |-> <<>>] /\ kills' = kills + 1 /\ UNCHANGED <<db, info, stored, push, lost, orphan>>
  BY DEF Sta!Killed, Sta!NoCommand
<1>2. cmd' \in [on : BOOLEAN, todo : Seq(Ops)] /\ cmd'.todo = <<>> /\ ~cmd'.on
  BY <1>1
<1>3. Sorted(<<>>)
  BY EmptyPlan DEF KindPlan
<1> QED
  BY <1>1, <1>2, <1>3 DEF StanzaTypeOK

LEMMA PushCheckFacts ==
  ASSUME StanzaTypeOK, Sta!PushCheck
  PROVE  StanzaTypeOK' /\ UNCHANGED <<db, info, stored, cmd, kills, lost, orphan>>
<1>1. /\ Sta!Loads("archive") /\ push' = Len(Sta!Load("archive"))
      /\ UNCHANGED <<db, info, stored, cmd, kills, lost, orphan>>
  BY DEF Sta!PushCheck
<1>2. Len(Sta!Load("archive")) \in Nat
  BY <1>1, LoadIsHistory, HistoryFacts DEF Sta!Kinds
<1> QED
  BY <1>1, <1>2 DEF StanzaTypeOK

LEMMA PushFileFacts ==
  ASSUME StanzaTypeOK, Sta!PushFile
  PROVE  /\ StanzaTypeOK' /\ push \in Nat \ {0}
         /\ stored' = stored \union {<<"archive", push, db>>}
         /\ ~orphan' => ~orphan /\ Sta!Known(push)
         /\ UNCHANGED <<db, info, cmd, kills, lost>>
<1>1. /\ push # 0 /\ stored' = stored \union {<<"archive", push, db>>} /\ push' = 0
      /\ orphan' = (orphan \/ ~Sta!Known(push))
      /\ UNCHANGED <<db, info, cmd, kills, lost>>
  BY DEF Sta!PushFile
<1>2. push \in Nat \ {0}
  BY <1>1 DEF StanzaTypeOK
<1>3. stored' \subseteq Sta!Kinds \X (Nat \ {0}) \X Databases
  BY <1>1, <1>2 DEF StanzaTypeOK, Sta!Kinds
<1>4. orphan' \in BOOLEAN /\ (~orphan' => ~orphan /\ Sta!Known(push))
  BY <1>1, Zenon
<1> QED
  BY <1>1, <1>2, <1>3, <1>4 DEF StanzaTypeOK

LEMMA BackupFacts ==
  ASSUME StanzaTypeOK, Sta!Backup
  PROVE  /\ StanzaTypeOK' /\ cmd.todo = <<>>
         /\ Sta!Loads("backup") /\ Sta!Current(Sta!Load("backup")) = db
         /\ Len(Sta!Load("backup")) \in Nat \ {0}
         /\ stored' = stored \union {<<"backup", Len(Sta!Load("backup")), db>>}
         /\ UNCHANGED <<db, info, cmd, push, kills, lost, orphan>>
<1>1. /\ ~cmd.on /\ Sta!Loads("backup") /\ Sta!Current(Sta!Load("backup")) = db
      /\ stored' = stored \union {<<"backup", Len(Sta!Load("backup")), db>>}
      /\ UNCHANGED <<db, info, cmd, push, kills, lost, orphan>>
  BY DEF Sta!Backup
<1>2. Len(Sta!Load("backup")) \in Nat \ {0}
  BY <1>1, LoadIsHistory, HistoryFacts DEF Sta!Kinds
<1>3. stored' \subseteq Sta!Kinds \X (Nat \ {0}) \X Databases
  BY <1>1, <1>2 DEF StanzaTypeOK, Sta!Kinds
<1> QED
  BY <1>1, <1>2, <1>3 DEF StanzaTypeOK

LEMMA OtherFacts ==
  ASSUME StanzaTypeOK, Sta!StopStart \/ Sta!PgChange
  PROVE  StanzaTypeOK' /\ UNCHANGED <<info, stored, cmd, kills, lost, orphan>>
BY DEF StanzaTypeOK, Sta!StopStart, Sta!PgChange

LEMMA LoseFacts ==
  ASSUME StanzaTypeOK, NEW f \in Sta!InfoFiles, Sta!Lose(f)
  PROVE  /\ StanzaTypeOK' /\ lost' = lost + 1
         /\ \E v \in {Sta!Missing, Sta!Damaged} : info' = [info EXCEPT ![f] = v]
         /\ UNCHANGED <<db, stored, cmd, push, kills, orphan>>
<1>1. /\ lost' = lost + 1 /\ UNCHANGED <<db, stored, cmd, push, kills, orphan>>
      /\ \E v \in {Sta!Missing, Sta!Damaged} : info' = [info EXCEPT ![f] = v]
  BY DEF Sta!Lose
<1>2. info' \in [Sta!InfoFiles -> Contents]
  BY <1>1 DEF StanzaTypeOK, Contents
<1>3. UNCHANGED <<db, stored, cmd, push, kills, orphan>> /\ lost' \in Nat
  BY <1>1 DEF StanzaTypeOK
<1>4. StanzaTypeOK'
  BY <1>2, <1>3 DEF StanzaTypeOK
<1> QED
  BY <1>1, <1>4, Zenon

-----------------------------------------------------------------------------
(* Histories that are one ahead of each other.                             *)
Pre(p, q) == Len(p) <= Len(q) /\ \A i \in 1 .. Len(p) : p[i] = q[i]

(* The archive.info a, its copy c, the backup.info b and its copy d, in    *)
(* every state that a command can leave them in.                           *)
InStep(a, c, b, d) ==
  /\ {a, c, b, d} \subseteq Histories \union {Sta!Missing}
  /\ a \in Histories /\ c \in Histories => Pre(c, a)
  /\ b \in Histories /\ d \in Histories => Pre(d, b)
  /\ a \in Histories /\ b \in Histories => b \in {a, Sta!Front(a)}
  /\ a = Sta!Missing /\ c \in Histories /\ b \in Histories => Pre(c, b) \/ b = Sta!Front(c)
  /\ b = Sta!Missing /\ d \in Histories => a = Sta!Missing /\ c = Sta!Missing

(* The same after each of the writes from (a, c, b, d) to (x, z, y, w).    *)
Stages(a, c, b, d, x, z, y, w) ==
  /\ InStep(a, c, b, d) /\ InStep(x, c, b, d) /\ InStep(x, z, b, d)
  /\ InStep(x, z, y, d) /\ InStep(x, z, y, w)

LEMMA FrontFacts ==
  ASSUME NEW h \in Histories
  PROVE  /\ Len(Sta!Front(h)) = Len(h) - 1
         /\ \A i \in 1 .. Len(h) - 1 : Sta!Front(h)[i] = h[i]
<1>1. h \in Seq(Databases) /\ Len(h) \in Nat \ {0}
  BY HistoryFacts DEF Histories
<1> DEFINE n == Len(h) - 1
<1>2. n \in Int /\ 1 \in Int /\ \A i \in 1 .. n : h[i] \in Databases
  BY <1>1
<1> HIDE DEF n
<1>3. /\ Len(SubSeq(h, 1, n)) = IF 1 <= n THEN n - 1 + 1 ELSE 0
      /\ \A i \in 1 .. n - 1 + 1 : SubSeq(h, 1, n)[i] = h[1 + i - 1]
  BY <1>2, SubSeqProperties
<1>4. n \in Nat /\ Sta!Front(h) = SubSeq(h, 1, n)
  BY <1>1 DEF Sta!Front, n
<1>5. Len(SubSeq(h, 1, n)) = n /\ \A i \in 1 .. n : SubSeq(h, 1, n)[i] = h[i]
  BY <1>3, <1>4
<1> QED
  BY <1>4, <1>5 DEF n

LEMMA HistoryEqual ==
  ASSUME NEW p \in Histories, NEW q \in Histories, Len(p) = Len(q), \A i \in 1 .. Len(p) : p[i] = q[i]
  PROVE  p = q
BY SeqEqual DEF Histories

LEMMA PreFacts ==
  ASSUME NEW p \in Histories, NEW q \in Histories
  PROVE  /\ Pre(p, p)
         /\ Pre(p, q) /\ Len(p) = Len(q) => p = q
         /\ \A r \in Histories : Pre(p, q) /\ Pre(q, r) => Pre(p, r)
<1>1. Len(p) \in Nat /\ Len(q) \in Nat
  BY HistoryFacts
<1>2. Pre(p, q) /\ Len(p) = Len(q) => p = q
  BY HistoryEqual DEF Pre
<1>3. \A r \in Histories : Pre(p, q) /\ Pre(q, r) => Pre(p, r)
  BY <1>1, HistoryFacts DEF Pre
<1> QED
  BY <1>1, <1>2, <1>3 DEF Pre

LEMMA PreOfAppended ==
  ASSUME NEW p \in Histories, db \in Databases, p[Len(p)] # db
  PROVE  /\ Sta!Updated(p) \in Histories /\ Len(Sta!Updated(p)) = Len(p) + 1
         /\ Pre(p, Sta!Updated(p)) /\ p = Sta!Front(Sta!Updated(p))
         /\ \A q \in Histories : Len(q) = Len(p) + 1 /\ Pre(p, q) /\ q[Len(q)] = db => q = Sta!Updated(p)
<1>1. /\ Sta!Updated(p) \in Histories /\ Len(Sta!Updated(p)) = Len(p) + 1 /\ Len(p) \in Nat \ {0}
      /\ Sta!Updated(p)[Len(p) + 1] = db
      /\ \A i \in 1 .. Len(p) : Sta!Updated(p)[i] = p[i]
      /\ p = Sta!Front(Sta!Updated(p))
  BY UpdatedFacts, HistoryFacts
<1>2. ASSUME NEW q \in Histories, Len(q) = Len(p) + 1, Pre(p, q), q[Len(q)] = db PROVE q = Sta!Updated(p)
  <2>1. \A i \in 1 .. Len(q) : i \in 1 .. Len(p) \/ i = Len(p) + 1
    BY <1>1, <1>2
  <2>2. \A i \in 1 .. Len(q) : q[i] = Sta!Updated(p)[i]
    BY <1>1, <1>2, <2>1 DEF Pre
  <2> QED
    BY <1>1, <1>2, <2>2, HistoryEqual
<1>3. Pre(p, Sta!Updated(p))
  BY <1>1 DEF Pre
<1> QED
  BY <1>1, <1>2, <1>3

LEMMA FrontIsPre ==
  ASSUME NEW h \in Histories, NEW p \in Histories, p = Sta!Front(h)
  PROVE  /\ Pre(p, h) /\ Len(p) = Len(h) - 1
         /\ \A c \in Histories : Pre(c, h) => Pre(c, p) \/ c = h
<1>1. /\ Len(p) = Len(h) - 1 /\ \A i \in 1 .. Len(h) - 1 : p[i] = h[i]
  BY FrontFacts
<1>2. Len(h) \in Nat \ {0} /\ Len(p) \in Nat \ {0}
  BY HistoryFacts
<1>3. Pre(p, h)
  BY <1>1, <1>2 DEF Pre
<1>4. ASSUME NEW c \in Histories, Pre(c, h), c # h PROVE Pre(c, p)
  <2>1. Len(c) \in Nat /\ Len(c) # Len(h) /\ Len(c) <= Len(h) /\ \A i \in 1 .. Len(c) : c[i] = h[i]
    BY <1>4, PreFacts, HistoryFacts DEF Pre
  <2> QED
    BY <1>1, <1>2, <2>1 DEF Pre
<1> QED
  BY <1>1, <1>3, <1>4

-----------------------------------------------------------------------------
(* The commands keep the files in step.                                    *)

LEMMA CreateNewStages ==
  ASSUME NEW x \in Histories
  PROVE  LET m == Sta!Missing IN Stages(m, m, m, m, x, x, x, x)
BY PreFacts, ContentsDistinct DEF Stages, InStep

LEMMA DeleteStages ==
  ASSUME NEW a, NEW c, NEW b, NEW d, InStep(a, c, b, d)
  PROVE  LET m == Sta!Missing IN Stages(a, c, b, d, m, m, m, m)
<1> DEFINE m == Sta!Missing
<1>1. m \notin Histories
  BY ContentsDistinct
<1>2. ASSUME c \in Histories, b \in Histories PROVE Pre(c, b) \/ b = Sta!Front(c)
  <2>1. CASE a \in Histories
    <3>1. Pre(c, a) /\ (b = a \/ b = Sta!Front(a))
      BY <1>2, <2>1 DEF InStep
    <3>2. ASSUME b = Sta!Front(a) PROVE Pre(c, b) \/ c = a
      BY <1>2, <2>1, <3>1, <3>2, FrontIsPre
    <3> QED
      BY <3>1, <3>2
  <2>2. CASE a = m
    BY <1>2, <2>2 DEF InStep
  <2> QED
    BY <2>1, <2>2 DEF InStep
<1>3. InStep(m, c, b, d)
  BY <1>1, <1>2 DEF InStep
<1>4. InStep(m, m, b, d) /\ InStep(m, m, m, d) /\ InStep(m, m, m, m)
  BY <1>1 DEF InStep
<1> QED
  BY <1>3, <1>4 DEF Stages

(* The histories that a command loads, la from archive.info and b from backup.info. *)
LEMMA LoadedInStep ==
  ASSUME NEW a, NEW c, NEW b, NEW d, InStep(a, c, b, d),
         a \in Histories \/ c \in Histories, b \in Histories \/ d \in Histories,
         NEW la, la = (IF a \in Histories THEN a ELSE c)
  PROVE  /\ b \in Histories /\ la \in Histories
         /\ Len(la) = Len(b) => la = b
         /\ Len(la) + 1 = Len(b) => a = Sta!Missing /\ c = la /\ Pre(c, b)
         /\ Len(la) = Len(b) + 1 => b = Sta!Front(la)
<1>0. Sta!Missing \notin Histories
  BY ContentsDistinct
<1>1. b \in Histories /\ la \in Histories
  BY <1>0 DEF InStep
<1>2. Len(la) \in Nat \ {0} /\ Len(b) \in Nat \ {0}
  BY <1>1, HistoryFacts
<1>3. CASE a \in Histories
  <2>1. la = a /\ (b = la \/ b = Sta!Front(la))
    BY <1>1, <1>3 DEF InStep
  <2>2. b = Sta!Front(la) => Len(b) = Len(la) - 1
    BY <1>1, FrontFacts
  <2> QED
    BY <1>1, <1>2, <2>1, <2>2
<1>4. CASE a \notin Histories
  <2>1. a = Sta!Missing /\ la = c /\ (Pre(c, b) \/ b = Sta!Front(c))
    BY <1>1, <1>4 DEF InStep
  <2>2. b = Sta!Front(la) => Len(b) = Len(la) - 1
    BY <1>1, FrontFacts
  <2>3. Pre(c, b) => Len(c) <= Len(b) /\ (Len(c) = Len(b) => c = b)
    BY <1>1, <2>1, PreFacts DEF Pre
  <2> QED
    BY <1>1, <1>2, <2>1, <2>2, <2>3
<1> QED
  BY <1>3, <1>4

LEMMA CreateExistingStages ==
  ASSUME NEW a, NEW c, NEW b, NEW d, InStep(a, c, b, d),
         b \in Histories, a = b \/ (a = Sta!Missing /\ c = b)
  PROVE  Stages(a, c, b, d, b, IF c = Sta!Missing THEN b ELSE c, b, IF d = Sta!Missing THEN b ELSE d)
<1>0. Sta!Missing \notin Histories
  BY ContentsDistinct
<1>1. Pre(b, b)
  BY PreFacts
<1>2. c \in Histories => Pre(c, b)
  BY <1>0, <1>1 DEF InStep
<1>3. d \in Histories => Pre(d, b)
  BY DEF InStep
<1>4. {a, c, b, d} \subseteq Histories \union {Sta!Missing}
  BY DEF InStep
<1> QED
  BY <1>0, <1>1, <1>2, <1>3, <1>4 DEF Stages, InStep

LEMMA UpgradeBothStages ==
  ASSUME NEW a, NEW c, NEW b, NEW d, InStep(a, c, b, d),
         b \in Histories, a = b \/ (a = Sta!Missing /\ c = b),
         NEW n \in Histories, Pre(b, n), b = Sta!Front(n)
  PROVE  Stages(a, c, b, d, n, n, n, n)
<1>0. Sta!Missing \notin Histories
  BY ContentsDistinct
<1>1. Pre(b, b) /\ Pre(n, n)
  BY PreFacts
<1>2. c \in Histories => Pre(c, b)
  BY <1>0, <1>1 DEF InStep
<1>3. d \in Histories => Pre(d, b)
  BY DEF InStep
<1>4. {a, c, b, d} \subseteq Histories \union {Sta!Missing}
  BY DEF InStep
<1>5. (c \in Histories => Pre(c, n)) /\ (d \in Histories => Pre(d, n))
  BY <1>2, <1>3, PreFacts
<1>6. InStep(n, c, b, d) /\ InStep(n, n, b, d)
  BY <1>0, <1>1, <1>3, <1>4, <1>5 DEF InStep
<1>7. InStep(n, n, n, d) /\ InStep(n, n, n, n)
  BY <1>0, <1>1, <1>4, <1>5 DEF InStep
<1> QED
  BY <1>6, <1>7 DEF Stages

LEMMA UpgradeArchiveStages ==
  ASSUME NEW a, NEW c, NEW b, NEW d, InStep(a, c, b, d),
         b \in Histories, c \in Histories, a = Sta!Missing, Pre(c, b)
  PROVE  Stages(a, c, b, d, b, b, b, d)
<1>0. Sta!Missing \notin Histories
  BY ContentsDistinct
<1>1. Pre(b, b)
  BY PreFacts
<1>2. InStep(b, c, b, d) /\ InStep(b, b, b, d)
  BY <1>0, <1>1 DEF InStep
<1> QED
  BY <1>2 DEF Stages

LEMMA UpgradeBackupStages ==
  ASSUME NEW a, NEW c, NEW b, NEW d, InStep(a, c, b, d),
         b \in Histories, a \in Histories \/ c \in Histories,
         NEW la, la = (IF a \in Histories THEN a ELSE c), Pre(b, la)
  PROVE  Stages(a, c, b, d, a, c, la, la)
<1>0. Sta!Missing \notin Histories
  BY ContentsDistinct
<1>1. la \in Histories /\ Pre(la, la)
  BY PreFacts
<1>2. d \in Histories => Pre(d, la)
  BY <1>1, PreFacts DEF InStep
<1>3. InStep(a, c, la, d) /\ InStep(a, c, la, la)
  BY <1>0, <1>1, <1>2 DEF InStep
<1> QED
  BY <1>3 DEF Stages

-----------------------------------------------------------------------------
(* What a command that begins leaves when it is done.                      *)

LEMMA BeginOutcome ==
  ASSUME StanzaTypeOK, NEW s \in Seq(Ops), Sorted(s), Sta!Begin(s), NEW fin \in [Sta!InfoFiles -> Contents],
         \A f \in Sta!InfoFiles : /\ \A v \in Contents : PutIn(s, f, v) => fin[f] = v
                                  /\ (\A v \in Contents : ~PutIn(s, f, v)) => fin[f] = info[f]
  PROVE  /\ Outcome(cmd'.todo, info', fin)
         /\ StanzaTypeOK' /\ cmd.todo = <<>>
         /\ UNCHANGED <<db, info, stored, push, kills, lost, orphan>>
<1>1. /\ StanzaTypeOK' /\ cmd.todo = <<>> /\ cmd'.todo = s
      /\ UNCHANGED <<db, info, stored, push, kills, lost, orphan>>
  BY BeginType
<1>2. Outcome(s, info, fin)
  BY DEF Outcome
<1> QED
  BY <1>1, <1>2

LEMMA CreateNewOutcome ==
  ASSUME StanzaTypeOK, Sta!CreateNew
  PROVE  LET fin == [f \in Sta!InfoFiles |-> <<db>>]
         IN  /\ Outcome(cmd'.todo, info', fin)
             /\ \A f \in Sta!InfoFiles : \E v \in Contents : PutIn(cmd'.todo, f, v)
             /\ <<db>> \in Histories
             /\ StanzaTypeOK' /\ cmd.todo = <<>>
             /\ UNCHANGED <<db, info, stored, push, kills, lost, orphan>>
<1> DEFINE fin == [f \in Sta!InfoFiles |-> <<db>>]
<1>1. <<db>> \in Histories /\ <<db>> \in Contents
  BY DEF StanzaTypeOK, Contents, Histories
<1>2. fin \in [Sta!InfoFiles -> Contents] /\ \A f \in Sta!InfoFiles : fin[f] = <<db>>
  BY <1>1
<1> HIDE DEF fin
<1>3. PICK s \in Seq(Ops) : /\ Sorted(s) /\ Sta!Begin(s)
                            /\ \A f \in Sta!InfoFiles : \A v : PutIn(s, f, v) <=> v = <<db>>
  BY CreateNewBegins
<1>4. cmd'.todo = s
  BY <1>3, BeginType
<1>5. /\ Outcome(cmd'.todo, info', fin)
      /\ StanzaTypeOK' /\ cmd.todo = <<>>
      /\ UNCHANGED <<db, info, stored, push, kills, lost, orphan>>
  <2>1. \A f \in Sta!InfoFiles : /\ \A v \in Contents : PutIn(s, f, v) => fin[f] = v
                                 /\ (\A v \in Contents : ~PutIn(s, f, v)) => fin[f] = info[f]
    BY <1>1, <1>2, <1>3
  <2> QED
    BY <1>2, <1>3, <2>1, BeginOutcome
<1> QED
  BY <1>1, <1>3, <1>4, <1>5 DEF fin

LEMMA CreateExistingOutcome ==
  ASSUME StanzaTypeOK, Sta!CreateExisting
  PROVE  \E fin :
           /\ Outcome(cmd'.todo, info', fin)
           /\ \A k \in Sta!Kinds :
                /\ info[Sta!Main(k)] \in Histories \/ info[Sta!Copy(k)] \in Histories
                /\ fin[Sta!Main(k)] = (IF info[Sta!Main(k)] = Sta!Missing THEN info[Sta!Copy(k)] ELSE info[Sta!Main(k)])
                /\ fin[Sta!Copy(k)] = (IF info[Sta!Copy(k)] = Sta!Missing THEN info[Sta!Main(k)] ELSE info[Sta!Copy(k)])
           /\ \A f \in Sta!InfoFiles : (\E v \in Contents : PutIn(cmd'.todo, f, v)) => info[f] = Sta!Missing
           /\ Sta!InfosMatch(Sta!Load("archive"), Sta!Load("backup"))
           /\ StanzaTypeOK' /\ cmd.todo = <<>>
           /\ UNCHANGED <<db, info, stored, push, kills, lost, orphan>>
<1> DEFINE other(f) == IF f = Sta!Main(f[1]) THEN Sta!Copy(f[1]) ELSE Sta!Main(f[1])
           fin == [f \in Sta!InfoFiles |-> IF info[f] = Sta!Missing THEN info[other(f)] ELSE info[f]]
<1>1. \A k \in Sta!Kinds : /\ Sta!Main(k) \in Sta!InfoFiles /\ Sta!Copy(k) \in Sta!InfoFiles /\ Sta!Main(k) # Sta!Copy(k)
                           /\ Sta!Main(k)[1] = k /\ Sta!Copy(k)[1] = k
  BY DEF Sta!InfoFiles, Sta!Main, Sta!Copy
<1>2. \A k \in Sta!Kinds : info[Sta!Main(k)] \in Histories \/ info[Sta!Copy(k)] \in Histories
  <2> SUFFICES ASSUME NEW k \in Sta!Kinds PROVE info[Sta!Main(k)] \in Histories \/ info[Sta!Copy(k)] \in Histories
    OBVIOUS
  <2>1. Sta!Loads(k)
    BY CreateExistingBegins
  <2> QED
    BY <1>1, <2>1, ReadableIsHistory DEF Sta!Loads
<1>3. PICK s \in Seq(Ops) :
        /\ Sorted(s) /\ Sta!Begin(s)
        /\ \A f \in Sta!InfoFiles : \A v : PutIn(s, f, v) <=>
             \/ f = Sta!Main(f[1]) /\ info[f] = Sta!Missing /\ v = info[Sta!Copy(f[1])]
             \/ f = Sta!Copy(f[1]) /\ info[f] = Sta!Missing /\ info[Sta!Main(f[1])] # Sta!Missing
                /\ v = info[Sta!Main(f[1])]
  BY CreateExistingBegins
<1>4. \A f \in Sta!InfoFiles : /\ f[1] \in Sta!Kinds /\ (f = Sta!Main(f[1]) \/ f = Sta!Copy(f[1]))
                               /\ other(f) \in Sta!InfoFiles
  <2> SUFFICES ASSUME NEW f \in Sta!InfoFiles
               PROVE  /\ f[1] \in Sta!Kinds /\ (f = Sta!Main(f[1]) \/ f = Sta!Copy(f[1]))
                      /\ other(f) \in Sta!InfoFiles
    OBVIOUS
  <2>1. f[1] \in Sta!Kinds /\ (f = Sta!Main(f[1]) \/ f = Sta!Copy(f[1]))
    BY FileCases DEF Sta!Main, Sta!Copy
  <2> QED
    BY <1>1, <2>1
<1> HIDE DEF other
<1>5. /\ fin \in [Sta!InfoFiles -> Contents]
      /\ \A f \in Sta!InfoFiles : fin[f] = IF info[f] = Sta!Missing THEN info[other(f)] ELSE info[f]
  BY <1>4 DEF StanzaTypeOK
<1> HIDE DEF fin
<1>6. ASSUME NEW f \in Sta!InfoFiles
      PROVE  /\ \A v \in Contents : PutIn(s, f, v) => fin[f] = v
             /\ (\A v \in Contents : ~PutIn(s, f, v)) => fin[f] = info[f]
  <2>1. info[other(f)] \in Contents
    BY <1>4 DEF StanzaTypeOK
  <2>2. CASE info[f] # Sta!Missing
    BY <1>3, <1>5, <2>2
  <2>3. CASE info[f] = Sta!Missing
    <3>1. info[other(f)] \in Histories
      BY <1>1, <1>2, <1>4, <2>3, ContentsDistinct DEF other
    <3>2. \A v : PutIn(s, f, v) <=> v = info[other(f)]
      BY <1>1, <1>3, <1>4, <2>3, <3>1, ContentsDistinct DEF other
    <3> QED
      BY <1>5, <2>1, <2>3, <3>2
  <2> QED
    BY <2>2, <2>3
<1>7. /\ Outcome(cmd'.todo, info', fin)
      /\ StanzaTypeOK' /\ cmd.todo = <<>>
      /\ UNCHANGED <<db, info, stored, push, kills, lost, orphan>>
  BY <1>3, <1>5, <1>6, BeginOutcome
<1>8. ASSUME NEW k \in Sta!Kinds
      PROVE  /\ fin[Sta!Main(k)] = (IF info[Sta!Main(k)] = Sta!Missing THEN info[Sta!Copy(k)] ELSE info[Sta!Main(k)])
             /\ fin[Sta!Copy(k)] = (IF info[Sta!Copy(k)] = Sta!Missing THEN info[Sta!Main(k)] ELSE info[Sta!Copy(k)])
  BY <1>1, <1>5 DEF other
<1>9. Sta!InfosMatch(Sta!Load("archive"), Sta!Load("backup"))
  BY CreateExistingBegins
<1>10. \A f \in Sta!InfoFiles : (\E v \in Contents : PutIn(cmd'.todo, f, v)) => info[f] = Sta!Missing
  <2>1. cmd'.todo = s
    BY <1>3, BeginType
  <2> QED
    BY <1>3, <2>1
<1> QED
  BY <1>2, <1>7, <1>8, <1>9, <1>10

LEMMA UpgradeOutcome ==
  ASSUME StanzaTypeOK, Sta!Upgrade
  PROVE  \E fin :
           /\ Outcome(cmd'.todo, info', fin)
           /\ \A f \in Sta!InfoFiles : /\ Sta!Loads(f[1])
                                       /\ Sta!Load(f[1]) \in Histories
                                       /\ fin[f] = IF Sta!Updated(Sta!Load(f[1])) = Sta!Load(f[1]) THEN info[f]
                                                   ELSE Sta!Updated(Sta!Load(f[1]))
           /\ \A f \in Sta!InfoFiles : (\E v \in Contents : PutIn(cmd'.todo, f, v)) <=>
                                         Sta!Updated(Sta!Load(f[1])) # Sta!Load(f[1])
           /\ Sta!InfosMatch(Sta!Updated(Sta!Load("archive")), Sta!Updated(Sta!Load("backup")))
           /\ StanzaTypeOK' /\ cmd.todo = <<>>
           /\ UNCHANGED <<db, info, stored, push, kills, lost, orphan>>
<1> DEFINE old(f) == Sta!Load(f[1])
           new(f) == Sta!Updated(Sta!Load(f[1]))
           fin == [f \in Sta!InfoFiles |-> IF new(f) = old(f) THEN info[f] ELSE new(f)]
<1>1. PICK s \in Seq(Ops) :
        /\ Sorted(s) /\ Sta!Begin(s)
        /\ \A f \in Sta!InfoFiles : \A v : PutIn(s, f, v) <=> v = new(f) /\ v # old(f)
  BY UpgradeBegins
<1>2. \A f \in Sta!InfoFiles : Sta!Loads(f[1]) /\ old(f) \in Histories /\ new(f) \in Contents
  <2> SUFFICES ASSUME NEW f \in Sta!InfoFiles PROVE Sta!Loads(f[1]) /\ old(f) \in Histories /\ new(f) \in Contents
    OBVIOUS
  <2>1. f[1] \in Sta!Kinds
    BY FileCases
  <2>2. Sta!Loads(f[1])
    BY <2>1, UpgradeBegins
  <2>3. old(f) \in Histories
    BY <2>1, <2>2, LoadIsHistory
  <2> QED
    BY <2>2, <2>3, UpdatedFacts, HistoryFacts DEF StanzaTypeOK
<1>3. Sta!InfosMatch(Sta!Updated(Sta!Load("archive")), Sta!Updated(Sta!Load("backup")))
  BY UpgradeBegins
<1> HIDE DEF old, new
<1>4. /\ fin \in [Sta!InfoFiles -> Contents]
      /\ \A f \in Sta!InfoFiles : fin[f] = IF new(f) = old(f) THEN info[f] ELSE new(f)
  BY <1>2 DEF StanzaTypeOK
<1> HIDE DEF fin
<1>5. \A f \in Sta!InfoFiles : /\ \A v \in Contents : PutIn(s, f, v) => fin[f] = v
                               /\ (\A v \in Contents : ~PutIn(s, f, v)) => fin[f] = info[f]
  BY <1>1, <1>2, <1>4
<1>6. /\ Outcome(cmd'.todo, info', fin)
      /\ StanzaTypeOK' /\ cmd.todo = <<>>
      /\ UNCHANGED <<db, info, stored, push, kills, lost, orphan>>
  BY <1>1, <1>4, <1>5, BeginOutcome
<1>7. cmd'.todo = s
  BY <1>1, BeginType
<1>8. \A f \in Sta!InfoFiles : (\E v \in Contents : PutIn(cmd'.todo, f, v)) <=> new(f) # old(f)
  BY <1>1, <1>2, <1>7
<1> QED
  BY <1>2, <1>3, <1>4, <1>6, <1>8 DEF old, new

LEMMA DeleteOutcome ==
  ASSUME StanzaTypeOK, Sta!Delete
  PROVE  LET fin == [f \in Sta!InfoFiles |-> Sta!Missing]
         IN  /\ Outcome(cmd'.todo, info', fin)
             /\ \A f \in Sta!InfoFiles : (\A v \in Contents : ~PutIn(cmd'.todo, f, v)) => info[f] = Sta!Missing
             /\ StanzaTypeOK' /\ cmd.todo = <<>>
             /\ UNCHANGED <<db, info, stored, push, kills, lost, orphan>>
<1> DEFINE fin == [f \in Sta!InfoFiles |-> Sta!Missing]
<1>1. fin \in [Sta!InfoFiles -> Contents] /\ Sta!Missing \in Contents /\ \A f \in Sta!InfoFiles : fin[f] = Sta!Missing
  BY DEF Contents
<1> HIDE DEF fin
<1>2. PICK s \in Seq(Ops) :
        /\ Sorted(s) /\ Sta!Begin(s)
        /\ \A f \in Sta!InfoFiles : \A v : PutIn(s, f, v) <=> Present(f[1]) /\ v = Sta!Missing
  BY DeleteBegins
<1>3. ASSUME NEW f \in Sta!InfoFiles, ~Present(f[1]) PROVE info[f] = Sta!Missing
  <2>1. f = Sta!Main(f[1]) \/ f = Sta!Copy(f[1])
    BY FileCases DEF Sta!Main, Sta!Copy
  <2> QED
    BY <1>3, <2>1 DEF Present, Sta!AnyInfo, Sta!Exists
<1>4. \A f \in Sta!InfoFiles : /\ \A v \in Contents : PutIn(s, f, v) => fin[f] = v
                               /\ (\A v \in Contents : ~PutIn(s, f, v)) => fin[f] = info[f]
  BY <1>1, <1>2, <1>3
<1>5. /\ Outcome(cmd'.todo, info', fin)
      /\ StanzaTypeOK' /\ cmd.todo = <<>>
      /\ UNCHANGED <<db, info, stored, push, kills, lost, orphan>>
  BY <1>1, <1>2, <1>4, BeginOutcome
<1>6. cmd'.todo = s
  BY <1>2, BeginType
<1> QED
  BY <1>1, <1>2, <1>3, <1>5, <1>6 DEF fin

-----------------------------------------------------------------------------
(* While no file was lost: the files are in step, and stay so after each   *)
(* of the writes that the running command has still to do.                 *)
ArchiveMain == Sta!Main("archive")
ArchiveCopy == Sta!Copy("archive")
BackupMain == Sta!Main("backup")
BackupCopy == Sta!Copy("backup")

FileStages(g, h) ==
  Stages(g[ArchiveMain], g[ArchiveCopy], g[BackupMain], g[BackupCopy],
         h[ArchiveMain], h[ArchiveCopy], h[BackupMain], h[BackupCopy])

AheadInv == lost = 0 => \E fin : Outcome(cmd.todo, info, fin) /\ FileStages(info, fin)

LEMMA FourFiles ==
  /\ Sta!InfoFiles = {ArchiveMain, ArchiveCopy, BackupMain, BackupCopy}
  /\ Ord(ArchiveMain) = 1 /\ Ord(ArchiveCopy) = 2 /\ Ord(BackupMain) = 3 /\ Ord(BackupCopy) = 4
  /\ ArchiveMain[1] = "archive" /\ ArchiveCopy[1] = "archive" /\ BackupMain[1] = "backup" /\ BackupCopy[1] = "backup"
BY FileNames DEF ArchiveMain, ArchiveCopy, BackupMain, BackupCopy

(* A command that is idle, or was killed, has nothing more to do.          *)
LEMMA AheadIdle ==
  ASSUME info \in [Sta!InfoFiles -> Contents]
  PROVE  /\ \A fin : FileStages(info, fin) => FileStages(info, info)
         /\ \A fin : Outcome(<<>>, info, fin) => fin = info
         /\ Outcome(<<>>, info, info)
BY OutcomeIdle DEF FileStages, Stages

LEMMA AheadWrite ==
  ASSUME NEW g \in [Sta!InfoFiles -> Contents], NEW h, NEW fin, NEW f \in Sta!InfoFiles,
         FileStages(g, fin), h = [g EXCEPT ![f] = fin[f]],
         \A e \in Sta!InfoFiles : Ord(e) < Ord(f) => fin[e] = g[e]
  PROVE  FileStages(h, fin)
<1>0. \A e \in Sta!InfoFiles : h[e] = IF e = f THEN fin[f] ELSE g[e]
  OBVIOUS
<1>1. ArchiveMain # ArchiveCopy /\ ArchiveMain # BackupMain /\ ArchiveMain # BackupCopy
      /\ ArchiveCopy # BackupMain /\ ArchiveCopy # BackupCopy /\ BackupMain # BackupCopy
  BY FourFiles
<1>2. CASE f = ArchiveMain
  BY <1>0, <1>1, <1>2, FourFiles DEF FileStages, Stages
<1>3. CASE f = ArchiveCopy
  <2>1. fin[ArchiveMain] = g[ArchiveMain]
    BY <1>3, FourFiles
  <2> QED
    BY <1>0, <1>1, <1>3, <2>1, FourFiles DEF FileStages, Stages
<1>4. CASE f = BackupMain
  <2>1. fin[ArchiveMain] = g[ArchiveMain] /\ fin[ArchiveCopy] = g[ArchiveCopy]
    BY <1>4, FourFiles
  <2> QED
    BY <1>0, <1>1, <1>4, <2>1, FourFiles DEF FileStages, Stages
<1>5. CASE f = BackupCopy
  <2>1. fin[ArchiveMain] = g[ArchiveMain] /\ fin[ArchiveCopy] = g[ArchiveCopy] /\ fin[BackupMain] = g[BackupMain]
    BY <1>5, FourFiles
  <2> QED
    BY <1>0, <1>1, <1>5, <2>1, FourFiles DEF FileStages, Stages
<1> QED
  BY <1>2, <1>3, <1>4, <1>5, FourFiles

LEMMA AheadStep ==
  ASSUME StanzaTypeOK, AheadInv, Sta!Step
  PROVE  AheadInv'
<1> SUFFICES ASSUME lost' = 0 PROVE \E fin : Outcome(cmd'.todo, info', fin) /\ FileStages(info', fin)
  BY DEF AheadInv
<1>1. lost' = lost /\ StanzaTypeOK'
  BY StepFacts
<1>2. PICK fin : Outcome(cmd.todo, info, fin) /\ FileStages(info, fin)
  BY <1>1 DEF AheadInv
<1>3. CASE /\ cmd.todo # <<>> /\ Head(cmd.todo) \in Ops
           /\ cmd'.todo = Tail(cmd.todo) /\ Head(cmd.todo).op = "put"
           /\ info' = [info EXCEPT ![Head(cmd.todo).file] = Head(cmd.todo).value]
  <2> DEFINE f == Head(cmd.todo).file
  <2>1. /\ Outcome(cmd'.todo, info', fin)
        /\ f \in Sta!InfoFiles
        /\ info' = [info EXCEPT ![f] = fin[f]]
        /\ \A g \in Sta!InfoFiles : Ord(g) < Ord(f) => fin[g] = info[g]
    BY <1>1, <1>2, <1>3, OutcomeStep
  <2>2. info \in [Sta!InfoFiles -> Contents]
    BY DEF StanzaTypeOK
  <2> HIDE DEF f
  <2>3. FileStages(info', fin)
    BY <1>2, <2>1, <2>2, AheadWrite
  <2> QED
    BY <2>1, <2>3
<1>4. CASE UNCHANGED info /\ \A f, v : PutIn(cmd'.todo, f, v) <=> PutIn(cmd.todo, f, v)
  <2>1. Outcome(cmd'.todo, info, fin)
    BY <1>2, <1>4, OutcomeSame
  <2> QED
    BY <1>2, <1>4, <2>1
<1> QED
  BY <1>3, <1>4, StepFacts

LEMMA AheadKilled ==
  ASSUME StanzaTypeOK, AheadInv, Sta!Killed
  PROVE  AheadInv'
<1> SUFFICES ASSUME lost' = 0 PROVE \E fin : Outcome(cmd'.todo, info', fin) /\ FileStages(info', fin)
  BY DEF AheadInv
<1>1. lost' = lost /\ cmd'.todo = <<>> /\ info' = info
  BY KilledFacts
<1>2. PICK fin : Outcome(cmd.todo, info, fin) /\ FileStages(info, fin)
  BY <1>1 DEF AheadInv
<1>3. Outcome(<<>>, info, info) /\ FileStages(info, info)
  BY <1>2, AheadIdle DEF StanzaTypeOK
<1> QED
  BY <1>1, <1>3

LEMMA AheadInStep ==
  ASSUME StanzaTypeOK, AheadInv, lost = 0
  PROVE  InStep(info[ArchiveMain], info[ArchiveCopy], info[BackupMain], info[BackupCopy])
BY DEF AheadInv, FileStages, Stages

LEMMA AheadCreateNew ==
  ASSUME StanzaTypeOK, AheadInv, Sta!CreateNew
  PROVE  AheadInv'
<1> DEFINE fin == [f \in Sta!InfoFiles |-> <<db>>]
<1>1. Outcome(cmd'.todo, info', fin) /\ <<db>> \in Histories /\ info' = info
  BY CreateNewOutcome
<1>2. \A f \in Sta!InfoFiles : info[f] = Sta!Missing /\ fin[f] = <<db>>
  BY CreateNewBegins
<1> HIDE DEF fin
<1>3. FileStages(info, fin)
  BY <1>1, <1>2, FourFiles, CreateNewStages DEF FileStages
<1> QED
  BY <1>1, <1>3 DEF AheadInv

LEMMA AheadDelete ==
  ASSUME StanzaTypeOK, AheadInv, Sta!Delete
  PROVE  AheadInv'
<1> SUFFICES ASSUME lost' = 0 PROVE \E fin : Outcome(cmd'.todo, info', fin) /\ FileStages(info', fin)
  BY DEF AheadInv
<1> DEFINE fin == [f \in Sta!InfoFiles |-> Sta!Missing]
<1>1. Outcome(cmd'.todo, info', fin) /\ info' = info /\ lost' = lost
  BY DeleteOutcome
<1>2. \A f \in Sta!InfoFiles : fin[f] = Sta!Missing
  OBVIOUS
<1> HIDE DEF fin
<1>3. FileStages(info, fin)
  BY <1>1, <1>2, FourFiles, AheadInStep, DeleteStages DEF FileStages
<1> QED
  BY <1>1, <1>3

LEMMA LoadedFiles ==
  ASSUME StanzaTypeOK, AheadInv, lost = 0, Sta!Loads("archive"), Sta!Loads("backup")
  PROVE  /\ info[ArchiveMain] \in Histories \/ info[ArchiveCopy] \in Histories
         /\ Sta!Load("archive") = IF info[ArchiveMain] \in Histories THEN info[ArchiveMain] ELSE info[ArchiveCopy]
         /\ Sta!Load("backup") = info[BackupMain]
         /\ Sta!Load("archive") \in Histories /\ Sta!Load("backup") \in Histories
         /\ Len(Sta!Load("archive")) = Len(Sta!Load("backup")) => Sta!Load("archive") = Sta!Load("backup")
         /\ Len(Sta!Load("archive")) + 1 = Len(Sta!Load("backup")) =>
              /\ info[ArchiveMain] = Sta!Missing /\ info[ArchiveCopy] = Sta!Load("archive")
              /\ Pre(Sta!Load("archive"), Sta!Load("backup"))
         /\ Len(Sta!Load("archive")) = Len(Sta!Load("backup")) + 1 => Sta!Load("backup") = Sta!Front(Sta!Load("archive"))
<1> DEFINE a == info[ArchiveMain]
           c == info[ArchiveCopy]
           b == info[BackupMain]
           d == info[BackupCopy]
           la == IF a \in Histories THEN a ELSE c
<1>1. /\ Sta!Readable(ArchiveMain) <=> a \in Histories
      /\ Sta!Readable(ArchiveCopy) <=> c \in Histories
      /\ Sta!Readable(BackupMain) <=> b \in Histories
      /\ Sta!Readable(BackupCopy) <=> d \in Histories
  BY FourFiles, ReadableIsHistory
<1>2. (a \in Histories \/ c \in Histories) /\ (b \in Histories \/ d \in Histories)
  BY <1>1 DEF Sta!Loads, ArchiveMain, ArchiveCopy, BackupMain, BackupCopy
<1>3. Sta!Load("archive") = la /\ Sta!Load("backup") = IF b \in Histories THEN b ELSE d
  BY <1>1 DEF Sta!Load, ArchiveMain, ArchiveCopy, BackupMain, BackupCopy
<1>4. InStep(a, c, b, d)
  BY AheadInStep
<1> HIDE DEF a, b, c, d
<1>5. /\ b \in Histories /\ la \in Histories
      /\ Len(la) = Len(b) => la = b
      /\ Len(la) + 1 = Len(b) => a = Sta!Missing /\ c = la /\ Pre(c, b)
      /\ Len(la) = Len(b) + 1 => b = Sta!Front(la)
  BY <1>2, <1>4, LoadedInStep
<1> HIDE DEF la
<1>6. Sta!Load("archive") = la /\ Sta!Load("backup") = b
  BY <1>3, <1>5
<1> QED
  BY <1>2, <1>5, <1>6 DEF a, b, c, d, la

LEMMA AheadCreateExisting ==
  ASSUME StanzaTypeOK, AheadInv, Sta!CreateExisting
  PROVE  AheadInv'
<1> SUFFICES ASSUME lost' = 0 PROVE \E fin : Outcome(cmd'.todo, info', fin) /\ FileStages(info', fin)
  BY DEF AheadInv
<1> DEFINE a == info[ArchiveMain]
           c == info[ArchiveCopy]
           b == info[BackupMain]
           d == info[BackupCopy]
<1>1. PICK fin :
        /\ Outcome(cmd'.todo, info', fin)
        /\ \A k \in Sta!Kinds :
             /\ fin[Sta!Main(k)] = (IF info[Sta!Main(k)] = Sta!Missing THEN info[Sta!Copy(k)] ELSE info[Sta!Main(k)])
             /\ fin[Sta!Copy(k)] = (IF info[Sta!Copy(k)] = Sta!Missing THEN info[Sta!Main(k)] ELSE info[Sta!Copy(k)])
        /\ Sta!InfosMatch(Sta!Load("archive"), Sta!Load("backup"))
        /\ UNCHANGED <<info, lost>>
  BY CreateExistingOutcome
<1>2. /\ fin[ArchiveMain] = (IF a = Sta!Missing THEN c ELSE a)
      /\ fin[ArchiveCopy] = (IF c = Sta!Missing THEN a ELSE c)
      /\ fin[BackupMain] = (IF b = Sta!Missing THEN d ELSE b)
      /\ fin[BackupCopy] = (IF d = Sta!Missing THEN b ELSE d)
  BY <1>1 DEF Sta!Kinds, ArchiveMain, ArchiveCopy, BackupMain, BackupCopy
<1>3. lost = 0 /\ Sta!Loads("archive") /\ Sta!Loads("backup")
  BY <1>1, CreateExistingBegins DEF Sta!Kinds
<1>4. Len(Sta!Load("archive")) = Len(Sta!Load("backup"))
  BY <1>1 DEF Sta!InfosMatch
<1>5. b \in Histories /\ b = (IF a \in Histories THEN a ELSE c)
  BY <1>3, <1>4, LoadedFiles
<1>6. InStep(a, c, b, d)
  BY <1>3, AheadInStep
<1> HIDE DEF a, b, c, d
<1>7. a = b \/ (a = Sta!Missing /\ c = b)
  BY <1>5, <1>6 DEF InStep
<1>8. b # Sta!Missing
  BY <1>5, ContentsDistinct
<1>9. /\ fin[ArchiveMain] = b /\ fin[ArchiveCopy] = (IF c = Sta!Missing THEN b ELSE c)
      /\ fin[BackupMain] = b /\ fin[BackupCopy] = (IF d = Sta!Missing THEN b ELSE d)
  BY <1>2, <1>7, <1>8
<1>10. FileStages(info, fin)
  <2>1. Stages(a, c, b, d, b, IF c = Sta!Missing THEN b ELSE c, b, IF d = Sta!Missing THEN b ELSE d)
    BY <1>5, <1>6, <1>7, CreateExistingStages
  <2> QED
    BY <1>9, <2>1 DEF FileStages, a, b, c, d
<1> QED
  BY <1>1, <1>10

LEMMA AheadUpgrade ==
  ASSUME StanzaTypeOK, AheadInv, Sta!Upgrade
  PROVE  AheadInv'
<1> SUFFICES ASSUME lost' = 0 PROVE \E fin : Outcome(cmd'.todo, info', fin) /\ FileStages(info', fin)
  BY DEF AheadInv
<1> DEFINE a == info[ArchiveMain]
           c == info[ArchiveCopy]
           b == info[BackupMain]
           d == info[BackupCopy]
           la == Sta!Load("archive")
           na == Sta!Updated(Sta!Load("archive"))
           nb == Sta!Updated(info[BackupMain])
<1>1. PICK fin :
        /\ Outcome(cmd'.todo, info', fin)
        /\ \A f \in Sta!InfoFiles : /\ Sta!Loads(f[1])
                                    /\ fin[f] = IF Sta!Updated(Sta!Load(f[1])) = Sta!Load(f[1]) THEN info[f]
                                                ELSE Sta!Updated(Sta!Load(f[1]))
        /\ Sta!InfosMatch(Sta!Updated(Sta!Load("archive")), Sta!Updated(Sta!Load("backup")))
        /\ UNCHANGED <<info, lost>>
  BY UpgradeOutcome
<1>2. lost = 0 /\ Sta!Loads("archive") /\ Sta!Loads("backup")
  BY <1>1, FourFiles
<1>3. Sta!Load("backup") = b
  BY <1>2, LoadedFiles
<1>4. /\ a \in Histories \/ c \in Histories
      /\ la = IF a \in Histories THEN a ELSE c
      /\ la \in Histories /\ b \in Histories
      /\ Len(la) = Len(b) => la = b
      /\ Len(la) + 1 = Len(b) => a = Sta!Missing /\ c = la /\ Pre(la, b)
      /\ Len(la) = Len(b) + 1 => b = Sta!Front(la)
  BY <1>2, <1>3, LoadedFiles
<1>5. /\ fin[ArchiveMain] = IF na = la THEN a ELSE na
      /\ fin[ArchiveCopy] = IF na = la THEN c ELSE na
      /\ fin[BackupMain] = IF nb = b THEN b ELSE nb
      /\ fin[BackupCopy] = IF nb = b THEN d ELSE nb
  BY <1>1, <1>3, FourFiles
<1>6. Len(na) = Len(nb) /\ Sta!Current(na) = Sta!Current(nb)
  BY <1>1, <1>3 DEF Sta!InfosMatch
<1>7. InStep(a, c, b, d)
  BY <1>2, AheadInStep
<1>8. db \in Databases
  BY DEF StanzaTypeOK
<1>9. /\ na \in Histories /\ nb \in Histories
      /\ la[Len(la)] = db => na = la
      /\ la[Len(la)] # db => na # la /\ Len(na) = Len(la) + 1
      /\ b[Len(b)] = db => nb = b
      /\ b[Len(b)] # db => nb # b /\ Len(nb) = Len(b) + 1
  BY <1>4, <1>8, UpdatedFacts
<1>10. Len(la) \in Nat /\ Len(b) \in Nat
  BY <1>4, HistoryFacts
<1>11. ASSUME la[Len(la)] # db
       PROVE  /\ Pre(la, na) /\ la = Sta!Front(na)
              /\ \A q \in Histories : Len(q) = Len(la) + 1 /\ Pre(la, q) /\ q[Len(q)] = db => q = na
  BY <1>4, <1>8, <1>11, PreOfAppended
<1>12. ASSUME b[Len(b)] # db
       PROVE  \A q \in Histories : Len(q) = Len(b) + 1 /\ Pre(b, q) /\ q[Len(q)] = db => q = nb
  BY <1>4, <1>8, <1>12, PreOfAppended
<1>13. a \in Histories \union {Sta!Missing}
  BY <1>7 DEF InStep
<1> HIDE DEF a, b, c, d, la, na, nb
<1>14. FileStages(info, fin)
  <2>1. CASE la[Len(la)] = db /\ b[Len(b)] = db
    <3>1. Stages(a, c, b, d, a, c, b, d)
      BY <1>7 DEF Stages
    <3> QED
      BY <1>5, <1>9, <2>1, <3>1 DEF FileStages, a, b, c, d
  <2>2. CASE la[Len(la)] # db /\ b[Len(b)] # db
    <3>1. la = b /\ na = nb
      BY <1>4, <1>6, <1>9, <1>10, <2>2 DEF na, nb, la, b
    <3>2. a = b \/ (a = Sta!Missing /\ c = b)
      BY <1>4, <1>13, <3>1
    <3>3. Stages(a, c, b, d, na, na, na, na)
      BY <1>4, <1>7, <1>9, <1>11, <2>2, <3>1, <3>2, UpgradeBothStages
    <3> QED
      BY <1>5, <1>9, <2>2, <3>1, <3>3 DEF FileStages, a, b, c, d
  <2>3. CASE la[Len(la)] # db /\ b[Len(b)] = db
    <3>1. Len(la) + 1 = Len(b)
      BY <1>6, <1>9, <1>10, <2>3
    <3>2. b = na /\ a = Sta!Missing /\ c = la /\ Pre(la, b)
      BY <1>4, <1>11, <2>3, <3>1
    <3>3. Stages(a, c, b, d, b, b, b, d)
      BY <1>4, <1>7, <3>2, UpgradeArchiveStages
    <3> QED
      BY <1>5, <1>9, <2>3, <3>2, <3>3 DEF FileStages, a, b, c, d
  <2>4. CASE la[Len(la)] = db /\ b[Len(b)] # db
    <3>1. Len(la) = Len(b) + 1
      BY <1>6, <1>9, <1>10, <2>4
    <3>2. Pre(b, la)
      BY <1>4, <3>1, FrontIsPre
    <3>3. la = nb
      BY <1>4, <1>12, <2>4, <3>1, <3>2
    <3>4. Stages(a, c, b, d, a, c, la, la)
      BY <1>4, <1>7, <3>2, UpgradeBackupStages
    <3> QED
      BY <1>5, <1>9, <2>4, <3>3, <3>4 DEF FileStages, a, b, c, d
  <2> QED
    BY <2>1, <2>2, <2>3, <2>4
<1> QED
  BY <1>1, <1>14

LEMMA AheadUnchanged ==
  ASSUME AheadInv, UNCHANGED <<info, cmd, lost>>
  PROVE  AheadInv'
<1>1. lost' = lost /\ cmd' = cmd /\ info' = info
  OBVIOUS
<1> QED
  BY <1>1 DEF AheadInv

LEMMA AheadInit == Sta!Init => AheadInv
<1> SUFFICES ASSUME Sta!Init PROVE AheadInv
  OBVIOUS
<1>1. StanzaTypeOK
  BY InitStanzaType
<1>2. cmd.todo = <<>> /\ \A f \in Sta!InfoFiles : info[f] = Sta!Missing
  BY DEF Sta!Init, Sta!NoCommand
<1>3. Outcome(<<>>, info, info)
  BY <1>1, AheadIdle DEF StanzaTypeOK
<1>4. FileStages(info, info)
  BY <1>2, FourFiles, ContentsDistinct DEF FileStages, Stages, InStep
<1> QED
  BY <1>2, <1>3, <1>4 DEF AheadInv

LEMMA AheadNext ==
  ASSUME StanzaTypeOK, AheadInv, Sta!Next
  PROVE  StanzaTypeOK' /\ AheadInv'
<1>1. CASE Sta!CreateNew
  BY <1>1, AheadCreateNew, CreateNewOutcome
<1>2. CASE Sta!CreateExisting
  BY <1>2, AheadCreateExisting, CreateExistingOutcome
<1>3. CASE Sta!Upgrade
  BY <1>3, AheadUpgrade, UpgradeOutcome
<1>4. CASE Sta!Delete
  BY <1>4, AheadDelete, DeleteOutcome
<1>5. CASE Sta!Step
  BY <1>5, AheadStep, StepFacts
<1>6. CASE Sta!Killed
  BY <1>6, AheadKilled, KilledFacts
<1>7. CASE Sta!PushCheck
  BY <1>7, AheadUnchanged, PushCheckFacts
<1>8. CASE Sta!PushFile
  BY <1>8, AheadUnchanged, PushFileFacts
<1>9. CASE Sta!Backup
  BY <1>9, AheadUnchanged, BackupFacts
<1>10. CASE Sta!StopStart \/ Sta!PgChange
  BY <1>10, AheadUnchanged, OtherFacts
<1>11. ASSUME NEW f \in Sta!InfoFiles, Sta!Lose(f) PROVE StanzaTypeOK' /\ AheadInv'
  <2>1. StanzaTypeOK' /\ lost' = lost + 1
    BY <1>11, LoseFacts
  <2>2. lost' # 0
    BY <2>1 DEF StanzaTypeOK
  <2> QED
    BY <2>1, <2>2 DEF AheadInv
<1> QED
  BY <1>1, <1>2, <1>3, <1>4, <1>5, <1>6, <1>7, <1>8, <1>9, <1>10, <1>11 DEF Sta!Next

(* The invariant says what is asked for.                                   *)
LEMMA AheadInvImplies ==
  ASSUME StanzaTypeOK, AheadInv
  PROVE  Sta!AtMostOneAhead
<1> SUFFICES ASSUME lost = 0, Sta!Exists(ArchiveMain), Sta!Exists(BackupMain)
             PROVE  info[BackupMain] \in {info[ArchiveMain], Sta!Front(info[ArchiveMain])}
  BY DEF Sta!AtMostOneAhead, Sta!Kinds, ArchiveMain, BackupMain
<1>1. InStep(info[ArchiveMain], info[ArchiveCopy], info[BackupMain], info[BackupCopy])
  BY AheadInStep
<1> QED
  BY <1>1 DEF InStep, Sta!Exists

-----------------------------------------------------------------------------
(* Which database an id stands for.                                        *)
Agree(p, q) == \A i \in 1 .. Len(p) : i <= Len(q) => p[i] = q[i]

(* The histories that the files hold, or will hold.                        *)
HistoriesIn(g, fin) == {h \in Histories : \E f \in Sta!InfoFiles : h = g[f] \/ h = fin[f]}

(* Histories H and stored data S give one meaning to every id.             *)
OneMeaning(H, S) ==
  /\ \A p, q \in H : Agree(p, q)
  /\ \A d \in S, h \in H : d[2] <= Len(h) => h[d[2]] = d[3]
  /\ \A d, e \in S : d[2] = e[2] => d[3] = e[3]

(* An id that a command would assign next has not been used.               *)
LoadOf(g, k) == IF g[Sta!Main(k)] \in Histories THEN g[Sta!Main(k)] ELSE g[Sta!Copy(k)]
BothLoad(g) == \A k \in Sta!Kinds : g[Sta!Main(k)] \in Histories \/ g[Sta!Copy(k)] \in Histories
Below(g, n) == BothLoad(g) => \E k \in Sta!Kinds : n <= Len(LoadOf(g, k))
AllBelow(H, S, g) ==
  /\ \A h \in H : Below(g, Len(h))
  /\ \A d \in S : Below(g, d[2])

Pending(s, f) == \E v \in Contents : PutIn(s, f, v)

(* Before the first fault: the command replaces the history old by new in  *)
(* every file.                                                             *)
Replaces(s, g, fin, S, old, new) ==
  /\ old \in Histories \union {Sta!Missing} /\ new \in Histories \union {Sta!Missing}
  /\ \A f \in Sta!InfoFiles : /\ fin[f] = new
                              /\ Pending(s, f) => g[f] = old
                              /\ ~Pending(s, f) => g[f] = new
  /\ new \in Histories /\ Pending(s, ArchiveMain) =>
       /\ \A f \in Sta!InfoFiles : Pending(s, f)
       /\ old = Sta!Missing => S = {}
  /\ (new = Sta!Missing \/ Pending(s, ArchiveMain)) /\ old \in Histories => \A d \in S : d[2] <= Len(old)
  /\ new \in Histories /\ old \in Histories => Len(old) <= Len(new)

Leads(s, g, fin, S, faults) ==
  /\ Outcome(s, g, fin)
  /\ OneMeaning(HistoriesIn(g, fin), S)
  /\ AllBelow(HistoriesIn(g, fin), S, fin)
  /\ faults = 0 => \E old, new : Replaces(s, g, fin, S, old, new)

DbInv ==
  kills + lost <= 1 /\ ~orphan => \E fin : Leads(cmd.todo, info, fin, stored, kills + lost)

LEMMA DbInvImplies ==
  ASSUME DbInv
  PROVE  Sta!OneDatabasePerId
BY DEF DbInv, Leads, OneMeaning, Sta!OneDatabasePerId

LEMMA FewerMeanings ==
  ASSUME NEW G, NEW H, NEW S, NEW T, NEW fin, H \subseteq G, T \subseteq S, OneMeaning(G, S)
  PROVE  /\ OneMeaning(H, T)
         /\ AllBelow(G, S, fin) => AllBelow(H, T, fin)
BY DEF OneMeaning, AllBelow

LEMMA NothingPending ==
  ASSUME NEW f
  PROVE  ~Pending(<<>>, f)
BY EmptyPlan DEF Pending

LEMMA DbInit == Sta!Init => DbInv
<1> SUFFICES ASSUME Sta!Init PROVE DbInv
  OBVIOUS
<1>1. StanzaTypeOK
  BY InitStanzaType
<1>2. cmd.todo = <<>> /\ (\A f \in Sta!InfoFiles : info[f] = Sta!Missing) /\ stored = {}
  BY DEF Sta!Init, Sta!NoCommand
<1>3. Outcome(<<>>, info, info)
  BY <1>1, OutcomeIdle DEF StanzaTypeOK
<1>4. HistoriesIn(info, info) = {}
  BY <1>2, ContentsDistinct DEF HistoriesIn
<1>5. OneMeaning({}, {}) /\ AllBelow({}, {}, info)
  BY DEF OneMeaning, AllBelow
<1>6. Replaces(<<>>, info, info, {}, Sta!Missing, Sta!Missing)
  BY <1>2, NothingPending, ContentsDistinct DEF Replaces
<1> QED
  BY <1>2, <1>3, <1>4, <1>5, <1>6 DEF DbInv, Leads

(* A write brings the files closer to the outcome.                         *)
LEMMA DbWrite ==
  ASSUME StanzaTypeOK, StanzaTypeOK', NEW fin, NEW n, Leads(cmd.todo, info, fin, stored, n),
         cmd.todo # <<>>, Head(cmd.todo) \in Ops, Head(cmd.todo).op = "put",
         cmd'.todo = Tail(cmd.todo),
         info' = [info EXCEPT ![Head(cmd.todo).file] = Head(cmd.todo).value]
  PROVE  Leads(cmd'.todo, info', fin, stored, n)
<1> DEFINE e == Head(cmd.todo).file
<1>1. /\ Outcome(cmd'.todo, info', fin)
      /\ e \in Sta!InfoFiles
      /\ info' = [info EXCEPT ![e] = fin[e]]
  BY OutcomeStep DEF Leads
<1>2. info \in [Sta!InfoFiles -> Contents] /\ cmd.todo \in Seq(Ops) /\ Sorted(cmd.todo)
  BY DEF StanzaTypeOK
<1>3. \A f, v : PutIn(cmd'.todo, f, v) => PutIn(cmd.todo, f, v) /\ Ord(e) < Ord(f)
  BY <1>2, PutInTail, SortedTail
<1>4. \A f \in Sta!InfoFiles : Pending(cmd'.todo, f) <=> Pending(cmd.todo, f) /\ f # e
  <2>1. ASSUME NEW f \in Sta!InfoFiles, Pending(cmd'.todo, f) PROVE Pending(cmd.todo, f) /\ f # e
    BY <1>1, <1>3, <2>1, FileCases DEF Pending
  <2>2. ASSUME NEW f \in Sta!InfoFiles, Pending(cmd.todo, f), f # e PROVE Pending(cmd'.todo, f)
    BY <1>2, <2>2, PutInTail DEF Pending
  <2> QED
    BY <2>1, <2>2
<1>5. ~Pending(cmd'.todo, ArchiveMain)
  <2>1. ~(Ord(e) < Ord(ArchiveMain))
    BY <1>1, FourFiles, FileCases
  <2> QED
    BY <1>3, <2>1 DEF Pending
<1> HIDE DEF e
<1>6. \A f \in Sta!InfoFiles : info'[f] = IF f = e THEN fin[e] ELSE info[f]
  BY <1>1, <1>2
<1>7. HistoriesIn(info', fin) \subseteq HistoriesIn(info, fin)
  BY <1>1, <1>6 DEF HistoriesIn
<1>8. OneMeaning(HistoriesIn(info', fin), stored) /\ AllBelow(HistoriesIn(info', fin), stored, fin)
  BY <1>7, FewerMeanings DEF Leads
<1>9. ASSUME NEW old, NEW new, Replaces(cmd.todo, info, fin, stored, old, new)
      PROVE  Replaces(cmd'.todo, info', fin, stored, old, new)
  BY <1>1, <1>4, <1>5, <1>6, <1>9 DEF Replaces
<1> QED
  BY <1>1, <1>8, <1>9 DEF Leads

LEMMA DbOtherStep ==
  ASSUME NEW s, NEW t, NEW g, NEW fin, NEW S, NEW T, NEW n, Leads(s, g, fin, S, n),
         \A f, v : PutIn(t, f, v) <=> PutIn(s, f, v), T \subseteq S
  PROVE  Leads(t, g, fin, T, n)
<1>1. Outcome(t, g, fin)
  BY OutcomeSame DEF Leads
<1>2. OneMeaning(HistoriesIn(g, fin), T) /\ AllBelow(HistoriesIn(g, fin), T, fin)
  BY FewerMeanings DEF Leads
<1>3. \A f : Pending(t, f) <=> Pending(s, f)
  BY DEF Pending
<1>4. ASSUME NEW old, NEW new, Replaces(s, g, fin, S, old, new)
      PROVE  Replaces(t, g, fin, T, old, new)
  BY <1>3, <1>4 DEF Replaces
<1> QED
  BY <1>1, <1>2, <1>4 DEF Leads

LEMMA DbStep ==
  ASSUME StanzaTypeOK, DbInv, Sta!Step
  PROVE  DbInv'
<1>0. StanzaTypeOK' /\ stored' \subseteq stored /\ kills' = kills /\ lost' = lost /\ orphan' = orphan
  BY StepFacts
<1> SUFFICES ASSUME kills + lost <= 1, ~orphan
             PROVE  \E fin : Leads(cmd'.todo, info', fin, stored', kills + lost)
  BY <1>0 DEF DbInv
<1>1. PICK fin : Leads(cmd.todo, info, fin, stored, kills + lost)
  BY DEF DbInv
<1>2. CASE /\ cmd.todo # <<>> /\ Head(cmd.todo) \in Ops
           /\ cmd'.todo = Tail(cmd.todo) /\ Head(cmd.todo).op = "put"
           /\ info' = [info EXCEPT ![Head(cmd.todo).file] = Head(cmd.todo).value]
           /\ UNCHANGED stored
  <2>1. Leads(cmd'.todo, info', fin, stored, kills + lost)
    BY <1>0, <1>1, <1>2, DbWrite
  <2> QED
    BY <1>2, <2>1
<1>3. CASE UNCHANGED info /\ \A f, v : PutIn(cmd'.todo, f, v) <=> PutIn(cmd.todo, f, v)
  <2>1. Leads(cmd'.todo, info, fin, stored', kills + lost)
    BY <1>0, <1>1, <1>3, DbOtherStep
  <2> QED
    BY <1>3, <2>1
<1> QED
  BY <1>2, <1>3, StepFacts

(* A command that is killed before any other fault leaves files from which *)
(* the ids in use can still be told.                                       *)
LEMMA ReplacedBelow ==
  ASSUME NEW s, NEW g, NEW fin, NEW S, NEW old, NEW new, Replaces(s, g, fin, S, old, new),
         AllBelow(HistoriesIn(g, fin), S, fin), S \subseteq Sta!Kinds \X (Nat \ {0}) \X Databases
  PROVE  AllBelow(HistoriesIn(g, g), S, g)
<1>0. /\ old \in Histories \union {Sta!Missing} /\ new \in Histories \union {Sta!Missing}
      /\ \A f \in Sta!InfoFiles : fin[f] = new /\ g[f] \in {old, new}
      /\ Sta!Missing \notin Histories
  BY ContentsDistinct DEF Replaces
<1> SUFFICES ASSUME BothLoad(g)
             PROVE  \E k \in Sta!Kinds : /\ \A h \in HistoriesIn(g, g) : Len(h) <= Len(LoadOf(g, k))
                                         /\ \A d \in S : d[2] <= Len(LoadOf(g, k))
  BY DEF AllBelow, Below
<1>1. \A k \in Sta!Kinds : /\ Sta!Main(k) \in Sta!InfoFiles /\ Sta!Copy(k) \in Sta!InfoFiles
                           /\ LoadOf(g, k) \in Histories
                           /\ LoadOf(g, k) = g[Sta!Main(k)] \/ LoadOf(g, k) = g[Sta!Copy(k)]
  BY DEF Sta!InfoFiles, LoadOf, BothLoad
<1>2. \A h \in HistoriesIn(g, g) : h \in Histories /\ (h = old \/ h = new)
  BY <1>0 DEF HistoriesIn
<1>3. "archive" \in Sta!Kinds /\ LoadOf(g, "archive") \in {old, new}
  BY <1>0, <1>1 DEF Sta!Kinds
<1>4. \A d \in S : d[2] \in Nat
  OBVIOUS
<1>5. CASE new = Sta!Missing \/ Pending(s, ArchiveMain)
  <2>1. CASE new = Sta!Missing
    <3>1. LoadOf(g, "archive") = old /\ old \in Histories
      BY <1>0, <1>1, <1>3, <2>1
    <3>2. \A d \in S : d[2] <= Len(old)
      BY <1>5, <3>1 DEF Replaces
    <3>3. \A h \in HistoriesIn(g, g) : Len(h) <= Len(old)
      BY <1>0, <1>2, <2>1, <3>1, HistoryFacts
    <3> QED
      BY <1>3, <3>1, <3>2, <3>3
  <2>2. CASE new # Sta!Missing
    <3>1. \A f \in Sta!InfoFiles : g[f] = old
      BY <1>0, <1>5, <2>2 DEF Replaces
    <3>2. LoadOf(g, "archive") = old /\ old \in Histories
      BY <1>1, <1>3, <3>1
    <3>3. \A d \in S : d[2] <= Len(old)
      BY <1>5, <3>2 DEF Replaces
    <3>4. \A h \in HistoriesIn(g, g) : h = old
      BY <3>1 DEF HistoriesIn
    <3>5. Len(old) <= Len(old)
      BY <3>2, HistoryFacts
    <3> QED
      BY <1>3, <3>2, <3>3, <3>4, <3>5
  <2> QED
    BY <2>1, <2>2
<1>6. CASE new # Sta!Missing /\ ~Pending(s, ArchiveMain)
  <2>1. new \in Histories /\ g[ArchiveMain] = new
    BY <1>0, <1>6, FourFiles DEF Replaces
  <2>2. LoadOf(g, "archive") = new
    BY <2>1 DEF LoadOf, ArchiveMain
  <2>3. BothLoad(fin) /\ \A k \in Sta!Kinds : LoadOf(fin, k) = new
    BY <1>0, <1>1, <2>1 DEF BothLoad, LoadOf
  <2>4. \A d \in S : d[2] <= Len(new)
    BY <2>3 DEF AllBelow, Below
  <2>5. \A h \in HistoriesIn(g, g) : Len(h) <= Len(new)
    BY <1>2, <2>1, HistoryFacts DEF Replaces
  <2> QED
    BY <1>3, <2>2, <2>4, <2>5
<1> QED
  BY <1>5, <1>6

LEMMA DbKilled ==
  ASSUME StanzaTypeOK, DbInv, Sta!Killed
  PROVE  DbInv'
<1>0. cmd'.todo = <<>> /\ kills' = kills + 1 /\ lost' = lost /\ orphan' = orphan /\ stored' = stored /\ info' = info
  BY KilledFacts
<1> SUFFICES ASSUME kills + 1 + lost <= 1, ~orphan
             PROVE  \E fin : Leads(<<>>, info, fin, stored, kills + 1 + lost)
  BY <1>0 DEF DbInv
<1>1. kills \in Nat /\ lost \in Nat /\ kills + lost = 0 /\ kills + 1 + lost # 0 /\ info \in [Sta!InfoFiles -> Contents]
      /\ stored \subseteq Sta!Kinds \X (Nat \ {0}) \X Databases
  BY DEF StanzaTypeOK
<1>2. PICK fin : Leads(cmd.todo, info, fin, stored, kills + lost)
  BY <1>1 DEF DbInv
<1>3. PICK old, new : Replaces(cmd.todo, info, fin, stored, old, new)
  BY <1>1, <1>2 DEF Leads
<1>4. Outcome(<<>>, info, info)
  BY <1>1, OutcomeIdle
<1>5. HistoriesIn(info, info) \subseteq HistoriesIn(info, fin)
  BY DEF HistoriesIn
<1>6. OneMeaning(HistoriesIn(info, info), stored)
  BY <1>2, <1>5, FewerMeanings DEF Leads
<1>7. AllBelow(HistoriesIn(info, info), stored, info)
  BY <1>1, <1>2, <1>3, ReplacedBelow DEF Leads
<1> QED
  BY <1>1, <1>4, <1>6, <1>7 DEF Leads

(* A file that is lost, before any other fault.                            *)
LEMMA DbLose ==
  ASSUME StanzaTypeOK, DbInv, NEW f \in Sta!InfoFiles, Sta!Lose(f)
  PROVE  DbInv'
<1>0. PICK v \in {Sta!Missing, Sta!Damaged} : info' = [info EXCEPT ![f] = v]
  BY LoseFacts
<1>1. lost' = lost + 1 /\ kills' = kills /\ orphan' = orphan /\ stored' = stored /\ cmd' = cmd
  BY LoseFacts
<1> SUFFICES ASSUME kills + (lost + 1) <= 1, ~orphan
             PROVE  \E fin : Leads(cmd.todo, info', fin, stored, kills + (lost + 1))
  BY <1>1 DEF DbInv
<1>2. kills \in Nat /\ lost \in Nat /\ kills + lost = 0 /\ kills + (lost + 1) # 0 /\ info \in [Sta!InfoFiles -> Contents]
  BY DEF StanzaTypeOK
<1>3. PICK fin : Leads(cmd.todo, info, fin, stored, kills + lost)
  BY <1>2 DEF DbInv
<1>4. PICK old, new : Replaces(cmd.todo, info, fin, stored, old, new)
  BY <1>2, <1>3 DEF Leads
<1>5. v \notin Histories /\ v \in Contents
  BY ContentsDistinct DEF Contents
<1>6. fin \in [Sta!InfoFiles -> Contents]
  BY <1>3 DEF Leads, Outcome
<1>7. \A e \in Sta!InfoFiles : info'[e] = IF e = f THEN v ELSE info[e]
  BY <1>0, <1>2
<1> DEFINE gone == IF Pending(cmd.todo, f) THEN fin ELSE [fin EXCEPT ![f] = v]
<1>8. /\ gone \in [Sta!InfoFiles -> Contents]
      /\ \A e \in Sta!InfoFiles : gone[e] = fin[e] \/ (e = f /\ gone[e] = v)
      /\ Pending(cmd.todo, f) => gone = fin
      /\ ~Pending(cmd.todo, f) => \A e \in Sta!InfoFiles : gone[e] = IF e = f THEN v ELSE fin[e]
  BY <1>5, <1>6
<1> HIDE DEF gone
<1>9. Outcome(cmd.todo, info', gone)
  <2> SUFFICES ASSUME NEW e \in Sta!InfoFiles
               PROVE  /\ \A w \in Contents : PutIn(cmd.todo, e, w) => gone[e] = w
                      /\ (\A w \in Contents : ~PutIn(cmd.todo, e, w)) => gone[e] = info'[e]
    BY <1>8 DEF Outcome
  <2>1. /\ \A w \in Contents : PutIn(cmd.todo, e, w) => fin[e] = w
        /\ (\A w \in Contents : ~PutIn(cmd.todo, e, w)) => fin[e] = info[e]
    BY <1>3 DEF Leads, Outcome
  <2>2. CASE Pending(cmd.todo, f)
    BY <1>7, <1>8, <2>1, <2>2 DEF Pending
  <2>3. CASE ~Pending(cmd.todo, f)
    BY <1>7, <1>8, <2>1, <2>3 DEF Pending
  <2> QED
    BY <2>2, <2>3
<1>10. HistoriesIn(info', gone) \subseteq HistoriesIn(info, fin)
  BY <1>5, <1>7, <1>8 DEF HistoriesIn
<1>11. OneMeaning(HistoriesIn(info', gone), stored) /\ AllBelow(HistoriesIn(info', gone), stored, fin)
  BY <1>3, <1>10, FewerMeanings DEF Leads
<1>12. \A n : Below(fin, n) => Below(gone, n)
  <2> SUFFICES ASSUME BothLoad(gone) PROVE BothLoad(fin) /\ \A k \in Sta!Kinds : LoadOf(gone, k) = LoadOf(fin, k)
    BY DEF Below
  <2>1. \A e \in Sta!InfoFiles : fin[e] = new /\ (gone[e] = new \/ gone[e] = v)
    BY <1>4, <1>8 DEF Replaces
  <2>2. \A k \in Sta!Kinds : Sta!Main(k) \in Sta!InfoFiles /\ Sta!Copy(k) \in Sta!InfoFiles
    BY DEF Sta!InfoFiles
  <2>3. \A k \in Sta!Kinds : new \in Histories /\ LoadOf(gone, k) = new
    BY <1>5, <2>1, <2>2 DEF BothLoad, LoadOf
  <2> QED
    BY <2>1, <2>2, <2>3 DEF BothLoad, LoadOf
<1>13. AllBelow(HistoriesIn(info', gone), stored, gone)
  BY <1>11, <1>12 DEF AllBelow
<1> QED
  BY <1>2, <1>9, <1>11, <1>13 DEF Leads

(* Data is stored under an id of a history that a file holds.              *)
LEMMA DbStore ==
  ASSUME StanzaTypeOK, NEW fin, NEW n, Leads(cmd.todo, info, fin, stored, n),
         NEW e \in Sta!InfoFiles, info[e] \in Histories, NEW id \in Nat \ {0}, id <= Len(info[e]), info[e][id] = db,
         NEW k \in Sta!Kinds
  PROVE  Leads(cmd.todo, info, fin, stored \union {<<k, id, db>>}, n)
<1> DEFINE S == stored \union {<<k, id, db>>}
           h == info[e]
           H == HistoriesIn(info, fin)
<1>0. stored \subseteq Sta!Kinds \X (Nat \ {0}) \X Databases
  BY DEF StanzaTypeOK
<1>1. h \in H /\ Len(h) \in Nat /\ \A p \in H : p \in Histories /\ Len(p) \in Nat
  BY HistoryFacts DEF HistoriesIn
<1>2. \A d \in S : d \in stored \/ (d[2] = id /\ d[3] = db)
  OBVIOUS
<1>3. OneMeaning(H, stored) /\ AllBelow(H, stored, fin)
  BY DEF Leads
<1>4. OneMeaning(H, S)
  <2>1. ASSUME NEW p \in H, id <= Len(p) PROVE p[id] = db
    BY <1>1, <1>3, <2>1 DEF OneMeaning, Agree
  <2>2. ASSUME NEW d \in stored, d[2] = id PROVE d[3] = db
    BY <1>1, <1>3, <2>2 DEF OneMeaning
  <2>3. \A d \in S, p \in H : d[2] <= Len(p) => p[d[2]] = d[3]
    BY <1>2, <1>3, <2>1 DEF OneMeaning
  <2>4. \A d, c \in S : d[2] = c[2] => d[3] = c[3]
    BY <1>2, <1>3, <2>2 DEF OneMeaning
  <2> QED
    BY <1>3, <2>3, <2>4 DEF OneMeaning
<1>5. AllBelow(H, S, fin)
  <2>1. Below(fin, Len(h))
    BY <1>1, <1>3 DEF AllBelow
  <2>2. Below(fin, id)
    <3> SUFFICES ASSUME BothLoad(fin) PROVE \E j \in Sta!Kinds : id <= Len(LoadOf(fin, j))
      BY DEF Below
    <3>1. PICK j \in Sta!Kinds : Len(h) <= Len(LoadOf(fin, j))
      BY <2>1 DEF Below
    <3>2. LoadOf(fin, j) \in Histories
      BY DEF BothLoad, LoadOf
    <3>3. Len(LoadOf(fin, j)) \in Nat
      BY <3>2, HistoryFacts
    <3> QED
      BY <1>1, <3>1, <3>3
  <2> QED
    BY <1>2, <1>3, <2>2 DEF AllBelow
<1>6. ASSUME NEW old, NEW new, Replaces(cmd.todo, info, fin, stored, old, new)
      PROVE  Replaces(cmd.todo, info, fin, S, old, new)
  <2>0. Sta!Missing \notin Histories
    BY ContentsDistinct
  <2>1. ASSUME new \in Histories, Pending(cmd.todo, ArchiveMain) PROVE old # Sta!Missing /\ old = h
    BY <1>6, <2>0, <2>1 DEF Replaces
  <2>2. ASSUME new = Sta!Missing PROVE old = h
    BY <1>6, <2>0, <2>2 DEF Replaces
  <2>3. ASSUME new = Sta!Missing \/ Pending(cmd.todo, ArchiveMain), old \in Histories PROVE \A d \in S : d[2] <= Len(old)
    <3>1. old = h
      BY <1>6, <2>1, <2>2, <2>3 DEF Replaces
    <3> QED
      BY <1>2, <1>6, <2>3, <3>1 DEF Replaces
  <2> QED
    BY <1>6, <2>1, <2>3 DEF Replaces
<1> QED
  BY <1>4, <1>5, <1>6 DEF Leads

LEMMA DbPushFile ==
  ASSUME StanzaTypeOK, DbInv, Sta!PushFile
  PROVE  DbInv'
<1>0. /\ push \in Nat \ {0} /\ stored' = stored \union {<<"archive", push, db>>}
      /\ ~orphan' => ~orphan /\ Sta!Known(push)
      /\ cmd' = cmd /\ info' = info /\ kills' = kills /\ lost' = lost
  BY PushFileFacts
<1> SUFFICES ASSUME kills + lost <= 1, ~orphan'
             PROVE  \E fin : Leads(cmd.todo, info, fin, stored \union {<<"archive", push, db>>}, kills + lost)
  BY <1>0 DEF DbInv
<1>1. PICK fin : Leads(cmd.todo, info, fin, stored, kills + lost)
  BY <1>0 DEF DbInv
<1>2. Sta!Loads("archive") /\ push <= Len(Sta!Load("archive")) /\ Sta!Load("archive")[push] = db
  BY <1>0 DEF Sta!Known
<1>3. "archive" \in Sta!Kinds /\ Sta!Main("archive") \in Sta!InfoFiles /\ Sta!Copy("archive") \in Sta!InfoFiles
  BY DEF Sta!Kinds, Sta!InfoFiles
<1>4. PICK e \in Sta!InfoFiles : info[e] = Sta!Load("archive") /\ info[e] \in Histories
  BY <1>2, <1>3, LoadIsHistory
<1> QED
  BY <1>0, <1>1, <1>2, <1>3, <1>4, DbStore

LEMMA DbBackup ==
  ASSUME StanzaTypeOK, DbInv, Sta!Backup
  PROVE  DbInv'
<1> DEFINE h == Sta!Load("backup")
<1>0. /\ Sta!Loads("backup") /\ Sta!Current(h) = db /\ Len(h) \in Nat \ {0}
      /\ stored' = stored \union {<<"backup", Len(h), db>>}
      /\ cmd' = cmd /\ info' = info /\ kills' = kills /\ lost' = lost /\ orphan' = orphan
  BY BackupFacts
<1> SUFFICES ASSUME kills + lost <= 1, ~orphan
             PROVE  \E fin : Leads(cmd.todo, info, fin, stored \union {<<"backup", Len(h), db>>}, kills + lost)
  BY <1>0 DEF DbInv
<1>1. PICK fin : Leads(cmd.todo, info, fin, stored, kills + lost)
  BY DEF DbInv
<1>2. "backup" \in Sta!Kinds /\ Sta!Main("backup") \in Sta!InfoFiles /\ Sta!Copy("backup") \in Sta!InfoFiles
  BY DEF Sta!Kinds, Sta!InfoFiles
<1>3. PICK e \in Sta!InfoFiles : info[e] = h /\ info[e] \in Histories
  BY <1>0, <1>2, LoadIsHistory
<1>4. h[Len(h)] = db /\ Len(h) <= Len(h)
  BY <1>0, <1>3, HistoryFacts
<1> QED
  BY <1>0, <1>1, <1>2, <1>3, <1>4, DbStore

LEMMA DbUnchanged ==
  ASSUME DbInv, UNCHANGED <<info, stored, cmd, kills, lost, orphan>>
  PROVE  DbInv'
<1>1. info' = info /\ stored' = stored /\ cmd' = cmd /\ kills' = kills /\ lost' = lost /\ orphan' = orphan
  OBVIOUS
<1> QED
  BY <1>1 DEF DbInv

(* Without a command, the files are what they lead to.                     *)
LEMMA DbIdle ==
  ASSUME StanzaTypeOK, DbInv, cmd.todo = <<>>, kills + lost <= 1, ~orphan
  PROVE  /\ OneMeaning(HistoriesIn(info, info), stored)
         /\ AllBelow(HistoriesIn(info, info), stored, info)
         /\ kills + lost = 0 =>
              \E new \in Histories \union {Sta!Missing} : \A f \in Sta!InfoFiles : info[f] = new
<1>1. PICK fin : Leads(<<>>, info, fin, stored, kills + lost)
  BY DEF DbInv
<1>2. fin = info
  BY <1>1, OutcomeIdle DEF Leads, StanzaTypeOK
<1>3. ASSUME NEW old, NEW new, Replaces(<<>>, info, info, stored, old, new)
      PROVE  new \in Histories \union {Sta!Missing} /\ \A f \in Sta!InfoFiles : info[f] = new
  BY <1>3 DEF Replaces
<1> QED
  BY <1>1, <1>2, <1>3 DEF Leads

LEMMA DbCreateNew ==
  ASSUME StanzaTypeOK, DbInv, Sta!CreateNew
  PROVE  DbInv'
<1> DEFINE fin == [f \in Sta!InfoFiles |-> <<db>>]
           h == <<db>>
<1>1. /\ Outcome(cmd'.todo, info', fin) /\ h \in Histories
      /\ \A f \in Sta!InfoFiles : Pending(cmd'.todo, f)
      /\ info' = info /\ stored' = stored
  BY CreateNewOutcome DEF Pending
<1>2. /\ \A f \in Sta!InfoFiles : info[f] = Sta!Missing /\ fin[f] = h
      /\ stored = {}
  BY CreateNewBegins
<1> HIDE DEF fin, h
<1>3. \A p \in HistoriesIn(info, fin) : p = h
  BY <1>2, ContentsDistinct DEF HistoriesIn
<1>4. OneMeaning(HistoriesIn(info, fin), {})
  BY <1>1, <1>3, HistoryFacts DEF OneMeaning, Agree
<1>5. AllBelow(HistoriesIn(info, fin), {}, fin)
  <2>1. \A k \in Sta!Kinds : LoadOf(fin, k) = h
    BY <1>2 DEF LoadOf, Sta!InfoFiles
  <2>2. Len(h) <= Len(h)
    BY <1>1, HistoryFacts
  <2> QED
    BY <1>3, <2>1, <2>2 DEF AllBelow, Below, Sta!Kinds
<1>6. Replaces(cmd'.todo, info, fin, {}, Sta!Missing, h)
  BY <1>1, <1>2, ContentsDistinct DEF Replaces
<1> QED
  BY <1>1, <1>2, <1>4, <1>5, <1>6 DEF DbInv, Leads

LEMMA DbDelete ==
  ASSUME StanzaTypeOK, DbInv, Sta!Delete
  PROVE  DbInv'
<1> DEFINE fin == [f \in Sta!InfoFiles |-> Sta!Missing]
<1>1. /\ Outcome(cmd'.todo, info', fin) /\ cmd.todo = <<>>
      /\ \A f \in Sta!InfoFiles : ~Pending(cmd'.todo, f) => info[f] = Sta!Missing
      /\ info' = info /\ stored' = stored /\ kills' = kills /\ lost' = lost /\ orphan' = orphan
  BY DeleteOutcome DEF Pending
<1> SUFFICES ASSUME kills + lost <= 1, ~orphan PROVE \E g : Leads(cmd'.todo, info, g, stored, kills + lost)
  BY <1>1 DEF DbInv
<1>2. \A f \in Sta!InfoFiles : fin[f] = Sta!Missing
  OBVIOUS
<1>3. \A k \in Sta!Kinds : Sta!Main(k) \in Sta!InfoFiles /\ Sta!Copy(k) \in Sta!InfoFiles
  BY DEF Sta!InfoFiles
<1>4. Sta!Missing \notin Histories
  BY ContentsDistinct
<1> HIDE DEF fin
<1>5. HistoriesIn(info, fin) \subseteq HistoriesIn(info, info)
  BY <1>2, <1>4 DEF HistoriesIn
<1>6. OneMeaning(HistoriesIn(info, fin), stored)
  BY <1>1, <1>5, DbIdle, FewerMeanings
<1>7. AllBelow(HistoriesIn(info, fin), stored, fin)
  <2>1. ~BothLoad(fin)
    BY <1>2, <1>3, <1>4 DEF BothLoad, Sta!Kinds
  <2> QED
    BY <2>1 DEF AllBelow, Below
<1>8. ASSUME kills + lost = 0 PROVE \E old, new : Replaces(cmd'.todo, info, fin, stored, old, new)
  <2>1. PICK old \in Histories \union {Sta!Missing} : \A f \in Sta!InfoFiles : info[f] = old
    BY <1>1, <1>8, DbIdle
  <2>2. ASSUME old \in Histories PROVE \A d \in stored : d[2] <= Len(old)
    <3>1. BothLoad(info) /\ \A k \in Sta!Kinds : LoadOf(info, k) = old
      BY <1>3, <2>1, <2>2 DEF BothLoad, LoadOf
    <3>2. \A d \in stored : Below(info, d[2])
      BY <1>1, DbIdle DEF AllBelow
    <3> QED
      BY <3>1, <3>2 DEF Below
  <2>3. Replaces(cmd'.todo, info, fin, stored, old, Sta!Missing)
    BY <1>1, <1>2, <1>4, <2>1, <2>2 DEF Replaces
  <2> QED
    BY <2>3
<1> QED
  BY <1>1, <1>6, <1>7, <1>8 DEF Leads

LEMMA DbCreateExisting ==
  ASSUME StanzaTypeOK, DbInv, Sta!CreateExisting
  PROVE  DbInv'
<1>0. PICK fin :
        /\ Outcome(cmd'.todo, info', fin)
        /\ \A k \in Sta!Kinds :
             /\ info[Sta!Main(k)] \in Histories \/ info[Sta!Copy(k)] \in Histories
             /\ fin[Sta!Main(k)] = (IF info[Sta!Main(k)] = Sta!Missing THEN info[Sta!Copy(k)] ELSE info[Sta!Main(k)])
             /\ fin[Sta!Copy(k)] = (IF info[Sta!Copy(k)] = Sta!Missing THEN info[Sta!Main(k)] ELSE info[Sta!Copy(k)])
        /\ \A f \in Sta!InfoFiles : (\E v \in Contents : PutIn(cmd'.todo, f, v)) => info[f] = Sta!Missing
        /\ cmd.todo = <<>>
        /\ UNCHANGED <<info, stored, kills, lost, orphan>>
  BY CreateExistingOutcome
<1>1. /\ \A f \in Sta!InfoFiles : Pending(cmd'.todo, f) => info[f] = Sta!Missing
      /\ info' = info /\ stored' = stored /\ kills' = kills /\ lost' = lost /\ orphan' = orphan
  BY <1>0 DEF Pending
<1> SUFFICES ASSUME kills + lost <= 1, ~orphan PROVE Leads(cmd'.todo, info, fin, stored, kills + lost)
  BY <1>1 DEF DbInv
<1>2. \A k \in Sta!Kinds : Sta!Main(k) \in Sta!InfoFiles /\ Sta!Copy(k) \in Sta!InfoFiles
  BY DEF Sta!InfoFiles
<1>3. Sta!Missing \notin Histories
  BY ContentsDistinct
<1>4. \A f \in Sta!InfoFiles : \E e \in Sta!InfoFiles : fin[f] = info[e]
  BY <1>0, <1>2 DEF Sta!InfoFiles
<1>5. HistoriesIn(info, fin) \subseteq HistoriesIn(info, info)
  BY <1>4 DEF HistoriesIn
<1>6. OneMeaning(HistoriesIn(info, fin), stored) /\ AllBelow(HistoriesIn(info, fin), stored, info)
  BY <1>0, <1>5, DbIdle, FewerMeanings
<1>7. BothLoad(info) /\ \A k \in Sta!Kinds : LoadOf(fin, k) = LoadOf(info, k)
  BY <1>0, <1>3 DEF BothLoad, LoadOf
<1>8. AllBelow(HistoriesIn(info, fin), stored, fin)
  BY <1>6, <1>7 DEF AllBelow, Below
<1>9. ASSUME kills + lost = 0 PROVE \E old, new : Replaces(cmd'.todo, info, fin, stored, old, new)
  <2>1. PICK new \in Histories \union {Sta!Missing} : \A f \in Sta!InfoFiles : info[f] = new
    BY <1>0, <1>9, DbIdle
  <2>2. new \in Histories
    BY <1>2, <1>7, <2>1 DEF BothLoad, Sta!Kinds
  <2>3. \A f \in Sta!InfoFiles : fin[f] = new /\ ~Pending(cmd'.todo, f)
    BY <1>1, <1>3, <1>4, <2>1, <2>2
  <2>4. ArchiveMain \in Sta!InfoFiles /\ Len(new) <= Len(new)
    BY <2>2, FourFiles, HistoryFacts
  <2>5. Replaces(cmd'.todo, info, fin, stored, new, new)
    BY <1>3, <2>1, <2>2, <2>3, <2>4 DEF Replaces
  <2> QED
    BY <2>5
<1> QED
  BY <1>0, <1>1, <1>6, <1>8, <1>9 DEF Leads

(* Two histories that agree are the same history once they are updated and *)
(* match, and the id that was added is new.                                *)
LEMMA MatchedUpdates ==
  ASSUME db \in Databases, NEW H, H \subseteq Histories, NEW S, S \subseteq Sta!Kinds \X (Nat \ {0}) \X Databases,
         OneMeaning(H, S), NEW la \in H, NEW lb \in H,
         Sta!InfosMatch(Sta!Updated(la), Sta!Updated(lb)),
         \A h \in H : Len(h) <= Len(la) \/ Len(h) <= Len(lb),
         \A d \in S : d[2] <= Len(la) \/ d[2] <= Len(lb)
  PROVE  /\ Sta!Updated(la) \in Histories /\ Sta!Updated(la) = Sta!Updated(lb)
         /\ OneMeaning(H \union {Sta!Updated(la)}, S)
         /\ \A h \in H : Len(h) <= Len(Sta!Updated(la))
         /\ \A d \in S : d[2] <= Len(Sta!Updated(la))
<1> DEFINE na == Sta!Updated(la)
           nb == Sta!Updated(lb)
<1>1. /\ na \in Histories /\ nb \in Histories
      /\ Len(la) \in Nat \ {0} /\ Len(lb) \in Nat \ {0}
      /\ \A h \in H : Len(h) \in Nat
      /\ \A d \in S : d[2] \in Nat \ {0}
  BY UpdatedFacts, HistoryFacts
<1>2. /\ Len(na) = Len(la) \/ Len(na) = Len(la) + 1
      /\ \A i \in 1 .. Len(la) : na[i] = la[i]
  BY UpdatedFacts
<1>3. /\ Len(nb) = Len(lb) \/ Len(nb) = Len(lb) + 1
      /\ \A i \in 1 .. Len(lb) : nb[i] = lb[i]
  BY UpdatedFacts
<1>4. Len(na) = Len(nb) /\ na[Len(na)] = nb[Len(nb)]
  BY <1>1, HistoryFacts DEF Sta!InfosMatch
<1> HIDE DEF na, nb
<1>5. \A i \in 1 .. Len(na) : na[i] = nb[i]
  <2> SUFFICES ASSUME NEW i \in 1 .. Len(na) PROVE na[i] = nb[i]
    OBVIOUS
  <2>1. CASE i = Len(na)
    BY <1>4, <2>1
  <2>2. CASE i # Len(na)
    <3>1. i \in 1 .. Len(la) /\ i <= Len(lb) /\ i \in 1 .. Len(lb)
      BY <1>1, <1>2, <1>3, <1>4, <2>2
    <3>2. la[i] = lb[i]
      BY <3>1 DEF OneMeaning, Agree
    <3> QED
      BY <1>2, <1>3, <3>1, <3>2
  <2> QED
    BY <2>1, <2>2
<1>6. na = nb
  BY <1>1, <1>4, <1>5, HistoryEqual
<1>7. /\ \A h \in H : Len(h) <= Len(na)
      /\ \A d \in S : d[2] <= Len(na)
  BY <1>1, <1>2, <1>3, <1>4
<1>8. ASSUME NEW h \in H, NEW i \in 1 .. Len(h) PROVE na[i] = h[i]
  <2>1. CASE i <= Len(la)
    <3>1. i \in 1 .. Len(la)
      BY <1>1, <2>1
    <3>2. la[i] = h[i]
      BY <1>8, <3>1 DEF OneMeaning, Agree
    <3> QED
      BY <1>2, <3>1, <3>2
  <2>2. CASE i <= Len(lb)
    <3>1. i \in 1 .. Len(lb)
      BY <1>1, <2>2
    <3>2. lb[i] = h[i]
      BY <1>8, <3>1 DEF OneMeaning, Agree
    <3> QED
      BY <1>3, <1>6, <3>1, <3>2
  <2> QED
    BY <1>1, <1>8, <2>1, <2>2
<1>9. ASSUME NEW d \in S PROVE na[d[2]] = d[3]
  <2>1. CASE d[2] <= Len(la)
    <3>1. d[2] \in 1 .. Len(la) /\ la[d[2]] = d[3]
      BY <1>1, <2>1 DEF OneMeaning
    <3> QED
      BY <1>2, <3>1
  <2>2. CASE d[2] <= Len(lb)
    <3>1. d[2] \in 1 .. Len(lb) /\ lb[d[2]] = d[3]
      BY <1>1, <2>2 DEF OneMeaning
    <3> QED
      BY <1>3, <1>6, <3>1
  <2> QED
    BY <2>1, <2>2
<1>10. OneMeaning(H \union {na}, S)
  <2>1. \A p \in H : Agree(p, na) /\ Agree(na, p) /\ Agree(na, na)
    BY <1>1, <1>8, HistoryFacts DEF Agree
  <2>2. \A p, q \in H \union {na} : Agree(p, q)
    BY <2>1 DEF OneMeaning
  <2>3. \A d \in S, h \in H \union {na} : d[2] <= Len(h) => h[d[2]] = d[3]
    BY <1>9 DEF OneMeaning
  <2> QED
    BY <2>2, <2>3 DEF OneMeaning
<1> QED
  BY <1>1, <1>6, <1>7, <1>10 DEF na, nb

LEMMA DbUpgrade ==
  ASSUME StanzaTypeOK, DbInv, Sta!Upgrade
  PROVE  DbInv'
<1>0. PICK fin :
        /\ Outcome(cmd'.todo, info', fin)
        /\ \A f \in Sta!InfoFiles : /\ Sta!Loads(f[1])
                                    /\ Sta!Load(f[1]) \in Histories
                                    /\ fin[f] = IF Sta!Updated(Sta!Load(f[1])) = Sta!Load(f[1]) THEN info[f]
                                                ELSE Sta!Updated(Sta!Load(f[1]))
        /\ \A f \in Sta!InfoFiles : (\E v \in Contents : PutIn(cmd'.todo, f, v)) <=>
                                      Sta!Updated(Sta!Load(f[1])) # Sta!Load(f[1])
        /\ Sta!InfosMatch(Sta!Updated(Sta!Load("archive")), Sta!Updated(Sta!Load("backup")))
        /\ cmd.todo = <<>>
        /\ UNCHANGED <<info, stored, kills, lost, orphan>>
  BY UpgradeOutcome
<1>1. /\ \A f \in Sta!InfoFiles : Pending(cmd'.todo, f) <=> Sta!Updated(Sta!Load(f[1])) # Sta!Load(f[1])
      /\ info' = info /\ stored' = stored /\ kills' = kills /\ lost' = lost /\ orphan' = orphan
  BY <1>0 DEF Pending
<1> SUFFICES ASSUME kills + lost <= 1, ~orphan PROVE Leads(cmd'.todo, info, fin, stored, kills + lost)
  BY <1>1 DEF DbInv
<1> DEFINE la == Sta!Load("archive")
           lb == Sta!Load("backup")
           n == Sta!Updated(Sta!Load("archive"))
           H == HistoriesIn(info, info)
<1>2. \A k \in Sta!Kinds : /\ Sta!Main(k) \in Sta!InfoFiles /\ Sta!Copy(k) \in Sta!InfoFiles
                           /\ Sta!Main(k)[1] = k /\ Sta!Copy(k)[1] = k
  BY DEF Sta!InfoFiles, Sta!Main, Sta!Copy
<1>3. Sta!Missing \notin Histories /\ Sta!Kinds = {"archive", "backup"}
  BY ContentsDistinct DEF Sta!Kinds
<1>4. \A k \in Sta!Kinds : /\ LoadOf(info, k) = Sta!Load(k) /\ Sta!Load(k) \in Histories
                           /\ info[Sta!Main(k)] \in Histories \/ info[Sta!Copy(k)] \in Histories
  <2> SUFFICES ASSUME NEW k \in Sta!Kinds
               PROVE  /\ LoadOf(info, k) = Sta!Load(k) /\ Sta!Load(k) \in Histories
                      /\ info[Sta!Main(k)] \in Histories \/ info[Sta!Copy(k)] \in Histories
    OBVIOUS
  <2>1. Sta!Loads(k)
    BY <1>0, <1>2
  <2> QED
    BY <1>2, <2>1, ReadableIsHistory, LoadIsHistory DEF LoadOf, Sta!Loads, Sta!Load
<1>5. BothLoad(info)
  BY <1>4 DEF BothLoad
<1>6. H \subseteq Histories /\ la \in H /\ lb \in H
  BY <1>2, <1>3, <1>4 DEF HistoriesIn, LoadOf
<1>7. OneMeaning(H, stored) /\ AllBelow(H, stored, info)
  BY <1>0, DbIdle
<1>8. /\ \A h \in H : Len(h) <= Len(la) \/ Len(h) <= Len(lb)
      /\ \A d \in stored : d[2] <= Len(la) \/ d[2] <= Len(lb)
  BY <1>3, <1>4, <1>5, <1>7 DEF AllBelow, Below
<1>9. db \in Databases /\ stored \subseteq Sta!Kinds \X (Nat \ {0}) \X Databases
  BY DEF StanzaTypeOK
<1>10. Sta!InfosMatch(Sta!Updated(la), Sta!Updated(lb))
  BY <1>0
<1> HIDE DEF H
<1>11. /\ n \in Histories /\ n = Sta!Updated(lb)
       /\ OneMeaning(H \union {n}, stored)
       /\ \A h \in H : Len(h) <= Len(n)
       /\ \A d \in stored : d[2] <= Len(n)
  BY <1>6, <1>7, <1>8, <1>9, <1>10, MatchedUpdates
<1>12. \A f \in Sta!InfoFiles : /\ f[1] \in Sta!Kinds /\ Sta!Updated(Sta!Load(f[1])) = n
                                /\ fin[f] = IF n = Sta!Load(f[1]) THEN info[f] ELSE n
                                /\ Pending(cmd'.todo, f) <=> n # Sta!Load(f[1])
  <2> SUFFICES ASSUME NEW f \in Sta!InfoFiles PROVE f[1] \in Sta!Kinds /\ Sta!Updated(Sta!Load(f[1])) = n
    BY <1>0, <1>1
  <2>1. f[1] \in Sta!Kinds
    BY FileCases
  <2> QED
    BY <1>3, <1>11, <2>1
<1> HIDE DEF n
<1>13. HistoriesIn(info, fin) \subseteq H \union {n}
  BY <1>12 DEF HistoriesIn, H
<1>14. OneMeaning(HistoriesIn(info, fin), stored)
  BY <1>11, <1>13, FewerMeanings
<1>15. \A k \in Sta!Kinds : LoadOf(fin, k) = n
  <2> SUFFICES ASSUME NEW k \in Sta!Kinds PROVE LoadOf(fin, k) = n
    OBVIOUS
  <2>1. CASE n = Sta!Load(k)
    <3>1. fin[Sta!Main(k)] = info[Sta!Main(k)] /\ fin[Sta!Copy(k)] = info[Sta!Copy(k)]
      BY <1>2, <1>12, <2>1
    <3> QED
      BY <1>4, <2>1, <3>1 DEF LoadOf
  <2>2. CASE n # Sta!Load(k)
    <3>1. fin[Sta!Main(k)] = n
      BY <1>2, <1>12, <2>2
    <3> QED
      BY <1>11, <3>1 DEF LoadOf
  <2> QED
    BY <2>1, <2>2
<1>16. AllBelow(HistoriesIn(info, fin), stored, fin)
  <2>1. Len(n) <= Len(n)
    BY <1>11, HistoryFacts
  <2>2. \A h \in HistoriesIn(info, fin) : Len(h) <= Len(n)
    BY <1>11, <1>13, <2>1
  <2> QED
    BY <1>3, <1>11, <1>15, <2>2 DEF AllBelow, Below
<1>17. ASSUME kills + lost = 0 PROVE \E old, new : Replaces(cmd'.todo, info, fin, stored, old, new)
  <2>1. PICK old \in Histories \union {Sta!Missing} : \A f \in Sta!InfoFiles : info[f] = old
    BY <1>0, <1>17, DbIdle
  <2>2. old \in Histories /\ \A k \in Sta!Kinds : Sta!Load(k) = old
    BY <1>2, <1>3, <1>4, <2>1 DEF LoadOf
  <2>3. /\ \A f \in Sta!InfoFiles : fin[f] = n /\ (Pending(cmd'.todo, f) <=> n # old)
        /\ ArchiveMain \in Sta!InfoFiles
    BY <1>12, <2>1, <2>2, FourFiles
  <2>4. \A d \in stored : d[2] <= Len(old)
    BY <1>3, <1>8, <2>2
  <2>5. Len(old) <= Len(n)
    BY <1>3, <1>6, <1>11, <2>2
  <2>6. Replaces(cmd'.todo, info, fin, stored, old, n)
    BY <1>3, <1>11, <2>1, <2>2, <2>3, <2>4, <2>5 DEF Replaces
  <2> QED
    BY <2>6
<1> QED
  BY <1>0, <1>1, <1>14, <1>16, <1>17 DEF Leads

LEMMA DbNext ==
  ASSUME StanzaTypeOK, DbInv, Sta!Next
  PROVE  DbInv'
<1>1. CASE Sta!CreateNew
  BY <1>1, DbCreateNew
<1>2. CASE Sta!CreateExisting
  BY <1>2, DbCreateExisting
<1>3. CASE Sta!Upgrade
  BY <1>3, DbUpgrade
<1>4. CASE Sta!Delete
  BY <1>4, DbDelete
<1>5. CASE Sta!Step
  BY <1>5, DbStep
<1>6. CASE Sta!Killed
  BY <1>6, DbKilled
<1>7. CASE Sta!PushCheck
  BY <1>7, DbUnchanged, PushCheckFacts
<1>8. CASE Sta!PushFile
  BY <1>8, DbPushFile
<1>9. CASE Sta!Backup
  BY <1>9, DbBackup
<1>10. CASE Sta!StopStart \/ Sta!PgChange
  BY <1>10, DbUnchanged, OtherFacts
<1>11. ASSUME NEW f \in Sta!InfoFiles, Sta!Lose(f) PROVE DbInv'
  BY <1>11, DbLose
<1> QED
  BY <1>1, <1>2, <1>3, <1>4, <1>5, <1>6, <1>7, <1>8, <1>9, <1>10, <1>11 DEF Sta!Next

-----------------------------------------------------------------------------
(* The behaviours of the part "stanza".                                    *)
StanzaInv == part = "stanza" => StanzaTypeOK /\ AheadInv /\ DbInv

(* For any databases, commands and faults the stanza commands keep the     *)
(* invariant: the files are in step and every id has one meaning           *)
(* (command/stanza, info/infoPg.c).                                        *)
THEOREM StanzaInvariant == MCSpec => []StanzaInv
<1>1. MCInit => StanzaInv
  <2> SUFFICES ASSUME MCInit, part = "stanza" PROVE StanzaTypeOK /\ AheadInv /\ DbInv
    BY DEF StanzaInv
  <2>1. Sta!Init
    BY DEF MCInit
  <2> QED
    BY <2>1, InitStanzaType, AheadInit, DbInit
<1>2. StanzaInv /\ [MCNext]_mcVars => StanzaInv'
  <2> SUFFICES ASSUME StanzaInv, [MCNext]_mcVars, part' = "stanza" PROVE StanzaTypeOK' /\ AheadInv' /\ DbInv'
    BY DEF StanzaInv
  <2>1. part = "stanza"
    BY DEF MCNext, mcVars
  <2>2. StanzaTypeOK /\ AheadInv /\ DbInv
    BY <2>1 DEF StanzaInv
  <2>3. CASE Sta!Next
    BY <2>2, <2>3, AheadNext, DbNext
  <2>4. CASE UNCHANGED mcVars
    <3>1. UNCHANGED <<db, info, stored, cmd, push, kills, lost, orphan>>
      BY <2>4 DEF mcVars, stanzaVars
    <3>2. StanzaTypeOK'
      BY <2>2, <3>1 DEF StanzaTypeOK
    <3> QED
      BY <2>2, <3>1, <3>2, AheadUnchanged, DbUnchanged
  <2> QED
    BY <2>1, <2>3, <2>4 DEF MCNext
<1> QED
  BY <1>1, <1>2, PTL DEF MCSpec

(* While no info file was lost, archive.info has the history of            *)
(* backup.info or is one database ahead, whatever commands were killed     *)
(* between two of their writes (command/stanza/upgrade.c:68).              *)
THEOREM StanzaAtMostOneAhead == MCSpec => []AtMostOneAhead
<1>1. StanzaInv => AtMostOneAhead
  BY AheadInvImplies DEF StanzaInv, AtMostOneAhead
<1> QED
  BY <1>1, StanzaInvariant, PTL

(* Data stored under one id is of one database, after one fault (a command *)
(* killed, or an info file lost or damaged) and for any number of          *)
(* databases, commands and changes of the cluster (info/infoPg.c,          *)
(* command/stanza).                                                        *)
THEOREM StanzaOneDatabasePerId == MCSpec => []OneDatabasePerId
<1>1. StanzaInv => OneDatabasePerId
  BY DbInvImplies DEF StanzaInv, OneDatabasePerId
<1> QED
  BY <1>1, StanzaInvariant, PTL
=============================================================================
