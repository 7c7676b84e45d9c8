----------------------------- MODULE MCCluster ------------------------------
(***************************************************************************)
(* What is done with running clusters: archive-push, archive-get, the      *)
(* backup that copies from a standby, and the page checksums of a file     *)
(* that is copied.  The parts do not share state here: a behaviour is one  *)
(* of a single part, and Parts says which are checked.                     *)
(***************************************************************************)
EXTENDS ArchivePush, TLC

CONSTANTS Parts, a1, a2, NoCluster, MaxWal, MaxCrashes

VARIABLES
    part,                                               \* the part that runs
    stored, want, queue, getOk, getErr, getGerr, getLock, get, getAsync, outages, seeks,   \* ArchiveGet
    cluster, backup, promotions, crashes,               \* Standby
    disk, before, rest, written, write, writes, filter  \* PageChecksum

getVars == <<stored, want, queue, getOk, getErr, getGerr, getLock, get, getAsync, outages, seeks>>
standbyVars == <<cluster, backup, promotions, crashes>>
pageVars == <<disk, before, rest, written, write, writes, filter>>
mcVars == <<part, vars, getVars, standbyVars, pageVars>>

AsyncSymmetry == Permutations(Async)

(* Two segments and a window of two, several repositories, one outage or crash, one jump. *)
Get == INSTANCE ArchiveGet WITH
    MaxSeg <- 2, QueueMax <- 2, ProcessMax <- 2, MissingRetry <- TRUE, MultiRepo <- TRUE, MaxFault <- 1, MaxSeek <- 1,
    archive <- stored, spool <- queue, ok <- getOk, err <- getErr, gerr <- getGerr, lock <- getLock, fg <- get, async <- getAsync,
    faults <- outages

ASSUME GetBounds == Get!GetAssumption

(* A primary and two standbys, one of which is promoted, and one cluster that crashes; a primary
   and its only standby with more WAL. *)
SomeWal == (3 :> 3) @@ (2 :> 5)

ASSUME WalAssumption == DOMAIN MaxWal \subseteq Nat \ {0}

Stb == INSTANCE Standby WITH MaxPromotions <- 1, None <- NoCluster, p <- backup

(* Three pages in buffers of two, with one page that PostgreSQL writes. *)
Pgc == INSTANCE PageChecksum WITH
    Pages <- 3, BufferPages <- 2, SegmentPages <- 4, Segments <- {0, 1}, MaxWrites <- 1

-----------------------------------------------------------------------------
Off(v) == v = "off"

MCInit ==
    /\ part \in Parts
    /\ Init
    /\ IF part = "get" THEN Get!Init
       ELSE Off(stored) /\ Off(want) /\ Off(queue) /\ Off(getOk) /\ Off(getErr) /\ Off(getGerr) /\ Off(getLock)
            /\ Off(get) /\ Off(getAsync) /\ Off(outages) /\ Off(seeks)
    /\ IF part = "standby" THEN Stb!Init ELSE Off(cluster) /\ Off(backup) /\ Off(promotions) /\ Off(crashes)
    /\ IF part = "pages" THEN Pgc!Init
       ELSE Off(disk) /\ Off(before) /\ Off(rest) /\ Off(written) /\ Off(write) /\ Off(writes) /\ Off(filter)

Gets(A) == part = "get" /\ A /\ UNCHANGED <<part, vars, standbyVars, pageVars>>
Pushes(A) == part = "push" /\ A /\ UNCHANGED <<part, getVars, standbyVars, pageVars>>

MCNext ==
    \/ Pushes(Next)
    \/ part = "standby" /\ Stb!Next /\ UNCHANGED <<part, vars, getVars, pageVars>>
    \/ part = "pages" /\ Pgc!Next /\ UNCHANGED <<part, vars, getVars, standbyVars>>

MCSpec == MCInit /\ [][MCNext]_mcVars

\* The fairness of the two archive commands, as their modules state it.
MCFairSpec ==
    /\ MCInit
    /\ [][Gets(Get!Next /\ Get!PatientForeground) \/ Pushes(Next /\ PatientForeground)]_mcVars
    /\ WF_mcVars(Gets(Get!Foreground) \/ Pushes(Foreground))
    /\ SF_mcVars(Gets(Get!ArchiveTimeout) \/ Pushes(ArchiveTimeout))
    /\ \A a \in Async : WF_mcVars(Gets(Get!Background(a)) \/ Pushes(Background(a)))
    /\ \A x \in Pusher, s \in Seg : WF_mcVars(Pushes(JobFind(x, s) \/ JobCopy(x, s)))

\* A backup from a standby is consistent with the WAL of the primary (db/db.c).
CopiedIsConsistent == part = "standby" => Stb!CopiedIsConsistent

\* The manifest lists the corrupt pages of a file, and no others (pageChecksum.c).
PagesAreReported == part = "pages" => Pgc!PagesAreReported

\* The segment that recovery waits for is delivered once it is archived, or recovery goes
\* elsewhere (command/archive/get/get.c), and a segment that is ready to be archived is
\* archived (command/archive/push/push.c), whatever error files, stale queues and notices
\* earlier processes left in the spool.
Waiting(s) == IF part = "get" THEN want = s /\ s \in stored ELSE s \in ready
WaitingIsServed == \A s \in Seg : Waiting(s) ~> ~Waiting(s)
=============================================================================
