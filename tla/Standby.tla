------------------------------- MODULE Standby -------------------------------
(***************************************************************************)
(* A backup that copies from a standby (db/db.c, db/helper.c, and the      *)
(* steps of command/backup/backup.c that use them).  backup finds a        *)
(* primary and a standby among the configured clusters, starts the backup  *)
(* on the primary, waits until the standby has replayed to the start and   *)
(* has a checkpoint there, copies, asks both clusters whether they are     *)
(* still what they were, and stops the backup on the primary.  Meanwhile   *)
(* clusters crash, are promoted, and follow another primary.               *)
(*                                                                         *)
(* The WAL a cluster wrote or replayed is a sequence of records; an LSN is *)
(* a position in it.  A data file on disk has all records before the last  *)
(* checkpoint, and maybe more.                                             *)
(***************************************************************************)
EXTENDS Naturals, FiniteSets, Sequences, SequencesExt

CONSTANTS
    MaxWal,         \* numbers of clusters to check, and for each the bound on the records of a cluster
    MaxPromotions,  \* bounds on promotions and crashes
    MaxCrashes,
    None

VARIABLES
    cluster,        \* by cluster pg1, pg2, ..: its role, WAL, checkpoint, upstream and incarnation
    p,              \* the backup command
    promotions, crashes

vars == <<cluster, p, promotions, crashes>>

Names == DOMAIN cluster
Room(c) == Len(cluster[c].wal) < MaxWal[Cardinality(Names)]

\* Not running; connections of p that are open are those of the incarnation they were opened to.
Idle == [pc |-> "get", next |-> 1, primary |-> None, standby |-> None,
         control |-> [c \in Names |-> [checkpoint |-> 0, timeline |-> 0]], session |-> [c \in Names |-> 0],
         start |-> 0, copied |-> <<>>]

Wal(c) == cluster[c].wal

\* The last checkpoint record of a cluster.
LastCheckpoint(wal) == CHOOSE i \in 1..Len(wal) : wal[i].ckpt /\ \A j \in i + 1..Len(wal) : ~wal[j].ckpt

\* pg_control as it is on disk: the position of the checkpoint and its timeline.
Control(c) == [checkpoint |-> cluster[c].checkpoint, timeline |-> Wal(c)[cluster[c].checkpoint].tl]

\* The first cluster is the primary at first.
Init ==
    /\ \E n \in DOMAIN MaxWal : cluster = [c \in 1..n |->
          [role |-> IF c = 1 THEN "primary" ELSE "standby", up |-> TRUE, wal |-> <<[tl |-> 1, ckpt |-> TRUE]>>,
           tl |-> 1, checkpoint |-> 1, upstream |-> 1, incarnation |-> 0]]
    /\ p = Idle
    /\ promotions = 0 /\ crashes = 0

-----------------------------------------------------------------------------
(* The clusters. *)

\* A primary writes a record, or makes a checkpoint.
Appended(cl, ckpt) ==
    LET wal == Append(cl.wal, [tl |-> cl.tl, ckpt |-> ckpt])
    IN  [cl EXCEPT !.wal = wal, !.checkpoint = IF ckpt THEN Len(wal) ELSE @]

Write(c, ckpt) ==
    /\ cluster[c].up /\ cluster[c].role = "primary" /\ Room(c)
    /\ cluster' = [cluster EXCEPT ![c] = Appended(@, ckpt)]
    /\ UNCHANGED <<p, promotions, crashes>>

\* A standby replays what its upstream has more than itself.
Replay(c) ==
    /\ cluster[c].up /\ cluster[c].role = "standby"
    /\ LET up == Wal(cluster[c].upstream)
       IN  /\ cluster[cluster[c].upstream].up
           /\ Len(Wal(c)) < Len(up) /\ IsPrefix(Wal(c), up)
           /\ cluster' = [cluster EXCEPT ![c].wal = Append(@, up[Len(Wal(c)) + 1]), ![c].tl = up[Len(Wal(c)) + 1].tl]
    /\ UNCHANGED <<p, promotions, crashes>>

\* A restartpoint is made at the last checkpoint record that was replayed.
Restartpoint(c) ==
    /\ cluster[c].up /\ cluster[c].role = "standby"
    /\ cluster[c].checkpoint # LastCheckpoint(Wal(c))
    /\ cluster' = [cluster EXCEPT ![c].checkpoint = LastCheckpoint(Wal(c))]
    /\ UNCHANGED <<p, promotions, crashes>>

\* A promoted standby has a new timeline; its first checkpoint comes later.
Promote(c) ==
    /\ promotions < MaxPromotions
    /\ cluster[c].up /\ cluster[c].role = "standby" /\ Room(c)
    /\ LET tl == 1 + Max({cluster[d].tl : d \in Names})
       IN  cluster' = [cluster EXCEPT ![c] = [Appended([@ EXCEPT !.tl = tl], FALSE) EXCEPT !.role = "primary"]]
    /\ promotions' = promotions + 1
    /\ UNCHANGED <<p, crashes>>

Crash(c) ==
    /\ crashes < MaxCrashes
    /\ cluster[c].up
    /\ cluster' = [cluster EXCEPT ![c].up = FALSE, ![c].incarnation = @ + 1]
    /\ crashes' = crashes + 1
    /\ UNCHANGED <<p, promotions>>

\* What crashed starts again, and a standby whose upstream is gone follows another primary.
Startup(c) ==
    /\ ~cluster[c].up
    /\ cluster' = [cluster EXCEPT ![c].up = TRUE]
    /\ UNCHANGED <<p, promotions, crashes>>

Follow(c, d) ==
    /\ cluster[c].role = "standby" /\ ~cluster[cluster[c].upstream].up
    /\ d # cluster[c].upstream /\ cluster[d].up /\ cluster[d].role = "primary"
    /\ cluster' = [cluster EXCEPT ![c].upstream = d]
    /\ UNCHANGED <<p, promotions, crashes>>

-----------------------------------------------------------------------------
(* The connections of the backup. *)

\* pgClientQuery(): a query fails when the connection is lost, or when it takes longer than db-timeout.
Connected(c) == cluster[c].up /\ p.session[c] = cluster[c].incarnation

Running == p.pc \notin {"done", "failed"}

Fail == p' = [Idle EXCEPT !.pc = "failed"]

\* An error of a query, a timeout or a signal ends the backup; PostgreSQL forgets that it was started.
Abort ==
    /\ Fail
    /\ UNCHANGED <<cluster, promotions, crashes>>

\* dbOpen(): the recovery state, then pg_control, of a connection that is made now.
Opened(c) == [p EXCEPT !.next = @ + 1, !.session[c] = cluster[c].incarnation, !.control[c] = Control(c)]

\* dbGet(), one cluster: one that cannot be reached is passed over with a warning.
DbGetIdx ==
    /\ p.pc = "get" /\ p.next \in Names
    /\ LET c == p.next
       IN  \/ p' = [p EXCEPT !.next = @ + 1]
           \/ /\ cluster[c].up /\ cluster[c].role = "standby"
              /\ p' = IF p.standby = None THEN [Opened(c) EXCEPT !.standby = c] ELSE [p EXCEPT !.next = @ + 1]
           \/ /\ cluster[c].up /\ cluster[c].role = "primary"
              /\ IF p.primary = None THEN p' = [Opened(c) EXCEPT !.primary = c] ELSE Fail
    /\ UNCHANGED <<cluster, promotions, crashes>>

\* The end of dbGet() with backup-standby=y.
DbGet ==
    /\ p.pc = "get" /\ p.next \notin Names
    /\ IF p.primary = None \/ p.standby = None THEN Fail ELSE p' = [p EXCEPT !.pc = "start"]
    /\ UNCHANGED <<cluster, promotions, crashes>>

\* dbBackupStart(): a checkpoint is made, and the backup starts there.  The timeline of the WAL must be
\* the one pg_control had when the connection was made.
DbBackupStart ==
    /\ p.pc = "start" /\ Connected(p.primary) /\ Room(p.primary)
    /\ LET new == Appended(cluster[p.primary], TRUE)
       IN  /\ cluster' = [cluster EXCEPT ![p.primary] = new]
           /\ IF new.tl # p.control[p.primary].timeline THEN Fail
              ELSE p' = [p EXCEPT !.pc = "ahead", !.start = Len(new.wal)]
    /\ UNCHANGED <<promotions, crashes>>

\* dbReplayWait(): the standby cannot have been ahead before the backup started.
ReplayAhead ==
    /\ p.pc = "ahead"
    /\ IF p.control[p.standby].checkpoint > p.start THEN Fail ELSE p' = [p EXCEPT !.pc = "replay"]
    /\ UNCHANGED <<cluster, promotions, crashes>>

\* The position is NULL on a cluster that was promoted; until it is after the start the query is repeated.
ReplayReached ==
    /\ p.pc = "replay" /\ Connected(p.standby)
    /\ \/ cluster[p.standby].role # "standby" /\ Fail
       \/ /\ cluster[p.standby].role = "standby" /\ Len(Wal(p.standby)) >= p.start
          /\ p' = [p EXCEPT !.pc = "checkpoint"]
    /\ UNCHANGED <<cluster, promotions, crashes>>

\* checkpoint is executed: a restartpoint on a standby.
ReplayCheckpoint ==
    /\ p.pc = "checkpoint" /\ Connected(p.standby)
    /\ IF cluster[p.standby].role = "standby"
       THEN cluster' = [cluster EXCEPT ![p.standby].checkpoint = LastCheckpoint(Wal(p.standby))]
       ELSE /\ Room(p.standby)
            /\ cluster' = [cluster EXCEPT ![p.standby] = Appended(@, TRUE)]
    /\ p' = [p EXCEPT !.pc = "checkpointed"]
    /\ UNCHANGED <<promotions, crashes>>

\* As if pg_control were not read again.
SameTimelineAtOpen == p.control[p.standby].timeline = p.control[p.primary].timeline

\* The checkpoint reached the start; then the timeline in pg_control must be that of the primary.
SameTimeline == Control(p.standby).timeline = p.control[p.primary].timeline

CheckpointReached ==
    /\ p.pc = "checkpointed" /\ Connected(p.standby)
    /\ cluster[p.standby].checkpoint >= p.start
    /\ IF SameTimeline THEN p' = [p EXCEPT !.pc = "copy"] ELSE Fail
    /\ UNCHANGED <<cluster, promotions, crashes>>

\* A data file of the standby, which stands for all of them, is as of some moment since its checkpoint, also
\* when the standby is down.
CopyFile ==
    /\ p.pc = "copy" /\ p.copied = <<>>
    /\ \E n \in cluster[p.standby].checkpoint - 1..Len(Wal(p.standby)) :
           n > 0 /\ p' = [p EXCEPT !.copied = SubSeq(Wal(p.standby), 1, n)]
    /\ UNCHANGED <<cluster, promotions, crashes>>

\* dbPing() of the primary and then of the standby: the recovery state has not changed.
Pinged(c, role) == Connected(c) /\ cluster[c].role = role

PingPrimary ==
    /\ p.pc = "copy" /\ p.copied # <<>>
    /\ IF Pinged(p.primary, "primary") THEN p' = [p EXCEPT !.pc = "ping"] ELSE Fail
    /\ UNCHANGED <<cluster, promotions, crashes>>

PingStandby ==
    /\ p.pc = "ping"
    /\ IF Pinged(p.standby, "standby") THEN p' = [p EXCEPT !.pc = "stop"] ELSE Fail
    /\ UNCHANGED <<cluster, promotions, crashes>>

\* dbBackupStop()
DbBackupStop ==
    /\ p.pc = "stop" /\ Connected(p.primary)
    /\ p' = [p EXCEPT !.pc = "done"]
    /\ UNCHANGED <<cluster, promotions, crashes>>

BackupNext ==
    \/ DbGetIdx \/ DbGet \/ DbBackupStart \/ ReplayAhead \/ ReplayReached \/ ReplayCheckpoint \/ CheckpointReached
    \/ CopyFile \/ PingPrimary \/ PingStandby \/ DbBackupStop \/ Abort

ClusterNext ==
    \/ \E c \in Names, ckpt \in BOOLEAN : Write(c, ckpt)
    \/ \E c \in Names : Replay(c) \/ Restartpoint(c) \/ Promote(c) \/ Crash(c) \/ Startup(c)
    \/ \E c, d \in Names : Follow(c, d)

\* What the clusters do after the backup is not followed.
Next == Running /\ (ClusterNext \/ BackupNext)

Spec == Init /\ [][Next]_vars

-----------------------------------------------------------------------------
(* When the backup is stopped, the WAL of the primary brings every file that was copied from the standby
   to the state of the primary: a file has all records before the start of the backup, and none that are
   not of the primary.  Code: dbReplayWait() and dbPing() of db/db.c. *)
CopiedIsConsistent ==
    p.pc = "done" => Len(p.copied) >= p.start - 1 /\ IsPrefix(p.copied, Wal(p.primary))

=============================================================================
