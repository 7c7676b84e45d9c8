------------------------------ MODULE Recovery ------------------------------
(***************************************************************************)
(* What a restore recovers to: restoreBackupSet() picks the backup,        *)
(* timelineVerify() decides whether PostgreSQL will be able to follow the  *)
(* target timeline from it, and the recovery settings are written into     *)
(* postgresql.auto.conf (recovery.conf before version 12), among settings  *)
(* that earlier restores left in the file and that every backup since has  *)
(* copied.  Clusters write WAL, are backed up, promoted by accident or     *)
(* after a restore, and upgraded; all of them archive to the repository.   *)
(* PostgreSQL is started on a restored cluster before anything else        *)
(* happens: a promotion in between may make another timeline the latest.   *)
(*                                                                         *)
(* An lsn is a small number.  The time is the number of backups made: the  *)
(* i-th stops at 2 * i, a time target lies at, before or after a stop.     *)
(***************************************************************************)
EXTENDS Naturals, Sequences, FiniteSets, SequencesExt

CONSTANTS
    Repos,         \* repositories, 1..n
    Worlds,        \* [version: of PostgreSQL before and after an upgrade, unreadable]
    Options,       \* the options a restore may be run with
    MaxLsn, MaxTimelines, MaxBackups, MaxRestores

VARIABLES
    version,    \* version[id]: PostgreSQL version of the database with this id
    timeline,   \* timeline[id]: of the database, one record per timeline
    unreadable, \* repositories whose backup.info cannot be loaded
    backups,    \* all backups, oldest first
    last,       \* outcome of the last restore
    restores

vars == <<version, timeline, unreadable, backups, last, restores>>

NoTarget == 0       \* --target-timeline is not given
Current == 100
Latest == 101

\* A timeline: its history file, where the WAL of it starts and ends, and the settings
\* in the postgresql.auto.conf of the cluster that is on it.
Timeline(history, at, conf) == [history |-> history, start |-> at, end |-> at, conf |-> conf]
NoRestore == [ok |-> FALSE, opts |-> <<>>, backup |-> 0, conf |-> {}, signal |-> "none"]

Init ==
    /\ \E w \in Worlds : version = w.version /\ unreadable = w.unreadable
    /\ timeline = <<<<Timeline(<<>>, 1, {})>>>>
    /\ backups = <<>> /\ last = NoRestore /\ restores = 0

CurrentId == Len(timeline)
T(id, t) == timeline[id][t]
Timelines(id) == DOMAIN timeline[id]
NewTimeline == Cardinality(UNION {{id} \X Timelines(id) : id \in DOMAIN timeline}) < MaxTimelines

-----------------------------------------------------------------------------
(***************************************************************************)
(* PostgreSQL (external).                                                  *)
(***************************************************************************)
\* The timeline that the WAL up to this lsn belongs to in the history of t.
OwnerAt(id, t, lsn) ==
    LET later == SelectSeq(T(id, t).history, LAMBDA h : lsn <= h.lsn)
    IN  IF later = <<>> THEN t ELSE Head(later).timeline

WriteWal(t) ==
    /\ ~last.ok /\ t \in Timelines(CurrentId) /\ T(CurrentId, t).end < MaxLsn
    /\ timeline' = [timeline EXCEPT ![CurrentId][t].end = @ + 1]
    /\ UNCHANGED <<version, unreadable, backups, last, restores>>

\* Promotion makes a timeline with a new number that leaves t at an lsn.
Fork(id, t, at, conf) ==
    /\ NewTimeline
    /\ LET before == SelectSeq(T(id, t).history, LAMBDA h : h.lsn < at)
           history == Append(before, [timeline |-> OwnerAt(id, t, at), lsn |-> at])
       IN  timeline' = [timeline EXCEPT ![id] = Append(@, Timeline(history, at, conf))]

\* A standby is promoted, perhaps by accident: the cluster on t goes on.
PromoteStandby(t) ==
    /\ ~last.ok /\ t \in Timelines(CurrentId) /\ T(CurrentId, t).start < T(CurrentId, t).end
    /\ Fork(CurrentId, t, T(CurrentId, t).end, T(CurrentId, t).conf)
    /\ UNCHANGED <<version, unreadable, backups, last, restores>>

\* stanza-upgrade after pg_upgrade.
Upgrade ==
    /\ ~last.ok /\ CurrentId < Len(version) /\ NewTimeline
    /\ timeline' = Append(timeline, <<Timeline(<<>>, 1, {})>>)
    /\ UNCHANGED <<version, unreadable, backups, last, restores>>

\* A backup of the cluster on t that stops at the end of its WAL.  Up to version 11 the
\* settings are in recovery.conf, which is not copied.
Backup(t, r, start) ==
    /\ ~last.ok /\ Len(backups) < MaxBackups /\ t \in Timelines(CurrentId)
    /\ start \in T(CurrentId, t).start..(T(CurrentId, t).end - 1)
    /\ backups' = Append(backups,
            [repo |-> r, id |-> CurrentId, timeline |-> t, start |-> start, stop |-> T(CurrentId, t).end,
             conf |-> IF version[CurrentId] >= 12 THEN T(CurrentId, t).conf ELSE {}])
    /\ UNCHANGED <<version, timeline, unreadable, last, restores>>

StopTime(b) == 2 * b

-----------------------------------------------------------------------------
(***************************************************************************)
(* restoreBackupSet(): the first repository, in order, with a backup that  *)
(* fits.  0 is an error.                                                   *)
(***************************************************************************)
InRepo(r) == {b \in DOMAIN backups : backups[b].repo = r}
Searched(opts) == {r \in Repos : (opts.repo # 0 => r = opts.repo) /\ r \notin unreadable /\ InRepo(r) # {}}

Fits(opts, b) ==
    CASE opts.set # 0         -> b = opts.set
      [] opts.type = "time"   -> StopTime(b) < opts.target
      [] opts.type = "lsn"    -> backups[b].stop <= opts.target
      [] OTHER                -> b = Max(InRepo(backups[b].repo))

FirstRepo(opts) == {r \in Searched(opts) : \E b \in InRepo(r) : Fits(opts, b)}

RestoreBackupSet(opts) ==
    IF FirstRepo(opts) = {} THEN 0
    ELSE LET b == Max({x \in InRepo(Min(FirstRepo(opts))) : Fits(opts, x)})
         IN  IF opts.set = 0 /\ opts.type \notin {"time", "lsn"} /\ backups[b].id < CurrentId THEN 0 ELSE b

(***************************************************************************)
(* timelineVerify(): the start of the backup must be in the history of the *)
(* target timeline.                                                        *)
(***************************************************************************)
TargetAsked(opts, pgVersion) ==
    IF opts.timeline # NoTarget THEN opts.timeline
    ELSE IF pgVersion <= 11 \/ opts.type = "immediate" THEN Current ELSE Latest

TimelineLatest(id, t) == IF Len(timeline[id]) > t THEN Len(timeline[id]) ELSE t

TargetTimeline(asked, b) ==
    CASE asked = Current -> backups[b].timeline
      [] asked = Latest  -> TimelineLatest(backups[b].id, backups[b].timeline)
      [] OTHER           -> asked

InHistory(id, t, from, lsn) ==
    t = from \/ \E h \in Range(T(id, t).history) : h.timeline = from /\ lsn < h.lsn

TimelineVerify(opts, b) ==
    LET k == backups[b]
        t == TargetTimeline(TargetAsked(opts, version[k.id]), b)
    IN  t \in Timelines(k.id) /\ InHistory(k.id, t, k.timeline, k.start)

(***************************************************************************)
(* restoreRecoveryOption(): the settings for this restore.                 *)
(***************************************************************************)
Put(conf, key, value) == {s \in conf : s[1] # key} \union {<<key, value>>}
PutIf(cond, conf, key, value) == IF cond THEN Put(conf, key, value) ELSE conf

RecoveryOption(opts, pgVersion) ==
    LET targeted == opts.type \notin {"immediate", "standby", "default"}
        c1 == PutIf(opts.archiveOff, opts.user, "archive_mode", 0)
        c2 == PutIf(\A s \in opts.user : s[1] # "restore_command", c1, "restore_command", 0)
        c3 == PutIf(opts.type = "immediate", c2, "recovery_target", 0)
        c4 == PutIf(opts.type = "standby" /\ pgVersion < 12, c3, "standby_mode", 1)
        c5 == PutIf(targeted, c4, opts.type, opts.target)
        c6 == PutIf(targeted /\ opts.exclusive, c5, "recovery_target_inclusive", 0)
        c7 == PutIf(opts.promote, c6, "recovery_target_action", 1)
    IN  IF opts.timeline # NoTarget
        THEN PutIf(pgVersion >= 12 \/ opts.timeline # Current, c7, "recovery_target_timeline", opts.timeline)
        ELSE PutIf(opts.type = "immediate" /\ pgVersion >= 12, c7, "recovery_target_timeline", Current)

TargetKeys == {"recovery_target", "lsn", "time", "name", "xid"}
RecoveryKeys == TargetKeys \union {"recovery_target_action", "recovery_target_inclusive", "recovery_target_timeline"}

\* Mutant: the expression misses one of the settings.
CommentOutTargets(conf) == {s \in conf : s[1] \notin TargetKeys}

\* Settings that would interfere are commented out, all others stay.
CommentOut(conf) == {s \in conf : s[1] \notin RecoveryKeys}

WriteAutoConf(opts, pgVersion, restored) ==
    LET kept == CommentOut(restored)
        new == RecoveryOption(opts, pgVersion)
    IN  IF opts.type = "none" THEN kept
        ELSE {s \in kept : \A n \in new : n[1] # s[1]} \union new

\* recovery.conf
WriteConf(opts, pgVersion) == IF opts.type = "none" THEN {} ELSE RecoveryOption(opts, pgVersion)

\* restoreRecoveryWrite(): into the file that was restored; with preserve the file that is in
\* place is left alone, and there is none.
RecoveryWrite(opts, pgVersion, restored) ==
    CASE opts.type = "preserve" -> {}
      [] opts.type # "preserve" /\ pgVersion >= 12 -> WriteAutoConf(opts, pgVersion, restored)
      [] OTHER -> WriteConf(opts, pgVersion)

Signal(opts) ==
    CASE opts.type = "standby" -> "standby"
      [] opts.type \in {"none", "preserve"} -> "none"
      [] OTHER -> "recovery"

\* cmdRestore(), as far as recovery goes; the target directory is empty.
Restore(opts) ==
    /\ ~last.ok /\ restores < MaxRestores /\ backups # <<>>
    /\ LET b == RestoreBackupSet(opts)
           pgVersion == version[backups[b].id]
       IN  last' = IF b = 0 THEN NoRestore
                   ELSE IF ~TimelineVerify(opts, b) \/ (opts.archiveOff /\ pgVersion < 12) THEN NoRestore
                   ELSE [ok |-> TRUE, opts |-> opts, backup |-> b, signal |-> Signal(opts),
                         conf |-> RecoveryWrite(opts, pgVersion, backups[b].conf)]
    /\ restores' = IF last'.ok THEN restores + 1 ELSE restores
    /\ UNCHANGED <<version, timeline, unreadable, backups>>

-----------------------------------------------------------------------------
(***************************************************************************)
(* PostgreSQL starts on what was restored (external).                      *)
(***************************************************************************)
Chosen == backups[last.backup]

\* recovery_target_timeline, or its default.
Setting ==
    LET set == {s[2] : s \in {x \in last.conf : x[1] = "recovery_target_timeline"}}
    IN  IF set # {} THEN CHOOSE v \in set : TRUE
        ELSE IF version[Chosen.id] <= 11 THEN Current ELSE Latest

Follows == TargetTimeline(Setting, last.backup)

\* tliOfPointInHistory(): the timeline that the record at this lsn is on in the history of t.
TliOfPoint(id, t, lsn) ==
    LET later == SelectSeq(T(id, t).history, LAMBDA h : lsn < h.lsn)
    IN  IF later = <<>> THEN t ELSE Head(later).timeline

\* The checkpoint in backup_label must be on the way to the target timeline; else recovery does not begin.
Starts == Follows \in Timelines(Chosen.id) /\ TliOfPoint(Chosen.id, Follows, Chosen.start) = Chosen.timeline

\* So must the WAL up to the end of the backup: before that the cluster is not consistent, and recovery
\* that ends there is an error.
Consistent == OwnerAt(Chosen.id, Follows, Chosen.stop) = Chosen.timeline

\* Recovery ends somewhere after the end of the backup and the cluster is promoted,
\* with the settings still in its postgresql.auto.conf.
Recover(at) ==
    /\ last.ok /\ restores < MaxRestores /\ last.signal = "recovery" /\ Chosen.id = CurrentId
    /\ Starts /\ Consistent
    /\ at \in Chosen.stop..T(Chosen.id, Follows).end
    /\ Fork(Chosen.id, Follows, at, last.conf)
    /\ last' = NoRestore
    /\ UNCHANGED <<version, unreadable, backups, restores>>

\* The restored cluster is given up.
Discard ==
    /\ last.ok /\ restores < MaxRestores /\ last' = NoRestore
    /\ UNCHANGED <<version, timeline, unreadable, backups, restores>>

Next ==
    \/ \E t \in 1..MaxTimelines :
        \/ WriteWal(t) \/ PromoteStandby(t)
        \/ \E r \in Repos, start \in 1..MaxLsn : Backup(t, r, start)
    \/ Upgrade
    \/ \E opts \in Options : Restore(opts)
    \/ \E at \in 1..MaxLsn : Recover(at)
    \/ Discard

Spec == Init /\ [][Next]_vars
-----------------------------------------------------------------------------
(***************************************************************************)
(* Properties.                                                             *)
(***************************************************************************)
\* "If the answer is no we fail here with a clear error rather than letting PostgreSQL
\* abort recovery" (timeline.c): PostgreSQL begins the recovery of a restore that is
\* accepted.  Whatever backup it takes, whatever timelines promotions have made
\* meanwhile, and whatever settings of earlier restores came along in the backup, the start
\* of the backup is in the history of the timeline that the file in place makes PostgreSQL
\* follow; it finds the one target that was asked for and no other, and when the backup was
\* selected for an lsn the backup ends before it.  That the end of the backup is in that
\* history too is not promised: a fork inside the backup is let through (timeline.c:232-253),
\* and such a recovery fails (Recover needs Consistent).
RestoreIsFollowed ==
    last.ok /\ last.signal # "none" =>
        /\ Starts
        /\ {s \in last.conf : s[1] \in TargetKeys} =
               IF last.opts.type \in {"default", "standby"} THEN {}
               ELSE IF last.opts.type = "immediate" THEN {<<"recovery_target", 0>>}
               ELSE {<<last.opts.type, last.opts.target>>}
        /\ last.opts.set = 0 /\ last.opts.type = "lsn" => Chosen.stop <= last.opts.target
        /\ last.opts.set = 0 /\ last.opts.type = "default" => Chosen.id = CurrentId
=============================================================================
