------------------------------- MODULE Restore ------------------------------
(***************************************************************************)
(* The restore command: pg_control is removed first, the data directory is *)
(* cleaned of what the backup does not have, files are preserved or copied *)
(* by parallel workers, the recovery settings are written, the paths are   *)
(* synced and pg_control is renamed into place last.  The command may end  *)
(* with an error, be killed, or go down with the host between any two      *)
(* steps; then it is run again, perhaps for another backup or with other   *)
(* options.  PostgreSQL can be started whenever pg_control is there.       *)
(*                                                                         *)
(* The contents of a file is a sequence of blocks; it stands for its       *)
(* checksum too.  A host crash undoes creations and removals of names in   *)
(* paths that were not synced; file contents are synced when a file is     *)
(* closed.                                                                 *)
(***************************************************************************)
EXTENDS Integers, Sequences, FiniteSets

CONSTANTS
    Files,       \* names of files in the base path, Version among them
    Version,     \* the file PG_VERSION
    Backups,     \* Backups[label]: [copyStart, online, control: has it a pg_control?, file: [name -> [data, ts]]]
    Cluster,     \* what the data directory may hold at first: name -> [data, ts]
    Workers,     \* local processes
    MaxRuns,     \* bound on the restore commands
    MaxCrashes,  \* bound on the crashes of the host
    Block,       \* the blocks files are made of
    Bad,         \* a block that is not what was backed up
    None

VARIABLES
    pg,       \* pg[name]: [data, ts], or None
    disk,     \* disk[name]: what a host crash may bring back
    p,        \* the running command
    runs,     \* restore commands started
    crashes,  \* crashes of the host
    unsynced, \* did a command end before it synced the removal of pg_control, and none since? (history)
    trusted   \* the files that --delta --force kept for their size and time (history)

vars == <<pg, disk, p, runs, crashes, unsynced, trusted>>

Control == "pg_control"
ControlTemp == "pg_control.tmp"
Manifest == "backup.manifest"
Conf == "postgresql.auto.conf"
Names == Files \union {Control, ControlTemp, Manifest, Conf}
Global == {Control, ControlTemp}

Now == 0                                \* a modification time no backup has
Spoiled(data) == [i \in DOMAIN data |-> Bad]   \* data that fails its checksum
File(data, ts) == [data |-> data, ts |-> ts]

Labels == DOMAIN Backups
FileType == [data : Seq(Block \union Labels \union {None, Bad}), ts : Nat]

Idle == [pc |-> "idle", label |-> None, delta |-> FALSE, force |-> FALSE, left |-> {},
         job |-> [w \in Workers |-> None]]

\* What the backup restores, pg_control under its temporary name.
Contents(l) == Backups[l].file
Wanted(l, f) == IF f = ControlTemp THEN File(<<l>>, 1) ELSE Contents(l)[f]
RestoreJobs(l) == DOMAIN Contents(l) \union IF Backups[l].control THEN {ControlTemp} ELSE {}

\* What is known of the constants: backups and clusters are made of files, none of
\* which has the name of one that restore itself handles.
Steps == {"open", "copy", "verify"}
RestoreAssumption ==
    /\ Files \intersect {Control, ControlTemp, Manifest, Conf} = {}
    /\ None \notin Labels /\ None \notin FileType /\ None \notin [file : Names, step : Steps]
    /\ \A l \in Labels : Backups[l].control \in BOOLEAN /\ Backups[l].online \in BOOLEAN
    /\ \A l \in Labels : DOMAIN Contents(l) \subseteq Files /\ \A f \in DOMAIN Contents(l) : Contents(l)[f] \in FileType
    /\ \A c \in Cluster : DOMAIN c \subseteq Files /\ \A f \in DOMAIN c : c[f] \in FileType

Init ==
    /\ \E c \in Cluster :
        pg = [f \in Names |-> IF f \in DOMAIN c THEN c[f]
                              ELSE IF f = Control /\ c # <<>> THEN File(<<None>>, 1) ELSE None]
    /\ disk = pg /\ p = Idle /\ runs = 0 /\ crashes = 0 /\ unsynced = FALSE /\ trusted = {}

Is(pc) == p.pc = pc
Goto(pc) == p' = [p EXCEPT !.pc = pc]

\* A name that is created or removed keeps its old state on disk; a file that is
\* overwritten or given a time does not.
SetFile(f, new) ==
    /\ pg' = [pg EXCEPT ![f] = new]
    /\ disk' = IF (pg[f] # None /\ new # None /\ disk[f] = pg[f]) THEN [disk EXCEPT ![f] = new] ELSE disk

PathSync(S) == disk' = [f \in Names |-> IF f \in S THEN pg[f] ELSE disk[f]]

(***************************************************************************)
(* restorePathValidate(): --delta and --force are ignored when this does   *)
(* not look like a data directory.  Without them it must be empty.         *)
(***************************************************************************)
LooksValid == pg[Version] # None \/ pg[Manifest] # None
Empty == \A f \in Names \ {Manifest} : pg[f] = None

RestoreStart(l, delta, force) ==
    /\ Is("idle") /\ runs < MaxRuns
    /\ ((delta \/ force) /\ LooksValid) \/ Empty
    /\ p' = [Idle EXCEPT !.pc = "control", !.label = l, !.delta = delta /\ LooksValid,
                         !.force = force /\ LooksValid]
    /\ runs' = runs + 1
    /\ UNCHANGED <<pg, disk, crashes, unsynced, trusted>>

\* restoreCleanBuild(): pg_control goes before anything else does, and the path is
\* synced so that it does not come back; only when there was a pg_control.
RemoveControl ==
    /\ Is("control") /\ pg[Control] # None
    /\ SetFile(Control, None)
    /\ Goto("removed")
    /\ UNCHANGED <<runs, crashes, unsynced, trusted>>

NoControl ==
    /\ Is("control") /\ pg[Control] = None
    /\ Goto("clean")
    /\ UNCHANGED <<pg, disk, runs, crashes, unsynced, trusted>>

SyncControlNever ==
    /\ Is("removed")
    /\ Goto("clean")
    /\ UNCHANGED <<pg, disk, runs, crashes, unsynced, trusted>>

SyncControl ==
    /\ Is("removed")
    /\ PathSync(Global)
    /\ unsynced' = FALSE
    /\ Goto("clean")
    /\ UNCHANGED <<pg, runs, crashes, trusted>>

\* A file that is not in the manifest; the last one, then the manifest is saved.
Invalid(f) == f \notin DOMAIN Contents(p.label) \union {Manifest} /\ pg[f] # None

CleanFile(f) ==
    /\ Is("clean") /\ Invalid(f)
    /\ SetFile(f, None)
    /\ UNCHANGED <<p, runs, crashes, unsynced, trusted>>

ManifestSave ==
    /\ Is("clean") /\ \A f \in Names : ~Invalid(f)
    /\ SetFile(Manifest, File(<<p.label>>, Now))
    /\ p' = [p EXCEPT !.pc = "files", !.left = RestoreJobs(p.label)]
    /\ trusted' = {}
    /\ UNCHANGED <<runs, crashes, unsynced>>

(***************************************************************************)
(* restoreFile(), in a worker: a delta preserves a file by size and time,  *)
(* or by size and checksum after it was cut to the size it should have.    *)
(***************************************************************************)
Preserve(f, file) ==
    LET want == Wanted(p.label, f)
    IN  /\ p.delta
        /\ IF p.force THEN /\ Len(file.data) = Len(want.data) /\ file.ts = want.ts
                           /\ file.ts < Backups[p.label].copyStart
           ELSE file.data = want.data

\* A file longer than it should be is cut when its checksum decides.
Cut(f) ==
    LET size == Len(Wanted(p.label, f).data)
    IN  IF p.delta /\ ~p.force /\ Len(pg[f].data) > size THEN File(SubSeq(pg[f].data, 1, size), Now)
        ELSE pg[f]

RestoreCheck(w, f) ==
    /\ Is("files") /\ p.job[w] = None /\ f \in p.left
    /\ IF pg[f] = None THEN UNCHANGED <<pg, disk>>
       ELSE SetFile(f, IF Preserve(f, Cut(f)) THEN File(Cut(f).data, Wanted(p.label, f).ts) ELSE Cut(f))
    /\ p' = [p EXCEPT !.left = @ \ {f},
                      !.job[w] = IF pg[f] # None /\ Preserve(f, Cut(f)) THEN None
                                 ELSE [file |-> f, step |-> "open"]]
    /\ trusted' = IF pg[f] # None /\ Preserve(f, Cut(f)) /\ p.force THEN trusted \union {f} ELSE trusted
    /\ UNCHANGED <<runs, crashes, unsynced>>

Working(w, step) == Is("files") /\ p.job[w] # None /\ p.job[w].step = step

\* The file is written in place; it has the time of the writing until it is closed.
RestoreOpen(w) ==
    /\ Working(w, "open")
    /\ SetFile(p.job[w].file, File(<<>>, Now))
    /\ p' = [p EXCEPT !.job[w].step = "copy"]
    /\ UNCHANGED <<runs, crashes, unsynced, trusted>>

\* Closing it sets the time; what was read may not be what was backed up.
RestoreClose(w) ==
    /\ Working(w, "copy")
    /\ LET want == Wanted(p.label, p.job[w].file)
       IN  \E data \in {want.data, Spoiled(want.data)} :
            SetFile(p.job[w].file, File(data, want.ts))
    /\ p' = [p EXCEPT !.job[w].step = "verify"]
    /\ UNCHANGED <<runs, crashes, unsynced, trusted>>

Verified(f) == pg[f].data = Wanted(p.label, f).data

RestoreVerify(w) ==
    /\ Working(w, "verify")
    /\ p' = IF Verified(p.job[w].file) THEN [p EXCEPT !.job[w] = None] ELSE Idle
    /\ UNCHANGED <<pg, disk, runs, crashes, unsynced, trusted>>

(***************************************************************************)
(* The end of cmdRestore(), in this order.                                 *)
(***************************************************************************)
RecoveryWrite ==
    /\ Is("files") /\ p.left = {} /\ \A w \in Workers : p.job[w] = None
    /\ SetFile(Conf, File(<<p.label>>, Now))
    /\ Goto("manifest")
    /\ UNCHANGED <<runs, crashes, unsynced, trusted>>

ManifestRemove ==
    /\ Is("manifest")
    /\ SetFile(Manifest, None)
    /\ Goto("sync")
    /\ UNCHANGED <<runs, crashes, unsynced, trusted>>

SyncPathsNever ==
    /\ Is("sync")
    /\ Goto("rename")
    /\ UNCHANGED <<pg, disk, runs, crashes, unsynced, trusted>>

SyncPaths ==
    /\ Is("sync")
    /\ PathSync(Names \ Global)
    /\ Goto("rename")
    /\ UNCHANGED <<pg, runs, crashes, unsynced, trusted>>

\* Its checkpoint is made invalid when the backup was online: pg_control.tmp is written again, in place.
Rewrites == Backups[p.label].online /\ pg[ControlTemp] # None

RewriteOpen ==
    /\ Is("rename") /\ Rewrites
    /\ SetFile(ControlTemp, File(<<>>, Now))
    /\ Goto("rewrite")
    /\ UNCHANGED <<runs, crashes, unsynced, trusted>>

RewriteClose ==
    /\ Is("rewrite")
    /\ SetFile(ControlTemp, Wanted(p.label, ControlTemp))
    /\ Goto("move")
    /\ UNCHANGED <<runs, crashes, unsynced, trusted>>

\* A backup without pg_control only gets a warning.
RenameControl ==
    /\ Is("move") \/ (Is("rename") /\ ~Rewrites)
    /\ pg' = IF pg[ControlTemp] = None THEN pg
             ELSE [pg EXCEPT ![Control] = pg[ControlTemp], ![ControlTemp] = None]
    /\ Goto("global")
    /\ UNCHANGED <<disk, runs, crashes, unsynced, trusted>>

SyncGlobal ==
    /\ Is("global")
    /\ PathSync(Global)
    /\ unsynced' = FALSE
    /\ p' = Idle
    /\ UNCHANGED <<pg, runs, crashes, trusted>>

\* An error or a signal.
Abort ==
    /\ ~Is("idle")
    /\ p' = Idle
    /\ unsynced' = (unsynced \/ Is("removed"))
    /\ UNCHANGED <<pg, disk, runs, crashes, trusted>>

\* The host goes down: each name is as it was, or as the disk has it.  A file that
\* was being written has lost what was not synced.
HostCrash ==
    /\ crashes < MaxCrashes /\ pg # disk
    /\ \E S \in SUBSET {f \in Names : pg[f] # disk[f]} :
        pg' = [f \in Names |-> IF f \in S THEN disk[f] ELSE pg[f]]
    /\ disk' = pg'
    /\ p' = Idle /\ crashes' = crashes + 1
    /\ UNCHANGED <<runs, unsynced, trusted>>

Next ==
    \/ \E l \in DOMAIN Backups, delta, force \in BOOLEAN : RestoreStart(l, delta, force)
    \/ RemoveControl \/ NoControl \/ SyncControl \/ ManifestSave
    \/ \E f \in Names : CleanFile(f)
    \/ \E w \in Workers : \/ \E f \in Names : RestoreCheck(w, f)
                          \/ RestoreOpen(w) \/ RestoreClose(w) \/ RestoreVerify(w)
    \/ RecoveryWrite \/ ManifestRemove \/ SyncPaths \/ RewriteOpen \/ RewriteClose \/ RenameControl \/ SyncGlobal
    \/ Abort \/ HostCrash

Spec == Init /\ [][Next]_vars
-----------------------------------------------------------------------------
(***************************************************************************)
(* Properties.                                                             *)
(***************************************************************************)
\* A file has the data it should have, or if it is trusted the size and the time.
Matches(f, want, trust) ==
    /\ pg[f] # None
    /\ \/ pg[f].data = want.data
       \/ f \in trust /\ Len(pg[f].data) = Len(want.data) /\ pg[f].ts = want.ts

\* The backup is there: its files and no others, and the recovery settings of this restore.
Restored(l, trust) ==
    /\ \A f \in Files : IF f \in DOMAIN Contents(l) THEN Matches(f, Contents(l)[f], trust) ELSE pg[f] = None
    /\ pg[Conf] # None /\ pg[Conf].data = <<l>>

Startable(l) == pg[Control] # None /\ pg[Control].data = <<l>>

(* Whenever pg_control of a backup is in place every file of that backup is there with the data that was
   backed up, no other file is, and the recovery settings are of this restore; however many restores of
   whatever backup were tried, failed, were killed, or went down with the host before.  There are two
   exceptions: a file that --delta --force kept has the size and the time it should have, and a host
   crash may bring back a pg_control whose removal was not synced by a command that ended there
   (clean.c.inc:510-511), as long as no later restore synced the path. *)
StartableIsRestored ==
    \A l \in DOMAIN Backups : Startable(l) /\ ~unsynced => Restored(l, trusted)

(* The files of the cluster that is replaced are not touched while its pg_control could still start it,
   or come back after a crash of the host, unless a command ended before it synced the removal. *)
Replaceable(control) == control = None \/ control.data # <<None>>
OnlyReplaced ==
    \A f \in Files : pg'[f] # pg[f] /\ ~unsynced => Replaceable(pg[Control]) /\ Replaceable(disk[Control])
ReplacedIsUntouched == [][OnlyReplaced]_vars
=============================================================================
