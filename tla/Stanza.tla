------------------------------- MODULE Stanza -------------------------------
(***************************************************************************)
(* stanza-create, stanza-upgrade and stanza-delete, and the info files     *)
(* they keep: archive.info and backup.info, each with a copy.  A command   *)
(* writes and removes files one at a time and may be killed in between;    *)
(* info files may be lost or damaged.  PostgreSQL archives, and is         *)
(* upgraded or replaced, next to it.                                       *)
(*                                                                         *)
(* An info file is reduced to its history of databases (version and system *)
(* id): the database with id i is the i-th, the last one is current.  The  *)
(* data of a stanza is reduced to the ids it is stored under and the       *)
(* database it came from.                                                  *)
(***************************************************************************)
EXTENDS Naturals, Sequences, FiniteSets, SequencesExt

CONSTANTS
    Databases,   \* what PostgreSQL may be: version and system id
    MaxChanges,  \* bound on upgrades and replacements of the cluster
    MaxRuns,     \* bound on the stanza commands
    MaxFaults    \* bound on the commands that are killed and the info files that are lost or damaged

VARIABLES
    pg,       \* the database of the cluster
    info,     \* info[f]: history in the info file f, Missing or Damaged
    data,     \* what is stored: <<"archive" or "backup", id, database>>
    stop,     \* does the stop file exist?
    cmd,      \* the running stanza command: what it has still to do
    push,     \* id under which archive-push is about to store, 0 if there is none
    changes, runs, kills, lost,
    orphan    \* has archive-push stored under an id that archive.info no longer had?

vars == <<pg, info, data, stop, cmd, push, changes, runs, kills, lost, orphan>>

Missing == <<0>>
Damaged == <<0, 0>>
Kinds == {"archive", "backup"}
Main(k) == <<k, "main">>
Copy(k) == <<k, "copy">>
InfoFiles == {Main(k) : k \in Kinds} \union {Copy(k) : k \in Kinds}
NoCommand == [on |-> FALSE, todo |-> <<>>]

Init ==
    /\ pg \in Databases
    /\ info = [f \in InfoFiles |-> Missing]
    /\ data = {} /\ stop = FALSE
    /\ cmd = NoCommand /\ push = 0
    /\ changes = 0 /\ runs = 0 /\ kills = 0 /\ lost = 0 /\ orphan = FALSE

-----------------------------------------------------------------------------
Exists(f) == info[f] # Missing
Readable(f) == info[f] \notin {Missing, Damaged}

\* infoLoad(): the file, and the copy if that fails.
Loads(k) == Readable(Main(k)) \/ Readable(Copy(k))
Load(k) == IF Readable(Main(k)) THEN info[Main(k)] ELSE info[Copy(k)]

\* infoPgNewLoad(): the current item of the history.
Current(history) == Last(history)

\* infoPgSet(): the next id.
PgSet(history) == Append(history, pg)
Updated(history) == IF Current(history) = pg THEN history ELSE PgSet(history)

\* Mutant: the ids are not compared.
InfosMatchDatabase(a, b) == Current(a) = Current(b)

\* checkStanzaInfo()
InfosMatch(a, b) == Len(a) = Len(b) /\ Current(a) = Current(b)

\* infoArchiveSaveFile() and infoBackupSaveFile(): the file, then its copy.
Put(f, v) == [op |-> "put", file |-> f, value |-> v]
Save(k, v) == <<Put(Main(k), v), Put(Copy(k), v)>>
Clear(k) == [op |-> "clear", file |-> Main(k), value |-> Missing]
RemoveStop == [op |-> "stop", file |-> Main("archive"), value |-> Missing]

\* A command that runs to its first write; the lock keeps others out.
Begin(todo) ==
    /\ ~cmd.on /\ runs < MaxRuns
    /\ runs' = runs + 1
    /\ cmd' = [on |-> todo # <<>>, todo |-> todo]
    /\ UNCHANGED <<pg, info, data, stop, push, changes, kills, lost, orphan>>

-----------------------------------------------------------------------------
(* stanza-create *)

Stored(k) == {d \in data : d[1] = k}
AnyInfo(k) == Exists(Main(k)) \/ Exists(Copy(k))

\* Mutant: whatever is left in the paths.
CreateNewAnyway ==
    /\ ~stop /\ \A k \in Kinds : ~AnyInfo(k)
    /\ Begin(Save("archive", <<pg>>) \o Save("backup", <<pg>>))

CreateNew ==
    /\ ~stop /\ \A k \in Kinds : ~AnyInfo(k)
    /\ data = {}
    /\ Begin(Save("archive", <<pg>>) \o Save("backup", <<pg>>))

\* The files exist and are valid: a missing one is copied from the other.
Complete(k) ==
    IF ~Exists(Main(k)) THEN <<Put(Main(k), info[Copy(k)])>>
    ELSE IF ~Exists(Copy(k)) THEN <<Put(Copy(k), info[Main(k)])>> ELSE <<>>

\* checkStanzaInfoPg()
InfosMatchPg == InfosMatch(Load("archive"), Load("backup")) /\ Current(Load("archive")) = pg

CreateExisting ==
    /\ ~stop /\ \A k \in Kinds : AnyInfo(k) /\ Loads(k)
    /\ InfosMatchPg
    /\ Begin(Complete("archive") \o Complete("backup"))

(* stanza-upgrade *)
Upgrade ==
    /\ ~stop /\ \A k \in Kinds : Loads(k)
    /\ LET new(k) == Updated(Load(k))
           save(k) == IF new(k) = Load(k) THEN <<>> ELSE Save(k, new(k))
       IN  /\ InfosMatch(new("archive"), new("backup"))
           /\ Begin(save("archive") \o save("backup"))

(* stanza-delete: the info files, the data and the stop file. *)
Delete ==
    LET present(k) == AnyInfo(k) \/ Stored(k) # {}
        remove(k) == IF present(k) THEN Save(k, Missing) ELSE <<>>
    IN  /\ (\E k \in Kinds : present(k)) => stop
        /\ Begin(remove("archive") \o remove("backup") \o <<Clear("archive"), Clear("backup"), RemoveStop>>)

\* The next write or removal; a path is removed entry by entry.
Step ==
    /\ cmd.on
    /\ LET o == Head(cmd.todo)
           k == o.file[1]
           rest == [on |-> Len(cmd.todo) > 1, todo |-> Tail(cmd.todo)]
       IN  \/ /\ o.op = "put"
              /\ info' = [info EXCEPT ![o.file] = o.value]
              /\ cmd' = rest /\ UNCHANGED <<data, stop>>
           \/ /\ o.op = "clear"
              /\ IF Stored(k) = {} THEN UNCHANGED data /\ cmd' = rest
                 ELSE \E d \in Stored(k) : data' = data \ {d} /\ UNCHANGED cmd
              /\ UNCHANGED <<info, stop>>
           \/ /\ o.op = "stop"
              /\ stop' = FALSE /\ cmd' = rest /\ UNCHANGED <<info, data>>
    /\ UNCHANGED <<pg, push, changes, runs, kills, lost, orphan>>

Killed ==
    /\ cmd.on /\ kills + lost < MaxFaults
    /\ cmd' = NoCommand /\ kills' = kills + 1
    /\ UNCHANGED <<pg, info, data, stop, push, changes, runs, lost, orphan>>

-----------------------------------------------------------------------------
(* Others *)

\* archivePushCheck(): archive.info must be of this database.  No lock is taken.
PushCheck ==
    /\ ~stop /\ push = 0
    /\ Loads("archive") /\ Current(Load("archive")) = pg
    /\ push' = Len(Load("archive"))
    /\ UNCHANGED <<pg, info, data, stop, cmd, changes, runs, kills, lost, orphan>>

\* Does archive.info still have this id for the database of the cluster?
Known(id) ==
    /\ Loads("archive")
    /\ id <= Len(Load("archive")) /\ Load("archive")[id] = pg

PushFile ==
    /\ push # 0
    /\ data' = data \union {<<"archive", push, pg>>}
    /\ orphan' = (orphan \/ ~Known(push))
    /\ push' = 0
    /\ UNCHANGED <<pg, info, stop, cmd, changes, runs, kills, lost>>

\* cmdBackup(), under the lock that stanza commands take.
Backup ==
    /\ ~stop /\ ~cmd.on
    /\ Loads("backup") /\ Current(Load("backup")) = pg
    /\ data' = data \union {<<"backup", Len(Load("backup")), pg>>}
    /\ UNCHANGED <<pg, info, stop, cmd, push, changes, runs, kills, lost, orphan>>

\* The stop and start commands.
StopStart == stop' = ~stop /\ UNCHANGED <<pg, info, data, cmd, push, changes, runs, kills, lost, orphan>>

\* The cluster is upgraded or replaced, while it is shut down.
PgChange ==
    /\ push = 0 /\ changes < MaxChanges /\ ~cmd.on
    /\ pg' \in Databases \ {pg}
    /\ changes' = changes + 1
    /\ UNCHANGED <<info, data, stop, cmd, push, runs, kills, lost, orphan>>

Lose(f) ==
    /\ kills + lost < MaxFaults /\ Readable(f)
    /\ \E v \in {Missing, Damaged} : info' = [info EXCEPT ![f] = v]
    /\ lost' = lost + 1
    /\ UNCHANGED <<pg, data, stop, cmd, push, changes, runs, kills, orphan>>

Next ==
    \/ CreateNew \/ CreateExisting \/ Upgrade \/ Delete
    \/ Step \/ Killed
    \/ PushCheck \/ PushFile \/ Backup
    \/ StopStart \/ PgChange
    \/ \E f \in InfoFiles : Lose(f)

Spec == Init /\ [][Next]_vars

-----------------------------------------------------------------------------
\* What is stored under one id came from one database, so that a restore never mixes WAL
\* and backups of two clusters: after one fault, a command killed between two of its files
\* or a file that was lost, and unless a file was pushed after the stanza that archive-push
\* had checked was deleted.
OneDatabasePerId ==
    kills + lost <= 1 /\ ~orphan => \A d, e \in data : d[2] = e[2] => d[3] = e[3]

\* While no file was lost, archive.info has the history of backup.info or is one database
\* ahead, so that the upgrade that was killed in between can be run again.
AtMostOneAhead ==
    lost = 0 /\ (\A k \in Kinds : Exists(Main(k))) =>
        info[Main("backup")] \in {info[Main("archive")], Front(info[Main("archive")])}
=============================================================================
