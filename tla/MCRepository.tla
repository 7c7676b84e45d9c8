---------------------------- MODULE MCRepository ----------------------------
(***************************************************************************)
(* What is kept in the repository and what is made of it: expire, the      *)
(* block incremental backup of one file, the choice of a backup and of the *)
(* recovery settings, of databases, and of where things are restored.      *)
(* They do not share state here: a behaviour is one of a single part, and  *)
(* Parts says which are checked.                                           *)
(***************************************************************************)
EXTENDS Expire

CONSTANT Parts

VARIABLES
    part,                                                       \* the part that runs
    blockFile, blockManifest, blockRepo, blockBundle, blockFilter, blockPos, blockOut, blockBuffers, blockPc,
    blockPg,                                                    \* BlockIncr
    version, timeline, unreadable, backups, last, restores,     \* Recovery
    dbName, dbListed, dbFound, dbInclude, dbExclude, dbZero,    \* Remap, the databases
    mapTarget, mapLink, mapOpt, mapPc, mapNext, mapList, mapOrigin   \* Remap

blockVars == <<blockFile, blockManifest, blockRepo, blockBundle, blockFilter, blockPos, blockOut, blockBuffers,
               blockPc, blockPg>>
recoveryVars == <<version, timeline, unreadable, backups, last, restores>>
dbVars == <<dbName, dbListed, dbFound, dbInclude, dbExclude, dbZero>>
mapVars == <<mapTarget, mapLink, mapOpt, mapPc, mapNext, mapList, mapOrigin>>
mcVars == <<part, vars, blockVars, recoveryVars, dbVars, mapVars>>

\* Retention that keeps one or two full backups or their WAL.
MCOptions ==
    {[full |-> 1, diff |-> 0, archive |-> 1, type |-> "full", time |-> FALSE, adhoc |-> TRUE],
     [full |-> 2, diff |-> 0, archive |-> 1, type |-> "full", time |-> FALSE, adhoc |-> FALSE],
     [full |-> 2, diff |-> 1, archive |-> 1, type |-> "diff", time |-> FALSE, adhoc |-> FALSE],
     [full |-> 1, diff |-> 0, archive |-> 0, type |-> "full", time |-> TRUE, adhoc |-> FALSE]}

(* Block incremental backups of a file of up to four blocks, a super block having three. *)
Blk == INSTANCE BlockIncr WITH
    BlockSize <- 2, SuperSize <- 5, Lengths <- {3, 7}, MaxBackups <- 3, Buffers <- {<<3, 2>>, <<8, 4>>},
    Bundles <- {<<0, 0, 0>>, <<1, 0, 2>>},
    file <- blockFile, manifest <- blockManifest, repo <- blockRepo, bundle <- blockBundle, filter <- blockFilter,
    pos <- blockPos, out <- blockOut, buffers <- blockBuffers, pc <- blockPc, pg <- blockPg

(* Restores of a PostgreSQL 12, and of an 11 that is upgraded, with what the options can be. *)
RestoreOptions(type, target, targetTimeline, set) ==
    [type |-> type, target |-> target, timeline |-> targetTimeline, set |-> set, repo |-> 0, user |-> {},
     archiveOff |-> FALSE, exclusive |-> FALSE, promote |-> FALSE]

Default == 0     \* no --target-timeline, no --set

SomeOptions ==
    {RestoreOptions(type, 0, Default, Default) : type \in {"default", "immediate", "none", "preserve", "standby"}}
    \union {RestoreOptions("default", 0, t, Default) : t \in {1, 101}}
    \union {RestoreOptions("lsn", 2, Default, Default), RestoreOptions("time", 3, 1, Default),
            RestoreOptions("default", 0, 100, 1)}
    \union {[RestoreOptions("name", 1, Default, 2) EXCEPT !.exclusive = TRUE, !.promote = TRUE],
            [RestoreOptions("default", 0, Default, Default) EXCEPT !.repo = 2, !.archiveOff = TRUE,
                                                                   !.user = {<<"restore_command", 1>>}]}

Rec == INSTANCE Recovery WITH
    Repos <- {1, 2}, Options <- SomeOptions, MaxLsn <- 3, MaxTimelines <- 3, MaxBackups <- 2, MaxRestores <- 2,
    Worlds <- {[version |-> <<11, 12>>, unreadable |-> {1}], [version |-> <<12>>, unreadable |-> {}]}

(* Three databases, one of which may have been recreated as postgres (100), or be called like
   the id of another. *)
DatabaseNames == {[d \in {1, 3, 4} |-> IF d = 3 THEN n ELSE 100 + d] : n \in {100, 103, 4}}

(* Two links and two tablespaces, one of which is called like the id of the other, a plain path and a
   plain file. *)
Destinations == {<<1, 2>>, <<1, 2, 1>>, <<1, 2, 3>>, <<1, 1, 2>>}
Mappings(K, n) == UNION {[S -> Destinations] : S \in {T \in SUBSET K : Cardinality(T) <= n}}
MapOptions(ts, all, links) ==
    {[pgPath |-> <<1, 1>>, tsMap |-> t, tsAll |-> a, linkMap |-> l, linkAll |-> b] :
        t \in ts, a \in all, l \in links, b \in BOOLEAN}
ShortNames == {[n \in {4} |-> <<9>>], [n \in {1, 2} |-> IF n = 1 THEN <<1, 2>> ELSE <<9>>]}
MapTarget(name, id, ts, path, file) == [name |-> name, id |-> id, ts |-> ts, path |-> path, file |-> file]

Rem == INSTANCE Remap WITH
    Targets <- {<<MapTarget(0, 0, 0, <<1, 4>>, 0), MapTarget(1, 0, 0, <<1, 3>>, 0), MapTarget(2, 0, 0, <<1, 2, 1>>, 5),
                  MapTarget(11, 11, 12, <<1, 5>>, 0), MapTarget(21, 21, 11, <<1, 6>>, 0)>>},
    Paths <- {3}, Files <- {4}, NoPath <- <<>>,
    Options <- MapOptions(Mappings({11, 21, 12}, 2), {<<>>, <<1, 2>>}, Mappings({1, 4, 11}, 1))
               \union MapOptions(Mappings({11, 12}, 1), {<<>>}, Mappings({1, 2, 3, 4}, 2) \union ShortNames),
    target <- mapTarget, link <- mapLink, opt <- mapOpt, pc <- mapPc, next <- mapNext, list <- mapList,
    origin <- mapOrigin,
    Ids <- {1, 3, 4}, FirstNormal <- 3, SystemNames <- {100, 101}, Words <- {1, 3, 4, 100, 104}, MaxWords <- 3,
    Namings <- DatabaseNames,
    listed <- dbListed, inFiles <- dbFound, include <- dbInclude, exclude <- dbExclude, zero <- dbZero

-----------------------------------------------------------------------------
Off(v) == v = "off"

MCInit ==
    /\ part \in Parts
    /\ Init /\ (part = "expire" \/ opt = CHOOSE o \in Options : TRUE)
    /\ IF part = "blocks" THEN Blk!Init
       ELSE Off(blockFile) /\ Off(blockManifest) /\ Off(blockRepo) /\ Off(blockBundle) /\ Off(blockFilter) /\ Off(blockPos)
            /\ Off(blockOut) /\ Off(blockBuffers) /\ Off(blockPc) /\ Off(blockPg)
    /\ IF part = "recovery" THEN Rec!Init
       ELSE Off(version) /\ Off(timeline) /\ Off(unreadable) /\ Off(backups) /\ Off(last) /\ Off(restores)
    /\ IF part = "databases" THEN Rem!SelectInit
       ELSE Off(dbName) /\ Off(dbListed) /\ Off(dbFound) /\ Off(dbInclude) /\ Off(dbExclude) /\ Off(dbZero)
    /\ IF part = "remap" THEN Rem!Init
       ELSE Off(mapTarget) /\ Off(mapLink) /\ Off(mapOpt) /\ Off(mapPc) /\ Off(mapNext) /\ Off(mapList) /\ Off(mapOrigin)

MCNext ==
    /\ UNCHANGED part
    /\ \/ part = "expire" /\ Next /\ UNCHANGED <<blockVars, recoveryVars, dbVars, mapVars>>
       \/ part = "blocks" /\ Blk!Next /\ UNCHANGED <<vars, recoveryVars, dbVars, mapVars>>
       \/ part = "recovery" /\ Rec!Next /\ UNCHANGED <<vars, blockVars, dbVars, mapVars>>
       \/ part = "databases" /\ Rem!SelectNext /\ UNCHANGED <<vars, blockVars, recoveryVars, mapVars>>
       \/ part = "remap" /\ Rem!Next /\ UNCHANGED <<vars, blockVars, recoveryVars, dbVars>>

MCSpec == MCInit /\ [][MCNext]_mcVars

\* Restore gets a file back from the blocks that several backups stored (command/backup/blockIncr.c,
\* command/backup/blockMap.c, command/restore/blockDelta.c).
BlocksAreRestored == part = "blocks" => Blk!BlocksAreRestored

\* PostgreSQL begins the recovery of a restore that is accepted, with the target that was asked for
\* (command/restore/timeline.c, config.c.inc).
RestoreIsFollowed == part = "recovery" => Rec!RestoreIsFollowed

\* A restore does what its options ask for: the databases that are zeroed are the ones that were asked for
\* (command/restore/select.c.inc), and everything is restored where it was asked for, at a place of its own
\* (command/restore/remap.c.inc, info/manifest/link.c.inc).
RestoredAsAsked ==
    /\ part = "databases" => Rem!ZeroedIsAsked
    /\ part = "remap" => Rem!RestoredWhereAsked
=============================================================================
