----------------------------- MODULE MCCommands -----------------------------
(***************************************************************************)
(* The locks of the commands, verify and the stanza commands.              *)
(* The parts do not share state here: a behaviour is one of a single part, *)
(* and Parts says which are checked.                                       *)
(***************************************************************************)
EXTENDS Lock, Sequences, TLC

CONSTANTS Parts, p1, p2, p3, i1, i2, i3, i4, r1, r2,
          VerifyRepos, VerifyErrors, Databases, MaxChanges, MaxRuns, MaxFaults

\* 0 stands for no database (a file that is missing or damaged).
ASSUME DatabasesAssumption == 0 \notin Databases

VARIABLES
    part,                                                              \* the part that runs
    repo, verifyPc, verifyData, jobs, client, errors,                  \* Verify
    db, info, stored, stop, cmd, push, changes, commands, kills, lost, orphan  \* Stanza

verifyVars == <<repo, verifyPc, verifyData, jobs, client, errors>>
stanzaVars == <<db, info, stored, stop, cmd, push, changes, commands, kills, lost, orphan>>
mcVars == <<part, vars, verifyVars, stanzaVars>>

-----------------------------------------------------------------------------
(* Locks *)

\* All commands of one stanza with one lock type: everybody locks every file.
SameFiles == [x \in Proc |-> File]
\* p1 locks one repository, p2 all of them.
OneAndAll == [x \in Proc |-> IF x = p1 THEN {1} ELSE File]
\* Every process is an invocation of its own.
OwnExecId == [x \in Proc |-> x]
\* p2 starts p1.
OneExecId == [x \in Proc |-> p2]

-----------------------------------------------------------------------------
(* Repositories with WAL, with backups that depend on each other, and with a set. *)
VWal(tl, n, copy, state) == [tl |-> tl, n |-> n, copy |-> copy, state |-> state]
VFile(name, ref, empty) == [name |-> name, ref |-> ref, empty |-> empty]
VManifest(main, copy, id, bundle, block, file) ==
    [main |-> main, copy |-> copy, pg |-> id, bundle |-> bundle, block |-> block, file |-> file,
     wal |-> [start |-> <<1, 1>>, stop |-> <<1, 2>>]]
VFull(main, copy, bundle) == VManifest(main, copy, 1, bundle, FALSE, <<VFile("a", None, FALSE), VFile("b", None, FALSE)>>)
VIncr(id, bundle, block) == VManifest("ok", "ok", id, bundle, block, <<VFile("a", 1, FALSE), VFile("b", 1, FALSE), VFile("c", None, TRUE)>>)
VNothing == VManifest("missing", "ok", 1, FALSE, FALSE, <<>>)
VBoth == {"main", "copy"}
VInfos == {[backup |-> b, archive |-> a] : b \in SUBSET VBoth, a \in SUBSET VBoth}
VAll == [backup |-> VBoth, archive |-> VBoth]
VStates == {"ok", "missing", "checksum", "size"}
VPaths12 == {<<1, "a">>, <<1, "b">>, <<2, "c">>}

VEmpty == [info |-> VAll, history |-> <<1>>, history2 |-> <<1>>, wal |-> <<>>, label |-> {}, listed |-> {}, manifest |-> <<>>,
          state |-> <<>>, set |-> None]

WalSets == {W \in SUBSET {VWal(1, 0, 1, "ok"), VWal(1, 1, 1, "checksum"), VWal(1, 2, 1, "ok"), VWal(1, 2, 2, "ok"),
                          VWal(1, 3, 1, "missing"), VWal(2, 3, 1, "ok")} : TRUE}
WalRepos == {[VEmpty EXCEPT !.wal = <<W>>, !.history2 = h] : W \in WalSets, h \in {<<1>>, <<1, 2>>}}
            \union {[VEmpty EXCEPT !.info = i, !.wal = <<{VWal(1, 0, 1, "checksum")}>>] : i \in VInfos}
            \union {VEmpty, [VEmpty EXCEPT !.wal = <<{}, {VWal(1, 0, 1, "ok")}>>]}

BackupRepos ==
    {[VEmpty EXCEPT !.wal = <<{VWal(1, 1, 1, "ok")}>>, !.label = {1, 2}, !.listed = L, !.state = s,
                   !.manifest = <<VFull("ok", "ok", b), VIncr(1, b, FALSE)>>] :
        b \in BOOLEAN, s \in [VPaths12 -> {"ok", "missing", "checksum"}], L \in {{1}, {1, 2}}}
    \union
    {[VEmpty EXCEPT !.label = {1, 2}, !.listed = L, !.state = [f \in VPaths12 |-> "ok"],
                   !.manifest = <<VFull(m, c, FALSE), IF n = 2 THEN VNothing ELSE VIncr(n, FALSE, FALSE)>>] :
        m \in {"ok", "bad", "missing"}, c \in {"ok", "bad", "missing"}, n \in {1, 2, 3}, L \in {{1}, {1, 2}}}

SetRepos ==
    {[VEmpty EXCEPT !.wal = <<{VWal(1, 0, 1, "checksum"), VWal(1, 1, 1, "ok"), VWal(1, 2, 1, "ok"), VWal(1, 3, 1, "checksum")}>>,
                   !.label = {1, 2}, !.listed = {1, 2}, !.state = [f \in VPaths12 |-> IF f = q THEN "size" ELSE "ok"],
                   !.manifest = <<VFull("ok", "ok", FALSE), VIncr(g, FALSE, k)>>, !.set = t] :
        q \in VPaths12, g \in {1, 2}, k \in BOOLEAN, t \in {1, 2, 3}}

\* Files of their own, the newest backup depending on the one before.
PlainRepos == {r \in BackupRepos : ~r.manifest[1].bundle}

AllRepos == WalRepos \union BackupRepos \union SetRepos

Ver == INSTANCE Verify WITH
    Repos <- VerifyRepos, Workers <- 2, PathSize <- 2, MaxErrors <- VerifyErrors, pc <- verifyPc, data <- verifyData

-----------------------------------------------------------------------------
(* A stanza and its databases. *)
Sta == INSTANCE Stanza WITH pg <- db, data <- stored, runs <- commands

\* Inodes are alike, and so are the databases.
Symmetry == Permutations(Inode) \union Permutations(Databases)

-----------------------------------------------------------------------------
Off(v) == v = "off"

MCInit ==
    /\ part \in Parts
    /\ Init
    /\ IF part = "verify" THEN Ver!Init
       ELSE Off(repo) /\ Off(verifyPc) /\ Off(verifyData) /\ Off(jobs) /\ Off(client) /\ Off(errors)
    /\ IF part = "stanza" THEN Sta!Init
       ELSE Off(db) /\ Off(info) /\ Off(stored) /\ Off(stop) /\ Off(cmd) /\ Off(push) /\ Off(changes) /\ Off(commands)
            /\ Off(kills) /\ Off(lost) /\ Off(orphan)

MCNext ==
    /\ UNCHANGED part
    /\ \/ part = "lock" /\ Next /\ UNCHANGED <<verifyVars, stanzaVars>>
       \/ part = "verify" /\ Ver!Next /\ UNCHANGED <<vars, stanzaVars>>
       \/ part = "stanza" /\ Sta!Next /\ UNCHANGED <<vars, verifyVars>>

MCSpec == MCInit /\ [][MCNext]_mcVars

-----------------------------------------------------------------------------
(* The properties of the parts, each defined and explained in its module. *)

\* verify that reports no error has found none there was to find, every file is counted
\* once, and WAL ranges are the runs of segments without a gap (command/verify/verify.c).
ReportIsTrue == part = "verify" => Ver!ReportIsTrue

\* A backup that is reported as valid is valid (command/verify/verify.c:1856).
ValidIsValid == part = "verify" => Ver!ValidIsValid

\* What is stored under one id came from one database (command/stanza, info/infoPg.c).
OneDatabasePerId == part = "stanza" => Sta!OneDatabasePerId

\* A killed upgrade leaves archive.info at most one database ahead (command/stanza/upgrade.c:68).
AtMostOneAhead == part = "stanza" => Sta!AtMostOneAhead
=============================================================================
