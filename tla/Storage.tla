------------------------------ MODULE Storage -------------------------------
(***************************************************************************)
(* The storage drivers with paths: posix and sftp.  Processes write, read, *)
(* remove and list the files of a tree, one system call (or sftp request)  *)
(* at a time, next to each other; a process may be killed between two      *)
(* calls and, with the posix driver, the host may crash.                   *)
(*                                                                         *)
(* A file is written under its temporary name, synced and renamed.  Two    *)
(* processes never write the same file at once (locks see to that).        *)
(*                                                                         *)
(* The storage iterator: the lists of the paths it is in are on a stack,   *)
(* so that a caller can work on one entry at a time.  Names are sequences  *)
(* of components, relative to the path that is iterated.  Paths may go     *)
(* away while the iterator works.                                          *)
(***************************************************************************)
EXTENDS Integers, Sequences, FiniteSets, SequencesExt

CONSTANTS
    Procs,      \* processes
    Dirs,       \* paths, below the base path of the storage
    Files,      \* files that are written atomically
    Parent,     \* Parent[n]: the path of a path or file, Base for the base path
    Base,
    Tmp,        \* Tmp[f]: the temporary name of a file
    MaxVersion, \* bound on the writes of a run
    MaxOps,     \* bound on the operations of a run
    Driver,     \* drivers to check: a subset of {"posix", "sftp"}

    Trees,     \* sets of entries [name, path] to iterate
    Expressions, \* names an expression may match, see Matching
    Orders     \* sort orders: a subset of {"none", "asc", "desc"}

VARIABLES
    driver,   \* the driver of the storage
    fs,       \* fs[n]: Nothing, Path, or the version of the file called n
    data,     \* data[v]: "part" of version v was written, "whole" or "synced"
    disk,     \* disk[n]: what n may be after the host crashed
    ops,      \* operations so far
    proc,     \* proc[p]: the operation of process p and where it is
    kept,     \* kept[f]: the last version whose write returned, until f is to be removed (history)
    always,   \* always[p]: the names that existed ever since the operation began (history)
    never,    \* never[p]: the names that did not exist ever since (history)

    tree,      \* the entries that exist
    tree0,     \* the entries there were (history)
    gone,      \* entries that were removed meanwhile (history)
    match,     \* the names the expression matches
    order,     \* sortOrder
    recurse,   \* recurse
    stack,     \* stack: [sub, list, idx, skip]
    out,       \* the names that were returned
    itrPc      \* "new", "more" or "done"

vars == <<driver, fs, data, disk, ops, proc, kept, always, never>>

Nothing == 0
Path == -1
Names == Dirs \union Files \union {Tmp[f] : f \in Files}
ParentOf(n) == IF n \in Dirs \union Files THEN Parent[n] ELSE Parent[CHOOSE f \in Files : n = Tmp[f]]
Children(d) == {n \in Names : ParentOf(n) = d}

Idle == [op |-> "none", arg |-> Base, pc |-> "done", todo |-> <<>>, created |-> FALSE, v |-> Nothing,
         found |-> {}, ans |-> "none", cause |-> FALSE, lost |-> FALSE]

\* The tree is empty, or the files were written before.
Init ==
    /\ driver \in Driver
    /\ \E v \in {Nothing, 1} :
        /\ fs = [n \in Names |-> IF v = Nothing THEN Nothing ELSE IF n \in Dirs THEN Path ELSE IF n \in Files THEN v ELSE Nothing]
        /\ data = [w \in 1..MaxVersion |-> IF w = v THEN "synced" ELSE "none"]
        /\ kept = [f \in Files |-> v]
    /\ disk = [n \in Names |-> {fs[n]}]
    /\ ops = 0
    /\ proc = [p \in Procs |-> Idle]
    /\ always = [p \in Procs |-> {}]
    /\ never = [p \in Procs |-> {}]

IsPath(d) == d = Base \/ fs[d] = Path
Present(m) == {n \in Names : m[n] # Nothing}
Does(p, pc) == proc[p].pc = pc

\* The tree becomes m: the entries that changed may be lost in a crash.
Becomes(m) ==
    /\ fs' = m
    /\ disk' = [n \in Names |-> IF m[n] = fs[n] THEN disk[n] ELSE disk[n] \union {m[n]}]
    /\ always' = [p \in Procs |-> always[p] \intersect Present(m)]
    /\ never' = [p \in Procs |-> never[p] \ Present(m)]

Unchanged == UNCHANGED <<fs, disk, always, never>>
Goto(p, pc) == proc' = [proc EXCEPT ![p].pc = pc]
Return(p, ans) == proc' = [proc EXCEPT ![p] = [@ EXCEPT !.pc = "done", !.ans = ans, !.todo = <<>>]]
\* An error; what made it: a call that failed for a reason of its own, or what others did.
Error(p) == Return(p, "error")
Failed(p) == proc' = [proc EXCEPT ![p] = [@ EXCEPT !.pc = "done", !.ans = "error", !.cause = TRUE, !.todo = <<>>]]
\* The others are disturbed when something is removed.
Disturbs(pr, p) == [q \in Procs |-> IF q = p THEN pr[q] ELSE [pr[q] EXCEPT !.cause = TRUE]]

\* A call fails and the driver throws: EIO, EACCES and the like, an sftp server that answers so, a time-out.
\* The sftp calls whose failure is not thrown are under Silent.
CallFails(p) ==
    /\ proc[p].pc # "done"
    /\ Failed(p)
    /\ Unchanged /\ UNCHANGED <<driver, data, ops, kept>>

Removing(f) == \E p \in Procs :
    /\ proc[p].pc # "done"
    /\ \/ proc[p].op = "remove" /\ proc[p].arg = f
       \/ proc[p].op = "pathRemove"

\* An operation begins.
Start(p, op, n) ==
    /\ proc[p].pc = "done" /\ ops < MaxOps /\ ops' = ops + 1
    /\ \/ op \in {"write", "read", "remove"} /\ n \in Files
       \/ op \in {"pathCreate", "pathRemove", "list"} /\ n \in Dirs
    /\ op = "write" => /\ \E v \in DOMAIN data : data[v] = "none"
                       /\ \A q \in Procs : ~(proc[q].op = "write" /\ proc[q].pc # "done" /\ proc[q].arg = n)
    /\ proc' = [proc EXCEPT ![p] =
        [Idle EXCEPT !.op = op, !.arg = n,
            !.pc = CASE op = "write" -> "open" [] op = "pathCreate" -> "mkdir" [] OTHER -> op,
            !.todo = CASE op = "pathCreate" -> <<n>> [] op = "pathRemove" -> <<[path |-> n, names |-> Names]>> [] OTHER -> <<>>,
            !.cause = \E q \in Procs \ {p} : proc[q].pc # "done" /\ proc[q].op \in {"remove", "pathRemove"}]]
    /\ kept' = [f \in Files |-> IF (op = "remove" /\ n = f) \/ op = "pathRemove" THEN Nothing ELSE kept[f]]
    /\ always' = [always EXCEPT ![p] = Present(fs)]
    /\ never' = [never EXCEPT ![p] = Names \ Present(fs)]
    /\ UNCHANGED <<driver, fs, disk, data>>

\* An sftp request fails with an error that the driver does not look at: the connection is lost, say.
\* What the driver goes on with is in lost, and for the one who waits for it an error of its own.
Silent(p, next) ==
    /\ driver = "sftp"
    /\ proc' = [proc EXCEPT ![p] = [next EXCEPT !.lost = TRUE, !.cause = TRUE]]
    /\ Unchanged
Answer(p, ans) == [proc[p] EXCEPT !.pc = "done", !.ans = ans, !.todo = <<>>]

(***************************************************************************)
(* Creating paths: a parent that is missing is created first.  An sftp     *)
(* server that fails for another reason than a path that exists is         *)
(* believed when the path cannot be looked at either.                      *)
(***************************************************************************)
\* A path that exists is fine, someone else may have created it.
ExistsFails(p, next) == Error(p)
Exists(p, next) == proc' = [proc EXCEPT ![p] = next]

Mkdir(p) ==
    LET d == Head(proc[p].todo)
        rest == Tail(proc[p].todo)
        next == [proc[p] EXCEPT !.todo = rest,
                                !.pc = IF rest # <<>> THEN "mkdir" ELSE IF proc[p].op = "write" THEN "open" ELSE "done",
                                !.ans = IF rest = <<>> /\ proc[p].op = "pathCreate" THEN "ok" ELSE "none"]
    IN
    /\ Does(p, "mkdir")
    /\ \/ IF ~IsPath(Parent[d]) THEN proc' = [proc EXCEPT ![p].todo = <<Parent[d]>> \o @] /\ Unchanged
          ELSE IF IsPath(d) THEN Exists(p, next) /\ Unchanged
          ELSE Becomes([fs EXCEPT ![d] = Path]) /\ proc' = [proc EXCEPT ![p] = next]
       \/ ~IsPath(d) /\ Silent(p, next)
    /\ UNCHANGED <<driver, ops, data, kept>>

(***************************************************************************)
(* Writing a file                                                          *)
(***************************************************************************)
\* The temporary file is created, or truncated when one was left behind.
OpenWrite(p) ==
    LET f == proc[p].arg
        v == CHOOSE v \in DOMAIN data : data[v] = "none" /\ \A w \in 1..(v - 1) : data[w] # "none"
    IN
    /\ Does(p, "open")
    /\ IF IsPath(Parent[f])
       THEN /\ data' = [data EXCEPT ![v] = "part"]
            /\ Becomes([fs EXCEPT ![Tmp[f]] = v])
            /\ proc' = [proc EXCEPT ![p] = [@ EXCEPT !.pc = "write", !.v = v]]
       ELSE /\ IF proc[p].created THEN Error(p)
               ELSE proc' = [proc EXCEPT ![p] = [@ EXCEPT !.pc = "mkdir", !.todo = <<Parent[f]>>, !.created = TRUE]]
            /\ Unchanged /\ UNCHANGED data
    /\ UNCHANGED <<driver, ops, kept>>

\* A version is open for a process only while the process has it.
WriteData(p) ==
    /\ Does(p, "write")
    /\ data' = [data EXCEPT ![proc[p].v] = "whole"]
    /\ Goto(p, "close")
    /\ Unchanged /\ UNCHANGED <<driver, ops, kept>>

\* The file is synced and closed before it gets its name.
SyncedNever(p) == data
Synced(p) == [data EXCEPT ![proc[p].v] = "synced"]

CloseWrite(p) ==
    /\ Does(p, "close")
    /\ data' = Synced(p)
    /\ Goto(p, "rename")
    /\ Unchanged /\ UNCHANGED <<driver, ops, kept>>

\* Only the newest version of a file has its temporary name: writers do not overlap, but one may be killed.
RenameDone(p) == IF driver = "posix" THEN Goto(p, "pathSync") /\ UNCHANGED kept
                 ELSE Return(p, "ok") /\ kept' = [kept EXCEPT ![proc[p].arg] = IF Removing(proc[p].arg) THEN Nothing ELSE proc[p].v]

Rename(p) ==
    LET f == proc[p].arg IN
    /\ proc[p].pc \in {"rename", "renameAgain"}
    /\ \/ /\ fs[Tmp[f]] = Nothing
          /\ Error(p) /\ Unchanged /\ UNCHANGED kept
       \/ \* Some sftp servers do not rename over an existing file
          /\ fs[Tmp[f]] # Nothing /\ driver = "sftp" /\ fs[f] # Nothing
          /\ IF proc[p].pc = "rename" THEN Goto(p, "unlink") ELSE Error(p)
          /\ Unchanged /\ UNCHANGED kept
       \/ /\ fs[Tmp[f]] # Nothing
          /\ Becomes([fs EXCEPT ![f] = fs[Tmp[f]], ![Tmp[f]] = Nothing])
          /\ RenameDone(p)
    /\ UNCHANGED <<driver, ops, data>>

\* storageWriteSftpUnlinkExisting(): a file that is missing is an error.
UnlinkExisting(p) ==
    LET f == proc[p].arg IN
    /\ Does(p, "unlink")
    /\ IF fs[f] = Nothing THEN Error(p) /\ Unchanged
       ELSE Becomes([fs EXCEPT ![f] = Nothing]) /\ Goto(p, "renameAgain")
    /\ UNCHANGED <<driver, ops, data, kept>>

\* The entries of the path are on disk, the path itself is an entry of its parent, which is not synced.
PathSynced(d) == [n \in Names |-> IF n \in Children(d) THEN {fs[n]} ELSE disk[n]]

PathSync(p) ==
    LET f == proc[p].arg IN
    /\ Does(p, "pathSync")
    /\ IF IsPath(Parent[f])
       THEN /\ disk' = PathSynced(Parent[f])
            /\ Return(p, "ok")
            /\ kept' = [kept EXCEPT ![f] = IF Removing(f) \/ proc[p].cause THEN Nothing ELSE proc[p].v]
       ELSE Error(p) /\ UNCHANGED <<disk, kept>>
    /\ UNCHANGED <<driver, ops, fs, data, always, never>>

(***************************************************************************)
(* Reading, removing and listing                                           *)
(***************************************************************************)
\* storageReadPosixOpen(), storageReadSftpOpen(): no handle and no error thrown, the file is taken as missing.
OpenRead(p) ==
    LET f == proc[p].arg IN
    /\ Does(p, "read")
    /\ \/ /\ IF fs[f] = Nothing THEN Return(p, "missing")
             ELSE proc' = [proc EXCEPT ![p] = [@ EXCEPT !.pc = "done", !.ans = "ok", !.v = fs[f]]]
          /\ Unchanged
       \/ Silent(p, Answer(p, "missing"))
    /\ UNCHANGED <<driver, ops, data, kept>>

\* storagePosixRemove(), storageSftpRemove(): a file that is missing is no error, and with sftp no failure is
\* but a time-out and what the server answers.
RemoveEntry(p) ==
    LET f == proc[p].arg IN
    /\ Does(p, "remove")
    /\ \/ /\ Becomes([fs EXCEPT ![f] = Nothing])
          /\ proc' = Disturbs([proc EXCEPT ![p] = Answer(p, "removed")], p)
       \/ Silent(p, Answer(p, "removed"))
    /\ UNCHANGED <<driver, ops, data, kept>>

\* storagePosixList(), storageSftpList(): an entry at a time.  Entries that come and go
\* meanwhile may be missed; an entry that is gone when it is looked at is skipped.
ListEntry(p) ==
    /\ Does(p, "list")
    /\ \E n \in Children(proc[p].arg) \ proc[p].found :
        /\ IsPath(proc[p].arg) /\ fs[n] # Nothing
        /\ proc' = [proc EXCEPT ![p].found = @ \union {n}]
    /\ Unchanged /\ UNCHANGED <<driver, ops, data, kept>>

\* readdir() and its like end with all that was there from the beginning to the end.  With sftp a list also
\* ends where it is when a request fails or is not answered in time.
ListEnds(p) == Children(proc[p].arg) \intersect always[p] \subseteq proc[p].found

ListDone(p) ==
    LET ans == IF proc[p].arg \in always[p] \/ proc[p].found # {} THEN "listed" ELSE "missing" IN
    /\ Does(p, "list")
    /\ \/ ListEnds(p) /\ Return(p, ans) /\ Unchanged
       \/ Silent(p, Answer(p, ans))
    /\ UNCHANGED <<driver, ops, data, kept>>

(***************************************************************************)
(* Removing a path: the entries are listed and unlinked, an entry that is  *)
(* a path is removed the same way, then the path itself.                   *)
(***************************************************************************)
Top(p) == proc[p].todo[Len(proc[p].todo)]
Pop(s) == SubSeq(s, 1, Len(s) - 1)

\* The list of the path on top of the stack.
PathRemoveList(p) ==
    /\ Does(p, "pathRemove")
    /\ Top(p).names = Names
    /\ LET some == {n \in Children(Top(p).path) : fs[n] # Nothing}
           listed(names) == [proc[p] EXCEPT !.todo[Len(proc[p].todo)].names = names]
       IN \/ proc' = [proc EXCEPT ![p] = listed(some)] /\ Unchanged
          \/ \E names \in SUBSET some : Silent(p, listed(names))
    /\ UNCHANGED <<driver, ops, data, kept>>

PathRemoveEntry(p) ==
    /\ Does(p, "pathRemove")
    /\ Top(p).names \notin {Names, {}}
    /\ LET n == CHOOSE n \in Top(p).names : TRUE
           left == [proc[p].todo EXCEPT ![Len(proc[p].todo)].names = @ \ {n}]
       IN CASE fs[n] = Nothing -> Error(p) /\ Unchanged
            [] fs[n] = Path -> proc' = [proc EXCEPT ![p].todo = Append(left, [path |-> n, names |-> Names])] /\ Unchanged
            [] OTHER -> Becomes([fs EXCEPT ![n] = Nothing]) /\ proc' = Disturbs([proc EXCEPT ![p].todo = left], p)
    /\ UNCHANGED <<driver, ops, data, kept>>

Rmdir(p) ==
    LET d == Top(p).path
        rest == Pop(proc[p].todo)
        next == [proc[p] EXCEPT !.todo = rest, !.pc = IF rest = <<>> THEN "done" ELSE @,
                                !.ans = IF rest = <<>> THEN "removed" ELSE @]
    IN
    /\ Does(p, "pathRemove") /\ Top(p).names = {}
    /\ CASE fs[d] = Nothing -> proc' = [proc EXCEPT ![p] = next] /\ Unchanged
         [] \E n \in Children(d) : fs[n] # Nothing -> Error(p) /\ Unchanged
         [] OTHER -> Becomes([fs EXCEPT ![d] = Nothing]) /\ proc' = Disturbs([proc EXCEPT ![p] = next], p)
    /\ UNCHANGED <<driver, ops, data, kept>>

(***************************************************************************)
(* Kills and crashes                                                       *)
(***************************************************************************)
Kill(p) ==
    /\ proc[p].pc # "done"
    /\ proc' = [proc EXCEPT ![p] = Idle]
    /\ Unchanged /\ UNCHANGED <<driver, ops, data, kept>>

\* The host crashes: entries that were not synced may be lost, and data that was not.  A path that is lost
\* takes its files with it.
Crash ==
    /\ driver = "posix"
    /\ \E unsynced \in {{n \in Names : disk[n] # {fs[n]}}} :
       \E m \in [unsynced -> UNION {disk[n] : n \in unsynced}] :
        /\ \A n \in unsynced : m[n] \in disk[n]
        /\ fs' = m @@ fs
    /\ \A n \in Names \ Children(Base) : fs'[n] # Nothing => fs'[ParentOf(n)] = Path
    /\ disk' = [n \in Names |-> {fs'[n]}]
    /\ \E torn \in SUBSET {v \in DOMAIN data : data[v] = "whole"} :
        data' = [v \in DOMAIN data |-> IF v \in torn THEN "part" ELSE data[v]]
    /\ proc' = [p \in Procs |-> Idle]
    /\ kept' = [f \in Files |-> IF Parent[f] \in Dirs /\ fs'[Parent[f]] # Path THEN Nothing ELSE kept[f]]
    /\ always' = [p \in Procs |-> {}] /\ never' = [p \in Procs |-> {}]
    /\ UNCHANGED <<driver, ops>>

Next ==
    \/ \E p \in Procs :
        \/ \E op \in {"write", "read", "remove"}, f \in Files : Start(p, op, f)
        \/ \E op \in {"pathCreate", "pathRemove", "list"}, d \in Dirs : Start(p, op, d)
        \/ Mkdir(p) \/ OpenWrite(p) \/ WriteData(p) \/ CloseWrite(p) \/ Rename(p) \/ UnlinkExisting(p) \/ PathSync(p)
        \/ OpenRead(p) \/ RemoveEntry(p) \/ ListEntry(p) \/ ListDone(p)
        \/ PathRemoveList(p) \/ PathRemoveEntry(p) \/ Rmdir(p)
        \/ CallFails(p) \/ Kill(p)
    \/ Crash

Spec == Init /\ [][Next]_vars

(* A file is whole whenever it is there under its name, and whatever a reader opens is whole:
   no kill, crash or concurrent operation shows part of a version. *)
ReadIsWhole ==
    /\ \A f \in Files : fs[f] # Nothing => data[fs[f]] \in {"whole", "synced"}
    /\ \A p \in Procs : proc[p].op = "read" /\ proc[p].ans = "ok" => data[proc[p].v] \in {"whole", "synced"}

(* With the posix driver, a file whose write returned stays until someone removes it, in that version
   or a later one: it survives a crash of the host as long as its path does (parents are not synced),
   and it does not go away while it is overwritten. *)
WrittenIsKept ==
    driver = "posix" => \A f \in Files : kept[f] # Nothing => fs[f] # Nothing /\ fs[f] >= kept[f]

(* Once a file is there it is complete, and with posix once its write has returned it is there. *)
FilesAreWhole == ReadIsWhole /\ WrittenIsKept

(* An answer of the driver was true at some moment of the operation, unless the sftp driver took the
   failure of a request for it (lost): what it calls missing or removed was not there, what it opened or
   created was.  Writing a file and creating a path only fail when a call failed or someone removed
   something meanwhile: processes that create the same paths do not disturb each other. *)
AnswerIsTrue ==
    \A p \in Procs : LET q == proc[p] IN
        /\ q.ans \in {"missing", "removed"} /\ ~q.lost => q.arg \notin always[p]
        /\ q.op \in {"read", "pathCreate"} /\ q.ans = "ok" /\ ~q.lost => q.arg \notin never[p]
        /\ q.op \in {"write", "pathCreate"} /\ q.ans = "error" => q.cause

-----------------------------------------------------------------------------
(* The iterator *)
itrVars == <<tree, tree0, gone, match, order, recurse, stack, out, itrPc>>

NamesOf(t) == {e.name : e \in t}
Under(n, sub) == Len(n) = Len(sub) + 1 /\ IsPrefix(sub, n)

\* Components are compared one by one, a path comes before its content.
Before(a, b) == \/ IsStrictPrefix(a, b)
                \/ \E i \in 1..Len(a) : i <= Len(b) /\ SubSeq(a, 1, i - 1) = SubSeq(b, 1, i - 1) /\ a[i] < b[i]

\* storageInterfaceListP(), sorted on request.
List(sub) ==
    LET asc == SetToSortSeq({n \in NamesOf(tree) : Under(n, sub)}, Before)
    IN IF order = "desc" THEN Reverse(asc) ELSE asc

ItrInit ==
    /\ tree \in Trees /\ tree0 = tree /\ gone = {}
    /\ match \in Expressions
    /\ order \in Orders /\ recurse \in BOOLEAN
    /\ stack = <<>> /\ out = <<>> /\ itrPc = "new"

\* storageItrPathAdd(): the stack with the content of a path that exists and has some.
PathAdd(s, sub) == IF List(sub) = <<>> THEN s ELSE Append(s, [sub |-> sub, list |-> List(sub), idx |-> 1, skip |-> FALSE])

\* storageItrNew()
New ==
    /\ itrPc = "new"
    /\ stack' = PathAdd(<<>>, <<>>)
    /\ itrPc' = "more"
    /\ UNCHANGED <<tree, tree0, gone, match, order, recurse, out>>

(***************************************************************************)
(* storageItrMore(): a step per entry.                                     *)
(***************************************************************************)
ItrTop == Len(stack)
Info == stack[ItrTop].list[stack[ItrTop].idx]
\* The type in the list is the one the entry had then.
IsPathInfo(n) == \E e \in tree0 : e.name = n /\ e.path

Content == IsPathInfo(Info) /\ recurse /\ ~stack[ItrTop].skip /\ List(Info) # <<>>

\* A list is freed when nothing is left of it and it is at the top.
Freed(s, i) == IF s[i].idx > Len(s[i].list) /\ i = Len(s) THEN Front(s) ELSE s

\* The path is output after its content when the order is descending.
AfterContentNever == FALSE
AfterContent == order = "desc"

More ==
    LET i == ItrTop
        pushed == IF Content THEN PathAdd(stack, Info) ELSE stack
        plain == [pushed EXCEPT ![i].skip = FALSE]
        next == [plain EXCEPT ![i].idx = @ + 1]
    IN
    /\ itrPc = "more" /\ stack # <<>>
    /\ IF stack[i].idx > Len(stack[i].list) THEN stack' = Freed(stack, i) /\ UNCHANGED out
       ELSE IF Info \notin match THEN stack' = Freed(next, i) /\ UNCHANGED out
       ELSE IF Content /\ AfterContent
       THEN stack' = [plain EXCEPT ![i].skip = TRUE] /\ UNCHANGED out
       ELSE stack' = next /\ out' = Append(out, Info)
    /\ UNCHANGED <<tree, tree0, gone, match, order, recurse, itrPc>>

End ==
    /\ itrPc = "more" /\ stack = <<>>
    /\ itrPc' = "done"
    /\ UNCHANGED <<tree, tree0, gone, match, order, recurse, stack, out>>

\* An entry at the top is removed with all that is in it.
Vanish(n) ==
    /\ itrPc = "more" /\ gone = {} /\ n \in NamesOf(tree) /\ Len(n) = 1
    /\ tree' = {e \in tree : ~IsPrefix(n, e.name)}
    /\ gone' = NamesOf(tree) \ NamesOf(tree')
    /\ UNCHANGED <<tree0, match, order, recurse, stack, out, itrPc>>

ItrNext == New \/ More \/ End \/ \E t \in tree : Vanish(t.name)

ItrSpec == ItrInit /\ [][ItrNext]_itrVars

\* What the iterator is to return: the matching names, sorted as one list.
Expected ==
    LET all == {n \in NamesOf(tree0) \ gone : n \in match /\ (recurse \/ Len(n) = 1)}
        asc == SetToSortSeq(all, Before)
    IN IF order = "desc" THEN Reverse(asc) ELSE asc

(* The iterator returns every entry that was there all the time exactly once, in an order in
   which a path comes before its content, or after it when the order is descending, and
   nothing else but entries that went away meanwhile. *)
ItrIsExact ==
    itrPc = "done" =>
        /\ SelectSeq(out, LAMBDA n : n \notin gone) = Expected
        /\ ToSet(out) \subseteq match
        /\ Cardinality(ToSet(out)) = Len(out)
=============================================================================
