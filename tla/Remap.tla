------------------------------- MODULE Remap --------------------------------
(***************************************************************************)
(* Where a restore puts things: restoreManifestMap() changes the targets   *)
(* and links of the manifest as --pg1-path, --tablespace-map,              *)
(* --tablespace-map-all, --link-map and --link-all ask, and then           *)
(* manifestLinkCheck() goes through the targets with a sorted list of      *)
(* where links lead, to refuse links that would be written over each       *)
(* other.                                                                  *)
(*                                                                         *)
(* A path is a sequence of components; one of a single component is the    *)
(* name of a file without a path.  Paths are compared with / at their      *)
(* end, so one begins with the other when its components do, and they are  *)
(* sorted as their components are.                                         *)
(*                                                                         *)
(* restoreSelectiveExpression(): which databases a restore zeroes.  The    *)
(* databases come from the manifest and from the files of the backup, the  *)
(* user names the ones to include and to exclude by id or by name, and     *)
(* lists of ids are merged as sorted lists.  A word is a number here: an   *)
(* id, or a name, and a name may look like the id of another database.     *)
(***************************************************************************)
EXTENDS Naturals, Sequences, FiniteSets, SequencesExt

CONSTANTS
    Targets,     \* the manifests' targets: sequences of Target() records, the data directory first
    Paths,       \* names of plain paths below the data directory
    Files,       \* names of plain files there
    Options,     \* what the restore may be told
    NoPath,

    Ids,          \* ids of databases
    FirstNormal,  \* ids below are of system databases
    SystemNames,  \* postgres, template0 and template1
    Namings,      \* [id -> name], what the databases may be called
    Words,        \* what the user may write
    MaxWords      \* bound on the words written

VARIABLES
    target,      \* the target list
    link,        \* link[name]: where the link leads
    opt, pc,
    next,        \* the target or mapping that is next
    list,        \* the paths of links that were checked, sorted
    origin,      \* the target list of the backup

    dbName,      \* dbName[id]
    listed,    \* ids in the database section of the manifest
    inFiles,     \* ids of databases with files in the backup
    include, exclude,   \* --db-include and --db-exclude
    zero       \* what the restore zeroes: [done, error, dbs]

vars == <<target, link, opt, pc, next, list, origin>>

Base == 0

\* A target: name, tablespace id (0 for other links) and name, path, and file of a file link (0 for none).
Target(name, id, ts, path, file) == [name |-> name, id |-> id, ts |-> ts, path |-> path, file |-> file]
Destination(t) == IF t.file = 0 THEN t.path ELSE Append(t.path, t.file)

Init ==
    /\ opt \in Options /\ origin \in Targets
    /\ target = origin
    /\ link = [n \in {origin[i].name : i \in 2..Len(origin)} |->
                  Destination(CHOOSE t \in Range(origin) : t.name = n)]
    /\ pc = "base" /\ next = 1 /\ list = <<>>

TargetFind(name) == {i \in DOMAIN target : target[i].name = name}
TargetUpdate(i, path, file) == target' = [target EXCEPT ![i].path = path, ![i].file = file]
LinkUpdate(name, path) == link' = [link EXCEPT ![name] = path]
LinkAdd(name, path) == link' = [n \in DOMAIN link \union {name} |-> IF n = name THEN path ELSE link[n]]
LinkRemove(names) == link' = [n \in DOMAIN link \ names |-> link[n]]

Goto(label) == pc' = label /\ next' = 1

-----------------------------------------------------------------------------
(* restoreManifestMap() *)

MapBase ==
    /\ pc = "base"
    /\ TargetUpdate(1, opt.pgPath, 0)
    /\ Goto("tablespace")
    /\ UNCHANGED <<link, opt, list, origin>>

\* The path asked for a tablespace: by name, by id, or by --tablespace-map-all.
Asked(t) == {opt.tsMap[k] : k \in {t.ts, t.id} \cap DOMAIN opt.tsMap}
TablespacePath(t) ==
    CASE Asked(t) # {}       -> CHOOSE p \in Asked(t) : TRUE
      [] opt.tsAll # NoPath  -> Append(opt.tsAll, t.ts)
      [] OTHER               -> NoPath

MapTablespace ==
    /\ pc = "tablespace" /\ next <= Len(target)
    /\ LET t == target[next]
           path == TablespacePath(t)
       IN  \/ /\ t.id # 0 /\ Cardinality(Asked(t)) > 1    \* by name and by id with different paths
              /\ Goto("failed")
              /\ UNCHANGED <<target, link>>
           \/ /\ t.id # 0 /\ Cardinality(Asked(t)) <= 1 /\ path # NoPath
              /\ TargetUpdate(next, path, 0) /\ LinkUpdate(t.name, path)
              /\ next' = next + 1 /\ UNCHANGED pc
           \/ /\ t.id = 0 \/ path = NoPath
              /\ next' = next + 1 /\ UNCHANGED <<pc, target, link>>
    /\ UNCHANGED <<opt, list, origin>>

\* Every mapping must have been used for a tablespace.
CheckTablespaces ==
    /\ pc = "tablespace" /\ next > Len(target)
    /\ Goto(IF DOMAIN opt.tsMap \subseteq UNION {{t.ts, t.id} : t \in {u \in Range(target) : u.id # 0}}
            THEN "link" ELSE "failed")
    /\ UNCHANGED <<target, link, opt, list, origin>>

LinkMapList == SortSeq(SetToSeq(DOMAIN opt.linkMap), <)

\* The target of a destination, which for a file is taken apart.
LinkTarget(name, path, isFile) ==
    IF isFile THEN Target(name, 0, 0, Front(path), Last(path)) ELSE Target(name, 0, 0, path, 0)

\* A file link needs a path besides the name of the file.
TooShort(path, isFile) == isFile /\ Len(path) = 1

\* A link that is in the backup is changed; a path or file that was none becomes one.
MapLink ==
    /\ pc = "link" /\ next <= Len(LinkMapList)
    /\ LET name == LinkMapList[next]
           path == opt.linkMap[name]
           found == {i \in TargetFind(name) : target[i].id = 0}
           isFile == name \in Files \/ \E i \in found : target[i].file # 0
       IN  \/ /\ (found = {} /\ name \notin Paths \union Files) \/ TooShort(path, isFile)
              /\ Goto("failed") /\ UNCHANGED <<target, link>>
           \/ /\ found = {} /\ name \in Paths \union Files /\ ~TooShort(path, isFile)
              /\ target' = Append(target, LinkTarget(name, path, isFile))
              /\ LinkAdd(name, path)
              /\ next' = next + 1 /\ UNCHANGED pc
           \/ \E i \in found :
                 /\ ~TooShort(path, isFile)
                 /\ LET new == LinkTarget(name, path, isFile) IN TargetUpdate(i, new.path, new.file)
                 /\ LinkUpdate(name, path)
                 /\ next' = next + 1 /\ UNCHANGED pc
    /\ UNCHANGED <<opt, list, origin>>

\* Without --link-all the links that were not mapped become paths and files.
Kept(t) == t.name = Base \/ t.id # 0 \/ t.name \in DOMAIN opt.linkMap \/ opt.linkAll

RemoveLinks ==
    /\ pc = "link" /\ next > Len(LinkMapList)
    /\ target' = SelectSeq(target, Kept)
    /\ LinkRemove({t.name : t \in {u \in Range(target) : ~Kept(u)}})
    /\ pc' = "check" /\ next' = 2
    /\ UNCHANGED <<opt, list, origin>>

-----------------------------------------------------------------------------
(* manifestLinkCheck() *)

Less(s, t) ==
    \/ IsStrictPrefix(s, t)
    \/ \E k \in DOMAIN s \cap DOMAIN t : s[k] < t[k] /\ \A j \in 1..k - 1 : s[j] = t[j]
LessItem(a, b) == Less(a.path, b.path)

InList(path) == {i \in DOMAIN list : list[i].path = path}

\* As if the neighbours in the list were taken, whatever they are.
Neighbours(sorted, path) ==
    LET at == CHOOSE i \in DOMAIN sorted : sorted[i].path = path
    IN  {sorted[i] : i \in {at - 1, at + 1} \cap DOMAIN sorted}

\* The first path link before, and the first after the path: file links are passed over.
PathNeighbours(sorted, path) ==
    LET at == CHOOSE i \in DOMAIN sorted : sorted[i].path = path
        Near(i) == sorted[i].file = 0 /\ \A j \in (i + 1..at - 1) \union (at + 1..i - 1) : sorted[j].file # 0
    IN  {sorted[i] : i \in {j \in DOMAIN sorted : j # at /\ Near(j)}}

\* A link whose path is in the list may only be a file link beside the one that is there.
LinkCheckOne ==
    /\ pc = "check" /\ next <= Len(target)
    /\ LET t == target[next]
           item == [path |-> t.path, file |-> t.file]
           sorted == SortSeq(Append(list, item), LessItem)
           Nested(other) == IsPrefix(t.path, other.path) \/ IsPrefix(other.path, t.path)
       IN  \/ /\ IsPrefix(target[1].path, t.path)     \* in PGDATA
              /\ Goto("failed") /\ UNCHANGED list
           \/ /\ ~IsPrefix(target[1].path, t.path)
              /\ \E i \in InList(t.path) :
                    IF t.file # 0 /\ list[i].file # 0 /\ t.file # list[i].file
                    THEN next' = next + 1 /\ UNCHANGED <<pc, list>>
                    ELSE Goto("failed") /\ UNCHANGED list
           \/ /\ ~IsPrefix(target[1].path, t.path)
              /\ InList(t.path) = {}
              /\ IF t.file = 0 /\ \E n \in PathNeighbours(sorted, t.path) : Nested(n)
                 THEN Goto("failed") /\ UNCHANGED list
                 ELSE next' = next + 1 /\ list' = sorted /\ UNCHANGED pc
    /\ UNCHANGED <<target, link, opt, origin>>

LinkChecked ==
    /\ pc = "check" /\ next > Len(target)
    /\ Goto("done")
    /\ UNCHANGED <<target, link, opt, list, origin>>

Next == MapBase \/ MapTablespace \/ CheckTablespaces \/ MapLink \/ RemoveLinks \/ LinkCheckOne \/ LinkChecked

Spec == Init /\ [][Next]_vars

-----------------------------------------------------------------------------
LinkTargets == {t \in Range(target) : t.name # Base}
Tablespaces == {t \in LinkTargets : t.id # 0}

IsFile(name) == name \in Files \/ \E t \in Range(origin) : t.name = name /\ t.file # 0

\* Every mapping is honoured, and nothing else changes.
Honoured ==
    /\ target[1].path = opt.pgPath
    /\ \A k \in DOMAIN opt.tsMap : \E t \in Tablespaces : k \in {t.ts, t.id}
    /\ \A t \in Tablespaces : \A k \in {t.ts, t.id} \cap DOMAIN opt.tsMap : t.path = opt.tsMap[k]
    /\ \A t \in Tablespaces : {t.ts, t.id} \cap DOMAIN opt.tsMap = {} =>
          IF opt.tsAll # NoPath THEN t.path = Append(opt.tsAll, t.ts) ELSE t \in Range(origin)
    /\ \A n \in DOMAIN opt.linkMap : \E t \in LinkTargets \ Tablespaces :
          t.name = n /\ Destination(t) = opt.linkMap[n] /\ (t.file # 0 <=> IsFile(n))
    /\ {t \in LinkTargets \ Tablespaces : t.name \notin DOMAIN opt.linkMap} =
          {t \in Range(origin) : opt.linkAll /\ t.name # Base /\ t.id = 0 /\ t.name \notin DOMAIN opt.linkMap}
    /\ link = [n \in {t.name : t \in LinkTargets} |-> Destination(CHOOSE t \in LinkTargets : t.name = n)]

\* Two links lead to places of their own.  A file link may be below the path of another link, and file links
\* are compared with the first one that has their path only.
First(t) == \A u \in LinkTargets : u.file # 0 /\ u.path = t.path =>
               \E i, j \in DOMAIN target : target[i] = t /\ target[j] = u /\ i <= j
Separate(t, u) ==
    CASE t.file = 0 /\ u.file = 0  -> ~IsPrefix(t.path, u.path)
      [] t.file # 0 /\ u.file = 0  -> t.path # u.path
      [] t.file # 0 /\ u.file # 0  -> Destination(t) # Destination(u) \/ (~First(t) /\ ~First(u))
      [] OTHER                     -> TRUE

(* A restore that goes on puts the data directory, every tablespace and every link where it was told to, or
   where it was, links and targets agree, and no link leads into the data directory or to what another
   link leads to.  Code: restoreManifestMap() of command/restore/remap.c.inc, manifestLinkCheck() of
   info/manifest/link.c.inc. *)
RestoredWhereAsked ==
    pc = "done" =>
        /\ Honoured
        /\ \A t \in LinkTargets : ~IsPrefix(target[1].path, t.path)
        /\ \A t, u \in LinkTargets : t.name # u.name => Separate(t, u)

-----------------------------------------------------------------------------
(* Which databases are zeroed *)
selectVars == <<dbName, listed, inFiles, include, exclude, zero>>

Lists(n) == UNION {[1..k -> Words] : k \in 0..n}

SelectInit ==
    /\ dbName \in Namings /\ listed \in SUBSET Ids /\ inFiles \in SUBSET Ids
    /\ include \in Lists(MaxWords) /\ exclude \in Lists(MaxWords - Len(include))
    /\ Len(include) + Len(exclude) > 0
    /\ zero = [done |-> FALSE, error |-> FALSE, dbs |-> {}]

-----------------------------------------------------------------------------
\* pgDbIsSystem() and pgDbIsSystemId(); by id alone when only files are found.
System == {d \in listed : dbName[d] \in SystemNames \/ d < FirstNormal} \union {d \in inFiles : d < FirstNormal}
Databases == System \union inFiles

\* The id a word stands for while these ids are in the list: itself, or the one of that
\* name; 0 if there is none.
IdOf(dbList, word) ==
    IF word \in Range(dbList) THEN word
    ELSE LET named == {d \in listed : dbName[d] = word /\ d \in Range(dbList)}
         IN  IF named = {} THEN 0 ELSE CHOOSE d \in named : TRUE

SortedList(S) == SortSeq(SetToSeq(S), <)

\* strLstMergeAnti(): the items of a list that are not in anti, both sorted.  The next item
\* of anti is passed only when it matched or is smaller.
RECURSIVE MergeAnti(_, _)
MergeAnti(dbList, anti) ==
    IF dbList = <<>> THEN <<>>
    ELSE IF anti = <<>> \/ Head(dbList) < Head(anti) THEN <<Head(dbList)>> \o MergeAnti(Tail(dbList), anti)
    ELSE IF Head(dbList) = Head(anti) THEN MergeAnti(Tail(dbList), Tail(anti))
    ELSE MergeAnti(dbList, Tail(anti))

\* Included databases leave the list one after the other; <<0>> is an error.
RECURSIVE Included(_, _, _)
Included(dbList, words, excluded) ==
    IF words = <<>> THEN dbList
    ELSE LET d == IdOf(dbList, Head(words))
         IN  IF d = 0 \/ d \in System \/ d \in Range(excluded) THEN <<0>>
             ELSE Included(Remove(dbList, d), Tail(words), excluded)

\* As if the ids to exclude were not sorted.
ToZeroUnsorted(dbList, excluded) ==
    IF include = <<>> THEN excluded
    ELSE MergeAnti(dbList, MergeAnti(SortedList(System), excluded))

ToZero(dbList, excluded) ==
    IF include = <<>> THEN excluded
    ELSE MergeAnti(dbList, MergeAnti(SortedList(System), SortSeq(excluded, <)))

Failed == [done |-> TRUE, error |-> TRUE, dbs |-> {}]

RestoreSelective ==
    /\ ~zero.done
    /\ LET dbs == SortedList(Databases)
           excluded == [i \in DOMAIN exclude |-> IdOf(dbs, exclude[i])]
           dbList == Included(dbs, include, excluded)
       IN  zero' = IF dbs = <<>> \/ 0 \in Range(excluded) \/ dbList = <<0>> THEN Failed
                   ELSE [done |-> TRUE, error |-> FALSE, dbs |-> Range(ToZero(dbList, excluded))]
    /\ UNCHANGED <<dbName, listed, inFiles, include, exclude>>

SelectNext == RestoreSelective

SelectSpec == SelectInit /\ [][SelectNext]_selectVars
-----------------------------------------------------------------------------
(***************************************************************************)
(* Properties.                                                             *)
(***************************************************************************)
Means(word) == IF word \in Databases THEN {word} ELSE {d \in listed : dbName[d] = word}
MayMean(word) == {d \in Databases : d = word \/ (d \in listed /\ dbName[d] = word)}
Meant(words) == UNION {Means(w) : w \in Range(words)}

\* A restore that zeroes databases zeroes the excluded ones and never one that was
\* included; a system database, recreated or not, only when it was excluded; and when
\* something was included every other database that no word can mean
\* (command/restore/select.c.inc:224).
ZeroedIsAsked ==
    zero.done /\ ~zero.error =>
        /\ Meant(exclude) \subseteq zero.dbs
        /\ Meant(include) \intersect zero.dbs = {}
        /\ zero.dbs \intersect System \subseteq Meant(exclude)
        /\ include = <<>> => zero.dbs = Meant(exclude)
        /\ include # <<>> =>
            Databases \ (System \union UNION {MayMean(w) : w \in Range(include)}) \subseteq zero.dbs
=============================================================================
