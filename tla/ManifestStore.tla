---------------------------- MODULE ManifestStore ----------------------------
(***************************************************************************)
(* How a manifest keeps what it is told (info/manifest/store.c.inc and     *)
(* serialize.c.inc).  In memory a file is a pack: flags, and the values    *)
(* the flags say are there, one after the other; an owner or a mode that   *)
(* is the default of the manifest is not in the pack, and is looked up     *)
(* when the pack is read, which may be after the default has changed: a    *)
(* manifest that is loaded gets its files before it gets its defaults.  In *)
(* the repository a file is a JSON object whose keys are in order, without *)
(* the ones that have the value the reader assumes.                        *)
(*                                                                         *)
(* The manifest has one path next to the base path, one link with its      *)
(* target, and two files, of which the first gives the base time of all    *)
(* packs.  Names, labels and checksums are strings; modes are sets of      *)
(* bits.                                                                   *)
(***************************************************************************)
EXTENDS Naturals, Integers, FiniteSets, Sequences, SequencesExt

CONSTANTS
    Bases,          \* the base paths to try: [user, group, mode]
    Samples,        \* the manifests to build: [files, path, link, target, refs, data], and the steps to take
    Updates         \* the results of jobs: partial file records

VARIABLES
    manifest,       \* the manifest in memory, or NoManifest
    baseTime,       \* manifestPackBaseTime, -1 until the first pack
    saved,          \* the file in the repository, or NoManifest
    wanted,         \* what the caller stored: [memory |-> .., saved |-> ..]
    steps           \* operations left

vars == <<manifest, baseTime, saved, wanted, steps>>

NoManifest == <<>>
Null == "null"
ZeroSum == "zero"               \* HASH_TYPE_SHA1_ZERO_BUF
MapMin == 6                     \* BLOCK_INCR_CHECKSUM_SIZE_MIN
Factor == 8192                  \* BLOCK_INCR_SIZE_FACTOR
NoMode == {"invalid"}           \* (mode_t)-1

\* What the default mode of a file takes from the mode of the base path.
FileMode(mode) == mode \intersect {"ur", "uw", "gr"}

-----------------------------------------------------------------------------
(* The pack of a file. *)

PackOrder ==
    <<"size", "sizeOriginal", "timestamp", "sum", "sumRepo", "reference", "mode", "user", "group", "sizeRepo",
      "bundleId", "bundleOffset", "blockSize", "blockSum", "blockMap", "pageErrorList">>

UnpackOrder == PackOrder

ZigZag(n) == IF n >= 0 THEN 2 * n ELSE -2 * n - 1

UnZigZag(z) == IF z % 2 = 0 THEN z \div 2 ELSE -((z + 1) \div 2)

NullFlag == [user |-> "userNull", group |-> "groupNull"]

\* The flags of a file: a flag has the name of the first field it speaks of.
Flags(file, default) ==
    {k \in {"sum", "sumRepo", "reference", "pageErrorList"} : file[k] # Null}
    \union {k \in {"copy", "delta", "resume", "page", "pageError"} : file[k]}
    \union {k \in {"bundleId", "blockSize"} : file[k] # 0}
    \union {k \in {"sizeOriginal"} : file.sizeOriginal # file.size}
    \union {k \in {"mode"} : file.mode # default.mode}
    \union {k \in {"user", "group"} : file[k] # Null /\ file[k] # default[k]}
    \union {NullFlag[k] : k \in {o \in {"user", "group"} : file[o] = Null}}

\* Whether the pack has a value for a field.
InPack(flags, k) ==
    CASE k \in {"size", "timestamp", "sizeRepo"} -> TRUE
      [] k = "bundleOffset" -> "bundleId" \in flags
      [] k \in {"blockSum", "blockMap"} -> "blockSize" \in flags
      [] OTHER -> k \in flags

PackedValue(file, refs, base, k) ==
    CASE k = "timestamp" -> ZigZag(base - file.timestamp)
      [] k = "reference" -> CHOOSE i \in 1..Len(refs) : refs[i] = file.reference     \* required
      [] k = "blockSize" -> file.blockSize \div Factor
      [] OTHER -> file[k]

\* manifestFilePack(): base is the base time, which is the time of this file if there was none.
Pack(file, default, refs, base) ==
    LET flags == Flags(file, default)
        order == SelectSeq(PackOrder, LAMBDA k : InPack(flags, k))
    IN  [flags |-> flags, values |-> [i \in 1..Len(order) |-> PackedValue(file, refs, base, order[i])]]

\* manifestFileUnpack(): the values are read one after the other.
Unpack(pack, default, refs, base) ==
    LET order == SelectSeq(UnpackOrder, LAMBDA k : InPack(pack.flags, k))
        Has(k) == InPack(pack.flags, k)
        Read(k) == pack.values[CHOOSE i \in 1..Len(order) : order[i] = k]
        ReadOr(k, other) == IF Has(k) THEN Read(k) ELSE other
        Owner(k) == IF Has(k) THEN Read(k) ELSE IF NullFlag[k] \in pack.flags THEN Null ELSE default[k]
    IN  [size |-> Read("size"), sizeOriginal |-> ReadOr("sizeOriginal", Read("size")),
         timestamp |-> base - UnZigZag(Read("timestamp")),
         sum |-> ReadOr("sum", Null), sumRepo |-> ReadOr("sumRepo", Null),
         reference |-> IF Has("reference") THEN refs[Read("reference")] ELSE Null,
         mode |-> ReadOr("mode", default.mode), user |-> Owner("user"), group |-> Owner("group"),
         sizeRepo |-> Read("sizeRepo"), bundleId |-> ReadOr("bundleId", 0), bundleOffset |-> ReadOr("bundleOffset", 0),
         blockSize |-> IF Has("blockSize") THEN Read("blockSize") * Factor ELSE 0,
         blockSum |-> ReadOr("blockSum", 0), blockMap |-> ReadOr("blockMap", 0),
         copy |-> "copy" \in pack.flags, delta |-> "delta" \in pack.flags, resume |-> "resume" \in pack.flags,
         page |-> "page" \in pack.flags, pageError |-> "pageError" \in pack.flags,
         pageErrorList |-> ReadOr("pageErrorList", Null)]

\* The files of a manifest as a caller reads them.
FileOf(m, i) == Unpack(m.files[i], m.default, m.refs, baseTime)

-----------------------------------------------------------------------------
(* What is saved. *)

\* manifestOwnerVar() and manifestOwnerGet(): an owner without a name is false.
OwnerVar(owner) == IF owner = Null THEN "false" ELSE owner
OwnerGet(var) == IF var = "false" THEN Null ELSE var

FileKeys ==
    {"blockSize", "blockSum", "blockMap", "bundleId", "bundleOffset", "sum", "page", "pageErrorList", "group",
     "mode", "sumRepo", "reference", "sizeRepo", "size", "sizeOriginal", "timestamp", "user"}

\* The defaults of a save, all from the base path.
SaveDefault(base) == [user |-> base.user, group |-> base.group, mode |-> FileMode(base.mode), pathMode |-> base.mode]

IsSaved(file, default, k) ==
    CASE k \in {"size", "timestamp"} -> TRUE
      [] k \in {"blockSize", "bundleId"} -> file[k] # 0
      [] k = "blockSum" -> file.blockSize # 0 /\ file.blockSum # MapMin
      [] k = "blockMap" -> file.blockSize # 0 /\ file.blockMap # 0
      [] k = "bundleOffset" -> file.bundleId # 0 /\ file.bundleOffset # 0
      [] k = "sum" -> file.size # 0 /\ file.sum # Null
      [] k = "page" -> file.page
      [] k = "pageErrorList" -> file.page /\ file.pageErrorList # Null
      [] k \in {"user", "group"} -> OwnerVar(file[k]) # OwnerVar(default[k])
      [] k = "mode" -> file.mode # default.mode
      [] k \in {"sumRepo", "reference"} -> file[k] # Null
      [] k \in {"sizeRepo", "sizeOriginal"} -> file[k] # file.size

SavedValue(file, k) ==
    CASE k = "blockSize" -> file.blockSize \div Factor
      [] k = "page" -> ~file.pageError
      [] k \in {"user", "group"} -> OwnerVar(file[k])
      [] OTHER -> file[k]

FileSave(file, default) == [k \in {k \in FileKeys : IsSaved(file, default, k)} |-> SavedValue(file, k)]

\* jsonReadKeyExpect(): writer and reader have the keys in the order of their names.
Found(json, k) == k \in DOMAIN json

\* One file of section target:file, with the defaults the manifest has at that point.
FileLoad(json, default) ==
    LET Value(k, other) == IF Found(json, k) THEN json[k] ELSE other
        Owner(k) == IF Found(json, k) THEN OwnerGet(json[k]) ELSE default[k]
        block == Found(json, "blockSize")
        bundle == Found(json, "bundleId")
        page == Found(json, "page")
    IN  [blockSize |-> IF block THEN json.blockSize * Factor ELSE 0,
         blockSum |-> IF block THEN Value("blockSum", MapMin) ELSE 0,
         blockMap |-> IF block THEN Value("blockMap", 0) ELSE 0,
         bundleId |-> Value("bundleId", 0), bundleOffset |-> IF bundle THEN Value("bundleOffset", 0) ELSE 0,
         sum |-> IF json.size = 0 THEN ZeroSum ELSE Value("sum", Null),
         page |-> page, pageError |-> page /\ ~json.page,
         pageErrorList |-> IF page THEN Value("pageErrorList", Null) ELSE Null,
         group |-> Owner("group"), mode |-> Value("mode", default.mode), user |-> Owner("user"),
         sumRepo |-> Value("sumRepo", Null), reference |-> Value("reference", Null),
         sizeRepo |-> Value("sizeRepo", json.size), size |-> json.size,
         sizeOriginal |-> Value("sizeOriginal", json.size), timestamp |-> json.timestamp,
         copy |-> FALSE, delta |-> FALSE, resume |-> FALSE]

\* Paths and links: what differs from the default, by key.
OwnerSave(item, default) ==
    [k \in {o \in {"user", "group"} : OwnerVar(item[o]) # OwnerVar(default[o])} |-> OwnerVar(item[k])]

PathSave(path, default) ==
    [owner |-> OwnerSave(path, default), mode |-> IF path.mode = default.pathMode THEN {} ELSE {path.mode}]

LinkSave(link, default) == [destination |-> link.destination, owner |-> OwnerSave(link, default)]

\* The owner the found list does not have is the default of the section.
OwnerLoad(owner, default, k) == IF k \in DOMAIN owner THEN OwnerGet(owner[k]) ELSE OwnerGet(default[k])

PathLoad(json, default) ==
    [user |-> OwnerLoad(json.owner, default, "user"), group |-> OwnerLoad(json.owner, default, "group"),
     mode |-> IF json.mode = {} THEN default.mode ELSE CHOOSE mode \in json.mode : TRUE]

LinkLoad(json, default) ==
    [destination |-> json.destination,
     user |-> OwnerLoad(json.owner, default, "user"), group |-> OwnerLoad(json.owner, default, "group")]

\* A target: the keys that may be missing are the file, and the id and name of a tablespace.
TargetSave(target) ==
    [k \in {"path", "type"} \union {f \in {"file", "tablespaceName"} : target[f] # Null}
           \union {f \in {"tablespaceId"} : target.tablespaceId # "0"} |-> target[k]]

TargetLoad(json) ==
    [path |-> json.path, type |-> json.type, file |-> IF "file" \in DOMAIN json THEN json.file ELSE Null,
     tablespaceId |-> IF "tablespaceId" \in DOMAIN json THEN json.tablespaceId ELSE "0",
     tablespaceName |-> IF "tablespaceId" \in DOMAIN json THEN json.tablespaceName ELSE Null]

\* Sections backup and backup:option: what is NULL or false is left out; compression is a bool and a type.
BackupSave(data) ==
    [strings |-> [k \in {o \in DOMAIN data.strings : data.strings[o] # Null} |-> data.strings[k]],
     bools |-> {k \in DOMAIN data.bools : data.bools[k]}]

OptionSave(data) ==
    [compress |-> data.compressType # "none", compressType |-> {data.compressType},
     variants |-> [k \in {o \in DOMAIN data.variants : data.variants[o] # Null} |-> data.variants[k]]]

\* Before 2.42 there was no reference list, and before that only gz.
DataLoad(backup, option, data) ==
    [strings |-> [k \in DOMAIN data.strings |-> IF k \in DOMAIN backup.strings THEN backup.strings[k] ELSE Null],
     bools |-> [k \in DOMAIN data.bools |-> k \in backup.bools],
     compressType |-> IF option.compressType # {} THEN CHOOSE t \in option.compressType : TRUE
                      ELSE IF option.compress THEN "gz" ELSE "none",
     variants |-> [k \in DOMAIN data.variants |-> IF k \in DOMAIN option.variants THEN option.variants[k] ELSE Null]]

AddIfMissing(list, item) == IF item \in Range(list) THEN list ELSE Append(list, item)

\* manifestOwnerVar() of the defaults, in the sections target:file:default, target:path:default and target:link:default.
DefaultSave(default, mode) == [user |-> OwnerVar(default.user), group |-> OwnerVar(default.group), mode |-> mode]

\* manifestSave(), with and without what older versions did not write.
ManifestSave(m, legacy) ==
    LET default == SaveDefault(m.base)
    IN  [backup |-> BackupSave(m.data),
         option |-> IF legacy THEN [OptionSave(m.data) EXCEPT !.compressType = {}] ELSE OptionSave(m.data),
         refs |-> IF legacy THEN <<>> ELSE <<m.refs>>,
         target |-> TargetSave(m.target), link |-> LinkSave(m.link, default),
         files |-> [i \in DOMAIN m.files |-> FileSave(FileOf(m, i), default)],
         base |-> PathSave(m.base, default), path |-> PathSave(m.path, default),
         fileDefault |-> DefaultSave(default, default.mode), pathDefault |-> DefaultSave(default, default.pathMode)]

PlaceholderNull == [user |-> Null, group |-> Null, mode |-> {"ur", "uw"}]

\* The defaults until section target:file:default is read: not valid for actual names or modes.
Placeholder == [user |-> "@", group |-> "@", mode |-> NoMode]

\* manifestNewLoad(): sections are in the order of their names, so target:file comes before its defaults.
ManifestLoad(s, data, base) ==
    LET loaded == [i \in DOMAIN s.files |-> FileLoad(s.files[i], Placeholder)]
        referenced == SelectSeq([i \in 1..Len(s.files) |-> loaded[i].reference], LAMBDA r : r # Null)
        refs == IF s.refs # <<>> THEN s.refs[1]
                ELSE AddIfMissing(FoldLeft(AddIfMissing, <<>>, referenced), s.backup.strings.label)
        default == [user |-> OwnerGet(s.fileDefault.user), group |-> OwnerGet(s.fileDefault.group),
                    mode |-> s.fileDefault.mode]
    IN  [data |-> DataLoad(s.backup, s.option, data), refs |-> refs,
         target |-> TargetLoad(s.target), link |-> LinkLoad(s.link, s.pathDefault),
         base |-> PathLoad(s.base, s.pathDefault), path |-> PathLoad(s.path, s.pathDefault),
         default |-> default,
         files |-> [i \in DOMAIN s.files |-> Pack(loaded[i], Placeholder, refs, base)]]

-----------------------------------------------------------------------------
Init ==
    /\ manifest = NoManifest
    /\ baseTime = -1
    /\ saved = NoManifest
    /\ wanted = [memory |-> NoManifest, saved |-> NoManifest]
    /\ steps = 0

\* What a caller stored, and what of it survives a save: copy, delta and resume are of the backup that
\* runs, and a file of size zero has the checksum of nothing.
Content(m, files) ==
    [files |-> files, base |-> m.base, path |-> m.path, link |-> m.link, target |-> m.target, data |-> m.data,
     refs |-> Range(m.refs)]

Persisted(content) ==
    [content EXCEPT !.files = [i \in DOMAIN @ |-> [@[i] EXCEPT
        !.copy = FALSE, !.delta = FALSE, !.resume = FALSE, !.sum = IF content.files[i].size = 0 THEN ZeroSum ELSE @]]]

\* manifestNewBuild(): the base path gives the defaults, then the rest is added.
Build(base, sample) ==
    /\ manifest = NoManifest /\ saved = NoManifest
    /\ LET default == [user |-> base.user, group |-> base.group, mode |-> FileMode(base.mode)]
           time == sample.files[1].timestamp
           new == [base |-> base, path |-> sample.path, link |-> sample.link, target |-> sample.target,
                   data |-> sample.data, refs |-> sample.refs, default |-> default,
                   files |-> [i \in DOMAIN sample.files |-> Pack(sample.files[i], default, sample.refs, time)]]
       IN  /\ manifest' = new
           /\ baseTime' = time
           /\ wanted' = [wanted EXCEPT !.memory = Content(new, sample.files)]
    /\ steps' = sample.steps
    /\ UNCHANGED saved

Step == steps > 0 /\ steps' = steps - 1

\* manifestFileUpdate(): the file is read, changed and packed again.
FileUpdate(update) ==
    /\ Step
    /\ \E i \in DOMAIN manifest.files :
           \E file \in {update @@ FileOf(manifest, i)} :
               /\ manifest' = [manifest EXCEPT !.files[i] = Pack(file, manifest.default, manifest.refs, baseTime)]
               /\ wanted' = [wanted EXCEPT !.memory.files[i] = update @@ @]
    /\ UNCHANGED <<baseTime, saved>>

\* manifestFileRemove()
FileRemove ==
    /\ Step
    /\ Len(manifest.files) > 1
    /\ manifest' = [manifest EXCEPT !.files = <<@[2]>>]
    /\ wanted' = [wanted EXCEPT !.memory.files = <<@[2]>>]
    /\ UNCHANGED <<baseTime, saved>>

\* manifestLinkUpdate() and manifestTargetUpdate(), as the remapping of a restore calls them.
LinkUpdate(destination) ==
    /\ Step
    /\ manifest.link.destination # destination
    /\ manifest' = [manifest EXCEPT !.link.destination = destination, !.target.path = destination]
    /\ wanted' = [wanted EXCEPT !.memory.link.destination = destination, !.memory.target.path = destination]
    /\ UNCHANGED <<baseTime, saved>>

Save(legacy) ==
    /\ Step
    /\ legacy => manifest.data.compressType \in {"none", "gz"}
    /\ saved' = ManifestSave(manifest, legacy)
    /\ wanted' = [wanted EXCEPT !.saved =
                      [Persisted(wanted.memory) EXCEPT !.refs =
                          IF legacy THEN ({f.reference : f \in Range(wanted.memory.files)} \ {Null})
                                         \union {manifest.data.strings.label}
                          ELSE @]]
    /\ UNCHANGED <<manifest, baseTime>>

\* A command that loads the manifest: another process has no base time until it packs a file.
Load(restarted) ==
    /\ Step
    /\ saved # NoManifest
    /\ LET base == IF restarted \/ baseTime = -1 THEN saved.files[1].timestamp ELSE baseTime
       IN  baseTime' = base /\ manifest' = ManifestLoad(saved, manifest.data, base)
    /\ wanted' = [wanted EXCEPT !.memory = wanted.saved]
    /\ UNCHANGED saved

Next ==
    \/ \E base \in Bases, sample \in Samples : Build(base, sample)
    \/ \E update \in Updates : FileUpdate(update)
    \/ FileRemove
    \/ LinkUpdate("/new")
    \/ \E legacy \in BOOLEAN : Save(legacy)
    \/ \E restarted \in BOOLEAN : Load(restarted)

Spec == Init /\ [][Next]_vars

-----------------------------------------------------------------------------
(* A manifest gives back what was stored in it, in memory and after it was saved and loaded, with the
   defaults of the base path, by this version or an older one.  Code: manifestFilePack(),
   manifestFileUnpack(), manifestSaveCallback() and manifestLoadCallback(). *)
ManifestIsKept ==
    manifest # NoManifest => Content(manifest, [i \in DOMAIN manifest.files |-> FileOf(manifest, i)]) = wanted.memory

=============================================================================
