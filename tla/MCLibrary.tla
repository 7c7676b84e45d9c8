----------------------------- MODULE MCLibrary ------------------------------
(***************************************************************************)
(* Restore, and the library below the commands.  The parts do not share    *)
(* state: a behaviour is one of a single part, and Parts says which are    *)
(* checked.                                                                *)
(***************************************************************************)
EXTENDS Restore, SequencesExt, TLC

CONSTANTS Parts, NoContext, NoValue, Procs

VARIABLES
    part,                                                            \* the part that runs
    phase, section, stanza, parse, seen, given, config,              \* Config
    driver, fs, data, stored, ops, proc, kept, always, never,        \* Storage
    tree, tree0, gone, match, order, recurse, itrStack, out, itrPc,  \* Storage, the iterator
    bytes, packW, log, rpos, packR, tagNext, nread, result,          \* PackJson: packs
    json, jsonW, wkey, jsonPos, jsonR, rkey, asked, answer,              \* PackJson: JSON
    ctx, memStack, cur, tries, block, error, memPc, twice,           \* MemContext
    encJob, encPc, encI, encText, encId, encBack, encSize,           \* Types: text
    lstCell, lstHead, lstSize, lstSorted, lstSeq, lstFound,          \* Types: lists
    bufMem, bufSize, bufLimit, bufUsed, bufData                      \* Types: buffers

configVars == <<phase, section, stanza, parse, seen, given, config>>
storageVars == <<driver, fs, data, stored, ops, proc, kept, always, never>>
itrVars == <<tree, tree0, gone, match, order, recurse, itrStack, out, itrPc>>
packVars == <<bytes, packW, log, rpos, packR, tagNext, nread, result>>
jsonVars == <<json, jsonW, wkey, jsonPos, jsonR, rkey, asked, answer>>
memVars == <<ctx, memStack, cur, tries, block, error, memPc, twice>>
encVars == <<encJob, encPc, encI, encText, encId, encBack, encSize>>
lstVars == <<lstCell, lstHead, lstSize, lstSorted, lstSeq, lstFound>>
bufVars == <<bufMem, bufSize, bufLimit, bufUsed, bufData>>
typeVars == <<encVars, lstVars, bufVars>>
libraryVars == <<configVars, storageVars, itrVars, packVars, jsonVars, memVars, typeVars>>

-----------------------------------------------------------------------------
(* Restore of two full backups of a cluster, the first one online.  The file f was extended between
   them, and h was created after both.  A third one has lost its pg_control. *)
MCBackups ==
    "b1" :> [copyStart |-> 3, online |-> TRUE, control |-> TRUE,
             file |-> "PG_VERSION" :> File(<<"x">>, 1) @@ "f" :> File(<<"x">>, 1)] @@
    "b2" :> [copyStart |-> 6, online |-> FALSE, control |-> TRUE,
             file |-> "PG_VERSION" :> File(<<"x">>, 1) @@ "f" :> File(<<"x", "y">>, 5)] @@
    "b3" :> [copyStart |-> 6, online |-> TRUE, control |-> FALSE, file |-> "PG_VERSION" :> File(<<"x">>, 1)]

\* The cluster as it is when it is restored: new, or stopped after the second backup.
Clusters == {<<>>, "PG_VERSION" :> File(<<"x">>, 1) @@ "f" :> File(<<"x", "y">>, 7) @@ "h" :> File(<<"x">>, 7)}

MCFiles == {"PG_VERSION", "f", "h"}
MCBlocks == {"x", "y"}

ASSUME RestoreConstants == RestoreAssumption

(* Options of one command, two keys for each group. *)
option == [group |-> "none", type |-> "string", section |-> "global", secure |-> FALSE, valid |-> TRUE,
           required |-> FALSE, default |-> NoValue, depend |-> NoValue, dependIn |-> {},
           dependDefault |-> NoValue, negate |-> FALSE, reset |-> TRUE, allow |-> {}]

Rules ==
    "repo-type" :> [option EXCEPT !.group = "repo", !.default = "posix", !.allow = {"posix", "s3"}]
    @@ "repo-path" :> [option EXCEPT !.group = "repo", !.default = "/a", !.allow = {"/a", "/b"}]
    @@ "repo-s3-bucket" :> [option EXCEPT !.group = "repo", !.required = TRUE, !.depend = "repo-type",
                                          !.dependIn = {"s3"}, !.allow = {"b"}]
    @@ "pg-host" :> [option EXCEPT !.group = "pg", !.section = "stanza", !.allow = {"h"}]
    @@ "repo" :> [option EXCEPT !.section = "cmd", !.reset = FALSE, !.allow = {"2"}]
    @@ "online" :> [option EXCEPT !.type = "bool", !.default = "y", !.negate = TRUE, !.allow = {"y", "n"}]
    @@ "db-include" :> [option EXCEPT !.type = "list", !.allow = {"d"}]
    @@ "target" :> [option EXCEPT !.section = "cmd", !.valid = FALSE, !.negate = TRUE, !.allow = {"t"}]
    @@ "cipher-pass" :> [option EXCEPT !.secure = TRUE, !.depend = "online", !.dependIn = {"y"},
                                       !.dependDefault = "none", !.allow = {"p"}]

Order == <<"repo-type", "repo-path", "repo-s3-bucket", "pg-host", "repo", "online",
           "db-include", "target", "cipher-pass">>

Con == INSTANCE Config WITH Rule <- Rules, ResolveOrder <- Order, KeyMax <- 2, Bad <- "?", MaxSettings <- 2

(* The iterator goes through trees of two levels. *)
Below(a) ==
    LET kids(f) == {[name |-> <<a, b>>, path |-> f[b] = "path"] : b \in {b \in {1, 2} : f[b] # "none"}}
    IN {{}} \union {{[name |-> <<a>>, path |-> FALSE]}}
       \union {{[name |-> <<a>>, path |-> TRUE]} \union kids(f) : f \in [{1, 2} -> {"none", "file", "path"}]}
PathNames == {<<1>>, <<2>>, <<1, 1>>, <<1, 2>>, <<2, 1>>, <<2, 2>>}

(* The drivers have one file in a path in a path. *)
Sto == INSTANCE Storage WITH
    Dirs <- {"a", "b"}, Files <- {"f"}, Parent <- [a |-> "/", b |-> "a", f |-> "b"], Base <- "/",
    Tmp <- [f |-> "f.tmp"], MaxVersion <- 3, MaxOps <- 2, Driver <- {"posix", "sftp"}, disk <- stored,
    Trees <- {s \union t : s \in Below(1), t \in Below(2)},
    Expressions <- {PathNames, {n \in PathNames : Len(n) = 2}} \union {PathNames \ {n} : n \in PathNames},
    Orders <- {"none", "asc", "desc"}, stack <- itrStack

Pck == INSTANCE PackJson WITH
    Numbers <- {0, 1, 200}, Gaps <- {9}, MaxFields <- 3, wstack <- packW, rstack <- packR,
    Keys <- {<<1>>, <<2>>, <<2, 1>>}, MaxTokens <- 10, jsonWriteStack <- jsonW, jsonReadStack <- jsonR

Mem == INSTANCE MemContext WITH
    Contexts <- {1, 2, 3}, MaxTry <- 3, MaxBlock <- 3, MaxList <- 3, InitialSize <- 1, None <- NoContext,
    stack <- memStack, pc <- memPc

(* Bytes at the edges of the groups of bits; every size of a name, with a sequence in the header and behind it. *)
ByteStrings == BoundedSeq({0, 5, 127, 128, 255}, 4)
Texts64 ==
    BoundedSeq({0, 37, 63, 64, 65}, 4)
    \union {t \o <<64, 64>> : t \in {<<1, 2, 3, 4, 5, 6>>, <<1, 2, 64, 64, 5, 6>>, <<1, 2, 3, 64, 5, 6>>}}
NameTexts == {[k \in 1..n |-> IF k = n THEN b ELSE a] : n \in {1, 2, 9, 10, 11, 12, 13}, a, b \in {1, 26, 27, 28, 30, 34, 63, 0}}
Job(kind, value, seq) == [kind |-> kind, data |-> value, seq |-> seq]
HighFits(name) == Len(name) < IF \A k \in DOMAIN name : name[k] \in 1..27 \union {30, 34} THEN 12 ELSE 10

EncodeJobs ==
    {Job(kind, d, -1) : kind \in {"base64", "base64url", "hex"}, d \in ByteStrings}
    \union {Job("text64", d, -1) : d \in Texts64}
    \union {Job("textHex", d, -1) : d \in BoundedSeq({0, 9, 15, 21, 65}, 3)}
    \union {Job("name", d, s) : d \in NameTexts, s \in {-1, 0, 5}}
    \union {Job("name", d, s) : d \in {n \in NameTexts : HighFits(n)}, s \in {6, 37}}

Typ == INSTANCE Types WITH
    Jobs <- EncodeJobs,
    job <- encJob, pc <- encPc, i <- encI, text <- encText, id <- encId, back <- encBack, decodeSize <- encSize,
    Items <- {1, 2, 3}, InitialSize <- 2, Values <- {1, 2}, MaxSize <- 4, Garbage <- 9,
    cell <- lstCell, head <- lstHead, size <- lstSize, sorted <- lstSorted, seq <- lstSeq, found <- lstFound,
    mem <- bufMem, limit <- bufLimit, used <- bufUsed, data <- bufData

\* Processes and workers are alike.
Symmetry == Permutations(Procs) \union Permutations(Workers)

-----------------------------------------------------------------------------
Off(v) == v = "off"

MCInit ==
    /\ part \in Parts
    /\ Init /\ (part = "restore" \/ Empty)
    /\ IF part = "config" THEN Con!Init
       ELSE Off(phase) /\ Off(section) /\ Off(stanza) /\ Off(parse) /\ Off(seen) /\ Off(given) /\ Off(config)
    /\ IF part = "storage" THEN Sto!Init
       ELSE Off(driver) /\ Off(fs) /\ Off(data) /\ Off(stored) /\ Off(ops) /\ Off(proc) /\ Off(kept) /\ Off(always) /\ Off(never)
    /\ IF part = "iterator" THEN Sto!ItrInit
       ELSE Off(tree) /\ Off(tree0) /\ Off(gone) /\ Off(match) /\ Off(order) /\ Off(recurse) /\ Off(itrStack) /\ Off(out) /\ Off(itrPc)
    /\ IF part = "pack" THEN Pck!PackInit
       ELSE Off(bytes) /\ Off(packW) /\ Off(log) /\ Off(rpos) /\ Off(packR) /\ Off(tagNext) /\ Off(nread) /\ Off(result)
    /\ IF part = "json" THEN Pck!JsonInit
       ELSE Off(json) /\ Off(jsonW) /\ Off(wkey) /\ Off(jsonPos) /\ Off(jsonR) /\ Off(rkey) /\ Off(asked) /\ Off(answer)
    /\ IF part = "memory" THEN Mem!Init
       ELSE Off(ctx) /\ Off(memStack) /\ Off(cur) /\ Off(tries) /\ Off(block) /\ Off(error) /\ Off(memPc) /\ Off(twice)
    /\ IF part = "encode" THEN Typ!EncodeInit
       ELSE Off(encJob) /\ Off(encPc) /\ Off(encI) /\ Off(encText) /\ Off(encId) /\ Off(encBack) /\ Off(encSize)
    /\ IF part = "list" THEN Typ!ListInit
       ELSE Off(lstCell) /\ Off(lstHead) /\ Off(lstSize) /\ Off(lstSorted) /\ Off(lstSeq) /\ Off(lstFound)
    /\ IF part = "buffer" THEN Typ!BufInit ELSE Off(bufMem) /\ Off(bufSize) /\ Off(bufLimit) /\ Off(bufUsed) /\ Off(bufData)

LibraryNext ==
    \/ part = "config" /\ Con!Next /\ UNCHANGED <<storageVars, itrVars, packVars, jsonVars, memVars, typeVars>>
    \/ part = "storage" /\ Sto!Next /\ UNCHANGED <<configVars, itrVars, packVars, jsonVars, memVars, typeVars>>
    \/ part = "iterator" /\ Sto!ItrNext /\ UNCHANGED <<configVars, storageVars, packVars, jsonVars, memVars, typeVars>>
    \/ part = "pack" /\ Pck!PackNext /\ UNCHANGED <<configVars, storageVars, itrVars, jsonVars, memVars, typeVars>>
    \/ part = "json" /\ Pck!JsonNext /\ UNCHANGED <<configVars, storageVars, itrVars, packVars, memVars, typeVars>>
    \/ part = "memory" /\ Mem!Next /\ UNCHANGED <<configVars, storageVars, itrVars, packVars, jsonVars, typeVars>>
    \/ /\ UNCHANGED <<configVars, storageVars, itrVars, packVars, jsonVars, memVars>>
       /\ \/ part = "encode" /\ Typ!EncodeNext /\ UNCHANGED <<lstVars, bufVars>>
          \/ part = "list" /\ Typ!ListNext /\ UNCHANGED <<encVars, bufVars>>
          \/ part = "buffer" /\ Typ!BufNext /\ UNCHANGED <<encVars, lstVars>>

MCNext ==
    /\ UNCHANGED part
    /\ \/ part = "restore" /\ Next /\ UNCHANGED libraryVars
       \/ LibraryNext /\ UNCHANGED vars

MCSpec == MCInit /\ [][MCNext]_<<part, vars, libraryVars>>

-----------------------------------------------------------------------------
(* The properties of the parts, each defined and explained in its module. *)

\* Every option has the value of the strongest place that set it (parse.c, cfgParse).
PrecedenceHolds == part = "config" => Con!PrecedenceHolds

\* A file is absent or complete for its readers (storage/posix/write.c, storage/sftp/write.c), and with
\* posix it survives a crash of the host once its write has returned.
FilesAreWhole == part = "storage" => Sto!FilesAreWhole

\* What reading, creating and removing say was true of the tree at some time during the call, and those who
\* create the same paths do not fail for it (posix/storage.c, sftp/storage.c).
AnswerIsTrue == part = "storage" => Sto!AnswerIsTrue

\* The iterator gives every entry that matches once and in order (storage/iterator.c).
ItrIsExact == part = "iterator" => Sto!ItrIsExact

\* The reader of a pack gets the fields that were written, by id (pack.c); what was encoded comes back
\* (encode.c, stringId.c); lists and buffers hold what was put into them (list.c, buffer.c).  Each module says
\* where that ends: the empty text in base64, a list cleared after its start has moved, a buffer filled
\* past its limit.
ValuesAreExact ==
    /\ part = "pack" => Pck!PackIsExact
    /\ part = "encode" => Typ!EncodingIsExact
    /\ part = "list" => Typ!ListIsExact
    /\ part = "buffer" => Typ!BufferIsExact

\* jsonReadKeyExpect() finds the keys that are there, and only those, unless an earlier key is the
\* beginning of the one asked for (json.c:647).
KeysAreFound == part = "json" => Pck!KeysAreFound

\* After an error the current memory context is that of the TRY block (memContext.c).
ErrorRestores == part = "memory" => Mem!ErrorRestores

\* Contexts are freed exactly once: none is abandoned by an error, and none is freed again but one that a
\* destructor left on the stack when it threw (memContext.c:1090, 1206).
FreedExactlyOnce == part = "memory" => Mem!FreedExactlyOnce
=============================================================================
