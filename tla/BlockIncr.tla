----------------------------- MODULE BlockIncr ------------------------------
(***************************************************************************)
(* Block incremental backup of one file: the filter that stores the blocks *)
(* that changed in super blocks, the map that says where each block is     *)
(* kept, and the delta with which restore brings a file up to date.        *)
(*                                                                         *)
(* A file is a sequence of cells.  A cell is the number of the backup      *)
(* before which it was last written, and a checksum is the block itself:   *)
(* two blocks with one checksum are not considered.  A stored super block  *)
(* is a sequence of units of the length it has after compression.          *)
(***************************************************************************)
EXTENDS Integers, Sequences, FiniteSets

CONSTANTS
    BlockSize,   \* cells of a block
    SuperSize,   \* super block size as configured
    Lengths,     \* lengths a file may have
    MaxBackups,  \* backups of a run
    Buffers,     \* <<input, output>> buffer sizes
    Bundles      \* where the backups of a run store the file: a bundle id for each, 0 for none

Absent == -1

VARIABLES
    file,     \* the file in PostgreSQL
    manifest, \* the file in the manifest of each backup: [ref, offset, size, file]
    repo,     \* repo[n]: what backup n stored of the file, <<>> if nothing
    bundle,   \* bundle[n]: the bundle in which backup n stores the file
    filter,   \* the filter of the backup that runs
    pos,      \* cells of the file that were handed to the filter
    out,      \* output buffer
    buffers,  \* the sizes of the input and output buffer
    pc,       \* "idle", "filter" or "restored"
    pg        \* what restore made of a file it found

vars == <<file, manifest, repo, bundle, filter, pos, out, buffers, pc, pg>>

Least(a, b) == IF a < b THEN a ELSE b
Flag(b, bit) == IF b THEN bit ELSE 0
Has(n, bit) == (n \div bit) % 2 = 1
Opt(b, seq) == IF b THEN seq ELSE <<>>
Blocks(size) == size \div BlockSize + Flag(size % BlockSize # 0, 1)
BlockAt(f, i) == SubSeq(f, i * BlockSize + 1, Least((i + 1) * BlockSize, Len(f)))
Last(s) == s[Len(s)]

(***************************************************************************)
(* The block map.  It is written as numbers and checksums, by runs of      *)
(* blocks with one reference and, within them, with one super block.       *)
(***************************************************************************)
Num(n) == [n |-> n, sum |-> <<>>]
Sum(c) == [n |-> Absent, sum |-> c]
\* cvtInt64ToZigZag(), cvtInt64FromZigZag()
ZigZag(n) == IF n >= 0 THEN 2 * n ELSE -2 * n - 1
FromZigZag(n) == IF n % 2 = 0 THEN n \div 2 ELSE -((n + 1) \div 2)

\* The first place from i on, up to j, where the items differ in `same'.
RunEnd(map, i, j, same(_, _)) ==
    CHOOSE e \in (i + 1)..j : (e = j \/ ~same(map[i], map[e])) /\ \A k \in (i + 1)..(e - 1) : same(map[i], map[k])
SameReference(a, b) == a.ref = b.ref
SameSuper(a, b) == a.offset = b.offset

\* The super blocks from s up to j, d being what is known of the reference and last the
\* last stored size.  A continued reference is written with its first super block.
\* Mutant: a block number that is not the next one is only written where a reference begins.
GapContinued(cont, gap) == cont = Absent /\ gap # 0
Gap(cont, gap) == gap # 0

RECURSIVE WriteSupers(_, _, _, _, _, _)
WriteSupers(map, s, j, d, last, cont) ==
    IF s = j THEN [out |-> <<>>, d |-> d, last |-> last]
    ELSE
    LET super == map[s]
        e == RunEnd(map, s, j, SameSuper)
        total == e - s
        part == cont # Absent \/ super.block # 0 \/ total # Blocks(super.super)
        change == super.super # d.super
        known == IF cont # Absent THEN d
                 ELSE [d EXCEPT !.offset = super.offset, !.size = super.size, !.block = 0, !.super = super.super]
        gap == Gap(cont, super.block - known.block)
        size == IF last = 0 THEN super.size ELSE ZigZag(super.size - last)
        head == IF cont # Absent THEN <<Num(cont + Flag(e = j, 4))>>
                ELSE <<Num(Flag(e = j, 1) + Flag(change, 2) + Flag(part, 4) + 8 * size)>>
                     \o Opt(change, <<Num(2 * (super.super \div BlockSize) + Flag(super.super % BlockSize # 0, 1))>>)
                     \o Opt(change /\ super.super % BlockSize # 0, <<Num(super.super % BlockSize)>>)
        count == Opt(part, <<Num(2 * (total - 1) + Flag(gap, 1))>>) \o Opt(part /\ gap, <<Num(super.block - known.block)>>)
        next == [known EXCEPT !.block = (IF part /\ gap THEN super.block ELSE @) + total]
        rest == WriteSupers(map, e, j, next, super.size, Absent)
    IN [rest EXCEPT !.out = head \o count \o [k \in 1..total |-> Sum(map[s + k - 1].sum)] \o @]

RECURSIVE WriteReferences(_, _, _, _)
WriteReferences(map, i, refs, last) ==
    IF i > Len(map) THEN <<>>
    ELSE
    LET item == map[i]
        j == RunEnd(map, i, Len(map) + 1, SameReference)
        first == item.ref \notin DOMAIN refs
        d == IF first THEN [super |-> BlockSize, bundle |-> item.bundle, offset |-> item.offset, size |-> 0, block |-> 0]
             ELSE refs[item.ref]
        cont == ~first /\ item.offset = d.offset
        gap == item.offset - (d.offset + d.size)
        encoded == Flag(j > Len(map), 1) + 8 * item.ref
        head == CASE first -> <<Num(encoded + Flag(item.bundle > 0, 2) + Flag(item.offset > 0, 4))>>
                              \o Opt(item.bundle > 0, <<Num(item.bundle)>>) \o Opt(item.offset > 0, <<Num(item.offset)>>)
                  [] cont -> <<>>
                  [] OTHER -> <<Num(encoded + Flag(gap > 0, 4))>> \o Opt(gap > 0, <<Num(gap)>>)
        at == IF cont THEN d ELSE [d EXCEPT !.offset = item.offset]
        w == WriteSupers(map, i, j, at, last, IF cont THEN encoded + 2 ELSE Absent)
        known == [r \in DOMAIN refs \union {item.ref} |-> IF r = item.ref THEN w.d ELSE refs[r]]
    IN head \o w.out \o WriteReferences(map, j, known, w.last)

\* blockMapWrite()
BlockMapWrite(map) == <<Num(0)>> \o WriteReferences(map, 1, <<>>, 0)

RECURSIVE ReadSupers(_, _, _, _, _, _, _)
ReadSupers(t, p, d, item, last, cont, first) ==
    LET encoded == IF cont # Absent THEN 4 + Flag(Has(cont, 4), 1) ELSE t[p].n
        p1 == IF cont # Absent THEN p ELSE p + 1
        change == cont = Absent /\ Has(encoded, 2)
        remainder == change /\ Has(t[p1].n, 1)
        p2 == p1 + Flag(change, 1) + Flag(remainder, 1)
        super == IF change THEN (t[p1].n \div 2) * BlockSize + (IF remainder THEN t[p1 + 1].n ELSE 0) ELSE item.super
        size == IF cont # Absent THEN item.size
                ELSE IF last = 0 THEN encoded \div 8 ELSE FromZigZag(encoded \div 8) + last
        d1 == IF cont # Absent THEN d
              ELSE [d EXCEPT !.super = super, !.offset = IF first THEN item.offset ELSE @ + last, !.size = size, !.block = 0]
        part == Has(encoded, 4)
        gap == part /\ Has(t[p2].n, 1)
        total == IF part THEN t[p2].n \div 2 + 1 ELSE Blocks(super)
        block == d1.block + (IF gap THEN t[p2 + 1].n ELSE 0)
        p3 == p2 + Flag(part, 1) + Flag(gap, 1)
        it == [item EXCEPT !.super = super, !.size = size]
        items == [k \in 1..total |-> [it EXCEPT !.block = block + k - 1, !.sum = t[p3 + k - 1].sum]]
        d2 == [d1 EXCEPT !.block = block + total]
    IN IF Has(encoded, 1) THEN [map |-> items, p |-> p3 + total, d |-> d2, last |-> size]
       ELSE LET rest == ReadSupers(t, p3 + total, d2, [it EXCEPT !.offset = @ + size], size, Absent, FALSE)
            IN [rest EXCEPT !.map = items \o @]

RECURSIVE ReadReferences(_, _, _, _)
ReadReferences(t, p, refs, last) ==
    LET encoded == t[p].n
        ref == encoded \div 8
        first == ref \notin DOMAIN refs
        bundled == first /\ Has(encoded, 2)
        cont == ~first /\ Has(encoded, 2)
        moved == ~cont /\ Has(encoded, 4)
        id == IF bundled THEN t[p + 1].n ELSE 0
        by == IF moved THEN t[p + 1 + Flag(bundled, 1)].n ELSE 0
        d == IF first THEN [super |-> BlockSize, bundle |-> id, offset |-> by, size |-> 0, block |-> 0] ELSE refs[ref]
        offset == IF first \/ cont THEN d.offset ELSE d.offset + d.size + by
        item == [ref |-> ref, super |-> d.super, bundle |-> d.bundle, offset |-> offset,
                 size |-> IF cont THEN d.size ELSE 0, block |-> 0, sum |-> <<>>]
        r == ReadSupers(t, p + 1 + Flag(bundled, 1) + Flag(moved, 1), [d EXCEPT !.offset = offset], item, last,
                        IF cont THEN encoded ELSE Absent, TRUE)
        known == [x \in DOMAIN refs \union {ref} |-> IF x = ref THEN r.d ELSE refs[x]]
    IN r.map \o (IF Has(encoded, 1) THEN <<>> ELSE ReadReferences(t, r.p, known, r.last))

\* blockMapNewRead()
BlockMapRead(t) == ReadReferences(t, 2, <<>>, 0)

(***************************************************************************)
(* The filter                                                              *)
(***************************************************************************)
Unit(t, n, data) == [t |-> t, n |-> n, data |-> data]
\* A super block after compression: the size depends on the contents.
StoredSize(c) == 1 + Blocks(Len(c)) + (IF c[1] % 2 = 0 THEN 1 ELSE 0)
StoredSuper(c) == [k \in 1..StoredSize(c) |-> IF k = 1 THEN Unit("super", StoredSize(c), c) ELSE Unit("rest", 0, <<>>)]
StoredMap(map) == LET t == BlockMapWrite(map) IN [k \in 1..Len(t) |-> Unit("map", t[k].n, t[k].sum)]
SuperBlockSize == (SuperSize \div BlockSize + Flag(SuperSize % BlockSize # 0, 1)) * BlockSize

\* Other files come first in a bundle.
BundleOffset(n) == IF bundle[n] = 0 THEN 0 ELSE 3

\* The map of the backup before, as it is stored.
StoredTail(m) == LET s == repo[m.ref] IN SubSeq(s, Len(s) - m.map + 1, Len(s))
PriorMap(m) == LET u == StoredTail(m) IN BlockMapRead([k \in 1..Len(u) |-> [n |-> u[k].n, sum |-> u[k].data]])

\* blockIncrNew()
NewFilter(prior, offset) ==
    [block |-> <<>>, blockNo |-> 0, superNo |-> 0, offset |-> offset, out |-> <<>>, super |-> <<>>, list |-> {},
     outOffset |-> 0, prior |-> prior, map |-> <<>>, mapSize |-> 0, mapWrite |-> FALSE, inOffset |-> 0,
     same |-> FALSE, done |-> FALSE]

\* A loop of blockIncrProcess() in its parts: more of the input,
TakeInput(f, in) ==
    LET rest == Len(in) - f.inOffset
        room == BlockSize - Len(f.block)
    IN IF f.done \/ f.outOffset # 0 THEN f
       ELSE IF rest <= room
       THEN [f EXCEPT !.block = @ \o SubSeq(in, f.inOffset + 1, Len(in)), !.inOffset = 0, !.same = FALSE]
       ELSE [f EXCEPT !.block = @ \o SubSeq(in, f.inOffset + 1, f.inOffset + room), !.inOffset = @ + room, !.same = TRUE]

\* a block that is full, or the last one: stored, unless the backup before has it,
TakeBlock(f, n) ==
    LET same == f.blockNo < Len(f.prior) /\ f.prior[f.blockNo + 1].sum = f.block
        item == [ref |-> n, super |-> SuperBlockSize, bundle |-> bundle[n], offset |-> f.offset, size |-> 0,
                 block |-> f.superNo, sum |-> f.block]
    IN IF f.block = <<>> \/ (~f.done /\ Len(f.block) < BlockSize) THEN f
       ELSE IF same THEN [f EXCEPT !.map = Append(@, f.prior[f.blockNo + 1]), !.block = <<>>, !.blockNo = @ + 1]
       ELSE [f EXCEPT !.map = Append(@, item), !.list = @ \union {Len(f.map) + 1}, !.super = @ \o f.block,
                      !.block = <<>>, !.superNo = @ + 1, !.blockNo = @ + 1]

\* a super block that is full, or the last one,
CloseSuper(f) ==
    IF f.super = <<>> \/ (~f.done /\ Len(f.super) < SuperBlockSize) THEN f
    ELSE [f EXCEPT !.out = @ \o StoredSuper(f.super), !.super = <<>>, !.list = {}, !.superNo = 0,
                   !.offset = @ + StoredSize(f.super), !.mapWrite = TRUE,
                   !.map = [k \in DOMAIN @ |-> IF k \in f.list THEN [@[k] EXCEPT !.size = StoredSize(f.super),
                                                                              !.super = Len(f.super)]
                                               ELSE @[k]]]

Shrunk(f) == Len(f.map) < Len(f.prior)

\* the map at the end,
WriteMap(f) ==
    IF ~f.done \/ f.outOffset # 0 \/ ~(f.mapWrite \/ Shrunk(f)) THEN f
    ELSE [f EXCEPT !.out = @ \o StoredMap(f.map), !.mapSize = Len(StoredMap(f.map))]

\* and as much output as there is room for.
Given(f, room) == IF f.super # <<>> THEN 0 ELSE Least(room, Len(f.out) - f.outOffset)
GiveOutput(f, room) ==
    LET rest == Len(f.out) - f.outOffset
    IN IF f.super # <<>> \/ rest = 0 THEN f
       ELSE IF room >= rest THEN [f EXCEPT !.out = <<>>, !.outOffset = 0, !.same = f.inOffset # 0]
       ELSE [f EXCEPT !.outOffset = @ + room, !.same = TRUE]

(***************************************************************************)
(* The backups                                                             *)
(***************************************************************************)
Init ==
    /\ file = <<>> /\ manifest = <<>> /\ repo = <<>> /\ bundle \in Bundles
    /\ filter = NewFilter(<<>>, 0) /\ pos = 0 /\ out = <<>> /\ buffers \in Buffers
    /\ pc = "idle" /\ pg = <<>>

\* PostgreSQL writes some blocks, extends or truncates the file; the next backup begins.
BackupFile(changed, length) ==
    LET n == Len(manifest) + 1
        prior == IF manifest = <<>> THEN <<>> ELSE PriorMap(Last(manifest))
    IN
    /\ pc = "idle" /\ n <= MaxBackups /\ changed \subseteq 0..(Blocks(length) - 1)
    /\ file' = [k \in 1..length |-> IF k <= Len(file) /\ (k - 1) \div BlockSize \notin changed THEN file[k] ELSE n]
    /\ repo' = Append(repo, <<>>)
    /\ filter' = NewFilter(prior, BundleOffset(n))
    /\ pos' = 0 /\ out' = <<>> /\ pc' = "filter" /\ pg' = <<>>
    /\ UNCHANGED <<manifest, bundle, buffers>>

\* One turn of the loop of blockIncrProcess().  The filter is called again with the same
\* input if it says so, with the next one, and without any at the end of the file; the output
\* buffer is written when it is full.
BlockIncrProcess ==
    /\ pc = "filter" /\ ~(filter.done /\ ~filter.same)
    /\ \E in \in {SubSeq(file, pos + 1, Least(pos + buffers[1], Len(file)))}, room \in {buffers[2] - Len(out)} :
       \E taken \in {TakeInput([filter EXCEPT !.done = in = <<>>], in)} :
       \E stored \in {TakeBlock(taken, Len(repo))} :
       \E closed \in {CloseSuper(stored)} :
       \E f \in {WriteMap(closed)} :
       \E g \in {GiveOutput(f, room)}, full \in {out \o SubSeq(f.out, f.outOffset + 1, f.outOffset + Given(f, room))} :
        /\ filter' = g
        /\ pos' = IF g.same THEN pos ELSE pos + Len(in)
        /\ IF Len(full) = buffers[2] \/ (g.done /\ ~g.same)
           THEN repo' = [repo EXCEPT ![Len(repo)] = @ \o full] /\ out' = <<>>
           ELSE out' = full /\ UNCHANGED repo
    /\ UNCHANGED <<file, manifest, bundle, buffers, pc, pg>>

\* backupFile(): a file that is unchanged stays where it is.
BackupFileEnd ==
    LET n == Len(repo)
        noop == manifest # <<>> /\ Last(manifest).file = file
        entry == [ref |-> n, map |-> filter.mapSize, file |-> file]
    IN
    /\ pc = "filter" /\ filter.done /\ ~filter.same
    /\ manifest' = Append(manifest, IF noop THEN Last(manifest) ELSE entry)
    /\ pc' = "idle"
    /\ UNCHANGED <<file, repo, bundle, filter, pos, out, buffers, pg>>

(***************************************************************************)
(* Restore                                                                 *)
(***************************************************************************)
\* blockDeltaNew(): the blocks to read, by reference, read and super block.  A read goes on
\* as long as the next super block follows the one before.
Wanted(map, old) == {i \in 1..Len(map) : i > Blocks(Len(old)) \/ BlockAt(old, i - 1) # map[i].sum}

RECURSIVE DeltaReads(_, _, _)
DeltaReads(map, todo, reads) ==
    IF todo = {} THEN reads
    ELSE
    LET i == CHOOSE i \in todo : \A k \in todo : map[i].ref > map[k].ref \/ (map[i].ref = map[k].ref /\ i <= k)
        item == map[i]
        block == [no |-> item.block, offset |-> (i - 1) * BlockSize]
        super == [super |-> item.super, size |-> item.size, offset |-> item.offset, blocks |-> <<block>>]
        n == Len(reads)
        m == IF n = 0 THEN 0 ELSE Len(reads[n].supers)
        samePrior == n > 0 /\ reads[n].ref = item.ref
        prior == reads[n].supers[m]
    IN DeltaReads(map, todo \ {i},
        IF samePrior /\ prior.offset = item.offset
        THEN [reads EXCEPT ![n].supers[m].blocks = Append(@, block)]
        ELSE IF samePrior /\ prior.offset + prior.size = item.offset
        THEN [reads EXCEPT ![n].supers = Append(@, super)]
        ELSE Append(reads, [ref |-> item.ref, bundle |-> item.bundle, offset |-> item.offset, supers |-> <<super>>]))

\* blockDeltaNext(): the blocks of a super block in turn, k being the next one to find.
RECURSIVE FindBlocks(_, _, _, _)
FindBlocks(super, c, i, k) ==
    IF i = Blocks(super.super) THEN {}
    ELSE IF k <= Len(super.blocks) /\ super.blocks[k].no = i
    THEN {[offset |-> super.blocks[k].offset, data |-> BlockAt(c, i)]} \union FindBlocks(super, c, i + 1, k + 1)
    ELSE FindBlocks(super, c, i + 1, k)

\* What a stored super block contains, <<>> if there is none at the offset.
Fetch(read, at, size) ==
    LET s == repo[read.ref]
        p == at - BundleOffset(read.ref) + 1
    IN IF p \in DOMAIN s /\ s[p].t = "super" /\ s[p].n = size /\ bundle[read.ref] = read.bundle THEN s[p].data ELSE <<>>

DeltaWrites(reads) ==
    UNION {LET r == reads[n]  s == r.supers[m] IN
           FindBlocks(s, Fetch(r, s.offset, s.size), 0, 1) : <<n, m>> \in {<<n, m>> \in (1..Len(reads)) \X (1..Len(file) + 1) :
                                                                           m <= Len(reads[n].supers)}}

\* The file with the blocks written over it.
Restored(old, writes, length) ==
    [k \in 1..length |->
        IF \E w \in writes : k \in (w.offset + 1)..(w.offset + Len(w.data))
        THEN LET w == CHOOSE w \in writes : k \in (w.offset + 1)..(w.offset + Len(w.data)) IN w.data[k - w.offset]
        ELSE IF k <= Len(old) THEN old[k] ELSE 0]

\* restoreFile(): over what an earlier backup, cut to a length, or nothing left there.
RestoreFile(was, length) ==
    LET m == Last(manifest)
        old == SubSeq(was, 1, Least(length, Least(Len(was), Len(m.file))))
        map == PriorMap(m)
    IN
    /\ pc = "idle" /\ manifest # <<>>
    /\ pg' = Restored(old, DeltaWrites(DeltaReads(map, Wanted(map, old), <<>>)), Len(m.file))
    /\ pc' = "restored"
    /\ UNCHANGED <<file, manifest, repo, bundle, filter, pos, out, buffers>>

Next ==
    \/ \E length \in Lengths : \E changed \in SUBSET (0..(Blocks(length) - 1)) : BackupFile(changed, length)
    \/ BlockIncrProcess \/ BackupFileEnd
    \/ \E n \in 0..Len(manifest), length \in Lengths :
        RestoreFile(IF n = 0 THEN <<>> ELSE manifest[n].file, length)

Spec == Init /\ [][Next]_vars

(* Restore gets the file of the backup back, whatever blocks an earlier backup stored, in
   which super blocks, and whatever was there before; a map that is read is the one that
   was written; and "There must be a map because the file should have changed or shrunk": a
   file that changed is stored with a map, an unchanged one is not stored. *)
BlocksAreRestored ==
    /\ pc = "restored" => pg = Last(manifest).file
    /\ pc = "idle" /\ manifest # <<>> /\ Last(manifest).ref = Len(repo) => PriorMap(Last(manifest)) = filter.map
    /\ pc = "idle" /\ manifest # <<>> => (repo[Len(repo)] # <<>>) = (Last(manifest).ref = Len(repo) /\ Last(manifest).map > 0)
=============================================================================
