---------------------------- MODULE PageChecksum ----------------------------
(***************************************************************************)
(* Page checksums of a relation file while it is copied: the filter        *)
(* (command/backup/pageChecksum.c) looks at every page of every buffer and *)
(* reads a page that is not valid once more, since PostgreSQL may be       *)
(* writing it.  The pages that stay invalid become ranges in the manifest  *)
(* (backupJobResult()).                                                    *)
(*                                                                         *)
(* A page is written in two parts: head (with pd_upper and pd_checksum)    *)
(* and rest.  It is valid when both are of the same version; version 0 is  *)
(* all zeros.  A file may end in a piece of a page.                        *)
(***************************************************************************)
EXTENDS Naturals, Sequences, FiniteSets, SequencesExt

CONSTANTS
    Pages,        \* complete pages of the file, fewer than SegmentPages
    BufferPages,  \* pages in a buffer
    SegmentPages, \* pages of a full segment
    Segments,     \* numbers of segments
    MaxWrites     \* bound on the writes of PostgreSQL

VARIABLES
    disk,    \* the file: its complete pages
    before,  \* the file when the backup came to it
    rest,    \* what follows them: "none", "less" than 512 bytes or "more"
    written, \* pages that PostgreSQL wrote meanwhile
    write,   \* the page it has written one part of, 0 for none, and the part
    writes,  \* writes begun
    filter   \* the filter and its result

pageVars == <<disk, before, rest, written, write, writes, filter>>

Page(head, tail) == [head |-> head, rest |-> tail]
Valid(page) == page.head = page.rest
Kinds == {Page(0, 0), Page(1, 1), Page(1, 2), Page(0, 2)}   \* new, good, corrupt, corrupt with pd_upper 0

\* pageChecksumNew()
PageChecksumNew(segment) ==
    [pc |-> "read", read |-> 0, input |-> <<>>, idx |-> 1, pageNoOffset |-> segment * SegmentPages,
     error |-> <<>>, valid |-> TRUE, align |-> TRUE, first |-> segment * SegmentPages, pageError |-> FALSE, list |-> <<>>]

Init ==
    /\ disk \in [1..Pages -> Kinds] /\ before = disk
    /\ rest \in {"none", "less", "more"}
    /\ written = {} /\ write = [page |-> 0, part |-> "head"] /\ writes = 0
    /\ \E segment \in Segments : filter = PageChecksumNew(segment)

PgWriteBegin(i, part) ==
    /\ write.page = 0 /\ writes < MaxWrites /\ filter.pc # "done"
    /\ disk' = IF part = "head" THEN [disk EXCEPT ![i].head = 3 + writes] ELSE [disk EXCEPT ![i].rest = 3 + writes]
    /\ write' = [page |-> i, part |-> part]
    /\ writes' = writes + 1 /\ written' = written \union {i}
    /\ UNCHANGED <<before, rest, filter>>

PgWriteEnd ==
    /\ write.page # 0
    /\ disk' = IF write.part = "head" THEN [disk EXCEPT ![write.page].rest = 2 + writes]
               ELSE [disk EXCEPT ![write.page].head = 2 + writes]
    /\ write' = [write EXCEPT !.page = 0]
    /\ UNCHANGED <<before, rest, written, writes, filter>>

(***************************************************************************)
(* pageChecksumProcess() is given a buffer, with what follows the last     *)
(* page when the file ends in it.                                          *)
(***************************************************************************)
Least(a, b) == IF a < b THEN a ELSE b

PageChecksumProcess ==
    /\ filter.pc = "read"
    /\ LET n == Least(BufferPages, Pages - filter.read)
           ends == rest # "none" /\ filter.read + n = Pages /\ n < BufferPages
       IN  /\ n > 0 \/ ends
           /\ filter' = [filter EXCEPT !.pc = IF ends /\ rest = "less" THEN "result" ELSE "page", !.idx = 1,
                                       !.read = @ + n, !.input = SubSeq(disk, filter.read + 1, filter.read + n),
                                       !.align = ~ends, !.valid = ~(ends /\ rest = "less")]
    /\ UNCHANGED <<disk, before, rest, written, write, writes>>

Input == filter.input[filter.idx]
PageTotal == Len(filter.input) + (IF filter.align THEN 0 ELSE 1)
BlockNo == filter.pageNoOffset + filter.idx - 1

\* As if the number of the next buffer's first page were that of this one's last.
NextPageBehind(list) ==
    IF filter.idx = PageTotal
    THEN [filter EXCEPT !.pc = IF filter.align THEN "read" ELSE "result", !.error = list, !.pageNoOffset = @ + PageTotal - 1]
    ELSE [filter EXCEPT !.pc = "page", !.error = list, !.idx = @ + 1]

NextPage(list) ==
    IF filter.idx = PageTotal
    THEN [filter EXCEPT !.pc = IF filter.align THEN "read" ELSE "result", !.error = list, !.pageNoOffset = @ + PageTotal]
    ELSE [filter EXCEPT !.pc = "page", !.error = list, !.idx = @ + 1]

\* A piece of a page is an error; of a page whose head is zero all must be.
CheckPage ==
    /\ filter.pc = "page"
    /\ filter' = IF ~filter.align /\ filter.idx = PageTotal THEN NextPage(Append(filter.error, BlockNo))
                 ELSE IF Valid(Input) THEN NextPage(filter.error)
                 ELSE [filter EXCEPT !.pc = "retry"]
    /\ UNCHANGED <<disk, before, rest, written, write, writes>>

\* The page is read again, by its number in the segment.  One that has changed
\* is left to the WAL.
RetryPage ==
    /\ filter.pc = "retry"
    /\ LET changed == disk[(BlockNo % SegmentPages) + 1] # Input
       IN  filter' = NextPage(IF changed THEN filter.error ELSE Append(filter.error, BlockNo))
    /\ UNCHANGED <<disk, before, rest, written, write, writes>>

(***************************************************************************)
(* pageChecksumResult(), and what backupJobResult() makes of it.           *)
(***************************************************************************)
\* backupJobResultPageChecksum(): a page in sequence extends the last range.
WithPage(ranges, page) ==
    LET n == Len(ranges)
    IN  IF n > 0 /\ page = ranges[n][2] + 1 THEN [ranges EXCEPT ![n][2] = page]
        ELSE Append(ranges, <<page, page>>)

\* backupJobResult(): a file that is not aligned is reported without pages.
PageErrorList(valid) ==
    IF valid \/ ~filter.align THEN <<>> ELSE FoldLeft(WithPage, <<>>, filter.error)

PageChecksumResult ==
    /\ \/ filter.pc = "result"
       \/ filter.pc = "read" /\ filter.read = Pages /\ rest = "none"
    /\ LET valid == filter.valid /\ filter.error = <<>>
       IN  filter' = [filter EXCEPT !.pc = "done", !.pageError = ~valid, !.list = PageErrorList(valid)]
    /\ UNCHANGED <<disk, before, rest, written, write, writes>>

Next ==
    \/ \E i \in 1..Pages, part \in {"head", "rest"} : PgWriteBegin(i, part)
    \/ PgWriteEnd \/ PageChecksumProcess \/ CheckPage \/ RetryPage \/ PageChecksumResult

Spec == Init /\ [][Next]_pageVars
-----------------------------------------------------------------------------
\* A page that was corrupt when the backup came to the file, and that PostgreSQL
\* does not write, is in the ranges of the manifest (or the whole file is
\* reported as misaligned); a page that was good and is not written never is.
PagesAreReported ==
    filter.pc = "done" =>
        LET corrupt == {i \in 1..Pages : ~Valid(before[i])} \ written
            listed == {i \in 1..Pages : \E k \in DOMAIN filter.list :
                            filter.first + i - 1 \in filter.list[k][1] .. filter.list[k][2]}
        IN  IF rest # "none" THEN filter.pageError /\ filter.list = <<>>
            ELSE /\ corrupt \subseteq listed /\ listed \subseteq corrupt \union written
                 /\ filter.pageError <=> listed # {}
                 /\ \A k \in DOMAIN filter.list :
                        {filter.list[k][1], filter.list[k][2]} \subseteq filter.first .. filter.first + Pages - 1
=============================================================================
