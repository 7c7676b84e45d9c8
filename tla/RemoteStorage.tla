--------------------------- MODULE RemoteStorage ---------------------------
(***************************************************************************)
(* Storage on another host: the driver of the client turns every operation *)
(* into requests of the protocol, and the handlers of the remote process   *)
(* call the driver of that host.  Entries of a listing are sent as the     *)
(* difference to the entry before.  The filters of a file that is read or  *)
(* written run on the remote, and data that is worth compressing is        *)
(* compressed on its way: a filter and its inverse are added, one on each  *)
(* side.  Requests for data are asynchronous, one ahead of their use.      *)
(*                                                                         *)
(* A pack is the sequence of its fields, Omitted for one that has its      *)
(* default value.  Data is a sequence of units [v, code]: code is what the *)
(* filters have made of the unit, latest last.                             *)
(***************************************************************************)
EXTENDS Integers, Sequences, SequencesExt, FiniteSetsExt

CONSTANTS
    Operations,   \* the operations of a caller: [kind, args, results, entries, data, filters, compressible]
    BufferSize,   \* units of a block: ioBufferSize()
    Omitted, Null

VARIABLES
    op,       \* the operation
    c,        \* the client: [pc, got, last, block, ...]
    s,        \* the remote: [driver, session, ...]
    request, response,   \* the channel, in order
    drv       \* the storage of the remote: what was called, the file that is written and the one in place

vars == <<op, c, s, request, response, drv>>

\* {0}: nothing to compare the first entry with.
First == [time |-> 0, mode |-> 0, id |-> [user |-> 0, group |-> 0], name |-> [user |-> Null, group |-> Null]]

Init ==
    /\ op \in Operations
    /\ c = [pc |-> "new", got |-> <<>>, last |-> First, block |-> <<>>, queued |-> FALSE, eofFound |-> FALSE,
            eof |-> FALSE, filters |-> <<>>, results |-> <<>>, sent |-> 0]
    /\ s = [driver |-> FALSE, session |-> "none", filters |-> <<>>, at |-> 0]
    /\ request = <<>> /\ response = <<>>
    /\ drv = [called |-> Null, result |-> Null, temp |-> <<>>, file |-> Null]

-----------------------------------------------------------------------------
(* An entry of a listing. *)

\* A field that is the same as its default is not written, and has the default when it is read.
Put(value, default) == <<IF value = default THEN Omitted ELSE value>>
Get(field, default) == IF field = Omitted THEN default ELSE field

PutOwner(info, last, w) ==
    Put(info.id[w], last.id[w])
    \o IF info.name[w] = Null THEN <<TRUE>> ELSE <<FALSE>> \o Put(info.name[w], last.name[w])

InfoPut(last, info, level) ==
    <<info.type, info.time - last.time>>
    \o (IF info.type = "file" THEN <<info.size>> ELSE <<>>)
    \o <<info.version>>
    \o IF level # "detail" THEN <<>>
       ELSE Put(info.mode, last.mode) \o PutOwner(info, last, "user") \o PutOwner(info, last, "group")
            \o IF info.type = "link" THEN <<info.dest>> ELSE <<>>

\* What is remembered for the next entry, on the remote and here: the last name that was not NULL.
LastName(last, info) == [w \in {"user", "group"} |-> IF info.name[w] = Null THEN last.name[w] ELSE info.name[w]]

PutLast(last, info) ==
    [time |-> info.time, mode |-> info.mode, id |-> info.id, name |-> LastName(last, info)]

\* As if a name that is NULL was remembered too.
GetLastNull(last, info) ==
    [time |-> info.time, mode |-> info.mode, id |-> info.id, name |-> info.name]

GetLast(last, info) ==
    [time |-> info.time, mode |-> info.mode, id |-> info.id, name |-> LastName(last, info)]

\* Fields are read in the order they were written.
InfoGet(last, pack, level) ==
    LET isFile == pack[2] = "file"
        version == IF isFile THEN 5 ELSE 4
        user == version + 2
        group == user + (IF pack[user + 1] THEN 2 ELSE 3)
        Name(p, w) == IF pack[p + 1] THEN Null ELSE Get(pack[p + 2], last.name[w])
        none == [user |-> Null, group |-> Null]
    IN [name |-> IF level = "detail" THEN [user |-> Name(user, "user"), group |-> Name(group, "group")] ELSE none,
        id |-> IF level = "detail" THEN [user |-> Get(pack[user], last.id.user), group |-> Get(pack[group], last.id.group)]
               ELSE [user |-> 0, group |-> 0],
        entry |-> pack[1], type |-> pack[2], time |-> pack[3] + last.time,
        size |-> IF isFile THEN pack[4] ELSE 0,
        version |-> pack[version],
        mode |-> IF level = "detail" THEN Get(pack[version + 1], last.mode) ELSE 0,
        dest |-> IF level = "detail" /\ pack[2] = "link" THEN pack[Len(pack)] ELSE Null]

-----------------------------------------------------------------------------
(* Filters. *)

\* What a filter makes of a unit; data that is not compressed cannot be decompressed.
Filter(f, code) ==
    CASE f \in {"lz4", "gz", "encrypt"} -> Append(code, f)
      [] f = "unlz4" -> IF code # <<>> /\ Last(code) = "lz4" THEN Front(code) ELSE Append(code, "broken")
      [] OTHER -> code

Filtered(filters, code) == FoldLeft(LAMBDA made, f : Filter(f, made), code, filters)
Run(filters, data) == [k \in DOMAIN data |-> [data[k] EXCEPT !.code = Filtered(filters, @)]]

\* The filters are made again on the remote, in the order of the pack.
RemoteFilters(o) ==
    IF ~o.compressible THEN o.filters
    ELSE IF o.kind = "read" THEN Append(o.filters, "lz4") ELSE <<"unlz4">> \o o.filters
LocalFilters(o) == IF ~o.compressible THEN <<>> ELSE IF o.kind = "read" THEN <<"unlz4">> ELSE <<"lz4">>

-----------------------------------------------------------------------------
(* The client. *)

Send(r) == request' = Append(request, r)
Answered == response # <<>>
Answer == Head(response)
Failed == Answered /\ Answer.error

Returned(value) == c' = [c EXCEPT !.pc = "returned", !.got = value]

\* storageRemoteNew: the features of the remote come first.
StorageNew ==
    /\ c.pc = "new"
    /\ Send([cmd |-> "feature", pack |-> <<>>]) /\ c' = [c EXCEPT !.pc = "feature"]
    /\ UNCHANGED <<op, s, response, drv>>

FeatureGot ==
    /\ c.pc = "feature" /\ Answered
    /\ response' = Tail(response) /\ c' = [c EXCEPT !.pc = "start"]
    /\ UNCHANGED <<op, s, request, drv>>

\* One request and its answer: pathCreate, pathRemove, pathSync, remove, linkCreate, info, list.
Request ==
    /\ c.pc = "start" /\ op.kind \in {"call", "info", "list"}
    /\ Send([cmd |-> op.kind, pack |-> op.args]) /\ c' = [c EXCEPT !.pc = "wait"]
    /\ UNCHANGED <<op, s, response, drv>>

CallGot ==
    /\ c.pc = "wait" /\ op.kind = "call" /\ Answered /\ ~Failed
    /\ response' = Tail(response) /\ Returned(Answer.pack[1])
    /\ UNCHANGED <<op, s, request, drv>>

\* The first field says whether there is a list, or the file.
ListGot ==
    /\ c.pc = "wait" /\ op.kind \in {"info", "list"} /\ Answered /\ ~Failed
    /\ response' = <<[Answer EXCEPT !.pack = Tail(@)]>>
    /\ IF Answer.pack[1] THEN c' = [c EXCEPT !.pc = "entries"] ELSE Returned(Null)
    /\ UNCHANGED <<op, s, request, drv>>

EntryGot ==
    /\ c.pc = "entries"
    /\ IF Answer.pack = <<>> THEN c' = [c EXCEPT !.pc = "returned"] /\ UNCHANGED response
       ELSE \E info \in {InfoGet(c.last, Answer.pack[1], op.args[2])} :
                /\ c' = [c EXCEPT !.got = Append(@, info), !.last = GetLast(@, info)]
                /\ response' = <<[Answer EXCEPT !.pack = Tail(@)]>>
    /\ UNCHANGED <<op, s, request, drv>>

\* An error of the remote ends the operation; a session is cancelled.
Errors ==
    /\ c.pc \in {"wait", "openWait", "readWait", "writeWait", "closeWait"} /\ Failed
    /\ response' = Tail(response) /\ c' = [c EXCEPT !.pc = "error"] /\ Send([cmd |-> "cancel", pack |-> <<>>])
    /\ UNCHANGED <<op, s, drv>>

\* storageReadRemoteOpen, storageWriteRemoteOpen
Open ==
    /\ c.pc = "start" /\ op.kind \in {"read", "write"}
    /\ Send([cmd |-> op.kind, pack |-> <<op.args, RemoteFilters(op)>>]) /\ c' = [c EXCEPT !.pc = "openWait"]
    /\ UNCHANGED <<op, s, response, drv>>

\* storageReadRemoteInternal: the next block if there is one, the results of the filters when the session was closed.
BlockGot(pack, close) ==
    LET data == IF pack[1] THEN <<>> ELSE pack[2]
    IN [c EXCEPT !.pc = "open", !.queued = FALSE, !.block = data,
                 !.eofFound = close, !.eof = close /\ data = <<>>,
                 !.results = IF close THEN Last(pack) ELSE @]

Opened ==
    /\ c.pc = "openWait" /\ Answered /\ ~Failed /\ response' = Tail(response)
    /\ IF op.kind = "write" THEN c' = [c EXCEPT !.pc = "open", !.filters = LocalFilters(op)]
       ELSE IF ~Answer.pack[1] THEN Returned(Null)
       ELSE c' = [BlockGot(Tail(Answer.pack), Answer.close) EXCEPT !.filters = LocalFilters(op)]
    /\ UNCHANGED <<op, s, request, drv>>

\* storageReadRemote: a new block is asked for when the last is used up, and the one after it ahead of its use.
ReadRequest ==
    /\ c.pc = "open" /\ op.kind = "read" /\ ~c.eof /\ c.block = <<>>
    /\ IF c.queued THEN UNCHANGED request ELSE Send([cmd |-> "readNext", pack |-> <<>>])
    /\ c' = [c EXCEPT !.pc = "readWait", !.queued = TRUE]
    /\ UNCHANGED <<op, s, response, drv>>

ReadGot ==
    /\ c.pc = "readWait" /\ Answered /\ ~Failed /\ response' = Tail(response)
    /\ c' = [BlockGot(Answer.pack, Answer.close) EXCEPT !.queued = ~Answer.close]
    /\ IF Answer.close THEN UNCHANGED request ELSE Send([cmd |-> "readNext", pack |-> <<>>])
    /\ UNCHANGED <<op, s, drv>>

\* Part of the block goes to the caller's buffer, through the local filter.
ReadCopy(n) ==
    /\ c.pc = "open" /\ op.kind = "read" /\ ~c.eof /\ n <= Len(c.block)
    /\ c' = [c EXCEPT !.got = @ \o Run(c.filters, SubSeq(c.block, 1, n)), !.block = SubSeq(@, n + 1, Len(@)),
                      !.eof = c.eofFound /\ n = Len(c.block)]
    /\ UNCHANGED <<op, s, request, response, drv>>

\* storageReadRemoteClose: at the end, or before it when the caller has read enough.
ReadClose ==
    /\ c.pc = "open" /\ op.kind = "read"
    /\ c' = [c EXCEPT !.pc = IF c.eof THEN "returned" ELSE "abandoned"]
    /\ Send([cmd |-> "cancel", pack |-> <<>>])
    /\ UNCHANGED <<op, s, response, drv>>

\* storageWriteRemote: the answer to the block before comes first.
WriteBlock ==
    /\ c.pc = "open" /\ op.kind = "write" /\ c.sent < Len(op.data)
    /\ IF c.queued THEN c' = [c EXCEPT !.pc = "writeWait"] /\ UNCHANGED request
       ELSE /\ Send([cmd |-> "writeNext", pack |-> Run(c.filters, <<op.data[c.sent + 1]>>)])
            /\ c' = [c EXCEPT !.queued = TRUE, !.sent = @ + 1]
    /\ UNCHANGED <<op, s, response, drv>>

WriteGot ==
    /\ c.pc = "writeWait" /\ Answered /\ ~Failed
    /\ response' = Tail(response) /\ c' = [c EXCEPT !.pc = "open", !.queued = FALSE]
    /\ UNCHANGED <<op, s, request, drv>>

\* As if the answer to the last block was not waited for.
WriteCloseEarly ==
    /\ c.pc = "open" /\ op.kind = "write" /\ c.sent = Len(op.data)
    /\ Send([cmd |-> "close", pack |-> <<>>]) /\ c' = [c EXCEPT !.pc = "closeWait"]
    /\ UNCHANGED <<op, s, response, drv>>

\* storageWriteRemoteClose
WriteClose ==
    /\ c.pc = "open" /\ op.kind = "write" /\ c.sent = Len(op.data)
    /\ IF c.queued THEN c' = [c EXCEPT !.pc = "writeWait"] /\ UNCHANGED request
       ELSE Send([cmd |-> "close", pack |-> <<>>]) /\ c' = [c EXCEPT !.pc = "closeWait"]
    /\ UNCHANGED <<op, s, response, drv>>

CloseGot ==
    /\ c.pc = "closeWait" /\ Answered /\ ~Failed
    /\ response' = Tail(response) /\ c' = [c EXCEPT !.pc = "returned", !.results = Answer.pack]
    /\ UNCHANGED <<op, s, request, drv>>

ClientStep ==
    \/ StorageNew \/ FeatureGot \/ Request \/ CallGot \/ ListGot \/ EntryGot \/ Errors \/ Open \/ Opened
    \/ ReadRequest \/ ReadGot \/ \E n \in 1..BufferSize : ReadCopy(n)
    \/ ReadClose \/ WriteBlock \/ WriteGot \/ WriteClose \/ CloseGot

-----------------------------------------------------------------------------
(* The remote. *)

Asked(cmd) == request # <<>> /\ Head(request).cmd = cmd /\ request' = Tail(request)
Reply(pack, close) == response' = Append(response, [error |-> FALSE, pack |-> pack, close |-> close])

\* storageRemoteFeatureProtocol: the driver is kept for the requests that follow.
Feature ==
    /\ Asked("feature") /\ s' = [s EXCEPT !.driver = TRUE] /\ Reply(<<>>, FALSE)
    /\ UNCHANGED <<op, c, drv>>

\* The driver is called with the parameters in the order of the pack.
Call(result) ==
    /\ Asked("call") /\ s.driver
    /\ drv' = [drv EXCEPT !.called = Head(request).pack, !.result = result] /\ Reply(<<result>>, FALSE)
    /\ UNCHANGED <<op, c, s>>

\* storageRemoteInfoProtocol, storageRemoteListProtocol: every entry against the one before.
List ==
    LET level == Head(request).pack[2]
        found == op.entries # Null
        lasts == [k \in 1..Len(op.entries) |->
                      FoldLeft(LAMBDA last, info : PutLast(last, info), First, SubSeq(op.entries, 1, k - 1))]
    IN /\ (Asked("list") \/ Asked("info")) /\ s.driver
       /\ Reply(<<found>> \o IF ~found THEN <<>>
                             ELSE [k \in 1..Len(op.entries) |->
                                       <<op.entries[k].entry>> \o InfoPut(lasts[k], op.entries[k], level)], FALSE)
       /\ UNCHANGED <<op, c, s, drv>>

\* storageRemoteReadInternal: a block, and the results of the filters at the end of the file.  The end is
\* known with the last block or, when the block was filled, only with the next one.
ReadInternal(before, filters) ==
    LET size == Min({BufferSize, Len(op.data) - s.at})
        data == Run(filters, SubSeq(op.data, s.at + 1, s.at + size))
    IN \E eof \in IF size < BufferSize THEN {TRUE} ELSE IF s.at + size < Len(op.data) THEN {FALSE} ELSE BOOLEAN :
           /\ Reply(before \o <<data = <<>>>> \o (IF data = <<>> THEN <<>> ELSE <<data>>)
                    \o (IF eof THEN <<filters>> ELSE <<>>), eof)
           /\ s' = [s EXCEPT !.filters = filters, !.at = @ + size, !.session = IF eof THEN "none" ELSE "read"]

ReadOpen ==
    /\ Asked("read") /\ s.driver
    /\ IF op.data = Null THEN Reply(<<FALSE>>, TRUE) /\ UNCHANGED s ELSE ReadInternal(<<TRUE>>, Head(request).pack[2])
    /\ UNCHANGED <<op, c, drv>>

ReadNext ==
    /\ s.session = "read" /\ Asked("readNext") /\ ReadInternal(<<>>, s.filters)
    /\ UNCHANGED <<op, c, drv>>

WriteOpen ==
    /\ Asked("write") /\ s.driver
    /\ s' = [s EXCEPT !.session = "write", !.filters = Head(request).pack[2]] /\ Reply(<<>>, FALSE)
    /\ UNCHANGED <<op, c, drv>>

WriteNext ==
    /\ s.session = "write" /\ Asked("writeNext")
    /\ drv' = [drv EXCEPT !.temp = @ \o Run(s.filters, Head(request).pack)] /\ Reply(<<>>, FALSE)
    /\ UNCHANGED <<op, c, s>>

\* storageRemoteWriteCloseProtocol: the file gets its name, the results of the filters go back.
Close ==
    /\ s.session = "write" /\ Asked("close")
    /\ drv' = [drv EXCEPT !.file = drv.temp] /\ s' = [s EXCEPT !.session = "none"] /\ Reply(s.filters, TRUE)
    /\ UNCHANGED <<op, c>>

\* The driver throws: the session stays until it is cancelled.
Throw ==
    /\ \E cmd \in {"call", "list", "info", "read", "readNext", "write", "writeNext", "close"} : Asked(cmd)
    /\ response' = Append(response, [error |-> TRUE, pack |-> <<>>, close |-> FALSE])
    /\ UNCHANGED <<op, c, s, drv>>

\* A session is freed; a file that was not closed never gets its name.
Cancel ==
    /\ Asked("cancel") /\ s' = [s EXCEPT !.session = "none"] /\ UNCHANGED <<op, c, response, drv>>

Remote ==
    \/ Feature \/ \E result \in op.results : Call(result)
    \/ List \/ ReadOpen \/ ReadNext \/ WriteOpen \/ WriteNext \/ Close \/ Throw \/ Cancel

Next == ClientStep \/ Remote

Spec == Init /\ [][Next]_vars /\ WF_vars(Next)

-----------------------------------------------------------------------------
\* What the filters of the caller make of the file, and nothing of the compression on the way.
Wanted == Run(op.filters, op.data)
OfCaller(results) == SelectSeq(results, LAMBDA f : f \notin {"lz4", "unlz4"})

\* What an operation on the remote returns is what the driver there would have returned: every entry of a
\* listing with all its fields (remote/storage.c:storageRemoteInfoGet), all units of a file and its end in
\* the right place (remote/read.c), the results of the filters; and a file that was closed without
\* an error has its name and all its data (remote/write.c:storageWriteRemoteClose).  A file that has its name is
\* complete, whatever failed.
RemoteIsExact ==
    /\ c.pc = "returned" =>
          CASE op.kind = "call" -> drv.called = op.args /\ c.got = drv.result
            [] op.kind \in {"info", "list"} -> c.got = op.entries
            [] op.kind = "read" /\ op.data = Null -> c.got = Null
            [] op.kind = "read" -> c.got = Wanted /\ OfCaller(c.results) = op.filters
            [] op.kind = "write" -> drv.file = Wanted /\ OfCaller(c.results) = op.filters
    /\ c.pc = "abandoned" => IsPrefix(c.got, Wanted)
    /\ drv.file # Null => drv.file = Wanted

\* An operation returns or throws.
RemoteEnded == c.pc \in {"returned", "error", "abandoned"}
=============================================================================
