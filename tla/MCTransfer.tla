----------------------------- MODULE MCTransfer -----------------------------
(***************************************************************************)
(* What moves data: the executor with its local processes, streams and     *)
(* their filters, the object stores, storage on another host, and          *)
(* connections.  The parts do not share state here: a behaviour is one of  *)
(* a single part, and Parts says which are checked.                        *)
(***************************************************************************)
EXTENDS ProtocolParallel, Sequences, SequencesExt, TLC

CONSTANTS Parts, None, Omitted, j1, j2, j3, j4, ObjectSize, InputSize,
          Slots, Sessions, Writers, Readers, Remover, Lister, Together, MaxFaults   \* ObjectStore

\* Every task of the object stores has its place for a request, the remover two, and
\* there is always memory for another session.
ASSUME SlotsAssumption ==
    /\ Slots = Writers \union Readers \union {Remover, Lister} /\ Writers \intersect Readers = {}
    /\ {Remover, Lister} \intersect (Writers \union Readers) = {} /\ Remover # Lister
    /\ IsFiniteSet(Slots) /\ IsFiniteSet(Sessions) /\ Cardinality(Slots) <= Cardinality(Sessions)
    /\ None \notin Sessions

VARIABLES
    part,                                                             \* the part that runs
    io, fl, out, grp, rd, ioPc,                                       \* Io
    driver, object, upload, stored, files, task, call,                \* ObjectStore
    session, reuse, slot, httpFaults,                                 \* ObjectStore, the HTTP client
    netMode, netSock, netConn, netClient, netPeer,                    \* Io, connections
    rsOp, rsClient, rsRemote, rsRequest, rsResponse, rsDriver         \* RemoteStorage

ioVars == <<io, fl, out, grp, rd, ioPc>>
objectVars == <<driver, object, upload, stored, files, task, call, session, reuse, slot, httpFaults>>
netVars == <<netMode, netSock, netConn, netClient, netPeer>>
remoteVars == <<rsOp, rsClient, rsRemote, rsRequest, rsResponse, rsDriver>>
mcVars == <<part, vars, ioVars, objectVars, netVars, remoteVars>>

\* Backup from a standby: the first client has the primary's file.
Standby == [c \in Client |-> IF c = 1 THEN {j1} ELSE Job \ {j1}]

(* Filter chains as the commands build them, over short streams. *)
Reads(chain, calls) == [mode |-> "read", chain |-> chain, ops |-> calls]
Writes(chain) == [mode |-> "write", chain |-> chain, ops |-> {}]

Chains ==
    {Reads(<<>>, {"read", "small", "line"}),
     Reads(<<"size", "gzip", "hash">>, {"read"}),
     Reads(<<"lz4", "encrypt">>, {"read"}),
     Reads(<<"decrypt", "gunzip", "size">>, {"read"}),
     Reads(<<"decrypt">>, {"read"}),
     Reads(<<"bunzip2", "size", "sink">>, {"read"}),
     Writes(<<>>),
     Writes(<<"hash", "lz4", "encrypt", "size">>),
     Writes(<<"bzip2", "zstd">>),
     Writes(<<"decrypt", "unzstd", "hash">>),
     Writes(<<"unlz4", "size">>)}

(* Two writers, a reader and a path to remove, two tasks at a time. *)
Obj == INSTANCE ObjectStore WITH
    Drivers <- {"s3", "azure", "gcs"}, Size <- ObjectSize, PartSize <- 1, SplitAt <- 1, ReadSize <- 2,
    SourceData <- <<1, 2, 3>>, Page <- 2, DeleteMax <- 2, Paths <- 3, faults <- httpFaults

(* Connections: up to three addresses, a request and an answer in pieces, with TLS and without. *)
Ios == INSTANCE Io WITH
    Streams <- Chains, Raw <- FALSE, Block <- 2, LineSize <- 2, BufferSize <- 2, Sizes <- {1, 3}, MaxData <- 3,
    pc <- ioPc,
    MaxRounds <- 1, MaxTries <- 2, Request <- 2, Answer <- 2,
    Modes <- {[addresses |-> 3, tls |-> FALSE, ignoreEof |-> FALSE],
              [addresses |-> 2, tls |-> TRUE, ignoreEof |-> FALSE], [addresses |-> 2, tls |-> TRUE, ignoreEof |-> TRUE]},
    net <- netMode, sock <- netSock, conn <- netConn, client <- netClient, peer <- netPeer

(* Listings whose entries share some fields and not others, files around the size of the buffer. *)
Entry(type, time, mode, user, group) ==
    [entry |-> "name", type |-> type, time |-> time, size |-> IF type = "file" THEN time ELSE 0,
     version |-> IF type = "file" THEN "v1" ELSE None, mode |-> mode, id |-> [user |-> mode, group |-> 1],
     name |-> [user |-> user, group |-> group], dest |-> IF type = "link" THEN "target" ELSE None]
Basic(e) ==
    [e EXCEPT !.mode = 0, !.id = [user |-> 0, group |-> 0], !.name = [user |-> None, group |-> None], !.dest = None]
Entries ==
    {Entry("file", 5, 1, "a", "g"), Entry("path", 5, 1, None, "g"), Entry("file", 2, 0, "b", None),
     Entry("link", 7, 1, "a", None)}
Units(n) == [k \in 1..n |-> [v |-> k, code |-> <<>>]]

Operation == [kind |-> "call", args |-> <<>>, results |-> {}, entries |-> None, data |-> None, filters |-> <<>>,
              compressible |-> FALSE]
Operations ==
    {[Operation EXCEPT !.kind = "list", !.args = <<"path", "detail", 0>>, !.entries = list] :
         list \in BoundedSeq(Entries, 3) \cup {None}}
    \cup {[Operation EXCEPT !.kind = "list", !.args = <<"path", "basic", 0>>, !.entries = <<Basic(e), Basic(f)>>] :
              e, f \in Entries}
    \cup {[Operation EXCEPT !.kind = "info", !.args = <<"path", "detail", TRUE>>, !.entries = <<e>>] : e \in Entries}
    \cup {[Operation EXCEPT !.kind = kind, !.args = <<"path">>, !.data = Units(n), !.filters = f, !.compressible = z] :
              kind \in {"read", "write"}, n \in 0..4, f \in {<<>>, <<"encrypt", "size">>}, z \in BOOLEAN}
    \cup {[Operation EXCEPT !.kind = "read", !.args = <<"path">>]}
    \cup {[Operation EXCEPT !.args = <<"pathRemove", "path", TRUE>>, !.results = BOOLEAN]}
    \cup {[Operation EXCEPT !.args = args, !.results = {None}] :
              args \in {<<"remove", "path", TRUE>>, <<"pathCreate", "path", TRUE, FALSE, 7>>,
                        <<"linkCreate", "target", "path", 0>>, <<"pathSync", "path">>}}

Rem == INSTANCE RemoteStorage WITH
    Null <- None, BufferSize <- 2,
    op <- rsOp, c <- rsClient, s <- rsRemote, request <- rsRequest, response <- rsResponse, drv <- rsDriver

-----------------------------------------------------------------------------
Off(v) == v = "off"

MCInit ==
    /\ part \in Parts
    /\ Init
    /\ IF part = "io" THEN Ios!Init ELSE Off(io) /\ Off(fl) /\ Off(out) /\ Off(grp) /\ Off(rd) /\ Off(ioPc)
    /\ IF part = "objects" THEN Obj!Init
       ELSE Off(driver) /\ Off(object) /\ Off(upload) /\ Off(stored) /\ Off(files) /\ Off(task) /\ Off(call)
            /\ Off(session) /\ Off(reuse) /\ Off(slot) /\ Off(httpFaults)
    /\ IF part = "connection" THEN Ios!NetInit
       ELSE Off(netMode) /\ Off(netSock) /\ Off(netConn) /\ Off(netClient) /\ Off(netPeer)
    /\ IF part = "remote" THEN Rem!Init
       ELSE Off(rsOp) /\ Off(rsClient) /\ Off(rsRemote) /\ Off(rsRequest) /\ Off(rsResponse) /\ Off(rsDriver)

MCNext ==
    /\ UNCHANGED part
    /\ \/ part = "parallel" /\ Next /\ UNCHANGED <<ioVars, objectVars, netVars, remoteVars>>
       \/ part = "io" /\ Ios!Next /\ UNCHANGED <<vars, objectVars, netVars, remoteVars>>
       \/ part = "objects" /\ Obj!Next /\ UNCHANGED <<vars, ioVars, netVars, remoteVars>>
       \/ part = "connection" /\ Ios!NetNext /\ UNCHANGED <<vars, ioVars, objectVars, remoteVars>>
       \/ part = "remote" /\ Rem!Next /\ UNCHANGED <<vars, ioVars, objectVars, netVars>>

\* The fairness of each part, as its module states it.
MCSpec ==
    /\ MCInit /\ [][MCNext]_mcVars
    /\ WF_mcVars(MCNext /\ (part = "parallel" => Executor))
    /\ \A c \in Client : WF_vars(part = "parallel" /\ WorkerRespond(c))

-----------------------------------------------------------------------------
(* The properties of the parts, each defined and explained in its module. *)

\* A stream gives exactly the data, through any chain of filters, and ends without an error once it is
\* complete (common/io/read.c, filter/group.c), and
\* so does a connection, which leaves no socket behind (common/io/fdWrite.c, socket/client.c, tls/session.c), and
\* storage on another host (storage/remote/storage.c, storage/remote/read.c, storage/remote/write.c).
StreamIsExact ==
    /\ part = "io" => Ios!StreamIsExact /\ Ios!NoSpuriousError
    /\ part = "connection" => Ios!SessionIsExact
    /\ part = "remote" => Rem!RemoteIsExact

\* A request gets the answer to it, on sessions that are used again (common/io/http/client.c).
OwnResponse == part = "objects" => Obj!OwnResponse

\* An object is one whole file somebody wrote, and is there once its write has returned
\* (storage/s3/write.c, azure/write.c, gcs/write.c); a reader that tries again gets it without
\* a gap or a repetition (storage/read.c).  Connections are TLS.
TransfersAreExact == part = "objects" => Obj!TransfersAreExact

\* A path that was removed without an error is empty (storage/s3/storage.c, storage/gcs/storage.c).
RemovedIsEmpty == part = "objects" => Obj!RemovedIsEmpty

\* The executor comes to the end of its jobs or to an error (protocol/parallel.c), every stream
\* ends whatever its filters hold back (common/io/filter/group.c), every storage operation ends
\* however the data is cut into parts and requests are tried again (storage/s3/write.c), and so do a
\* connection, whatever addresses and sessions are tried (socket/client.c), and an operation on another
\* host (storage/remote/read.c).
WorkEnds ==
    <>(CASE part = "parallel" -> PoolEnded [] part = "io" -> Ios!StreamEnded [] part = "objects" -> Obj!AllEnded
         [] part = "connection" -> Ios!ConnectionEnded [] part = "remote" -> Rem!RemoteEnded)
=============================================================================
