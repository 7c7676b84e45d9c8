----------------------------- MODULE ObjectStore ----------------------------
(***************************************************************************)
(* The S3, Azure and GCS drivers over the HTTP client: files written in    *)
(* parts that are uploaded while the next one fills, files read with       *)
(* retries from the place where a read failed, and paths removed in        *)
(* batches while the next page of the listing is already asked for.        *)
(*                                                                         *)
(* The tasks of one process share the client.  A storage call runs to its  *)
(* end before another task goes on; requests that are sent and not waited  *)
(* for stay out between calls.                                             *)
(***************************************************************************)
EXTENDS Integers, Sequences, FiniteSets, SequencesExt

CONSTANTS
    Slots,        \* places for requests
    Sessions,     \* numbers of sessions
    MaxFaults,    \* bound on broken connections and answers that ask for a retry
    Writers,      \* tasks that write the object Target
    Readers,      \* tasks that read the object Source
    Remover,      \* the task that removes the path
    Lister,       \* the second slot of the remover, for its list requests
    Together,     \* sets of tasks that run in one process
    Drivers,      \* drivers to check, of "s3", "azure", "gcs"
    Size,         \* length of the files written
    InputSize,    \* what one write hands to the driver
    PartSize,     \* size of the first parts
    SplitAt,      \* parts after which they get larger
    ReadSize,     \* buffer of a reader
    SourceData,   \* contents of Source
    Page,         \* files in a page of the listing
    DeleteMax,    \* files in a delete request
    Paths,        \* number of files in the path that is removed
    None

VARIABLES
    session,   \* session[s]: [held, alive, wire], wire being what the server sent
    reuse,     \* sessionReuseList
    slot,      \* slot[k]: [req, sess], the request and the session it was sent on
    faults,    \* faults so far
    driver,    \* the driver
    object,    \* the object Target: contents, or None
    upload,    \* upload[w]: parts of a writer that the server has, or None
    stored,    \* writers whose contents were the object (history)
    files,     \* files in the path
    task,      \* task[t]: state of a task
    call       \* the task in a storage call, or None

httpVars == <<session, reuse, slot, faults>>
storeVars == <<driver, object, upload, stored, files, task, call>>
vars == <<httpVars, storeVars>>

-----------------------------------------------------------------------------
(***************************************************************************)
(* The HTTP client: sessions that are kept for reuse, requests that may be *)
(* sent without waiting for their response, retries, and responses whose   *)
(* content is cached or read by the caller piece by piece.  Several        *)
(* requests of one process may be out at a time, each on its own session.  *)
(* A slot is a place that can hold one request.  A connection may break at *)
(* any time; the client notices when it uses it.                           *)
(***************************************************************************)
Closed == [held |-> FALSE, alive |-> FALSE, wire |-> <<>>]
NoRequest == [req |-> None, sess |-> None]

HttpInit ==
    /\ session = [s \in Sessions |-> Closed]
    /\ reuse = <<>>
    /\ slot = [k \in Slots |-> NoRequest]
    /\ faults = 0

(***************************************************************************)
(* A response: for which request, its code, how the end of its content is  *)
(* known and the content that is not read yet.  Chunked content has an end *)
(* mark of its own; a server that closes ends the content with the         *)
(* connection.  Connections are TLS, which tells that end from a cut: on a *)
(* plain socket (an http URL) httpResponseRead() takes a cut for the end   *)
(* of such content and what is read may be short.                          *)
(***************************************************************************)
End == None
Codes == {"ok", "missing", "refused", "retry"}
Frames == {"length", "chunked", "close"}

Response(k, code, frame, body) ==
    [for |-> <<k, slot[k].req>>, code |-> code, frame |-> frame,
     body |-> IF frame = "chunked" THEN Append(body, End) ELSE body]

Unsent(k) == slot[k].req # None /\ slot[k].sess = None
Sent(k) == slot[k].sess # None

\* httpClientOpen(): the first session to reuse, or a new one.
HttpClientOpen == IF reuse # <<>> THEN Head(reuse) ELSE CHOOSE s \in Sessions : ~session[s].held
Reused == reuse # <<>>
Reaches == Reused => session[HttpClientOpen].alive

SendOn(k, alive, answer) ==
    LET s == HttpClientOpen IN
    /\ session' = [session EXCEPT ![s] = [held |-> TRUE, alive |-> alive, wire |-> @.wire \o answer]]
    /\ reuse' = IF Reused THEN Tail(reuse) ELSE reuse
    /\ slot' = [slot EXCEPT ![k].sess = s]

\* The request is sent and served; or the connection is lost before the answer, whether
\* or not it was served; or the session was closed by the server while it was kept.
HttpRequestSent(k, response) ==
    /\ Unsent(k) /\ Reaches
    /\ SendOn(k, TRUE, <<response>>)
    /\ faults' = IF response.code = "retry" THEN faults + 1 ELSE faults
    /\ faults' <= MaxFaults

HttpRequestLost(k) == Unsent(k) /\ Reaches /\ faults < MaxFaults /\ SendOn(k, FALSE, <<>>) /\ faults' = faults + 1
HttpRequestStale(k) == Unsent(k) /\ ~Reaches /\ SendOn(k, FALSE, <<>>) /\ UNCHANGED faults

\* httpSessionFree() and httpClientReuse().
Freed(s) == [session EXCEPT ![s] = Closed]
Discard(s) == session' = Freed(s) /\ UNCHANGED reuse
Keep(s) == session' = [session EXCEPT ![s].wire = Tail(@)] /\ reuse' = Append(reuse, s)

Answer(k) == Head(session[slot[k].sess].wire)
Answered(k) == Sent(k) /\ session[slot[k].sess].alive /\ session[slot[k].sess].wire # <<>>
Broken(k) == Sent(k) /\ ~session[slot[k].sess].alive

\* httpResponseDone(): a session the server closes is not kept.
HttpResponseDone(k) ==
    IF Answer(k).frame = "close" THEN Discard(slot[k].sess) ELSE Keep(slot[k].sess)

\* httpResponseNew() with the content cached, and what the request then becomes.
HttpResponseCached(k, next) ==
    /\ Answered(k) /\ Answer(k).code # "retry"
    /\ HttpResponseDone(k)
    /\ slot' = [slot EXCEPT ![k] = [req |-> next, sess |-> None]]
    /\ UNCHANGED faults

\* A response code that asks for a retry.  Its content is read, so its session is kept.
HttpResponseRetry(k) ==
    /\ Answered(k) /\ Answer(k).code = "retry"
    /\ HttpResponseDone(k)
    /\ slot' = [slot EXCEPT ![k].sess = None]
    /\ UNCHANGED faults

\* CATCH_ANY(): a response that cannot be read is given up with its session and the
\* request is sent again on another one.
HttpRequestRetry(k) ==
    /\ Broken(k)
    /\ Discard(slot[k].sess)
    /\ slot' = [slot EXCEPT ![k].sess = None]
    /\ UNCHANGED faults

\* The session of a response that is freed before its content is read, kept all the same.
HttpFreeKept(K) ==
    /\ reuse' = reuse \o (IF \E k \in K : Answered(k)
                          THEN <<slot[CHOOSE k \in K : Answered(k)].sess>> ELSE <<>>)
    /\ slot' = [k \in Slots |-> IF k \in K THEN NoRequest ELSE slot[k]]
    /\ UNCHANGED <<session, faults>>

\* httpRequestFree(), httpResponseFree(): the sessions of the requests K go with them.
HttpFree(K) ==
    /\ session' = [s \in Sessions |-> IF \E k \in K : slot[k].sess = s THEN Closed ELSE session[s]]
    /\ slot' = [k \in Slots |-> IF k \in K THEN NoRequest ELSE slot[k]]
    /\ UNCHANGED <<reuse, faults>>

\* httpResponseRead(): one more piece of the content, and whether that was the last.
Piece(k) == Head(Answer(k).body)
Unread(k) == IF Answer(k).body = <<>> THEN <<>> ELSE Tail(Answer(k).body)
AtEnd(k) == CASE Answer(k).frame = "chunked" -> Piece(k) = End
             [] Answer(k).frame = "length" -> Len(Answer(k).body) <= 1
             [] Answer(k).frame = "close" -> Answer(k).body = <<>>

HttpResponseRead(k) ==
    /\ Answered(k)
    /\ IF AtEnd(k) THEN HttpResponseDone(k) /\ slot' = [slot EXCEPT ![k] = NoRequest]
       ELSE /\ session' = [session EXCEPT ![slot[k].sess].wire[1].body = Unread(k)]
            /\ UNCHANGED <<reuse, slot>>
    /\ UNCHANGED faults

\* The server or the network closes a connection: what is not read yet is lost.
HttpBreak(s) ==
    /\ session[s].alive /\ faults < MaxFaults
    /\ session' = [session EXCEPT ![s].alive = FALSE]
    /\ faults' = faults + 1
    /\ UNCHANGED <<reuse, slot>>

-----------------------------------------------------------------------------
(***************************************************************************)
(* The drivers: their tasks, and what they store.                          *)
(***************************************************************************)
Tasks == Writers \union Readers \union {Remover}
Data(w) == [i \in 1..Size |-> <<w, i>>]

NewWriter(w) == [pc |-> "idle", left |-> Data(w), input |-> <<>>, buf |-> <<>>, cap |-> 0,
                 size |-> PartSize, started |-> FALSE, parts |-> 0, closing |-> FALSE]
NewReader == [pc |-> "open", got |-> <<>>, buf |-> <<>>, tries |-> 0]
NewRemover == [pc |-> "start", page |-> <<>>, batch |-> {}, more |-> FALSE, failed |-> {}]

Init ==
    /\ HttpInit
    /\ driver \in Drivers
    /\ object = None /\ stored = {}
    /\ upload = [w \in Writers |-> IF driver = "azure" THEN <<>> ELSE None]
    /\ files = 1..Paths
    /\ \E T \in Together : task = [t \in Tasks |->
            IF t \notin T THEN [pc |-> "error"] ELSE IF t \in Writers THEN NewWriter(t)
            ELSE IF t \in Readers THEN NewReader ELSE NewRemover]
    /\ call = None

Ended(t) == task[t].pc \in {"done", "closed", "error"}
At(t, pc) == task[t].pc = pc /\ call \in {None, t}
Set(t, r) ==
    /\ task' = [task EXCEPT ![t] = r]
    /\ call' = IF r.pc \in {"idle", "open", "reading", "done", "closed", "error"} THEN None ELSE t
Goto(t, pc) == Set(t, [task[t] EXCEPT !.pc = pc])
Request(k, op, arg) == slot' = [slot EXCEPT ![k].req = [op |-> op, arg |-> arg]]
               /\ UNCHANGED <<session, reuse, faults>>
SlotsOf(t) == IF t = Remover THEN {t, Lister} ELSE {t}
TaskOf(k) == IF k = Lister THEN Remover ELSE k
Op(k) == slot[k].req.op
Arg(k) == slot[k].req.arg
server == <<driver, object, upload, stored, files>>

(***************************************************************************)
(* The server (external).  A part that is sent again replaces itself.  An  *)
(* S3 upload that is completed is gone; Azure drops the blocks that were   *)
(* not committed with a blob, whoever sent them; the last part completes a *)
(* GCS upload and may be sent again.                                       *)
(***************************************************************************)
Upload(k) == [n \in DOMAIN upload[k] \union {Arg(k).n} |-> IF n = Arg(k).n THEN Arg(k).data ELSE upload[k][n]]
Missing(k) ==
    /\ Op(k) \in {"part", "commit"}
    /\ IF upload[k] = None THEN TRUE ELSE Op(k) = "commit" /\ ~(1..Arg(k) \subseteq DOMAIN upload[k])

Store(k, data) == object' = data /\ stored' = stored \union {k}

Serve(k) ==
    \/ /\ Op(k) = "put" /\ Store(k, Arg(k))
       /\ UNCHANGED <<upload, files>>
    \/ /\ Op(k) = "begin" /\ upload' = [upload EXCEPT ![k] = <<>>]
       /\ UNCHANGED <<object, stored, files>>
    \/ /\ Op(k) = "part" /\ ~Missing(k) /\ upload' = [upload EXCEPT ![k] = Upload(k)]
       /\ IF Arg(k).last THEN Store(k, FlattenSeq(Upload(k))) ELSE UNCHANGED <<object, stored>>
       /\ UNCHANGED files
    \/ /\ Op(k) = "commit" /\ ~Missing(k) /\ Store(k, FlattenSeq(SubSeq(upload[k], 1, Arg(k))))
       /\ upload' = IF driver = "azure" THEN [w \in Writers |-> <<>>] ELSE [upload EXCEPT ![k] = None]
       /\ UNCHANGED files
    \/ /\ Op(k) \in {"delete", "remove"} /\ files' = files \ Arg(k)
       /\ UNCHANGED <<object, upload, stored>>
    \/ /\ Op(k) \in {"get", "list"} \/ Missing(k)
       /\ UNCHANGED <<object, upload, stored, files>>

\* A page of the files after a name, in order.
After(n) == {f \in files : f > n}
PageOf(n) == LET S == {f \in After(n) : Cardinality({g \in After(n) : g <= f}) <= Page}
             IN SetToSortSeq(S, <)

\* What the response says: data of an object, a page, or what a delete could not do.
Code(k) == IF Missing(k) \/ (Op(k) = "get" /\ Arg(k) > 0 /\ Arg(k) >= Len(SourceData)) THEN "refused" ELSE "ok"
Content(k) ==
    CASE Op(k) = "get" -> IF Code(k) = "ok" THEN SubSeq(SourceData, Arg(k) + 1, Len(SourceData)) ELSE <<>>
      [] Op(k) = "list" -> <<[page |-> PageOf(Arg(k)), more |-> Cardinality(After(Arg(k))) > Page]>>
      [] OTHER -> <<>>

(***************************************************************************)
(* One attempt to send the request of slot k.  After an asynchronous send  *)
(* the caller goes on.                                                     *)
(***************************************************************************)
Active(k) ==
    LET t == task[TaskOf(k)] IN
    /\ call = TaskOf(k)
    /\ CASE k \in Writers -> t.pc \in {"begin", "sending", "commit", "put", "part", "finish"}
         [] k \in Readers -> t.pc \in {"opening", "reopening"}
         [] k = Lister -> t.pc \in {"list", "listsend"}
         [] k = Remover -> t.pc \in {"single", "delsend", "delete", "end"}

ChunkSize(size, n) == IF n < SplitAt THEN size ELSE 2 * PartSize

\* storageWriteS3PartAsync(), then the loop of storageWriteS3().
PartSent(t) ==
    LET n == IF driver = "s3" THEN t.parts ELSE t.parts + 1 IN
    [t EXCEPT !.buf = <<>>, !.parts = n, !.size = ChunkSize(@, n),
              !.pc = IF t.closing THEN "finish" ELSE IF t.input = <<>> THEN "idle" ELSE "fill"]

SentAsync(k) ==
    LET t == task[TaskOf(k)] IN
    CASE t.pc = "sending" -> Set(k, PartSent(t))
      [] t.pc = "listsend" -> Goto(Remover, "page")
      [] t.pc = "delsend" -> Set(Remover, [t EXCEPT !.batch = {}, !.pc = "page"])
      [] OTHER -> UNCHANGED <<task, call>>

Send(k) ==
    /\ Active(k)
    /\ \/ \E frame \in Frames :
            /\ HttpRequestSent(k, Response(k, Code(k), frame, Content(k)))
            /\ Serve(k)
       \/ \E frame \in Frames :
            /\ HttpRequestSent(k, Response(k, "retry", frame, <<>>))
            /\ Serve(k) \/ UNCHANGED <<object, upload, stored, files>>
       \/ HttpRequestLost(k) /\ (Serve(k) \/ UNCHANGED <<object, upload, stored, files>>)
       \/ HttpRequestStale(k) /\ UNCHANGED <<object, upload, stored, files>>
    /\ SentAsync(k)
    /\ UNCHANGED driver

\* A delete request that leaves some of its files.
SendDelete(k, failed) ==
    /\ Active(k) /\ Unsent(k) /\ Op(k) = "delete" /\ driver # "azure"
    /\ failed # {} /\ failed \subseteq Arg(k) /\ faults < MaxFaults
    /\ HttpRequestSent(k, Response(k, "ok", "length", <<failed>>))
    /\ files' = files \ (Arg(k) \ failed)
    /\ SentAsync(k)
    /\ UNCHANGED <<driver, object, upload, stored>>

\* S3 may find an upload wrong after it has said that all is well: no etag in the result.
SendCommitError(k) ==
    /\ Active(k) /\ Unsent(k) /\ Op(k) = "commit" /\ driver = "s3" /\ faults < MaxFaults
    /\ HttpRequestSent(k, Response(k, "ok", "length", <<"error">>))
    /\ SentAsync(k)
    /\ UNCHANGED server

\* httpRequestProcess(): another attempt, or the time is over and the error is thrown.
Retry(k) ==
    /\ Active(k) /\ task[TaskOf(k)].pc \notin {"sending", "listsend", "delsend"}
    /\ HttpRequestRetry(k) \/ HttpResponseRetry(k)
    /\ UNCHANGED storeVars

Error(t) ==
    /\ HttpFree(SlotsOf(t))
    /\ Goto(t, "error")
    /\ UNCHANGED server

GiveUp(k) ==
    /\ Active(k) /\ (Broken(k) \/ (Answered(k) /\ Answer(k).code = "retry"))
    /\ Error(TaskOf(k))

\* httpRequestError(): a response code that is not what the caller allows.
Refused(k) ==
    /\ Active(k) /\ Answered(k) /\ Answer(k).code = "refused"
    /\ Error(TaskOf(k))

Received(k) == Active(k) /\ HttpResponseCached(k, None) /\ Answer(k).code = "ok"

(***************************************************************************)
(* Writing: storageWriteS3(), storageWriteAzure(), storageWriteGcs() and   *)
(* their close functions.                                                  *)
(***************************************************************************)
Least(a, b) == IF a < b THEN a ELSE b

\* storageWriteChunkBufferResize().
ChunkBufferResizeOnce(t, n) == IF t.cap > 0 THEN t.cap ELSE Least(t.size, 2 * n)
ChunkBufferResize(t, n) ==
    IF t.cap >= t.size THEN t.cap
    ELSE Least(t.size, IF n = InputSize THEN (IF t.cap = 0 THEN 2 * n ELSE 2 * t.cap)
                       ELSE Len(t.buf) + n)

WriteStart(w) ==
    LET t == task[w]  n == Least(InputSize, Len(t.left)) IN
    /\ At(w, "idle") /\ t.left # <<>>
    /\ Set(w, [t EXCEPT !.input = SubSeq(t.left, 1, n), !.left = SubSeq(@, n + 1, Len(@)),
                        !.cap = ChunkBufferResize(t, n), !.pc = "fill"])
    /\ UNCHANGED <<httpVars, server>>

\* One round of the loop; a full part is uploaded.
WriteFill(w) ==
    LET t == task[w]  n == Least(t.cap - Len(t.buf), Len(t.input))
        buf == t.buf \o SubSeq(t.input, 1, n)  input == SubSeq(t.input, n + 1, Len(t.input)) IN
    /\ At(w, "fill")
    /\ Set(w, [t EXCEPT !.buf = buf, !.input = input,
                        !.pc = IF Len(buf) = t.size THEN "part" ELSE IF input = <<>> THEN "idle" ELSE "fill"])
    /\ UNCHANGED <<httpVars, server>>

\* storageWriteS3Part(): the response to the part before; S3 counts it only now.
PartReceived(w) ==
    /\ task[w].pc \in {"part", "finish"} /\ Received(w)
    /\ Set(w, [task[w] EXCEPT !.parts = IF driver = "s3" THEN @ + 1 ELSE @])
    /\ UNCHANGED server

PartRequest(w) ==
    LET t == task[w] IN
    /\ At(w, "part") /\ slot[w].req = None
    /\ IF driver = "azure" \/ t.started
       THEN /\ Request(w, "part", [n |-> t.parts + 1, data |-> t.buf, last |-> t.closing /\ driver = "gcs"])
            /\ Goto(w, "sending")
       ELSE Request(w, "begin", None) /\ Goto(w, "begin")
    /\ UNCHANGED server

Begun(w) ==
    /\ task[w].pc = "begin" /\ Received(w)
    /\ Set(w, [task[w] EXCEPT !.started = TRUE, !.pc = "part"])
    /\ UNCHANGED server

Multi(w) == task[w].started \/ (driver = "azure" /\ task[w].parts > 0)

WriteClose(w) ==
    LET t == task[w] IN
    /\ At(w, "idle") /\ t.left = <<>>
    /\ IF Multi(w)
       THEN /\ Set(w, [t EXCEPT !.closing = TRUE,
                                !.pc = IF t.buf # <<>> \/ driver = "gcs" THEN "part" ELSE "finish"])
            /\ UNCHANGED httpVars
       ELSE Request(w, "put", t.buf) /\ Goto(w, "put")
    /\ UNCHANGED server

Commit(w) ==
    /\ At(w, "finish") /\ slot[w].req = None
    /\ IF driver = "gcs" THEN Goto(w, "done") /\ UNCHANGED httpVars
       ELSE Request(w, "commit", task[w].parts) /\ Goto(w, "commit")
    /\ UNCHANGED server

\* The upload is stored, unless the result has no etag.
Etag(k) == Answer(k).body # <<"error">>

Written(w) ==
    /\ task[w].pc \in {"commit", "put"}
    /\ IF Answered(w) /\ ~Etag(w) THEN Active(w) /\ Error(w)
       ELSE Received(w) /\ Goto(w, "done") /\ UNCHANGED server

(***************************************************************************)
(* Reading: storageRead() over a driver's open, read and close.            *)
(***************************************************************************)
ReadOpen(r) ==
    /\ At(r, "open")
    /\ Request(r, "get", 0) /\ Goto(r, "opening")
    /\ UNCHANGED server

\* The header of the response is there; its content is left for the reads.
ReadOpened(r) ==
    /\ Active(r) /\ Answered(r) /\ Answer(r).code = "ok"
    /\ Goto(r, IF task[r].pc = "opening" THEN "reading" ELSE "read")
    /\ UNCHANGED <<httpVars, server>>

ReadStart(r) ==
    /\ At(r, "reading")
    /\ Set(r, [task[r] EXCEPT !.buf = <<>>, !.tries = 3, !.pc = "read"])
    /\ UNCHANGED <<httpVars, server>>

ReadPiece(r) ==
    LET t == task[r]
        buf == IF Answer(r).body = <<>> \/ Piece(r) = End THEN t.buf ELSE Append(t.buf, Piece(r))
    IN
    /\ At(r, "read")
    /\ HttpResponseRead(r)
    /\ IF AtEnd(r) THEN Set(r, [t EXCEPT !.got = @ \o buf, !.pc = "done"])
       ELSE IF Len(buf) = ReadSize THEN Set(r, [t EXCEPT !.got = @ \o buf, !.buf = <<>>, !.pc = "reading"])
       ELSE Set(r, [t EXCEPT !.buf = buf])
    /\ UNCHANGED server

\* A read that fails is tried again from the end of the last one that did not.
AgainKept(t) == [t EXCEPT !.tries = @ - 1, !.pc = "reopening"]
Again(t) == [t EXCEPT !.buf = <<>>, !.tries = @ - 1, !.pc = "reopening"]

ReadAgain(r) ==
    /\ At(r, "read") /\ Broken(r)
    /\ IF task[r].tries > 1
       THEN /\ session' = Freed(slot[r].sess)
            /\ slot' = [slot EXCEPT ![r] = [req |-> [op |-> "get", arg |-> Len(task[r].got)], sess |-> None]]
            /\ Set(r, Again(task[r]))
            /\ UNCHANGED <<reuse, faults, server>>
       ELSE Error(r)

\* The reader has what it wants before the end of the file.
ReadClose(r) ==
    /\ At(r, "reading")
    /\ HttpFree({r})
    /\ Goto(r, "closed")
    /\ UNCHANGED server

(***************************************************************************)
(* Removing a path: storageS3PathRemove() and storageS3ListInternal().     *)
(***************************************************************************)
RemoveStart ==
    /\ At(Remover, "start")
    /\ Request(Lister, "list", 0) /\ Goto(Remover, "list")
    /\ UNCHANGED server

\* A page: the next one is asked for before this one is looked at.
Listed ==
    LET t == task[Remover]  v == Answer(Lister).body[1]
        next == [op |-> "list", arg |-> v.page[Len(v.page)]] IN
    /\ t.pc = "list" /\ Active(Lister)
    /\ HttpResponseCached(Lister, IF v.more THEN next ELSE None) /\ Answer(Lister).code = "ok"
    /\ Set(Remover, [t EXCEPT !.page = v.page, !.more = v.more, !.pc = IF v.more THEN "listsend" ELSE "page"])
    /\ UNCHANGED server

\* The callback for each file of the page.
RemoveFile ==
    LET t == task[Remover] IN
    /\ At(Remover, "page") /\ t.page # <<>>
    /\ Set(Remover, [t EXCEPT !.page = Tail(@), !.batch = @ \union {Head(t.page)},
                        !.pc = IF Cardinality(t.batch) + 1 = DeleteMax THEN "delete" ELSE "page"])
    /\ UNCHANGED <<httpVars, server>>

PageEnd ==
    LET t == task[Remover] IN
    /\ At(Remover, "page") /\ t.page = <<>>
    /\ Goto(Remover, IF t.more THEN "list" ELSE IF t.batch # {} THEN "delete" ELSE "end")
    /\ UNCHANGED <<httpVars, server>>

\* storageS3PathRemoveInternal(): the response to the request before, what it could not
\* remove one at a time, then the next request.
FailedIgnored(k) == {}
Failed(k) == IF Answer(k).body \in {<<>>, <<End>>} THEN {} ELSE Answer(k).body[1]
DeleteReceived ==
    LET t == task[Remover] IN
    /\ t.pc \in {"delete", "end"} /\ Received(Remover)
    /\ Set(Remover, [t EXCEPT !.failed = IF Op(Remover) = "delete" THEN Failed(Remover) ELSE @])
    /\ UNCHANGED server

RemoveSingle(f) ==
    LET t == task[Remover] IN
    /\ t.pc \in {"delete", "end"} /\ call = Remover /\ slot[Remover].req = None /\ f \in t.failed
    /\ Request(Remover, "remove", {f})
    /\ Set(Remover, [t EXCEPT !.failed = @ \ {f}])
    /\ UNCHANGED server

DeleteRequest ==
    LET t == task[Remover] IN
    /\ At(Remover, "delete") /\ slot[Remover].req = None /\ t.failed = {}
    /\ Request(Remover, "delete", t.batch)
    /\ Goto(Remover, "delsend")
    /\ UNCHANGED server

RemoveEnd ==
    /\ At(Remover, "end") /\ slot[Remover].req = None /\ task[Remover].failed = {}
    /\ Goto(Remover, "done")
    /\ UNCHANGED <<httpVars, server>>

Break(s) == HttpBreak(s) /\ UNCHANGED storeVars

Next ==
    \/ \E k \in Slots : Send(k) \/ SendCommitError(k) \/ Retry(k) \/ GiveUp(k) \/ Refused(k)
    \/ \E k \in Slots, F \in SUBSET (1..Paths) : SendDelete(k, F)
    \/ \E w \in Writers : \/ WriteStart(w) \/ WriteFill(w) \/ PartReceived(w) \/ PartRequest(w) \/ Begun(w)
                          \/ WriteClose(w) \/ Commit(w) \/ Written(w)
    \/ \E r \in Readers : \/ ReadOpen(r) \/ ReadOpened(r) \/ ReadStart(r) \/ ReadPiece(r) \/ ReadAgain(r)
                          \/ ReadClose(r)
    \/ RemoveStart \/ Listed \/ RemoveFile \/ PageEnd \/ DeleteReceived \/ DeleteRequest \/ RemoveEnd
    \/ \E f \in 1..Paths : RemoveSingle(f)
    \/ \E s \in Sessions : Break(s)

Spec == Init /\ [][Next]_vars
FairSpec == Spec /\ WF_vars(Next)

(* A session is never used for two requests: one that is kept for reuse has nothing
   left to read, and what a request finds on its session is its own response.  Otherwise
   one object would be stored or restored with the contents of another. *)
OwnResponse ==
    /\ \A i \in DOMAIN reuse : session[reuse[i]].wire = <<>>
    /\ \A k \in Slots : Answered(k) => Answer(k).for = <<k, slot[k].req>>
    /\ \A k, l \in Slots : Sent(k) /\ slot[k].sess = slot[l].sess => k = l

(* What is stored under a name is always one whole file that somebody wrote, never part
   of one or a mixture, whatever was lost, retried or sent by others. *)
ObjectIsWhole == object # None => \E w \in Writers : object = Data(w)

(* A file that was written without an error was stored. *)
WrittenIsStored == \A w \in Writers : task[w].pc = "done" => w \in stored

(* What a reader got over TLS is the beginning of the file, all of it at the end, without a
   gap or a repetition where it was tried again. *)
ReadIsExact ==
    \A r \in Readers :
        /\ ~Ended(r) => IsPrefix(task[r].got, SourceData)
        /\ task[r].pc = "done" => task[r].got = SourceData

(* What is stored, and what is read, is what was written: the three together. *)
TransfersAreExact == ObjectIsWhole /\ WrittenIsStored /\ ReadIsExact

(* A path that was removed without an error is empty: nothing is lost between two pages
   and two requests that overlap. *)
RemovedIsEmpty == task[Remover].pc = "done" => files = {}

(* Every task ends, with an error when the server cannot be reached. *)
AllEnded == \A t \in Tasks : Ended(t)
=============================================================================
