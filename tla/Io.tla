--------------------------------- MODULE Io ---------------------------------
(***************************************************************************)
(* Reading and writing through a chain of filters: ioRead() and its        *)
(* variants, ioWrite(), ioWriteClose(), ioFilterGroupProcess() and the     *)
(* filters that compress, encrypt, count and copy.  One step is one call   *)
(* of one filter.  How much a library emits of what it was given, and how  *)
(* much a driver reads, are choices within what their interfaces promise.  *)
(*                                                                         *)
(* Bytes are positive numbers; what the formats add is negative.  A        *)
(* compressor adds a head and a tail; a decompressor turns every code into *)
(* two bytes.  A gz stream without a tail (raw) has its end in the last    *)
(* code.  A buffer is a sequence; Null is the end of the data.             *)
(*                                                                         *)
(* A connection of a client: sckClientOpen() tries the addresses of a host *)
(* one after the other without waiting for the earlier ones to fail, a TLS *)
(* session is negotiated on the socket and tried again on another one when *)
(* that fails, a request is written in pieces and the answer is read in    *)
(* pieces until a buffer is full or the peer has closed.                   *)
(*                                                                         *)
(* The request and the answer are sequences of bytes, numbered from 1.     *)
(* What a socket does (connect, refuse, take part of the data) is chosen   *)
(* freely, a call that waits may time out.                                 *)
(***************************************************************************)
EXTENDS Integers, Sequences, FiniteSets, SequencesExt, FiniteSetsExt

CONSTANTS
    Streams,      \* [mode, chain, ops]: read or write, the filters, calls to read with
    Raw,          \* are gz streams raw?
    Block,        \* block size of the cipher
    LineSize,     \* length of a line
    BufferSize,   \* ioBufferSize()
    Sizes,        \* sizes of the buffers that callers read into
    MaxData,      \* bound on the data

    MaxRounds,    \* bound on the rounds through the addresses while there is time
    MaxTries,     \* bound on the TLS sessions that are tried
    Request, Answer,   \* number of bytes
    Modes         \* subset of [addresses : Nat, tls, ignoreEof : BOOLEAN]

VARIABLES
    io,       \* what is read or written: mode, chain, ops, want, left, eof
    fl,       \* fl[i]: state of filter i
    out,      \* out[i]: output buffer of filter i, or Null; the last is the caller's
    grp,      \* the filter group: same, done, and the filter at work
    rd,       \* the reader or writer
    pc,

    net,
    sock,    \* sock[s]: what the kernel knows of the socket; numbers are used again
    conn,    \* openDataList: the socket of each address that was tried, 0 for none
    client,       \* the client
    peer     \* the other side of the session: what it got and sent, whether it closed

vars == <<io, fl, out, grp, rd, pc>>

Null == <<-99>>
Header == -1
Trailer == -2
Salt == <<-3, -4>>
Pad == -5
End == 100       \* added to the last code of a raw stream

Least(a, b) == IF a <= b THEN a ELSE b
Firsts(s, n) == SubSeq(s, 1, n)
Rest(s, n) == SubSeq(s, n + 1, Len(s))

(***************************************************************************)
(* What each filter is for, given all of its input.                        *)
(***************************************************************************)
Compressors == {"gzip", "bzip2", "zstd", "lz4"}
Decompressors == {"gunzip", "bunzip2", "unzstd", "unlz4"}
Ciphers == {"encrypt", "decrypt"}
IsOutput(k) == k \notin {"size", "hash"}

Codes(s) == SelectSeq([i \in DOMAIN s |-> s[i] % End], LAMBDA c : c < 50 /\ c > 0)
Decoded(s) == LET c == Codes(s) IN [i \in 1..(2 * Len(c)) |-> c[(i + 1) \div 2]]

Apply(s, k) ==
    CASE k \in Compressors   -> <<Header>> \o s \o <<Trailer>>
      [] k \in Decompressors -> Decoded(s)
      [] k = "encrypt"       -> Salt \o s \o <<Pad>>
      [] k = "decrypt"       -> SubSeq(s, 3, Len(s) - 1)
      [] k = "sink"          -> <<>>
      [] OTHER               -> s

After(s, chain) == FoldLeft(Apply, s, chain)

\* What a repository holds for n bytes or codes, to be read through this chain.
Packed(chain, n) ==
    IF Contains(chain, "gunzip") /\ Raw
    THEN IF n = 0 THEN <<End>> ELSE [i \in 1..n |-> IF i = n THEN i + End ELSE i]
    ELSE IF \E k \in Decompressors : Contains(chain, k) THEN <<Header>> \o [i \in 1..n |-> i] \o <<Trailer>>
    ELSE [i \in 1..n |-> i]

Stored(chain, n) ==
    IF Contains(chain, "decrypt") THEN Salt \o Packed(chain, n) \o <<Pad>> ELSE Packed(chain, n)

\* A stream that is cut short can be told from a whole one.
Guarded(chain) == \E k \in Decompressors \union {"decrypt"} : Contains(chain, k)

(***************************************************************************)
(* ioFilterGroupOpen(): a chain that ends without an output gets a buffer. *)
(***************************************************************************)
Opened(chain) == IF chain = <<>> \/ ~IsOutput(Last(chain)) THEN Append(chain, "buffer") ELSE chain

NewFilter(k) ==
    [kind |-> k, flushing |-> FALSE, same |-> FALSE,
     done |-> k \notin Compressors \union Decompressors \union Ciphers,
     pos  |-> 0,      \* position in the input, stream.next_in
     lib  |-> IF k \in Compressors \ {"lz4"} THEN <<Header>> ELSE <<>>,  \* held by the library
     buf  |-> <<>>,   \* the filter's own buffer for output
     head |-> 0,      \* header read or written; end of the stream seen
     seen |-> <<>>]   \* what a filter without output was given

Open(mode, chain, ops, data, want, whole) ==
    /\ io = [mode |-> mode, chain |-> Opened(chain), ops |-> ops, data |-> data, want |-> want, whole |-> whole,
             left |-> data, eof |-> FALSE]
    /\ fl = [i \in DOMAIN Opened(chain) |-> NewFilter(Opened(chain)[i])]
    /\ out = [i \in DOMAIN Opened(chain) |-> <<>>]
    /\ grp = [same |-> FALSE, done |-> FALSE, i |-> 0]
    /\ rd = [input |-> <<>>, op |-> "none", cap |-> BufferSize, begin |-> 0, block |-> TRUE, fresh |-> TRUE, inner |-> <<>>,
             part |-> <<>>, size |-> 0, to |-> "caller", got |-> <<>>, eof |-> FALSE]
    /\ pc = "idle"

Init ==
    \E st \in Streams, n \in 0..MaxData :
        LET all == Stored(st.chain, n)
        IN  \E len \in (IF Guarded(st.chain) THEN 0..Len(all) ELSE {Len(all)}) :
                Open(st.mode, st.chain, st.ops, Firsts(all, len), After(all, st.chain), len = Len(all))

N == Len(io.chain)

(***************************************************************************)
(* The filters.  A result is what was put out, the filter after it and     *)
(* whether there was no error.                                             *)
(***************************************************************************)
Result(o, x) == [out |-> o, f |-> x, ok |-> TRUE]
Throw(x) == [out |-> <<>>, f |-> x, ok |-> FALSE]

\* Copies what fits.
IoBufferProcess(x, in, room) ==
    LET n == Least(Len(in) - x.pos, room)
        more == x.pos + n < Len(in)
    IN  {Result(SubSeq(in, x.pos + 1, x.pos + n), [x EXCEPT !.same = more, !.pos = IF more THEN @ + n ELSE 0])}

IoSinkProcess(x, in, room) == {Result(<<>>, x)}

\* deflate() and its likes: input is left only when the output is full.
Deflate(x, in, room) ==
    LET new == Rest(in, x.pos)
    IN  UNION {LET lib == x.lib \o Firsts(new, k)
                   more == k < Len(new)
               IN  {Result(Firsts(lib, e), [x EXCEPT !.lib = Rest(lib, e), !.same = more,
                                                     !.pos = IF more THEN @ + k ELSE 0]) :
                    e \in {e \in 0..Least(room, Len(lib)) : more => e = room}} :
               k \in 0..Len(new)}

\* The end may be reported by a call of its own when the output was filled exactly,
\* but not by ZSTD_endStream(), which reports what is left.
Finish(x, room, exact) ==
    LET lib == IF x.flushing THEN x.lib ELSE Append(x.lib, Trailer)
        e == Least(room, Len(lib))
    IN  {Result(Firsts(lib, e), [x EXCEPT !.lib = Rest(lib, e), !.done = d, !.same = ~d]) :
            d \in {e = Len(lib)} \union (IF e = room /\ ~exact THEN {FALSE} ELSE {})}

GzCompressProcess(x, in, room) == IF in = Null THEN Finish(x, room, FALSE) ELSE Deflate(x, in, room)
Bz2CompressProcess(x, in, room) == IF in = Null THEN Finish(x, room, FALSE) ELSE Deflate(x, in, room)
ZstCompressProcess(x, in, room) == IF in = Null THEN Finish(x, room, TRUE) ELSE Deflate(x, in, room)

\* From the filter's own buffer to the output.
Lz4CompressFlush(x, room, emitted) ==
    LET n == Least(room, Len(x.buf))
    IN  Result(emitted \o Firsts(x.buf, n), [x EXCEPT !.buf = Rest(@, n), !.same = n < Len(x.buf)])

\* Is the filter's own buffer used?
Lz4CompressBuffer(buf, required, room) == buf # <<>> \/ required >= room

Lz4Finished(in, r) == [r EXCEPT !.f.done = in = Null /\ ~r.f.same]

Lz4CompressProcess(x, in, room) ==
    IF x.same THEN {Lz4Finished(in, Lz4CompressFlush(x, room, <<>>))}
    ELSE LET first == IF x.head = 0 THEN <<Header>> ELSE <<>>
             own == x.head = 0 /\ Lz4CompressBuffer(x.buf, 1, room)
             put == IF own THEN <<>> ELSE first
             buf == IF own THEN x.buf \o first ELSE x.buf
             lib == x.lib \o (IF in = Null THEN <<Trailer>> ELSE in)
             left == room - Len(put)
         IN  {LET y == [x EXCEPT !.lib = Rest(lib, e), !.head = 1]
              IN  Lz4Finished(in,
                    IF Lz4CompressBuffer(buf, Len(lib) + 1, left)
                    THEN Lz4CompressFlush([y EXCEPT !.buf = buf \o Firsts(lib, e)], left, put)
                    ELSE Result(put \o Firsts(lib, e), y)) :
              e \in (IF in = Null THEN {Len(lib)} ELSE 0..Len(lib))}

\* inflate() and its likes: a code is read once what came before it is put out.
\* The tail is not read before everything is put out; the end of a raw stream comes
\* with its last code, so then there may be output left and no input.
Inflate(x, in, room) ==
    LET new == Rest(in, x.pos)
        k == Max({i \in 0..Len(new) : i = 0 \/ Len(x.lib) + Len(Decoded(Firsts(new, i - 1))) <= room})
        lib == x.lib \o Decoded(Firsts(new, k))
        e == Least(room, Len(lib))
    IN  [x EXCEPT !.lib = Rest(lib, e), !.pos = IF k < Len(new) THEN @ + k ELSE 0, !.same = k < Len(new),
                  !.head = IF \E i \in 1..k : new[i] = Trailer \/ new[i] >= End THEN 1 ELSE @,
                  !.seen = Firsts(lib, e)]

InflateEnded(y) == y.head = 1 /\ y.lib = <<>>

\* A flush means that the stream ended early, unless the end was seen.
GzDecompressProcess(x, in, room) ==
    IF in = Null THEN {Throw(x)}
    ELSE LET y == Inflate(x, in, room)
         IN  {Result(y.seen, [y EXCEPT !.done = InflateEnded(y), !.same = @ /\ ~InflateEnded(y), !.seen = <<>>])}

Bz2DecompressProcess(x, in, room) ==
    IF in = Null THEN {Throw(x)}
    ELSE LET y == Inflate(x, in, room)
         IN  {Result(y.seen, [y EXCEPT !.done = InflateEnded(y), !.same = @ /\ ~InflateEnded(y), !.seen = <<>>])}

Lz4DecompressProcess(x, in, room) ==
    IF in = Null THEN {IF InflateEnded(x) THEN Result(<<>>, [x EXCEPT !.done = TRUE]) ELSE Throw(x)}
    ELSE LET y == Inflate(x, in, room) IN {Result(y.seen, [y EXCEPT !.seen = <<>>])}

ZstDecompressProcess(x, in, room) ==
    IF in = Null THEN {IF InflateEnded(x) THEN Result(<<>>, [x EXCEPT !.done = TRUE]) ELSE Throw(x)}
    ELSE LET y == Inflate(x, in, room) IN {Result(y.seen, [y EXCEPT !.seen = <<>>])}

(***************************************************************************)
(* The cipher writes a header first, or reads it, and holds back what may  *)
(* be an incomplete or the last block.  Its own buffer is used when the    *)
(* output might not fit.                                                   *)
(***************************************************************************)
CipherBlockProcessSize(x, in) ==
    (IF in = Null THEN 0 ELSE Len(in)) + Block + (IF x.kind = "encrypt" /\ x.head = 0 THEN Len(Salt) ELSE 0)

CipherBlockProcessBlock(x, in) ==
    LET skip == IF x.kind = "decrypt" THEN Least(Len(Salt) - x.head, Len(in)) ELSE 0
        lib == x.lib \o Rest(in, skip)
        keep == IF x.kind = "decrypt" THEN 1..Block ELSE 0..(Block - 1)
        salt == IF x.kind = "encrypt" /\ x.head = 0 THEN Salt ELSE <<>>
        head == IF x.kind = "encrypt" THEN Len(Salt) ELSE x.head + skip
    IN  {Result(salt \o Firsts(lib, e), [x EXCEPT !.lib = Rest(lib, e), !.head = head]) :
            e \in {Max({Len(lib) - k, 0}) : k \in keep}}

CipherBlockFlush(x) ==
    LET y == CHOOSE r \in CipherBlockProcessBlock(x, <<>>) : r.f.lib = x.lib
        z == [y.f EXCEPT !.lib = <<>>, !.done = TRUE]
    IN  IF x.kind = "encrypt" THEN {Result(y.out \o Append(x.lib, Pad), z)}
        ELSE IF x.head = Len(Salt) /\ x.lib # <<>> /\ Last(x.lib) = Pad THEN {Result(Front(x.lib), z)}
        ELSE {Throw(x)}

CipherBlockProcess(x, in, room) ==
    IF x.buf # <<>> THEN {Lz4CompressFlush(x, room, <<>>)}
    ELSE {IF CipherBlockProcessSize(x, in) > room /\ r.ok /\ r.out # <<>>
          THEN Lz4CompressFlush([r.f EXCEPT !.buf = r.out], room, <<>>) ELSE r :
          r \in (IF in = Null THEN CipherBlockFlush(x) ELSE CipherBlockProcessBlock(x, in))}

Process(x, in, room) ==
    CASE x.kind = "buffer"  -> IoBufferProcess(x, in, room)
      [] x.kind = "sink"    -> IoSinkProcess(x, in, room)
      [] x.kind = "gzip"    -> GzCompressProcess(x, in, room)
      [] x.kind = "bzip2"   -> Bz2CompressProcess(x, in, room)
      [] x.kind = "zstd"    -> ZstCompressProcess(x, in, room)
      [] x.kind = "lz4"     -> Lz4CompressProcess(x, in, room)
      [] x.kind = "gunzip"  -> GzDecompressProcess(x, in, room)
      [] x.kind = "bunzip2" -> Bz2DecompressProcess(x, in, room)
      [] x.kind = "unzstd"  -> ZstDecompressProcess(x, in, room)
      [] x.kind = "unlz4"   -> Lz4DecompressProcess(x, in, room)
      [] x.kind \in Ciphers -> CipherBlockProcess(x, in, room)

(***************************************************************************)
(* ioFilterDone(), ioFilterProcessIn() and ioFilterProcessInOut().         *)
(***************************************************************************)

IoFilterDone(x) == x.flushing /\ x.done /\ ~x.same

\* The buffer that filter i reads: the output of the last one before it that has one.
Before(i) == Max({j \in 1..(i - 1) : IsOutput(fl[j].kind)} \union {0})
Input(i) == IF Before(i) = 0 THEN rd.input ELSE out[Before(i)]
Capacity(i) == IF i = N THEN rd.cap ELSE BufferSize
Room(i) == Capacity(i) - Len(out[i])

IoFilterProcessIn(x, in) == {Result(<<>>, [x EXCEPT !.seen = IF in = Null THEN @ ELSE @ \o in])}

IoFilterProcess(i) ==
    LET x == fl[i]
        y == [x EXCEPT !.flushing = @ \/ Input(i) = Null]
        results == IF IoFilterDone(y) THEN {Result(<<>>, y)}
                   ELSE IF IsOutput(x.kind) THEN Process(x, Input(i), Room(i)) ELSE IoFilterProcessIn(x, Input(i))
    IN  {[r EXCEPT !.f.flushing = y.flushing] : r \in results}

\* "expected data or flush", "no data allowed after flush" and "expected input to be
\* consumed or some output".
Checks(i, r) ==
    /\ Input(i) # <<>>
    /\ fl[i].flushing => Input(i) = Null
    /\ r.f.same => out[i] \o r.out # <<>>

(***************************************************************************)
(* ioFilterGroupProcess(), one filter at a time.                           *)
(***************************************************************************)
\* The last filter that was not able to put out everything.
FirstSame == LET S == {i \in 1..N : fl[i].same} IN IF S = {} THEN 0 ELSE Min(S)

LatestSame == Max({i \in 1..N : fl[i].same} \union {0})

GroupStart ==
    /\ pc = "group"
    /\ LET i == IF grp.same THEN LatestSame ELSE 1
       IN  IF i = 0 THEN grp' = [grp EXCEPT !.same = FALSE] /\ pc' = "scan"
           ELSE grp' = [grp EXCEPT !.i = i] /\ pc' = "filter"
    /\ UNCHANGED <<io, fl, out, rd>>

\* The output of filter i, and the input it has consumed.
Outputs(i, r) ==
    [j \in 1..N |->
        IF j = i THEN out[i] \o r.out
        ELSE IF j = Before(i) /\ IsOutput(fl[i].kind) /\ ~r.f.same /\ out[j] # Null THEN <<>>
        ELSE out[j]]

\* A filter that is done and has nothing to put out hands on the end of the data.
HandOnEndNever(i, bufs, x) == bufs

HandOnEnd(i, bufs, x) == IF i < N /\ IsOutput(x.kind) /\ IoFilterDone(x) /\ bufs[i] = <<>>
                         THEN [bufs EXCEPT ![i] = Null] ELSE bufs

GroupGoOn(i, bufs, x) == IoFilterDone(x) \/ ~IsOutput(x.kind) \/ Len(bufs[i]) = Capacity(i)

\* An error of a filter is reported by the caller; a failed check is a bug.
GroupFilter ==
    /\ pc = "filter"
    /\ LET i == grp.i
           next == IF i = N THEN "again" ELSE "filter"
       IN  /\ IF IoFilterDone(fl[i])
              THEN out' = HandOnEnd(i, out, fl[i]) /\ pc' = next /\ UNCHANGED fl
              ELSE \E r \in IoFilterProcess(i) :
                    LET bufs == Outputs(i, r)
                        goOn == GroupGoOn(i, bufs, r.f)
                    IN  /\ fl' = [fl EXCEPT ![i] = r.f]
                        /\ out' = IF goOn THEN HandOnEnd(i, bufs, r.f) ELSE bufs
                        /\ pc' = IF ~r.ok THEN "error" ELSE IF ~Checks(i, r) THEN "assert"
                                 ELSE IF goOn THEN next ELSE "again"
           /\ grp' = [grp EXCEPT !.i = i + 1, !.same = @ \/ fl'[i].same]
    /\ UNCHANGED <<io, rd>>

GroupAgain ==
    /\ pc = "again"
    /\ pc' = IF grp.same /\ Room(N) > 0 THEN "group" ELSE "scan"
    /\ UNCHANGED <<io, fl, out, grp, rd>>

GroupScan ==
    /\ pc = "scan"
    /\ grp' = [grp EXCEPT !.same = LatestSame # 0, !.done = \A i \in 1..N : ~fl[i].same /\ IoFilterDone(fl[i])]
    /\ pc' = IF io.mode = "read" THEN "processed" ELSE "drain"
    /\ UNCHANGED <<io, fl, out, rd>>

(***************************************************************************)
(* ioReadInternal() fills out[N].                                          *)
(***************************************************************************)
Internal(r, target, cap, block) ==
    /\ out' = [out EXCEPT ![N] = target]
    /\ rd' = [r EXCEPT !.cap = cap, !.begin = Len(target), !.block = block]
    /\ pc' = "internal"

ReadDone ==
    /\ pc = "internal" /\ (rd.eof \/ Room(N) = 0)
    /\ pc' = "returned"
    /\ UNCHANGED <<io, fl, out, grp, rd>>

ReadSame ==
    /\ pc = "internal" /\ ~rd.eof /\ Room(N) > 0 /\ grp.same
    /\ pc' = "group"
    /\ rd' = [rd EXCEPT !.fresh = FALSE]
    /\ UNCHANGED <<io, fl, out, grp>>

\* A driver may read less than was asked for, and may know at once that it is at the end.
ReadDriver ==
    /\ pc = "internal" /\ ~rd.eof /\ Room(N) > 0 /\ ~grp.same
    /\ rd.input # Null /\ ~io.eof
    /\ \E n \in 0..Least(BufferSize, Len(io.left)) :
        \E eof \in BOOLEAN :
            /\ n = 0 => io.left = <<>> /\ eof
            /\ eof => n = Len(io.left)
            /\ rd' = [rd EXCEPT !.input = Firsts(io.left, n), !.fresh = TRUE]
            /\ io' = [io EXCEPT !.left = Rest(@, n), !.eof = eof]
            /\ pc' = IF n = 0 THEN "processed" ELSE "group"
    /\ UNCHANGED <<fl, out, grp>>

ReadFlush ==
    /\ pc = "internal" /\ ~rd.eof /\ Room(N) > 0 /\ ~grp.same
    /\ rd.input = Null \/ io.eof
    /\ rd' = [rd EXCEPT !.input = Null, !.fresh = TRUE]
    /\ pc' = "group"
    /\ UNCHANGED <<io, fl, out, grp>>

\* Without blocking it is enough that there is something; then the end is not looked for.
ReadProcessedData ==
    /\ pc = "processed"
    /\ IF rd.fresh /\ ~rd.block /\ Len(out[N]) > rd.begin THEN pc' = "returned" /\ UNCHANGED rd
       ELSE pc' = "internal" /\ rd' = [rd EXCEPT !.eof = io.eof /\ grp.done /\ Len(out[N]) > rd.begin]
    /\ UNCHANGED <<io, fl, out, grp>>

ReadProcessed ==
    /\ pc = "processed"
    /\ IF rd.fresh /\ ~rd.block /\ Len(out[N]) > rd.begin THEN pc' = "returned" /\ UNCHANGED rd
       ELSE pc' = "internal" /\ rd' = [rd EXCEPT !.eof = io.eof /\ grp.done]
    /\ UNCHANGED <<io, fl, out, grp>>

(***************************************************************************)
(* The calls of a reader, until it is told that it is at the end.  A      *)
(* linefeed is every LineSize-th byte.                                     *)
(***************************************************************************)
IoRead(size) ==
    /\ pc = "idle" /\ io.mode = "read" /\ "read" \in io.ops /\ ~rd.eof
    /\ LET n == Least(size, Len(rd.inner))
       IN  Internal([rd EXCEPT !.op = "read", !.inner = Rest(@, n)], Firsts(rd.inner, n), size, TRUE)
    /\ UNCHANGED <<io, fl, grp>>

IoReadSmall(size) ==
    /\ pc = "idle" /\ io.mode = "read" /\ "small" \in io.ops /\ ~rd.eof
    /\ rd' = [rd EXCEPT !.op = "small", !.part = <<>>, !.size = size]
    /\ pc' = "small"
    /\ UNCHANGED <<io, fl, out, grp>>

IoReadLine ==
    /\ pc = "idle" /\ io.mode = "read" /\ "line" \in io.ops /\ ~rd.eof
    /\ rd' = [rd EXCEPT !.op = "line"]
    /\ pc' = "line"
    /\ UNCHANGED <<io, fl, out, grp>>

\* From the internal buffer first, then directly when there is room for a buffer of it.
SmallMore ==
    /\ pc = "small"
    /\ LET n == Least(rd.size - Len(rd.part), Len(rd.inner))
           part == rd.part \o Firsts(rd.inner, n)
           r == [rd EXCEPT !.part = part, !.inner = Rest(@, n)]
       IN  IF Len(part) = rd.size
           THEN rd' = [r EXCEPT !.got = @ \o part] /\ pc' = "idle" /\ UNCHANGED out
           ELSE IF rd.size - Len(part) >= BufferSize THEN Internal([r EXCEPT !.to = "caller"], part, rd.size, TRUE)
           ELSE Internal([r EXCEPT !.to = "inner"], <<>>, BufferSize, FALSE)
    /\ UNCHANGED <<io, fl, grp>>

LineEnds(s) == {i \in DOMAIN s : s[i] % LineSize = 0}

LineMore ==
    /\ pc = "line"
    /\ IF LineEnds(rd.inner) # {}
       THEN LET n == Min(LineEnds(rd.inner))
            IN  /\ rd' = [rd EXCEPT !.got = @ \o Firsts(rd.inner, n), !.inner = Rest(@, n)]
                /\ pc' = "idle" /\ UNCHANGED out
       ELSE IF Len(rd.inner) = BufferSize THEN pc' = "error" /\ UNCHANGED <<out, rd>>
       ELSE IF rd.eof
       THEN rd' = [rd EXCEPT !.got = @ \o rd.inner, !.inner = <<>>] /\ pc' = "idle" /\ UNCHANGED out
       ELSE Internal([rd EXCEPT !.to = "inner"], rd.inner, BufferSize, FALSE)
    /\ UNCHANGED <<io, fl, grp>>

\* Back from ioReadInternal().
ReadReturned ==
    /\ pc = "returned"
    /\ CASE rd.op = "read" -> rd' = [rd EXCEPT !.got = @ \o out[N]] /\ pc' = "idle"
         [] rd.op = "line" -> rd' = [rd EXCEPT !.inner = out[N]] /\ pc' = "line"
         [] rd.op = "small" ->
             LET r == IF rd.to = "caller" THEN [rd EXCEPT !.part = out[N]] ELSE [rd EXCEPT !.inner = out[N]]
             IN  IF Len(r.part) < r.size /\ ~r.eof THEN rd' = r /\ pc' = "small"
                 ELSE rd' = [r EXCEPT !.got = @ \o r.part] /\ pc' = "idle"
    /\ UNCHANGED <<io, fl, out, grp>>

ReadClose ==
    /\ pc = "idle" /\ io.mode = "read" /\ rd.eof
    /\ pc' = "closed"
    /\ UNCHANGED <<io, fl, out, grp, rd>>

(***************************************************************************)
(* The calls of a writer.                                                  *)
(***************************************************************************)
IoWrite(n) ==
    /\ pc = "idle" /\ io.mode = "write" /\ n \in 1..Len(io.left)
    /\ rd' = [rd EXCEPT !.input = Firsts(io.left, n)]
    /\ io' = [io EXCEPT !.left = Rest(@, n)]
    /\ pc' = "group"
    /\ UNCHANGED <<fl, out, grp>>

IoWriteFlush ==
    /\ pc = "idle" /\ io.mode = "write" /\ io.chain = <<"buffer">> /\ out[N] # <<>>
    /\ rd' = [rd EXCEPT !.got = @ \o out[N]]
    /\ out' = [out EXCEPT ![N] = <<>>]
    /\ UNCHANGED <<io, fl, grp, pc>>

IoWriteClose ==
    /\ pc = "idle" /\ io.mode = "write" /\ io.left = <<>>
    /\ rd' = [rd EXCEPT !.input = Null]
    /\ pc' = "group"
    /\ UNCHANGED <<io, fl, out, grp>>

\* A full buffer goes to the driver; when closing, the last one does too.
WriteDrain ==
    /\ pc = "drain"
    /\ IF Room(N) = 0 \/ (rd.input = Null /\ grp.done)
       THEN rd' = [rd EXCEPT !.got = @ \o out[N]] /\ out' = [out EXCEPT ![N] = <<>>]
       ELSE UNCHANGED <<rd, out>>
    /\ pc' = IF rd.input = Null THEN (IF grp.done THEN "closed" ELSE "group")
             ELSE IF grp.same THEN "group" ELSE "idle"
    /\ UNCHANGED <<io, fl, grp>>

Next ==
    \/ GroupStart \/ GroupFilter \/ GroupAgain \/ GroupScan
    \/ ReadDone \/ ReadSame \/ ReadDriver \/ ReadFlush \/ ReadProcessed \/ ReadReturned \/ ReadClose
    \/ IoReadLine \/ SmallMore \/ LineMore
    \/ \E size \in Sizes : IoRead(size) \/ IoReadSmall(size)
    \/ \E n \in 1..(MaxData + 5) : IoWrite(n)
    \/ IoWriteFlush \/ IoWriteClose \/ WriteDrain

Spec == Init /\ [][Next]_vars
FairSpec == Spec /\ WF_vars(Next)
-----------------------------------------------------------------------------
(***************************************************************************)
(* Properties.                                                             *)
(***************************************************************************)
\* What was read or written is always the beginning of what the chain of filters
\* makes of the data, and all of it when the end was reported: no byte is lost,
\* repeated or moved, whatever the sizes of buffers, pieces and library outputs; a
\* filter without output saw all of the data at its place; and a stream that was cut
\* short never ends without an error.
StreamIsExact ==
    /\ IsPrefix(rd.got, io.want)
    /\ pc = "closed" => /\ rd.got = io.want
                        /\ io.whole
                        /\ \A i \in 1..N : ~IsOutput(fl[i].kind) => fl[i].seen = After(io.data, Firsts(io.chain, i - 1))

\* No filter is called against the rules that the code checks (with data after the
\* end, with nothing, or asking for the same input without progress), and a whole
\* stream never ends in an error: "in a valid compressed stream the end of data can
\* be determined and done will be set".
NoSpuriousError ==
    pc # "assert" /\ (io.whole => pc # "error")

\* Reading to the end and closing what was written come to an end.
StreamEnded == pc \in {"closed", "error", "assert"}

-----------------------------------------------------------------------------
(* Connections *)
netVars == <<net, sock, conn, client, peer>>

NewPeer == [got |-> <<>>, sent |-> 0, closed |-> "no"]

NetInit ==
    /\ net \in Modes
    /\ sock = [s \in 1..net.addresses |-> "closed"] /\ conn = <<>>
    /\ client = [pc |-> "check", i |-> 1, idx |-> 0, cur |-> 0, rounds |-> 0, tries |-> 1, fd |-> 0, written |-> 0,
            buf |-> 0, in |-> <<>>, eof |-> FALSE]
    /\ peer = NewPeer

Bytes(from, to) == [k \in 1..to - from + 1 |-> from + k - 1]

\* close()
Close(sockets) == sock' = [s \in DOMAIN sock |-> IF s \in sockets THEN "closed" ELSE sock[s]]
NewSocket == Min({s \in DOMAIN sock : sock[s] = "closed"})
OpenSockets == {s \in DOMAIN sock : sock[s] # "closed"}

-----------------------------------------------------------------------------
(* The kernel and the peer. *)

Complete(s, result) ==
    /\ sock[s] = "connecting"
    /\ sock' = [sock EXCEPT ![s] = result]
    /\ UNCHANGED <<net, conn, client, peer>>

PeerSend ==
    /\ client.fd # 0 /\ peer.closed = "no" /\ peer.sent < Answer
    /\ peer' = [peer EXCEPT !.sent = @ + 1]
    /\ UNCHANGED <<net, sock, conn, client>>

\* A clean end is announced in TLS, a cut is one that is not; a reset may lose what is on the way.
PeerClose(how) ==
    /\ client.fd # 0 /\ peer.closed = "no"
    /\ peer' = [peer EXCEPT !.closed = how]
    /\ UNCHANGED <<net, sock, conn, client>>

-----------------------------------------------------------------------------
(* sckClientOpen() *)

\* An error closes the socket, so the address can be tried again.
OpenError(a) ==
    /\ Close({conn[a]} \ {0})
    /\ conn' = [conn EXCEPT ![a] = 0]
    /\ client' = [client EXCEPT !.pc = "advance"]

\* sckClientOpenWait() without waiting, of one of the connections that are in progress.
CheckWaiting ==
    /\ client.pc = "check" /\ client.i <= Len(conn)
    /\ LET s == conn[client.i]
       IN  \/ /\ s # 0 => sock[s] = "connecting"
              /\ client' = [client EXCEPT !.i = @ + 1] /\ UNCHANGED <<sock, conn>>
           \/ /\ s # 0 /\ sock[s] = "up"
              /\ client' = [client EXCEPT !.pc = "connected", !.cur = client.i] /\ UNCHANGED <<sock, conn>>
           \/ /\ s # 0 /\ sock[s] = "refused"
              /\ OpenError(client.i)
    /\ UNCHANGED <<net, peer>>

\* The address to try: a new one, or the next from idx on that is not waiting.
NotWaiting == {a \in client.idx + 1..Len(conn) : conn[a] = 0}
NextAddress ==
    CASE client.idx = Len(conn)  -> client.idx + 1
      [] NotWaiting # {}    -> Min(NotWaiting)
      [] OTHER              -> 0

\* socket() and connect(), which may fail, succeed or go on.
Try ==
    /\ client.pc = "check" /\ client.i > Len(conn)
    /\ LET a == NextAddress
       IN  IF a = 0
           THEN /\ client' = [client EXCEPT !.pc = "advance", !.idx = IF @ > Len(conn) THEN @ ELSE Len(conn)]
                /\ UNCHANGED <<sock, conn>>
           ELSE \/ /\ conn' = [b \in 1..Max({a, Len(conn)}) |-> IF b = a THEN 0 ELSE conn[b]]   \* an error at once
                   /\ client' = [client EXCEPT !.pc = "advance", !.idx = a - 1]
                   /\ UNCHANGED sock
                \/ \E state \in {"up", "connecting"}, s \in {NewSocket} :
                      /\ sock' = [sock EXCEPT ![s] = state]
                      /\ conn' = [b \in 1..Max({a, Len(conn)}) |-> IF b = a THEN s ELSE conn[b]]
                      /\ client' = [client EXCEPT !.pc = IF state = "up" THEN "connected" ELSE "wait", !.idx = a - 1, !.cur = a]
    /\ UNCHANGED <<net, peer>>

\* sckClientOpenWait() for 250ms.
Wait250 ==
    /\ client.pc = "wait"
    /\ LET state == sock[conn[client.cur]]
       IN  \/ state = "connecting" /\ client' = [client EXCEPT !.pc = "advance"] /\ UNCHANGED <<sock, conn>>
           \/ state = "up" /\ client' = [client EXCEPT !.pc = "connected"] /\ UNCHANGED <<sock, conn>>
           \/ state = "refused" /\ OpenError(client.cur)
    /\ UNCHANGED <<net, peer>>

\* The next address; after the last one wait, unless the time is over.
Advance ==
    /\ client.pc = "advance"
    /\ IF client.idx + 1 < net.addresses
       THEN client' = [client EXCEPT !.pc = "check", !.i = 1, !.idx = @ + 1]
       ELSE \/ client.rounds < MaxRounds /\ client' = [client EXCEPT !.pc = "check", !.i = 1, !.idx = 0, !.rounds = @ + 1]
            \/ client' = [client EXCEPT !.pc = "free"]
    /\ UNCHANGED <<net, sock, conn, peer>>

\* The session takes the socket over.
Connected ==
    /\ client.pc = "connected"
    /\ client' = [client EXCEPT !.pc = "free", !.fd = conn[client.cur]]
    /\ conn' = [conn EXCEPT ![client.cur] = 0]
    /\ peer' = NewPeer
    /\ UNCHANGED <<net, sock>>

\* As if only the newest connection were closed.
WaitingLast == {conn[a] : a \in DOMAIN conn \cap {Len(conn)}} \ {0}

\* Connections that never completed are closed.
Waiting == {conn[a] : a \in DOMAIN conn} \ {0}

Free ==
    /\ client.pc = "free"
    /\ Close(Waiting)
    /\ conn' = <<>>
    /\ client' = [client EXCEPT !.pc = CASE client.fd = 0 -> "failed" [] net.tls -> "handshake" [] OTHER -> "write"]
    /\ UNCHANGED <<net, peer>>

-----------------------------------------------------------------------------
(* tlsClientOpen(), tlsSessionNew() *)

\* The session is freed, and with it the socket.
Failed == client' = [client EXCEPT !.pc = "failed", !.fd = 0] /\ Close({client.fd})

Handshake ==
    /\ client.pc = "handshake"
    /\ \/ peer.closed = "no" /\ client' = [client EXCEPT !.pc = "auth"] /\ UNCHANGED sock
       \/ /\ client.tries < MaxTries     \* an error or a timeout, with time left
          /\ Close({client.fd})
          /\ client' = [client EXCEPT !.pc = "check", !.i = 1, !.idx = 0, !.rounds = 0, !.tries = @ + 1, !.fd = 0]
       \/ Failed
    /\ UNCHANGED <<net, conn, peer>>

\* tlsClientAuth()
Auth ==
    /\ client.pc = "auth"
    /\ \/ client' = [client EXCEPT !.pc = "write"] /\ UNCHANGED sock
       \/ Failed
    /\ UNCHANGED <<net, conn, peer>>

-----------------------------------------------------------------------------
(* Reading and writing. *)

\* What is left of the buffer that is written.
Unwritten(n) == Bytes(client.written + 1, client.written + n)

Written(n) ==
    /\ peer' = [peer EXCEPT !.got = @ \o Unwritten(n)]
    /\ client' = [client EXCEPT !.written = @ + n, !.pc = IF client.written + n = Request THEN "read" ELSE @]

\* ioFdWrite(): the kernel takes part of the data, or none at first, and the loop goes on with the rest.
FdWrite ==
    /\ client.pc = "write" /\ ~net.tls /\ peer.closed # "reset"
    /\ \E n \in 1..Request - client.written : Written(n)
    /\ UNCHANGED <<net, sock, conn>>

\* tlsSessionWrite(): OpenSSL is called again with the same buffer until it has written all of it.
TlsWrite ==
    /\ client.pc = "write" /\ net.tls /\ peer.closed # "reset"
    /\ Written(Request - client.written)
    /\ UNCHANGED <<net, sock, conn>>

\* ioFdReadReady() and ioFdWriteReady() time out, or poll() fails.
FdReady ==
    /\ client.pc \in {"write", "read"}
    /\ Failed
    /\ UNCHANGED <<net, conn, peer>>

Receive ==
    \E n \in 1..BufferSize - client.buf :
        /\ Len(client.in) + n <= peer.sent
        /\ client' = [client EXCEPT !.in = @ \o Bytes(Len(client.in) + 1, Len(client.in) + n), !.buf = (@ + n) % BufferSize]

NoMore == peer.closed # "no" /\ (Len(client.in) = peer.sent \/ peer.closed = "reset")

\* ioFdRead(): until the buffer is full; nothing is the end, also if the peer died.
FdRead ==
    /\ client.pc = "read" /\ ~net.tls /\ ~client.eof
    /\ Receive \/ (NoMore /\ peer.closed # "reset" /\ client' = [client EXCEPT !.eof = TRUE])
    /\ UNCHANGED <<net, sock, conn, peer>>

\* tlsSessionRead()
TlsRead ==
    /\ client.pc = "read" /\ net.tls /\ ~client.eof
    /\ Receive
    /\ UNCHANGED <<net, sock, conn, peer>>

\* tlsSessionResultProcess(): an end that was not announced is an error, unless the caller can do without.
EndOk == peer.closed = "clean" \/ net.ignoreEof

\* At its end the session is closed at once, without a shutdown.
TlsEof ==
    /\ client.pc = "read" /\ net.tls /\ ~client.eof /\ NoMore
    /\ IF EndOk THEN client' = [client EXCEPT !.eof = TRUE, !.fd = 0] /\ Close({client.fd}) ELSE Failed
    /\ UNCHANGED <<net, conn, peer>>

\* ioSessionClose(), at the end or once the caller has what it needs; nothing is done if it is closed.
SessionClose ==
    /\ client.pc = "read"
    /\ client' = [client EXCEPT !.pc = "closed", !.fd = 0]
    /\ Close({client.fd} \ {0})
    /\ UNCHANGED <<net, conn, peer>>

ConnectionEnded == client.pc \in {"closed", "failed"}

NetNext ==
    \/ \E s \in DOMAIN sock, result \in {"up", "refused"} : Complete(s, result)
    \/ PeerSend \/ \E how \in {"clean", "cut", "reset"} : PeerClose(how)
    \/ CheckWaiting \/ Try \/ Wait250 \/ Advance \/ Connected \/ Free
    \/ Handshake \/ Auth \/ FdWrite \/ TlsWrite \/ FdReady \/ FdRead \/ TlsRead \/ TlsEof \/ SessionClose

NetSpec == NetInit /\ [][NetNext]_netVars

-----------------------------------------------------------------------------
(* The peer gets the request and the client the answer without a gap or a repetition, the request is complete when
   it is written, and TLS reports an end that nobody announced only if the caller said it can do without.  No
   socket is left open: of all that were tried a session has one, and none is left when it has ended.  Code: the write
   and read loops of common/io/fdWrite.c, fdRead.c and tls/session.c, the close of sckClientOpen() in socket/client.c. *)
SessionIsExact ==
    /\ IsPrefix(peer.got, Bytes(1, Request)) /\ (client.pc \in {"read", "closed"} => Len(peer.got) = Request)
    /\ IsPrefix(client.in, Bytes(1, peer.sent))
    /\ client.eof /\ net.tls /\ ~net.ignoreEof => peer.closed = "clean" /\ Len(client.in) = peer.sent
    /\ client.pc \in {"handshake", "auth", "write", "read"} => OpenSockets = {client.fd} \ {0}
    /\ ConnectionEnded => OpenSockets = {}
=============================================================================
