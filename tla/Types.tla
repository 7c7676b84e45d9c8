------------------------------- MODULE Types --------------------------------
(***************************************************************************)
(* The list of common/type/list.c in its memory: items in cells of one     *)
(* allocation that grows by doubling.  The first item is removed by moving *)
(* the start of the list, the space is used again when the end is reached. *)
(* A list remembers that it was sorted, and is then searched by halves.    *)
(* The sequence seq is what the list stands for, changed along with it.    *)
(*                                                                         *)
(* The buffer of common/type/buffer.c: an allocation, the size that is     *)
(* shown to callers, which a limit makes smaller, and the part in use.     *)
(* The sequence data is what was put into the buffer and not taken back.   *)
(*                                                                         *)
(* Binary data as text (base64, base64url and hex), and short names as     *)
(* 64-bit integers (StringId).  Text is decoded into a buffer whose size   *)
(* is computed first, from the text.                                       *)
(*                                                                         *)
(* A byte is a number below 256.  A character of a text is the number it   *)
(* stands for: 0..63 in base64, Pad for '=', Other for one that is not     *)
(* allowed; in hex 0..15 and 16..21 for the capitals A..F.  A character of *)
(* a name is its number in the 6-bit map, 0 for one that is in none.  A    *)
(* StringId is the function of its 64 bits, lowest first.                  *)
(***************************************************************************)
EXTENDS Integers, Sequences, SequencesExt, FiniteSetsExt

CONSTANTS
    Items,         \* a set of numbers, the comparator is their order
    InitialSize,   \* LIST_INITIAL_SIZE
    Values,        \* of bytes
    MaxSize,       \* bound on the items of the list and the bytes of the buffer
    Garbage,       \* what is in a cell or a byte nothing was copied to

    Jobs     \* [kind, data, seq]: "base64", "base64url", "hex" encode data and decode it again,
             \* "text64", "textHex" decode text from elsewhere, "name" makes a StringId with a sequence

VARIABLES
    cell,    \* listAlloc: the allocation, from 1 to listSizeMax
    head,    \* pub.list - listAlloc, in items
    size,    \* pub.listSize
    sorted,  \* sortOrder
    seq,     \* what the list should hold
    found,   \* the last lstFind(): [item, idx], idx 0 when nothing was found
    mem,     \* pub.buffer: sizeAlloc bytes
    bufSize, \* pub.size
    limit,   \* pub.sizeLimit
    used,    \* pub.used
    data,    \* what the buffer should hold

    job,
    pc,
    i,       \* sourceIdx: what has been read of the source
    text,    \* the encoded text
    id,      \* the StringId
    back,    \* what was decoded
    decodeSize  \* the size the destination was allocated with

listVars == <<cell, head, size, sorted, seq, found>>
bufVars == <<mem, bufSize, limit, used, data>>

-----------------------------------------------------------------------------
(* Lists *)
NotFound == [item |-> 0, idx |-> 0]

\* Instead of a number: memory was freed or written that is not the list's or the buffer's.
Wild == -1

\* lstNew: a list may say that it is sorted from the start.
ListInit ==
    /\ cell = <<>> /\ head = 0 /\ size = 0 /\ seq = <<>> /\ found = NotFound
    /\ sorted \in {"none", "asc", "desc"}

\* lstGet, the first item is 1
Get(k) == cell[head + k]

\* memmove(): n cells from one place to another
Move(c, to, from, n) == [k \in DOMAIN c |-> IF k \in to + 1..to + n THEN c[k - to + from] ELSE c[k]]

-----------------------------------------------------------------------------
(* lstInsert *)

\* As if the space in front was forgotten when the end is reached.
RoomNoSlide ==
    IF size = Len(cell)
    THEN [cell |-> cell \o [k \in 1..IF cell = <<>> THEN InitialSize ELSE Len(cell) |-> Garbage], head |-> head]
    ELSE [cell |-> cell, head |-> head]

\* Room for one more: allocate, double, or move the list to the start of its memory.
Room ==
    IF size = Len(cell)
    THEN [cell |-> cell \o [k \in 1..IF cell = <<>> THEN InitialSize ELSE Len(cell) |-> Garbage], head |-> head]
    ELSE IF head # 0 /\ size + head = Len(cell) THEN [cell |-> Move(cell, 0, head, size), head |-> 0]
    ELSE [cell |-> cell, head |-> head]

Insert(idx, item) ==
    /\ size < MaxSize /\ idx <= size
    /\ \E r \in {Room} :
          /\ head' = r.head
          /\ cell' = [Move(r.cell, r.head + idx + 1, r.head + idx, size - idx) EXCEPT ![r.head + idx + 1] = item]
    /\ size' = size + 1 /\ sorted' = "none"
    /\ seq' = InsertAt(seq, idx + 1, item)
    /\ found' = NotFound

(* lstRemoveIdx *)
RemoveIdx(idx) ==
    /\ idx < size /\ size' = size - 1
    /\ IF idx = 0 THEN head' = head + 1 /\ UNCHANGED cell
       ELSE cell' = Move(cell, head + idx, head + idx + 1, size - 1 - idx) /\ UNCHANGED head
    /\ seq' = RemoveAt(seq, idx + 1)
    /\ found' = NotFound /\ UNCHANGED sorted

\* lstClear: what the start of the list points to is freed.  When the start has moved that is not
\* an allocation: nothing is known of the list, or of the memory around it, from then on.
Clear ==
    /\ cell # <<>>
    /\ cell' = <<>> /\ size' = 0 /\ seq' = <<>> /\ found' = NotFound
    /\ head' = IF head = 0 THEN 0 ELSE Wild
    /\ UNCHANGED sorted

-----------------------------------------------------------------------------
Before(a, b) == IF sorted = "desc" THEN a > b ELSE a < b

\* bsearch(): halves of what is left, 0 when there is nothing left
Search(item) ==
    LET at[lo \in 1..size + 1, hi \in 0..size] ==
            LET mid == (lo + hi) \div 2
            IN IF lo > hi THEN 0
               ELSE IF Get(mid) = item THEN mid
               ELSE IF Before(Get(mid), item) THEN at[mid + 1, hi] ELSE at[lo, mid - 1]
    IN at[1, size]

\* lstFind: by halves when sorted, one by one otherwise
FindIdx(item) ==
    IF sorted # "none" THEN Search(item)
    ELSE LET same == {k \in 1..size : Get(k) = item} IN IF same = {} THEN 0 ELSE Min(same)

Find(item) ==
    /\ found' = [item |-> item, idx |-> FindIdx(item)]
    /\ UNCHANGED <<cell, head, size, sorted, seq>>

\* lstRemove: the item that is found
RemoveItem(item) == FindIdx(item) # 0 /\ RemoveIdx(FindIdx(item) - 1)

\* strLstAddIfMissing
AddIfMissing(item) == FindIdx(item) = 0 /\ Insert(size, item)

\* lstSort: qsort() in place
Sort(order) ==
    /\ \E s \in {IF order = "none" THEN seq
                 ELSE SortSeq([k \in 1..size |-> Get(k)], LAMBDA a, b : IF order = "desc" THEN a > b ELSE a < b)} :
          /\ cell' = [k \in DOMAIN cell |-> IF k \in head + 1..head + size THEN s[k - head] ELSE cell[k]]
          /\ seq' = s
    /\ sorted' = order /\ found' = NotFound
    /\ UNCHANGED <<head, size>>

ListNext ==
    /\ head # Wild
    /\ \/ \E item \in Items : \E idx \in 0..size : Insert(idx, item)
       \/ \E idx \in 0..size - 1 : RemoveIdx(idx)
       \/ \E item \in Items : Find(item) \/ RemoveItem(item) \/ AddIfMissing(item)
       \/ \E order \in {"none", "asc", "desc"} : Sort(order)
       \/ Clear

-----------------------------------------------------------------------------
(* Buffers *)
alloc == Len(mem)
Memory(n) == [k \in 1..n |-> IF k <= alloc THEN mem[k] ELSE Garbage]

Smaller(a, b) == IF a < b THEN a ELSE b

\* bufNew
BufInit ==
    /\ bufSize \in 0..MaxSize
    /\ mem = [k \in 1..bufSize |-> Garbage] /\ limit = FALSE /\ used = 0 /\ data = <<>>

\* As if what no longer fits stayed in use.
ResizeKeepUsed(n) ==
    [mem |-> Memory(n), used |-> used, size |-> IF limit THEN Smaller(bufSize, n) ELSE n]

\* bufResize: what no longer fits is lost, a limit stays unless there is less memory than that.
Resized(n) ==
    IF n = alloc THEN [mem |-> mem, used |-> used, size |-> bufSize]
    ELSE [mem |-> Memory(n), used |-> Smaller(used, n), size |-> IF limit THEN Smaller(bufSize, n) ELSE n]

Resize(n) ==
    /\ \E r \in {Resized(n)} : mem' = r.mem /\ used' = r.used /\ bufSize' = r.size
    /\ data' = SubSeq(data, 1, Smaller(n, Len(data)))
    /\ UNCHANGED limit

\* bufCatC, bufCat, bufCatSub: a buffer grows when it must.  A limit stays what it is, and more is used than
\* the buffer shows when what is added does not fit in.
Cat(n, v) ==
    /\ n > 0 /\ used + n <= MaxSize
    /\ \E r \in {IF used + n > bufSize THEN Resized(used + n) ELSE [mem |-> mem, used |-> used, size |-> bufSize]} :
          /\ mem' = [k \in DOMAIN r.mem |-> IF k \in r.used + 1..r.used + n THEN v ELSE r.mem[k]]
          /\ used' = r.used + n /\ bufSize' = r.size
    /\ data' = data \o [k \in 1..n |-> v]
    /\ UNCHANGED limit

\* bufLimitSet
LimitSet(n) ==
    /\ n \in used..alloc
    /\ bufSize' = n /\ limit' = (n # alloc)
    /\ UNCHANGED <<mem, used, data>>

\* bufLimitClear
LimitClear == bufSize' = alloc /\ limit' = FALSE /\ UNCHANGED <<mem, used, data>>

\* bufUsedSet, bufUsedZero: what was in use is given up.
UsedSet(n) ==
    /\ n <= used /\ n <= bufSize
    /\ used' = n /\ data' = SubSeq(data, 1, n)
    /\ UNCHANGED <<mem, bufSize, limit>>

\* bufRemainsPtr, bufUsedInc: a caller fills what remains and says how much it was.
Fill(n, v) ==
    /\ n > 0 /\ used + n <= bufSize
    /\ mem' = [k \in DOMAIN mem |-> IF k \in used + 1..used + n THEN v ELSE mem[k]]
    /\ used' = used + n /\ data' = data \o [k \in 1..n |-> v]
    /\ UNCHANGED <<bufSize, limit>>

\* bufRemains() is unsigned: when more is used than the buffer shows, any amount remains.
Overrun == used > bufSize /\ used' = Wild /\ UNCHANGED <<mem, bufSize, limit, data>>

\* bufDup, bufNewC: the copy has the bufSize of what is in use.
Dup ==
    /\ mem' = SubSeq(mem, 1, used) /\ bufSize' = used /\ limit' = FALSE
    /\ UNCHANGED <<used, data>>

BufNext ==
    /\ used # Wild
    /\ \/ \E n \in 0..MaxSize : Resize(n) \/ LimitSet(n) \/ UsedSet(n) \/ \E v \in Values : Cat(n, v) \/ Fill(n, v)
       \/ LimitClear \/ Dup \/ Overrun

-----------------------------------------------------------------------------
ListSpec == ListInit /\ [][ListNext]_listVars

BufSpec == BufInit /\ [][BufNext]_bufVars

-----------------------------------------------------------------------------
\* The memory of a list holds exactly the items that were added and not removed, in their order, and stays
\* within its allocation, wherever items are removed and however it grows (list.c:lstInsert, lstRemoveIdx); an item is found
\* if and only if it is there, also when the list says that it is sorted (list.c:lstFind).  That ends when a list is
\* cleared after its first item was removed (list.c:68); the one caller of lstClear, ioFilterGroupClear, removes none.
ListIsExact ==
    head # Wild =>
    /\ head + size <= Len(cell)
    /\ size = Len(seq) /\ \A k \in 1..size : Get(k) = seq[k]
    /\ IF found.idx # 0 THEN found.idx <= size /\ seq[found.idx] = found.item
       ELSE found.item \notin ToSet(seq)

\* A buffer holds what was put into it, and never uses or shows more than it has, whatever limits and sizes
\* are set in between (buffer.c:bufResize, bufLimitSet): bufRemains() is bufSize - used, and a
\* caller writes that many bytes.  More is used than shown only in a limited buffer to which more
\* was added than fits (buffer.c:154); only then can a caller that fills what remains leave the allocation.
BufferIsExact ==
    used # Wild =>
    /\ used <= alloc /\ bufSize <= alloc
    /\ ~limit => used <= bufSize /\ bufSize = alloc
    /\ SubSeq(mem, 1, used) = data

-----------------------------------------------------------------------------
(* Text encodings and ids *)
encodeVars == <<job, pc, i, text, id, back, decodeSize>>

Pad == 64
Other == 65
NoSeq == -1

EncodeInit ==
    /\ job \in Jobs
    /\ pc = IF job.kind \in {"text64", "textHex"} THEN "validate" ELSE "encode"
    /\ i = 0 /\ back = <<>> /\ decodeSize = 0 /\ id = [b \in 0..63 |-> 0]
    /\ text = IF job.kind \in {"text64", "textHex"} THEN job.data ELSE <<>>

-----------------------------------------------------------------------------
(* Base64 and hex. *)

\* encodeToStrBase64, encodeToStrBase64Url: three bytes are four characters; the rest is padded, or not.
Base64Group(source, at, padded) ==
    LET left == Len(source) - at
        b(k) == source[at + k]
        first == b(1) \div 4
        pads(n) == IF padded THEN [k \in 1..n |-> Pad] ELSE <<>>
    IN CASE left = 1 -> <<first, (b(1) % 4) * 16>> \o pads(2)
         [] left = 2 -> <<first, (b(1) % 4) * 16 + b(2) \div 16, (b(2) % 16) * 4>> \o pads(1)
         [] OTHER -> <<first, (b(1) % 4) * 16 + b(2) \div 16, (b(2) % 16) * 4 + b(3) \div 64, b(3) % 64>>

\* encodeToStrSize
EncodeSize(kind, n) ==
    CASE kind = "base64" -> ((n + 2) \div 3) * 4
      [] kind = "base64url" -> (n \div 3) * 4 + (IF n % 3 = 0 THEN 0 ELSE (n % 3) + 1)
      [] kind = "hex" -> n * 2

Encode ==
    /\ pc = "encode" /\ job.kind \in {"base64", "base64url", "hex"}
    /\ IF i >= Len(job.data)
       THEN /\ pc' = IF job.kind = "base64url" THEN "done" ELSE "validate"
            /\ i' = 0 /\ UNCHANGED text
       ELSE IF job.kind = "hex"
            THEN text' = text \o <<job.data[i + 1] \div 16, job.data[i + 1] % 16>> /\ i' = i + 1 /\ UNCHANGED pc
            ELSE text' = text \o Base64Group(job.data, i, job.kind = "base64") /\ i' = i + 3 /\ UNCHANGED pc
    /\ UNCHANGED <<job, id, back, decodeSize>>

Is64 == job.kind \in {"base64", "text64"}

\* decodeToBinValidateBase64: padding is in the last two places only, and to the end.
Valid64(source) ==
    LET n == Len(source)
    IN /\ n % 4 = 0
       /\ \A k \in 1..n :
             IF source[k] # Pad THEN source[k] < 64
             ELSE k > n - 2 /\ (k = n - 1 => source[n] = Pad)

\* decodeToBinValidateHex
ValidHex(source) == Len(source) % 2 = 0 /\ \A k \in 1..Len(source) : source[k] < 22

\* As if only the last character could be padding.
DecodeSizeOnePad(source) ==
    IF ~Is64 THEN Len(source) \div 2 ELSE (Len(source) \div 4) * 3 - (IF Last(source) = Pad THEN 1 ELSE 0)

\* decodeToBinSize
DecodeSize(source) ==
    IF ~Is64 THEN Len(source) \div 2
    ELSE (Len(source) \div 4) * 3
         - (IF Last(source) # Pad THEN 0 ELSE IF source[Len(source) - 1] = Pad THEN 2 ELSE 1)

\* decodeToBinSizeBase64 looks at the two bytes before a text that is empty, which may be anything.
DecodeSizes(source) == IF Is64 /\ source = <<>> THEN {0, -1, -2} ELSE {DecodeSize(source)}

Validate ==
    /\ pc = "validate"
    /\ IF (Is64 /\ Valid64(text)) \/ (~Is64 /\ ValidHex(text))
       THEN pc' = "decode" /\ decodeSize' \in DecodeSizes(text)
       ELSE pc' = "error" /\ UNCHANGED decodeSize
    /\ UNCHANGED <<job, i, text, id, back>>

\* decodeToBinBase64: the second and the third byte are there when their character is.
Bytes64(source, at) ==
    LET c(k) == source[at + k]
    IN <<(c(1) * 4 + c(2) \div 16) % 256>>
       \o (IF c(3) # Pad THEN <<((c(2) * 16) % 256) + c(3) \div 4>> ELSE <<>>)
       \o (IF c(4) # Pad THEN <<((c(3) * 64) % 256) + c(4)>> ELSE <<>>)

Digit(c) == IF c < 16 THEN c ELSE c - 6

Decode ==
    /\ pc = "decode" /\ job.kind # "name"
    /\ IF i >= Len(text) THEN pc' = "done" /\ UNCHANGED <<i, back>>
       ELSE IF Is64 THEN back' = back \o Bytes64(text, i) /\ i' = i + 4 /\ UNCHANGED pc
       ELSE back' = Append(back, Digit(text[i + 1]) * 16 + Digit(text[i + 2])) /\ i' = i + 2 /\ UNCHANGED pc
    /\ UNCHANGED <<job, text, id, decodeSize>>

-----------------------------------------------------------------------------
(* StringId. *)

\* The 5-bit map has a-z, '-', '2', '5' and '6'.
Code(bits, c) ==
    IF bits = 6 THEN c
    ELSE CASE c \in 0..27 -> c [] c = 30 -> 28 [] c = 33 -> 29 [] c = 34 -> 30 [] OTHER -> 0
Char(bits, code) ==
    IF bits = 6 THEN code ELSE CASE code \in 0..27 -> code [] code = 28 -> 30 [] code = 29 -> 33 [] code = 30 -> 34

MaxName(bits) == IF bits = 5 THEN 12 ELSE 10
Fits(bits, name) == Len(name) <= MaxName(bits) /\ \A k \in 1..Len(name) : Code(bits, name[k]) # 0

BitOf(n, b) == (n \div 2^b) % 2
Low(f, n) == MapThenSumSet(LAMBDA b : f[b] * 2^b, 0..n - 1)
ShiftRight(f, n) == [b \in 0..63 |-> IF b + n <= 63 THEN f[b + n] ELSE 0]
ShiftLeft(f, n) == [b \in 0..63 |-> IF b >= n THEN f[b - n] ELSE 0]
Or(f, n) == [b \in 0..63 |-> IF b < 16 /\ BitOf(n, b) = 1 THEN 1 ELSE f[b]]

\* strIdBitFromZN: the lowest bit is the encoding, characters start at the fifth.
FromName(bits, name) ==
    [b \in 0..63 |->
         IF b = 0 THEN bits - 5
         ELSE IF b < 4 \/ (b - 4) \div bits >= Len(name) THEN 0
         ELSE BitOf(Code(bits, name[(b - 4) \div bits + 1]), (b - 4) % bits)]

\* As if the mark of the encoding was not taken out before the shift.
WithSeqShifted(f, idSeq) ==
    IF idSeq = NoSeq THEN f
    ELSE IF idSeq < 6 THEN Or(f, (idSeq + 1) * 2)
    ELSE Or(ShiftLeft(f, 6), (idSeq - 6) * 16 + 14 + f[0])

\* A sequence of up to 5 is in the header, a higher one moves the characters by five bits.
WithSeq(f, idSeq) ==
    IF idSeq = NoSeq THEN f
    ELSE IF idSeq < 6 THEN Or(f, (idSeq + 1) * 2)
    ELSE Or(ShiftLeft(ShiftRight(f, 1), 6), (idSeq - 6) * 16 + 14 + f[0])

\* strIdFromZN: 5 bits before 6.
MakeId ==
    /\ pc = "encode" /\ job.kind = "name"
    /\ IF \E bits \in {5, 6} : Fits(bits, job.data)
       THEN /\ id' = WithSeq(FromName(IF Fits(5, job.data) THEN 5 ELSE 6, job.data), job.seq)
            /\ pc' = "decode"
       ELSE pc' = "error" /\ UNCHANGED id
    /\ UNCHANGED <<job, i, text, back, decodeSize>>

High(f) == f[1] = 1 /\ f[2] = 1 /\ f[3] = 1

\* strIdSeq
IdSeq(f) == IF High(f) THEN Low(ShiftRight(f, 4), 5) + 6 ELSE Low(ShiftRight(f, 1), 3) - 1

\* strIdToZN: one character at a time until nothing is left.
ReadId ==
    /\ pc = "decode" /\ job.kind = "name"
    /\ LET bits == 5 + id[0]
           rest == ShiftRight(id, (IF High(id) THEN 9 ELSE 4) + bits * Len(back))
       IN IF back # <<>> /\ (\A b \in 0..63 : rest[b] = 0) THEN pc' = "done" /\ UNCHANGED back
          ELSE back' = Append(back, Char(bits, Low(rest, bits))) /\ UNCHANGED pc
    /\ UNCHANGED <<job, i, text, id, decodeSize>>

EncodeNext == Encode \/ Validate \/ Decode \/ MakeId \/ ReadId

EncodeSpec == EncodeInit /\ [][EncodeNext]_encodeVars

-----------------------------------------------------------------------------
\* What was encoded comes back: bytes through base64 and hex, a name and its sequence through a StringId.
\* No buffer is overrun or left unfilled: the encoded text and the decoded bytes have the
\* sizes that were computed for them, for any text that is accepted but the empty one in base64, for which a
\* byte before the text decides (encode.c:214), and nothing that was encoded here is refused.  A name is refused only when neither encoding can hold it
\* (stringId.c:strIdFromZN).
EncodingIsExact ==
    /\ pc = "done" =>
          /\ job.kind \in {"base64", "hex", "name"} => back = job.data
          /\ job.kind \in {"base64", "base64url", "hex"} => Len(text) = EncodeSize(job.kind, Len(job.data))
          /\ job.kind \in {"base64", "hex", "text64", "textHex"} /\ (Is64 => text # <<>>) => Len(back) = decodeSize
          /\ job.kind = "name" => /\ job.seq # NoSeq => IdSeq(id) = job.seq
                                  /\ job.seq = NoSeq => id[1] = 0 /\ id[2] = 0 /\ id[3] = 0
    /\ job.kind \in {"base64", "hex"} => pc # "error"
    /\ job.kind = "name" /\ pc = "error" => 0 \in ToSet(job.data) \/ Len(job.data) > 10
=============================================================================
