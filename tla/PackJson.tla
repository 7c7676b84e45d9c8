------------------------------ MODULE PackJson ------------------------------
(***************************************************************************)
(* The pack encoding of common/type/pack.c, which carries every message of *)
(* the protocol between processes and the rules of the options.            *)
(*                                                                         *)
(* A field is written as a tag byte, the rest of its type, the rest of its *)
(* id delta, the rest of its value, its size and its bytes, each only when *)
(* needed.  A NULL is not written: the delta of the next id counts it.     *)
(* Arrays and objects number their fields anew and end with a zero byte.   *)
(* A program writes fields, ends the pack, and a reader that knows the     *)
(* order of the fields, but may leave some unread, reads them again.       *)
(*                                                                         *)
(* The JSON writer and reader of common/type/json.c, which store every     *)
(* section of the info files and manifests.                                *)
(*                                                                         *)
(* The text is a sequence of tokens; white space and the spelling of the   *)
(* scalars are left out.  The writer refuses keys out of order, so that a  *)
(* reader may ask for keys in order, skip what it does not know and be     *)
(* told that an optional key is missing without reading further.  A        *)
(* document is written with the calls in any order the writer accepts, and *)
(* then read by a reader that asks for the keys it knows.                  *)
(***************************************************************************)
EXTENDS Integers, Sequences, SequencesExt, FiniteSets

CONSTANTS
    Numbers,     \* values of integer fields, below 2^14
    Gaps,        \* id deltas a writer may ask for, besides the next id
    MaxFields,   \* bound on the writer's calls

    Keys,       \* keys, as sequences of numbers
    MaxTokens   \* bound on the calls of the writer

VARIABLES
    bytes,    \* the pack
    wstack,   \* the writer's tagStack: idLast and nullTotal of every open container
    log,      \* history: the writer's calls, with the id each field got
    rpos,     \* bytes the reader has consumed
    rstack,   \* the reader's tagStack: idLast of every open container
    tagNext,  \* the tag that was read and not yet used (tagNextId, ...)
    nread,    \* calls of the log the reader has answered
    result,   \* what the last read returned, and what it should have

    json,     \* the text
    jsonWriteStack,   \* JsonWrite.stack: type, first and keyLast of the open containers
    wkey,     \* JsonWrite.key: a key was written and its value was not
    jsonPos,      \* tokens the reader has consumed
    jsonReadStack,   \* JsonRead.stack: type and first of the open containers
    rkey,     \* JsonRead.key
    asked,    \* history: the key asked for last in every open object, and where the object begins
    answer    \* history: the last answer of jsonReadKeyExpect() and the right one; was there a
              \* key that the one asked for begins with?

\* packTypeMapData: the number on the wire and how the value is stored.
TypeMap == [array |-> [map |-> 1, value |-> "none", size |-> FALSE],
            bool |-> [map |-> 2, value |-> "single", size |-> FALSE],
            str |-> [map |-> 7, value |-> "single", size |-> TRUE],
            u64 |-> [map |-> 9, value |-> "multi", size |-> FALSE],
            time |-> [map |-> 15, value |-> "multi", size |-> FALSE],
            pack |-> [map |-> 17, value |-> "none", size |-> TRUE]]

packVars == <<bytes, wstack, log, rpos, rstack, tagNext, nread, result>>

NoTag == [id |-> 0, type |-> "none", value |-> 0, size |-> 0]

\* UINT_MAX, the id of a container's end.
EndId == 1000

PackInit ==
    /\ bytes = <<>>
    /\ wstack = <<[idLast |-> 0, nullTotal |-> 0]>>
    /\ log = <<>>
    /\ rpos = 0
    /\ rstack = <<0>>
    /\ tagNext = NoTag
    /\ nread = 0
    /\ result = [got |-> <<>>, want |-> <<>>]

(***************************************************************************)
(* Writing.                                                                *)
(***************************************************************************)

\* cvtUInt64ToVarInt128(), for up to two bytes.
VarInt(n) == IF n < 128 THEN <<n>> ELSE <<128 + (n % 128), n \div 128>>

MoreVarInt(n) == IF n > 0 THEN VarInt(n) ELSE <<>>

Bit(b) == IF b THEN 1 ELSE 0

\* The low bits of the tag, and what follows them: the id delta and the value with
\* the bits that are in the tag shifted out.
TagBits(type, delta, value) ==
    CASE TypeMap[type].value = "multi" /\ value < 2 ->
            [tag |-> 4 * value + 2 * Bit(delta \div 2 > 0) + (delta % 2),
             delta |-> delta \div 2, value |-> 0]
      [] TypeMap[type].value = "multi" /\ value >= 2 ->
            [tag |-> 8 + 4 * Bit(delta \div 4 > 0) + (delta % 4),
             delta |-> delta \div 4, value |-> value]
      [] TypeMap[type].value = "single" ->
            [tag |-> 8 * value + 4 * Bit(delta \div 4 > 0) + (delta % 4),
             delta |-> delta \div 4, value |-> 0]
      [] TypeMap[type].value = "none" ->
            [tag |-> 8 * Bit(delta \div 8 > 0) + (delta % 8),
             delta |-> delta \div 8, value |-> 0]

Tag(type, delta, value) ==
    LET map == TypeMap[type].map
        bits == TagBits(type, delta, value)
    IN  <<(IF map >= 15 THEN 240 ELSE 16 * map) + bits.tag>>
            \o (IF map >= 15 THEN VarInt(map - 15) ELSE <<>>)
            \o MoreVarInt(bits.delta) \o MoreVarInt(bits.value)

\* The id of the next field: after the NULLs before it, or the one asked for.
NextIdNoNulls(gap) == Last(wstack).idLast + 1 + gap

NextId(gap) == Last(wstack).idLast + (IF gap = 0 THEN Last(wstack).nullTotal ELSE gap) + 1

\* Room for one more call; the containers that are open must still be ended.
Room == Len(log) + Len(wstack) - 1 < MaxFields

Writing == wstack # <<>>

\* pckWriteTag() and the data behind it.  An id that is asked for is behind the last one
\* and behind the NULLs written since.
WriteField(type, gap, value, data) ==
    LET id == NextId(gap)
        top == [idLast |-> id, nullTotal |-> 0]
    IN  /\ Writing /\ Room
        /\ gap > 0 => gap >= Last(wstack).nullTotal
        /\ bytes' = bytes \o Tag(type, id - Last(wstack).idLast - 1, value) \o data
        /\ wstack' = IF type = "array"
                     THEN Append(Front(wstack) \o <<top>>, [idLast |-> 0, nullTotal |-> 0])
                     ELSE Front(wstack) \o <<top>>
        /\ log' = Append(log, [type |-> type, id |-> id, value |-> IF data = <<>> THEN <<value>> ELSE data])
        /\ UNCHANGED <<rpos, rstack, tagNext, nread, result>>

Sized(data) == IF data = <<>> THEN <<>> ELSE VarInt(Len(data)) \o data

WriteNumber(type, gap, n) == WriteField(type, gap, n, <<>>)

\* pckWriteStr(), pckWriteBin(): the value bit says whether there is data.
WriteStr(data) == WriteField("str", 0, Bit(data # <<>>), Sized(data))

\* pckWritePack(): a pack always has a size.
WritePack(data) == WriteField("pack", 0, 0, VarInt(Len(data)) \o data)

\* pckWriteNull(), and a value equal to its default.
WriteNull ==
    /\ Writing /\ Room
    /\ wstack' = Front(wstack) \o <<[Last(wstack) EXCEPT !.nullTotal = @ + 1]>>
    /\ log' = Append(log, [type |-> "null", id |-> Last(wstack).idLast + Last(wstack).nullTotal + 1, value |-> <<>>])
    /\ UNCHANGED <<bytes, rpos, rstack, tagNext, nread, result>>

\* pckWriteArrayEnd(), pckWriteObjEnd() and, when no container is open, pckWriteEnd().
WriteEnd ==
    /\ Writing
    /\ bytes' = Append(bytes, 0)
    /\ wstack' = Front(wstack)
    /\ log' = Append(log, [type |-> "end", id |-> EndId, value |-> <<>>])
    /\ UNCHANGED <<rpos, rstack, tagNext, nread, result>>

(***************************************************************************)
(* Reading.                                                                *)
(***************************************************************************)

\* cvtUInt64FromVarInt128(): a number and the position behind it.
VarIntAt(p) ==
    IF bytes[p + 1] < 128 THEN [n |-> bytes[p + 1], pos |-> p + 1]
    ELSE [n |-> bytes[p + 1] - 128 + 128 * bytes[p + 2], pos |-> p + 2]

VarIntIf(cond, p) == IF cond THEN VarIntAt(p) ELSE [n |-> 0, pos |-> p]

TypeOf(map) == CHOOSE t \in DOMAIN TypeMap : TypeMap[t].map = map

\* pckReadTagNext(): the tag at p and the position behind it (behind the size, when
\* there is one; the data is not consumed).
TagAt(p) ==
    LET tag == bytes[p + 1]
        map == VarIntIf(tag \div 16 = 15, p + 1)
        type == TypeOf(IF tag \div 16 = 15 THEN map.n + 15 ELSE tag \div 16)
        kind == TypeMap[type].value
        low == CASE kind = "none" -> [bits |-> 8, more |-> (tag \div 8) % 2 = 1]
                 [] kind = "multi" /\ (tag \div 8) % 2 = 0 -> [bits |-> 2, more |-> (tag \div 2) % 2 = 1]
                 [] OTHER -> [bits |-> 4, more |-> (tag \div 4) % 2 = 1]
        delta == VarIntIf(low.more, map.pos)
        after == VarIntIf(kind = "multi" /\ (tag \div 8) % 2 = 1, delta.pos)
        value == CASE kind = "multi" /\ (tag \div 8) % 2 = 1 -> after.n
                   [] kind = "multi" -> (tag \div 4) % 4
                   [] kind = "single" -> (tag \div 8) % 2
                   [] OTHER -> 0
        size == VarIntIf(TypeMap[type].size /\ (value > 0 \/ kind # "single"), after.pos)
    IN  IF tag = 0 THEN [tag |-> [NoTag EXCEPT !.id = EndId], pos |-> p + 1]
        ELSE [tag |-> [id |-> delta.n * low.bits + (tag % low.bits) + Last(rstack) + 1,
                       type |-> type, value |-> value, size |-> size.n],
              pos |-> size.pos]

Entry(call) == <<call.id, call.type, call.value>>

Reading == wstack = <<>> /\ rstack # <<>>

\* The next tag is read when there is none.
ReadTagNext ==
    /\ Reading /\ tagNext.id = 0 /\ nread < Len(log)
    /\ \E next \in {TagAt(rpos)} : tagNext' = next.tag /\ rpos' = next.pos
    /\ UNCHANGED <<bytes, wstack, log, rstack, nread, result>>

\* pckReadConsumeBuffer(): the data of a field is passed over.
Consumed(tag) == tag.size

\* The reader asks for a later field: this one is skipped.
ReadSkip ==
    /\ Reading /\ tagNext.id \notin {0, EndId} /\ tagNext.type # "array"
    /\ log[nread + 1].type # "null"
    /\ rpos' = rpos + Consumed(tagNext)
    /\ rstack' = Front(rstack) \o <<tagNext.id>>
    /\ tagNext' = NoTag
    /\ nread' = nread + 1
    /\ UNCHANGED <<bytes, wstack, log, result>>

\* The field asked for is behind the next id: it is NULL, and its id is used up.
ReadNull ==
    /\ Reading /\ tagNext.id # 0
    /\ Last(rstack) + 1 < tagNext.id
    /\ nread < Len(log) /\ log[nread + 1].id = Last(rstack) + 1
    /\ rstack' = Front(rstack) \o <<Last(rstack) + 1>>
    /\ nread' = nread + 1
    /\ result' = [got |-> <<Last(rstack) + 1, "null", <<>>>>, want |-> Entry(log[nread + 1])]
    /\ UNCHANGED <<bytes, wstack, log, rpos, tagNext>>

\* The field is there: its value, or its bytes.  A container is entered.
ReadField ==
    LET want == log[nread + 1]
        data == SubSeq(bytes, rpos + 1, rpos + tagNext.size)
    IN  /\ Reading /\ tagNext.id \notin {0, EndId}
        /\ want.id <= tagNext.id /\ want.type # "null"
        /\ result' = [got |-> <<tagNext.id, tagNext.type,
                                IF tagNext.size > 0 THEN VarInt(tagNext.size) \o data ELSE <<tagNext.value>>>>,
                      want |-> Entry(want)]
        /\ rpos' = rpos + tagNext.size
        /\ rstack' = IF tagNext.type = "array" THEN Front(rstack) \o <<tagNext.id, 0>>
                     ELSE Front(rstack) \o <<tagNext.id>>
        /\ tagNext' = NoTag
        /\ nread' = nread + 1
        /\ UNCHANGED <<bytes, wstack, log>>

\* pckReadArrayEnd(), pckReadObjEnd(), pckReadEnd(): nothing more may be in the container
\* (fields that are left are skipped first).
ReadEnd ==
    /\ Reading /\ tagNext.id = EndId
    /\ log[nread + 1].id # Last(rstack) + 1
    /\ result' = [got |-> <<EndId, "end", <<>>>>, want |-> Entry(log[nread + 1])]
    /\ rstack' = Front(rstack)
    /\ tagNext' = NoTag
    /\ nread' = nread + 1
    /\ UNCHANGED <<bytes, wstack, log, rpos>>

PackNext ==
    \/ \E type \in {"u64", "time"}, gap \in Gaps \cup {0}, n \in Numbers : WriteNumber(type, gap, n)
    \/ \E b \in {0, 1} : WriteNumber("bool", 0, b)
    \/ \E data \in {<<>>, <<0>>, <<33, 0>>} : WriteStr(data)
    \/ WritePack(<<32, 0>>)
    \/ \E gap \in Gaps \cup {0} : WriteNumber("array", gap, 0)
    \/ WriteNull
    \/ WriteEnd
    \/ ReadTagNext
    \/ ReadSkip
    \/ ReadNull
    \/ ReadField
    \/ ReadEnd

PackSpec == PackInit /\ [][PackNext]_packVars

\* PackIsExact: every read returns the field that was written at that place, NULL where
\* nothing was, whatever fields the reader left out before, and the end is found
\* where the last byte is (pckWriteTag() and pckReadTag(), which have to be kept in
\* sync by hand).
PackIsExact ==
    /\ result.got = result.want
    /\ Reading => nread < Len(log)
    /\ Reading /\ tagNext.id # 0 =>
           log[nread + 1].id < tagNext.id \/ (log[nread + 1].id = tagNext.id /\ log[nread + 1].type # "null")
    /\ wstack = <<>> /\ rstack = <<>> => rpos = Len(bytes) /\ nread = Len(log)

-----------------------------------------------------------------------------
(* JSON *)
jsonVars == <<json, jsonWriteStack, wkey, jsonPos, jsonReadStack, rkey, asked, answer>>

Token(t) == [t |-> t, key |-> <<>>]

JsonInit ==
    /\ json = <<>>
    /\ jsonWriteStack = <<>>
    /\ wkey = FALSE
    /\ jsonPos = 0
    /\ jsonReadStack = <<>>
    /\ rkey = FALSE
    /\ asked = <<>>
    /\ answer = [is |-> 0, should |-> 0, prefix |-> FALSE]

\* strncmp(a, b, n).
Cmp(a, b, n) ==
    LET at(s, i) == IF i <= Len(s) THEN s[i] ELSE 0
        differ == {i \in 1 .. n : at(a, i) # at(b, i)}
    IN  IF differ = {} THEN 0
        ELSE LET i == CHOOSE i \in differ : \A j \in differ : i <= j IN at(a, i) - at(b, i)

(***************************************************************************)
(* Writing.                                                                *)
(***************************************************************************)

Complete == json # <<>> /\ jsonWriteStack = <<>>

JsonRoom == ~Complete /\ Len(json) + Len(jsonWriteStack) < MaxTokens

\* jsonWritePush(): the comma before a value or a key, and the stack with `first' set.
Comma(isKey) ==
    IF jsonWriteStack # <<>> /\ Last(jsonWriteStack).first /\ (Last(jsonWriteStack).type = "[" \/ isKey) THEN <<Token(",")>> ELSE <<>>

Pushed(stack) == IF stack = <<>> THEN <<>> ELSE Front(stack) \o <<[Last(stack) EXCEPT !.first = TRUE]>>

KeyOrderAny(key) == TRUE

\* Keys of an object are written in order.
KeyOrder(key) ==
    Last(jsonWriteStack).keyLast = <<>> \/ Cmp(key, Last(jsonWriteStack).keyLast, Len(key) + Len(Last(jsonWriteStack).keyLast)) > 0

WriteKey(key) ==
    /\ JsonRoom /\ jsonWriteStack # <<>> /\ Last(jsonWriteStack).type = "{" /\ ~wkey
    /\ KeyOrder(key)
    /\ json' = json \o Comma(TRUE) \o <<[t |-> "key", key |-> key]>>
    /\ jsonWriteStack' = Front(jsonWriteStack) \o <<[Last(jsonWriteStack) EXCEPT !.first = TRUE, !.keyLast = key]>>
    /\ wkey' = TRUE
    /\ UNCHANGED <<jsonPos, jsonReadStack, rkey, asked, answer>>

\* A value in an object needs a key first.
WriteValue(t) ==
    /\ JsonRoom
    /\ jsonWriteStack # <<>> /\ Last(jsonWriteStack).type = "{" => wkey
    /\ json' = json \o Comma(FALSE) \o <<Token(t)>>
    /\ jsonWriteStack' = IF t = "scalar" THEN Pushed(jsonWriteStack)
                 ELSE Pushed(jsonWriteStack) \o <<[type |-> t, first |-> FALSE, keyLast |-> <<>>]>>
    /\ wkey' = FALSE
    /\ UNCHANGED <<jsonPos, jsonReadStack, rkey, asked, answer>>

JsonWriteEnd ==
    /\ jsonWriteStack # <<>> /\ ~wkey
    /\ json' = Append(json, Token(IF Last(jsonWriteStack).type = "{" THEN "}" ELSE "]"))
    /\ jsonWriteStack' = Front(jsonWriteStack)
    /\ UNCHANGED <<wkey, jsonPos, jsonReadStack, rkey, asked, answer>>

(***************************************************************************)
(* Reading.                                                                *)
(***************************************************************************)

\* jsonReadTypeNextIgnoreComma(): the next token that is not a comma.
After(p) == IF json[p + 1].t = "," THEN p + 1 ELSE p

TypeNext(p) == json[After(p) + 1].t

\* Is a comma due before the next value or key of this container?
CommaDue(stack, isKey) ==
    stack # <<>> /\ Last(stack).first /\ (Last(stack).type = "[" \/ isKey)

\* jsonReadPush(): the position behind the comma; a comma that is due and missing is an error.
PushAt(p, stack, isKey) ==
    IF CommaDue(stack, isKey) THEN IF json[p + 1].t = "," THEN p + 1 ELSE -1 ELSE p

\* jsonReadSkip(): the position behind the value at p.
SkipAt(p) ==
    LET open(q) == Cardinality({i \in p + 1 .. q : json[i].t \in {"{", "["}})
        close(q) == Cardinality({i \in p + 1 .. q : json[i].t \in {"}", "]"}})
    IN  CHOOSE q \in p + 1 .. Len(json) : open(q) = close(q) /\ \A r \in p + 1 .. q - 1 : open(r) # close(r)

CompareWhole(key, next) == Cmp(key, next, Len(key) + Len(next))

\* How the key asked for compares with the next one, in the size of the next one: that is all
\* of it for a key that begins with the next one.
Compare(key, next) == Cmp(key, next, Len(next))

\* jsonReadKeyExpect(): keys before the one asked for are skipped with their values; a
\* key behind it is put back.  The result: found or not, the position and `first'.
RECURSIVE KeyExpect(_, _, _)
KeyExpect(p, first, key) ==
    IF TypeNext(p) = "}" THEN [found |-> FALSE, pos |-> p, first |-> first]
    ELSE LET at == IF first THEN p + 1 ELSE p
             compare == Compare(key, json[at + 1].key)
         IN  IF compare = 0 THEN [found |-> TRUE, pos |-> at + 1, first |-> TRUE]
             ELSE IF compare < 0 THEN [found |-> FALSE, pos |-> p, first |-> first]
             ELSE KeyExpect(SkipAt(at + 1), TRUE, key)

JsonReading == Complete /\ jsonPos < Len(json)

\* The keys of the object that begins at p, with their places.
KeysOf(p) ==
    LET depth(q) == Cardinality({i \in p .. q : json[i].t \in {"{", "["}})
                        - Cardinality({i \in p .. q : json[i].t \in {"}", "]"}})
    IN  {i \in p .. Len(json) : json[i].t = "key" /\ \A q \in p .. i : depth(q) >= 1 /\ depth(i) = 1}

\* The reader asks for keys in order.
ReadKeyExpect(key) ==
    /\ JsonReading /\ jsonReadStack # <<>> /\ Last(jsonReadStack).type = "{" /\ ~rkey
    /\ Last(asked).key = <<>> \/ CompareWhole(key, Last(asked).key) > 0
    /\ \E r \in {KeyExpect(jsonPos, Last(jsonReadStack).first, key)} :
          /\ jsonPos' = r.pos
          /\ rkey' = r.found
          /\ jsonReadStack' = Front(jsonReadStack) \o <<[Last(jsonReadStack) EXCEPT !.first = r.first]>>
          /\ answer' = [is |-> IF r.found THEN r.pos ELSE 0,
                        should |-> LET places == {i \in KeysOf(Last(asked).start) : json[i].key = key}
                                   IN  IF places = {} THEN 0 ELSE CHOOSE i \in places : TRUE,
                        prefix |-> \E i \in KeysOf(Last(asked).start) :
                                       i > jsonPos /\ json[i].key # key /\ IsPrefix(json[i].key, key)]
    /\ asked' = Front(asked) \o <<[Last(asked) EXCEPT !.key = key]>>
    /\ UNCHANGED <<json, jsonWriteStack, wkey>>

\* A value: a scalar is read, a container entered, either is skipped.
ReadValue(skip) ==
    LET p == PushAt(jsonPos, jsonReadStack, FALSE)
    IN  /\ JsonReading /\ TypeNext(jsonPos) \in {"scalar", "{", "["}
        /\ jsonReadStack # <<>> /\ Last(jsonReadStack).type = "{" => rkey
        /\ p # -1
        /\ LET t == json[p + 1].t
           IN  IF skip \/ t = "scalar"
               THEN jsonPos' = SkipAt(p) /\ jsonReadStack' = Pushed(jsonReadStack) /\ UNCHANGED asked
               ELSE /\ jsonPos' = p + 1
                    /\ jsonReadStack' = Pushed(jsonReadStack) \o <<[type |-> t, first |-> FALSE]>>
                    /\ asked' = Append(asked, [start |-> p + 1, key |-> <<>>])
        /\ rkey' = FALSE
        /\ UNCHANGED <<json, jsonWriteStack, wkey, answer>>

\* jsonReadPop(): the container has ended.
JsonReadEnd ==
    /\ JsonReading /\ jsonReadStack # <<>> /\ ~rkey
    /\ json[jsonPos + 1].t = IF Last(jsonReadStack).type = "{" THEN "}" ELSE "]"
    /\ jsonPos' = jsonPos + 1
    /\ jsonReadStack' = Front(jsonReadStack)
    /\ asked' = Front(asked)
    /\ UNCHANGED <<json, jsonWriteStack, wkey, rkey, answer>>

\* It has not: an error, after which nothing more is read.
JsonReadEndError ==
    /\ JsonReading /\ jsonReadStack # <<>> /\ ~rkey
    /\ json[jsonPos + 1].t # IF Last(jsonReadStack).type = "{" THEN "}" ELSE "]"
    /\ jsonPos' = Len(json) /\ jsonReadStack' = <<>> /\ asked' = <<>>
    /\ UNCHANGED <<json, jsonWriteStack, wkey, rkey, answer>>

JsonNext ==
    \/ \E key \in Keys : WriteKey(key)
    \/ \E t \in {"scalar", "{", "["} : WriteValue(t)
    \/ JsonWriteEnd
    \/ \E key \in Keys : ReadKeyExpect(key)
    \/ \E skip \in BOOLEAN : ReadValue(skip)
    \/ JsonReadEnd \/ JsonReadEndError

JsonSpec == JsonInit /\ [][JsonNext]_jsonVars

\* KeysAreFound: asked for keys in order, the reader finds a key exactly when the object
\* it is in has it, at its place, whatever it skipped before, unless the object has, ahead
\* of the reader, a key that the one asked for begins with: strncmp() in the size of the
\* key that is read takes that one for it (json.c:647).  The reader never comes to
\* a place where a comma, a key or a value is missing; and when the outermost value
\* has been read nothing is left (jsonWritePush(), jsonReadPush(), jsonReadKeyExpect()).
KeysAreFound ==
    /\ answer.prefix \/ answer.is = answer.should
    /\ JsonReading /\ TypeNext(jsonPos) \in {"scalar", "{", "["} => PushAt(jsonPos, jsonReadStack, FALSE) # -1
    /\ JsonReading /\ rkey => TypeNext(jsonPos) \in {"scalar", "{", "["}
    /\ JsonReading /\ jsonReadStack # <<>> /\ Last(jsonReadStack).type = "{" /\ ~rkey =>
           IF Last(jsonReadStack).first THEN json[jsonPos + 1].t \in {",", "}"} ELSE json[jsonPos + 1].t \in {"key", "}"}
    /\ Complete /\ jsonPos > 0 /\ jsonReadStack = <<>> => jsonPos = Len(json)
=============================================================================
