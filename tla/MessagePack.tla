------------------------------- MODULE MessagePack ------------------------------
(***************************************************************************)
(* decodeMsgpackValue and what it calls, and decodeSignedTransactions, of   *)
(* src/transaction-policy.js: a body is read value after value; offsets     *)
(* count from 0, as in the code.                                            *)
(*                                                                          *)
(* A decoded value is [kind, data]: an integer's data is the shortest digits *)
(* of base 256 that denote it, of a string or binary its bytes, of an array *)
(* its values, and of a map its set of pairs.  Keys that are no strings are *)
(* left out, and the last of two equal keys wins.                           *)
(***************************************************************************)
EXTENDS Naturals, Sequences, SequencesExt

CONSTANTS
  MaxDepth,              \* MAX_MSGPACK_DEPTH
  MaxCollectionLength,   \* MAX_MSGPACK_COLLECTION_LENGTH
  Chunks,                \* what a body is put together from
  MaxBodyLength          \* a bound for TLC

ASSUME PackAssumption ==
  /\ MaxDepth \in Nat /\ MaxCollectionLength \in Nat /\ MaxBodyLength \in Nat
  /\ Chunks \subseteq Seq(0..255)

VARIABLE packed   \* the body of a submission

Value(kind, data) == [kind |-> kind, data |-> data]
Decoded(value, offset) == [error |-> "none", value |-> value, offset |-> offset]
Refused(error) == [error |-> error, value |-> Value("null", <<>>), offset |-> 0]

\* Buffer.subarray: clamps at the end of the buffer.
Bytes(buffer, offset, length) == SubSeq(buffer, offset + 1, Min({offset + length, Len(buffer)}))

Available(buffer, offset, length) == offset + length <= Len(buffer)

\* The digits without the ones at the front that add nothing.
Shortest(digits, filler) ==
  LET telling == {i \in DOMAIN digits : digits[i] # filler}
  IN  IF telling = {} THEN <<>> ELSE SubSeq(digits, Min(telling), Len(digits))

Unsigned(digits) == Value("int", Shortest(digits, 0))
Signed(digits) ==
  IF Head(digits) < 128 THEN Unsigned(digits) ELSE Value("negative", Shortest(digits, 255))

Number(digits) ==
  LET number[n \in 0..Len(digits)] ==
        IF n = 0 THEN 0 ELSE 256 * number[n - 1] + digits[n]
  IN  number[Len(digits)]

-----------------------------------------------------------------------------
\* The families of markers: how many bytes follow with a number or a length.
Width(marker) ==
  CASE marker \in {196, 204, 208, 217} -> 1
    [] marker \in {197, 205, 209, 218, 220, 222} -> 2
    [] marker \in {198, 206, 210, 219, 221, 223} -> 4
    [] marker \in {207, 211} -> 8
    [] OTHER -> 0

Binaries == 196..198
UnsignedIntegers == 204..207
SignedIntegers == 208..211
Strings == 217..219
Arrays == 220..221
Maps == 222..223

ScalarMarkers ==
  (0..127) \union UnsignedIntegers \union SignedIntegers \union (224..255)
    \union {192, 194, 195}

\* `number` is the bytes that follow the marker.
Scalar(marker, number) ==
  CASE marker <= 127 -> Unsigned(<<marker>>)
    [] marker \in UnsignedIntegers -> Unsigned(number)
    [] marker \in SignedIntegers -> Signed(number)
    [] marker >= 224 -> Signed(<<marker>>)
    [] marker = 192 -> Value("null", <<>>)
    [] OTHER -> Value("boolean", <<marker - 194>>)

\* Of a collection or a string whose marker holds it, or follows with it.
Length(marker, number) ==
  CASE marker \in 128..159 -> marker % 16
    [] marker \in 160..191 -> marker % 32
    [] OTHER -> Number(number)

\* What has been read, and one value more.
Push(before, next) ==
  IF next.error # "none" THEN next
  ELSE Decoded(Append(before.value, next.value), next.offset)

\* `count` values one after the other, each read by `decode`: their sequence.
DecodeItems(decode, offset, count) ==
  LET items[n \in 0..count] ==
        IF n = 0 THEN Decoded(<<>>, offset)
        ELSE LET before == items[n - 1]
             IN  IF before.error # "none" THEN before
                 ELSE Push(before, decode[before.offset])
  IN  items[count]

\* value[key] = item for every pair whose key is a string.
Pairs(items) ==
  LET named == {i \in 1..(Len(items) \div 2) : items[2 * i - 1].kind = "string"}
  IN  {<<items[2 * i - 1].data, items[2 * i]>> :
         i \in {i \in named : \A j \in named : j > i => items[2 * j - 1] # items[2 * i - 1]}}

\* `inner` decodes what is in a map or an array.
DecodeMap(inner, offset, length) ==
  LET items == DecodeItems(inner, offset, 2 * length)
  IN  IF length > MaxCollectionLength THEN Refused("large")
      ELSE IF items.error # "none" THEN items
      ELSE Decoded(Value("map", Pairs(items.value)), items.offset)

DecodeArray(inner, offset, length) ==
  LET items == DecodeItems(inner, offset, length)
  IN  IF length > MaxCollectionLength THEN Refused("large")
      ELSE IF items.error # "none" THEN items
      ELSE Decoded(Value("array", items.value), items.offset)

\* Mutant: no comparison with the end, where the buffer's own methods clamp.
DecodeBytesClamped(kind, buffer, offset, length) ==
  Decoded(Value(kind, Bytes(buffer, offset, length)), offset + length)

DecodeBytes(kind, buffer, offset, length) ==
  IF Available(buffer, offset, length)
  THEN Decoded(Value(kind, Bytes(buffer, offset, length)), offset + length)
  ELSE Refused("end")

\* The value of a marker, when the bytes that follow it up to `after` are there.
DecodeFamily(inner, buffer, marker, number, after) ==
  LET length == Length(marker, number)
  IN  CASE marker \in ScalarMarkers -> Decoded(Scalar(marker, number), after)
        [] marker \in (128..143) \union Maps -> DecodeMap(inner, after, length)
        [] marker \in (144..159) \union Arrays -> DecodeArray(inner, after, length)
        [] marker \in (160..191) \union Strings -> DecodeBytes("string", buffer, after, length)
        [] marker \in Binaries -> DecodeBytes("binary", buffer, after, length)
        [] OTHER -> Refused("unsupported")

\* decodeMsgpackValue below its test of the depth.
DecodeMarker(inner, buffer, offset) ==
  LET marker == buffer[offset + 1]
      width == Width(marker)
  IN  IF offset >= Len(buffer) \/ ~Available(buffer, offset + 1, width) THEN Refused("end")
      ELSE DecodeFamily(inner, buffer, marker, Bytes(buffer, offset + 1, width),
                        offset + 1 + width)

\* Mutant: one level too many.
LevelsOneMore == MaxDepth + 2

Levels == MaxDepth + 1

\* The values of a body by their offsets, when `left` levels are left: each level is
\* decoded with the one inside it, and the one below the last refuses everything.
DecodersOf(buffer) ==
  LET at[left \in 0..Levels] ==
        IF left = 0 THEN [offset \in Nat |-> Refused("deep")]
        ELSE [offset \in Nat |-> DecodeMarker(at[left - 1], buffer, offset)]
  IN  at

\* decodeMsgpackValue at depth 0.
Decode(buffer) == DecodersOf(buffer)[Levels]

-----------------------------------------------------------------------------
Prepend(value, rest) ==
  IF rest.error # "none" THEN rest ELSE Decoded(<<value>> \o rest.value, rest.offset)

\* Mutant: what follows the first value is not read.
ReadFirstValue(buffer) ==
  [offset \in 0..Len(buffer) |->
     LET first == Decode(buffer)[offset]
     IN  IF offset = Len(buffer) \/ first.error # "none" THEN first
         ELSE [first EXCEPT !.value = <<@>>]]

\* The loop of decodeSignedTransactions, by the offset it goes on from.
ReadValues(buffer) ==
  LET read[offset \in 0..Len(buffer)] ==
        IF offset = Len(buffer) THEN Decoded(<<>>, offset)
        ELSE LET first == Decode(buffer)[offset]
             IN  IF first.error # "none" THEN first
                 ELSE Prepend(first.value, read[first.offset])
  IN  read

Spread(value) == IF value.kind = "array" THEN value.data ELSE <<value>>

\* The transactions of a body, when it decodes.
Transactions(buffer) ==
  LET values == ReadValues(buffer)[0].value
  IN  FlattenSeq([i \in DOMAIN values |-> Spread(values[i])])

Decodes(buffer) == buffer # <<>> /\ ReadValues(buffer)[0].error = "none"

-----------------------------------------------------------------------------
PackInit == packed = <<>>

\* A body that is refused for what it has is refused however it goes on.
PackNext ==
  /\ Len(packed) < MaxBodyLength
  /\ ReadValues(packed)[0].error \in {"none", "end"}
  /\ \E chunk \in Chunks : packed' = packed \o chunk

PackSpec == PackInit /\ [][PackNext]_packed

-----------------------------------------------------------------------------
\* A value is read from the bytes it is made of and no others: what follows does
\* not change it, and with one byte less it is refused as incomplete.  Every
\* length and width is compared with the end of the buffer (assertAvailable).
ValuesEndWhereTheirBytesEnd ==
  LET decoded == Decode(packed)[0]
      Cut(n) == Decode(Bytes(packed, 0, n))[0]
  IN  decoded.error = "none" =>
        /\ Cut(decoded.offset) = decoded
        /\ \A n \in 0..(decoded.offset - 1) : Cut(n).error = "end"

\* A body that is two bodies one after the other is refused, or checked, for the
\* transactions of both: none hides behind a value or an array before it.
TransactionsAddUp ==
  \A n \in 1..(Len(packed) - 1) :
    LET head == SubSeq(packed, 1, n)
        tail == SubSeq(packed, n + 1, Len(packed))
    IN  Decodes(head) =>
          /\ Decodes(packed) <=> Decodes(tail)
          /\ Decodes(tail) =>
               Transactions(packed) = Transactions(head) \o Transactions(tail)

Parts(value) ==
  CASE value.kind = "array" -> Range(value.data)
    [] value.kind = "map" -> {pair[2] : pair \in value.data}
    [] OTHER -> {}

\* What is `levels` levels inside some values.
Inside(values, levels) ==
  LET inside[n \in 0..levels] ==
        IF n = 0 THEN values ELSE UNION {Parts(value) : value \in inside[n - 1]}
  IN  inside[levels]

\* No body makes values deeper than the limit, so the recursion of the decoder is
\* bounded: maps and arrays count alike, whatever they are in.
NestingIsBounded ==
  Decodes(packed) => Inside(Range(ReadValues(packed)[0].value), MaxDepth + 1) = {}
=============================================================================
