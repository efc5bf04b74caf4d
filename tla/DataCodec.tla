------------------------------ MODULE DataCodec ------------------------------
(***************************************************************************)
(* The payloads of device management: the TLV format of tlv.c, the plain   *)
(* text and opaque formats of data.c, the numbers of utils.c as text, and  *)
(* its base64.                                                             *)
(*                                                                         *)
(* A datum is [id, type, value]: the value of an "instance" or a           *)
(* "multiple" resource is the list of its children, that of a "string" or  *)
(* an "opaque" its bytes, that of a "link" a pair of ids.  Floats and the  *)
(* JSON formats are left out.                                              *)
(***************************************************************************)
EXTENDS Integers, Sequences, SequencesExt

CONSTANTS Byte,     \* the number of values of a byte of TLV: 256 in the code
          UIntMax   \* the largest unsigned integer of the text conversions: UINT64_MAX

ASSUME CodecAssumption == /\ Byte \in Nat /\ Byte >= 16 /\ Byte % 2 = 0
                          /\ UIntMax \in Nat /\ UIntMax % 2 = 1

Failed == [failed |-> TRUE]

Containers == {"instance", "multiple"}

(* The first n digits of v in base Byte, the most significant first. *)
RECURSIVE Digits(_, _)
Digits(v, n) == IF n = 0 THEN <<>> ELSE Append(Digits(v \div Byte, n - 1), v % Byte)

Number(digits) == FoldLeft(LAMBDA v, d: Byte * v + d, 0, digits)

Inverted(digits) == [i \in DOMAIN digits |-> Byte - 1 - digits[i]]

------------------------------------------------------------------------------
(* TLV: writing. *)

(* The widths an integer is written in, and the smallest that holds it. *)
Width(Fits(_)) == CHOOSE n \in {1, 2, 4, 8} : Fits(n) /\ \A m \in {1, 2, 4} : m < n => ~Fits(m)

(* -limit <= v < limit, where limit is half of Byte ^ n. *)
FitsSigned(v, n) == n = 8 \/ LET limit == (Byte \div 2) * Byte ^ (n - 1) IN -limit <= v /\ v < limit

prv_encodeInt(v) ==
  LET n == Width(LAMBDA m: FitsSigned(v, m))
  IN  IF v >= 0 THEN Digits(v, n) ELSE Inverted(Digits(-v - 1, n))

prv_encodeUInt(v) == Digits(v, Width(LAMBDA m: m = 8 \/ v < Byte ^ m))

prv_getHeaderType(type) ==
  CASE type = "instance" -> 0
    [] type = "multiple" -> 128
    [] OTHER             -> 192

prv_getHeaderLength(id, length) ==
  2 + (IF id >= Byte THEN 1 ELSE 0)
    + (IF length >= Byte * Byte THEN 3 ELSE IF length >= Byte THEN 2 ELSE IF length > 7 THEN 1 ELSE 0)

prv_createHeader(isInstance, type, id, length) ==
  LET hdrType == IF isInstance THEN 64 ELSE prv_getHeaderType(type)
      long    == IF id >= Byte THEN 32 ELSE 0
      ids     == Digits(id, IF id >= Byte THEN 2 ELSE 1)
  IN  IF length <= 7 THEN <<hdrType + long + length>> \o ids
      ELSE LET n == IF length < Byte THEN 1 ELSE IF length < Byte * Byte THEN 2 ELSE 3
           IN  <<hdrType + long + 8 * n>> \o ids \o Digits(length, n)

(* The bytes of a leaf. *)
LeafBytes(d) ==
  CASE d.type \in {"string", "opaque"} -> d.value
    [] d.type = "integer"              -> prv_encodeInt(d.value)
    [] d.type = "unsigned"             -> prv_encodeUInt(d.value)
    [] d.type = "boolean"              -> IF d.value THEN <<1>> ELSE <<0>>
    [] d.type = "link"                 -> Digits(d.value[1], 2) \o Digits(d.value[2], 2)

(* The length of a leaf, from its own switch of prv_getLength. *)
LeafLength(d) ==
  CASE d.type \in {"string", "opaque"} -> Len(d.value)
    [] d.type = "integer"              -> Len(prv_encodeInt(d.value))
    [] d.type = "unsigned"             -> Len(prv_encodeUInt(d.value))
    [] d.type = "boolean"              -> 1
    [] d.type = "link"                 -> 4

RECURSIVE prv_getLength(_)
prv_getLength(data) ==
  FoldLeft(LAMBDA sum, d: LET n == IF d.type \in Containers THEN prv_getLength(d.value) ELSE LeafLength(d)
                          IN  sum + prv_getHeaderLength(d.id, n) + n,
           0, data)

(* The children of a multiple resource are its instances, and so is what   *)
(* an object instance holds when the caller says so.                       *)
RECURSIVE tlv_serialize(_, _)
tlv_serialize(isResourceInstance, data) ==
  FoldLeft(LAMBDA out, d:
    IF d.type \in Containers
    THEN LET sub == tlv_serialize(isResourceInstance \/ d.type = "multiple", d.value)
         IN  out \o prv_createHeader(FALSE, d.type, d.id, Len(sub)) \o sub
    ELSE LET leaf == LeafBytes(d)
         IN  out \o prv_createHeader(isResourceInstance, d.type, d.id, Len(leaf)) \o leaf,
    <<>>, data)

------------------------------------------------------------------------------
(* TLV: reading. *)

prv_getDataType(header) ==
  CASE header \div 64 = 0 -> "instance"
    [] header \div 64 = 2 -> "multiple"
    [] OTHER              -> "opaque"

(* The element at the start of a buffer: its type, id, data and whole length, or none. *)
(* A fault: the length field is looked for where that of a short id would be. *)
lwm2m_decode_TLV_short(buffer) ==
  LET long   == IF (buffer[1] \div 32) % 2 = 1 THEN 1 ELSE 0
      n      == (buffer[1] \div 8) % 4
      index  == 2 + long + n
      length == IF n = 0 THEN buffer[1] % 8 ELSE Number(SubSeq(buffer, 3, 2 + n))
  IN  IF Len(buffer) < 2 \/ Len(buffer) < index \/ Len(buffer) < index + length THEN Failed
      ELSE [type |-> prv_getDataType(buffer[1]), id |-> Number(SubSeq(buffer, 2, 2 + long)),
            data |-> SubSeq(buffer, index + 1, index + length), whole |-> index + length]

lwm2m_decode_TLV(buffer) ==
  LET long   == IF (buffer[1] \div 32) % 2 = 1 THEN 1 ELSE 0
      n      == (buffer[1] \div 8) % 4
      index  == 2 + long + n
      length == IF n = 0 THEN buffer[1] % 8 ELSE Number(SubSeq(buffer, 3 + long, index))
  IN  IF Len(buffer) < 2 \/ Len(buffer) < index \/ Len(buffer) < index + length THEN Failed
      ELSE [type |-> prv_getDataType(buffer[1]), id |-> Number(SubSeq(buffer, 2, 2 + long)),
            data |-> SubSeq(buffer, index + 1, index + length), whole |-> index + length]

(* The elements read until one does not decode; a container without        *)
(* children makes the whole buffer, and those around it, fail.             *)
RECURSIVE ParseFrom(_, _)
ParseFrom(buffer, read) ==
  LET e == lwm2m_decode_TLV(buffer)
  IN  IF e = Failed THEN read
      ELSE LET sub == IF e.type \in Containers THEN ParseFrom(e.data, <<>>) ELSE e.data
           IN  IF e.type \in Containers /\ sub = <<>> THEN <<>>
               ELSE ParseFrom(SubSeq(buffer, e.whole + 1, Len(buffer)),
                              Append(read, [id |-> e.id, type |-> e.type, value |-> sub]))

tlv_parse(buffer) == ParseFrom(buffer, <<>>)

------------------------------------------------------------------------------
(* Numbers as text: a character is its code. *)

Zero == 48
Minus == 45
Colon == 58
Nul == 0

RECURSIVE Decimal(_)
Decimal(v) == IF v < 10 THEN <<Zero + v>> ELSE Append(Decimal(v \div 10), Zero + (v % 10))

(* The text of a number, or nothing when it does not fit the room. *)
utils_uintToText(v, room) == IF Len(Decimal(v)) > room THEN <<>> ELSE Decimal(v)

utils_intToText(v, room) ==
  IF v >= 0 THEN utils_uintToText(v, room)
  ELSE LET digits == utils_uintToText(-v, room - 1) IN IF digits = <<>> THEN <<>> ELSE <<Minus>> \o digits

IsDigit(c) == c \in Zero..(Zero + 9)

(* The conversions return a list of the value, and an empty one when they fail. *)
None == <<>>

(* The value of a text of digits, which wraps when the last digit takes it past UIntMax. *)
utils_textToUInt(text) ==
  IF text = <<>> THEN None
  ELSE FoldLeft(LAMBDA v, c: IF v = None \/ ~IsDigit(c) THEN None
                             ELSE IF v[1] > UIntMax \div 10 THEN None
                             ELSE <<(10 * v[1] + (c - Zero)) % (UIntMax + 1)>>,
                <<0>>, text)

(* A lone sign is read as zero. *)
Magnitude(text) ==
  IF text = <<Minus>> THEN <<0>>
  ELSE utils_textToUInt(IF text # <<>> /\ Head(text) = Minus THEN Tail(text) ELSE text)

utils_textToInt(text) ==
  LET v == Magnitude(text)
  IN  IF v = None \/ v[1] > UIntMax \div 2 + (IF Head(text) = Minus THEN 1 ELSE 0) THEN None
      ELSE IF Head(text) = Minus THEN <<-v[1]>> ELSE v

LWM2M_MAX_ID == 65535

------------------------------------------------------------------------------
(* Base64 on bytes of eight bits.  A character is its place in b64Alphabet. *)

PRV_B64_PADDING == 64

prv_encodeBlock(b) ==
  <<b[1] \div 4, 16 * (b[1] % 4) + b[2] \div 16, 4 * (b[2] % 16) + b[3] \div 64, b[3] % 64>>

utils_base64GetSize(length) == 4 * (length \div 3) + (IF length % 3 = 0 THEN 0 ELSE 4)

RECURSIVE utils_base64Encode(_)
utils_base64Encode(data) ==
  CASE Len(data) = 0 -> <<>>
    [] Len(data) = 1 -> SubSeq(prv_encodeBlock(data \o <<0, 0>>), 1, 2) \o <<PRV_B64_PADDING, PRV_B64_PADDING>>
    [] Len(data) = 2 -> SubSeq(prv_encodeBlock(data \o <<0>>), 1, 3) \o <<PRV_B64_PADDING>>
    [] OTHER         -> prv_encodeBlock(data) \o utils_base64Encode(SubSeq(data, 4, Len(data)))

utils_base64GetDecodedSize(text) ==
  LET n == Len(text)
  IN  3 * (n \div 4) + (CASE n % 4 = 0 /\ n > 0 -> IF text[n - 1] = PRV_B64_PADDING THEN -2
                                                   ELSE IF text[n] = PRV_B64_PADDING THEN -1 ELSE 0
                          [] n % 4 = 2 -> 1
                          [] n % 4 = 3 -> 2
                          [] OTHER     -> 0)

(* The bytes of up to four characters; padding ends them where the size says the text ends. *)
RECURSIVE DecodeFrom(_, _, _)
DecodeFrom(text, out, size) ==
  LET v(i) == text[i]
      one  == Append(out, (4 * v(1) + v(2) \div 16) % 256)
      two  == Append(one, (16 * v(2) + v(3) \div 4) % 256)
  IN  IF text = <<>> THEN IF Len(out) = size THEN <<out>> ELSE None
      ELSE IF Len(text) < 2 \/ v(1) >= 64 \/ v(2) >= 64 THEN None
      ELSE IF Len(text) = 2 THEN DecodeFrom(<<>>, one, size)
      ELSE IF v(3) = PRV_B64_PADDING THEN IF Len(one) # size THEN None ELSE DecodeFrom(SubSeq(text, 5, Len(text)), one, size)
      ELSE IF Len(text) = 3 THEN DecodeFrom(<<>>, two, size)
      ELSE IF v(4) = PRV_B64_PADDING THEN IF Len(two) # size THEN None ELSE DecodeFrom(SubSeq(text, 5, Len(text)), two, size)
      ELSE DecodeFrom(SubSeq(text, 5, Len(text)), Append(two, (64 * v(3) + v(4)) % 256), size)

utils_base64Decode(text) == DecodeFrom(text, <<>>, utils_base64GetDecodedSize(text))

------------------------------------------------------------------------------
(* The formats of data.c. *)

PRV_STR_LENGTH == 32

(* An object link's colon goes to the sixth place wherever the object's id *)
(* ends: what follows a shorter id is the zero that terminates it.         *)
prv_textSerialize(d) ==
  CASE d.type = "string"   -> d.value
    [] d.type = "integer"  -> utils_intToText(d.value, PRV_STR_LENGTH)
    [] d.type = "unsigned" -> utils_uintToText(d.value, PRV_STR_LENGTH)
    [] d.type = "boolean"  -> <<IF d.value THEN Zero + 1 ELSE Zero>>
    [] d.type = "link"     -> LET first == utils_intToText(d.value[1], 5)
                              IN  first \o <<IF Len(first) = 5 THEN Colon ELSE Nul>> \o utils_intToText(d.value[2], 5)
    [] d.type = "opaque"   -> utils_base64Encode(d.value)

lwm2m_data_decode_int(d) ==
  CASE d.type = "integer"  -> <<d.value>>
    [] d.type = "unsigned" -> IF d.value <= UIntMax \div 2 THEN <<d.value>> ELSE None
    [] d.type = "string"   -> utils_textToInt(d.value)
    [] d.type = "opaque"   -> IF Len(d.value) \notin {1, 2, 4, 8} THEN None
                              ELSE IF Head(d.value) < Byte \div 2 THEN <<Number(d.value)>>
                              ELSE <<-Number(Inverted(d.value)) - 1>>
    [] OTHER               -> None

lwm2m_data_decode_uint(d) ==
  CASE d.type = "integer"  -> IF d.value >= 0 THEN <<d.value>> ELSE None
    [] d.type = "unsigned" -> <<d.value>>
    [] d.type = "string"   -> utils_textToUInt(d.value)
    [] d.type = "opaque"   -> IF Len(d.value) \in {1, 2, 4, 8} THEN <<Number(d.value)>> ELSE None
    [] OTHER               -> None

lwm2m_data_decode_bool(d) ==
  CASE d.type = "boolean" -> <<d.value>>
    [] d.type = "string"  -> IF d.value \in {<<Zero>>, <<Zero + 1>>} THEN <<d.value[1] # Zero>> ELSE None
    [] d.type = "opaque"  -> IF d.value \in {<<0>>, <<1>>} THEN <<d.value[1] # 0>> ELSE None
    [] OTHER              -> None

(* The value of a datum read back as the type the writer gave it. *)
ReadAs(type, d) ==
  CASE type = "integer"  -> lwm2m_data_decode_int(d)
    [] type = "unsigned" -> lwm2m_data_decode_uint(d)
    [] type = "boolean"  -> lwm2m_data_decode_bool(d)
    [] type = "link"     -> <<<<Number(SubSeq(d.value, 1, 2)), Number(SubSeq(d.value, 3, 4))>>>>
    [] OTHER             -> <<d.value>>

(* The format that is used, and the bytes; text and opaque hold a single   *)
(* resource, and fall back on SenML JSON, whose bytes are not modelled.    *)
lwm2m_data_serialize(uri, data, format) ==
  LET single == Len(data) = 1 /\ Len(uri) >= 3 /\ data[1].type \notin Containers
      final  == IF format \in {"text", "opaque"} /\ ~single THEN "senml" ELSE format
  IN  CASE final = "senml"  -> [format |-> "senml", bytes |-> data]
        [] final = "text"   -> [format |-> "text", bytes |-> prv_textSerialize(data[1])]
        [] final = "opaque" -> IF data[1].type # "opaque" THEN Failed ELSE [format |-> "opaque", bytes |-> data[1].value]
        [] final = "tlv"    ->
             IF Len(uri) = 4 /\ (Len(data) # 1 \/ data[1].id # uri[4]) THEN Failed
             ELSE [format |-> "tlv",
                   bytes |-> tlv_serialize(Len(uri) = 4 \/ (Len(uri) = 3 /\ (Len(data) # 1 \/ data[1].id # uri[3])), data)]

lwm2m_data_parse(uri, bytes, format) ==
  CASE format \in {"text", "opaque"} ->
         IF Len(uri) < 3 THEN <<>>
         ELSE <<[id |-> Last(uri), type |-> IF format = "text" THEN "string" ELSE "opaque", value |-> bytes]>>
    [] format = "tlv"   -> tlv_parse(bytes)
    [] format = "senml" -> bytes
==============================================================================
