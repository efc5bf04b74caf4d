----------------------------- MODULE CoapMessage -----------------------------
(***************************************************************************)
(* The CoAP message format of er-coap-13.c: the setters that build a       *)
(* packet, the size they are given a buffer for, the bytes they become and *)
(* the parser that reads them back.                                        *)
(*                                                                         *)
(* A packet's "options" maps the numbers marked in the bitmap to their     *)
(* fields: a number, bytes, a list of segments, a list of formats or a     *)
(* block.  Characters are bytes.  The options the library never sets and   *)
(* never reads (Location-Query, Proxy-Uri) are left out.                   *)
(***************************************************************************)
EXTENDS Integers, Sequences, SequencesExt, FiniteSetsExt

COAP_HEADER_LEN == 4
COAP_ETAG_LEN == 8
COAP_TOKEN_LEN == 8
COAP_MAX_ACCEPT_NUM == 2
COAP_MAX_OPTION_HEADER_LEN == 5

IF_MATCH == 1
URI_HOST == 3
ETAG == 4
IF_NONE_MATCH == 5
OBSERVE == 6
URI_PORT == 7
LOCATION_PATH == 8
URI_PATH == 11
CONTENT_TYPE == 12
MAX_AGE == 14
URI_QUERY == 15
ACCEPT == 17
BLOCK2 == 23
BLOCK1 == 27
SIZE == 28

ByteOptions == {IF_MATCH, URI_HOST, ETAG}
NumberOptions == {IF_NONE_MATCH, OBSERVE, URI_PORT, CONTENT_TYPE, MAX_AGE, SIZE}
MultiOptions == {LOCATION_PATH, URI_PATH, URI_QUERY}
BlockOptions == {BLOCK2, BLOCK1}

(* The order in which coap_serialize_message visits the options. *)
OptionOrder == <<IF_MATCH, URI_HOST, ETAG, IF_NONE_MATCH, OBSERVE, URI_PORT, LOCATION_PATH,
                 URI_PATH, CONTENT_TYPE, MAX_AGE, URI_QUERY, ACCEPT, BLOCK2, BLOCK1, SIZE>>

(* What the parser returns instead of a packet. *)
BAD_REQUEST_4_00 == [error |-> 128]
BAD_OPTION_4_02 == [error |-> 130]

NoOptions == [n \in {} |-> 0]

With(options, n, v) == [m \in DOMAIN options \cup {n} |-> IF m = n THEN v ELSE options[m]]

Field(p, n, absent) == IF n \in DOMAIN p.options THEN p.options[n] ELSE absent

------------------------------------------------------------------------------
(* Building a packet. *)

coap_init_message(type, code, mid) ==
  [type |-> type, code |-> code, mid |-> mid, token |-> <<>>, options |-> NoOptions, payload |-> <<>>]

SetOption(p, n, v) == [p EXCEPT !.options = With(@, n, v)]

(* A segment's length is kept in a uint8_t. *)
coap_add_multi_option(list, segment) == Append(list, SubSeq(segment, 1, Len(segment) % 256))

coap_set_header_content_type(p, v) == SetOption(p, CONTENT_TYPE, v)

(* A format is kept in a uint16_t, and so is a port. *)
coap_set_header_accept(p, v) ==
  LET accept == Field(p, ACCEPT, <<>>)
  IN  IF Len(accept) < COAP_MAX_ACCEPT_NUM THEN SetOption(p, ACCEPT, Append(accept, v % 65536)) ELSE p

coap_set_header_max_age(p, v) == SetOption(p, MAX_AGE, v)

coap_set_header_etag(p, v) == SetOption(p, ETAG, SubSeq(v, 1, Min({COAP_ETAG_LEN, Len(v)})))

coap_set_header_if_match(p, v) == SetOption(p, IF_MATCH, SubSeq(v, 1, Min({COAP_ETAG_LEN, Len(v)})))

coap_set_header_if_none_match(p) == SetOption(p, IF_NONE_MATCH, 0)

coap_set_header_token(p, v) == [p EXCEPT !.token = SubSeq(v, 1, Min({COAP_TOKEN_LEN, Len(v)}))]

coap_set_header_uri_host(p, v) == SetOption(p, URI_HOST, v)

coap_set_header_uri_port(p, v) == SetOption(p, URI_PORT, v % 65536)

coap_set_header_observe(p, v) == SetOption(p, OBSERVE, v % 16777216)

(* The segments of a string: one per separator, and none after a last one. *)
RECURSIVE Segments(_, _)
Segments(s, sep) ==
  LET at == SelectInSeq(s, LAMBDA c: c = sep)
  IN  IF at = 0 THEN <<s>>
      ELSE IF at = Len(s) THEN <<SubSeq(s, 1, at - 1)>>
      ELSE <<SubSeq(s, 1, at - 1)>> \o Segments(SubSeq(s, at + 1, Len(s)), sep)

Without(s, lead) == IF s # <<>> /\ Head(s) = lead THEN Tail(s) ELSE s

SlashChar == 47
QueryChar == 63
AmpersandChar == 38

MultiOf(segments) == FoldLeft(coap_add_multi_option, <<>>, segments)

coap_set_header_uri_path(p, s) == SetOption(p, URI_PATH, MultiOf(Segments(Without(s, SlashChar), SlashChar)))

coap_set_header_uri_path_segment(p, s) == SetOption(p, URI_PATH, coap_add_multi_option(Field(p, URI_PATH, <<>>), s))

coap_set_header_uri_query(p, s) == SetOption(p, URI_QUERY, MultiOf(Segments(Without(s, QueryChar), AmpersandChar)))

coap_set_header_location_path(p, s) ==
  SetOption(p, LOCATION_PATH, MultiOf(Segments(Without(s, SlashChar), SlashChar)))

SetBlock(p, n, num, more, size) ==
  IF size < 16 \/ size > 2048 \/ num > 1048575 THEN p
  ELSE SetOption(p, n, [num |-> num, more |-> more, size |-> size])

coap_set_header_block2(p, num, more, size) == SetBlock(p, BLOCK2, num, more, size)

coap_set_header_block1(p, num, more, size) == SetBlock(p, BLOCK1, num, more, size)

coap_set_payload(p, bytes) == [p EXCEPT !.payload = bytes]

------------------------------------------------------------------------------
(* Writing it. *)

(* The bytes of a number without its leading zeros: none for zero. *)
RECURSIVE Bytes(_)
Bytes(v) == IF v = 0 THEN <<>> ELSE Append(Bytes(v \div 256), v % 256)

coap_option_nibble(value) ==
  IF value < 13 THEN value ELSE IF value <= 268 THEN 13 ELSE 14

Extended(value) ==
  IF value > 268 THEN <<(value - 269) \div 256, (value - 269) % 256>>
  ELSE IF value > 12 THEN <<value - 13>> ELSE <<>>

coap_set_option_header(delta, length) ==
  <<16 * coap_option_nibble(delta) + coap_option_nibble(length)>> \o Extended(delta) \o Extended(length)

coap_serialize_array_option(number, current, bytes) ==
  coap_set_option_header(number - current, Len(bytes)) \o bytes

coap_serialize_int_option(number, current, value) ==
  LET bytes == Bytes(value) IN coap_set_option_header(number - current, Len(bytes)) \o bytes

(* One header per segment, the later ones with a delta of zero. *)
coap_serialize_multi_option(number, current, list) ==
  FoldLeftDomain(LAMBDA out, i: out \o coap_serialize_array_option(number, IF i = 1 THEN current ELSE number, list[i]),
                 <<>>, list)

(* A fault: the option that comes second repeats its whole number. *)
SerializeAccept_number(number, current, list) ==
  FoldLeftDomain(LAMBDA out, i: out \o coap_serialize_int_option(number, current, list[i]), <<>>, list)

SerializeAccept(number, current, list) ==
  FoldLeftDomain(LAMBDA out, i: out \o coap_serialize_int_option(number, IF i = 1 THEN current ELSE number, list[i]),
                 <<>>, list)

RECURSIVE coap_log_2(_)
coap_log_2(value) == IF value <= 1 THEN 0 ELSE 1 + coap_log_2(value \div 2)

SerializeBlock(number, current, block) ==
  coap_serialize_int_option(number, current,
    16 * block.num + (IF block.more THEN 8 ELSE 0) + (coap_log_2(block.size \div 16) % 16))

SerializeOption(number, current, value) ==
  CASE number \in ByteOptions   -> coap_serialize_array_option(number, current, value)
    [] number \in NumberOptions -> coap_serialize_int_option(number, current, value)
    [] number \in MultiOptions  -> coap_serialize_multi_option(number, current, value)
    [] number = ACCEPT          -> SerializeAccept(number, current, value)
    [] number \in BlockOptions  -> SerializeBlock(number, current, value)

(* The bytes of the options that are set, each numbered from the last one. *)
SerializeOptions(p) ==
  FoldLeft(LAMBDA out, n: IF n \notin DOMAIN p.options THEN out
                          ELSE [current |-> n, bytes |-> out.bytes \o SerializeOption(n, out.current, p.options[n])],
           [current |-> 0, bytes |-> <<>>], OptionOrder).bytes

coap_serialize_message(p) ==
  <<64 + 16 * p.type + Len(p.token), p.code, p.mid \div 256, p.mid % 256>>
    \o p.token \o SerializeOptions(p) \o (IF p.payload = <<>> THEN <<>> ELSE <<255>> \o p.payload)

(* The room of one option: a header for each part, and the parts.  Numbers *)
(* and blocks are counted as fitting into the header's extended fields.    *)
OptionRoom(number, value) ==
  CASE number \in ByteOptions  -> COAP_MAX_OPTION_HEADER_LEN + Len(value)
    [] number \in MultiOptions -> FoldLeft(LAMBDA n, s: n + COAP_MAX_OPTION_HEADER_LEN + Len(s), 0, value)
    [] number = ACCEPT         -> Len(value) * COAP_MAX_OPTION_HEADER_LEN
    [] OTHER                   -> COAP_MAX_OPTION_HEADER_LEN

(* A fault: the payload marker is forgotten and a header counts two bytes. *)
coap_serialize_get_size_tight(p) ==
  COAP_HEADER_LEN + Len(p.payload) + Len(p.token)
    + FoldSet(LAMBDA n, sum: sum + OptionRoom(n, p.options[n]) - 3, 0, DOMAIN p.options)

coap_serialize_get_size(p) ==
  COAP_HEADER_LEN + Len(p.payload) + Len(p.token)
    + FoldSet(LAMBDA n, sum: sum + OptionRoom(n, p.options[n]), 0, DOMAIN p.options)
    + (IF p.payload = <<>> THEN 0 ELSE 1)

------------------------------------------------------------------------------
(* Reading it. *)

coap_parse_int_option(bytes) == FoldLeft(LAMBDA v, b: 256 * v + b, 0, bytes)

ParseBlock(v) == [num |-> v \div 16, more |-> (v \div 8) % 2 = 1, size |-> 16 * 2 ^ (v % 8)]

(* A nibble and the extended bytes that follow at "at": the value and the place after them. *)
Extension(nibble, data, at) ==
  CASE nibble = 13 -> [value |-> 13 + data[at], at |-> at + 1]
    [] nibble = 14 -> [value |-> 269 + 256 * data[at] + data[at + 1], at |-> at + 2]
    [] OTHER       -> [value |-> nibble, at |-> at]

(* What the parser stores for an option it knows. *)
StoreOption(p, number, bytes) ==
  CASE number \in {IF_MATCH, ETAG}   -> SetOption(p, number, SubSeq(bytes, 1, Min({COAP_ETAG_LEN, Len(bytes)})))
    [] number = URI_HOST             -> SetOption(p, number, bytes)
    [] number = IF_NONE_MATCH        -> SetOption(p, number, 0)
    [] number \in NumberOptions \ {IF_NONE_MATCH} -> SetOption(p, number, coap_parse_int_option(bytes))
    [] number \in MultiOptions       -> SetOption(p, number, coap_add_multi_option(Field(p, number, <<>>), bytes))
    [] number = ACCEPT               -> coap_set_header_accept(p, coap_parse_int_option(bytes))
    [] number \in BlockOptions       -> SetOption(p, number, ParseBlock(coap_parse_int_option(bytes)))

KnownOptions == ByteOptions \cup NumberOptions \cup MultiOptions \cup {ACCEPT} \cup BlockOptions

RECURSIVE ParseOptions(_, _, _, _)
ParseOptions(p, data, at, last) ==
  IF at > Len(data) THEN p
  ELSE IF data[at] \div 16 = 15 THEN coap_set_payload(p, SubSeq(data, at + 1, Len(data)))
  ELSE LET delta  == Extension(data[at] \div 16, data, at + 1)
           length == Extension(data[at] % 16, data, delta.at)
           number == last + delta.value
           next   == length.at + length.value
       IN  IF next > Len(data) + 1 THEN BAD_REQUEST_4_00
           ELSE IF number \in KnownOptions
             THEN ParseOptions(StoreOption(p, number, SubSeq(data, length.at, next - 1)), data, next, number)
           ELSE IF number % 2 = 1 THEN BAD_OPTION_4_02
           ELSE ParseOptions(p, data, next, number)

coap_parse_message(data) ==
  LET tkl == Min({COAP_TOKEN_LEN, data[1] % 16})
      p   == [coap_init_message((data[1] \div 16) % 4, data[2], 256 * data[3] + data[4])
                EXCEPT !.token = SubSeq(data, COAP_HEADER_LEN + 1, COAP_HEADER_LEN + tkl)]
  IN  IF data[1] \div 64 # 1 THEN BAD_REQUEST_4_00
      ELSE ParseOptions(p, data, COAP_HEADER_LEN + tkl + 1, 0)

(* A list of segments as one string: how the client keeps its location. *)
prv_coap_get_multi_option_as_string(list, prefix, delimiter) ==
  FoldLeftDomain(LAMBDA out, i: out \o <<IF i = 1 THEN prefix ELSE delimiter>> \o list[i], <<>>, list)

coap_get_multi_option_as_path_string(list) == prv_coap_get_multi_option_as_string(list, SlashChar, SlashChar)

==============================================================================
