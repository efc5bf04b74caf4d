-------------------------------- MODULE Codec --------------------------------
(***************************************************************************)
(* The two ends of a connection that speak the formats of CoapMessage,     *)
(* DataCodec and RegisterMessage: one of five exchanges is begun, and each *)
(* step applies what one end does to what the other left on the wire.      *)
(*                                                                         *)
(*   message    a packet is built by setters in any order, sent and parsed *)
(*   data       resources are serialised in a format and read back         *)
(*   register   a client's Register request is read by the server, which   *)
(*              then addresses one of the client's objects                 *)
(*   location   the server gives the client a location, and the client     *)
(*              comes back to it with an Update                            *)
(*   uri        a URI is written as text and read                          *)
(***************************************************************************)
EXTENDS CoapMessage, RegisterMessage, FiniteSets

CONSTANTS Headers,     \* the type, code and message id of a packet
          MaxCalls,    \* how many setters are called on a packet
          Numbers,     \* the numbers the setters are called with
          Lengths,     \* the lengths of the byte strings they are called with
          Strings,     \* the paths and queries, as characters
          Blocks,      \* the blocks: number, more, size
          DataSets,    \* the lists of data that are serialised
          Clients,     \* the clients that register
          Uris,        \* the URIs the server addresses
          Locations    \* the ids of registrations

VARIABLES kind,   \* the exchange, or "none"
          step,   \* how far it is
          sent,   \* what the sender meant
          wire,   \* what it wrote
          got,    \* what the receiver made of it
          calls   \* the setters called so far

vars == <<kind, step, sent, wire, got, calls>>

Init == kind = "none" /\ step = "building" /\ sent = <<>> /\ wire = <<>> /\ got = <<>> /\ calls = 0

Begin(k, what, written) ==
  kind = "none" /\ kind' = k /\ step' = "sent" /\ sent' = what /\ wire' = written /\ UNCHANGED <<got, calls>>

At(k, s) == kind = k /\ step = s

Receive(k, read) == At(k, "sent") /\ step' = "received" /\ got' = read /\ UNCHANGED <<kind, sent, wire, calls>>

------------------------------------------------------------------------------
(* A message. *)

Filled(n) == [i \in 1..n |-> i % 256]

NewMessage ==
  /\ kind = "none" /\ kind' = "message"
  /\ \E h \in Headers : sent' = coap_init_message(h[1], h[2], h[3])
  /\ UNCHANGED <<step, wire, got, calls>>

(* The packets one call makes of a packet. *)
OneCall(p) ==
  {coap_set_header_content_type(p, v) : v \in Numbers} \cup {coap_set_header_accept(p, v) : v \in Numbers}
    \cup {coap_set_header_max_age(p, v) : v \in Numbers} \cup {coap_set_header_observe(p, v) : v \in Numbers}
    \cup {coap_set_header_uri_port(p, v) : v \in Numbers} \cup {coap_set_header_if_none_match(p)}
    \cup {coap_set_header_etag(p, Filled(n)) : n \in Lengths} \cup {coap_set_header_if_match(p, Filled(n)) : n \in Lengths}
    \cup {coap_set_header_token(p, Filled(n)) : n \in Lengths} \cup {coap_set_header_uri_host(p, Filled(n)) : n \in Lengths}
    \cup {coap_set_header_uri_path(p, s) : s \in Strings} \cup {coap_set_header_uri_query(p, s) : s \in Strings}
    \cup {coap_set_header_location_path(p, s) : s \in Strings}
    \cup {coap_set_header_uri_path_segment(p, Filled(n)) : n \in Lengths \cap 0..255}
    \cup {coap_set_header_block1(p, b[1], b[2], b[3]) : b \in Blocks}
    \cup {coap_set_header_block2(p, b[1], b[2], b[3]) : b \in Blocks}
    \cup {coap_set_payload(p, Filled(n)) : n \in Lengths}

Build ==
  /\ At("message", "building") /\ calls < MaxCalls
  /\ sent' \in OneCall(sent)
  /\ calls' = calls + 1
  /\ UNCHANGED <<kind, step, wire, got>>

SendMessage ==
  /\ At("message", "building")
  /\ wire' = coap_serialize_message(sent)
  /\ step' = "sent"
  /\ UNCHANGED <<kind, sent, got, calls>>

ReceiveMessage == Receive("message", coap_parse_message(wire))

------------------------------------------------------------------------------
(* Data, a registration, a location and a URI. *)

SendData ==
  \E d \in DataSets, format \in {"tlv", "text", "opaque"} :
    LET written == lwm2m_data_serialize(d.uri, d.data, format)
    IN  Begin("data", d, written) /\ written # Failed

ReceiveData == Receive("data", lwm2m_data_parse(sent.uri, wire.bytes, wire.format))

SendRegister ==
  \E c \in Clients :
    Begin("register", c, [query |-> prv_getRegistrationQuery(c, prv_getRegistrationQueryLength(c)),
                          links |-> object_getRegisterPayload(c, object_getRegisterPayloadBufferLength(c))])

ReceiveRegister ==
  Receive("register", [parameters |-> prv_getParameters(wire.query), payload |-> prv_decodeRegisterPayload(wire.links)])

(* The server addresses an object of the client by the path it keeps. *)
SendRequest ==
  /\ At("register", "received") /\ got.parameters # Refused /\ got.payload # Refused
  /\ \E uri \in Uris : /\ sent' = [client |-> sent, uri |-> uri]
                       /\ wire' = transaction_new(got.payload.altPath, uri)
  /\ step' = "asked"
  /\ UNCHANGED <<kind, got, calls>>

ReceiveRequest ==
  /\ At("register", "asked")
  /\ got' = uri_decode(sent.client.altPath, wire, "GET")
  /\ step' = "answered"
  /\ UNCHANGED <<kind, sent, wire, calls>>

(* The answer to a Register, as the server sends it. *)
SendLocation ==
  \E id \in Locations :
    Begin("location", id,
          coap_serialize_message(coap_set_header_location_path(coap_init_message(2, 65, 1), prv_getLocationString(id))))

ReceiveLocation ==
  Receive("location", coap_get_multi_option_as_path_string(coap_parse_message(wire).options[LOCATION_PATH]))

(* The Update that follows goes to the location the client keeps. *)
SendUpdate ==
  /\ At("location", "received")
  /\ wire' = coap_serialize_message(coap_set_header_uri_path(coap_init_message(0, 2, 2), got))
  /\ step' = "asked"
  /\ UNCHANGED <<kind, sent, got, calls>>

ReceiveUpdate ==
  /\ At("location", "asked")
  /\ got' = uri_decode(Absent, coap_parse_message(wire).options[URI_PATH], "POST")
  /\ step' = "answered"
  /\ UNCHANGED <<kind, sent, wire, calls>>

SendUri == \E uri \in Uris : Begin("uri", uri, uri_toString(uri, URI_MAX_STRING_LEN))

ReceiveUri == Receive("uri", IF wire = None THEN None ELSE lwm2m_stringToUri(wire[1]))

Next ==
  \/ NewMessage \/ Build \/ SendMessage \/ ReceiveMessage
  \/ SendData \/ ReceiveData
  \/ SendRegister \/ ReceiveRegister \/ SendRequest \/ ReceiveRequest
  \/ SendLocation \/ ReceiveLocation \/ SendUpdate \/ ReceiveUpdate
  \/ SendUri \/ ReceiveUri

Spec == Init /\ [][Next]_vars

------------------------------------------------------------------------------
(* Properties. *)

(* What is on the wire between two CoAP ends is a sequence of bytes, and as many calls were made as allowed. *)
TypeOK ==
  /\ kind \in {"none", "message", "data", "register", "location", "uri"}
  /\ step \in {"building", "sent", "received", "asked", "answered"}
  /\ calls \in 0..MaxCalls
  /\ kind = "message" \/ (kind = "location" /\ step # "building") => \A i \in DOMAIN wire : wire[i] \in 0..255

(* A packet is read as it was built, whatever setters were called and in whatever order: the   *)
(* deltas, the extended lengths and the payload marker of coap_serialize_message are those     *)
(* coap_parse_message expects.                                                                 *)
MessageRoundTrip == At("message", "received") => got = sent

(* A container with nothing in it, on whose account tlv_parse gives up the whole buffer. *)
RECURSIVE HasEmpty(_)
HasEmpty(data) == \E i \in DOMAIN data : data[i].type \in Containers /\ (data[i].value = <<>> \/ HasEmpty(data[i].value))

RECURSIVE Same(_, _)
Same(data, read) ==
  /\ Len(data) = Len(read)
  /\ \A i \in DOMAIN data :
       /\ data[i].id = read[i].id
       /\ IF data[i].type \in Containers THEN read[i].type = data[i].type /\ Same(data[i].value, read[i].value)
          ELSE ReadAs(data[i].type, read[i]) = <<data[i].value>>

(* Resources are read with the ids, the nesting and the values they were written with, by the  *)
(* types the objects read them as, whatever the lengths and the widths in between; and the     *)
(* text of opaque data, which the parser does not read, is base64 that decodes to it.  The     *)
(* text of an object link is not what the parser reads.                                        *)
DataRoundTrip ==
  /\ At("data", "received") /\ ~HasEmpty(sent.data)
       /\ (wire.format = "text" => sent.data[1].type \notin {"link", "opaque"})
     => Same(sent.data, got)
  /\ kind = "data" /\ wire.format = "text" /\ sent.data[1].type = "opaque" =>
       utils_base64Decode(wire.bytes) = <<sent.data[1].value>>

(* What the server knows of a client that registered is what the client is. *)
ObjectsOf(c) ==
  LET listed == Listed(c.objects)
  IN  [id \in {listed[i].id : i \in DOMAIN listed} |->
         LET o == listed[CHOOSE i \in DOMAIN listed : listed[i].id = id]
         IN  [version |-> o.version, instances |-> ToSet(o.instances)]]

(* A registration is understood: the server of registration.c reads the name, the lifetime,    *)
(* the bindings, the objects, their versions and instances the client of registration.c and    *)
(* objects.c wrote.                                                                            *)
RegisterUnderstood ==
  At("register", "received") =>
    /\ got.parameters = [name |-> sent.name, lifetime |-> sent.lifetime, msisdn |-> sent.msisdn,
                         binding |-> sent.binding, version |-> LWM2M_VERSION]
    /\ got.payload # Refused
    /\ got.payload.objects = ObjectsOf(sent)

(* What is written fits the buffer whose size another function computed before: a message      *)
(* that of coap_serialize_get_size, TLV exactly that of prv_getLength, the text of opaque data *)
(* that of utils_base64GetSize, and the query and the object list of a Register the sizes      *)
(* their own length functions count, which are one and two more as their comments say.         *)
SizesSuffice ==
  /\ At("message", "sent") => Len(wire) <= coap_serialize_get_size(sent)
  /\ kind = "data" /\ wire.format = "tlv" => Len(wire.bytes) = prv_getLength(sent.data)
  /\ kind = "data" /\ wire.format = "text" /\ sent.data[1].type = "opaque" =>
       Len(wire.bytes) = utils_base64GetSize(Len(sent.data[1].value))
  /\ At("register", "sent") =>
       /\ Taken(wire.query) + 1 = prv_getRegistrationQueryLength(sent)
       /\ PayloadLength(wire.links) + 2 = object_getRegisterPayloadBufferLength(sent)

(* A request the server sends to an object of a registered client reaches that object. *)
RequestUnderstood == At("register", "answered") => got = [type |-> "dm", uri |-> sent.uri]

(* A path is read as what was written: the location a server gives is the registration the    *)
(* client's next Update names, and a URI fits the buffer that holds the longest one and is     *)
(* read from its text.                                                                         *)
PathsReturn ==
  /\ At("location", "answered") => got = [type |-> "registration", uri |-> <<sent>>]
  /\ At("uri", "received") => got = <<sent>>
==============================================================================
