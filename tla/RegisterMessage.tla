--------------------------- MODULE RegisterMessage ---------------------------
(***************************************************************************)
(* What a client says when it registers and what a server understands: the *)
(* query and the list of objects of the Register request (registration.c   *)
(* and objects.c on one side, registration.c on the other), the paths by   *)
(* which the server then addresses the client (uri.c), and URIs as text.   *)
(*                                                                         *)
(* A query is the list of its parameters and a payload the list of its     *)
(* links, each with the number of characters it takes, since both are      *)
(* written into buffers whose size is computed beforehand.  Names, paths   *)
(* and their segments are lists of characters, empty for a NULL string.    *)
(***************************************************************************)
EXTENDS DataCodec, FiniteSetsExt, Functions

LWM2M_VERSION == "1.1"
LWM2M_SECURITY_OBJECT_ID == 0
Absent == <<>>   \* a string that is NULL
Slash == 47

------------------------------------------------------------------------------
(* The client: the query. *)

(* The letters of the bindings in the order they are written. *)
BindingLetters == <<"U", "T", "S", "N">>

BindingText(binding) == SelectSeq(BindingLetters, LAMBDA b: b \in binding)

DecimalLength(n) == Len(Decimal(n))

prv_getRegistrationQueryLength(c) ==
  Len("?lwm2m=1.1&ep=") + Len(c.name)
    + (IF c.msisdn = Absent THEN 0 ELSE Len("&sms=") + Len(c.msisdn))
    + (IF BindingText(c.binding) = <<>> THEN 0 ELSE Len("&b=") + Len(BindingText(c.binding)))
    + (IF "Q" \in c.binding THEN Len("&Q") ELSE 0)
    + (IF c.lifetime = 0 THEN 0 ELSE Len("&lt=") + DecimalLength(c.lifetime))
    + 1

Param(key, value, length) == <<[key |-> key, value |-> <<value>>, length |-> length]>>

(* Each parameter with its delimiter. *)
Query(c) ==
  Param("lwm2m=", LWM2M_VERSION, Len("?lwm2m=1.1"))
    \o Param("ep=", c.name, Len("&ep=") + Len(c.name))
    \o (IF c.msisdn = Absent THEN <<>> ELSE Param("sms=", c.msisdn, Len("&sms=") + Len(c.msisdn)))
    \o (IF BindingText(c.binding) = <<>> THEN <<>>
        ELSE Param("b=", BindingText(c.binding), Len("&b=") + Len(BindingText(c.binding))))
    \o (IF "Q" \in c.binding THEN Param("Q", <<>>, Len("&Q")) ELSE <<>>)
    \o (IF c.lifetime = 0 THEN <<>> ELSE Param("lt=", c.lifetime, Len("&lt=") + DecimalLength(c.lifetime)))

Taken(parts) == FoldLeft(LAMBDA n, part: n + part.length, 0, parts)

(* The query, or nothing when it and its terminator do not fit. *)
prv_getRegistrationQuery(c, room) == IF Taken(Query(c)) < room THEN Query(c) ELSE <<>>

------------------------------------------------------------------------------
(* The client: the links of its objects. *)

(* The characters of REG_LWM2M_RESOURCE_TYPE: the attributes of the root link and its comma. *)
ResourceTypeLength == 24

Link(kind, ids, version, path, length) ==
  <<[kind |-> kind, ids |-> ids, version |-> version, path |-> path, length |-> length]>>

NoVersion == <<0, 0>>

prv_getObjectTemplate(id) == Len("<//") + DecimalLength(id)

(* The links of one object: itself when it has a version or no instance,   *)
(* then its instances.                                                     *)
ObjectLinks(o) ==
  (CASE o.version # NoVersion ->
          Link("object", <<o.id>>, o.version, Absent,
               prv_getObjectTemplate(o.id) - 1 + Len(">;ver=") + DecimalLength(o.version[1]) + 1
                 + DecimalLength(o.version[2]) + 1)
     [] o.version = NoVersion /\ o.instances = <<>> ->
          Link("object", <<o.id>>, NoVersion, Absent, prv_getObjectTemplate(o.id) - 1 + Len(">,"))
     [] OTHER -> <<>>)
  \o FlattenSeq([i \in DOMAIN o.instances |->
       Link("instance", <<o.id, o.instances[i]>>, NoVersion, Absent,
            prv_getObjectTemplate(o.id) + DecimalLength(o.instances[i]) + Len(">,"))])

RootPathLength(c) == IF c.altPath = Absent THEN Len("/") ELSE Len(c.altPath)

(* The characters each object takes, counted on their own.                 *)
ObjectLength(o) ==
  prv_getObjectTemplate(o.id)
    + (IF o.version # NoVersion
       THEN Len(">;ver=") - 1 + DecimalLength(o.version[1]) + DecimalLength(o.version[2]) + 2
              + (IF o.instances = <<>> THEN 0 ELSE prv_getObjectTemplate(o.id))
       ELSE IF o.instances = <<>> THEN Len(">,") - 1 ELSE 0)
    + FoldLeftDomain(LAMBDA n, i: n + (IF i = 1 THEN 0 ELSE prv_getObjectTemplate(o.id))
                                    + DecimalLength(o.instances[i]) + Len(">,"), 0, o.instances)

Listed(objects) == SelectSeq(objects, LAMBDA o: o.id # LWM2M_SECURITY_OBJECT_ID)

object_getRegisterPayloadBufferLength(c) ==
  Len("<") + RootPathLength(c) + ResourceTypeLength
    + FoldLeft(LAMBDA n, o: n + ObjectLength(o), 0, Listed(c.objects)) + 1

Links(c) ==
  Link("root", <<>>, NoVersion, c.altPath, Len("<") + RootPathLength(c) + ResourceTypeLength)
    \o FlattenSeq([i \in DOMAIN Listed(c.objects) |-> ObjectLinks(Listed(c.objects)[i])])

(* The links, or nothing when they do not fit; the last comma is dropped. *)
object_getRegisterPayload(c, room) == IF Taken(Links(c)) < room THEN Links(c) ELSE <<>>

PayloadLength(links) == Taken(links) - 1

------------------------------------------------------------------------------
(* The server. *)

(* A path without its leading slash. *)
NoSlash(path) == IF path # <<>> /\ Head(path) = Slash THEN Tail(path) ELSE path

utils_stringToBinding(letters) ==
  IF \E i \in DOMAIN letters : letters[i] \notin {"N", "Q", "S", "T", "U"} THEN {} ELSE Range(letters)

NoParameters == [name |-> Absent, lifetime |-> 0, msisdn |-> Absent, binding |-> {}, version |-> "missing"]

Refused == [refused |-> TRUE]

(* A parameter given twice, or a queue mode that is not as long as "b=", ends it. *)
GetParameter(got, p) ==
  LET v == p.value[1]
      Once(seen, new) == IF seen THEN Refused ELSE new
  IN  IF got = Refused THEN Refused
      ELSE CASE p.key = "ep="    -> Once(got.name # Absent, [got EXCEPT !.name = v])
             [] p.key = "sms="   -> Once(got.msisdn # Absent, [got EXCEPT !.msisdn = v])
             [] p.key = "lt="    -> Once(got.lifetime # 0, [got EXCEPT !.lifetime = v])
             [] p.key = "lwm2m=" -> Once(got.version # "missing", [got EXCEPT !.version = v])
             [] p.key = "b="     -> Once(got.binding \ {"Q"} # {}, [got EXCEPT !.binding = @ \cup utils_stringToBinding(v)])
             [] p.key = "Q"      -> Once("Q" \in got.binding \/ p.length - Len("&") # Len("b="),
                                         [got EXCEPT !.binding = @ \cup {"Q"}])

prv_getParameters(query) ==
  LET got == FoldLeft(GetParameter, NoParameters, query)
  IN  IF got # Refused /\ got.version = "1.0" /\ got.binding \cap {"T", "N"} # {} THEN Refused ELSE got

NoClientObject == [version |-> NoVersion, instances |-> {}]

(* The number at the start of a text, up to a slash: none if there is another character or *)
(* nothing before the slash; an empty text reads as 0.                                      *)
prv_parseNumber(chars) ==
  LET end    == SelectInSeq(chars, LAMBDA c: c = Slash)
      digits == IF end = 0 THEN chars ELSE SubSeq(chars, 1, end - 1)
  IN  IF (chars # <<>> /\ digits = <<>>) \/ \E i \in DOMAIN digits : ~IsDigit(digits[i]) THEN None
      ELSE <<FoldLeft(LAMBDA v, c: 10 * v + (c - Zero), 0, digits)>>

(* The id a segment gives, unless it is none or too large. *)
uri_getNumber(segment) ==
  LET n == prv_parseNumber(segment) IN IF n = None THEN None ELSE IF n[1] >= LWM2M_MAX_ID THEN None ELSE n

(* The ids a link names: none, an object's, or an object's and an instance's.  The root's *)
(* path names an object when it is a number.                                               *)
prv_getId(link) ==
  IF link.kind # "root" THEN link.ids
  ELSE IF NoSlash(link.path) = <<>> THEN None ELSE uri_getNumber(NoSlash(link.path))

prv_parseLinkAttributes(got, link) ==
  [got EXCEPT !.altPath = NoSlash(link.path), !.format = "senml", !.linkAttrFound = TRUE]

(* A fault: the version of an object is that of the last link naming it. *)
DecodeLink_version(got, link) ==
  IF got = Refused THEN Refused
  ELSE LET ids == prv_getId(link)
           id  == ids[1]
           old == IF id \in DOMAIN got.objects THEN got.objects[id] ELSE NoClientObject
           new == IF Len(ids) = 1 THEN [old EXCEPT !.version = link.version]
                  ELSE [version |-> link.version, instances |-> old.instances \cup {ids[2]}]
       IN  IF ids = None THEN IF got.linkAttrFound THEN Refused ELSE prv_parseLinkAttributes(got, link)
           ELSE [got EXCEPT !.objects = [o \in DOMAIN @ \cup {id} |-> IF o = id THEN new ELSE @[o]]]

DecodeLink(got, link) ==
  IF got = Refused THEN Refused
  ELSE LET ids == prv_getId(link)
           id  == ids[1]
           old == IF id \in DOMAIN got.objects THEN got.objects[id] ELSE NoClientObject
           new == IF Len(ids) = 1 THEN [old EXCEPT !.version = link.version]
                  ELSE [old EXCEPT !.instances = @ \cup {ids[2]}]
       IN  IF ids = None THEN IF got.linkAttrFound THEN Refused ELSE prv_parseLinkAttributes(got, link)
           ELSE [got EXCEPT !.objects = [o \in DOMAIN @ \cup {id} |-> IF o = id THEN new ELSE @[o]]]

prv_decodeRegisterPayload(links) ==
  FoldLeft(DecodeLink,
           [objects |-> [o \in {} |-> NoClientObject], altPath |-> Absent, format |-> "tlv", linkAttrFound |-> FALSE],
           links)

rd == <<114, 100>>
bs == <<98, 115>>

MAX_LOCATION_LENGTH == 10

(* A fault: the slash between the two is counted twice. *)
prv_getLocationString_twice(id) ==
  LET digits == utils_intToText(id, MAX_LOCATION_LENGTH - 6)
  IN  IF digits = <<>> THEN <<>> ELSE <<Slash>> \o rd \o <<Slash>> \o digits

(* "/rd/" and the id, in a buffer for both and a terminator. *)
prv_getLocationString(id) ==
  LET digits == utils_intToText(id, MAX_LOCATION_LENGTH - 4)
  IN  IF digits = <<>> THEN <<>> ELSE <<Slash>> \o rd \o <<Slash>> \o digits

------------------------------------------------------------------------------
(* Paths and URIs: a URI is the list of its ids. *)

(* The path of a server's request: the alternative path it keeps for the   *)
(* client without its first character, then the ids.                       *)
transaction_new(altPath, uri) ==
  (IF altPath = Absent THEN <<>> ELSE <<Tail(altPath)>>) \o [i \in DOMAIN uri |-> utils_intToText(uri[i], 5)]

Unknown == [type |-> "unknown", uri |-> <<>>]

(* Up to "most" ids, the unset ones of empty segments last. *)
IdsOf(segments, most) ==
  LET end == SelectInSeq(segments, LAMBDA s: s = <<>>)
      set == IF end = 0 THEN segments ELSE SubSeq(segments, 1, end - 1)
      ids == FlattenSeq([i \in DOMAIN set |-> uri_getNumber(set[i])])
  IN  IF Len(segments) > most \/ Len(ids) # Len(set) \/ \E i \in (Len(set) + 1)..Len(segments) : segments[i] # <<>>
      THEN Unknown ELSE [type |-> "dm", uri |-> ids]

(* A fault: the resource's instance is taken for a segment too many. *)
DecodeManagement_three(altPath, path, code) ==
  LET rest == IF altPath = Absent THEN path ELSE Tail(path)
  IN  IF altPath # Absent /\ (path = <<>> \/ ~IsPrefix(Head(path), Tail(altPath))) THEN Unknown
      ELSE IF rest = <<>> \/ rest[1] = <<>> THEN [type |-> IF code = "DELETE" THEN "delete_all" ELSE "dm", uri |-> <<>>]
      ELSE IdsOf(rest, 3)

(* A request for an object below the alternative path. *)
DecodeManagement(altPath, path, code) ==
  LET rest == IF altPath = Absent THEN path ELSE Tail(path)
  IN  IF altPath # Absent /\ (path = <<>> \/ ~IsPrefix(Head(path), Tail(altPath))) THEN Unknown
      ELSE IF rest = <<>> \/ rest[1] = <<>> THEN [type |-> IF code = "DELETE" THEN "delete_all" ELSE "dm", uri |-> <<>>]
      ELSE IdsOf(rest, 4)

uri_decode(altPath, path, code) ==
  CASE path = <<rd>>                    -> [type |-> "registration", uri |-> <<>>]
    [] Len(path) > 1 /\ path[1] = rd    -> LET id == uri_getNumber(path[2])
                                           IN  IF id = None \/ Len(path) > 2 THEN Unknown
                                               ELSE [type |-> "registration", uri |-> id]
    [] path = <<bs>>                    -> [type |-> "bootstrap", uri |-> <<>>]
    [] Len(path) > 1 /\ path[1] = bs    -> Unknown
    [] OTHER                            -> DecodeManagement(altPath, path, code)

URI_MAX_STRING_LEN == 24

(* The text of a URI, or none when the buffer is too short. *)
RECURSIVE UriText(_, _, _)
UriText(uri, text, room) ==
  IF uri = <<>> THEN <<text>>
  ELSE LET digits == utils_intToText(Head(uri), room - Len(text) - 1)
       IN  IF Len(text) >= room - 1 \/ digits = <<>> THEN None
           ELSE UriText(Tail(uri), text \o <<Slash>> \o digits, room)

uri_toString(uri, room) == IF uri = <<>> THEN <<<<Slash>>>> ELSE UriText(uri, <<>>, room)

(* The ids of a text: each read up to a slash, which is skipped, and no more than four. *)
RECURSIVE ReadIds(_, _)
ReadIds(chars, ids) ==
  IF chars = <<>> THEN <<ids>>
  ELSE LET n    == prv_parseNumber(chars)
           end  == SelectInSeq(chars, LAMBDA c: c = Slash)
           rest == IF end = 0 THEN <<>> ELSE SubSeq(chars, end + 1, Len(chars))
       IN  IF Len(ids) = 4 \/ n = None THEN None
           ELSE IF n[1] >= LWM2M_MAX_ID THEN None
           ELSE ReadIds(rest, Append(ids, n[1]))

lwm2m_stringToUri(text) == IF text = <<>> \/ Head(text) # Slash THEN None ELSE ReadIds(Tail(text), <<>>)
==============================================================================
