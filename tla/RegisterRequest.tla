-------------------------- MODULE RegisterRequest --------------------------
\* What a registration says and how it is read: the query and the list of links
\* that src/core/registration.c and src/core/objects.c write, and the server's
\* readers of both in src/core/registration.c (LwM2M 1.1, SenML CBOR supported).
\*
\* A client is a record: name, msisdn ("" for none), binding (a subset of U, T, S,
\* N), queue, lifetime, altPath ("" for none) and objects, each with id, major,
\* minor and the IDs of its instances in the order of the list.
EXTENDS Texts

LWM2M_SECURITY_OBJECT_ID == 0
LWM2M_OSCORE_OBJECT_ID == 21
LWM2M_VERSION == "1.1"

REG_LWM2M_RESOURCE_TYPE == ">;rt=\"oma.lwm2m\";ct=112,"
REG_ATTR_TYPE_VALUE == "\"oma.lwm2m\""
Quote == "\""

-----------------------------------------------------------------------------
\* The query

Letters(binding, order) ==
    LET upTo[i \in 0..Len(order)] ==
            IF i = 0 THEN ""
            ELSE upTo[i - 1] \o (IF order[i] \in binding THEN order[i] ELSE "")
    IN  upTo[Len(order)]

prv_getRegistrationQueryLength(c) ==
    Len("?lwm2m=") + Len(LWM2M_VERSION) + Len("&ep=") + Len(c.name)
    + (IF c.msisdn = "" THEN 0 ELSE Len("&sms=") + Len(c.msisdn))
    + (IF c.binding = {} THEN 0 ELSE 1 + 2 + Cardinality(c.binding))
    + (IF c.queue THEN 1 + 1 ELSE 0)
    + (IF c.lifetime = 0 THEN 0 ELSE Len("&lt=") + Len(utils_intToText(c.lifetime, 21)))
    + 1

\* The result, with the null that ends it not counted; "" when there is no room.
prv_getRegistrationQuery(c, room) ==
    LET text ==
            "?lwm2m=" \o LWM2M_VERSION \o "&ep=" \o c.name
            \o (IF c.msisdn = "" THEN "" ELSE "&sms=" \o c.msisdn)
            \o (IF c.binding = {} THEN ""
                ELSE "&b=" \o Letters(c.binding, <<"U", "T", "S", "N">>))
            \o (IF c.queue THEN "&Q" ELSE "")
            \o (IF c.lifetime = 0 THEN "" ELSE "&lt=" \o ToString(c.lifetime))
    IN  IF Len(text) < room THEN text ELSE ""

utils_stringToVersion(t) ==
    CASE t = "" -> "missing" [] t = "1.0" -> "1.0" [] t = "1.1" -> "1.1"
      [] OTHER -> "unrecognized"

\* The bit of "unknown" stays set beside the ones that are read.
utils_stringToBinding(t) ==
    LET letters == {Char(t, i) : i \in 1..Len(t)}
    IN  IF letters \subseteq {"N", "Q", "S", "T", "U"} THEN {"unknown"} \cup letters
        ELSE {"unknown"}

NoParameters ==
    [name |-> "", lifetime |-> 0, msisdn |-> "", binding |-> {}, version |-> "missing"]

\* One segment of the query; <<>> where prv_getParameters goes to error.
Parameter(p, segment) ==
    LET After(n) == From(segment, n + 1)
        Once(fresh, n, q) == IF fresh /\ Len(segment) # n THEN <<q>> ELSE <<>>
    IN  CASE StartsWith(segment, "ep=") ->
               Once(p.name = "", 3, [p EXCEPT !.name = After(3)])
          [] StartsWith(segment, "sms=") ->
               Once(p.msisdn = "", 4, [p EXCEPT !.msisdn = After(4)])
          [] StartsWith(segment, "lt=") ->
               IF ~IsDigits(After(3)) THEN <<>>
               ELSE Once(p.lifetime = 0, 3, [p EXCEPT !.lifetime = Decimal(After(3))])
          [] StartsWith(segment, "lwm2m=") ->
               Once(p.version = "missing", 6,
                    [p EXCEPT !.version = utils_stringToVersion(After(6))])
          [] StartsWith(segment, "b=") ->
               Once(p.binding \subseteq {"Q"}, 2,
                    [p EXCEPT !.binding = @ \cup utils_stringToBinding(After(2))])
          [] StartsWith(segment, "Q") ->
               IF "Q" \in p.binding \/ Len(segment) # 1 THEN <<>>
               ELSE <<[p EXCEPT !.binding = @ \cup {"Q"}]>>
          [] OTHER -> <<p>>

RECURSIVE Parameters(_, _)
Parameters(query, p) ==
    IF query = <<>> THEN <<p>>
    ELSE IF Parameter(p, query[1]) = <<>> THEN <<>>
    ELSE Parameters(Tail(query), Parameter(p, query[1])[1])

prv_getParameters(query) ==
    LET read == Parameters(query, NoParameters)
    IN  IF read = <<>> THEN <<>>
        ELSE IF read[1].version = "1.0" /\ read[1].binding \cap {"T", "N"} # {} THEN <<>>
        ELSE <<[read[1] EXCEPT !.binding = IF @ = {} THEN {"unknown"} ELSE @]>>

-----------------------------------------------------------------------------
\* The links, client side

Template(id) == "</" \o ToString(id) \o "/"

\* The length of the link of one object and of its instances.
ObjectLength(o) ==
    LET template == Len(Template(o.id))
        versioned == o.major # 0 \/ o.minor # 0
        number(n) == Len(utils_uintToText(n, 10))
        instances == FoldFunction(LAMBDA i, sum : sum + number(i) + Len(">,"), 0, o.instances)
        count == Len(o.instances)
    IN  IF versioned
        THEN template - 1 + Len(">;ver=") + number(o.major) + 1 + number(o.minor) + 1
             + count * template + instances
        ELSE IF count = 0 THEN template - 1 + Len(">,")
        ELSE count * template + instances

object_getRegisterPayloadBufferLength(c) ==
    Len("<") + (IF c.altPath = "" THEN Len("/") ELSE Len(c.altPath))
    + Len(REG_LWM2M_RESOURCE_TYPE)
    + FoldFunction(LAMBDA o, sum :
                     IF o.id \in {LWM2M_SECURITY_OBJECT_ID, LWM2M_OSCORE_OBJECT_ID}
                     THEN sum ELSE sum + ObjectLength(o), 0, c.objects)
    + 1

\* What one object adds, piece by piece: its own link when it has a version or no
\* instance, then one link per instance. A "copy" is cut to the room, a "must" that
\* does not fit ends the function, a "may" is left out; spare is the room the code
\* wants behind the piece.
Piece(how, text, spare) == [how |-> how, text |-> text, spare |-> spare]

Pieces(o) ==
    LET link == Piece("must", "</" \o ToString(o.id), 2)
        own == IF o.major # 0 \/ o.minor # 0
               THEN <<link, Piece("copy", ">;ver=", 0), Piece("may", ToString(o.major), 0),
                      Piece("must", ".", 0), Piece("may", ToString(o.minor), 0),
                      Piece("must", ",", 0)>>
               ELSE IF o.instances = <<>> THEN <<link, Piece("copy", ">,", 0)>> ELSE <<>>
        instance(i) == <<Piece("must", Template(o.id), 1), Piece("must", ToString(i), 0),
                         Piece("copy", ">,", 0)>>
    IN  own \o FlattenSeq([k \in DOMAIN o.instances |-> instance(o.instances[k])])

\* The text with one more piece; "" is the text of a function that has returned 0.
Put(text, piece, room) ==
    LET fits == Len(text) + Len(piece.text) + piece.spare <= room
    IN  CASE text = "" -> ""
          [] piece.how = "copy" -> text \o utils_stringCopy(piece.text, room - Len(text))
          [] piece.how # "copy" /\ fits -> text \o piece.text
          [] piece.how = "may" /\ ~fits -> text
          [] OTHER -> ""

\* The payload without its last character, the trailing ",".
object_getRegisterPayload(c, room) ==
    LET path == IF c.altPath = "" THEN "/" ELSE c.altPath
        listed == SelectSeq(c.objects, LAMBDA o : o.id # LWM2M_SECURITY_OBJECT_ID)
        pieces == <<Piece("copy", path, 0), Piece("copy", REG_LWM2M_RESOURCE_TYPE, 0)>>
                  \o FlattenSeq([k \in DOMAIN listed |-> Pieces(listed[k])])
        all == FoldLeft(LAMBDA text, piece : Put(text, piece, room),
                        utils_stringCopy("<", room), pieces)
    IN  SubSeq(all, 1, Len(all) - 1)

-----------------------------------------------------------------------------
\* The links, server side

RECURSIVE SkipSpaces(_), TrimSpaces(_)
SkipSpaces(t) == IF t # "" /\ Char(t, 1) = " " THEN SkipSpaces(From(t, 2)) ELSE t
TrimSpaces(t) ==
    IF t # "" /\ Char(t, Len(t)) = " " THEN TrimSpaces(SubSeq(t, 1, Len(t) - 1)) ELSE t

\* The text of a ver attribute: <<<<major, minor>>>> or <<>>. Quotes are dropped.
Version(v) ==
    LET left == IF Char(v, 1) = Quote THEN From(v, 2) ELSE v
        text == IF Char(left, Len(left)) = Quote THEN SubSeq(left, 1, Len(left) - 1) ELSE left
        dot == Find(text, 2, {"."})
        major == utils_textToUInt(SubSeq(text, 1, dot - 1))
        minor == utils_textToUInt(From(text, dot + 1))
    IN  IF Len(v) < 2 \/ dot > Len(text) - 1 \/ major = <<>> \/ minor = <<>> THEN <<>>
        ELSE IF major[1] > 255 \/ minor[1] > 255 THEN <<>>
        ELSE <<<<major[1], minor[1]>>>>

RECURSIVE Versions(_, _)
\* The attributes of an object's link: a second version and a bad one are refused,
\* what is not a version is ignored.
Versions(attributes, version) ==
    LET a == SkipSpaces(attributes[1])
    IN  IF attributes = <<>> THEN <<version>>
        ELSE IF ~(StartsWith(a, "ver=") /\ Len(a) > 4) THEN Versions(Tail(attributes), version)
        ELSE IF version # <<0, 0>> \/ Version(From(a, 5)) = <<>> THEN <<>>
        ELSE Versions(Tail(attributes), Version(From(a, 5))[1])

\* The IDs and the version of "</object/instance>;attributes", or <<>>.
prv_getId(link) ==
    LET text == From(TrimSpaces(link), 3)
        limit == Find(text, 1, {"/", ">"})
        object == uri_getNumber(SubSeq(text, 1, limit - 1))
        close == Find(text, limit, {">"})
        inner == SubSeq(text, limit + 1, close - 1)
        behind == From(text, close + 1)
        version == IF Len(behind) > 1 /\ Char(behind, 1) = ";"
                   THEN Versions(Split(From(behind, 2), ";"), <<0, 0>>) ELSE <<<<0, 0>>>>
    IN  IF ~StartsWith(link, "</") \/ limit \in {1, Len(text) + 1} THEN <<>>
        ELSE IF ~IsId(object) \/ close > Len(text) THEN <<>>
        ELSE IF inner # "" /\ ~IsId(uri_getNumber(inner)) THEN <<>>
        ELSE IF version = <<>> THEN <<>>
        ELSE <<[object |-> object, version |-> version[1],
                instance |-> IF inner = "" THEN None ELSE uri_getNumber(inner)]>>

RECURSIVE LinkAttributes(_)
\* The keys and values of ";key=value" (prv_splitLinkAttribute), or <<>> when one is
\* refused: no key, no "=", or a value of a single character.
LinkAttributes(t) ==
    LET body == IF StartsWith(SkipSpaces(t), ";") THEN From(SkipSpaces(t), 2) ELSE SkipSpaces(t)
        equals == Find(body, 1, {"="})
        rest == SkipSpaces(From(body, equals + 1))
        end == Find(rest, 1, {";"})
        value == TrimSpaces(SubSeq(rest, 1, end - 1))
        others == LinkAttributes(From(rest, end))
    IN  IF t = "" THEN <<<<>>>>
        ELSE IF equals \in {1, Len(body) + 1} \/ rest = "" \/ Len(value) = 1 THEN <<>>
        ELSE IF others = <<>> THEN <<>>
        ELSE <<<<[key |-> SubSeq(body, 1, equals - 1), value |-> value]>> \o others[1]>>

ContentFormats == [t \in {"11543", "110", "112"} |->
              CASE t = "11543" -> "json" [] t = "110" -> "senml json" [] OTHER -> "senml cbor"]

\* The alternate path and the format of the link of the root, or <<>>.
prv_parseLinkAttributes(link) ==
    LET text == From(TrimSpaces(link), 2)
        close == Max({k \in 1..Len(text) : Char(text, k) = ">"} \cup {0})
        path == SubSeq(text, 1, close - 1)
        attributes == LinkAttributes(From(text, close + 2))
        Of(key) == SelectSeq(attributes[1], LAMBDA a : a.key = key)
    IN  IF ~StartsWith(link, "<") \/ close < 2 \/ Char(text, close + 1) # ";" THEN <<>>
        ELSE IF attributes = <<>> THEN <<>>
        ELSE IF Of("rt") \notin {<<>>, <<[key |-> "rt", value |-> REG_ATTR_TYPE_VALUE]>>} THEN <<>>
        ELSE IF Len(Of("ct")) > 1 \/ \E i \in 1..Len(Of("ct")) : Of("ct")[i].value \notin DOMAIN ContentFormats
        THEN <<>>
        ELSE <<[altPath |-> IF StartsWith(path, "/") THEN From(path, 2) ELSE path,
                format |-> IF Of("ct") = <<>> THEN "tlv" ELSE ContentFormats[Of("ct")[1].value]]>>

\* One link: an object gets its version, or one more instance. The memset behind the
\* assignment leaves every instance with the ID 0.
AddLink(list, l) ==
    LET old == IF l.object \in DOMAIN list THEN list[l.object]
               ELSE [version |-> <<0, 0>>, instances |-> <<>>]
        known == \E i \in 1..Len(old.instances) : old.instances[i] = l.instance
        new == IF l.instance = None THEN [old EXCEPT !.version = l.version]
               ELSE IF known THEN old
               ELSE [old EXCEPT !.instances = Append(@, 0)]
    IN  (l.object :> new) @@ list

RECURSIVE ReadLinks(_, _, _)
ReadLinks(links, list, root) ==
    LET link == SkipSpaces(links[1])
        id == prv_getId(link)
        attributes == prv_parseLinkAttributes(link)
    IN  IF links = <<>> \/ (Len(links) = 1 /\ link = "") THEN <<[objects |-> list, root |-> root]>>
        ELSE IF id # <<>> THEN ReadLinks(Tail(links), AddLink(list, id[1]), root)
        ELSE IF root # <<>> \/ attributes = <<>> THEN <<>>
        ELSE ReadLinks(Tail(links), list, attributes)

prv_decodeRegisterPayload(payload) == ReadLinks(Split(payload, ","), <<>>, <<>>)
=============================================================================
