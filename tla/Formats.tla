------------------------------ MODULE Formats ------------------------------
\* One side writes, the other reads: payloads, texts, paths, registrations and CoAP
\* messages through the writers and readers of Texts, Payloads, RegisterRequest and
\* CoapMessage. What is written may be cut before it is read (a transfer or a datagram
\* that ends early), and a request of a block-wise upload is read back from its own
\* buffer to make the request of the next block.
EXTENDS RegisterRequest, Payloads, CoapMessage

CONSTANTS
    Tlvs,       \* sequence of [uri, items]
    CborItems,  \* sequence of items
    TextItems,  \* sequence of items
    Paths,      \* sequence of [altPath, ids]
    Clients,    \* sequence of clients that register
    Messages,   \* sequence of CoAP messages
    Upload,     \* the bytes of which a message with Block1 carries a block
    MaxCut      \* cuts are made in the first MaxCut bytes, and before the last one

VARIABLES
    kind,       \* what is written
    given,      \* the value that is written
    wire,       \* what the reader gets
    got,        \* what the reader makes of it
    phase       \* "given", "written", "cut", "read" or "read cut"

vars == <<kind, given, wire, got, phase>>

Nothing == <<>>

URI_MAX_STRING_LEN == 24
LWM2M_STRING_ID_MAX_LEN == 6

\* The path of a request (transaction_new): one segment for the alternate path, then the IDs.
RequestPath(altPath, ids) ==
    (IF altPath = "" THEN <<>> ELSE <<From(altPath, 2)>>)
    \o [i \in DOMAIN ids |-> utils_intToText(ids[i], LWM2M_STRING_ID_MAX_LEN)]

\* The query and the payload of a registration, in buffers of the lengths computed for them.
RegistrationOf(c) ==
    [query |-> prv_getRegistrationQuery(c, prv_getRegistrationQueryLength(c)),
     payload |-> object_getRegisterPayload(c, object_getRegisterPayloadBufferLength(c))]

Written(k, x) ==
    CASE k = "tlv" -> lwm2m_data_serialize(x.uri, x.items)
      [] k = "cbor" -> cbor_put_singular(x)
      [] k = "text" -> prv_textSerialize(x)
      [] k = "path" -> [text |-> lwm2m_uriToString(x.ids, URI_MAX_STRING_LEN),
                        segments |-> RequestPath(x.altPath, x.ids)]
      [] k = "register" -> RegistrationOf(x)
      [] k = "message" -> coap_serialize_message(x)

\* What an object's code gets out of a text it expects a value of the given type in.
TextValue(type, t) ==
    CASE type = "string" -> <<t>>
      [] type = "integer" -> lwm2m_data_decode_int(Item("text", 0, t))
      [] type = "unsigned" -> lwm2m_data_decode_uint(Item("text", 0, t))
      [] type = "boolean" -> lwm2m_data_decode_bool(Item("text", 0, t))
      [] type = "link" -> utils_textToObjLink(t)

ReadFrom(k, w, x) ==
    CASE k = "tlv" -> tlv_parse(w)
      [] k = "cbor" -> cbor_get_singular(w)
      [] k = "text" -> IF x.type = "opaque" THEN utils_base64Decode(w, Len(x.value))
                       ELSE TextValue(x.type, w)
      [] k = "path" -> [text |-> lwm2m_stringToUri(w.text),
                        segments |-> uri_decode(x.altPath, w.segments, "get")]
      [] k = "register" -> [parameters |-> prv_getParameters(Split(From(w.query, 2), "&")),
                            links |-> prv_decodeRegisterPayload(w.payload)]
      [] k \in {"message", "next block"} -> coap_parse_message(w)

Accepted(message) == "refused" \notin DOMAIN message

-----------------------------------------------------------------------------
Input(k, inputs) == kind = k /\ \E i \in DOMAIN inputs : given = inputs[i]

Init ==
    /\ phase = "given" /\ wire = Nothing /\ got = Nothing
    /\ \/ Input("tlv", Tlvs)
       \/ Input("cbor", CborItems)
       \/ Input("text", TextItems)
       \/ Input("path", Paths)
       \/ Input("register", Clients)
       \/ Input("message", Messages)

Write ==
    /\ phase = "given"
    /\ wire' = Written(kind, given)
    /\ phase' = "written"
    /\ UNCHANGED <<kind, given, got>>

CutTo(bytes) == {n \in 1..Len(bytes) - 1 : n <= MaxCut \/ n = Len(bytes) - 1}

Cut ==
    /\ phase = "written"
    /\ \/ /\ kind \in {"tlv", "cbor", "message", "next block"}
          /\ \E n \in CutTo(wire) : wire' = SubSeq(wire, 1, n)
       \/ /\ kind = "register"
          /\ \E n \in CutTo(wire.payload) : wire' = [wire EXCEPT !.payload = SubSeq(@, 1, n)]
    /\ phase' = "cut"
    /\ UNCHANGED <<kind, given, got>>

Read ==
    /\ phase \in {"written", "cut"}
    /\ got' = ReadFrom(kind, wire, given)
    /\ phase' = IF phase = "cut" THEN "read cut" ELSE "read"
    /\ UNCHANGED <<kind, given, wire>>

Block(number, size) ==
    SubSeq(Upload, number * size + 1, Min({Len(Upload), (number + 1) * size}))

\* prv_send_new_block1: the next request of an upload that is not complete.
SendNextBlock ==
    /\ phase = "read" /\ kind \in {"message", "next block"} /\ Accepted(got)
    /\ BLOCK1 \in DOMAIN got.options
    /\ LET number == got.options[BLOCK1].num + 1
           size == got.options[BLOCK1].size
           more == Len(Upload) - number * size > size
       IN  /\ number * size < Len(Upload)
           /\ \E new \in NextBlockMessages(got, (got.mid + 1) % 65536) :
                wire' = coap_serialize_message(
                          coap_set_payload(coap_set_header_block(new, BLOCK1, number, more, size),
                                           Block(number, size)))
    /\ kind' = "next block" /\ phase' = "written"
    /\ UNCHANGED <<given, got>>

Next == Write \/ Cut \/ Read \/ SendNextBlock

Spec == Init /\ [][Next]_vars

-----------------------------------------------------------------------------
\* Properties

\* A writer fills the buffer that was allocated from a length computed beforehand, and
\* never more: TLV, base64 and the registration's query exactly, the list of links up
\* to the null and the last comma (the comment in object_getRegisterPayloadBufferLength),
\* and a CoAP message no more than coap_serialize_get_size says.
WrittenFits ==
    phase = "written" =>
        CASE kind = "tlv" -> Len(wire) = Max({0, prv_getLength(given.items)})
          [] kind = "text" -> given.type = "opaque" =>
                                  Len(wire) = utils_base64GetSize(Len(given.value))
          [] kind = "register" ->
               /\ Len(wire.query) + 1 = prv_getRegistrationQueryLength(given)
               /\ Len(wire.payload) + 2 = object_getRegisterPayloadBufferLength(given)
          [] kind = "message" -> Len(wire) <= coap_serialize_get_size(given)
          [] OTHER -> TRUE

FloatValue(x) == IF x.class = "beyond" THEN x.double ELSE x.single

RECURSIVE IsRead(_, _)
\* The item that was written can be got back from the one that was read.
IsRead(item, r) ==
    /\ r.id = item.id
    /\ CASE item.type \in Containers ->
              /\ r.type = item.type /\ Len(r.value) = Len(item.value)
              /\ \A i \in DOMAIN item.value : IsRead(item.value[i], r.value[i])
         [] item.type \in Buffers -> r.value = item.value
         [] item.type = "integer" -> lwm2m_data_decode_int(r) = <<item.value>>
         [] item.type = "unsigned" -> lwm2m_data_decode_uint(r) = <<item.value>>
         [] item.type = "boolean" -> lwm2m_data_decode_bool(r) = <<item.value>>
         [] item.type = "float" -> lwm2m_data_decode_float(r) = <<FloatValue(item.value)>>
         [] item.type = "link" -> r.value = Bytes(item.value[1], 2) \o Bytes(item.value[2], 2)

TextOf(codes) ==
    FoldLeft(LAMBDA t, c : t \o (IF c = 58 THEN ":" ELSE ToString(c - 48)), "", codes)

\* A CBOR float of class "fine" keeps its eight bytes, which TLV rounds.
IsCborRead(item, r) ==
    /\ r.size = Len(wire)
    /\ CASE item.type \in {"string", "corelink"} -> r.type = "string" /\ r.value = item.value
         [] item.type = "opaque" -> r.type = "opaque" /\ r.value = item.value
         [] item.type = "link" -> utils_textToObjLink(TextOf(r.value)) = <<item.value>>
         [] item.type = "float" ->
              r.value = IF item.value.class = "single" THEN item.value.single ELSE item.value.double
         [] OTHER -> IsRead(item, Item(r.type, item.id, r.value))

IsRegistered(c, r) ==
    LET p == r.parameters[1]
        links == r.links[1]
        listed == {i \in DOMAIN c.objects : c.objects[i].id # LWM2M_SECURITY_OBJECT_ID}
    IN  /\ r.parameters # <<>> /\ r.links # <<>>
        /\ p.name = c.name /\ p.msisdn = c.msisdn /\ p.lifetime = c.lifetime
        /\ p.version = LWM2M_VERSION
        /\ p.binding \ {"unknown"} = c.binding \cup (IF c.queue THEN {"Q"} ELSE {})
        /\ DOMAIN links.objects = {c.objects[i].id : i \in listed}
        /\ \A i \in listed : LET o == c.objects[i] IN
             /\ links.objects[o.id].version = <<o.major, o.minor>>
             /\ Len(links.objects[o.id].instances) = Len(o.instances)
        /\ links.root = <<[altPath |-> From(c.altPath, 2), format |-> "senml cbor"]>>

\* The options the library gives to the requests it makes.
RequestOptions == {OBSERVE, URI_PATH, CONTENT_TYPE, URI_QUERY, ACCEPT, BLOCK1}

\* r is the request of a later block of the upload that m began.
IsNextBlock(m, r) ==
    LET block == r.options[BLOCK1]
    IN  /\ Accepted(r) /\ r.type = m.type /\ r.code = m.code /\ r.token = m.token
        /\ r.payload = Block(block.num, block.size)
        /\ block.more <=> (block.num + 1) * block.size < Len(Upload)
        /\ DOMAIN m.options \subseteq RequestOptions =>
             /\ \A n \in DOMAIN m.options \ {BLOCK1} :
                  n \in DOMAIN r.options /\ r.options[n] = m.options[n]
             /\ CONTENT_TYPE \in DOMAIN m.options => DOMAIN r.options = DOMAIN m.options

\* What was written is read back whole: every value, path, registration and message
\* keeps all its parts. A registration loses the IDs of its instances (finding
\* update_instances), a message with a Proxy-Uri is refused, and a container without
\* content makes a TLV payload unreadable.
\* The later requests of an upload the library makes have the options of the first one
\* and no others, but for Block1; a request without a content format (an update of the
\* registration) gets one. Nothing is said of options none of these requests has: the
\* code loses Max-Age and Size, and leaves the bytes of Uri-Host undefined.
ReadBack ==
    phase = "read" =>
        CASE kind = "tlv" ->
               IF \E i \in DOMAIN given.items : given.items[i].type \in Containers /\ given.items[i].value = <<>>
               THEN got = <<>>
               ELSE /\ Len(got) = Len(given.items)
                    /\ \A i \in DOMAIN got : IsRead(given.items[i], got[i])
          [] kind = "cbor" -> IsCborRead(given, got)
          [] kind = "text" -> got = <<given.value>>
          [] kind = "path" ->
               got = [text |-> <<given.ids>>, segments |-> [type |-> "dm", ids |-> given.ids]]
          [] kind = "register" -> IsRegistered(given, got)
          [] kind = "message" -> IF PROXY_URI \in DOMAIN given.options THEN got = Refused(505)
                                 ELSE got = given
          [] kind = "next block" -> IsNextBlock(given, got)

\* A reader that gets only the beginning makes nothing up: CBOR is refused; TLV items and
\* CoAP messages are refused or are exactly what the bytes that came say; of a cut list
\* of links no object is read that was not listed, and no instance too many.
CutIsPrefix ==
    phase = "read cut" =>
        CASE kind = "tlv" -> IsPrefix(tlv_serialize(AreInstances(given.uri, given.items), got), wire)
          [] kind = "cbor" -> got.size = -1
          [] kind \in {"message", "next block"} ->
               Accepted(got) => coap_serialize_message(got) = wire
          [] kind = "register" ->
               got.links # <<>> =>
                   \A id \in DOMAIN got.links[1].objects :
                       \E i \in DOMAIN given.objects :
                           /\ given.objects[i].id = id
                           /\ Len(got.links[1].objects[id].instances) <= Len(given.objects[i].instances)
=============================================================================
