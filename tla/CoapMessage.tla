---------------------------- MODULE CoapMessage ----------------------------
\* CoAP messages as datagrams: src/coap/er-coap-13/er-coap-13.c.
\*
\* A message is [type, code, mid, token, options, payload]. options maps the numbers
\* of the options that are set to their values: a number, a sequence of bytes, for
\* the options that may repeat a sequence of values, for a block [num, more, size].
\* A datagram is a sequence of bytes.
EXTENDS Texts

IF_MATCH == 1
URI_HOST == 3
ETAG == 4
IF_NONE_MATCH == 5
OBSERVE == 6
URI_PORT == 7
LOCATION_PATH == 8
URI_PATH == 11
CONTENT_TYPE == 12
MAX_AGE == 14
URI_QUERY == 15
ACCEPT == 17
LOCATION_QUERY == 20
BLOCK2 == 23
BLOCK1 == 27
SIZE == 28
PROXY_URI == 35

TYPE_CON == 0
COAP_HEADER_LEN == 4
COAP_TOKEN_LEN == 8
COAP_ETAG_LEN == 8
COAP_MAX_ACCEPT_NUM == 2
COAP_MAX_OPTION_HEADER_LEN == 5
PayloadMarker == 255
Ampersand == <<38>>
Slash == <<47>>
QuestionMark == <<63>>

IntOptions == {IF_NONE_MATCH, OBSERVE, URI_PORT, CONTENT_TYPE, MAX_AGE, SIZE}
ByteOptions == {IF_MATCH, URI_HOST, ETAG, PROXY_URI, LOCATION_QUERY}
MultiOptions == {LOCATION_PATH, URI_PATH, URI_QUERY}
BlockOptions == {BLOCK1, BLOCK2}

\* The order in which coap_serialize_message looks at the options.
OptionOrder ==
    <<IF_MATCH, URI_HOST, ETAG, IF_NONE_MATCH, OBSERVE, URI_PORT, LOCATION_PATH, URI_PATH,
      CONTENT_TYPE, MAX_AGE, URI_QUERY, ACCEPT, LOCATION_QUERY, BLOCK2, BLOCK1, SIZE, PROXY_URI>>

coap_init_message(type, code, mid) ==
    [type |-> type, code |-> code, mid |-> mid, token |-> <<>>, options |-> <<>>, payload |-> <<>>]

Shortened(bytes, n) == SubSeq(bytes, 1, IF Len(bytes) < n THEN Len(bytes) ELSE n)

WithOption(m, number, value) ==
    [m EXCEPT !.options = [n \in DOMAIN @ \cup {number} |-> IF n = number THEN value ELSE @[n]]]

\* The setters: what does not fit the limits of an option is cut or not set.
coap_set_header_token(m, token) == [m EXCEPT !.token = Shortened(token, COAP_TOKEN_LEN)]

coap_set_header_content_type(m, type) == WithOption(m, CONTENT_TYPE, type)

coap_set_header_accept(m, accept) ==
    LET old == IF ACCEPT \in DOMAIN m.options THEN m.options[ACCEPT] ELSE <<>>
    IN  IF Len(old) < COAP_MAX_ACCEPT_NUM THEN WithOption(m, ACCEPT, Append(old, accept)) ELSE m

coap_set_header_max_age(m, age) == WithOption(m, MAX_AGE, age)

coap_set_header_etag(m, etag) == WithOption(m, ETAG, Shortened(etag, COAP_ETAG_LEN))

coap_set_header_if_match(m, etag) == WithOption(m, IF_MATCH, Shortened(etag, COAP_ETAG_LEN))

coap_set_header_if_none_match(m) == WithOption(m, IF_NONE_MATCH, 0)

coap_set_header_proxy_uri(m, uri) == WithOption(m, PROXY_URI, uri)

coap_set_header_uri_host(m, host) == WithOption(m, URI_HOST, host)

coap_set_header_uri_port(m, port) == WithOption(m, URI_PORT, port % 65536)

coap_set_header_observe(m, n) == WithOption(m, OBSERVE, n % 2 ^ 24)

coap_set_header_size(m, size) == WithOption(m, SIZE, size)

coap_set_header_block(m, number, num, more, size) ==
    IF size \in 16..2048 /\ num < 2 ^ 20
    THEN WithOption(m, number, [num |-> num, more |-> more, size |-> size]) ELSE m

coap_set_payload(m, payload) == [m EXCEPT !.payload = Shortened(payload, Len(payload) % 65536)]

\* One more value of an option that repeats; its length is kept in one byte.
coap_add_multi_option(list, value) == Append(list, Shortened(value, Len(value) % 256))

Segments(text, lead, separator) ==
    FoldLeft(coap_add_multi_option, <<>>,
             Split(IF StartsWith(text, lead) THEN Tail(text) ELSE text, separator))

coap_set_header_uri_path(m, path) == WithOption(m, URI_PATH, Segments(path, Slash, Slash))

coap_set_header_uri_query(m, query) ==
    WithOption(m, URI_QUERY, Segments(query, QuestionMark, Ampersand))

coap_set_header_location_path(m, path) ==
    WithOption(m, LOCATION_PATH, Segments(path, Slash, Slash))

RECURSIVE coap_set_header_location_query(_, _)
coap_set_header_location_query(m, query) ==
    IF StartsWith(query, QuestionMark) THEN coap_set_header_location_query(m, Tail(query))
    ELSE WithOption(m, LOCATION_QUERY, query)

-----------------------------------------------------------------------------
\* Writing

coap_option_nibble(n) == IF n < 13 THEN n ELSE IF n <= 268 THEN 13 ELSE 14

\* Mutant: the offset of the extension of two bytes is forgotten.
M_option_header_extended(n) ==
    IF n >= 269 THEN <<n \div 256, n % 256>>
    ELSE IF n >= 13 THEN <<(n - 269) % 256>>
    ELSE <<>>

coap_set_option_header_extended(n) ==
    IF n >= 269 THEN <<(n - 269) \div 256, (n - 269) % 256>>
    ELSE IF n >= 13 THEN <<(n - 269) % 256>>
    ELSE <<>>

coap_set_option_header(delta, length) ==
    <<16 * coap_option_nibble(delta) + coap_option_nibble(length)>>
    \o coap_set_option_header_extended(delta) \o coap_set_option_header_extended(length)

\* A number without its leading zero bytes, so 0 takes none.
IntBytes(n) ==
    LET width == IF n = 0 THEN 0 ELSE IF n < 256 THEN 1 ELSE IF n < 65536 THEN 2
                 ELSE IF n < 2 ^ 24 THEN 3 ELSE 4
    IN  [i \in 1..width |-> (n \div 256 ^ (width - i)) % 256]

coap_log_2(n) == CHOOSE k \in 0..15 : 2 ^ k <= n /\ n < 2 ^ (k + 1)

BlockNumber(block) ==
    block.num * 16 + (IF block.more THEN 8 ELSE 0) + coap_log_2(block.size \div 16)

RECURSIVE SplitFrom(_, _, _)
\* The parts of a Location-Query. The character behind a separator is not examined,
\* and nothing is written for an empty last part.
SplitFrom(bytes, start, j) ==
    IF j > Len(bytes) + 1 THEN <<>>
    ELSE IF j = Len(bytes) + 1 \/ bytes[j] = Ampersand[1]
    THEN <<SubSeq(bytes, start, j - 1)>> \o SplitFrom(bytes, j + 1, j + 2)
    ELSE SplitFrom(bytes, start, j + 1)

\* The values an option is written with, one header each.
OptionParts(number, value) ==
    CASE number \in IntOptions -> <<IntBytes(value)>>
      [] number \in BlockOptions -> <<IntBytes(BlockNumber(value))>>
      [] number = ACCEPT -> [i \in DOMAIN value |-> IntBytes(value[i])]
      [] number = LOCATION_QUERY -> SplitFrom(value, 1, 1)
      [] number \in MultiOptions -> value
      [] OTHER -> <<value>>

coap_serialize_option(number, current, value) ==
    LET parts == OptionParts(number, value)
    IN  FlattenSeq([i \in DOMAIN parts |->
            coap_set_option_header(IF i = 1 THEN number - current ELSE 0, Len(parts[i]))
            \o parts[i]])

\* The options so far and the number the next delta counts from; an empty list of
\* accepted formats does not move it.
AddOption(m, done, number) ==
    IF number \notin DOMAIN m.options THEN done
    ELSE [bytes |-> done.bytes \o coap_serialize_option(number, done.current, m.options[number]),
          current |-> IF number = ACCEPT /\ m.options[number] = <<>> THEN done.current ELSE number]

coap_serialize_message(m) ==
    <<64 + 16 * m.type + Len(m.token), m.code, m.mid \div 256, m.mid % 256>>
    \o m.token
    \o FoldLeft(LAMBDA done, number : AddOption(m, done, number),
                [bytes |-> <<>>, current |-> 0], OptionOrder).bytes
    \o (IF m.payload = <<>> THEN <<>> ELSE <<PayloadMarker>> \o m.payload)

\* The bytes reserved for an option: the longest header, and the value unless it is a
\* number, which is taken to fit in the header's place.
OptionSize(number, value) ==
    CASE number \in IntOptions \cup BlockOptions -> COAP_MAX_OPTION_HEADER_LEN
      [] number = ACCEPT -> Len(value) * COAP_MAX_OPTION_HEADER_LEN
      [] number \in MultiOptions ->
           FoldLeft(LAMBDA sum, v : sum + COAP_MAX_OPTION_HEADER_LEN + Len(v), 0, value)
      [] OTHER -> COAP_MAX_OPTION_HEADER_LEN + Len(value)

coap_serialize_get_size(m) ==
    COAP_HEADER_LEN + Len(m.payload) + Len(m.token)
    + FoldLeft(LAMBDA sum, number :
                 sum + (IF number \in DOMAIN m.options THEN OptionSize(number, m.options[number])
                        ELSE 0), 0, OptionOrder)
    + (IF m.payload = <<>> THEN 0 ELSE 1)

-----------------------------------------------------------------------------
\* Reading

Refused(code) == [refused |-> code]

coap_parse_int_option(bytes) == FoldLeft(LAMBDA n, b : n * 256 + b, 0, bytes)

\* A nibble and its extension: [value, size], size -1 when the datagram ends in it.
Extended(nibble, data, at) ==
    CASE nibble < 13 -> [value |-> nibble, size |-> 0]
      [] nibble = 13 -> IF at > Len(data) THEN [size |-> -1]
                        ELSE [value |-> 13 + data[at], size |-> 1]
      [] nibble = 14 -> IF at + 1 > Len(data) THEN [size |-> -1]
                        ELSE [value |-> 269 + 256 * data[at] + data[at + 1], size |-> 2]

\* The options with one more that has been read. Later values of an option that does
\* not repeat replace earlier ones, the third accepted format is dropped.
ReadOption(options, number, bytes) ==
    LET old == IF number \in DOMAIN options THEN options[number] ELSE <<>>
        n == coap_parse_int_option(bytes)
        Set(value) == [k \in DOMAIN options \cup {number} |->
                          IF k = number THEN value ELSE options[k]]
    IN  CASE number = IF_NONE_MATCH -> Set(0)
          [] number = URI_PORT -> Set(n % 65536)
          [] number \in IntOptions \ {IF_NONE_MATCH, URI_PORT} -> Set(n)
          [] number \in BlockOptions ->
               Set([num |-> n \div 16, more |-> (n \div 8) % 2 = 1, size |-> 16 * 2 ^ (n % 8)])
          [] number = ACCEPT ->
               IF Len(old) < COAP_MAX_ACCEPT_NUM THEN Set(Append(old, n % 65536)) ELSE options
          [] number \in {ETAG, IF_MATCH} -> Set(Shortened(bytes, COAP_ETAG_LEN))
          [] number = URI_HOST -> Set(bytes)
          [] number = LOCATION_QUERY ->
               Set(IF old = <<>> THEN bytes ELSE old \o Ampersand \o bytes)
          [] number \in MultiOptions -> Set(coap_add_multi_option(old, bytes))
          [] OTHER -> options

RECURSIVE ParseOptions(_, _, _, _)
\* The options from at on, and the payload. An unknown odd option is refused, an
\* unknown even one skipped.
ParseOptions(m, data, at, number) ==
    LET delta == Extended(data[at] \div 16, data, at + 1)
        length == Extended(data[at] % 16, data, at + 1 + delta.size)
        next == number + delta.value
        value == at + 1 + delta.size + length.size
        bytes == SubSeq(data, value, value + length.value - 1)
        known == next \in {OptionOrder[i] : i \in DOMAIN OptionOrder}
    IN  IF at > Len(data) THEN m
        ELSE IF data[at] = PayloadMarker
        THEN IF at = Len(data) THEN Refused(400)
             ELSE [m EXCEPT !.payload = SubSeq(data, at + 1, Len(data))]
        ELSE IF 15 \in {data[at] \div 16, data[at] % 16} THEN Refused(400)
        ELSE IF delta.size = -1 THEN Refused(400)
        ELSE IF length.size = -1 THEN Refused(400)
        ELSE IF value + length.value > Len(data) + 1 THEN Refused(400)
        ELSE IF next = CONTENT_TYPE /\ length.value > 2 THEN Refused(400)
        ELSE IF next = PROXY_URI THEN Refused(505)
        ELSE IF ~known /\ next % 2 = 1 THEN Refused(402)
        ELSE ParseOptions([m EXCEPT !.options = ReadOption(@, next, bytes)],
                          data, value + length.value, next)

coap_parse_message(data) ==
    LET tokenLength == data[1] % 16
        header == coap_init_message((data[1] \div 16) % 4, data[2], data[3] * 256 + data[4])
    IN  IF Len(data) < COAP_HEADER_LEN THEN Refused(400)
        ELSE IF data[1] \div 64 # 1 THEN Refused(400)
        ELSE IF data[2] = 0 /\ Len(data) > COAP_HEADER_LEN THEN Refused(400)
        ELSE IF tokenLength > COAP_TOKEN_LEN THEN Refused(400)
        ELSE IF COAP_HEADER_LEN + tokenLength > Len(data) THEN Refused(400)
        ELSE ParseOptions([header EXCEPT !.token = SubSeq(data, 5, 4 + tokenLength)],
                          data, 5 + tokenLength, 0)

-----------------------------------------------------------------------------
\* The message of the next block: the old one read from its buffer, with a new message
\* ID. Its content format is first set to the message type (prv_create_next_block_transaction).
Kept == {ETAG, URI_PORT, LOCATION_PATH, CONTENT_TYPE, URI_PATH, OBSERVE, ACCEPT, IF_MATCH,
         URI_QUERY, IF_NONE_MATCH}

\* A string is copied to an array that is gone when the message is written: its length is
\* right, its bytes are what the stack then has, here the old ones or zeros.
Dangling(bytes) ==
    LET length == Min({i \in DOMAIN bytes : bytes[i] = 0} \cup {Len(bytes) + 1}) - 1
    IN  {Shortened(bytes, length), [i \in 1..length |-> 0]}

WithStrings(new, m) ==
    LET hosted == IF URI_HOST \notin DOMAIN m.options THEN {new}
                  ELSE {coap_set_header_uri_host(new, b) : b \in Dangling(m.options[URI_HOST])}
    IN  IF LOCATION_QUERY \notin DOMAIN m.options THEN hosted
        ELSE {coap_set_header_location_query(x, b) :
                 x \in hosted, b \in Dangling(m.options[LOCATION_QUERY])}

NextBlockMessages(m, mid) ==
    LET new == coap_set_header_content_type(
                   coap_set_header_token(coap_init_message(TYPE_CON, m.code, mid), m.token), m.type)
        kept == Kept \cap DOMAIN m.options
    IN  WithStrings([new EXCEPT !.options = [n \in DOMAIN @ \cup kept |->
                                               IF n \in kept THEN m.options[n] ELSE @[n]]], m)
=============================================================================
