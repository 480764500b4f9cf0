----------------------------- MODULE Payloads -----------------------------
\* Resource values as TLV (src/data/tlv.c), as single CBOR items (src/data/cbor.c)
\* and as plain text, and how an object's code gets its value back (src/data/data.c).
\*
\* A data item is [type, id, value]. The value is a sequence of bytes for "string",
\* "opaque" and "corelink", a pair for "link", a sequence of items for "instance"
\* and "multiple". A "float" is [class, single, double]: class is "single" when single
\* precision holds it, "fine" when it needs the digits and "beyond" when it needs the
\* range of a double; single is <<sign, exponent, mantissa>>, rounded for "fine";
\* double its eight bytes. TLC's integers have 32 bits: integers that take eight
\* bytes are not covered.
EXTENDS Texts

Item(type, id, value) == [type |-> type, id |-> id, value |-> value]

\* The w bytes of n, most significant first (utils_copyValue on a little endian host).
Bytes(n, w) == [i \in 1..w |-> (n \div (256 ^ (w - i))) % 256]

Unsigned(b) == FoldLeft(LAMBDA n, byte : n * 256 + byte, 0, b)

Signed(b) == Unsigned(<<IF b[1] < 128 THEN b[1] ELSE b[1] - 256>> \o Tail(b))

-----------------------------------------------------------------------------
\* Floats

SingleBytes(f) ==
    <<f[1] * 128 + (f[2] + 127) \div 2, ((f[2] + 127) % 2) * 128 + f[3] \div 65536>>
    \o Bytes(f[3] % 65536, 2)

SingleOf(b) ==
    <<b[1] \div 128, (b[1] % 128) * 2 + b[2] \div 128 - 127,
      (b[2] % 128) * 65536 + b[3] * 256 + b[4]>>

\* What a half-precision float means, as a single one: zero, a denormalised number
\* n * 2^-24, a normal one, or infinity.
HalfOf(b) ==
    LET sign == b[1] \div 128
        e == (b[1] % 128) \div 4
        n == (b[1] % 4) * 256 + b[2]
        top == Max({k \in 0..9 : 2 ^ k <= n})
    IN  IF e = 0 THEN IF n = 0 THEN <<sign, -127, 0>>
                      ELSE <<sign, top - 24, (n - 2 ^ top) * 2 ^ (23 - top)>>
        ELSE IF e = 31 THEN <<sign, 128, n * 8192>>
        ELSE <<sign, e - 15, n * 8192>>

FloatOf(b) ==
    CASE Len(b) = 2 -> HalfOf(b) [] Len(b) = 4 -> SingleOf(b) [] OTHER -> b

\* A float beyond FLT_MAX keeps its eight bytes; any other is rounded to four.
prv_encodeFloat(x) == IF x.class = "beyond" THEN x.double ELSE SingleBytes(x.single)

-----------------------------------------------------------------------------
\* TLV

prv_encodeInt(n) ==
    Bytes(n, CASE n \in -128..127 -> 1 [] n \in -32768..32767 /\ n \notin -128..127 -> 2
               [] OTHER -> 4)

prv_encodeUInt(n) == Bytes(n, IF n <= 255 THEN 1 ELSE IF n <= 65535 THEN 2 ELSE 4)

Containers == {"instance", "multiple"}
Buffers == {"string", "opaque", "corelink"}
Values == Buffers \cup {"integer", "unsigned", "float", "boolean", "link"}

\* The two bits of the type; the code of an object has none of them.
prv_getHeaderType(type) ==
    CASE type \in {"object", "instance"} -> 0
      [] type = "multiple" -> 128
      [] type \in Values -> 192

prv_getDataType(first) ==
    CASE first \div 64 = 0 -> "instance" [] first \div 64 = 2 -> "multiple"
      [] OTHER -> "opaque"

\* Mutant: an ID of 255 is taken to need two bytes.
M_getHeaderLength(id, length) ==
    2 + (IF id >= 255 THEN 1 ELSE 0)
      + (IF length > 65535 THEN 3 ELSE IF length > 255 THEN 2 ELSE IF length > 7 THEN 1 ELSE 0)

prv_getHeaderLength(id, length) ==
    2 + (IF id > 255 THEN 1 ELSE 0)
      + (IF length > 65535 THEN 3 ELSE IF length > 255 THEN 2 ELSE IF length > 7 THEN 1 ELSE 0)

prv_createHeader(isInstance, type, id, length) ==
    LET lengthBytes == IF length <= 7 THEN 0 ELSE IF length <= 255 THEN 1
                       ELSE IF length <= 65535 THEN 2 ELSE 3
        first == (IF isInstance THEN 64 ELSE prv_getHeaderType(type))
                 + (IF id > 255 THEN 32 ELSE 0)
                 + (IF lengthBytes = 0 THEN length ELSE 8 * lengthBytes)
    IN  <<first>> \o Bytes(id, IF id > 255 THEN 2 ELSE 1) \o Bytes(length, lengthBytes)

\* The bytes of a value that has no children.
Encoded(item) ==
    CASE item.type \in Buffers -> item.value
      [] item.type = "integer" -> prv_encodeInt(item.value)
      [] item.type = "unsigned" -> prv_encodeUInt(item.value)
      [] item.type = "float" -> prv_encodeFloat(item.value)
      [] item.type = "boolean" -> <<IF item.value THEN 1 ELSE 0>>
      [] item.type = "link" -> Bytes(item.value[1], 2) \o Bytes(item.value[2], 2)

RECURSIVE prv_getLength(_)
\* The bytes the items take, or -1 for a type TLV has no code for.
prv_getLength(items) ==
    LET DataLength(item) ==
            CASE item.type \in Containers -> prv_getLength(item.value)
              [] item.type \in Buffers -> Len(item.value)
              [] item.type = "integer" -> Len(prv_encodeInt(item.value))
              [] item.type = "unsigned" -> Len(prv_encodeUInt(item.value))
              [] item.type = "float" -> IF item.value.class = "beyond" THEN 8 ELSE 4
              [] item.type = "boolean" -> 1
              [] item.type = "link" -> 4
              [] OTHER -> -1
        Add(sum, item) ==
            IF sum = -1 \/ DataLength(item) = -1 THEN -1
            ELSE sum + prv_getHeaderLength(item.id, DataLength(item)) + DataLength(item)
    IN  FoldLeft(Add, 0, items)

RECURSIVE tlv_serialize(_, _)
\* The bytes written, <<>> when prv_getLength refuses. The children of a multiple
\* resource are resource instances; the header of a container is its own.
tlv_serialize(isResourceInstance, items) ==
    LET Part(item) ==
            LET data == IF item.type \in Containers
                        THEN tlv_serialize(isResourceInstance \/ item.type = "multiple", item.value)
                        ELSE Encoded(item)
            IN  prv_createHeader(isResourceInstance /\ item.type \notin Containers,
                                 item.type, item.id, Len(data)) \o data
    IN  IF prv_getLength(items) <= 0 THEN <<>>
        ELSE FlattenSeq([i \in DOMAIN items |-> Part(items[i])])

\* The TLV case of lwm2m_data_serialize: below a resource the items are its instances,
\* unless the only item is the resource itself.
AreInstances(uri, items) ==
    Len(uri) = 4 \/ (Len(uri) = 3 /\ (Len(items) # 1 \/ items[1].id # uri[3]))

lwm2m_data_serialize(uri, items) ==
    IF Len(uri) = 4 /\ (Len(items) # 1 \/ items[1].id # uri[4]) THEN <<>>
    ELSE tlv_serialize(AreInstances(uri, items), items)

\* Mutant: a value that is not complete is taken as far as it goes.
M_decode_TLV(buffer) ==
    LET idBytes == IF (buffer[1] \div 32) % 2 = 1 THEN 2 ELSE 1
        lengthBytes == (buffer[1] \div 8) % 4
        index == 1 + idBytes + lengthBytes
        length == IF lengthBytes = 0 THEN buffer[1] % 8
                  ELSE Unsigned(SubSeq(buffer, idBytes + 2, index))
    IN  IF Len(buffer) < 2 \/ Len(buffer) < index THEN [size |-> 0]
        ELSE [size |-> Min({Len(buffer), index + length}), index |-> index,
              type |-> prv_getDataType(buffer[1]),
              id |-> Unsigned(SubSeq(buffer, 2, idBytes + 1))]

\* The first TLV of a buffer; size is 0 when the buffer does not hold all of it.
lwm2m_decode_TLV(buffer) ==
    LET idBytes == IF (buffer[1] \div 32) % 2 = 1 THEN 2 ELSE 1
        lengthBytes == (buffer[1] \div 8) % 4
        index == 1 + idBytes + lengthBytes
        length == IF lengthBytes = 0 THEN buffer[1] % 8
                  ELSE Unsigned(SubSeq(buffer, idBytes + 2, index))
    IN  IF Len(buffer) < 2 \/ Len(buffer) < index \/ index + length > Len(buffer)
        THEN [size |-> 0]
        ELSE [size |-> index + length, index |-> index,
              type |-> prv_getDataType(buffer[1]),
              id |-> Unsigned(SubSeq(buffer, 2, idBytes + 1))]

RECURSIVE tlv_parse(_), ParseFrom(_, _)
\* Items are taken until one is not complete: what is left over is ignored. A
\* container without a readable child makes the whole parse fail.
ParseFrom(buffer, items) ==
    LET d == lwm2m_decode_TLV(buffer)
        data == SubSeq(buffer, d.index + 1, d.size)
        value == IF d.type \in Containers THEN tlv_parse(data) ELSE data
    IN  IF d.size = 0 THEN items
        ELSE IF d.type \in Containers /\ value = <<>> THEN <<>>
        ELSE ParseFrom(SubSeq(buffer, d.size + 1, Len(buffer)),
                       Append(items, Item(d.type, d.id, value)))

tlv_parse(buffer) == ParseFrom(buffer, <<>>)

-----------------------------------------------------------------------------
\* CBOR

\* The head of an item: its major type and a number. 255 and 65535 take the next
\* larger form.
prv_serialize_value(major, n) ==
    CASE n < 24 -> <<32 * major + n>>
      [] n >= 24 /\ n < 255 -> <<32 * major + 24, n>>
      [] n >= 255 /\ n < 65535 -> <<32 * major + 25>> \o Bytes(n, 2)
      [] OTHER -> <<32 * major + 26>> \o Bytes(n, 4)

\* The shortest of half, single and double precision that holds the float. The test
\* for a normal half looks at 11 of the 13 bits of the mantissa that it drops.
prv_serialize_float(x) ==
    LET sign == x.single[1]
        exp == x.single[2]
        mant == x.single[3]
        Half(e, n) == <<249, sign * 128 + e * 4 + n \div 256, n % 256>>
    IN  CASE x.class # "single" -> <<251>> \o x.double
          [] x.class = "single" /\ exp = 128 -> Half(31, 0)
          [] x.class = "single" /\ exp = -127 /\ mant = 0 -> Half(0, 0)
          [] x.class = "single" /\ exp \in -14..15 /\ mant % 2048 = 0 ->
               Half(exp + 15, mant \div 8192)
          [] x.class = "single" /\ exp \in -24..-15 /\ mant % 2 ^ (1 - exp) = 0 ->
               Half(0, (mant + 2 ^ 23) \div 2 ^ (-1 - exp))
          [] OTHER -> <<250>> \o SingleBytes(x.single)

\* The bytes of a link's text, with the codes of its characters.
Codes(t) == [i \in 1..Len(t) |-> IF Char(t, i) = ":" THEN 58 ELSE 48 + Digit[Char(t, i)]]

cbor_put_singular(item) ==
    CASE item.type = "opaque" -> prv_serialize_value(2, Len(item.value)) \o item.value
      [] item.type \in {"string", "corelink"} ->
           prv_serialize_value(3, Len(item.value)) \o item.value
      [] item.type \in {"integer", "unsigned"} ->
           IF item.value < 0 THEN prv_serialize_value(1, -item.value - 1)
           ELSE prv_serialize_value(0, item.value)
      [] item.type = "float" -> prv_serialize_float(item.value)
      [] item.type = "boolean" -> prv_serialize_value(7, IF item.value THEN 21 ELSE 20)
      [] item.type = "link" ->
           LET text == utils_objLinkToText(item.value[1], item.value[2], 11)
           IN  prv_serialize_value(3, Len(text)) \o Codes(text)
      [] OTHER -> <<>>

\* The head of an item: [size, type, value], size -1 when it is cut or reserved.
cbor_get_type_and_value(buffer) ==
    LET major == buffer[1] \div 32
        ai == buffer[1] % 32
        extra == IF ai \in 24..27 THEN 2 ^ (ai - 24) ELSE 0
        bytes == SubSeq(buffer, 2, extra + 1)
        value == IF extra = 0 THEN ai ELSE Unsigned(bytes)
    IN  IF buffer = <<>> \/ Len(buffer) < 1 + extra \/ ai \in 28..30 THEN [size |-> -1]
        ELSE [size |-> 1 + extra, type |-> major,
              value |-> CASE major = 1 -> -value - 1
                          [] major = 7 /\ extra \in {2, 4, 8} -> FloatOf(bytes)
                          [] OTHER -> value,
              float |-> major = 7 /\ extra \in {2, 4, 8}]

RECURSIVE Singular(_, _)
\* The item of a buffer and the bytes it takes, or size -1. One tag is skipped.
Singular(buffer, tagSeen) ==
    LET h == cbor_get_type_and_value(buffer)
        rest == SubSeq(buffer, h.size + 1, Len(buffer))
        inner == Singular(rest, TRUE)
        Got(type, value, size) == [size |-> size, type |-> type, value |-> value]
        Bad == [size |-> -1]
    IN  IF h.size = -1 THEN Bad
        ELSE CASE h.type = 0 -> Got("unsigned", h.value, h.size)
               [] h.type = 1 -> Got("integer", h.value, h.size)
               [] h.type \in {2, 3} ->
                    IF h.value > Len(rest) THEN Bad
                    ELSE Got(IF h.type = 2 THEN "opaque" ELSE "string",
                             SubSeq(rest, 1, h.value), h.size + h.value)
               [] h.type = 6 ->
                    IF tagSeen \/ inner.size = -1 THEN Bad
                    ELSE [inner EXCEPT !.size = @ + h.size]
               [] h.type = 7 /\ h.float -> Got("float", h.value, h.size)
               [] h.type = 7 /\ ~h.float ->
                    IF h.value \in {20, 21} THEN Got("boolean", h.value = 21, h.size) ELSE Bad
               [] OTHER -> Bad

cbor_get_singular(buffer) == Singular(buffer, FALSE)

-----------------------------------------------------------------------------
\* Plain text. NUL stands for the null character.

NUL == "#"

\* The text of a value, "" when it has none. The separator of a link is stored at a
\* fixed place, so it is only right behind an object ID of five digits. A string is a
\* TLA+ text here; the text of an opaque value is its base64 code. Floats are left out.
prv_textSerialize(item) ==
    CASE item.type \in {"string", "corelink"} -> item.value
      [] item.type \in {"integer", "unsigned"} -> utils_intToText(item.value, 32)
      [] item.type = "boolean" -> IF item.value THEN "1" ELSE "0"
      [] item.type = "link" ->
           LET object == utils_intToText(item.value[1], 5)
           IN  object \o (IF Len(object) = 5 THEN ":" ELSE NUL) \o utils_intToText(item.value[2], 5)
      [] item.type = "opaque" -> utils_base64Encode(item.value)
      [] OTHER -> ""

-----------------------------------------------------------------------------
\* Getting a value back. The argument is an item as a parser leaves it: "text" marks
\* a string that holds a TLA+ text.

lwm2m_data_decode_int(item) ==
    CASE item.type \in {"integer", "unsigned"} -> <<item.value>>
      [] item.type = "text" -> utils_textToInt(item.value)
      [] item.type = "opaque" /\ Len(item.value) \in {1, 2, 4} -> <<Signed(item.value)>>
      [] OTHER -> <<>>

lwm2m_data_decode_uint(item) ==
    CASE item.type \in {"integer", "unsigned"} ->
           IF item.value >= 0 THEN <<item.value>> ELSE <<>>
      [] item.type = "text" -> utils_textToUInt(item.value)
      [] item.type = "opaque" /\ Len(item.value) \in {1, 2, 4} -> <<Unsigned(item.value)>>
      [] OTHER -> <<>>

\* The float as a single one, or its eight bytes.
lwm2m_data_decode_float(item) ==
    CASE item.type = "float" -> <<item.value>>
      [] item.type = "opaque" /\ Len(item.value) \in {4, 8} -> <<FloatOf(item.value)>>
      [] OTHER -> <<>>

lwm2m_data_decode_bool(item) ==
    CASE item.type = "boolean" -> <<item.value>>
      [] item.type = "text" /\ item.value \in {"0", "1"} -> <<item.value = "1">>
      [] item.type = "opaque" /\ item.value \in {<<0>>, <<1>>} -> <<item.value = <<1>>>>
      [] OTHER -> <<>>
=============================================================================
