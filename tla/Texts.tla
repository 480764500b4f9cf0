------------------------------- MODULE Texts -------------------------------
\* Numbers, object links, base64 and paths as text, and their readers:
\* src/core/utils.c and src/core/uri.c. A text is a TLA+ string. An operator
\* whose C function may refuse returns a sequence: <<value>>, or <<>> when refused.
\* UINT64_MAX keeps its role and not its value: TLC's integers have 32 bits.
EXTENDS Integers, SequencesExt

CONSTANT UINT64_MAX

ASSUME WidthAssumption == UINT64_MAX \in Nat /\ UINT64_MAX > 655360

INT64_MAX == UINT64_MAX \div 2

LWM2M_MAX_ID == 65535

\* A character, or nothing behind the end.
Char(t, i) == IF i \in 1..Len(t) THEN SubSeq(t, i, i) ELSE ""

From(t, i) == SubSeq(t, i, Len(t))

\* The first position of one of chars at or after i, or the one behind the text.
Find(t, i, chars) == Min({k \in i..Len(t) : Char(t, k) \in chars} \cup {Len(t) + 1})

StartsWith(t, s) == SubSeq(t, 1, Min({Len(s), Len(t)})) = s

Digit == [c \in {"0", "1", "2", "3", "4", "5", "6", "7", "8", "9"} |->
            CHOOSE n \in 0..9 : ToString(n) = c]

IsDigits(t) == \A i \in 1..Len(t) : Char(t, i) \in DOMAIN Digit

Decimal(t) ==
    LET upTo[i \in 0..Len(t)] ==
            IF i = 0 THEN 0 ELSE upTo[i - 1] * 10 + Digit[Char(t, i)]
    IN  upTo[Len(t)]

RECURSIVE Split(_, _)
\* The parts of a path or a query as coap_set_header_uri_path and its siblings
\* make them: always one part, and none behind a trailing separator.
Split(t, separator) ==
    LET end == Find(t, 1, {separator})
    IN  IF end >= Len(t) THEN <<SubSeq(t, 1, end - 1)>>
        ELSE <<SubSeq(t, 1, end - 1)>> \o Split(From(t, end + 1), separator)

-----------------------------------------------------------------------------
\* Numbers

RECURSIVE ReadDigits(_, _)
\* The loop of utils_textToInt and utils_textToUInt. The guard lets the sum wrap:
\* UINT64_MAX \div 10 may be followed by a digit greater than UINT64_MAX % 10.
ReadDigits(t, n) ==
    IF t = "" THEN <<n>>
    ELSE IF Char(t, 1) \notin DOMAIN Digit \/ n > UINT64_MAX \div 10 THEN <<>>
    ELSE ReadDigits(From(t, 2), (n * 10 + Digit[Char(t, 1)]) % (UINT64_MAX + 1))

utils_textToUInt(t) == IF t = "" THEN <<>> ELSE ReadDigits(t, 0)

\* "-" alone is read as 0.
utils_textToInt(t) ==
    LET negative == Char(t, 1) = "-"
        read == ReadDigits(IF negative THEN From(t, 2) ELSE t, 0)
    IN  IF t = "" \/ read = <<>> THEN <<>>
        ELSE IF read[1] > INT64_MAX + (IF negative THEN 1 ELSE 0) THEN <<>>
        ELSE <<IF negative THEN -read[1] ELSE read[1]>>

\* A number that does not fit in the room is not written: the result is "".
utils_uintToText(n, room) == IF Len(ToString(n)) > room THEN "" ELSE ToString(n)

\* The smallest integer is copied as a literal, which needs one byte more.
utils_intToText(n, room) ==
    LET text == ToString(n)
    IN  IF Len(text) + (IF n = -INT64_MAX - 1 THEN 1 ELSE 0) > room THEN "" ELSE text

utils_objLinkToText(object, instance, room) ==
    LET head == utils_uintToText(object, room)
        tail == utils_uintToText(instance, room - Len(head) - 1)
    IN  IF head = "" \/ tail = "" THEN "" ELSE head \o ":" \o tail

utils_textToObjLink(t) ==
    LET sep == Find(t, 1, {":"})
        object == utils_textToUInt(SubSeq(t, 1, sep - 1))
        instance == utils_textToUInt(From(t, sep + 1))
    IN  IF sep \in {1, Len(t) + 1} \/ object = <<>> \/ instance = <<>> THEN <<>>
        ELSE IF object[1] > LWM2M_MAX_ID \/ instance[1] > LWM2M_MAX_ID THEN <<>>
        ELSE <<<<object[1], instance[1]>>>>

\* utils_stringCopy: src cut to the room; a copy that fills the room loses its last
\* character to the null. It never returns -1.
utils_stringCopy(src, room) ==
    IF Len(src) < room THEN src ELSE SubSeq(src, 1, room - 1)

-----------------------------------------------------------------------------
\* Base64, with 0..63 for the characters of the alphabet

Padding == 64

utils_base64GetSize(length) ==
    4 * (length \div 3) + (IF length % 3 # 0 THEN 4 ELSE 0)

prv_encodeBlock(b) ==
    <<b[1] \div 4, (b[1] % 4) * 16 + b[2] \div 16,
      (b[2] % 16) * 4 + b[3] \div 64, b[3] % 64>>

RECURSIVE utils_base64Encode(_)
utils_base64Encode(data) ==
    CASE Len(data) = 0 -> <<>>
      [] Len(data) = 1 -> <<data[1] \div 4, (data[1] % 4) * 16, Padding, Padding>>
      [] Len(data) = 2 -> <<data[1] \div 4, (data[1] % 4) * 16 + data[2] \div 16,
                            (data[2] % 16) * 4, Padding>>
      [] OTHER -> prv_encodeBlock(data) \o utils_base64Encode(From(data, 4))

utils_base64GetDecodedSize(code) ==
    LET n == Len(code)
    IN  3 * (n \div 4)
        + CASE n % 4 = 2 -> 1
            [] n % 4 = 3 -> 2
            [] n % 4 = 0 /\ n > 0 -> IF code[n - 1] = Padding THEN -2
                                     ELSE IF code[n] = Padding THEN -1 ELSE 0
            [] OTHER -> 0

RECURSIVE DecodeBlocks(_, _, _)
\* A padding character is accepted only where the expected size is reached.
DecodeBlocks(code, size, out) ==
    LET two == (code[1] * 4 + code[2] \div 16) % 256
        three == (code[2] * 16 + code[3] \div 4) % 256
        four == (code[3] * 64 + code[4]) % 256
    IN  IF code = <<>> THEN <<out>>
        ELSE IF Len(code) = 1 \/ Padding \in {code[1], code[2]} THEN <<>>
        ELSE IF Len(code) = 2 THEN <<Append(out, two)>>
        ELSE IF code[3] = Padding
        THEN IF Len(out) + 1 # size THEN <<>>
             ELSE DecodeBlocks(From(code, 5), size, Append(out, two))
        ELSE IF Len(code) = 3 THEN <<out \o <<two, three>>>>
        ELSE IF code[4] = Padding
        THEN IF Len(out) + 2 # size THEN <<>>
             ELSE DecodeBlocks(From(code, 5), size, out \o <<two, three>>)
        ELSE DecodeBlocks(From(code, 5), size, out \o <<two, three, four>>)

utils_base64Decode(code, room) ==
    LET size == utils_base64GetDecodedSize(code)
    IN  IF size > room THEN <<>> ELSE DecodeBlocks(code, size, <<>>)

-----------------------------------------------------------------------------
\* Paths. A URI is the sequence of its IDs: object, instance, resource and
\* resource instance.

\* The number up to the next "/", or -1.  The code counts in an int, which overflows from
\* ten digits on: for shorter numbers only.
prv_parseNumber(t, head) ==
    LET segment == SubSeq(t, head, Find(t, head, {"/"}) - 1)
    IN  IF Char(t, head) = "/" \/ ~IsDigits(segment) THEN -1 ELSE Decimal(segment)

uri_getNumber(t) == prv_parseNumber(t, 1)

IsId(n) == n >= 0 /\ n < LWM2M_MAX_ID

RECURSIVE ReadIds(_, _, _)
\* The IDs from head on; the fourth must end the text.
ReadIds(t, head, ids) ==
    LET n == prv_parseNumber(t, head)
        end == Find(t, head, {"/"})
    IN  IF head > Len(t) THEN <<ids>>
        ELSE IF ~IsId(n) \/ (Len(ids) = 3 /\ end <= Len(t)) THEN <<>>
        ELSE ReadIds(t, end + 1, Append(ids, n))

lwm2m_stringToUri(t) ==
    LET start == Min({k \in 1..Len(t) : Char(t, k) # " "} \cup {Len(t) + 1})
    IN  IF start > Len(t) \/ Char(t, start) # "/" THEN <<>>
        ELSE ReadIds(t, start + 1, <<>>)

RECURSIVE WriteIds(_)
WriteIds(ids) == IF ids = <<>> THEN "" ELSE "/" \o ToString(ids[1]) \o WriteIds(Tail(ids))

\* The text, or "" when the buffer is too small.
lwm2m_uriToString(ids, room) ==
    LET text == IF ids = <<>> THEN "/" ELSE WriteIds(ids)
    IN  IF Len(text) > room \/ room < 2 THEN "" ELSE text

None == -1

RECURSIVE DecodeIds(_, _)
\* Empty segments leave their ID unset; a later ID needs the one before it.
DecodeIds(path, ids) ==
    LET n == uri_getNumber(path[1])
    IN  IF path = <<>> THEN <<ids>>
        ELSE IF Len(ids) = 4 THEN <<>>
        ELSE IF path[1] = "" THEN DecodeIds(Tail(path), Append(ids, None))
        ELSE IF ~IsId(n) \/ (Len(ids) > 1 /\ ids[Len(ids)] = None) THEN <<>>
        ELSE DecodeIds(Tail(path), Append(ids, n))

Unknown == [type |-> "unknown", ids |-> <<>>]

\* The request type and the URI of the path of a request. An alternate path is
\* compared over the length of the segment only.
uri_decode(altPath, path, code) ==
    LET rest == IF altPath = "" THEN path ELSE Tail(path)
        ids == DecodeIds(rest, <<>>)
    IN  IF path # <<>> /\ path[1] = "rd"
        THEN IF Len(path) = 1 THEN [type |-> "registration", ids |-> <<>>]
             ELSE IF Len(path) > 2 \/ ~IsId(uri_getNumber(path[2])) THEN Unknown
             ELSE [type |-> "registration", ids |-> <<uri_getNumber(path[2])>>]
        ELSE IF path # <<>> /\ path[1] \in {"bs", "dp"}
        THEN IF Len(path) > 1 THEN Unknown
             ELSE [type |-> IF path[1] = "bs" THEN "bootstrap" ELSE "send", ids |-> <<>>]
        ELSE IF altPath # "" /\ (path = <<>> \/ ~StartsWith(From(altPath, 2), path[1]))
        THEN Unknown
        ELSE IF rest = <<>> \/ rest[1] = ""
        THEN [type |-> IF code = "delete" THEN "delete all" ELSE "dm", ids |-> <<>>]
        ELSE IF ids = <<>> THEN Unknown
        ELSE [type |-> "dm", ids |-> ids[1]]
=============================================================================
