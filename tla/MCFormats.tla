----------------------------- MODULE MCFormats -----------------------------
\* Instance of Formats: values on both sides of every boundary of the encodings.
EXTENDS Formats

Fill(n) == [i \in 1..n |-> (i * 7) % 256]

Integer(id, n) == Item("integer", id, n)
Uint(id, n) == Item("unsigned", id, n)
Str(id, n) == Item("string", id, Fill(n))
Opaque(id, n) == Item("opaque", id, Fill(n))
Bool(id, b) == Item("boolean", id, b)
Link(id, object, instance) == Item("link", id, <<object, instance>>)

Float(class, single, double) ==
    Item("float", 5, [class |-> class, single |-> single, double |-> double])

\* 0, 1, -1.5, the smallest half and one below it, the largest half, 2^16, a number of 24
\* bits, infinity, 1/3 and 1e300.
Singles == <<<<0, -127, 0>>, <<0, 0, 0>>, <<1, 0, 4194304>>, <<0, -24, 0>>, <<0, -25, 0>>,
             <<0, 15, 8380416>>, <<0, 16, 0>>, <<0, -15, 8388607>>, <<0, 3, 8388607>>, <<0, 128, 0>>>>
Third == Float("fine", <<0, -2, 2796203>>, <<63, 213, 85, 85, 85, 85, 85, 85>>)
Huge == Float("beyond", <<0, 0, 0>>, <<126, 55, 228, 60, 136, 0, 117, 156>>)
Floats == [i \in DOMAIN Singles |-> Float("single", Singles[i], Fill(8))] \o <<Third, Huge>>

Ints == <<Integer(1, 0), Integer(1, 127), Integer(1, 128), Integer(1, -128), Integer(1, -129), Integer(1, 255),
          Integer(1, 256), Integer(1, 32767), Integer(1, -32768), Integer(1, 32768), Integer(1, -32769),
          Integer(1, 65535), Integer(1, 65536), Integer(1, 23), Integer(1, 24), Integer(1, -24), Integer(1, -25)>>
Uints == <<Uint(2, 0), Uint(2, 254), Uint(2, 255), Uint(2, 256), Uint(2, 65534),
           Uint(2, 65535), Uint(2, 65536), Uint(2, INT64_MAX)>>
Strings == <<Str(255, 0), Str(256, 7), Str(3, 8), Str(65534, 255), Opaque(0, 256), Opaque(9, 23),
             Opaque(9, 24), Opaque(9, 254)>>
Others == <<Bool(6, TRUE), Bool(6, FALSE), Link(7, 10244, 65535), Link(7, 3, 0)>>

Singletons(items) == [i \in DOMAIN items |-> [uri |-> <<3, 0, items[i].id>>, items |-> <<items[i]>>]]

MCTlvs ==
    Singletons(Ints \o Uints \o Strings \o Others \o Floats)
    \o <<[uri |-> <<3, 0>>, items |-> <<Integer(0, -1), Str(1, 9), Item("multiple", 6, <<Integer(0, 1), Uint(1, 300)>>),
                                        Bool(300, TRUE)>>],
         [uri |-> <<3>>, items |-> <<Item("instance", 0, <<Integer(9, 100), Item("multiple", 11, <<Integer(0, 0)>>)>>),
                                     Item("instance", 256, <<Str(1, 250), Str(2, 3)>>)>>],
         [uri |-> <<3, 0, 6>>, items |-> <<Integer(0, 1), Integer(1, 5)>>],
         [uri |-> <<3, 0, 6, 1>>, items |-> <<Integer(1, 5)>>],
         [uri |-> <<3, 0>>, items |-> <<Integer(0, 7), Item("multiple", 6, <<>>)>>],
         [uri |-> <<5, 0>>, items |-> <<Opaque(0, 65535), Opaque(0, 65536)>>]>>

MCCborItems == Ints \o Uints \o Strings \o Others \o Floats \o <<Item("corelink", 4, Fill(30))>>

MCTextItems ==
    Ints \o Uints
    \o <<Integer(1, INT64_MAX), Integer(1, -INT64_MAX), Integer(1, -INT64_MAX - 1), Uint(1, UINT64_MAX),
         Bool(6, TRUE), Bool(6, FALSE), Link(7, 10244, 65535), Link(7, 65535, 0),
         Item("string", 8, "text"), Opaque(9, 0), Opaque(9, 1), Opaque(9, 2), Opaque(9, 3),
         Opaque(9, 4), Opaque(9, 37), Opaque(9, 38)>>

Path(altPath, ids) == [altPath |-> altPath, ids |-> ids]

MCPaths ==
    <<Path("", <<3>>), Path("", <<3, 0>>), Path("", <<65534, 65534, 65534>>), Path("", <<>>),
      Path("", <<10, 0, 9, 65534>>), Path("", <<65534, 65534, 65534, 65534>>),
      Path("/lwm2m", <<0>>), Path("/lwm2m", <<1, 2, 3>>), Path("/lwm2m", <<>>)>>

Object(id, major, minor, instances) ==
    [id |-> id, major |-> major, minor |-> minor, instances |-> instances]

Plain == [name |-> "ep", msisdn |-> "", binding |-> {"U"}, queue |-> FALSE, lifetime |-> 300,
          altPath |-> "", objects |-> <<Object(0, 0, 0, <<0>>), Object(1, 0, 0, <<0>>), Object(3, 0, 0, <<0>>)>>]

MCClients ==
    <<Plain,
      [Plain EXCEPT !.lifetime = 0, !.binding = {}, !.objects = <<Object(0, 0, 0, <<0>>)>>],
      [Plain EXCEPT !.msisdn = "123", !.binding = {"U", "T", "S", "N"}, !.queue = TRUE, !.lifetime = 86400,
                    !.altPath = "/lwm2m"],
      [Plain EXCEPT !.objects = <<Object(0, 0, 0, <<0, 1>>), Object(1, 1, 1, <<0, 10>>),
                                  Object(9, 0, 0, <<>>), Object(10, 0, 12, <<>>),
                                  Object(33350, 255, 0, <<65534, 7, 99>>)>>]>>

MCUpload == Fill(40)

First == coap_set_header_token(coap_init_message(TYPE_CON, 2, 65535), Fill(8))
Observing == coap_set_header_uri_path(coap_init_message(TYPE_CON, 1, 7), Slash \o <<51>> \o Slash \o <<48>>)
Answer == coap_init_message(2, 69, 258)

Blocked(m, num, more) ==
    coap_set_payload(coap_set_header_block(m, BLOCK1, num, more, 16), SubSeq(MCUpload, 1, 16))

MCMessages ==
    <<coap_init_message(2, 0, 513),
      First,
      coap_set_header_observe(coap_set_header_accept(coap_set_header_accept(Observing, 110), 11542), 0),
      coap_set_header_observe(coap_set_payload(Answer, Fill(3)), 2 ^ 24 + 5),
      coap_set_header_location_path(Answer, Slash \o <<114, 100>> \o Slash \o <<48>>),
      coap_set_header_location_query(coap_set_header_max_age(Answer, 65536), <<63, 97, 98, 38, 99, 100>>),
      coap_set_header_uri_host(coap_set_header_if_none_match(First), Fill(268)),
      coap_set_header_uri_host(coap_set_header_uri_port(First, 5683), Fill(269)),
      coap_set_header_if_match(coap_set_header_etag(First, Fill(9)), <<1>>),
      coap_set_header_proxy_uri(First, Fill(13)),
      coap_set_header_size(coap_set_header_block(Answer, BLOCK2, 2 ^ 20 - 1, TRUE, 1024), 2 ^ 24 - 1),
      coap_set_header_block(coap_set_header_content_type(Answer, 0), BLOCK2, 0, FALSE, 2048),
      coap_set_header_uri_query(coap_set_header_uri_path(First, Fill(12) \o Slash \o Fill(13) \o Slash \o Fill(255)),
                                QuestionMark \o <<112>> \o Ampersand \o <<113, 61>>),
      Blocked(coap_set_header_content_type(coap_set_header_uri_query(
                  coap_set_header_uri_path(First, <<114, 100>>), <<112>> \o Ampersand \o <<113>>), 40), 0, TRUE),
      Blocked(coap_set_header_uri_path(First, <<114, 100>> \o Slash \o <<48>>), 0, TRUE),
      Blocked(coap_set_header_content_type(coap_set_header_uri_path(
                  coap_set_header_uri_host(coap_set_header_max_age(First, 60), <<104, 105>>), <<51>>), 0), 0, TRUE)>>
=============================================================================
