---------------------------- MODULE Normalization ----------------------------
(***************************************************************************)
(* Stage 3 of an analysis (backend/app/protocol): what tshark dissected    *)
(* becomes protocol observations (normalization/*.py), and the             *)
(* observations a summary, once when they are made and again whenever the  *)
(* stored rows are read (ProtocolAnalysisService).                         *)
(*                                                                         *)
(* A packet is a record of its layers; a layer that was not dissected, or  *)
(* a field a layer does not have, is Absent. A number in tshark's JSON is  *)
(* text: [base |-> 10, n |-> 34], [base |-> 16, n |-> 34] for 0x22, base 0 *)
(* for text that is no number. An SPI is its digits and the way they are   *)
(* written.                                                                *)
(***************************************************************************)
EXTENDS Reconstruction, TLC

When(condition, s) == IF condition THEN s ELSE <<>>

\* int(str(raw), 16) or int(str(raw)); fields inside payloads are only read in base 10.
Reads(raw, bases) == raw # Absent /\ raw.base \in bases
HeaderBases == {10, 16}
ReadNumber(raw, otherwise) == IF Reads(raw, HeaderBases) THEN raw.n ELSE otherwise

Named(table, id, unknown) ==
    IF id \in DOMAIN table THEN table[id] ELSE unknown \o ToString(id)

IKEV2_EXCHANGE_TYPES ==
    (34 :> "IKE_SA_INIT") @@ (35 :> "IKE_AUTH") @@ (36 :> "CREATE_CHILD_SA")
    @@ (37 :> "INFORMATIONAL") @@ (38 :> "IKE_SESSION_RESUME")

IKEV1_EXCHANGE_TYPES ==
    (2 :> "IDENTITY_PROTECTION") @@ (4 :> "AGGRESSIVE") @@ (5 :> "INFORMATIONAL")
    @@ (32 :> "QUICK_MODE") @@ (33 :> "NEW_GROUP_MODE")

TRANSFORM_TYPES == <<"ENCR", "PRF", "INTEG", "DH", "ESN">>

ENCR_TRANSFORMS ==
    <<"DES_IV64", "DES", "3DES", "RC5", "IDEA", "CAST", "BLOWFISH", "3IDEA", "DES_IV32">>
    @@ (11 :> "NULL") @@ (12 :> "AES-CBC") @@ (13 :> "AES-CTR") @@ (14 :> "AES-CCM-8")
    @@ (15 :> "AES-CCM-12") @@ (16 :> "AES-CCM-16") @@ (18 :> "AES-GCM-8")
    @@ (19 :> "AES-GCM-12") @@ (20 :> "AES-GCM-16") @@ (28 :> "CHACHA20_POLY1305")

PRF_TRANSFORMS ==
    <<"PRF_HMAC_MD5", "PRF_HMAC_SHA1", "PRF_HMAC_TIGER", "PRF_HMAC_SHA2_256",
      "PRF_HMAC_SHA2_256", "PRF_HMAC_SHA2_384", "PRF_HMAC_SHA2_512", "PRF_AES128_XCBC">>

INTEG_TRANSFORMS ==
    <<"AUTH_HMAC_MD5_96", "AUTH_HMAC_SHA1_96", "AUTH_DES_MAC", "AUTH_KPDK_MD5",
      "AUTH_AES_XCBC_96">>
    @@ (12 :> "AUTH_HMAC_SHA2_256_128") @@ (13 :> "AUTH_HMAC_SHA2_384_192")
    @@ (14 :> "AUTH_HMAC_SHA2_512_256")

DH_TRANSFORMS ==
    (1 :> "MODP-768 (DH1)") @@ (2 :> "MODP-1024 (DH2)") @@ (5 :> "MODP-1536 (DH5)")
    @@ (14 :> "MODP-2048 (DH14)") @@ (15 :> "MODP-3072 (DH15)") @@ (16 :> "MODP-4096 (DH16)")
    @@ (17 :> "MODP-6144 (DH17)") @@ (18 :> "MODP-8192 (DH18)") @@ (19 :> "ECP-256 (DH19)")
    @@ (20 :> "ECP-384 (DH20)") @@ (21 :> "ECP-521 (DH21)") @@ (31 :> "Curve25519 (DH31)")
    @@ (32 :> "Curve448 (DH32)")

\* Of the notify types only the one the reconstruction and the summary look for is
\* told from the others. The code has it at 16393.
NOTIFY_TYPES == 16393 :> "USE_TRANSPORT_MODE"

\* The name of a transform; the key length is part of an encryption's name.
normalize_transform(type, id, bits) ==
    LET algorithm == CASE type = "ENCR" -> Named(ENCR_TRANSFORMS, id, "UNKNOWN_ENCR_")
                  [] type = "PRF" -> Named(PRF_TRANSFORMS, id, "UNKNOWN_PRF_")
                  [] type = "INTEG" -> Named(INTEG_TRANSFORMS, id, "UNKNOWN_INTEG_")
                  [] type = "DH" -> Named(DH_TRANSFORMS, id, "UNKNOWN_DH_")
                  [] OTHER -> "UNKNOWN_TRANSFORM_" \o ToString(id)
    IN  IF type = "ENCR" /\ bits \notin {Absent, 0} THEN algorithm \o "-" \o ToString(bits) ELSE algorithm

(***************************************************************************)
(* Observations. `type' and `bits' are the transform type (the last part   *)
(* of the field's name) and the key length of a transform.                 *)
(***************************************************************************)
NormalizedObservation(protocol, field, value, id) ==
    [protocol |-> protocol, field |-> field, value |-> value, id |-> id,
     type |-> Absent, bits |-> Absent]

\* Only versions 1 and 2 are known; everything else is called IKEv2.
IkeVersion(ike) == IF ReadNumber(ike.version, 2) = 1 THEN "IKEv1" ELSE "IKEv2"

SpiObservation(version, field, raw) ==
    When(raw # Absent, <<NormalizedObservation(version, field, raw.digits, Absent)>>)

ExchangeName(version, raw) ==
    IF ~Reads(raw, HeaderBases) THEN "UNKNOWN_EXCHANGE"
    ELSE IF version = "IKEv2"
    THEN Named(IKEV2_EXCHANGE_TYPES, raw.n, "UNKNOWN_IKEV2_EXCHANGE_")
    ELSE Named(IKEV1_EXCHANGE_TYPES, raw.n, "UNKNOWN_IKEV1_EXCHANGE_")

ExchangeObservation(version, raw) ==
    When(raw # Absent, <<NormalizedObservation(version, "ike.exchange_type",
                                              ExchangeName(version, raw), ReadNumber(raw, Absent))>>)

\* A message id that is no number is taken for 0.
MessageIdObservation(version, raw) ==
    When(raw # Absent, <<NormalizedObservation(version, "ike.message_id",
                                              ToString(ReadNumber(raw, 0)), ReadNumber(raw, 0))>>)

RoleObservation(version, response) ==
    <<NormalizedObservation(version, "ike.role",
         IF response THEN "RESPONDER_RESPONSE" ELSE "INITIATOR_REQUEST", Absent)>>

KeyExchangeObservation(version, raw) ==
    When(Reads(raw, {10}),
         <<NormalizedObservation(version, "ike.ke.dh_group",
                                 Named(DH_TRANSFORMS, raw.n, "UNKNOWN_DH_"), raw.n)>>)

NotifyObservation(version, raw) ==
    When(Reads(raw, {10}),
         <<NormalizedObservation(version, "ike.notify.type",
                                 Named(NOTIFY_TYPES, raw.n, "NOTIFY_"), raw.n)>>)

\* The id of a transform comes from its encr, prf, integ or dh field (tf_field), a
\* key length only from the attributes of the first; unreadable, it is left out.
TransformObservation(version, node) ==
    LET type == Named(TRANSFORM_TYPES, node.tf_type.n, "UNKNOWN_TYPE_")
        bits == IF node.tf_field = "encr" /\ Reads(node.key_length, {10})
                THEN node.key_length.n ELSE Absent
    IN  When(Reads(node.tf_type, {10}) /\ Reads(node.tf_id, {10}),
             <<[NormalizedObservation(version, "ike.transform",
                                      normalize_transform(type, node.tf_id.n, bits), node.tf_id.n)
                EXCEPT !.type = type, !.bits = bits]>>)

\* Every dict below the layer is looked at, in the order they are met, whatever
\* payload or proposal it is in: ike.nodes is that sequence.
_extract_ike_payloads(version, nodes) ==
    FlattenSeq([k \in DOMAIN nodes |->
        KeyExchangeObservation(version, nodes[k].dh_group)
        \o NotifyObservation(version, nodes[k].notify)
        \o TransformObservation(version, nodes[k])])

parse_ike_layer(ike) ==
    LET version == IkeVersion(ike)
    IN  <<NormalizedObservation(version, "ike.version", version, Absent)>>
        \o SpiObservation(version, "ike.initiator_spi", ike.ispi)
        \o SpiObservation(version, "ike.responder_spi", ike.rspi)
        \o ExchangeObservation(version, ike.exchange)
        \o MessageIdObservation(version, ike.message_id)
        \o RoleObservation(version, ike.response)
        \o _extract_ike_payloads(version, ike.nodes)

\* The headers of ESP and AH. A sequence number that is no decimal is taken for 0.
SecurityHeader(protocol, prefix, raw) ==
    SpiObservation(protocol, prefix \o ".spi", raw.spi)
    \o When(raw.seq # Absent,
            LET seq == IF raw.seq.base = 10 THEN raw.seq.n ELSE 0
            IN  <<NormalizedObservation(protocol, prefix \o ".sequence", ToString(seq), seq)>>)

parse_esp_layer(esp, natt) ==
    SecurityHeader("ESP", "esp", esp)
    \o <<NormalizedObservation("ESP", "esp.encapsulation",
            IF natt THEN "UDP_ENCAPSULATED_ESP" ELSE "NATIVE_ESP", Absent)>>

parse_ah_layer(ah) ==
    SecurityHeader("AH", "ah", ah)
    \o When(ah.next # Absent, <<NormalizedObservation("AH", "ah.next_header", ah.next, Absent)>>)

\* A UDP datagram of port 4500, or one dissected as UDP encapsulation.
is_natt(p) == p.udp # Absent /\ (4500 \in {p.udp.srcport, p.udp.dstport} \/ p.udp.encap)

\* Mutant: a datagram recognised by its port only is not recorded.
parse_ip_layer_encap(p) ==
    When(p.ip # Absent, <<NormalizedObservation(p.ip, "ip.version", p.ip, Absent)>>)
    \o When(p.udp # Absent /\ p.udp.encap,
            <<NormalizedObservation("NAT-T", "natt.detected", "UDP_PORT_4500_ENCAPSULATION",
                                    Absent)>>)

parse_ip_layer(p) ==
    When(p.ip # Absent, <<NormalizedObservation(p.ip, "ip.version", p.ip, Absent)>>)
    \o When(is_natt(p),
            <<NormalizedObservation("NAT-T", "natt.detected", "UDP_PORT_4500_ENCAPSULATION",
                                    Absent)>>)

\* The observations of one packet: the body of the loop of _normalize_packets.
Observations(p) ==
    parse_ip_layer(p)
    \o When(p.isakmp # Absent, parse_ike_layer(p.isakmp))
    \o When(p.esp # Absent, parse_esp_layer(p.esp, is_natt(p)))
    \o When(p.ah # Absent, parse_ah_layer(p.ah))

(***************************************************************************)
(* The summary of an analysis                                              *)
(***************************************************************************)
\* The rows of a capture, by the number of the frame they were observed in.
Rows(observed) ==
    UNION {{[frame |-> n, obs |-> o] : o \in observed[n]} : n \in DOMAIN observed}

Counters(total, F) ==
    [total |-> total,
     ike |-> Cardinality(F.ike), ikev1 |-> Cardinality(F.ikev1), ikev2 |-> Cardinality(F.ikev2),
     esp |-> Cardinality(F.esp), ah |-> Cardinality(F.ah), natt |-> Cardinality(F.natt),
     ipsec |-> Cardinality(F.ike \cup F.esp \cup F.ah)]

\* _normalize_packets counts frames by the layers that were dissected.
_normalize_packets(packets) ==
    LET With(Layer(_)) == {n \in DOMAIN packets : Layer(packets[n])}
    IN  Counters(Len(packets),
          [ike |-> With(LAMBDA p : p.isakmp # Absent),
           ikev1 |-> With(LAMBDA p : p.isakmp # Absent /\ IkeVersion(p.isakmp) = "IKEv1"),
           ikev2 |-> With(LAMBDA p : p.isakmp # Absent /\ IkeVersion(p.isakmp) = "IKEv2"),
           esp |-> With(LAMBDA p : p.esp # Absent),
           ah |-> With(LAMBDA p : p.ah # Absent),
           natt |-> With(is_natt)])

\* get_protocol_summary counts frames by the protocol of their stored rows.
StoredCounters(rows) ==
    LET Of(protocols) == {r.frame : r \in {x \in rows : x.obs.protocol \in protocols}}
    IN  Counters(Cardinality({r.frame : r \in rows}),
          [ike |-> Of({"IKEv1", "IKEv2"}), ikev1 |-> Of({"IKEv1"}), ikev2 |-> Of({"IKEv2"}),
           esp |-> Of({"ESP"}), ah |-> Of({"AH"}), natt |-> Of({"NAT-T"})])

\* Crypto observations: the rows of transforms.
CryptoObservations(rows) ==
    {[frame |-> r.frame, transform_type |-> r.obs.type, transform_id |-> r.obs.id,
      transform_name |-> r.obs.value, key_length_bits |-> r.obs.bits] :
        r \in {x \in rows : x.obs.field = "ike.transform"}}

\* The fields of the summary that are counted or collected; left out are the total and
\* the list of transforms, of which a key length of 0 is read back as none.
_build_summary(rows, crypto, counters) ==
    LET Values(field) == {r.obs.value : r \in {x \in rows : x.obs.field = field}}
        Protocols(names) == {r.obs.protocol : r \in rows} \cap names
        Chosen(type) == {c.transform_name : c \in {x \in crypto : x.transform_type = type}}
        Evidence(S) == IF S = {} THEN "UNKNOWN" ELSE "VERIFIED"
    IN  [outcome |-> IF counters.ipsec > 0 THEN "IPSEC_OBSERVED" ELSE "NO_IPSEC_FOUND",
         packet_counts |-> counters,
         protocols_observed |-> Protocols({"IKEv1", "IKEv2", "ESP", "AH"}),
         ip_versions_observed |-> Protocols({"IPv4", "IPv6"}),
         ike_versions_observed |-> Values("ike.version"),
         observed_exchange_types |-> Values("ike.exchange_type"),
         observed_initiator_spis |-> Values("ike.initiator_spi"),
         observed_responder_spis |-> Values("ike.responder_spi") \ {"0"},
         transport_mode_notify_observed |-> "USE_TRANSPORT_MODE" \in Values("ike.notify.type"),
         observed_cipher_suites |-> Chosen("ENCR"),
         observed_dh_groups |-> Chosen("DH"),
         cipher_evidence |-> Evidence(Chosen("ENCR")),
         dh_evidence |-> Evidence(Chosen("DH")),
         exchange_evidence |-> Evidence(Values("ike.exchange_type")),
         natt_evidence |-> IF counters.natt > 0 THEN "VERIFIED"
                           ELSE IF counters.ike > 0 THEN "NOT_DETECTED" ELSE "NOT_OBSERVED"]

\* What execute_analysis returns, and what is returned ever after.
RunSummary(packets, rows) ==
    _build_summary(rows, CryptoObservations(rows), _normalize_packets(packets))

get_protocol_summary(rows) == _build_summary(rows, CryptoObservations(rows), StoredCounters(rows))

(***************************************************************************)
(* What the reconstruction reads back of a frame                           *)
(***************************************************************************)
FieldOf(obs, field, otherwise) ==
    LET k == SelectLastInSeq(obs, LAMBDA o : o.field = field)
    IN  IF k = 0 THEN otherwise ELSE obs[k]

IkeFrame(p, obs) ==
    LET nothing == NormalizedObservation(Absent, Absent, Absent, Absent)
        Transform(o) == o.field \in {"ike.transform", "ike.ke.dh_group"}
        TypeOf(o) == IF o.field = "ike.ke.dh_group" THEN "DH" ELSE o.type
        LastOf(t) == SelectLastInSeq(obs, LAMBDA o : Transform(o) /\ TypeOf(o) = t)
    IN  [proto |-> "IKE", time |-> p.time, src |-> p.src, dst |-> p.dst,
         version |-> IkeVersion(p.isakmp),
         ispi |-> FieldOf(obs, "ike.initiator_spi", nothing).value,
         rspi |-> FieldOf(obs, "ike.responder_spi", nothing).value \notin {Absent, "0"},
         exchange |-> FieldOf(obs, "ike.exchange_type", nothing).value,
         message_id |-> LET id == FieldOf(obs, "ike.message_id", nothing).id
                        IN  IF id = Absent THEN 0 ELSE id,
         natt |-> p.udp # Absent /\ 4500 \in {p.udp.srcport, p.udp.dstport},
         transport |-> \E k \in DOMAIN obs : /\ obs[k].field = "ike.notify.type"
                                             /\ obs[k].value = "USE_TRANSPORT_MODE",
         transforms |-> [t \in {TypeOf(o) : o \in {x \in ToSet(obs) : Transform(x)}} |->
                           obs[LastOf(t)].value]]

EspFrame(p, obs) ==
    LET nothing == NormalizedObservation(Absent, Absent, Absent, Absent)
    IN  [proto |-> "ESP", time |-> p.time, src |-> p.src, dst |-> p.dst,
         spi |-> FieldOf(obs, "esp.spi", nothing).value,
         seq |-> FieldOf(obs, "esp.sequence", nothing).id, natt |-> is_natt(p)]

\* The frame an analysis sees of a packet: the observations grouped by frame, in the
\* order they were written. ESP without an SPI is dropped.
FrameOf(p) ==
    LET obs == Observations(p)
    IN  IF p.isakmp # Absent THEN IkeFrame(p, obs)
        ELSE IF p.esp # Absent /\ p.esp.spi # Absent THEN EspFrame(p, obs)
        ELSE [proto |-> "OTHER", time |-> p.time]

=============================================================================
