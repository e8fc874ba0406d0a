---------------------------- MODULE MCAssessment ----------------------------
(***************************************************************************)
(* A small instance of Assessment: two tunnels between a gateway A and the *)
(* peers B and C, one negotiating 3DES and one AES-GCM, and the rules of   *)
(* policies/rules they exercise, with two rules of an organisation.        *)
(***************************************************************************)
EXTENDS CaptureAnalysis

CONSTANT none

Dec(n) == [base |-> 10, n |-> n]
Hex(n) == [base |-> 16, n |-> n]
Text == [base |-> 0, n |-> 0]
Spi(digits) == [digits |-> digits, form |-> "plain"]

Node == [dh_group |-> none, notify |-> none, tf_type |-> none, tf_field |-> none,
         tf_id |-> none, key_length |-> none]
Encr(id, bits) == [Node EXCEPT !.tf_type = Dec(1), !.tf_field = "encr", !.tf_id = Dec(id),
                               !.key_length = bits]
Dh(id) == [Node EXCEPT !.tf_type = Dec(4), !.tf_field = "dh", !.tf_id = Dec(id)]
Ke(group) == [Node EXCEPT !.dh_group = group]
Notify(type) == [Node EXCEPT !.notify = type]

Packet(src, dst, time, udp) ==
    [time |-> time, ip |-> "IPv4", src |-> src, dst |-> dst, udp |-> udp,
     isakmp |-> none, esp |-> none, ah |-> none]

Udp(port) == [srcport |-> port, dstport |-> port, encap |-> FALSE]

Ike(ispi, rspi, exchange, id, src, dst, time, version, nodes) ==
    [Packet(src, dst, time, Udp(500)) EXCEPT
        !.isakmp = [version |-> version, ispi |-> Spi(ispi), rspi |-> Spi(rspi),
                    exchange |-> exchange, message_id |-> id, response |-> rspi # "0",
                    nodes |-> nodes]]

Esp(src, dst, spi, seq, time, udp) ==
    [Packet(src, dst, time, udp) EXCEPT
        !.esp = [spi |-> [digits |-> spi, form |-> "0x"], seq |-> Dec(seq)]]

Weak == <<Encr(3, none), Dh(2), Ke(Dec(2))>>
Strong == <<Encr(20, Dec(256)), Dh(19), Ke(Dec(19)), Notify(Dec(16388)), Notify(Hex(16393))>>

\* Two tunnels of the gateway A, in the second of which A makes another offer with a
\* message id that cannot be read, one IKEv1 packet, ESP with and without NAT
\* traversal, and ESP behind an authentication header.
MCPackets ==
    {Ike("a", "0", Dec(34), Dec(0), "A", "B", 0, Hex(2), Strong),
     Ike("a", "a1", Dec(34), Hex(0), "B", "A", 1, Dec(2), Weak),
     Ike("b", "0", Dec(34), Dec(0), "A", "C", 2, Text, Weak),
     Ike("b", "b1", Dec(34), Text, "C", "A", 3, Dec(2), Strong),
     Ike("b", "b1", Dec(36), Text, "A", "C", 4, Dec(2), Weak),
     Ike("b", "b1", Dec(36), Dec(2), "C", "A", 5, Dec(2), <<Dh(19), Ke(Text)>>),
     Ike("d", "0", Dec(4), Dec(0), "A", "B", 8, Dec(1), <<>>),
     Esp("A", "B", "s1", 1, 4, none), Esp("A", "B", "s1", 1, 24, none),
     Esp("B", "A", "s2", 1, 5, Udp(4500)),
     [Esp("B", "A", "s3", 1, 25, none) EXCEPT !.ah = [spi |-> Spi("h"), seq |-> Dec(1),
                                                      next |-> none]]}

MCFrames == {FrameOf(p) : p \in MCPackets}

Leaf(field, op, expected) ==
    [form |-> "leaf", field |-> field, op |-> op, expected |-> expected]

Rule(field, op, expected, severity, cause, threat) ==
    [evidence_requirements |-> {field}, applicability |-> none,
     assertion |-> Leaf(field, op, expected), severity |-> severity,
     root_cause_key |-> cause, threat |-> threat, names_64bit |-> threat = "THR-002"]

ENCR == <<"ike_sa", "encryption_algorithm">>
DHGROUP == <<"ike_sa", "diffie_hellman_group">>

\* An organisation's rules: a milder one with the root cause of POL-NIST-001, and
\* a compound one that applies to what was selected.
OrgLegacy == Rule(ENCR, "not_in_set", {"3DES"}, "MEDIUM", "CIPHER_DEPRECATED_DES", none)

OrgSuite ==
    [evidence_requirements |-> {ENCR},
     applicability |-> Leaf(<<"ike_sa", "selection_evidence_state">>, "equals", "VERIFIED"),
     assertion |-> [form |-> "all_of",
                    subs |-> {Leaf(ENCR, "in_set", {"AES-GCM-16-256"}),
                              Leaf(DHGROUP, "in_set", {"14", "19"})}],
     severity |-> "HIGH", root_cause_key |-> "ORG_SUITE", threat |-> none,
     names_64bit |-> FALSE]

MCBundle ==
    <<OrgLegacy,
      Rule(ENCR, "not_in_set", {"3DES", "DES"}, "CRITICAL", "CIPHER_DEPRECATED_DES", "THR-002"),
      Rule(DHGROUP, "in_set", {"14", "19"}, "HIGH", "DH_GROUP_WEAK_LOGJAM", "THR-001"),
      OrgSuite,
      Rule(<<"child_sa", "pfs_status">>, "equals", "ENABLED", "MEDIUM", "PFS_DISABLED", none),
      Rule(<<"esp_flow", "sequence_monotonic">>, "equals", "True", "HIGH",
           "REPLAY_SEQUENCE_NON_MONOTONIC", "THR-007"),
      Rule(<<"ike_session", "ike_version">>, "equals", "IKEv2", "HIGH",
           "PROTOCOL_LEGACY_IKEV1", "THR-003"),
      Rule(<<"child_sa", "encryption_algorithm">>, "not_in_set", {"NULL"}, "CRITICAL",
           "CIPHER_NULL_CLEARTEXT", "THR-008")>>

MCDhGroup == [g \in {"MODP-1024 (DH2)", "ECP-256 (DH19)"} |->
                 IF g = "ECP-256 (DH19)" THEN "19" ELSE "2"]
MCKeyBits == [e \in {"AES-GCM-16-256"} |-> "256"]
MCNumber == [v \in {} |-> 0]

=============================================================================
