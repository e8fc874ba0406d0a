----------------------- MODULE MCRemediationPlanning ------------------------
(***************************************************************************)
(* Captures: an empty one, a legacy gateway, a mixed one with a NULL data  *)
(* plane, and one with two IKE SAs of which the last is the better one.    *)
(* The rules are those of policies/rules.                                  *)
(***************************************************************************)
EXTENDS RemediationPlanning

CONSTANTS none, o1, o2

MCNumber == [n \in {56, 128, 192, 256} |-> n]
MCSubstring == {}

Rule(field, op, expected, severity, cause) ==
    [applicability |-> none, evidence_requirements |-> {field},
     assertion |-> [form |-> "leaf", op |-> op, field |-> field, expected |-> expected],
     severity |-> severity, root_cause_key |-> cause]

DES3 == <<Token("des", <<3>>)>>
DES == <<Token("des", <<>>)>>
CBC128 == <<Token("aes", <<>>), Token("cbc", <<>>), Token("", <<128>>)>>
GCM == <<Token("aes", <<>>), Token("gcm", <<>>)>>
NULL == <<Token("null", <<>>)>>
MD5 == <<Token("hmac", <<>>), Token("md", <<5>>)>>
SHA1 == <<Token("hmac", <<>>), Token("sha", <<1>>)>>
PRFSHA1 == <<PrfToken("", <<>>), Token("hmac", <<>>), Token("sha", <<1>>)>>

MCRules ==
    ("POL-NIST-001" :> Rule(FieldKey.ike_encryption, "not_in_set", {DES3, DES}, "CRITICAL",
                            "CIPHER_DEPRECATED_DES"))
    @@ ("POL-NIST-002" :> Rule(FieldKey.ike_key_length, "greater_or_equal", 128, "HIGH",
                               "KEY_LENGTH_INSUFFICIENT"))
    @@ ("POL-NIST-003" :> Rule(FieldKey.ike_integrity, "not_in_set",
                               {MD5, SHA1, <<Token("sha", <<1>>)>>, <<Token("md", <<5>>)>>},
                               "HIGH", "INTEGRITY_DEPRECATED_HASH"))
    @@ ("POL-NIST-004" :> Rule(FieldKey.ike_dh_group, "in_set", 14..21 \cup {31}, "HIGH",
                               "DH_GROUP_WEAK_LOGJAM"))
    @@ ("POL-NIST-005" :> Rule(FieldKey.ike_encryption, "not_in_set", {CBC128}, "MEDIUM",
                               "CIPHER_LEGACY_CBC_MODE"))
    @@ ("POL-PFS-001" :> Rule(FieldKey.child_pfs_status, "equals", "ENABLED", "MEDIUM",
                              "PFS_DISABLED"))
    @@ ("POL-REPLAY-001" :> Rule("esp_flow.sequence_monotonic", "equals", TRUE, "HIGH",
                                 "REPLAY_SEQUENCE_NON_MONOTONIC"))
    @@ ("POL-RFC-7296-01" :> Rule(FieldKey.ike_version, "equals", "IKEv2", "HIGH",
                                  "PROTOCOL_LEGACY_IKEV1"))
    @@ ("POL-RFC-8221-01" :> Rule(FieldKey.child_encryption, "not_in_set", {NULL}, "CRITICAL",
                                  "CIPHER_NULL_CLEARTEXT"))

Seen(field, value) == Verified(FieldKey[field], value)

Legacy ==
    Seen("ike_version", "IKEv1") \o Seen("ike_encryption", DES3) \o Seen("ike_integrity", SHA1)
    \o Seen("ike_dh_group", 2) \o Seen("child_encryption", GCM)
Mixed ==
    Seen("ike_version", "IKEv2") \o Seen("ike_encryption", DES) \o Seen("ike_key_length", 56)
    \o Seen("ike_prf", PRFSHA1) \o Seen("child_mode", "transport")
    \o Seen("child_encryption", NULL) \o Seen("child_pfs_status", "DISABLED")
    \o <<[key |-> FieldKey.ike_dh_group, value |-> none, evidence_state |-> "UNKNOWN"]>>
TwoSAs ==
    Seen("ike_version", "IKEv2") \o Seen("ike_encryption", DES3) \o Seen("ike_dh_group", 2)
    \o Seen("ike_encryption", CBC128) \o Seen("ike_key_length", 128)
    \o Seen("ike_prf", PRFSHA1) \o Seen("ike_dh_group", 5)
    \o Verified("esp_flow.sequence_monotonic", FALSE)
MCCaptures == {<<>>, Legacy, Mixed, TwoSAs}

\* A text whose child has no proposals and whose last brace is missing: the
\* connection is complete and takes the defaults of the parser.
MCTexts ==
    {<<Open("connections"), Open("conn"), Open("children"), Open("child"), Close, Close, Close>>}

MCUnobserved == {FieldKey.ike_encryption}

MCSymmetry == Permutations(Operators)

=============================================================================
