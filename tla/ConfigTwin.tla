----------------------------- MODULE ConfigTwin -----------------------------
(***************************************************************************)
(* The pure part of backend/app/remediation: the intermediate              *)
(* representation of a strongSwan configuration, its renderer and parser,  *)
(* the eight remediation templates, the projection of a proposal and the   *)
(* comparison of the evidence after a run.                                 *)
(*                                                                         *)
(* An algorithm name is the sequence of its tokens between '-' and '_'; a  *)
(* token keeps what the code looks at: its letters, the numbers in it and  *)
(* whether it starts with "prf". Case never matters to the code. Block     *)
(* names, addresses, identities, lifetimes and wording are left out.       *)
(***************************************************************************)
EXTENDS PolicyLogic, Sequences, SequencesExt, FiniteSets

CONSTANT Rules      \* the active bundle: rule_id -> rule

Token(word, nums) == [word |-> word, nums |-> nums, prf |-> FALSE]
PrfToken(word, nums) == [word |-> word, nums |-> nums, prf |-> TRUE]

AES256GCM16 == <<Token("aesgcm", <<256, 16>>)>>
AES256 == <<Token("aes", <<256>>)>>
SHA256 == <<Token("sha", <<256>>)>>
PRFSHA256 == <<PrfToken("sha", <<256>>)>>
AEAD == <<Token("aead", <<>>), Token("integrated", <<>>)>>
UnknownName == <<Token("unknown", <<>>)>>

Has(name, words) == \E t \in Range(name) : t.word \in words
NamesBits(name, bits) == \E t \in Range(name) : bits \in Range(t.nums)
NamesLength(name) == \E bits \in {128, 192, 256} : NamesBits(name, bits)
IsAEAD(name) == Has(name, {"gcm", "aesgcm", "chacha"})

\* Python's "a or b" for a value that may be None.
Or(a, b) == IF a = None THEN b ELSE a

(***************************************************************************)
(* ir.py                                                                   *)
(***************************************************************************)
TransformIR(enc, bits, integ, prf, dh) ==
    [encryption |-> enc, key_length |-> bits, integrity |-> integ, prf |-> prf,
     dh_group |-> dh]

ChildSAConfigurationIR(mode, esp, pfs, window) ==
    [mode |-> mode, esp_proposals |-> esp, pfs_dh_group |-> pfs, replay_window |-> window]

ConnectionConfigurationIR(version, ike, encap, children) ==
    [ike_version |-> version, ike_proposals |-> ike, encap |-> encap, children |-> children]

ConfigurationIR(conns, secrets, format) ==
    [connections |-> conns, secrets |-> secrets, raw_syntax_format |-> format]

\* The names of the Diffie-Hellman groups.
GroupName(dh) ==
    LET named == (1 :> <<"modp", 768>>) @@ (2 :> <<"modp", 1024>>) @@ (5 :> <<"modp", 1536>>)
              @@ (14 :> <<"modp", 2048>>) @@ (15 :> <<"modp", 3072>>) @@ (16 :> <<"modp", 4096>>)
              @@ (17 :> <<"modp", 6144>>) @@ (18 :> <<"modp", 8192>>) @@ (19 :> <<"ecp", 256>>)
              @@ (20 :> <<"ecp", 384>>) @@ (21 :> <<"ecp", 521>>) @@ (31 :> <<"curve", 25519>>)
        n == IF dh \in DOMAIN named THEN named[dh] ELSE <<"modp", dh>>
    IN  Token(n[1], <<n[2]>>)

\* A key length that the name lacks is written behind the name.
EncryptionPart(t) ==
    LET enc == t.encryption
    IN  IF t.key_length = None \/ NamesLength(enc) THEN enc
        ELSE IF Has(enc, {"gcm", "aesgcm"}) THEN <<Token("aesgcm", <<t.key_length, 16>>)>>
        ELSE [enc EXCEPT ![Len(enc)].nums = Append(@, t.key_length)]

IntegrityPart(t) ==
    IF t.integrity = None \/ IsAEAD(t.encryption) \/ t.integrity = AEAD THEN <<>>
    ELSE SelectSeq(t.integrity, LAMBDA tok : tok.word \notin {"hmac", "auth"})

PrfPart(t, is_ike) ==
    IF ~is_ike \/ t.prf = None THEN <<>>
    ELSE LET rest == SelectSeq(t.prf, LAMBDA tok : tok.word # "")
         IN  [rest EXCEPT ![1].prf = TRUE]

GroupPart(t) == IF t.dh_group = None THEN <<>> ELSE <<GroupName(t.dh_group)>>

\* Mutant: the group is written in front of the pseudo-random function.
StringGroupFirst(t, is_ike) ==
    EncryptionPart(t) \o IntegrityPart(t) \o GroupPart(t) \o PrfPart(t, is_ike)

to_strongswan_string(t, is_ike) ==
    EncryptionPart(t) \o IntegrityPart(t) \o PrfPart(t, is_ike) \o GroupPart(t)

(***************************************************************************)
(* renderer.py: a configuration text is a sequence of lines.               *)
(***************************************************************************)
Open(name) == [line |-> "open", name |-> name]
Close == [line |-> "close"]
Assign(key, value) == [line |-> "assign", key |-> key, value |-> value]
Comment(text) == [line |-> "comment", text |-> text]

Strings(proposals, is_ike) ==
    [i \in DOMAIN proposals |-> to_strongswan_string(proposals[i], is_ike)]

RenderChild(ch) ==
    <<Open("child"), Assign("mode", ch.mode)>>
    \o (IF ch.esp_proposals = <<>> THEN <<>>
        ELSE <<Assign("esp_proposals", Strings(ch.esp_proposals, FALSE))>>)
    \o <<Assign("replay_window", ch.replay_window), Close>>

_render_connection(c) ==
    <<Open("conn"), Assign("version", c.ike_version)>>
    \o (IF c.ike_proposals = <<>> THEN <<>>
        ELSE <<Assign("proposals", Strings(c.ike_proposals, TRUE))>>)
    \o <<Assign("encap", c.encap), Open("local"), Close, Open("remote"), Close, Open("children")>>
    \o FlattenSeq([i \in DOMAIN c.children |-> RenderChild(c.children[i])])
    \o <<Close, Close>>

render(ir) ==
    <<Comment(ir.raw_syntax_format), Open("connections")>>
    \o FlattenSeq([i \in DOMAIN ir.connections |-> _render_connection(ir.connections[i])])
    \o <<Close, Open("secrets")>>
    \o FlattenSeq([i \in 1..ir.secrets |-> <<Open("psk"), Close>>])
    \o <<Close>>

(***************************************************************************)
(* parser.py                                                               *)
(***************************************************************************)
\* The exact names of dh_map; x25519 is read like curve25519.
NamedGroup(tok) ==
    {g \in {1, 2, 5, 14, 15, 16, 17, 18, 19, 20, 21, 31} :
        tok.word = GroupName(g).word /\ tok.nums = GroupName(g).nums}

\* Otherwise the first number of the token decides: sha1 is group 1, md5 is 5.
parse_dh_group_string(tok) ==
    IF tok.prf = FALSE /\ NamedGroup(tok) # {} THEN CHOOSE g \in NamedGroup(tok) : TRUE
    ELSE IF tok.nums = <<>> THEN None
    ELSE LET val == tok.nums[1]
             sizes == (2048 :> 14) @@ (1024 :> 2) @@ (1536 :> 5) @@ (3072 :> 15) @@ (4096 :> 16)
             curves == (256 :> 19) @@ (384 :> 20) @@ (521 :> 21)
         IN  IF val \in {1, 2, 5} \cup 14..21 \cup {31} THEN val
             ELSE IF val \in DOMAIN sizes THEN sizes[val]
             ELSE IF val \in DOMAIN curves /\ tok.word = "ecp" THEN curves[val]
             ELSE None

\* The first length of the loop that the name holds.
KeyLength(enc) ==
    IF NamesBits(enc, 256) THEN 256
    ELSE IF NamesBits(enc, 192) THEN 192
    ELSE IF NamesBits(enc, 128) THEN 128 ELSE None

\* One token behind the cipher: a group, else a PRF, else a hash, else nothing.
ReadToken(t, tok) ==
    LET dh == parse_dh_group_string(tok)
    IN  IF dh # None THEN [t EXCEPT !.dh_group = dh]
        ELSE IF tok.prf THEN [t EXCEPT !.prf = <<tok>>]
        ELSE IF tok.word \in {"sha", "md", "aesxcbc"} THEN [t EXCEPT !.integrity = <<tok>>]
        ELSE t

\* What is read of the cipher's token and of the others.
ReadTransforms(enc, rest) ==
    TransformIR(enc, KeyLength(enc), rest.integrity, rest.prf, rest.dh_group)

parse_single_proposal_string(str) ==
    ReadTransforms(<<str[1]>>,
        FoldLeft(ReadToken, [integrity |-> None, prf |-> None, dh_group |-> None], Tail(str)))

parse_proposals_list(strs) ==
    [i \in DOMAIN strs |-> parse_single_proposal_string(strs[i])]

\* A dict with one key, and dict.update.
Entry(key, value) == [k \in {key} |-> value]
Updated(dict, new) == [k \in DOMAIN dict \cup DOMAIN new |->
                          IF k \in DOMAIN new THEN new[k] ELSE dict[k]]

Get(dict, key, default) == IF key \in DOMAIN dict THEN dict[key] ELSE default

ParsedConnection(dict, children) ==
    ConnectionConfigurationIR(
        Get(dict, "version", 2), parse_proposals_list(Get(dict, "proposals", <<AES256GCM16>>)),
        Get(dict, "encap", FALSE), children)

\* The group of the first ESP proposal that has one is the PFS group.
ParsedChild(dict) ==
    LET esp == parse_proposals_list(Get(dict, "esp_proposals", <<AES256GCM16>>))
        withGroup == {i \in DOMAIN esp : esp[i].dh_group # None}
    IN  ChildSAConfigurationIR(
            Get(dict, "mode", "tunnel"), esp,
            IF withGroup = {} THEN None ELSE esp[Min(withGroup)].dh_group,
            Get(dict, "replay_window", 64))

InChild(stack) == Len(stack) = 4 /\ stack[3] = "children"

OpenBlock(p, name) ==
    LET q == [p EXCEPT !.stack = Append(@, name)]
    IN  IF name = "connections" THEN [q EXCEPT !.in_connections = TRUE]
        ELSE IF name = "secrets" THEN [q EXCEPT !.in_secrets = TRUE]
        ELSE IF p.in_connections /\ Len(q.stack) = 2
             THEN [q EXCEPT !.conn = <<>>, !.children = <<>>]
        ELSE IF p.in_connections /\ InChild(q.stack) THEN [q EXCEPT !.child = <<>>]
        ELSE q

\* What a closing brace completes depends on how deep it leaves the stack.
CloseBlock(p) ==
    IF p.stack = <<>> THEN p
    ELSE LET closing == Last(p.stack)
             q == [p EXCEPT !.stack = Front(@)]
         IN  IF closing = "connections" THEN [q EXCEPT !.in_connections = FALSE]
             ELSE IF closing = "secrets" THEN [q EXCEPT !.in_secrets = FALSE]
             ELSE IF p.in_connections /\ Len(q.stack) = 1
                  THEN [q EXCEPT !.connections = Append(@, ParsedConnection(p.conn, p.children))]
             ELSE IF p.in_connections /\ InChild(p.stack)
                  THEN [q EXCEPT !.children = Append(@, ParsedChild(p.child))]
             ELSE IF p.in_secrets /\ Len(q.stack) = 1 THEN [q EXCEPT !.secrets = @ + 1]
             ELSE q

\* Keys of the local and remote blocks are identities, which are left out.
AssignKey(p, key, value) ==
    IF ~p.in_connections THEN p
    ELSE IF Len(p.stack) >= 4 /\ p.stack[3] = "children"
         THEN [p EXCEPT !.child = Updated(@, Entry(key, value))]
    ELSE IF Len(p.stack) >= 3 /\ p.stack[3] \in {"local", "remote"} THEN p
    ELSE [p EXCEPT !.conn = Updated(@, Entry(key, value))]

ReadLine(p, l) ==
    IF l.line = "open" THEN OpenBlock(p, l.name)
    ELSE IF l.line = "close" THEN CloseBlock(p)
    ELSE IF l.line = "assign" THEN AssignKey(p, l.key, l.value)
    ELSE p

\* A block that is never closed is never added.
parse_text(text) ==
    LET p == FoldLeft(ReadLine,
                 [stack |-> <<>>, in_connections |-> FALSE, in_secrets |-> FALSE,
                  conn |-> <<>>, children |-> <<>>, child |-> <<>>,
                  connections |-> <<>>, secrets |-> 0], text)
    IN  ConfigurationIR(p.connections, p.secrets, "SWANCTL")

=============================================================================
