------------------------------ MODULE SigningCalls ------------------------------
(* The signing and verification calls that are model-checked. *)
EXTENDS Naturals, Sequences, FiniteSets
CONSTANT NoStatement

Content(valid, form, manifest) == [valid |-> valid, form |-> form, manifest |-> manifest]
First == Content(TRUE, "directory", "m1")
Repacked == Content(TRUE, "aeccz", "m1")
Revised == Content(TRUE, "directory", "m2")
Damaged == Content(FALSE, "directory", "m2")

Key(kid, subject, scopes) ==
    [kid |-> kid, secret |-> kid, subject |-> subject, from |-> 1, until |-> 4, revocation |-> "good",
     revokedAt |-> NoStatement, scopes |-> scopes]
Keys == <<Key(1, "alice", {"release"}), Key(2, "bob", {"release", "review"})>>
Policy == [time |-> 2, kids |-> {2}, subjects |-> {"alice"}, scopes |-> {"release"}, minimum |-> 2]
Signers == <<[kid |-> 1, secret |-> 1], [kid |-> 2, secret |-> 2]>>

Basic(signers, keys, policy) ==
    [mode |-> "basic", signers |-> signers, keys |-> keys, policy |-> policy, content |-> First,
     bundle |-> NoStatement, changes |-> 0, variants |-> {}]

Entry(kid, statement) ==
    [kid |-> kid, algorithm |-> "Ed25519", bound |-> statement, secret |-> kid, signed |-> statement]

(* The package is revised, repacked or damaged between and in the calls. *)
Replacing ==
    {[Basic(s, Keys, [Policy EXCEPT !.minimum = n]) EXCEPT !.changes = 2, !.variants = {First, Repacked, Revised, Damaged}] :
        s \in {Signers, <<Signers[2], Signers[1]>>, <<Signers[1], Signers[1]>>, <<Signers[1]>>}, n \in 1..2}

(* Keys of every status, policies of every strictness. *)
KeyVariants ==
    {[Key(1, "alice", sc) EXCEPT !.from = f, !.until = u, !.revocation = r, !.revokedAt = IF r = "revoked" THEN at ELSE NoStatement] :
        sc \in {{}, {"release"}}, f \in {1, 3}, u \in {2, 3, 4}, r \in {"good", "revoked", "unknown"}, at \in 1..3}
Statuses ==
    {Basic(Signers, <<k, Keys[2]>>, [Policy EXCEPT !.kids = t, !.subjects = s]) :
        k \in KeyVariants, t \in SUBSET {1, 2}, s \in {{}, {"alice"}}}
Refused ==
    {Basic(Signers, <<Keys[1], Keys[1]>>, Policy), Basic(<<>>, Keys, Policy), Basic(<<>>, Keys, NoStatement),
     Basic(Signers, Keys, NoStatement), Basic(<<Signers[1], [kid |-> 2, secret |-> 3]>>, Keys, Policy), Basic(Signers, <<Keys[1]>>, Policy),
     Basic(Signers, <<Keys[1], Keys[2], Key(3, "carol", {}), Key(4, "dora", {})>>, Policy)}
    \cup {[Basic(Signers, Keys, Policy) EXCEPT !.bundle = b] :
            b \in {<<Entry(3, "m1")>>, <<Entry(1, "m2")>>, <<Entry(2, "m1"), Entry(1, "m1")>>, <<Entry(1, "m1"), Entry(1, "m2")>>,
                   <<Entry(3, "m1"), Entry(4, "m1"), Entry(5, "m1"), Entry(6, "m1")>>,
                   <<Entry(3, "m1"), Entry(4, "m1"), Entry(5, "m1")>>, <<[Entry(3, "m1") EXCEPT !.algorithm = "none"]>>,
                   <<[Entry(1, "m1") EXCEPT !.signed = "m2"]>>}}

(* Certificate chains, revocation lists and timestamps. *)
ChainOf(kid, subject) ==
    [length |-> 2, sound |-> TRUE, authorities |-> {[from |-> 0, until |-> 9]}, from |-> 1, until |-> 4, root |-> "root",
     issuer |-> "ca", serial |-> kid, subject |-> subject, secret |-> kid]
SignerOf(kid, subject) == [kid |-> kid, chain |-> ChainOf(kid, subject), scopes |-> {"release"}]
Crl(last, next, revoked) == [issuer |-> "ca", complete |-> TRUE, last |-> last, next |-> next, revoked |-> revoked]
Token(time) == [kid |-> 9, time |-> time, target |-> "m1", secret |-> 9, certificate |-> 9]
AdvancedPolicy ==
    [time |-> 2, roots |-> {"root"}, crls |-> <<Crl(0, 9, {})>>, signers |-> {SignerOf(1, "alice"), SignerOf(2, "bob")},
     subjects |-> {"alice", "bob"}, scopes |-> {"release"}, minimum |-> 2, archival |-> FALSE, archivalBefore |-> 3,
     authorities |-> {SignerOf(9, "tsa")}, stampers |-> {"tsa"}, timestamps |-> {},
     countersignatures |-> {}]
Advanced(policy) == [Basic(Signers, <<>>, policy) EXCEPT !.mode = "advanced"]

Chains ==
    {Advanced([AdvancedPolicy EXCEPT !.signers = {[SignerOf(1, "alice") EXCEPT !.chain = c], SignerOf(2, "bob")}, !.minimum = n]) :
        n \in 1..2,
        c \in {[ChainOf(1, s) EXCEPT !.length = l, !.sound = ok, !.from = f, !.until = u, !.root = r] :
                 s \in {"alice", "mallory"}, l \in {1, 2}, ok \in BOOLEAN, f \in {1, 3}, u \in {2, 4}, r \in {"root", "other"}}}
Revocations ==
    LET lists ==
            {[Crl(1, n, {[serial |-> s, date |-> d]}) EXCEPT !.complete = ok] :
                n \in {NoStatement, 2, 9}, s \in {1, 3}, d \in 1..3, ok \in BOOLEAN}
        tied == {<<Crl(1, 9, {}), c>> : c \in lists} \cup {<<c, Crl(1, 9, {})>> : c \in lists}
    IN  {Advanced([AdvancedPolicy EXCEPT !.crls = l, !.time = t]) :
            t \in 1..3, l \in {<<Crl(0, 9, {}), c>> : c \in lists} \cup tied}
Timestamps ==
    {Advanced([AdvancedPolicy EXCEPT !.archival = TRUE, !.timestamps = ts, !.archivalBefore = b]) :
        b \in {2, 5}, ts \in {{}, {Token(2)}, {Token(1), Token(3)}, {[Token(2) EXCEPT !.target = "m2"]}, {[Token(2) EXCEPT !.kid = 8]},
                             {[Token(2) EXCEPT !.secret = 8]}, {Token(5)}, {[Token(2) EXCEPT !.certificate = 7]}}}
    \cup {Advanced([AdvancedPolicy EXCEPT !.archival = TRUE, !.timestamps = {Token(2)}, !.stampers = {}])}
Countersigning ==
    {Advanced([AdvancedPolicy EXCEPT !.authorities = a, !.countersignatures = {[kid |-> k, target |-> Entry(t, m), secret |-> k]}]) :
        a \in {{SignerOf(9, "tsa")}, {SignerOf(1, "alice"), SignerOf(9, "tsa")}, {[SignerOf(9, "tsa") EXCEPT !.chain.secret = 1]}}, k \in {1, 9}, t \in {1, 2, 3}, m \in {"m1", "m2"}}
AdvancedReplacing == {[Advanced(AdvancedPolicy) EXCEPT !.changes = 1, !.variants = {Repacked, Revised}]}

Jobs == Replacing \cup Statuses \cup Refused \cup Chains \cup Revocations \cup Timestamps \cup Countersigning \cup AdvancedReplacing
=============================================================================
