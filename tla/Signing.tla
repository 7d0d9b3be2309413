--------------------------------- MODULE Signing ---------------------------------
(***************************************************************************)
(* `aecctx sign`, `verify-signatures` and `verify-advanced-trust`: a       *)
(* package is signed in several calls, each appending to the bundle that   *)
(* the call before it wrote, and then the bundle is verified against a key *)
(* registry and a trust policy, or against certificate chains.  The        *)
(* package is read twice in a call, and may be replaced at any time.       *)
(*                                                                         *)
(* A content of the package is whether it validates, its form and its      *)
(* semantic manifest; a statement is its manifest.  A key is its secret; a *)
(* signature verifies if it was made with that secret over the statement.  *)
(* Instants are numbers; encodings and schemas are left out.               *)
(***************************************************************************)
EXTENDS Naturals, Sequences, FiniteSets, Functions

CONSTANTS
    SigningJobs,    \* what is signed, by whom, and how it is verified
    MaxSignatures,  \* SigningLimits.max_signatures
    MaxKeys,        \* SigningLimits.max_keys
    NoStatement     \* also: no bundle, no policy, no revocation, no end of a CRL

VARIABLES
    job, pc,
    content,    \* the package at its path now
    turn,       \* the index of the call: a signer, or the verification after the last one
    validated,  \* the content that validate_package saw in this call
    statement,  \* the statement that was built in this call
    bundle,     \* the bundle the last signing call wrote, NoStatement before the first
    history,    \* every content the path ever had in this call
    result,     \* the result of the verification
    changes,    \* how often the package was replaced
    outcome

(***************************************************************************)
(* What the parsers and their schemas let through: entries, signers and    *)
(* keys are lists and keys are ordered by name; a key has a revocation     *)
(* date exactly when it is revoked; no two signers of a policy have one    *)
(* name.                                                                   *)
(***************************************************************************)
IsSequence(s) == s \in Seq(Range(s))
IsNamed(items) == IsSequence(items) /\ \A i \in DOMAIN items : items[i].kid \in Nat
IsKey(k) ==
    /\ k.from \in Nat /\ k.until \in Nat
    /\ k.revocation = "revoked" <=> k.revokedAt # NoStatement
    /\ k.revokedAt # NoStatement => k.revokedAt \in Nat
IsTrustPolicy(policy) ==
    /\ IsSequence(policy.crls)
    /\ \A i \in DOMAIN policy.crls :
          policy.crls[i].last \in Nat /\ \A r \in policy.crls[i].revoked : r.date \in Nat
    /\ \A s \in policy.signers : s.chain.from \in Nat /\ s.chain.until \in Nat
    /\ \A s, t \in policy.signers : s.kid = t.kid => s = t
IsSigningJob(j) ==
    /\ j.mode \in {"basic", "advanced"}
    /\ IsNamed(j.signers) /\ IsNamed(j.keys) /\ \A i \in DOMAIN j.keys : IsKey(j.keys[i])
    /\ j.bundle # NoStatement => IsNamed(j.bundle)
    /\ j.policy # NoStatement => j.policy.time \in Nat /\ j.policy.minimum \in Nat
    /\ j.mode = "advanced" => j.policy # NoStatement /\ IsTrustPolicy(j.policy)

ledger == <<content, turn, validated, statement, bundle, history, result, changes>>
vars == <<job, pc, ledger, outcome>>

Signer == job.signers[turn]
Signing == turn <= Len(job.signers)

(***************************************************************************)
(* Parsing.  A bundle is a sequence of entries: the kid and the statement  *)
(* of the protected header, and what was signed with which secret.         *)
(***************************************************************************)
Kids(entries) == {entries[i].kid : i \in DOMAIN entries}
Duplicated(items) == Cardinality(Kids(items)) # Len(items)

BundleDefect(entries) ==
    CASE Len(entries) > MaxSignatures -> "INPUT_LIMIT_EXCEEDED"
      [] \E i \in DOMAIN entries : entries[i].algorithm # "Ed25519" -> "HEADER_INVALID"
      [] Duplicated(entries) -> "DUPLICATE_KID"
      [] \E i, j \in DOMAIN entries : i < j /\ entries[i].kid > entries[j].kid -> "BUNDLE_ORDER_INVALID"
      [] OTHER -> "none"

RegistryDefect(keys) ==
    LET revokedOutside(k) == k.revokedAt # NoStatement /\ (k.revokedAt < k.from \/ k.revokedAt >= k.until)
    IN  CASE Len(keys) > MaxKeys -> "INPUT_LIMIT_EXCEEDED"
          [] Duplicated(keys) -> "DUPLICATE_KID"
          [] \E i \in DOMAIN keys : keys[i].from >= keys[i].until \/ revokedOutside(keys[i]) -> "REGISTRY_INVALID"
          [] OTHER -> "none"

Entries == IF bundle = NoStatement THEN <<>> ELSE bundle
(* SignatureBundle orders its entries. *)
Ordered(entries) ==
    CHOOSE sorted \in [DOMAIN entries -> Range(entries)] :
        /\ Range(sorted) = Range(entries)
        /\ \A i, j \in DOMAIN entries : i < j => sorted[i].kid < sorted[j].kid

(***************************************************************************)
(* evaluate_key.                                                           *)
(***************************************************************************)
KeyStatusRevokedLate(key, instant) ==
    CASE instant < key.from -> "not_yet_valid"
      [] instant >= key.until -> "expired"
      [] instant >= key.from /\ instant < key.until /\ key.revocation = "revoked" ->
           IF instant > key.revokedAt THEN "revoked" ELSE "valid"
      [] instant >= key.from /\ instant < key.until /\ key.revocation = "unknown" -> "unknown_status"
      [] OTHER -> "valid"

KeyStatus(key, instant) ==
    CASE instant < key.from -> "not_yet_valid"
      [] instant >= key.until -> "expired"
      [] instant >= key.from /\ instant < key.until /\ key.revocation = "revoked" ->
           IF instant >= key.revokedAt THEN "revoked" ELSE "valid"
      [] instant >= key.from /\ instant < key.until /\ key.revocation = "unknown" -> "unknown_status"
      [] OTHER -> "valid"

KeyEvaluation(key, policy) ==
    LET status == KeyStatus(key, policy.time)
        selected == key.kid \in policy.kids \/ key.subject \in policy.subjects
        trusted == status = "valid" /\ selected
    IN  [key |-> status,
         trust |-> IF trusted THEN "trusted" ELSE "untrusted",
         authorization |-> IF trusted /\ policy.scopes \subseteq key.scopes THEN "authorized" ELSE "unauthorized"]
NotEvaluated == [key |-> "not_evaluated", trust |-> "not_evaluated", authorization |-> "not_evaluated"]

(***************************************************************************)
(* verify_package_signatures: one entry, and the verdict.                  *)
(***************************************************************************)
KeyOf(kid) == CHOOSE k \in Range(job.keys) : k.kid = kid
Verifies(entry, secret) == entry.secret = secret /\ entry.signed = statement

Verification(entry) ==
    LET evaluation == IF job.policy = NoStatement THEN NotEvaluated ELSE KeyEvaluation(KeyOf(entry.kid), job.policy)
        verified(crypto, e) == [kid |-> entry.kid, crypto |-> crypto, evaluation |-> e]
    IN  CASE entry.bound # statement -> verified("invalid", NotEvaluated)
          [] entry.bound = statement /\ entry.kid \notin Kids(job.keys) -> verified("unknown_key", NotEvaluated)
          [] OTHER -> verified(IF Verifies(entry, KeyOf(entry.kid).secret) THEN "valid" ELSE "invalid", evaluation)

AuthorizedEvaluation == [key |-> "valid", trust |-> "trusted", authorization |-> "authorized"]
Authorized(entries) ==
    {entries[i].kid : i \in {k \in DOMAIN entries : Verification(entries[k]).crypto = "valid"
                                                    /\ Verification(entries[k]).evaluation = AuthorizedEvaluation}}

Verified(entries) ==
    [counted |-> Authorized(entries),
     satisfied |-> job.policy # NoStatement /\ Cardinality(Authorized(entries)) >= job.policy.minimum]
Unsigned == [counted |-> {}, satisfied |-> FALSE]

(***************************************************************************)
(* evaluate_chain and evaluate_crls.                                       *)
(***************************************************************************)
Chain(chain, instant) ==
    LET alive == \A c \in chain.authorities : c.from <= instant /\ instant < c.until
    IN  [valid |-> chain.length \in 2..3 /\ chain.sound /\ alive,
         trusted |-> chain.root \in job.policy.roots,
         lifecycle |-> CASE instant < chain.from -> "not_yet_valid"
                         [] instant >= chain.until -> "expired"
                         [] OTHER -> "valid"]

Crls == job.policy.crls
Matching(chain) == {i \in DOMAIN Crls : Crls[i].issuer = chain.issuer /\ Crls[i].complete}
(* The latest list, and the first of them when several are from one instant. *)
IsLatest(i, chain) ==
    \A j \in Matching(chain) : Crls[j].last < Crls[i].last \/ (Crls[j].last = Crls[i].last /\ i <= j)
CrlStatus(chain, instant) ==
    LET crl == Crls[CHOOSE i \in Matching(chain) : IsLatest(i, chain)]
        revoked == {r \in crl.revoked : r.serial = chain.serial /\ r.date <= instant}
    IN  CASE Matching(chain) = {} -> "unknown_status"
          [] Matching(chain) # {} /\ (crl.next = NoStatement \/ instant < crl.last \/ instant >= crl.next) -> "unknown_status"
          [] OTHER -> IF revoked = {} THEN "good" ELSE "revoked"

(* evaluate_timestamp: the authority is judged at the time of the token. *)
TokenStatus(token) ==
    LET authority == CHOOSE a \in job.policy.authorities : a.kid = token.kid
        chain == Chain(authority.chain, token.time)
    IN  CASE token.kid \notin {a.kid : a \in job.policy.authorities} -> "untrusted"
          [] token.kid \in {a.kid : a \in job.policy.authorities}
             /\ \/ ~chain.valid \/ ~chain.trusted
                \/ authority.chain.subject \notin job.policy.stampers \/ authority.chain.serial # token.certificate
                \/ CrlStatus(authority.chain, token.time) # "good" -> "untrusted"
          [] OTHER -> IF token.target # statement \/ token.secret # authority.chain.secret THEN "invalid"
                      ELSE IF token.time >= job.policy.archivalBefore THEN "outside_policy" ELSE "valid"
Archived == \E token \in job.policy.timestamps : TokenStatus(token) = "valid"

(***************************************************************************)
(* evaluate_advanced_trust.                                                *)
(***************************************************************************)
ConfigOf(kid) == CHOOSE s \in job.policy.signers : s.kid = kid
Lifecycle(config) ==
    LET chain == Chain(config.chain, job.policy.time)
        status == CrlStatus(config.chain, job.policy.time)
    IN  IF chain.valid /\ chain.lifecycle = "valid" /\ status # "good" THEN status ELSE chain.lifecycle

TrustedEntry(entry) ==
    /\ entry.kid \in {s.kid : s \in job.policy.signers}
    /\ LET config == ConfigOf(entry.kid)
           chain == Chain(config.chain, job.policy.time)
       IN  /\ chain.valid /\ chain.trusted
           /\ entry.bound = statement /\ Verifies(entry, config.chain.secret)
           /\ Lifecycle(config) = "valid"
           /\ config.chain.subject \in job.policy.subjects
           /\ job.policy.scopes \subseteq config.scopes

(* _evaluate_countersignatures: an authority vouches for a signature of somebody else; it is reported and never counts. *)
Countersigned(entries) ==
    {c \in job.policy.countersignatures :
        /\ c.target \in Range(entries) /\ c.kid # c.target.kid
        /\ \E a \in job.policy.authorities :
              /\ a.kid = c.kid
              /\ Chain(a.chain, job.policy.time).valid /\ Chain(a.chain, job.policy.time).trusted
              /\ CrlStatus(a.chain, job.policy.time) = "good"
              /\ c.secret = a.chain.secret}

AdvancedVerified(entries) ==
    LET counted == {entries[i].kid : i \in {k \in DOMAIN entries : TrustedEntry(entries[k])}}
    IN  [counted |-> counted,
         countersigned |-> Countersigned(entries),
         satisfied |-> /\ Cardinality(counted) >= job.policy.minimum
                       /\ job.policy.archival => counted # {} /\ Archived]

Verdict(entries) == IF job.mode = "basic" THEN Verified(entries) ELSE AdvancedVerified(entries)

(***************************************************************************)
(* The calls.                                                              *)
(***************************************************************************)
Init ==
    /\ job \in SigningJobs
    /\ pc = "open"
    /\ content = job.content /\ bundle = job.bundle
    /\ turn = 1
    /\ validated = NoStatement /\ statement = NoStatement /\ result = NoStatement
    /\ history = {job.content}
    /\ changes = 0
    /\ outcome = "running"

(* A signing call that fails writes nothing: the next one appends to the same bundle. *)
NextCall == turn' = turn + 1 /\ pc' = "open" /\ history' = {content}
Fail(code) ==
    IF Signing THEN NextCall /\ UNCHANGED outcome
    ELSE pc' = "done" /\ outcome' = code /\ UNCHANGED <<turn, history>>

AppendDefect ==
    CASE bundle = NoStatement -> "none"
      [] bundle # NoStatement /\ BundleDefect(bundle) # "none" -> BundleDefect(bundle)
      [] OTHER -> IF Signer.kid \in Kids(bundle) THEN "DUPLICATE_KID"
                  ELSE IF Len(bundle) >= MaxSignatures THEN "INPUT_LIMIT_EXCEEDED" ELSE "none"

VerifyDefect ==
    CASE job.mode = "basic" /\ RegistryDefect(job.keys) # "none" -> RegistryDefect(job.keys)
      [] OTHER -> IF bundle = NoStatement THEN "none" ELSE BundleDefect(bundle)

Open ==
    /\ pc = "open"
    /\ LET defect == IF Signing THEN AppendDefect ELSE VerifyDefect
       IN  IF defect = "none" THEN pc' = "validate" /\ UNCHANGED <<turn, history, outcome>> ELSE Fail(defect)
    /\ UNCHANGED <<job, content, validated, statement, bundle, result, changes>>

(* build_signing_statement: the package is validated, and its manifest read again. *)
Validate ==
    /\ pc = "validate"
    /\ validated' = content
    /\ IF content.valid THEN pc' = "manifest" /\ UNCHANGED <<turn, history, outcome>> ELSE Fail("PACKAGE_INVALID")
    /\ UNCHANGED <<job, content, statement, bundle, result, changes>>

ReadManifest ==
    /\ pc = "manifest"
    /\ statement' = content.manifest
    /\ pc' = IF Signing THEN "sign" ELSE "verify"
    /\ UNCHANGED <<job, content, turn, validated, bundle, history, result, changes, outcome>>

Sign ==
    /\ pc = "sign"
    /\ LET entry == [kid |-> Signer.kid, algorithm |-> "Ed25519", bound |-> statement,
                     secret |-> Signer.secret, signed |-> statement]
       IN  bundle' = Ordered(Append(Entries, entry))
    /\ NextCall
    /\ UNCHANGED <<job, content, validated, statement, result, changes, outcome>>

Verify ==
    /\ pc = "verify"
    /\ result' = IF bundle = NoStatement THEN Unsigned ELSE Verdict(bundle)
    /\ pc' = "done" /\ outcome' = "verified"
    /\ UNCHANGED <<job, content, turn, validated, statement, bundle, history, changes>>

Replace(new) ==
    /\ pc # "done" /\ changes < job.changes
    /\ new # content
    /\ content' = new
    /\ history' = history \cup {new}
    /\ changes' = changes + 1
    /\ UNCHANGED <<job, pc, turn, validated, statement, bundle, result, outcome>>

Next == Open \/ Validate \/ ReadManifest \/ Sign \/ Verify \/ \E new \in job.variants : Replace(new)

Spec == Init /\ [][Next]_vars

----------------------------------------------------------------------------
Concluded == outcome = "verified"

Secrets == {Entries[i].secret : i \in DOMAIN Entries}
(* Who signed what: in this behaviour or in the bundle it started with. *)
SignedBy(kid, secret, over) ==
    \E i \in DOMAIN Entries :
        Entries[i].kid = kid /\ Entries[i].secret = secret /\ Entries[i].bound = over /\ Entries[i].signed = over

(***************************************************************************)
(* A verdict is about the package as it was while it was verified.  The    *)
(* signatures that count were made over one manifest, and the path held    *)
(* that manifest during the verifying call, in a content that validates    *)
(* unless the package was replaced meanwhile; a signature over an earlier  *)
(* revision never counts, however many signers there are, and one over     *)
(* this manifest with an authorised key does, in whichever form it was     *)
(* signed.                                                                 *)
(***************************************************************************)
VerdictIsAboutThisPackage ==
    Concluded =>
        /\ \E c \in history : c.manifest = statement
        /\ Cardinality(history) = 1 => \A c \in history : c.valid
        /\ \A kid \in result.counted : \E secret \in Secrets : SignedBy(kid, secret, statement)
        /\ job.mode = "basic" /\ job.policy # NoStatement =>
             \A k \in Range(job.keys) :
                /\ KeyEvaluation(k, job.policy) = AuthorizedEvaluation
                /\ SignedBy(k.kid, k.secret, statement)
                => k.kid \in result.counted

(***************************************************************************)
(* A counted signer could sign then: its key or certificate was valid at   *)
(* the time of the policy, and revoked at no instant up to it; the         *)
(* threshold is met by as many distinct signers; a countersignature is by  *)
(* somebody else, over a signature of the bundle, unless the policy gives  *)
(* one key two names; and a signature appended by anyone else never        *)
(* unmakes a verdict.                                                      *)
(***************************************************************************)
KeysAreNamedOnce ==
    \A s \in job.policy.signers, a \in job.policy.authorities : s.chain.secret = a.chain.secret => s.kid = a.kid

CountedCouldSign ==
    Concluded /\ bundle # NoStatement =>
        /\ result.satisfied => Cardinality(result.counted) >= job.policy.minimum
        /\ job.mode = "basic" =>
             \A k \in Range(job.keys) : k.kid \in result.counted =>
                /\ k.from <= job.policy.time /\ job.policy.time < k.until
                /\ k.revokedAt # NoStatement => job.policy.time < k.revokedAt
                /\ k.revocation # "unknown"
        /\ job.mode = "advanced" =>
             \A s \in job.policy.signers : s.kid \in result.counted =>
                /\ s.chain.from <= job.policy.time /\ job.policy.time < s.chain.until
                /\ \A i \in Matching(s.chain) : IsLatest(i, s.chain) =>
                     \A r \in Crls[i].revoked : r.serial = s.chain.serial => r.date > job.policy.time
        /\ job.mode = "advanced" =>
             \A c \in result.countersigned :
                /\ \E i \in DOMAIN bundle : bundle[i] = c.target
                /\ KeysAreNamedOnce => \A s \in job.policy.signers : s.kid = c.target.kid => s.chain.secret # c.secret
        /\ \A n \in 0..Len(bundle) :
            Verdict(SubSeq(bundle, 1, n)).satisfied => result.satisfied

(* What one call signs the next one reads: only a bundle from elsewhere is ever refused. *)
BundlesStayReadable ==
    bundle # NoStatement /\ (job.bundle = NoStatement \/ BundleDefect(job.bundle) = "none") =>
        BundleDefect(bundle) = "none"

=============================================================================
