--------------------------------- MODULE Trust ---------------------------------
(* The parts of ify-security that keep or check content: secrets and redaction *)
(* (secrets.rs), signed artifacts (artifact_signing.rs) and the verification   *)
(* of components (supply_chain.rs).  All are used through &mut by one owner.   *)
(*                                                                             *)
(* Bytes are sequences; a signature is what the hash is taken of, key and      *)
(* content one after the other, as the hash is assumed not to collide.  A JSON *)
(* object is the function from its keys to its values: serde_json keeps one in *)
(* a BTreeMap, in which the keys have no other order than their own.           *)
EXTENDS Integers, SequencesExt

CONSTANTS
    SecretNames, Literals, Texts,  \* of secrets, redaction patterns and the texts redacted
    KeyIds, Keys,  \* keys of one length, which is not 0
    Payloads,      \* JSON objects that are signed
    Components,    \* [name, version, hash, key_id, made_with]; made_with: the key or, not signed, None
    MaxArtifacts, MaxPatterns,     \* bounds on what is done
    Marker,        \* REDACTED_MARKER; no literal contains any of it
    None

VARIABLES
    secrets, patterns,
    trusted_keys,  \* SupplyChainVerifier: by id
    sbom,          \* Sbom::components
    artifacts      \* the SignedArtifacts in the hands of clients; ghost: what was signed

vars == <<secrets, patterns, trusted_keys, sbom, artifacts>>

Init ==
    /\ secrets = {} /\ patterns = <<>>
    /\ trusted_keys = [k \in {} |-> None] /\ sbom = {} /\ artifacts = <<>>

-------------------------------------------------------------------------------
(* Secrets.                                                                    *)

RegisterSecret(name) ==
    /\ name \notin secrets
    /\ secrets' = secrets \cup {name}
    /\ UNCHANGED <<patterns, trusted_keys, sbom, artifacts>>

RemoveSecret(name) ==
    /\ name \in secrets
    /\ secrets' = secrets \ {name}
    /\ UNCHANGED <<patterns, trusted_keys, sbom, artifacts>>

AddPattern(literal) ==
    /\ Len(patterns) < MaxPatterns
    /\ patterns' = Append(patterns, literal)
    /\ UNCHANGED <<secrets, trusted_keys, sbom, artifacts>>

HasAt(text, literal, i) ==
    i + Len(literal) - 1 <= Len(text) /\ SubSeq(text, i, i + Len(literal) - 1) = literal

(* str::replace(): from the left, past each occurrence that is found.          *)
Replace(text, literal) ==
    LET from[i \in 1..Len(text) + Len(literal)] ==
            IF i > Len(text) THEN <<>>
            ELSE IF HasAt(text, literal, i) THEN <<Marker>> \o from[i + Len(literal)]
            ELSE <<text[i]>> \o from[i + 1]
    IN  from[1]


(* redact(): the patterns one after the other; an empty one replaces nothing.  *)
Redact(text) ==
    FoldLeft(LAMBDA out, literal : IF literal = <<>> THEN out ELSE Replace(out, literal), text, patterns)

(* redact_json() of an object: its strings, and not its keys.                  *)
RedactJson(object) == [k \in DOMAIN object |-> Redact(object[k])]

-------------------------------------------------------------------------------
(* Signatures.                                                                 *)

(* canonical_json_bytes(): the keys in their order, each with its value.       *)
CanonicalJson(payload) ==
    LET keys == SetToSortSeq(DOMAIN payload, <)
    IN  FlattenSeq([i \in DOMAIN keys |-> <<keys[i], payload[keys[i]]>>])

SignBytes(key, bytes) == key \o bytes

Sign(key, payload) ==
    /\ Len(artifacts) < MaxArtifacts
    /\ artifacts' = Append(artifacts, [payload |-> payload, value |-> SignBytes(key, CanonicalJson(payload)),
                                       signed |-> payload, by |-> key])
    /\ UNCHANGED <<secrets, patterns, trusted_keys, sbom>>

(* ArtifactVerifier::verify(); it does not look at the key's id.               *)
Verify(key, artifact) == SignBytes(key, CanonicalJson(artifact.payload)) = artifact.value

(* A client sends the artifact on with another payload, or with the first one. *)
Resend(i, payload) ==
    /\ artifacts' = [artifacts EXCEPT ![i].payload = payload]
    /\ UNCHANGED <<secrets, patterns, trusted_keys, sbom>>

(* add_trusted_key() replaces the key of an id that is known.                  *)
AddTrustedKey(id, key) ==
    /\ trusted_keys' = (id :> key) @@ trusted_keys
    /\ UNCHANGED <<secrets, patterns, sbom, artifacts>>

AddComponent(c) ==
    /\ ~\E d \in sbom : d.name = c.name /\ d.version = c.version
    /\ sbom' = sbom \cup {c}
    /\ UNCHANGED <<secrets, patterns, trusted_keys, artifacts>>

HasSignature(c) == c.made_with # None

(* SupplyChainVerifier::verify(): the key of an unknown id is empty.           *)
VerifyComponent(c) ==
    LET key == IF c.key_id \in DOMAIN trusted_keys THEN trusted_keys[c.key_id] ELSE <<>>
    IN  HasSignature(c) /\ SignBytes(key, c.hash) = SignBytes(c.made_with, c.hash)

(* verify_sbom(): the signed components that do not verify.                    *)
VerifySbom == {c \in sbom : HasSignature(c) /\ ~VerifyComponent(c)}

-------------------------------------------------------------------------------
SecretNext ==
    \/ \E n \in SecretNames : RegisterSecret(n) \/ RemoveSecret(n)
    \/ \E l \in Literals : AddPattern(l)

SigningNext ==
    \/ \E k \in Keys, p \in Payloads : Sign(k, p)
    \/ \E i \in DOMAIN artifacts, p \in Payloads : Resend(i, p)

SupplyNext ==
    \/ \E id \in KeyIds, k \in Keys : AddTrustedKey(id, k)
    \/ \E c \in Components : AddComponent(c)

Next == SecretNext \/ SigningNext \/ SupplyNext

Spec == Init /\ [][Next]_vars

-------------------------------------------------------------------------------
(* However artifacts travel, one verifies under a key exactly if it holds the  *)
(* object that was signed and was signed with that key.  After any replacement *)
(* of trusted keys, a signed component of a trusted id passes verify_sbom()    *)
(* exactly if it was signed with the key that the id has now; one of an id     *)
(* that is not trusted passes exactly if it was signed with the empty key,     *)
(* which verify() takes there.  Each name and version has one component.       *)
(* (artifact_signing.rs: sign(), verify(); supply_chain.rs: verify_sbom().)    *)
SignedVerifies ==
    /\ \A i \in DOMAIN artifacts, k \in Keys :
          Verify(k, artifacts[i])
          <=> artifacts[i].by = k /\ artifacts[i].payload = artifacts[i].signed
    /\ LET passing == {c \in sbom : HasSignature(c)} \ VerifySbom
           trusted == {c \in sbom : c.key_id \in DOMAIN trusted_keys}
       IN  passing = {c \in trusted : c.made_with = trusted_keys[c.key_id]}
                     \cup {c \in sbom \ trusted : c.made_with = <<>>}
    /\ \A c, d \in sbom : c.name = d.name /\ c.version = d.version => c = d

(* Whatever the order of the patterns and however they overlap, no string of a *)
(* redacted object contains any of them.  (redact() and redact_json().)        *)
RedactedHidesAll ==
    \A text \in Texts, i \in DOMAIN patterns :
        patterns[i] # <<>> =>
            LET out == RedactJson(1 :> text)[1] IN ~\E j \in DOMAIN out : HasAt(out, patterns[i], j)
================================================================================
