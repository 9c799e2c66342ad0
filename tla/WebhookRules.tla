---------------------------- MODULE WebhookRules ----------------------------
(***************************************************************************)
(* What processWebhook decides about one payload before it touches the    *)
(* database (src/services/webhook.service.ts): which payloads are refused, *)
(* which are ignored, and which row of "manifests" and which row of        *)
(* "soft_bindings" the remaining ones ask for.                             *)
(*                                                                         *)
(* A payload is the record of the tag values the decision reads.  A tag    *)
(* that is absent or empty is None; a value the decision only tests (the   *)
(* protocol name, the soft-binding algorithm) is reduced to that test.     *)
(***************************************************************************)
CONSTANTS
  TxIds,                  \* transaction ids
  ManifestIds,            \* C2PA-Manifest-ID values (URNs)
  HashValues,             \* C2PA-Soft-Binding-Value values
  EightByteValues,        \* those that base64-decode to exactly 8 bytes
  Urls,                   \* fetch and repository URLs
  SafeUrls,               \* those isSafeManifestUrl accepts
  Digests,                \* C2PA-Manifest-Store-Hash values
  ProofLocatorsEnabled,   \* config.ENABLE_PROOF_LOCATOR_ARTIFACTS
  None                    \* an absent value

ASSUME RulesAssumption ==
  /\ EightByteValues \subseteq HashValues
  /\ SafeUrls \subseteq Urls
  /\ ProofLocatorsEnabled \in BOOLEAN
  /\ None \notin TxIds \cup ManifestIds \cup HashValues \cup Urls \cup Digests

StorageModes == {"full", "manifest", "proof", "unknown"}
Kinds == {"manifest-store", "proof-locator"}

Payload ==
  [isObject    : BOOLEAN,                        \* FALSE: null in a batch
   txId        : TxIds \cup {None},
   protocol    : BOOLEAN,                        \* is it C2PA-Manifest-Proof?
   manifestId  : ManifestIds \cup {None},
   storageMode : StorageModes \cup {None},
   fetchUrl    : Urls \cup {None},
   repoUrl     : Urls \cup {None},
   storeHash   : Digests \cup {None},
   alg         : {"phash", "other", None},
   value       : HashValues \cup {None}]

\* One row of "manifests"; digest stands for manifest_digest_alg and
\* manifest_digest_b64, which are set together.
Row ==
  [txId       : TxIds,
   manifestId : ManifestIds,
   kind       : Kinds,
   fetchUrl   : SafeUrls \cup {None},
   repoUrl    : SafeUrls \cup {None},
   digest     : Digests \cup {None},
   phash      : EightByteValues]

Binding == [manifestId : ManifestIds, value : HashValues]

(***************************************************************************)
(* Decisions                                                               *)
(***************************************************************************)
ArtifactKind(p) ==
  IF p.storageMode \in {"full", "manifest"} THEN "manifest-store"
  ELSE IF p.storageMode = "proof" THEN "proof-locator"
  ELSE None

SanitizeUrl(u) == IF u \in SafeUrls THEN u ELSE None

\* Fault variant of IncompleteLocator: the store hash is not required.
LocatorWithoutUrl(p) ==
  /\ ArtifactKind(p) = "proof-locator"
  /\ ~ProofLocatorsEnabled \/ p.fetchUrl = None

IncompleteLocator(p) ==
  /\ ArtifactKind(p) = "proof-locator"
  /\ \/ ~ProofLocatorsEnabled
     \/ p.fetchUrl = None
     \/ p.storeHash = None

\* The early returns that answer action 'skipped' before the soft-binding
\* value is decoded.
NotIndexable(p) ==
  \/ ~p.protocol
  \/ p.manifestId = None
  \/ ArtifactKind(p) = None
  \/ IncompleteLocator(p)
  \/ p.alg = None \/ p.value = None
  \/ p.alg # "phash"

UnsafeLocator(p) ==
  /\ ArtifactKind(p) = "proof-locator"
  /\ SanitizeUrl(p.fetchUrl) = None

\* The action of processWebhook for a payload; "write" when it goes on to the
\* database.  The order of the tests is the order of the early returns.
Verdict(p) ==
  IF p.txId = None THEN "error"
  ELSE IF NotIndexable(p) THEN "skipped"
  ELSE IF p.value \notin EightByteValues THEN "error"
  ELSE IF UnsafeLocator(p) THEN "skipped"
  ELSE "write"

\* The record handed to insertManifestArtifactWithBindingsIfAbsent.
RowOf(p) ==
  [txId       |-> p.txId,
   manifestId |-> p.manifestId,
   kind       |-> ArtifactKind(p),
   fetchUrl   |-> SanitizeUrl(p.fetchUrl),
   repoUrl    |-> SanitizeUrl(p.repoUrl),
   digest     |-> p.storeHash,
   phash      |-> p.value]

\* The soft binding that belongs to a row: it carries the value the row's
\* pHash was decoded from.
BindingOf(r) == [manifestId |-> r.manifestId, value |-> r.phash]

\* Two rows that first-write-wins keeps apart: the same manifest_id or the
\* same manifest_tx_id.
Conflicts(r, s) == r.manifestId = s.manifestId \/ r.txId = s.txId
=============================================================================
