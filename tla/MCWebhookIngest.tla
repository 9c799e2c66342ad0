--------------------------- MODULE MCWebhookIngest ---------------------------
(***************************************************************************)
(* Small instances of WebhookIngest: payloads that agree on a manifest id  *)
(* or a transaction id, every way to be refused, single and batch requests. *)
(***************************************************************************)
EXTENDS WebhookIngest

CONSTANTS t1, t2, m1, m2, v1, v2, badValue, safeUrl, unsafeUrl, d1, h1, h2

MCTxIds == {t1, t2}
MCManifestIds == {m1, m2}
MCHashValues == {v1, v2, badValue}
MCEightByteValues == {v1, v2}
MCUrls == {safeUrl, unsafeUrl}
MCSafeUrls == {safeUrl}
MCDigests == {d1}

\* A complete manifest-store payload; the others differ from it.
Store(t, m, v) ==
  [isObject |-> TRUE, txId |-> t, protocol |-> TRUE, manifestId |-> m,
   storageMode |-> "manifest", fetchUrl |-> None, repoUrl |-> unsafeUrl,
   storeHash |-> None, alg |-> "phash", value |-> v]

Locator(t, m, v) ==
  [Store(t, m, v) EXCEPT !.storageMode = "proof", !.fetchUrl = safeUrl,
                         !.storeHash = d1]

Good == Store(t1, m1, v1)
SameId == Locator(t2, m1, v2)
SameTx == Store(t1, m2, v2)
Null == [Good EXCEPT !.isObject = FALSE]
NoTx == [Good EXCEPT !.txId = None]
BadValue == [Good EXCEPT !.value = badValue]
NoHash == [SameId EXCEPT !.storeHash = None]
Unsafe == [SameId EXCEPT !.fetchUrl = unsafeUrl]

Single(p) == [batch |-> FALSE, payloads |-> <<p>>]
Batch(s) == [batch |-> TRUE, payloads |-> s]

\* Three payloads of which any two conflict or share nothing, alone, and
\* batches that go wrong in the middle.
SafetyDeliveries ==
  {Single(Good), Single(SameId), Single(NoHash),
   Batch(<<BadValue, SameTx>>), Batch(<<SameId, Null, SameTx>>)}

\* Every payload the rules tell apart, one at a time.
RuleDeliveries ==
  {Single(p) : p \in {Good, SameId, SameTx, Null, NoTx, BadValue, NoHash,
                      Unsafe}}
  \cup {Batch(<<>>), Batch(<<SameTx, NoTx>>)}

TwoHandlers == {h1, h2}
=============================================================================
