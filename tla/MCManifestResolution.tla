------------------------ MODULE MCManifestResolution ------------------------
(***************************************************************************)
(* Two transactions on chain and any row the webhook rules let through:    *)
(* fetch URLs a and b, repository a, one digest.                           *)
(***************************************************************************)
EXTENDS ManifestResolution

CONSTANTS id, a, b, d, v

MCTxIds == 1..2
MCHeights == {-1, 7}
MCManifestIds == {id}
MCUrls == {a, b}
MCSafeUrls == {a}
MCDigests == {d}
MCValues == {v}
MCChainTags ==
  {t \in Tagged : t.manifestId = id /\ t.repoUrl \in {None, a} /\ t.fetchUrl \in {None, b}}
=============================================================================
