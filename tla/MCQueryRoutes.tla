---------------------------- MODULE MCQueryRoutes ----------------------------
(***************************************************************************)
(* Three transactions, each pending or in block 7, about two manifests;    *)
(* hashes of two bits and a threshold of one; two allowed URLs, over https *)
(* and http, that can redirect to each other for ever, and one the policy  *)
(* refuses.                                                                *)
(***************************************************************************)
EXTENDS QueryRoutes, TLC

CONSTANTS m1, m2, repo, u1, u2, refused

MCTxIds == 1..3
MCHeights == {-1, 7}
MCManifestIds == {m1, m2}
MCLocations == {repo}
MCDigests == {}
MCBits == 1..2
MCHintValues == {{1}}
MCUrls == {u1, u2, refused}
MCAllowedUrls == {u1, u2}
MCHostOf == (u1 :> "https") @@ (u2 :> "http") @@ (refused :> "address")
=============================================================================
