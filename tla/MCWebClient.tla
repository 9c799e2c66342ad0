----------------------------- MODULE MCWebClient -----------------------------
(***************************************************************************)
(* Hashes of two bits, a threshold of one, an index that grows to two      *)
(* manifests, one more than a list holds, and two searches or lookups.     *)
(***************************************************************************)
EXTENDS WebClient

CONSTANTS m1, m2

MCManifests == {m1, m2}
MCBits == 1..2
MCSearches == 1..2
MCVisits == 1..2
=============================================================================
