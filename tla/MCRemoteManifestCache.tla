------------------------ MODULE MCRemoteManifestCache ------------------------
(***************************************************************************)
(* Four locators: two that differ only in the digest, one of an algorithm   *)
(* the service does not know; bodies of different sizes, one larger than    *)
(* the cache, one larger than a fetch may be, one empty.                    *)
(***************************************************************************)
EXTENDS RemoteManifestCache

CONSTANTS h1, h2

MCHandlers == {h1, h2}
MCBodies == {"small", "medium", "whole", "huge", "empty"}
MCSize == [b \in MCBodies |-> CASE b = "small"  -> 1
                               [] b = "medium" -> 2
                               [] b = "whole"  -> 4
                               [] b = "huge"   -> 5
                               [] b = "empty"  -> 0]
MCHash == [b \in MCBodies |-> IF b = "huge" THEN "small" ELSE b]

Locator(id, alg, digest) ==
  [manifestId |-> id, url |-> "url", alg |-> alg, digest |-> digest]

MCLocators ==
  {Locator("m1", "sha256", "small"), Locator("m1", "sha256", "medium"),
   Locator("m2", "sha256", "medium"), Locator("m3", "sha512", "whole"),
   Locator("m3", "md5", "small")}
=============================================================================
