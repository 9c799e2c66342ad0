---------------------------- MODULE MCConversions ----------------------------
(***************************************************************************)
(* Components of two bytes, keys of the curve and of a wider one; hashes   *)
(* of eight bits, all of them, against three; up to three tags.             *)
(***************************************************************************)
EXTENDS Conversions

MCKeyBytes == {2, 3}
MCSamples == {0, 1, 128}
MCFillers == {0, 2, 3, 129}
MCOthers == {{}, 1..8, {1, 4, 6}}
MCCharacters == {"0", "1", "a", "F", "x", "g", " "}
=============================================================================
