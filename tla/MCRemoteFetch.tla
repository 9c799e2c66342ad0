---------------------------- MODULE MCRemoteFetch ----------------------------
(***************************************************************************)
(* Two allowed URLs, a name over https and an address, that can redirect   *)
(* to each other for ever, and one the policy refuses, as http is by       *)
(* default.                                                                *)
(***************************************************************************)
EXTENDS RemoteFetch, TLC

CONSTANTS u1, u2, refused

MCUrls == {u1, u2, refused}
MCAllowedUrls == {u1, u2}
MCHostOf == (u1 :> "https") @@ (u2 :> "address") @@ (refused :> "http")
=============================================================================
