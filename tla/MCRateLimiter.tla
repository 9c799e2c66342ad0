---------------------------- MODULE MCRateLimiter ----------------------------
(***************************************************************************)
(* Small limiters: more clients than the Map holds, a window that does not *)
(* refill in whole tokens, a clock that runs past one window.              *)
(***************************************************************************)
EXTENDS RateLimiter, TLC

CONSTANTS c1, c2, c3

OneClient == {c1}
ThreeClients == {c1, c2, c3}

Symmetry == Permutations({c1, c2, c3})
=============================================================================
