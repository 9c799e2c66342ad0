-------------------------- MODULE MCServerLifecycle --------------------------
(***************************************************************************)
(* Databases of every release with up to three rows, four events.          *)
(***************************************************************************)
EXTENDS ServerLifecycle

MCRowIds == 1..3
=============================================================================
