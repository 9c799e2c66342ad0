---------------------------- MODULE ManifestIndex ----------------------------
(***************************************************************************)
(* What the index of manifests promises, without connections, statements   *)
(* or requests: an artifact and its soft binding enter together or not at  *)
(* all, only when no record has its manifest id or its transaction id, and *)
(* nothing that entered is ever changed or removed (the first-write-wins    *)
(* policy of src/db/index.ts).                                             *)
(***************************************************************************)
EXTENDS WebhookRules

VARIABLES manifests, softBindings

indexVars == <<manifests, softBindings>>

IndexInit ==
  /\ manifests = {}
  /\ softBindings = {}

\* The first artifact with this manifest id and this transaction id.
InsertIfAbsent(r) ==
  /\ \A s \in manifests : ~Conflicts(r, s)
  /\ manifests' = manifests \cup {r}
  /\ softBindings' = softBindings \cup {BindingOf(r)}

IndexNext == \E r \in Row : InsertIfAbsent(r)

IndexSpec == IndexInit /\ [][IndexNext]_indexVars
=============================================================================
