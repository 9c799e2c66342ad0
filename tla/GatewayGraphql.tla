--------------------------- MODULE GatewayGraphql ---------------------------
(***************************************************************************)
(* What src/services/gateway-graphql.service.ts makes of the transactions  *)
(* a gateway's GraphQL index reports.                                      *)
(*                                                                         *)
(* A node of an answer is a transaction id and the height of its block     *)
(* (-1 while it has none: toSortableHeight).  The tags of a transaction    *)
(* never change, so they are the function Tags; ids are numbers, in the    *)
(* order localeCompare gives them.                                         *)
(***************************************************************************)
EXTENDS Integers, Sequences, SequencesExt, FiniteSetsExt

CONSTANTS
  TxIds,        \* a set of numbers
  Heights,      \* -1 and block heights
  ManifestIds,
  Locations,    \* fetch and repository URLs
  Digests,      \* C2PA-Manifest-Store-Hash values
  None

ASSUME GatewayAssumption ==
  /\ TxIds \subseteq Nat
  /\ Heights \subseteq Int
  /\ None \notin TxIds \cup ManifestIds \cup Locations \cup Digests
  /\ None \notin {"manifest-store", "proof-locator"}

Node == [id : TxIds, height : Heights]

\* The tags getTagValueByNames reads; kind is what resolveArtifactKind makes of
\* C2PA-Storage-Mode, and the fetch URL is also the remote manifest URL.
Tagged ==
  [manifestId : ManifestIds \cup {None},
   repoUrl    : Locations \cup {None},
   fetchUrl   : Locations \cup {None},
   kind       : {"manifest-store", "proof-locator", None},
   digest     : Digests \cup {None}]

\* The elements of a finite set, each after all that are less: the n-th is greater
\* than n - 1 others.
InOrder(S, less) ==
  [n \in 1..Cardinality(S) |->
     CHOOSE x \in S : Cardinality({y \in S : <<y, x>> \in less}) = n - 1]

Ascending(S) == {ij \in S \X S : ij[1] < ij[2]}

\* The places whose key no earlier one has, in order, and what a sequence as long as
\* keys has there.
FirstIndices(keys) ==
  LET kept == {i \in DOMAIN keys : \A j \in 1..(i - 1) : keys[j] # keys[i]}
  IN InOrder(kept, Ascending(kept))

FirstOccurrences(s, keys) ==
  LET at == FirstIndices(keys) IN [n \in DOMAIN at |-> s[at[n]]]

\* Fault variant of Before: oldest first.
BeforeOldest(m, n) == m.height < n.height \/ (m.height = n.height /\ m.id < n.id)

Before(m, n) == m.height > n.height \/ (m.height = n.height /\ m.id < n.id)

\* One node per transaction, the highest it was reported at.
Dedupe(nodes) ==
  {n \in ToSet(nodes) : \A m \in ToSet(nodes) : m.id = n.id => m.height <= n.height}

\* Latest block first.
LatestFirst(S) == InOrder(S, {mn \in S \X S : Before(mn[1], mn[2])})

Latest(nodes) ==
  CHOOSE n \in Dedupe(nodes) : \A m \in Dedupe(nodes) : m = n \/ Before(n, m)

\* lookupBySoftBinding: transactions that name a manifest, at most maxResults,
\* those that say the same of the same manifest once.
LookupBySoftBinding(nodes, tags, maxResults) ==
  LET named == LatestFirst({n \in Dedupe(nodes) : tags[n.id].manifestId # None})
      taken == SubSeq(named, 1, Min({Len(named), maxResults}))
      found == [i \in DOMAIN taken |-> tags[taken[i].id]]
  IN FirstOccurrences(found, found)

\* lookupManifestLocatorById: what the latest transaction says.
LookupLocator(nodes, tags) ==
  IF nodes = <<>> THEN [found |-> FALSE]
  ELSE LET latest == Latest(nodes)
           t      == tags[latest.id]
       IN [found |-> TRUE, txId |-> latest.id, kind |-> t.kind,
           repoUrl |-> t.repoUrl, fetchUrl |-> t.fetchUrl,
           remoteUrl |-> t.fetchUrl, digest |-> t.digest]
=============================================================================
