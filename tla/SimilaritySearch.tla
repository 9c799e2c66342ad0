-------------------------- MODULE SimilaritySearch --------------------------
(***************************************************************************)
(* Similarity search over perceptual hashes: searchSimilarByPHash          *)
(* (src/db/index.ts) behind searchSimilar and searchBySoftBinding          *)
(* (src/services/search.service.ts).  A hash is the set of its one bits;   *)
(* the squared L2 distance of two 0/1 vectors, which the SQL computes, is  *)
(* the number of bits in which they differ.                                *)
(***************************************************************************)
EXTENDS Naturals, FiniteSetsExt

CONSTANTS
  Bits,         \* the 64 positions of a pHash
  Manifests

ASSUME SearchAssumption == IsFiniteSet(Bits) /\ IsFiniteSet(Manifests)

Hashes == SUBSET Bits

\* '0000000000000000'
Zero == {}

Distance(p, q) == Cardinality((p \ q) \cup (q \ p))

Within(p, q, threshold) == Distance(p, q) <= threshold

\* One item of an answer.
Item(m, d) == [manifest |-> m, distance |-> d]

\* ORDER BY hamming_distance LIMIT n over the rows within the threshold: any n of
\* them such that none that is left out is nearer; ties fall as they may.
Answers(index, hashOf, p, threshold, limit) ==
  LET near    == {m \in index : Within(hashOf[m], p, threshold)}
      d(m)    == Distance(hashOf[m], p)
      size    == Min({limit, Cardinality(near)})
      nearest == {S \in SUBSET near :
                    /\ Cardinality(S) = size
                    /\ \A m \in S, o \in near \ S : d(m) <= d(o)}
  IN {{Item(m, d(m)) : m \in S} : S \in nearest}

Found(items) == {i.manifest : i \in items}
=============================================================================
