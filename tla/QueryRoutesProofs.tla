-------------------------- MODULE QueryRoutesProofs --------------------------
(***************************************************************************)
(* The routes that look things up in the index, for every gateway, remote, *)
(* table and policy and all limits: the order the answers of the gateway   *)
(* are put in, the fetch of a reference, the lookup of a binding and the   *)
(* search.                                                                 *)
(***************************************************************************)
EXTENDS QueryRoutes, SequenceTheorems, FiniteSetTheorems, TLAPS

(***************************************************************************)
(* Order                                                                   *)
(***************************************************************************)
TotalOrder(S, less) ==
  /\ \A x \in S : <<x, x>> \notin less
  /\ \A x, y, z \in S : <<x, y>> \in less /\ <<y, z>> \in less => <<x, z>> \in less
  /\ \A x, y \in S : x = y \/ <<x, y>> \in less \/ <<y, x>> \in less

\* A finite set in order is all of it, each element once.
LEMMA InOrderEnumerates ==
  ASSUME NEW S, IsFiniteSet(S), NEW less, TotalOrder(S, less),
         NEW s, s = InOrder(S, less)
  PROVE  /\ Cardinality(S) \in Nat
         /\ s \in [1..Cardinality(S) -> S]
         /\ \A x \in S : \E n \in 1..Cardinality(S) : s[n] = x
         /\ \A n, k \in 1..Cardinality(S) : n < k => <<s[n], s[k]>> \in less
<1> DEFINE Below(x) == {y \in S : <<y, x>> \in less}
           size == Cardinality(S)
           rank == [x \in S |-> Cardinality(Below(x))]
<1>1. size \in Nat
  BY FS_CardinalityType
<1>2. \A x \in S : /\ IsFiniteSet(Below(x)) /\ rank[x] \in Nat /\ rank[x] < size
  <2> SUFFICES ASSUME NEW x \in S
               PROVE  IsFiniteSet(Below(x)) /\ rank[x] \in Nat /\ rank[x] < size
    OBVIOUS
  <2>1. Below(x) \in SUBSET S /\ x \notin Below(x)
    BY DEF TotalOrder
  <2>2. rank[x] = Cardinality(Below(x))
    OBVIOUS
  <2> HIDE DEF Below, rank
  <2>3. IsFiniteSet(Below(x)) /\ rank[x] <= size /\ (size = rank[x] => S = Below(x))
    BY <2>1, <2>2, FS_Subset
  <2>4. rank[x] \in Nat
    BY <2>2, <2>3, FS_CardinalityType
  <2> QED BY <1>1, <2>1, <2>3, <2>4
<1>3. \A x, y \in S : <<x, y>> \in less => rank[x] < rank[y]
  <2> SUFFICES ASSUME NEW x \in S, NEW y \in S, <<x, y>> \in less
               PROVE  rank[x] < rank[y]
    OBVIOUS
  <2>1. Below(x) \in SUBSET Below(y) /\ x \in Below(y) /\ x \notin Below(x)
    BY DEF TotalOrder
  <2>2. rank[x] = Cardinality(Below(x)) /\ rank[y] = Cardinality(Below(y))
    OBVIOUS
  <2>3. IsFiniteSet(Below(y)) /\ rank[x] \in Nat /\ rank[y] \in Nat
    BY <1>2
  <2> HIDE DEF Below, rank
  <2>4. rank[x] <= rank[y] /\ (rank[y] = rank[x] => Below(y) = Below(x))
    BY <2>1, <2>2, <2>3, FS_Subset
  <2> QED BY <2>1, <2>3, <2>4
<1>4. rank \in [S -> 0..(size - 1)]
  BY <1>1, <1>2
<1> HIDE DEF rank, size, Below
<1>5. \A x, y \in S : rank[x] = rank[y] => x = y
  <2> SUFFICES ASSUME NEW x \in S, NEW y \in S, rank[x] = rank[y] PROVE x = y
    OBVIOUS
  <2>1. rank[x] \in Nat /\ <<x, y>> \notin less /\ <<y, x>> \notin less
    BY <1>2, <1>3
  <2> QED BY <2>1 DEF TotalOrder
<1>6. rank \in Surjection(S, 0..(size - 1))
  <2>1. rank \in Injection(S, 0..(size - 1))
    BY <1>4, <1>5 DEF Injection, IsInjective
  <2>2. IsFiniteSet(0..(size - 1)) /\ Cardinality(0..(size - 1)) = size
    BY <1>1, FS_Interval
  <2>3. Cardinality(S) = size
    BY DEF size
  <2> QED BY <2>1, <2>2, <2>3, FS_Injection
<1>7. \A n \in 1..size : s[n] \in S /\ rank[s[n]] = n - 1
  <2> SUFFICES ASSUME NEW n \in 1..size PROVE s[n] \in S /\ rank[s[n]] = n - 1
    OBVIOUS
  <2>1. \E x \in S : rank[x] = n - 1
    BY <1>1, <1>6 DEF Surjection
  <2>2. s[n] = CHOOSE x \in S : Cardinality(Below(x)) = n - 1
    BY DEF InOrder, Below, size
  <2>3. \A x \in S : rank[x] = Cardinality(Below(x))
    BY DEF rank
  <2> QED BY <2>1, <2>2, <2>3
<1>8. s \in [1..size -> S]
  BY <1>7 DEF InOrder, size
<1>9. \A x \in S : \E n \in 1..size : s[n] = x
  <2> SUFFICES ASSUME NEW x \in S PROVE \E n \in 1..size : s[n] = x
    OBVIOUS
  <2> DEFINE n == rank[x] + 1
  <2>1. rank[x] \in Nat /\ rank[x] < size
    BY <1>2
  <2>2. n \in 1..size /\ n - 1 = rank[x]
    BY <1>1, <2>1
  <2> HIDE DEF n
  <2>3. s[n] \in S /\ rank[s[n]] = rank[x]
    BY <1>7, <2>2
  <2> QED BY <1>5, <2>2, <2>3
<1>10. \A n, k \in 1..size : n < k => <<s[n], s[k]>> \in less
  <2> SUFFICES ASSUME NEW n \in 1..size, NEW k \in 1..size, n < k
               PROVE  <<s[n], s[k]>> \in less
    OBVIOUS
  <2>1. s[n] \in S /\ s[k] \in S /\ rank[s[n]] = n - 1 /\ rank[s[k]] = k - 1
    BY <1>7
  <2>2. s[n] # s[k] /\ <<s[k], s[n]>> \notin less
    BY <1>1, <1>3, <2>1
  <2> QED BY <2>1, <2>2 DEF TotalOrder
<1> QED BY <1>1, <1>8, <1>9, <1>10 DEF size

\* Numbers are in order from the least to the greatest.
LEMMA NumbersInOrder ==
  ASSUME NEW n \in Nat, NEW S \in SUBSET (1..n),
         NEW s, s = InOrder(S, Ascending(S))
  PROVE  /\ Cardinality(S) \in 0..n
         /\ s \in [1..Cardinality(S) -> S]
         /\ \A x \in S : \E i \in 1..Cardinality(S) : s[i] = x
         /\ \A i, j \in 1..Cardinality(S) : i < j => s[i] < s[j]
<1> DEFINE less == Ascending(S)
<1>1. IsFiniteSet(S) /\ Cardinality(S) <= n
  <2>1. IsFiniteSet(1..n) /\ Cardinality(1..n) = n
    BY FS_Interval
  <2> QED BY <2>1, FS_Subset
<1>2. \A x, y \in S : <<x, y>> \in less <=> x < y
  BY DEF Ascending
<1>3. s = InOrder(S, less)
  OBVIOUS
<1> HIDE DEF less
<1>4. TotalOrder(S, less)
  BY <1>2 DEF TotalOrder
<1>5. /\ Cardinality(S) \in Nat
      /\ s \in [1..Cardinality(S) -> S]
      /\ \A x \in S : \E i \in 1..Cardinality(S) : s[i] = x
      /\ \A i, j \in 1..Cardinality(S) : i < j => <<s[i], s[j]>> \in less
  BY <1>1, <1>3, <1>4, InOrderEnumerates
<1>6. \A i, j \in 1..Cardinality(S) : i < j => s[i] < s[j]
  BY <1>2, <1>5
<1> QED BY <1>1, <1>5, <1>6

\* Some number of a set of them is the least.
LEMMA LeastExists ==
  ASSUME NEW n \in Nat, NEW S \in SUBSET (1..n), S # {}
  PROVE  \E x \in S : \A y \in S : x <= y
<1>0. PICK s : s = InOrder(S, Ascending(S))
  OBVIOUS
<1> DEFINE size == Cardinality(S)
<1>a. S \in SUBSET (1..n) /\ n \in Nat
  OBVIOUS
<1>1. /\ size \in 0..n /\ s \in [1..size -> S]
      /\ \A x \in S : \E i \in 1..size : s[i] = x
      /\ \A i, j \in 1..size : i < j => s[i] < s[j]
  <2>1. size \in 0..n
    BY <1>0, <1>a, NumbersInOrder
  <2>2. s \in [1..size -> S]
    BY <1>0, <1>a, NumbersInOrder
  <2>3. \A x \in S : \E i \in 1..size : s[i] = x
    BY <1>0, <1>a, NumbersInOrder
  <2>4. \A i, j \in 1..size : i < j => s[i] < s[j]
    BY <1>0, <1>a, NumbersInOrder
  <2> QED BY <2>1, <2>2, <2>3, <2>4
<1> HIDE DEF size
<1>2. 1 \in 1..size /\ s[1] \in S /\ s[1] \in Int
  <2>1. PICK x \in S : TRUE
    OBVIOUS
  <2>2. PICK i \in 1..size : s[i] = x
    BY <1>1, <2>1
  <2>3. 1 \in 1..size
    BY <1>1, <2>2
  <2>4. s[1] \in S
    BY <1>1, <2>3
  <2>5. \A y \in S : y \in Int
    OBVIOUS
  <2> QED BY <2>3, <2>4, <2>5
<1>3. \A y \in S : s[1] <= y
  <2> SUFFICES ASSUME NEW y \in S PROVE s[1] <= y
    OBVIOUS
  <2>1. PICK i \in 1..size : s[i] = y
    BY <1>1
  <2>2. CASE i = 1
    BY <1>2, <2>1, <2>2
  <2>3. CASE i # 1
    <3>1. s[1] < s[i]
      BY <1>1, <1>2, <2>3
    <3>2. y \in Int
      OBVIOUS
    <3> QED BY <1>2, <2>1, <3>1, <3>2
  <2> QED BY <2>2, <2>3
<1> QED BY <1>2, <1>3

\* For every key the first of the n places that have it, in the order of the places.
Firsts(n, keys, k, at) ==
  /\ k \in 0..n /\ at \in [1..k -> 1..n]
  /\ \A i, j \in 1..k : i < j => at[i] < at[j]
  /\ \A i \in 1..k, p \in 1..n : p < at[i] => keys[p] # keys[at[i]]
  /\ \A p \in 1..n : \E i \in 1..k : at[i] <= p /\ keys[at[i]] = keys[p]

\* They are what first occurrences keeps of a sequence.
LEMMA FirstOccurrencesKept ==
  ASSUME NEW n \in Nat, NEW keys, DOMAIN keys = 1..n,
         NEW at, at = FirstIndices(keys), NEW k, k = Cardinality(DOMAIN at)
  PROVE  Firsts(n, keys, k, at)
<1> DEFINE kept == {i \in DOMAIN keys : \A j \in 1..(i - 1) : keys[j] # keys[i]}
           size == Cardinality(kept)
<1>1. kept \in SUBSET (1..n)
  OBVIOUS
<1>2. \A i \in 1..n : i \in kept <=> \A j \in 1..n : j < i => keys[j] # keys[i]
  OBVIOUS
<1>3. at = InOrder(kept, Ascending(kept)) /\ size = Cardinality(kept)
  BY DEF FirstIndices
<1> HIDE DEF kept, size
<1>4. /\ size \in 0..n /\ at \in [1..size -> kept]
      /\ \A x \in kept : \E i \in 1..size : at[i] = x
      /\ \A i, j \in 1..size : i < j => at[i] < at[j]
  BY <1>1, <1>3, NumbersInOrder
<1>5. k = size
  <2>1. Cardinality(1..size) = size
    BY <1>4, FS_Interval
  <2> QED BY <1>4, <2>1
<1>6. at \in [1..k -> 1..n]
  BY <1>1, <1>4, <1>5
<1>7. \A i \in 1..k, p \in 1..n : p < at[i] => keys[p] # keys[at[i]]
  BY <1>1, <1>2, <1>4, <1>5
<1>8. \A p \in 1..n : \E i \in 1..k : at[i] <= p /\ keys[at[i]] = keys[p]
  <2> SUFFICES ASSUME NEW p \in 1..n
               PROVE  \E i \in 1..k : at[i] <= p /\ keys[at[i]] = keys[p]
    OBVIOUS
  <2> DEFINE same == {q \in 1..n : keys[q] = keys[p]}
  <2>1. PICK q \in same : \A r \in same : q <= r
    BY LeastExists
  <2>2. q \in kept /\ q <= p
    BY <1>2, <2>1
  <2>3. PICK i \in 1..k : at[i] = q
    BY <1>4, <1>5, <2>2
  <2> QED BY <2>1, <2>2, <2>3
<1> QED BY <1>4, <1>5, <1>6, <1>7, <1>8 DEF Firsts

\* Transactions are in order from the highest block to the lowest.
LEMMA LatestFirstEnumerates ==
  ASSUME NEW S \in SUBSET Node, IsFiniteSet(S), NEW s, s = LatestFirst(S)
  PROVE  /\ Cardinality(S) \in Nat
         /\ s \in [1..Cardinality(S) -> S]
         /\ \A x \in S : \E i \in 1..Cardinality(S) : s[i] = x
         /\ \A i, j \in 1..Cardinality(S) : i < j => Before(s[i], s[j])
<1> DEFINE less == {mn \in S \X S : Before(mn[1], mn[2])}
<1>1. \A x, y \in S : <<x, y>> \in less <=> Before(x, y)
  OBVIOUS
<1>2. s = InOrder(S, less)
  BY DEF LatestFirst
<1> HIDE DEF less
<1>3. \A x \in S : x.height \in Int /\ x.id \in Nat
  BY GatewayAssumption DEF Node
<1>4. \A x, y \in S : x.height = y.height /\ x.id = y.id => x = y
  BY DEF Node
<1>5. TotalOrder(S, less)
  <2>1. \A x \in S : <<x, x>> \notin less
    BY <1>1, <1>3 DEF Before
  <2>2. \A x, y, z \in S : <<x, y>> \in less /\ <<y, z>> \in less => <<x, z>> \in less
    BY <1>1, <1>3 DEF Before
  <2>3. \A x, y \in S : x = y \/ <<x, y>> \in less \/ <<y, x>> \in less
    <3> SUFFICES ASSUME NEW x \in S, NEW y \in S, x # y
                 PROVE  Before(x, y) \/ Before(y, x)
      BY <1>1
    <3>1. x.height # y.height \/ x.id # y.id
      BY <1>4
    <3>2. x.height \in Int /\ y.height \in Int /\ x.id \in Int /\ y.id \in Int
      BY <1>3
    <3> QED BY <3>1, <3>2 DEF Before
  <2> QED BY <2>1, <2>2, <2>3 DEF TotalOrder
<1>6. /\ Cardinality(S) \in Nat
      /\ s \in [1..Cardinality(S) -> S]
      /\ \A x \in S : \E i \in 1..Cardinality(S) : s[i] = x
      /\ \A i, j \in 1..Cardinality(S) : i < j => <<s[i], s[j]>> \in less
  BY <1>2, <1>5, InOrderEnumerates
<1>7. \A i, j \in 1..Cardinality(S) : i < j => Before(s[i], s[j])
  BY <1>1, <1>6
<1> QED BY <1>6, <1>7

(***************************************************************************)
(* What becomes of an answer of the gateway                                *)
(***************************************************************************)
\* The smaller of two numbers.
LEMMA MinOfTwo ==
  ASSUME NEW a \in Nat, NEW b \in Nat
  PROVE  Min({a, b}) = IF a <= b THEN a ELSE b
<1> DEFINE IsMin(x) == \A y \in {a, b} : x =< y
           least == IF a <= b THEN a ELSE b
<1>1. least \in {a, b} /\ IsMin(least)
  OBVIOUS
<1>2. \A x \in {a, b} : IsMin(x) => x = least
  OBVIOUS
<1> HIDE DEF IsMin, least
<1>3. (CHOOSE x \in {a, b} : IsMin(x)) = least
  BY <1>1, <1>2
<1> QED BY <1>3 DEF Min, IsMin, least

\* An answer reports finitely many transactions.
LEMMA ReportedFinite ==
  ASSUME NEW nodes \in Seq(Node)
  PROVE  /\ ToSet(nodes) \in SUBSET Node
         /\ IsFiniteSet(ToSet(nodes))
         /\ Cardinality(ToSet(nodes)) <= Len(nodes)
         /\ Len(nodes) \in Nat
<1>1. DOMAIN nodes = 1..Len(nodes) /\ Len(nodes) \in Nat /\ nodes \in [1..Len(nodes) -> Node]
  BY LenProperties
<1>2. ToSet(nodes) \in SUBSET Node
  BY <1>1, ElementOfSeq DEF ToSet
<1>3. IsFiniteSet(1..Len(nodes)) /\ Cardinality(1..Len(nodes)) = Len(nodes)
  BY <1>1, FS_Interval
<1>4. nodes \in Surjection(1..Len(nodes), ToSet(nodes))
  BY <1>1 DEF ToSet, Surjection
<1> QED BY <1>1, <1>2, <1>3, <1>4, FS_Surjection

\* Of every transaction the highest node stays.
LEMMA DedupeKeeps ==
  ASSUME NEW nodes \in Seq(Node), NEW n \in ToSet(nodes)
  PROVE  \E m \in Dedupe(nodes) : m.id = n.id /\ n.height <= m.height
<1> DEFINE same == {m \in ToSet(nodes) : m.id = n.id}
           size == Cardinality(same)
<1>1. same \in SUBSET Node /\ IsFiniteSet(same) /\ n \in same
  BY ReportedFinite, FS_Subset
<1>2. \A m \in same : m \in ToSet(nodes) /\ m.id = n.id /\ m.height \in Int
  BY <1>1, GatewayAssumption DEF Node
<1>3. \A m \in ToSet(nodes) : m.id = n.id => m \in same
  OBVIOUS
<1> HIDE DEF same
<1>4. PICK s : s = LatestFirst(same)
  OBVIOUS
<1>5. /\ size \in Nat /\ s \in [1..size -> same]
      /\ \A x \in same : \E i \in 1..size : s[i] = x
      /\ \A i, j \in 1..size : i < j => Before(s[i], s[j])
  BY <1>1, <1>4, LatestFirstEnumerates
<1> HIDE DEF size
<1>6. 1 \in 1..size
  <2>1. PICK i \in 1..size : s[i] = n
    BY <1>1, <1>5
  <2> QED BY <1>5, <2>1
<1>7. s[1] \in same
  BY <1>5, <1>6
<1>8. \A m \in same : m.height <= s[1].height
  <2> SUFFICES ASSUME NEW m \in same PROVE m.height <= s[1].height
    OBVIOUS
  <2>1. PICK i \in 1..size : s[i] = m
    BY <1>5
  <2>2. m.height \in Int /\ s[1].height \in Int
    BY <1>2, <1>7
  <2>3. i = 1 \/ Before(s[1], m)
    BY <1>5, <1>6, <2>1
  <2> QED BY <2>1, <2>2, <2>3 DEF Before
<1>9. s[1] \in Dedupe(nodes)
  BY <1>2, <1>3, <1>7, <1>8 DEF Dedupe
<1> QED BY <1>1, <1>2, <1>7, <1>8, <1>9

Matches == [manifestId : ManifestIds, endpoint : Locations \cup {None}]

\* The lookup of a binding: every manifest that is named has one match, and that
\* gives what the latest transaction says of the manifest.
LEMMA GatewayMatches ==
  ASSUME NEW nodes \in Seq(Node),
         NEW chain \in [TxIds -> [manifestId : ManifestIds \cup {None},
                                  repoUrl : Locations \cup {None},
                                  fetchUrl : {None}, kind : {None}, digest : {None}]],
         NEW max \in Nat, Len(nodes) <= max,
         NEW ms, ms = FromGateway(LookupBySoftBinding(nodes, chain, max))
  PROVE  /\ ms \in Seq(Matches) /\ Len(ms) <= max
         /\ \A n \in ToSet(nodes) : chain[n.id].manifestId # None =>
              chain[n.id].manifestId \in Ids(ms)
         /\ \A i \in DOMAIN ms : \E n \in ToSet(nodes) :
              /\ chain[n.id].manifestId = ms[i].manifestId
              /\ ms[i].endpoint = chain[n.id].repoUrl
              /\ \A m \in ToSet(nodes) :
                   chain[m.id].manifestId = ms[i].manifestId => m.height <= n.height
<1> DEFINE id(n) == chain[n.id].manifestId
           said == {n \in Dedupe(nodes) : chain[n.id].manifestId # None}
           size == Cardinality(said)
           named == LatestFirst(said)
           taken == SubSeq(named, 1, Min({Len(named), max}))
           found == [p \in DOMAIN taken |-> chain[taken[p].id]]
           results == LookupBySoftBinding(nodes, chain, max)
\* The transactions that name a manifest, in order.
<1>1. ToSet(nodes) \in SUBSET Node /\ said \in SUBSET ToSet(nodes) /\ said \in SUBSET Node
  BY ReportedFinite DEF Dedupe
<1>2. IsFiniteSet(said) /\ size <= max /\ size \in Nat
  <2>1. IsFiniteSet(said) /\ size <= Cardinality(ToSet(nodes))
    BY <1>1, ReportedFinite, FS_Subset
  <2>2. size \in Nat /\ Cardinality(ToSet(nodes)) \in Nat
    BY <2>1, ReportedFinite, FS_CardinalityType
  <2> QED BY <2>1, <2>2, ReportedFinite
<1>3. \A n \in said : n \in Dedupe(nodes) /\ id(n) # None
  OBVIOUS
<1>4. \A n \in Dedupe(nodes) : id(n) # None => n \in said
  OBVIOUS
<1>5. results = FirstOccurrences(found, found)
  BY DEF LookupBySoftBinding
<1>6. PICK order : order = named
  OBVIOUS
<1> HIDE DEF said
<1>7. /\ order \in [1..size -> said]
      /\ \A x \in said : \E i \in 1..size : order[i] = x
      /\ \A i, j \in 1..size : i < j => Before(order[i], order[j])
  BY <1>1, <1>2, <1>6, LatestFirstEnumerates
<1> HIDE DEF size, named, results
<1>8. DOMAIN found = 1..size /\ \A p \in 1..size : found[p] = chain[order[p].id]
  <2>1. order \in Seq(Node) /\ Len(order) = size
    BY <1>1, <1>2, <1>7
  <2>2. Min({Len(order), max}) = Len(order)
    BY <1>2, <2>1, MinOfTwo
  <2>3. taken = order
    BY <1>6, <2>1, <2>2, SubSeqFull
  <2> QED BY <1>7, <2>3
<1> HIDE DEF found, taken
\* Those that say the same of a manifest, once.
<1>9. PICK at : at = FirstIndices(found)
  OBVIOUS
<1>10. PICK k : k = Cardinality(DOMAIN at)
  OBVIOUS
<1>b. Firsts(size, found, k, at)
  BY <1>2, <1>8, <1>9, <1>10, FirstOccurrencesKept
<1>11. /\ k \in 0..size /\ at \in [1..k -> 1..size]
       /\ \A i, j \in 1..k : i < j => at[i] < at[j]
       /\ \A p \in 1..size : \E i \in 1..k : at[i] <= p /\ found[at[i]] = found[p]
  BY <1>b DEF Firsts
<1>12. DOMAIN results = 1..k /\ \A i \in 1..k : results[i] = chain[order[at[i]].id]
  BY <1>5, <1>8, <1>9, <1>11 DEF FirstOccurrences
\* Of them the first of each manifest.
<1> DEFINE K == [i \in DOMAIN results |-> results[i].manifestId]
           M == [i \in DOMAIN results |-> Match(results[i].manifestId, results[i].repoUrl)]
<1>13. /\ DOMAIN K = 1..k /\ \A i \in 1..k : K[i] = id(order[at[i]])
       /\ \A i \in 1..k : M[i] = Match(id(order[at[i]]), chain[order[at[i]].id].repoUrl)
  BY <1>12
<1>14. ms = FirstOccurrences(M, K)
  BY DEF FromGateway, results
<1> HIDE DEF K, M
<1>15. PICK top : top = FirstIndices(K)
  OBVIOUS
<1>16. PICK l : l = Cardinality(DOMAIN top)
  OBVIOUS
<1>17. k \in Nat /\ k <= size
  BY <1>2, <1>11
<1>c. Firsts(k, K, l, top)
  BY <1>13, <1>15, <1>16, <1>17, FirstOccurrencesKept
<1>18. /\ l \in 0..k /\ top \in [1..l -> 1..k]
       /\ \A i \in 1..l, p \in 1..k : p < top[i] => K[p] # K[top[i]]
       /\ \A p \in 1..k : \E i \in 1..l : top[i] <= p /\ K[top[i]] = K[p]
  BY <1>c DEF Firsts
<1> DEFINE pos(i) == at[top[i]]
<1>19. \A i \in 1..l : top[i] \in 1..k /\ pos(i) \in 1..size /\ K[top[i]] = id(order[pos(i)])
  BY <1>11, <1>13, <1>18
<1>20. /\ DOMAIN ms = 1..l
       /\ \A i \in 1..l : ms[i] = Match(id(order[pos(i)]), chain[order[pos(i)].id].repoUrl)
  <2>1. ms = [i \in DOMAIN top |-> M[top[i]]]
    BY <1>14, <1>15 DEF FirstOccurrences
  <2>2. DOMAIN top = 1..l
    BY <1>18
  <2> QED BY <1>13, <1>19, <2>1, <2>2
\* Nothing before the transaction of a match names its manifest.
<1>21. \A i \in 1..l : \A p \in 1..size : p < pos(i) => id(order[p]) # id(order[pos(i)])
  <2> SUFFICES ASSUME NEW i \in 1..l, NEW p \in 1..size, p < pos(i),
                      id(order[p]) = id(order[pos(i)])
               PROVE  FALSE
    OBVIOUS
  <2>1. PICK j \in 1..k : at[j] <= p /\ found[at[j]] = found[p]
    BY <1>11
  <2>2. at[j] \in 1..size /\ top[i] \in 1..k /\ at[top[i]] \in 1..size
    BY <1>11, <1>19
  <2>3. K[j] = id(order[p])
    <3>1. found[at[j]] = chain[order[at[j]].id] /\ found[p] = chain[order[p].id]
      BY <1>8, <2>2
    <3>2. K[j] = id(order[at[j]])
      BY <1>13
    <3> QED BY <2>1, <3>1, <3>2
  <2>4. K[j] = K[top[i]]
    BY <1>19, <2>3
  <2>5. j >= top[i]
    BY <1>18, <2>1, <2>2, <2>4
  <2>6. at[top[i]] <= at[j]
    <3>1. CASE j = top[i]
      BY <2>2, <3>1
    <3>2. CASE j # top[i]
      <4>1. top[i] < j
        BY <1>17, <2>1, <2>2, <2>5, <3>2
      <4>2. at[top[i]] < at[j]
        BY <1>11, <2>1, <2>2, <4>1
      <4> QED BY <2>2, <4>2
    <3> QED BY <3>1, <3>2
  <2> QED BY <2>1, <2>2, <2>6
<1> HIDE DEF id
\* Every transaction that names a manifest is as high as the one that stays for it.
<1>22. \A n \in ToSet(nodes) : id(n) # None =>
         \E p \in 1..size : id(order[p]) = id(n) /\ n.height <= order[p].height
  <2> SUFFICES ASSUME NEW n \in ToSet(nodes), id(n) # None
               PROVE  \E p \in 1..size : id(order[p]) = id(n) /\ n.height <= order[p].height
    OBVIOUS
  <2>1. PICK m \in Dedupe(nodes) : m.id = n.id /\ n.height <= m.height
    BY DedupeKeeps
  <2>2. id(m) = id(n)
    BY <2>1 DEF id
  <2>3. m \in said
    BY <1>4, <2>2
  <2> QED BY <1>7, <2>1, <2>2, <2>3
<1>23. \A n \in ToSet(nodes) : id(n) # None => id(n) \in Ids(ms)
  <2> SUFFICES ASSUME NEW n \in ToSet(nodes), id(n) # None PROVE id(n) \in Ids(ms)
    OBVIOUS
  <2>1. PICK p \in 1..size : id(order[p]) = id(n)
    BY <1>22
  <2>2. PICK j \in 1..k : at[j] <= p /\ found[at[j]] = found[p]
    BY <1>11
  <2>3. K[j] = id(n)
    <3>1. at[j] \in 1..size /\ K[j] = id(order[at[j]])
      BY <1>11, <1>13, <2>2
    <3>2. id(order[at[j]]) = id(order[p])
      BY <1>8, <2>2, <3>1 DEF id
    <3> QED BY <2>1, <3>1, <3>2
  <2>4. PICK i \in 1..l : K[top[i]] = K[j]
    BY <1>18
  <2>5. ms[i].manifestId = id(n)
    BY <1>19, <1>20, <2>3, <2>4 DEF Match
  <2> QED BY <1>20, <2>5 DEF Ids
<1>24. ASSUME NEW i \in 1..l
       PROVE  /\ order[pos(i)] \in ToSet(nodes) /\ ms[i] \in Matches
              /\ id(order[pos(i)]) = ms[i].manifestId
              /\ ms[i].endpoint = chain[order[pos(i)].id].repoUrl
              /\ \A m \in ToSet(nodes) :
                   id(m) = ms[i].manifestId => m.height <= order[pos(i)].height
  <2> DEFINE n == order[pos(i)]
  <2>1. n \in said /\ n \in Node /\ n \in ToSet(nodes) /\ id(n) # None
    BY <1>1, <1>3, <1>7, <1>19
  <2>2. ms[i] = Match(id(n), chain[n.id].repoUrl)
    BY <1>20
  <2>3. id(n) \in ManifestIds /\ chain[n.id].repoUrl \in Locations \cup {None}
    BY <2>1 DEF Node, id
  <2>4. ASSUME NEW m \in ToSet(nodes), id(m) = id(n) PROVE m.height <= n.height
    <3>1. PICK p \in 1..size : id(order[p]) = id(m) /\ m.height <= order[p].height
      BY <1>22, <2>1, <2>4
    <3>2. p >= pos(i)
      BY <1>19, <1>21, <2>4, <3>1
    <3>3. p = pos(i) \/ Before(n, order[p])
      BY <1>7, <1>19, <3>2
    <3>4. m \in Node /\ order[p] \in Node
      BY <1>1, <1>7
    <3>5. m.height \in Int /\ n.height \in Int /\ order[p].height \in Int
      BY <2>1, <3>4, GatewayAssumption DEF Node
    <3> QED BY <3>1, <3>3, <3>5 DEF Before
  <2> HIDE DEF n
  <2>5. ms[i].manifestId = id(n) /\ ms[i].endpoint = chain[n.id].repoUrl
    BY <2>2 DEF Match
  <2>6. ms[i] \in Matches
    BY <2>2, <2>3 DEF Match, Matches
  <2> QED BY <2>1, <2>4, <2>5, <2>6 DEF n
<1>25. ms \in Seq(Matches) /\ Len(ms) <= max
  <2>1. ms = [i \in 1..l |-> ms[i]]
    BY <1>14, <1>20 DEF FirstOccurrences
  <2>2. l \in Nat /\ l <= max
    BY <1>2, <1>17, <1>18
  <2>3. ms \in [1..l -> Matches]
    BY <1>24, <2>1
  <2> QED BY <2>2, <2>3
<1> QED BY <1>20, <1>23, <1>24, <1>25 DEF id

(***************************************************************************)
(* The lookup of a binding                                                 *)
(***************************************************************************)
Chain ==
  [TxIds -> [manifestId : ManifestIds \cup {None}, repoUrl : Locations \cup {None},
             fetchUrl : {None}, kind : {None}, digest : {None}]]

BindingTypes ==
  /\ tags \in Chain
  /\ index \in SUBSET ManifestIds
  /\ maxResults \in Nat
  /\ answered \in Seq(Node)
  /\ matches \in Seq(Matches)
  /\ failed \subseteq {"gateway", "local"}

\* The sources are asked in turn, and there is room for what they give.
Progress ==
  /\ pc \in {"request", "gateway"} => answered = <<>> /\ matches = <<>> /\ failed = {}
  /\ pc = "local" => Len(matches) < maxResults
  /\ pc = "local" /\ failed # {} => failed = {"gateway"} /\ matches = <<>>
  /\ Len(matches) <= maxResults \/ matches = <<>>
  /\ status = 200 => pc = "done"

\* What the gateway has reported stays, and nothing takes its place.
Reports ==
  /\ "gateway" \in failed => answered = <<>>
  /\ pc = "local" \/ status = 200 =>
       \A m \in ManifestIds : Reported(m) # {} => m \in Ids(matches)
  /\ LatestEndpoint

\* The table makes up for the gateway.
MadeUp ==
  status = 200 /\ failed = {"gateway"} =>
    Len(matches) >= Min({maxResults, Cardinality(index)})

Binding == BindingTypes /\ Progress /\ Reports /\ MadeUp

\* A source that has reported nothing cannot be contradicted.
LEMMA NothingReported ==
  ASSUME answered = <<>>
  PROVE  LatestEndpoint /\ \A m : Reported(m) = {}
<1>1. ToSet(answered) = {}
  BY DEF ToSet
<1> QED BY <1>1 DEF LatestEndpoint, Reported

\* A request that is not about a binding leaves the lookup alone.
LEMMA OtherRouteStep ==
  ASSUME Binding, answered = <<>>, matches = <<>>, failed = {},
         tags' = tags, answered' = answered, matches' = matches, failed' = failed,
         index' \in SUBSET ManifestIds, maxResults' \in Nat,
         pc' # "local", status' = 200 => pc' = "done"
  PROVE  Binding'
<1>1. ToSet(answered)' = {}
  BY DEF ToSet
<1>2. Reports'
  BY <1>1 DEF Reports, LatestEndpoint, Reported
<1>3. BindingTypes'
  BY DEF Binding, BindingTypes
<1> QED BY <1>2, <1>3 DEF Binding, Progress, MadeUp

\* What is within the limit does not get shorter by adding and cutting.
LEMMA CutGrows ==
  ASSUME NEW a \in Nat, NEW b \in Nat, NEW max, a <= max,
         NEW c, c = IF a + b <= max THEN a + b ELSE max
  PROVE  c >= a
OBVIOUS

\* The beginning of what is cut to the limit, and was within it, stays.
LEMMA CutKeeps ==
  ASSUME matches \in Seq(Matches), maxResults \in Nat, Len(matches) <= maxResults,
         NEW more \in Seq(Matches), NEW cut,
         cut = SubSeq(matches \o more, 1, Min({Len(matches \o more), maxResults}))
  PROVE  /\ cut \in Seq(Matches)
         /\ Len(cut) = IF Len(matches) + Len(more) <= maxResults
                       THEN Len(matches) + Len(more) ELSE maxResults
         /\ Len(cut) >= Len(matches)
         /\ \A i \in 1..Len(cut) : cut[i] = IF i <= Len(matches) THEN matches[i]
                                             ELSE more[i - Len(matches)]
<1> DEFINE all == matches \o more
           size == Min({Len(all), maxResults})
<1>1. /\ Len(matches) \in Nat /\ Len(more) \in Nat
      /\ all \in Seq(Matches) /\ Len(all) = Len(matches) + Len(more)
      /\ \A i \in 1..(Len(matches) + Len(more)) :
           all[i] = IF i <= Len(matches) THEN matches[i] ELSE more[i - Len(matches)]
  BY LenProperties, ConcatProperties
<1>2. cut = SubSeq(all, 1, size)
  OBVIOUS
<1>3. size = IF Len(all) <= maxResults THEN Len(all) ELSE maxResults
  BY <1>1, MinOfTwo
<1>4. \A i \in 1..Len(all) : all[i] \in Matches
  BY <1>1, ElementOfSeq
<1> HIDE DEF all, size
<1>5. size \in Nat /\ size <= Len(all)
  BY <1>1, <1>3
<1>6. \A i \in 1..size : all[i] \in Matches
  BY <1>1, <1>4, <1>5
<1>7. /\ cut \in Seq(Matches) /\ Len(cut) = size
      /\ \A i \in 1..size : cut[i] = all[i]
  <2>1. SubSeq(all, 1, size) \in Seq(Matches) /\ Len(SubSeq(all, 1, size)) = size
    BY <1>5, <1>6, SubSeqProperties
  <2>2. \A i \in 1..size : SubSeq(all, 1, size)[i] = all[i]
    BY <1>5, <1>6, SubSeqProperties
  <2> QED BY <1>2, <2>1, <2>2
<1>8. Len(cut) = IF Len(matches) + Len(more) <= maxResults
                 THEN Len(matches) + Len(more) ELSE maxResults
  BY <1>1, <1>3, <1>7
<1>9. \A i \in 1..Len(cut) : cut[i] = IF i <= Len(matches) THEN matches[i]
                                       ELSE more[i - Len(matches)]
  BY <1>1, <1>5, <1>7
<1>10. Len(cut) >= Len(matches)
  BY <1>1, <1>8, CutGrows
<1> QED BY <1>7, <1>8, <1>9, <1>10

\* The gateway answers.
LEMMA GatewayAnswersStep ==
  ASSUME Binding, NEW nodes \in Seq(Node), GatewayAnswers(nodes)
  PROVE  Binding'
<1>1. /\ pc = "gateway" /\ failed = {}
      /\ answered' = nodes /\ tags' = tags /\ index' = index
      /\ maxResults' = maxResults /\ failed' = failed
  BY DEF GatewayAnswers, Binding, Progress
<1>2. tags \in Chain /\ maxResults \in Nat /\ Len(nodes) <= maxResults
  BY DEF GatewayAnswers, Binding, BindingTypes
<1>3. PICK ms : ms = matches'
  OBVIOUS
<1>a. ms = FromGateway(LookupBySoftBinding(nodes, tags, maxResults))
  BY <1>3 DEF GatewayAnswers, Continue
<1>b. ms \in Seq(Matches) /\ Len(ms) <= maxResults
  BY <1>2, <1>a, GatewayMatches DEF Chain
<1>c. \A n \in ToSet(nodes) : tags[n.id].manifestId # None => tags[n.id].manifestId \in Ids(ms)
  BY <1>2, <1>a, GatewayMatches DEF Chain
<1>d. \A i \in DOMAIN ms : \E n \in ToSet(nodes) :
        /\ tags[n.id].manifestId = ms[i].manifestId
        /\ ms[i].endpoint = tags[n.id].repoUrl
        /\ \A m \in ToSet(nodes) :
             tags[m.id].manifestId = ms[i].manifestId => m.height <= n.height
  BY <1>2, <1>a, GatewayMatches DEF Chain
<1>4. /\ matches' \in Seq(Matches) /\ Len(matches') <= maxResults
      /\ \A n \in ToSet(nodes) : tags[n.id].manifestId # None =>
           tags[n.id].manifestId \in Ids(matches')
      /\ \A i \in DOMAIN matches' : \E n \in ToSet(nodes) :
           /\ tags[n.id].manifestId = matches'[i].manifestId
           /\ matches'[i].endpoint = tags[n.id].repoUrl
           /\ \A m \in ToSet(nodes) :
                tags[m.id].manifestId = matches'[i].manifestId => m.height <= n.height
  BY <1>3, <1>b, <1>c, <1>d DEF Ids
<1>5. /\ pc' \in {"local", "done"} /\ (pc' = "local" => Len(matches') < maxResults)
      /\ status' = 200 => pc' = "done"
  BY DEF GatewayAnswers, Continue
<1>6. (\A m \in ManifestIds : Reported(m) # {} => m \in Ids(matches))'
  BY <1>1, <1>4, GatewayAssumption DEF Reported
<1>7. LatestEndpoint'
  BY <1>1, <1>4 DEF LatestEndpoint, Reported
<1>8. BindingTypes'
  BY <1>1, <1>2, <1>4 DEF Binding, BindingTypes
<1>9. Progress'
  BY <1>1, <1>4, <1>5 DEF Progress
<1> QED BY <1>1, <1>6, <1>7, <1>8, <1>9 DEF Binding, Reports, MadeUp

\* It does not, and the table is asked for all there is room for.
LEMMA GatewayFailsStep ==
  ASSUME Binding, GatewayFails \/ GatewayRaises
  PROVE  Binding'
<1>1. /\ pc = "gateway" /\ failed = {} /\ answered = <<>> /\ matches = <<>>
      /\ answered' = answered /\ tags' = tags /\ index' = index
      /\ maxResults' = maxResults /\ failed' = {"gateway"} /\ matches' = <<>>
  BY DEF GatewayFails, GatewayRaises, Continue, Binding, Progress
<1>2. Len(<<>>) = 0
  OBVIOUS
<1>3. CASE GatewayFails
  <2>1. IF 0 < maxResults THEN pc' = "local" /\ status' = 0 ELSE pc' = "done" /\ status' = 200
    BY <1>2, <1>3 DEF GatewayFails, Continue
  <2>2. CASE 0 < maxResults
    <3>1. LatestEndpoint' /\ \A m : (Reported(m) = {})'
      BY <1>1 DEF LatestEndpoint, Reported, ToSet
    <3> QED BY <1>1, <1>2, <2>1, <2>2, <3>1
            DEF Binding, BindingTypes, Progress, Reports, MadeUp
  <2>3. CASE ~(0 < maxResults)
    <3>1. LatestEndpoint' /\ \A m : (Reported(m) = {})'
      BY <1>1 DEF LatestEndpoint, Reported, ToSet
    <3>2. Min({maxResults, Cardinality(index)}) = 0
      <4>1. IsFiniteSet(index)
        BY SearchAssumption, QueryAssumption, FS_Subset DEF Binding, BindingTypes
      <4>2. Cardinality(index) \in Nat /\ maxResults = 0
        BY <2>3, <4>1, FS_CardinalityType DEF Binding, BindingTypes
      <4> QED BY <4>2, MinOfTwo
    <3> QED BY <1>1, <1>2, <2>1, <2>3, <3>1, <3>2
            DEF Binding, BindingTypes, Progress, Reports, MadeUp
  <2> QED BY <2>2, <2>3
<1>4. CASE GatewayRaises
  <2>1. pc' = "done" /\ status' = 400
    BY <1>4 DEF GatewayRaises
  <2>2. LatestEndpoint' /\ \A m : (Reported(m) = {})'
    BY <1>1 DEF LatestEndpoint, Reported, ToSet
  <2> QED BY <1>1, <1>2, <2>1, <2>2 DEF Binding, BindingTypes, Progress, Reports, MadeUp
<1> QED BY <1>3, <1>4

\* What the table gives comes after what the gateway gave.
LEMMA FinishStep ==
  ASSUME Binding, pc = "local", NEW more \in Seq(Matches), Finish(matches \o more),
         \A j \in DOMAIN more : more[j].manifestId \notin Ids(matches),
         UNCHANGED <<tags, index, maxResults, answered>>,
         failed' \subseteq {"gateway", "local"}, failed \subseteq failed',
         "gateway" \in failed' => "gateway" \in failed,
         failed' = {"gateway"} =>
           Len(matches) + Len(more) >= Min({maxResults, Cardinality(index)})
  PROVE  Binding'
<1>1. matches \in Seq(Matches) /\ maxResults \in Nat /\ Len(matches) < maxResults
  BY DEF Binding, BindingTypes, Progress
<1>2. /\ matches' = SubSeq(matches \o more, 1, Min({Len(matches \o more), maxResults}))
      /\ pc' = "done" /\ status' = 200
  BY DEF Finish
<1>3. Len(matches) \in Nat /\ Len(more) \in Nat
  BY <1>1, LenProperties
<1>4. /\ matches' \in Seq(Matches)
      /\ Len(matches') = IF Len(matches) + Len(more) <= maxResults
                         THEN Len(matches) + Len(more) ELSE maxResults
      /\ Len(matches') >= Len(matches)
      /\ \A i \in 1..Len(matches') :
           matches'[i] = IF i <= Len(matches) THEN matches[i] ELSE more[i - Len(matches)]
  <2>1. Len(matches) <= maxResults
    BY <1>1, <1>3
  <2>2. PICK cut : cut = matches'
    OBVIOUS
  <2>3. cut = SubSeq(matches \o more, 1, Min({Len(matches \o more), maxResults}))
    BY <1>2, <2>2
  <2> QED BY <1>1, <2>1, <2>2, <2>3, CutKeeps
<1>5. /\ DOMAIN matches = 1..Len(matches) /\ DOMAIN more = 1..Len(more)
      /\ DOMAIN matches' = 1..Len(matches') /\ Len(matches') \in Nat
  BY <1>1, <1>4, LenProperties
<1>6. Ids(matches) \subseteq Ids(matches')
  BY <1>3, <1>4, <1>5 DEF Ids
<1>7. \A m : Reported(m)' = Reported(m)
  BY DEF Reported
<1>8. \A m \in ManifestIds : Reported(m) # {} => m \in Ids(matches)
  BY DEF Binding, Reports
<1>9. LatestEndpoint'
  <2> SUFFICES ASSUME NEW i \in DOMAIN matches', Reported(matches'[i].manifestId) # {}
               PROVE  \E n \in Reported(matches'[i].manifestId) :
                        /\ \A m \in Reported(matches'[i].manifestId) : m.height <= n.height
                        /\ matches'[i].endpoint = tags[n.id].repoUrl
    BY <1>7 DEF LatestEndpoint
  <2>1. CASE i <= Len(matches)
    <3>1. i \in DOMAIN matches /\ matches'[i] = matches[i]
      BY <1>3, <1>4, <1>5, <2>1
    <3> QED BY <3>1 DEF Binding, Reports, LatestEndpoint
  <2>2. CASE i > Len(matches)
    <3>1. i - Len(matches) \in DOMAIN more /\ matches'[i] = more[i - Len(matches)]
      BY <1>3, <1>4, <1>5, <2>2
    <3>2. matches'[i].manifestId \in ManifestIds
      <4>1. PICK ms : ms = matches'
        OBVIOUS
      <4>2. ms \in Seq(Matches) /\ i \in 1..Len(ms)
        BY <1>4, <1>5, <4>1
      <4>3. ms[i] \in Matches
        BY <4>2, ElementOfSeq
      <4> QED BY <4>1, <4>3 DEF Matches
    <3> QED BY <1>8, <3>1, <3>2
  <2>3. i \in Int /\ Len(matches) \in Int
    BY <1>3, <1>5
  <2>4. i <= Len(matches) \/ i > Len(matches)
    BY <2>3
  <2> QED BY <2>1, <2>2, <2>4
<1>10. failed' = {"gateway"} => Len(matches') >= Min({maxResults, Cardinality(index)})
  <2>1. IsFiniteSet(index) /\ Cardinality(index) \in Nat
    BY SearchAssumption, QueryAssumption, FS_Subset, FS_CardinalityType
    DEF Binding, BindingTypes
  <2>2. Min({maxResults, Cardinality(index)}) \in Nat
        /\ Min({maxResults, Cardinality(index)}) <= maxResults
    BY <1>1, <2>1, MinOfTwo
  <2> QED BY <1>1, <1>3, <1>4, <2>2
<1>11. BindingTypes'
  BY <1>4 DEF Binding, BindingTypes
<1>12. Progress'
  BY <1>1, <1>2, <1>3, <1>4 DEF Progress
<1>13. Reports'
  BY <1>6, <1>7, <1>8, <1>9 DEF Binding, Reports
<1> QED BY <1>10, <1>11, <1>12, <1>13 DEF Binding, MadeUp

\* A sequence has no more ids than matches.
LEMMA IdsAreFew ==
  ASSUME NEW ms \in Seq(Matches)
  PROVE  IsFiniteSet(Ids(ms)) /\ Cardinality(Ids(ms)) <= Len(ms)
<1> DEFINE id == [i \in 1..Len(ms) |-> ms[i].manifestId]
<1>1. Len(ms) \in Nat /\ DOMAIN ms = 1..Len(ms)
  BY LenProperties
<1>2. id \in Surjection(1..Len(ms), Ids(ms))
  <2>1. id \in [1..Len(ms) -> Ids(ms)]
    BY <1>1 DEF Ids
  <2>2. \A m \in Ids(ms) : \E i \in 1..Len(ms) : id[i] = m
    BY <1>1 DEF Ids
  <2> QED BY <2>1, <2>2 DEF Surjection
<1>3. IsFiniteSet(1..Len(ms)) /\ Cardinality(1..Len(ms)) = Len(ms)
  BY <1>1, FS_Interval
<1> QED BY <1>2, <1>3, FS_Surjection

\* What the table adds to the matches: rows the gateway has not given, and with what it
\* has given no fewer than the LIMIT asks of the table.
Adds(more) ==
  /\ more \in Seq(Matches)
  /\ \A j \in DOMAIN more : more[j].manifestId \notin Ids(matches)
  /\ Len(matches) + Len(more) >= Min({Limit, Cardinality(index)})
  /\ Finish(matches \o more)

LEMMA TableAdds ==
  ASSUME Binding, LocalAnswers
  PROVE  \E more : Adds(more)
<1>1. /\ pc = "local" /\ UNCHANGED <<tags, index, maxResults, answered>> /\ failed' = failed
      /\ failed \subseteq {"gateway", "local"} /\ index \in SUBSET ManifestIds
      /\ maxResults \in Nat /\ matches \in Seq(Matches)
  BY DEF LocalAnswers, Binding, BindingTypes
<1>0. PICK rows \in LimitedTo(Limit, index) : \E found \in Merged(rows) : Finish(found)
  BY DEF LocalAnswers
<1>2. PICK found \in Merged(rows) : Finish(found)
  BY <1>0
<1>3. PICK fresh \in SetToSeqs(rows \ Ids(matches)) :
        found = matches \o [i \in DOMAIN fresh |-> Match(fresh[i], None)]
  BY <1>2 DEF Merged
<1>4. PICK more : more = [i \in DOMAIN fresh |-> Match(fresh[i], None)]
  OBVIOUS
<1>5. /\ rows \in SUBSET index /\ IsFiniteSet(rows)
      /\ Cardinality(rows) = Min({Limit, Cardinality(index)})
  <2>1. rows \in SUBSET index /\ Cardinality(rows) = Min({Limit, Cardinality(index)})
    BY <1>0 DEF LimitedTo
  <2>2. IsFiniteSet(ManifestIds)
    BY SearchAssumption, QueryAssumption
  <2> QED BY <1>1, <2>1, <2>2, FS_Subset
<1> DEFINE new == rows \ Ids(matches)
           size == Cardinality(new)
<1>6. size \in Nat
  BY <1>5, FS_Subset, FS_CardinalityType
<1>7. fresh \in [1..size -> new]
  BY <1>3 DEF SetToSeqs
<1>8. size = Cardinality(rows \ Ids(matches))
  OBVIOUS
<1>9. \A m \in new : m \in ManifestIds /\ m \notin Ids(matches)
  BY <1>1, <1>5
<1> HIDE DEF new, size
<1>10. more \in Seq(Matches) /\ Len(more) = size /\ DOMAIN more = 1..size
  <2>1. more = [i \in 1..size |-> Match(fresh[i], None)]
    BY <1>4, <1>7
  <2>2. \A i \in 1..size : Match(fresh[i], None) \in Matches
    BY <1>7, <1>9 DEF Match, Matches
  <2>3. more \in [1..size -> Matches]
    BY <2>1, <2>2
  <2> QED BY <1>6, <2>3
<1>11. \A j \in DOMAIN more : more[j].manifestId \notin Ids(matches)
  BY <1>4, <1>7, <1>9, <1>10 DEF Match
<1>12. Len(matches) + Len(more) >= Min({Limit, Cardinality(index)})
  <2>1. Len(matches) \in Nat
    BY <1>1, LenProperties
  <2>2. IsFiniteSet(Ids(matches)) /\ Cardinality(Ids(matches)) <= Len(matches)
    BY <1>1, IdsAreFew
  <2>3. Cardinality(rows) \in Nat /\ Cardinality(Ids(matches)) \in Nat
    BY <1>5, <2>2, FS_CardinalityType
  <2>4. Cardinality(rows) - size <= Cardinality(Ids(matches))
    <3>1. Cardinality(rows \ Ids(matches)) = Cardinality(rows) - Cardinality(rows \cap Ids(matches))
      BY <1>5, FS_Difference
    <3>2. Cardinality(rows \cap Ids(matches)) <= Cardinality(Ids(matches))
      BY <2>2, FS_Intersection
    <3>3. Cardinality(rows \cap Ids(matches)) \in Nat
      BY <2>2, FS_Intersection, FS_CardinalityType
    <3> QED BY <1>8, <2>3, <3>1, <3>2, <3>3
  <2>5. Len(matches) + size >= Cardinality(rows)
    BY <1>6, <2>1, <2>2, <2>3, <2>4
  <2> QED BY <1>5, <1>10, <2>5
<1>13. Finish(matches \o more)
  BY <1>2, <1>3, <1>4
<1> QED BY <1>10, <1>11, <1>12, <1>13 DEF Adds

\* The table answers.
LEMMA LocalAnswersStep ==
  ASSUME Binding, LocalAnswers
  PROVE  Binding'
<1>1. UNCHANGED <<tags, index, maxResults, answered>> /\ failed' = failed
  BY DEF LocalAnswers
<1>2. pc = "local" /\ failed \subseteq {"gateway", "local"} /\ maxResults \in Nat
  BY DEF LocalAnswers, Binding, BindingTypes
<1>3. PICK more : Adds(more)
  BY TableAdds
<1>4. failed' = {"gateway"} =>
        Len(matches) + Len(more) >= Min({maxResults, Cardinality(index)})
  <2> SUFFICES ASSUME failed = {"gateway"}
               PROVE  Len(matches) + Len(more) >= Min({maxResults, Cardinality(index)})
    BY <1>1
  <2>1. matches = <<>>
    BY <1>2 DEF Binding, Progress
  <2>2. Limit = maxResults
    BY <1>2, <2>1 DEF Limit
  <2> QED BY <1>3, <2>2 DEF Adds
<1> QED BY <1>1, <1>2, <1>3, <1>4, FinishStep DEF Adds

\* It cannot be read, and what the gateway gave is the answer.
LEMMA LocalFailsStep ==
  ASSUME Binding, LocalFails
  PROVE  Binding'
<1>1. /\ pc = "local" /\ UNCHANGED <<tags, index, maxResults, answered>>
      /\ failed' = failed \cup {"local"} /\ Finish(matches)
  BY DEF LocalFails
<1>2. matches \in Seq(Matches) /\ failed \subseteq {"gateway", "local"}
  BY DEF Binding, BindingTypes
<1>3. PICK more : more = <<>>
  OBVIOUS
<1>4. more \in Seq(Matches) /\ DOMAIN more = {}
  BY <1>3
<1>5. Finish(matches \o more)
  BY <1>1, <1>2, <1>3, ConcatEmptySeq
<1>6. failed' # {"gateway"}
  BY <1>1
<1> QED BY <1>1, <1>2, <1>4, <1>5, <1>6, FinishStep

\* A webhook stores a binding for the same value while a source is awaited.
LEMMA IndexedStep ==
  ASSUME Binding, NEW m \in ManifestIds, Indexed(m)
  PROVE  Binding'
<1>1. /\ pc \in {"gateway", "local"}
      /\ index' = index \cup {m}
      /\ UNCHANGED <<tags, maxResults, pc, answered, failed, matches, status>>
  BY DEF Indexed
<1>2. status # 200
  BY <1>1 DEF Binding, Progress
<1>3. \A n : Reported(n)' = Reported(n)
  BY <1>1 DEF Reported
<1>4. LatestEndpoint'
  BY <1>1, <1>3 DEF Binding, Reports, LatestEndpoint
<1>5. Reports'
  BY <1>1, <1>3, <1>4 DEF Binding, Reports
<1> QED BY <1>1, <1>2, <1>5 DEF Binding, BindingTypes, Progress, MadeUp

\* What a request asks for is capped, and never unbounded.
LEMMA ParsedIsNat ==
  ASSUME NEW input \in Nat
  PROVE  ParseMaxResults(input) \in Nat
<1>1. MaxAsked \in Nat /\ DefaultAsked \in Nat
  BY ResolveAssumption
<1>2. Min({input, MaxAsked}) \in Nat
  BY <1>1, MinOfTwo
<1> QED BY <1>1, <1>2 DEF ParseMaxResults

\* Every step of the lookup keeps what is known of it.
LEMMA BindingStep ==
  ASSUME Binding
  PROVE  /\ \A input \in Inputs : AskBinding(input) => Binding'
         /\ RefuseBinding => Binding'
         /\ \A nodes \in SeqOf(Node, MaxAsked) : GatewayAnswers(nodes) => Binding'
         /\ GatewayFails \/ GatewayRaises \/ LocalAnswers \/ LocalFails => Binding'
         /\ \A m \in Manifests : Indexed(m) => Binding'
<1>1. ASSUME NEW input \in Inputs, AskBinding(input) PROVE Binding'
  <2>1. /\ pc = "request" /\ pc' = "gateway" /\ maxResults' = ParseMaxResults(input)
        /\ UNCHANGED <<tags, index, answered, failed, matches, status>>
    BY <1>1 DEF AskBinding
  <2>2. maxResults' \in Nat
    BY <2>1, ParsedIsNat DEF Inputs
  <2>3. answered = <<>> /\ matches = <<>> /\ failed = {} /\ status # 200
    BY <2>1 DEF Binding, Progress
  <2>4. index' \in SUBSET ManifestIds
    BY <2>1 DEF Binding, BindingTypes
  <2> QED BY <2>1, <2>2, <2>3, <2>4, OtherRouteStep
<1>2. ASSUME RefuseBinding PROVE Binding'
  <2>1. /\ pc = "request" /\ pc' = "done"
        /\ UNCHANGED <<tags, index, maxResults, answered, failed, matches>>
    BY <1>2 DEF RefuseBinding
  <2>2. answered = <<>> /\ matches = <<>> /\ failed = {}
    BY <2>1 DEF Binding, Progress
  <2>3. index' \in SUBSET ManifestIds /\ maxResults' \in Nat
    BY <2>1 DEF Binding, BindingTypes
  <2> QED BY <2>1, <2>2, <2>3, OtherRouteStep
<1>3. ASSUME NEW nodes \in SeqOf(Node, MaxAsked), GatewayAnswers(nodes) PROVE Binding'
  <2>1. nodes \in Seq(Node)
    BY ResolveAssumption DEF SeqOf
  <2> QED BY <1>3, <2>1, GatewayAnswersStep
<1>4. ASSUME NEW m \in Manifests, Indexed(m) PROVE Binding'
  BY <1>4, QueryAssumption, IndexedStep
<1> QED BY <1>1, <1>2, <1>3, <1>4, GatewayFailsStep, LocalAnswersStep, LocalFailsStep

(***************************************************************************)
(* The fetch of a reference                                                *)
(***************************************************************************)
\* Once the URL is accepted it stays one the policy allows; the address is that of
\* the URL whose request is out, and where that was connected to belongs to the same
\* URL; and hops and requests count the same.
Policed ==
  /\ phase \in {"dns", "headers", "status", "body"} => url \in AllowedUrls
  /\ phase \in {"headers", "status", "body"} =>
       /\ address \in {"public", "unresolved"}
       /\ reached = "private" => HostOf[url] = "https" \/ address = "unresolved"
  /\ phase = "start" => hop = 0 /\ requests = 0
  /\ phase = "dns" => requests = hop
  /\ phase \in {"headers", "status", "body"} => requests = hop + 1
  /\ requests <= hop + 1

\* Before the end, all that was sent is kept, and nothing has been said to be
\* too large.
Measured ==
  /\ buffered <= MaxBytes
  /\ phase # "done" => result = Missing
  /\ phase \in {"start", "dns", "headers", "status"} => buffered = 0 /\ sent = 0
  /\ phase = "body" => buffered = sent
  /\ result = "ok" => buffered = sent
  /\ result = "tooLarge" =>
       sent > MaxBytes \/ (response.length # Missing /\ response.length > MaxBytes)

FetchInv == FetchTypeOK /\ Policed /\ Measured

\* It holds before a fetch,
LEMMA FetchBegins == FetchInit => FetchInv
BY FetchAssumption
   DEF FetchInit, FetchInv, FetchTypeOK, Policed, Measured, NoResponse, Addresses, Outcomes

\* and every step of one keeps it.
LEMMA FetchStep == FetchInv /\ [FetchNext]_fetchVars => FetchInv'
<1> SUFFICES ASSUME FetchInv, [FetchNext]_fetchVars PROVE FetchInv'
  OBVIOUS
<1> USE FetchAssumption DEF Outcomes, FetchInv, FetchTypeOK, Policed, Measured, Done
<1>1. ASSUME NEW u \in Urls, Start(u) PROVE FetchInv'
  BY <1>1 DEF Start
<1>2. ASSUME NEW how \in Addresses, Resolve(how) PROVE FetchInv'
  BY <1>2 DEF Resolve, Addresses
<1>3. CASE Abort
  BY <1>3 DEF Abort
<1>4. CASE Follow
  BY <1>4 DEF Follow, RedirectLimit, FollowAllowed
<1>5. CASE Accept
  BY <1>5 DEF Accept
<1>6. CASE Tick
  BY <1>6 DEF Tick
<1>7. ASSUME NEW r \in Responses, Headers(r) PROVE FetchInv'
  BY <1>7 DEF Headers
<1>8. CASE NetworkError
  BY <1>8 DEF NetworkError
<1>9. ASSUME NEW n \in 1..MaxChunk, Chunk(n) PROVE FetchInv'
  BY <1>9 DEF Chunk, TooLarge
<1>10. CASE EndOfBody \/ BodyError
  BY <1>10 DEF EndOfBody, BodyError
<1>11. CASE UNCHANGED fetchVars
  BY <1>11 DEF fetchVars
<1>12. ASSUME NEW to \in {"public", "private"}, Connect(to) PROVE FetchInv'
  <2>1. url \in Urls /\ HostOf[url] \in {"address", "http", "https"}
    BY <1>12 DEF Connect
  <2>2. to = "private" => HostOf[url] = "https" \/ address = "unresolved"
    BY <1>12, <2>1 DEF Connect, Pinned, Addresses
  <2> QED BY <1>12, <2>2 DEF Connect
<1> QED BY <1>1, <1>2, <1>3, <1>4, <1>5, <1>6, <1>7, <1>8, <1>9, <1>10, <1>11, <1>12
        DEF FetchNext, Own, Remote

\* A handler goes on with its fetch, leaves it alone, or is done with it.
LEMMA FetchGoesOn == Next => [FetchNext]_fetchVars \/ FetchInit'
<1>1. Receive => UNCHANGED fetchVars
  BY DEF Receive, ReceiveContent, ReceiveReference, ReceiveSimilar, RefuseSimilar, Bound
<1>2. ASSUME Local PROVE [FetchNext]_fetchVars \/ FetchInit'
  <2>1. Fetching(Own) => FetchNext
    BY DEF Fetching, FetchNext
  <2>2. \A isImage \in BOOLEAN : Fetched(isImage) => FetchInit'
    BY DEF Fetched, FetchInit
  <2>3. \A p \in Hashes : Hashed(p) => UNCHANGED fetchVars
    BY DEF Hashed
  <2>4. ImageRejected \/ LookedUp \/ SearchAnswers \/ SearchFails => UNCHANGED fetchVars
    BY DEF ImageRejected, LookedUp, SearchAnswers, SearchFails
  <2>5. Bound(LocalAnswers) \/ Bound(LocalFails) => UNCHANGED fetchVars
    BY DEF Bound
  <2> QED BY <1>2, <2>1, <2>2, <2>3, <2>4, <2>5 DEF Local
<1>3. ASSUME Outside PROVE [FetchNext]_fetchVars
  <2>1. \A size \in 0..(MaxBytes + 1) : Uploaded(size) => UNCHANGED fetchVars
    BY DEF Uploaded
  <2>2. UploadFails => UNCHANGED fetchVars
    BY DEF UploadFails
  <2>3. Fetching(Remote) => FetchNext
    BY DEF Fetching, FetchNext
  <2>4. \A nodes \in SeqOf(Node, MaxAsked) : Bound(GatewayAnswers(nodes)) => UNCHANGED fetchVars
    BY DEF Bound
  <2>5. Bound(GatewayFails) \/ Bound(GatewayRaises) => UNCHANGED fetchVars
    BY DEF Bound
  <2>6. \A m \in Manifests : Bound(Indexed(m)) => UNCHANGED fetchVars
    BY DEF Bound
  <2>7. \A m \in Manifests, hash \in Hashes : Stored(m, hash) => UNCHANGED fetchVars
    BY DEF Stored
  <2> QED BY <1>3, <2>1, <2>2, <2>3, <2>4, <2>5, <2>6, <2>7 DEF Outside
<1> QED BY <1>1, <1>2, <1>3 DEF Next

\* Whatever the routes do meanwhile, the fetch is as it is alone.
LEMMA FetchCorrect == Spec => []FetchInv
<1>1. Init => FetchInv
  BY FetchBegins DEF Init
<1>2. FetchInit' => FetchInv'
  BY FetchBegins, PTL
<1>3. FetchInv /\ [Next]_vars => FetchInv'
  <2>1. [Next]_vars => [FetchNext]_fetchVars \/ FetchInit'
    BY FetchGoesOn DEF vars
  <2> QED BY <1>2, <2>1, FetchStep
<1> QED BY <1>1, <1>3, PTL DEF Spec

\* The fetch of a reference keeps its types: it is never beyond its last hop, nor
\* older than time may show.
THEOREM FetchTyped == Spec => []FetchTypeOK
<1>1. FetchInv => FetchTypeOK
  BY DEF FetchInv
<1> QED BY <1>1, FetchCorrect, PTL

\* No redirect leads a request of byReference to where the policy would not have let
\* the first one go, and no chain of them costs more than MAX_REDIRECTS + 1 requests.
\* That the private network is out of reach is proved for hosts that are addresses and
\* for names over http that resolve; over https the name is resolved once more.
THEOREM SentOnlyAllowedHolds == Spec => []SentOnlyAllowed
<1>1. FetchInv => SentOnlyAllowed
  BY FetchAssumption DEF FetchInv, FetchTypeOK, Policed, SentOnlyAllowed
<1> QED BY <1>1, FetchCorrect, PTL

\* The limit on the body is neither passed nor applied to less.
THEOREM LimitIsExactHolds == Spec => []LimitIsExact
<1>1. FetchInv => LimitIsExact
  BY DEF FetchInv, Measured, LimitIsExact
<1> QED BY <1>1, FetchCorrect, PTL

(***************************************************************************)
(* From the request to what is searched for                                *)
(***************************************************************************)
\* What the table is searched for, as the request means it.
Sought == Search(Meant.alg, Meant.hash, Meant.threshold, Meant.limit)

\* A handler is on its own route, and searches for what it was asked, whatever is
\* indexed meanwhile.
Routed ==
  /\ route # "byBinding" => answered = <<>> /\ matches = <<>> /\ failed = {}
  /\ pc \in {"upload", "validate", "fetch", "lookup", "search"} => route # "byBinding"
  /\ pc \in {"upload", "validate", "fetch"} => route # "search"
  /\ pc = "lookup" => route = "search" /\ asked.hash = None /\ asked.limit \in Nat
  /\ pc = "search" =>
       /\ searched = Sought /\ Meant.limit \in Nat
       /\ route = "search" /\ asked.hash = None => asked.manifest \in index

Inv == Binding /\ Routed /\ AnswerFitsRequest

\* An answer of the search is as near as it says, and leaves nothing nearer out.
LEMMA AnswersFit ==
  ASSUME NEW manifests, IsFiniteSet(manifests), NEW hashes, NEW p, NEW threshold,
         NEW limit \in Nat, NEW answer \in Answers(manifests, hashes, p, threshold, limit),
         NEW near, near = {m \in manifests : Distance(hashes[m], p) <= threshold}
  PROVE  /\ \A i \in answer : i.manifest \in near /\ i.distance = Distance(hashes[i.manifest], p)
         /\ Cardinality(answer) <= limit
         /\ \A m \in near \ Found(answer) :
              /\ Cardinality(answer) = limit
              /\ \A i \in answer : i.distance <= Distance(hashes[m], p)
<1> DEFINE d(m) == Distance(hashes[m], p)
<1>1. near = {m \in manifests : Within(hashes[m], p, threshold)}
  BY DEF Within
<1>2. PICK S \in SUBSET near :
        /\ Cardinality(S) = Min({limit, Cardinality(near)})
        /\ \A m \in S, o \in near \ S : d(m) <= d(o)
        /\ answer = {Item(m, d(m)) : m \in S}
  BY <1>1 DEF Answers
<1>3. IsFiniteSet(near) /\ IsFiniteSet(S) /\ Cardinality(near) \in Nat /\ Cardinality(S) \in Nat
  BY <1>1, <1>2, FS_Subset, FS_CardinalityType
<1>a. \A i : i \in answer <=> \E m \in S : i = Item(m, d(m))
  BY <1>2
<1> HIDE DEF d
<1> DEFINE item == [m \in S |-> Item(m, d(m))]
<1>4. item \in Bijection(S, answer)
  <2>0. \A m \in S : item[m] = Item(m, d(m))
    OBVIOUS
  <2>1. \A m \in S : item[m].manifest = m
    BY DEF Item
  <2>2. \A m, o \in S : item[m] = item[o] => m = o
    BY <2>1
  <2>3. \A m \in S : item[m] \in answer
    <3> SUFFICES ASSUME NEW m \in S PROVE item[m] \in answer
      OBVIOUS
    <3> QED BY <1>a, <2>0
  <2>4. item \in [S -> answer]
    BY <2>3
  <2> HIDE DEF item
  <2>5. \A i \in answer : \E m \in S : item[m] = i
    <3> SUFFICES ASSUME NEW i \in answer PROVE \E m \in S : item[m] = i
      OBVIOUS
    <3>1. PICK m \in S : i = Item(m, d(m))
      BY <1>a
    <3> QED BY <2>0, <3>1
  <2>6. item \in Injection(S, answer)
    BY <2>2, <2>4 DEF Injection, IsInjective
  <2>7. item \in Surjection(S, answer)
    BY <2>4, <2>5 DEF Surjection
  <2> QED BY <2>6, <2>7 DEF Bijection
<1> HIDE DEF item
<1>5. Cardinality(answer) = Cardinality(S)
  BY <1>3, <1>4, FS_Bijection DEF ExistsBijection
<1>6. \A i \in answer : i.manifest \in S /\ i.distance = d(i.manifest)
  BY <1>a DEF Item
<1>7. Found(answer) = S
  <2>1. \A m \in S : Item(m, d(m)) \in answer /\ Item(m, d(m)).manifest = m
    BY <1>a DEF Item
  <2>2. S \subseteq Found(answer)
    BY <2>1 DEF Found
  <2> QED BY <1>6, <2>2 DEF Found
<1>8. Min({limit, Cardinality(near)}) =
        IF limit <= Cardinality(near) THEN limit ELSE Cardinality(near)
  BY <1>3, MinOfTwo
<1>9. Cardinality(answer) <= limit
  BY <1>2, <1>3, <1>5, <1>8
<1>10. ASSUME NEW m \in near \ S PROVE Cardinality(answer) = limit
  <2>1. Cardinality(S) # Cardinality(near)
    BY <1>2, <1>3, <1>10, FS_Subset
  <2> QED BY <1>2, <1>3, <1>5, <1>8, <2>1
<1>11. \A i \in answer : i.manifest \in near /\ i.distance = d(i.manifest)
  BY <1>2, <1>6
<1>12. \A m \in near \ S, i \in answer : i.distance <= d(m)
  BY <1>2, <1>6
<1> QED BY <1>7, <1>9, <1>10, <1>11, <1>12 DEF d

\* A step of one of the routes that are not about a binding, as the lookup sees it.
Elsewhere ==
  /\ route # "byBinding" /\ route' = route
  /\ UNCHANGED <<tags, answered, matches, failed>>
  /\ index' \in SUBSET ManifestIds /\ maxResults' \in Nat
  /\ pc' # "local" /\ (status' = 200 => pc' = "done")

\* It can only go wrong by what it searches for and answers.
LEMMA ElsewhereStep ==
  ASSUME Inv, Elsewhere, Routed', AnswerFitsRequest' PROVE Inv'
<1>1. answered = <<>> /\ matches = <<>> /\ failed = {}
  BY DEF Inv, Routed, Elsewhere
<1> QED BY <1>1, OtherRouteStep DEF Inv, Elsewhere

\* No error of these handlers is a success.
LEMMA ErrorsAreErrors ==
  /\ FetchStatus # 200
  /\ \A words : MessageStatus(words) # 200
BY DEF FetchStatus, MessageStatus

\* A handler is called.
LEMMA ReceiveStep == Inv /\ Receive => Inv'
<1> SUFFICES ASSUME Inv, Receive PROVE Inv'
  OBVIOUS
<1>1. /\ pc = "request" /\ status # 200 /\ index \in SUBSET ManifestIds /\ maxResults \in Nat
      /\ answered = <<>> /\ matches = <<>> /\ failed = {}
  BY DEF Receive, Inv, Binding, Progress, BindingTypes
<1>2. ASSUME NEW h, NEW input \in Inputs, NEW isImage, NEW announced,
             ReceiveContent(h, input, isImage, announced)
      PROVE  Inv'
  <2>1. /\ Elsewhere /\ (pc' = "upload" \/ (pc' = "done" /\ status' # 200))
        /\ route = "byContent"
    <3>1. maxResults' \in Nat
      BY <1>2, ParsedIsNat DEF ReceiveContent, Inputs
    <3> QED BY <1>1, <1>2, <3>1 DEF ReceiveContent, Elsewhere, KeepTable, Answer, GoTo
  <2>2. Routed' /\ AnswerFitsRequest'
    BY <1>1, <2>1 DEF Elsewhere, Routed, AnswerFitsRequest
  <2> QED BY <2>1, <2>2, ElsewhereStep
<1>3. ASSUME NEW h, NEW input \in Inputs, NEW enabled, NEW malformed, NEW announced,
             ReceiveReference(h, input, enabled, malformed, announced)
      PROVE  Inv'
  <2>1. /\ Elsewhere /\ (pc' = "fetch" \/ (pc' = "done" /\ status' # 200))
        /\ route = "byReference"
    <3>1. maxResults' \in Nat
      BY <1>3, ParsedIsNat DEF ReceiveReference, Inputs
    <3> QED BY <1>1, <1>3, <3>1 DEF ReceiveReference, Elsewhere, KeepTable, Answer, GoTo
  <2>2. Routed' /\ AnswerFitsRequest'
    BY <1>1, <2>1 DEF Elsewhere, Routed, AnswerFitsRequest
  <2> QED BY <2>1, <2>2, ElsewhereStep
<1>4. ASSUME NEW q \in Similar, ReceiveSimilar(q) PROVE Inv'
  <2>1. Elsewhere /\ route = "search" /\ asked' = q /\ q.limit \in Nat
    BY <1>1, <1>4, ResolveAssumption
    DEF ReceiveSimilar, Elsewhere, KeepTable, Answer, GoTo, Similar
  <2>2. \/ pc' = "search" /\ q.hash # None
           /\ searched' = Search("phash", q.hash, q.threshold, q.limit)
        \/ pc' = "lookup" /\ q.hash = None
        \/ pc' = "done" /\ status' # 200
    BY <1>4 DEF ReceiveSimilar, Answer, GoTo
  <2>3. Routed'
    BY <1>1, <2>1, <2>2 DEF Elsewhere, Routed, Sought, Meant, Search
  <2>4. AnswerFitsRequest'
    BY <2>2 DEF AnswerFitsRequest
  <2> QED BY <2>1, <2>3, <2>4, ElsewhereStep
<1>5. ASSUME NEW words, RefuseSimilar(MessageStatus(words)) PROVE Inv'
  <2>1. Elsewhere /\ pc' = "done" /\ status' # 200
    BY <1>1, <1>5, ErrorsAreErrors DEF RefuseSimilar, Elsewhere, KeepTable, Answer, requestVars
  <2>2. Routed' /\ AnswerFitsRequest'
    BY <1>1, <2>1 DEF Elsewhere, Routed, AnswerFitsRequest
  <2> QED BY <2>1, <2>2, ElsewhereStep
<1>6. ASSUME NEW input \in Inputs, Bound(AskBinding(input)) PROVE Inv'
  <2>1. Binding'
    BY <1>6, BindingStep DEF Bound, Inv
  <2>2. route' = "byBinding" /\ pc' = "gateway"
    BY <1>6 DEF Bound, AskBinding, requestVars
  <2> QED BY <2>1, <2>2 DEF Inv, Routed, AnswerFitsRequest
<1>7. ASSUME Bound(RefuseBinding) PROVE Inv'
  <2>1. Binding'
    BY <1>7, BindingStep DEF Bound, Inv
  <2>2. route' = "byBinding" /\ pc' = "done"
    BY <1>7 DEF Bound, RefuseBinding, requestVars
  <2> QED BY <2>1, <2>2 DEF Inv, Routed, AnswerFitsRequest
<1> QED BY <1>2, <1>3, <1>4, <1>5, <1>6, <1>7 DEF Receive

\* An error ends the request, and what was asked and found does not matter.
LEMMA RefusedStep ==
  ASSUME Inv, Elsewhere, pc' = "done", status' # 200 PROVE Inv'
<1>1. Routed'
  BY DEF Elsewhere, Inv, Routed
<1>2. AnswerFitsRequest'
  BY DEF AnswerFitsRequest
<1> QED BY <1>1, <1>2, ElsewhereStep

\* What a handler does on its own after it was called.
LEMMA HandlerStep ==
  ASSUME Inv
  PROVE  /\ \A isImage \in BOOLEAN : Fetched(isImage) => Inv'
         /\ \A p \in Hashes : Hashed(p) => Inv'
         /\ ImageRejected \/ LookedUp \/ SearchFails => Inv'
         /\ \A size \in 0..(MaxBytes + 1) : Uploaded(size) => Inv'
         /\ UploadFails => Inv'
<1>1. /\ pc \in {"upload", "validate", "fetch", "lookup", "search"} => route # "byBinding"
      /\ index \in SUBSET ManifestIds /\ maxResults \in Nat
      /\ status = 200 => pc = "done"
  BY DEF Inv, Routed, Binding, Progress, BindingTypes
<1>2. ASSUME NEW isImage, Fetched(isImage) PROVE Inv'
  <2>1. Elsewhere /\ route # "search"
    BY <1>1, <1>2, ErrorsAreErrors
    DEF Fetched, Elsewhere, KeepTable, Answer, GoTo, requestVars, Inv, Routed
  <2>2. pc' = "validate" \/ (pc' = "done" /\ status' # 200)
    BY <1>2, ErrorsAreErrors DEF Fetched, Answer, GoTo
  <2>3. CASE pc' = "validate"
    <3>1. Routed' /\ AnswerFitsRequest'
      BY <2>1, <2>3 DEF Elsewhere, Inv, Routed, AnswerFitsRequest
    <3> QED BY <2>1, <3>1, ElsewhereStep
  <2> QED BY <2>1, <2>2, <2>3, RefusedStep
<1>3. ASSUME NEW p \in Hashes, Hashed(p) PROVE Inv'
  <2>1. Elsewhere /\ route # "search" /\ asked' = asked /\ maxResults' = maxResults
    BY <1>1, <1>3 DEF Hashed, Elsewhere, KeepTable, Answer, GoTo, requestVars, Inv, Routed
  <2>2. \/ pc' = "search" /\ image' = p /\ searched' = SearchedFor(p)
        \/ pc' = "done" /\ status' # 200
    BY <1>3 DEF Hashed, Answer, GoTo
  <2>3. CASE pc' = "search" /\ image' = p /\ searched' = SearchedFor(p)
    <3>1. searched' = Sought'
      BY <2>1, <2>3 DEF Elsewhere, SearchedFor, Sought, Meant, HintComplete, Search
    <3>2. Meant.limit' \in Nat
      BY <1>1, <2>1 DEF Elsewhere, Meant
    <3>3. Routed'
      BY <2>1, <2>3, <3>1, <3>2 DEF Elsewhere, Inv, Routed
    <3>4. AnswerFitsRequest'
      BY <2>3 DEF AnswerFitsRequest
    <3> QED BY <2>1, <3>3, <3>4, ElsewhereStep
  <2> QED BY <2>1, <2>2, <2>3, RefusedStep
<1>4. ASSUME ImageRejected PROVE Inv'
  <2>1. Elsewhere /\ pc' = "done" /\ status' # 200
    BY <1>1, <1>4 DEF ImageRejected, Elsewhere, KeepTable, Answer, requestVars
  <2> QED BY <2>1, RefusedStep
<1>5. ASSUME LookedUp PROVE Inv'
  <2>1. /\ Elsewhere /\ route = "search" /\ asked' = asked /\ hashOf' = hashOf
        /\ index' = index /\ asked.hash = None /\ asked.limit \in Nat
    BY <1>1, <1>5, ErrorsAreErrors
    DEF LookedUp, Elsewhere, KeepTable, Answer, GoTo, requestVars, Inv, Routed
  <2>2. \/ /\ pc' = "search" /\ asked.manifest \in index
           /\ searched' = Search("phash", hashOf[asked.manifest], asked.threshold, asked.limit)
        \/ pc' = "done" /\ status' # 200
    BY <1>5, ErrorsAreErrors DEF LookedUp, Answer, GoTo
  <2>3. CASE pc' = "search"
    <3>1. searched' = Sought' /\ Meant.limit' \in Nat
      BY <2>1, <2>2, <2>3 DEF Elsewhere, Sought, Meant, Search
    <3>2. Routed'
      BY <2>1, <2>2, <2>3, <3>1 DEF Elsewhere, Inv, Routed
    <3>3. AnswerFitsRequest'
      BY <2>3 DEF AnswerFitsRequest
    <3> QED BY <2>1, <3>2, <3>3, ElsewhereStep
  <2> QED BY <2>1, <2>2, <2>3, RefusedStep
<1>6. ASSUME SearchFails PROVE Inv'
  <2>1. Elsewhere /\ pc' = "done" /\ status' # 200
    BY <1>1, <1>6, ErrorsAreErrors DEF SearchFails, Elsewhere, KeepTable, Answer, requestVars
  <2> QED BY <2>1, RefusedStep
<1>7. ASSUME NEW size, Uploaded(size) PROVE Inv'
  <2>1. Elsewhere /\ route # "search"
    BY <1>1, <1>7 DEF Uploaded, Elsewhere, KeepTable, Answer, GoTo, requestVars, Inv, Routed
  <2>2. pc' = "validate" \/ (pc' = "done" /\ status' # 200)
    BY <1>7 DEF Uploaded, Answer, GoTo
  <2>3. CASE pc' = "validate"
    <3>1. Routed' /\ AnswerFitsRequest'
      BY <2>1, <2>3 DEF Elsewhere, Inv, Routed, AnswerFitsRequest
    <3> QED BY <2>1, <3>1, ElsewhereStep
  <2> QED BY <2>1, <2>2, <2>3, RefusedStep
<1>8. ASSUME UploadFails PROVE Inv'
  <2>1. Elsewhere /\ pc' = "done" /\ status' # 200
    BY <1>1, <1>8 DEF UploadFails, Elsewhere, KeepTable, Answer, requestVars
  <2> QED BY <2>1, RefusedStep
<1> QED BY <1>2, <1>3, <1>4, <1>5, <1>6, <1>7, <1>8

\* The fetch goes on.
LEMMA FetchingStep ==
  ASSUME Inv, Fetching(Own) \/ Fetching(Remote) PROVE Inv'
<1>1. /\ pc = "fetch" /\ UNCHANGED <<tags, index, answered, failed, matches, hashOf>>
      /\ UNCHANGED <<maxResults, pc, status, requestVars, image, searched, items>>
  BY DEF Fetching, KeepTable
<1>2. Elsewhere
  BY <1>1 DEF Elsewhere, requestVars, Inv, Routed, Binding, Progress, BindingTypes
<1>3. Routed' /\ AnswerFitsRequest'
  BY <1>1, <1>2 DEF Elsewhere, Inv, Routed, AnswerFitsRequest
<1> QED BY <1>2, <1>3, ElsewhereStep

\* The search answers.
LEMMA SearchStep ==
  ASSUME Inv, SearchAnswers PROVE Inv'
<1>1. /\ pc = "search" /\ pc' = "done" /\ searched.alg # "other"
      /\ UNCHANGED <<tags, index, answered, failed, matches, hashOf>>
      /\ UNCHANGED <<maxResults, requestVars, image, searched>>
      /\ items' \in IF searched.alg = "iscc" THEN {{}}
                    ELSE Answers(index, hashOf, searched.value, searched.threshold, searched.limit)
  BY DEF SearchAnswers, Answer, KeepTable
<1>2. /\ searched.alg = Meant.alg /\ searched.value = Meant.hash
      /\ searched.threshold = Meant.threshold /\ searched.limit = Meant.limit
      /\ Meant.limit \in Nat
  BY <1>1 DEF Inv, Routed, Sought, Search
<1>3. Elsewhere
  BY <1>1 DEF Elsewhere, requestVars, Inv, Routed, Binding, Progress, BindingTypes
<1>4. Meant' = Meant
  BY <1>1 DEF Meant, HintComplete, requestVars
<1>5. Routed'
  BY <1>1, <1>3 DEF Elsewhere, Inv, Routed
<1>6. AnswerFitsRequest'
  <2> DEFINE near == IF Meant.alg = "iscc" THEN {}
                     ELSE {m \in index : Distance(hashOf[m], Meant.hash) <= Meant.threshold}
  <2>1. PICK answer : answer = items'
    OBVIOUS
  <2>2. /\ \A i \in answer : i.manifest \in near /\ i.distance = Distance(hashOf[i.manifest], Meant.hash)
        /\ Cardinality(answer) <= Meant.limit
        /\ \A m \in near \ Found(answer) :
             /\ Cardinality(answer) = Meant.limit
             /\ \A i \in answer : i.distance <= Distance(hashOf[m], Meant.hash)
    <3>1. CASE Meant.alg = "iscc"
      <4>1. answer = {} /\ near = {}
        BY <1>1, <1>2, <2>1, <3>1
      <4>2. Cardinality(answer) = 0
        BY <4>1, FS_EmptySet
      <4> QED BY <1>2, <4>1, <4>2
    <3>2. CASE Meant.alg # "iscc"
      <4>1. answer \in Answers(index, hashOf, Meant.hash, Meant.threshold, Meant.limit)
        BY <1>1, <1>2, <2>1, <3>2
      <4>2. near = {m \in index : Distance(hashOf[m], Meant.hash) <= Meant.threshold}
        BY <3>2
      <4>3. IsFiniteSet(index) /\ Meant.limit \in Nat
        BY <1>2, SearchAssumption, QueryAssumption, FS_Subset DEF Inv, Binding, BindingTypes
      <4> HIDE DEF near
      <4> QED BY <4>1, <4>2, <4>3, AnswersFit
    <3> QED BY <3>1, <3>2
  <2> QED BY <1>1, <1>4, <2>1, <2>2 DEF AnswerFitsRequest
<1> QED BY <1>3, <1>5, <1>6, ElsewhereStep

\* A webhook stores a manifest while a search is on its way: what the request means
\* is what it meant, for a manifest that is there keeps its hash.
LEMMA StoredStep ==
  ASSUME Inv, NEW m \in Manifests, NEW hash \in Hashes, Stored(m, hash) PROVE Inv'
<1>1. /\ pc \in {"lookup", "search"} /\ m \notin index /\ index' = index \cup {m}
      /\ hashOf' = [o \in index' |-> IF o = m THEN hash ELSE hashOf[o]]
      /\ UNCHANGED <<tags, maxResults, pc, answered, failed, matches, status>>
      /\ UNCHANGED <<route, asked, image, searched, items>>
  BY DEF Stored, requestVars
<1>2. Elsewhere
  BY <1>1, QueryAssumption
  DEF Elsewhere, Inv, Routed, Binding, Progress, BindingTypes
<1>3. \A o \in index : hashOf'[o] = hashOf[o]
  BY <1>1
<1>4. pc = "search" => Meant' = Meant
  BY <1>1, <1>3 DEF Inv, Routed, Meant, HintComplete
<1>5. Routed'
  BY <1>1, <1>4 DEF Inv, Routed, Sought
<1>6. AnswerFitsRequest'
  BY <1>1 DEF AnswerFitsRequest
<1> QED BY <1>2, <1>5, <1>6, ElsewhereStep

\* The steps of the lookup of a binding.
LEMMA LookupStep ==
  ASSUME Inv
  PROVE  /\ Bound(LocalAnswers) \/ Bound(LocalFails) => Inv'
         /\ Bound(GatewayFails) \/ Bound(GatewayRaises) => Inv'
         /\ \A nodes \in SeqOf(Node, MaxAsked) : Bound(GatewayAnswers(nodes)) => Inv'
         /\ \A m \in Manifests : Bound(Indexed(m)) => Inv'
<1>1. ASSUME route' = "byBinding", Binding', pc' \in {"gateway", "local", "done"} PROVE Inv'
  BY <1>1 DEF Inv, Routed, AnswerFitsRequest
<1>2. ASSUME Bound(LocalAnswers) \/ Bound(LocalFails) PROVE Inv'
  <2>1. route' = "byBinding" /\ pc' = "done"
    BY <1>2 DEF Bound, requestVars, LocalAnswers, LocalFails, Finish
  <2>2. Binding'
    BY <1>2, BindingStep DEF Bound, Inv
  <2> QED BY <1>1, <2>1, <2>2
<1>3. ASSUME Bound(GatewayFails) \/ Bound(GatewayRaises) PROVE Inv'
  <2>1. route' = "byBinding" /\ pc' \in {"local", "done"}
    BY <1>3 DEF Bound, requestVars, GatewayFails, GatewayRaises, Continue
  <2>2. Binding'
    BY <1>3, BindingStep DEF Bound, Inv
  <2> QED BY <1>1, <2>1, <2>2
<1>4. ASSUME NEW nodes \in SeqOf(Node, MaxAsked), Bound(GatewayAnswers(nodes)) PROVE Inv'
  <2>1. route' = "byBinding" /\ pc' \in {"local", "done"}
    BY <1>4 DEF Bound, requestVars, GatewayAnswers, Continue
  <2>2. Binding'
    BY <1>4, BindingStep DEF Bound, Inv
  <2> QED BY <1>1, <2>1, <2>2
<1>5. ASSUME NEW m \in Manifests, Bound(Indexed(m)) PROVE Inv'
  <2>1. route' = "byBinding" /\ pc' \in {"gateway", "local"}
    BY <1>5 DEF Bound, requestVars, Indexed
  <2>2. Binding'
    BY <1>5, BindingStep DEF Bound, Inv
  <2> QED BY <1>1, <2>1, <2>2
<1> QED BY <1>2, <1>3, <1>4, <1>5

(***************************************************************************)
(* The routes together                                                     *)
(***************************************************************************)
\* Before the request nothing has been asked of anybody.
LEMMA Begins == Init => Inv
<1> SUFFICES ASSUME Init PROVE Inv
  OBVIOUS
<1>1. /\ pc = "request" /\ answered = <<>> /\ failed = {} /\ matches = <<>> /\ status = 0
      /\ maxResults = 0 /\ index = {} /\ tags \in Chain
  BY DEF Init, BindingInit, Chain
<1>2. LatestEndpoint
  BY <1>1 DEF LatestEndpoint
<1> QED BY <1>1, <1>2
        DEF Inv, Binding, BindingTypes, Progress, Reports, MadeUp, Routed, AnswerFitsRequest

\* Every step of every route keeps it.
LEMMA Step == Inv /\ [Next]_vars => Inv'
<1> SUFFICES ASSUME Inv, [Next]_vars PROVE Inv'
  OBVIOUS
<1>1. CASE Receive
  BY <1>1, ReceiveStep
<1>2. CASE Local
  BY <1>2, FetchingStep, HandlerStep, SearchStep, LookupStep DEF Local
<1>3. CASE Outside
  <2>1. ASSUME NEW m \in Manifests, NEW hash \in Hashes, Stored(m, hash) PROVE Inv'
    BY <2>1, StoredStep
  <2> QED BY <1>3, <2>1, FetchingStep, HandlerStep, LookupStep DEF Outside
<1>4. CASE UNCHANGED vars
  <2>1. /\ UNCHANGED <<tags, index, maxResults, pc, answered, failed, matches, status>>
        /\ UNCHANGED <<route, asked, hashOf, image, searched, items>>
    BY <1>4 DEF vars, bindingVars, requestVars, searchVars
  <2>2. Binding'
    BY <2>1 DEF Inv, Binding, BindingTypes, Progress, Reports, MadeUp, LatestEndpoint,
                Reported, Ids
  <2>3. Meant' = Meant
    BY <2>1 DEF Meant, HintComplete
  <2>4. Routed'
    BY <2>1, <2>3 DEF Inv, Routed, Sought
  <2>5. AnswerFitsRequest'
    BY <2>1, <2>3 DEF Inv, AnswerFitsRequest
  <2> QED BY <2>2, <2>4, <2>5 DEF Inv
<1> QED BY <1>1, <1>2, <1>3, <1>4 DEF Next

\* The invariant of the requests holds in every reachable state.
LEMMA Invariance == Spec => []Inv
BY Begins, Step, PTL DEF Spec

\* byBinding gives for every manifest the endpoint of the latest transaction the gateway
\* reported, in whatever order and however often it reported the older ones.
THEOREM LatestEndpointHolds == Spec => []LatestEndpoint
<1>1. Inv => LatestEndpoint
  BY DEF Inv, Binding, Reports
<1> QED BY <1>1, Invariance, PTL

\* When one source of byBinding fails, the answer is what the other one gives, while
\* webhooks go on indexing.
THEOREM OtherSourceSufficesHolds == Spec => []OtherSourceSuffices
<1>1. Inv => OtherSourceSuffices
  BY DEF Inv, Binding, Reports, MadeUp, OtherSourceSuffices
<1> QED BY <1>1, Invariance, PTL

\* Every answer of the routes that search is one to the request that was made, whatever
\* is stored between the two.
THEOREM AnswerFitsRequestHolds == Spec => []AnswerFitsRequest
<1>1. Inv => AnswerFitsRequest
  BY DEF Inv
<1> QED BY <1>1, Invariance, PTL

(***************************************************************************)
(* Types                                                                   *)
(***************************************************************************)
Statuses == {0, 200, 400, 404, 413, 415, 500, 501, 502, 504}
Stages ==
  {"request", "upload", "fetch", "validate", "lookup", "search", "gateway", "local", "done"}

\* What the search routes look for.
Searches ==
  [alg : Algs, value : Hashes \cup {Malformed}, threshold : Nat, limit : 0..MaxAsked]
Items == [manifest : Manifests, distance : Nat]

Indexing == route # "byBinding" => hashOf \in [index -> Hashes]

\* While it is on its way a request is what its route parses.
Asking ==
  /\ asked \in Hinted \cup Similar \cup {None}
  /\ pc \in {"upload", "fetch", "validate"} => asked \in Hinted
  /\ pc = "lookup" => asked \in Similar

Searching ==
  /\ image \in Hashes \cup {None}
  /\ searched \in Searches \cup {None}
  /\ pc = "search" => searched \in Searches
  /\ items \subseteq Items

Typed ==
  /\ route \in {"byBinding", "byContent", "byReference", "search"}
  /\ pc \in Stages /\ status \in Statuses
  /\ maxResults \in 0..MaxAsked
  /\ Indexing /\ Asking /\ Searching

\* No request asks for more than the cap.
LEMMA ParsedIsCapped ==
  ASSUME NEW input \in Inputs
  PROVE  ParseMaxResults(input) \in 0..MaxAsked
<1>1. MaxAsked \in Nat /\ DefaultAsked \in 0..MaxAsked /\ input \in Nat
  BY ResolveAssumption DEF Inputs
<1>2. Min({input, MaxAsked}) \in 0..MaxAsked
  BY <1>1, MinOfTwo
<1> QED BY <1>1, <1>2 DEF ParseMaxResults

\* A hash differs from another in a number of bits.
LEMMA DistanceIsNat ==
  ASSUME NEW p \in Hashes, NEW q \in Hashes
  PROVE  Distance(p, q) \in Nat
<1>1. (p \ q) \cup (q \ p) \subseteq Bits
  BY DEF Hashes
<1> QED BY <1>1, SearchAssumption, FS_Subset, FS_CardinalityType DEF Distance

\* A search finds manifests with their distance.
LEMMA AnswersTyped ==
  ASSUME index \subseteq Manifests, hashOf \in [index -> Hashes],
         NEW p \in Hashes, NEW threshold, NEW limit,
         NEW answer \in Answers(index, hashOf, p, threshold, limit)
  PROVE  answer \subseteq Items
<1> DEFINE near == {m \in index : Within(hashOf[m], p, threshold)}
<1>1. PICK T \in SUBSET near : answer = {Item(m, Distance(hashOf[m], p)) : m \in T}
  BY DEF Answers
<1>2. \A m \in T : Item(m, Distance(hashOf[m], p)) \in Items
  BY DistanceIsNat DEF Item, Items
<1> QED BY <1>1, <1>2

\* The statuses of an error.
LEMMA ErrorStatuses ==
  /\ FetchStatus \in Statuses
  /\ \A words : MessageStatus(words) \in Statuses
BY DEF FetchStatus, MessageStatus, Statuses

\* A request about a binding asks nothing else.
LEMMA BoundTyped ==
  ASSUME Typed, route = "byBinding",
         UNCHANGED <<route, asked, image, searched, items>>,
         pc' \in {"gateway", "local", "done"},
         status' \in Statuses, maxResults' \in 0..MaxAsked
  PROVE  Typed'
BY DEF Typed, Indexing, Asking, Searching, Stages

\* A handler is called,
LEMMA ReceiveTyped ==
  ASSUME Inv, Typed, Receive
  PROVE  Typed'
<1> USE DEF Statuses, Stages
<1>1. ASSUME NEW h \in Hinted, NEW input \in Inputs, NEW isImage, NEW announced,
             ReceiveContent(h, input, isImage, announced)
      PROVE  Typed'
  <2>1. maxResults' \in 0..MaxAsked /\ asked' = h
    BY <1>1, ParsedIsCapped DEF ReceiveContent
  <2>2. pc' \in {"upload", "done"} /\ status' \in Statuses
    BY <1>1 DEF ReceiveContent, Answer, GoTo, Typed
  <2>3. UNCHANGED <<route, index, hashOf, image, searched, items>>
    BY <1>1 DEF ReceiveContent, KeepTable
  <2> QED BY <2>1, <2>2, <2>3 DEF Typed, Indexing, Asking, Searching
<1>2. ASSUME NEW h \in Hinted, NEW input \in Inputs, NEW enabled, NEW malformed,
             NEW announced, ReceiveReference(h, input, enabled, malformed, announced)
      PROVE  Typed'
  <2>1. maxResults' \in 0..MaxAsked /\ asked' = h
    BY <1>2, ParsedIsCapped DEF ReceiveReference
  <2>2. pc' \in {"fetch", "done"} /\ status' \in Statuses
    BY <1>2 DEF ReceiveReference, Answer, GoTo, Typed
  <2>3. UNCHANGED <<route, index, hashOf, image, searched, items>>
    BY <1>2 DEF ReceiveReference, KeepTable
  <2> QED BY <2>1, <2>2, <2>3 DEF Typed, Indexing, Asking, Searching
<1>3. ASSUME NEW q \in Similar, ReceiveSimilar(q) PROVE Typed'
  <2>1. /\ asked' = q
        /\ UNCHANGED <<maxResults, route, index, hashOf, image, items>>
    BY <1>3 DEF ReceiveSimilar, KeepTable
  <2>2. \/ /\ pc' = "search" /\ status' = status /\ q.hash # None
           /\ searched' = Search("phash", q.hash, q.threshold, q.limit)
        \/ pc' \in {"lookup", "done"} /\ status' \in Statuses /\ searched' = searched
    BY <1>3 DEF ReceiveSimilar, Answer, GoTo, Typed
  <2>3. q.hash # None => Search("phash", q.hash, q.threshold, q.limit) \in Searches
    BY ResolveAssumption, QueryAssumption DEF Similar, Search, Searches, Algs, Computable
  <2> QED BY <2>1, <2>2, <2>3 DEF Typed, Indexing, Asking, Searching
<1>4. ASSUME NEW words, RefuseSimilar(MessageStatus(words)) PROVE Typed'
  <2>1. pc' = "done" /\ status' \in Statuses
    BY <1>4, ErrorStatuses DEF RefuseSimilar, Answer
  <2>2. UNCHANGED <<maxResults, route, asked, index, hashOf, image, searched, items>>
    BY <1>4 DEF RefuseSimilar, KeepTable, requestVars
  <2> QED BY <2>1, <2>2 DEF Typed, Indexing, Asking, Searching
<1>5. ASSUME NEW input \in Inputs, Bound(AskBinding(input)) PROVE Typed'
  <2>1. maxResults' \in 0..MaxAsked
    BY <1>5, ParsedIsCapped DEF Bound, AskBinding
  <2>2. pc' = "gateway" /\ status' \in Statuses
    BY <1>5 DEF Bound, AskBinding, Typed
  <2> QED BY <1>5, <2>1, <2>2, BoundTyped DEF Bound, requestVars, searchVars
<1>6. ASSUME Bound(RefuseBinding) PROVE Typed'
  <2>1. pc' = "done" /\ status' \in Statuses /\ maxResults' = maxResults
    BY <1>6 DEF Bound, RefuseBinding
  <2> QED BY <1>6, <2>1, BoundTyped DEF Bound, requestVars, searchVars, Typed
<1> QED BY <1>1, <1>2, <1>3, <1>4, <1>5, <1>6 DEF Receive

\* goes on,
LEMMA HandlerTyped ==
  ASSUME Inv, Typed
  PROVE  /\ \A isImage \in BOOLEAN : Fetched(isImage) => Typed'
         /\ \A p \in Hashes : Hashed(p) => Typed'
         /\ ImageRejected \/ LookedUp \/ SearchAnswers \/ SearchFails => Typed'
         /\ \A size \in 0..(MaxBytes + 1) : Uploaded(size) => Typed'
         /\ UploadFails => Typed'
         /\ Fetching(Own) \/ Fetching(Remote) => Typed'
<1>1. ASSUME UNCHANGED <<maxResults, route, asked, index, hashOf, image, searched, items>>,
             pc' = pc \/ pc' = "done" \/ (pc \in {"upload", "fetch"} /\ pc' = "validate"),
             status' \in Statuses
      PROVE  Typed'
  BY <1>1 DEF Typed, Indexing, Asking, Searching, Stages
<1>2. ASSUME NEW isImage, Fetched(isImage) PROVE Typed'
  <2>1. pc = "fetch" /\ pc' \in {"done", "validate"} /\ status' \in Statuses
    BY <1>2, ErrorStatuses DEF Fetched, Answer, GoTo, Typed, Statuses
  <2> QED BY <1>1, <1>2, <2>1 DEF Fetched, KeepTable, requestVars
<1>3. ASSUME NEW p \in Hashes, Hashed(p) PROVE Typed'
  <2>1. /\ pc = "validate" /\ asked \in Hinted
        /\ UNCHANGED <<maxResults, route, asked, index, hashOf, items>>
    BY <1>3 DEF Hashed, KeepTable, requestVars, Typed, Asking
  <2>2. SearchedFor(p) \in Searches
    <3>1. maxResults \in 0..MaxAsked /\ MatchThreshold \in Nat
      BY QueryAssumption DEF Typed
    <3>2. HintComplete => asked.hintAlg \in Algs /\ asked.hintValue \in Hashes \cup {Malformed}
      BY <2>1, QueryAssumption DEF HintComplete, Hinted
    <3>3. {"iscc", "phash"} \subseteq Algs
      BY DEF Algs, Computable
    <3> QED BY <3>1, <3>2, <3>3 DEF SearchedFor, Search, Searches
  <2>3. \/ pc' = "search" /\ status' = status /\ image' = p /\ searched' = SearchedFor(p)
        \/ pc' = "done" /\ status' = 400 /\ UNCHANGED <<image, searched>>
    BY <1>3 DEF Hashed, Answer, GoTo
  <2> QED BY <2>1, <2>2, <2>3 DEF Typed, Indexing, Asking, Searching, Stages, Statuses
<1>4. ASSUME ImageRejected \/ SearchFails \/ UploadFails PROVE Typed'
  <2>1. pc' = "done" /\ status' \in Statuses
    BY <1>4, ErrorStatuses
       DEF ImageRejected, SearchFails, UploadFails, Answer, Statuses
  <2> QED BY <1>1, <1>4, <2>1
          DEF ImageRejected, SearchFails, UploadFails, KeepTable, requestVars
<1>5. ASSUME LookedUp PROVE Typed'
  <2>1. /\ pc = "lookup" /\ asked \in Similar /\ route # "byBinding"
        /\ UNCHANGED <<maxResults, route, asked, index, hashOf, image, items>>
    BY <1>5 DEF LookedUp, KeepTable, requestVars, Typed, Asking, Inv, Routed
  <2>2. asked.manifest \in index =>
          Search("phash", hashOf[asked.manifest], asked.threshold, asked.limit) \in Searches
    BY <2>1, ResolveAssumption, QueryAssumption
       DEF Typed, Indexing, Similar, Search, Searches, Algs, Computable
  <2>3. \/ /\ pc' = "search" /\ status' = status /\ asked.manifest \in index
           /\ searched' = Search("phash", hashOf[asked.manifest], asked.threshold, asked.limit)
        \/ pc' = "done" /\ status' \in Statuses /\ searched' = searched
    BY <1>5, ErrorStatuses DEF LookedUp, Answer, GoTo
  <2> QED BY <2>1, <2>2, <2>3 DEF Typed, Indexing, Asking, Searching, Stages
<1>6. ASSUME SearchAnswers PROVE Typed'
  <2>1. /\ pc = "search" /\ pc' = "done" /\ status' = 200
        /\ searched.alg # "other" /\ ~(searched.alg = "phash" /\ searched.value = Malformed)
        /\ UNCHANGED <<maxResults, route, asked, index, hashOf, image, searched>>
        /\ items' \in IF searched.alg = "iscc" THEN {{}}
                      ELSE Answers(index, hashOf, searched.value, searched.threshold, searched.limit)
    BY <1>6 DEF SearchAnswers, KeepTable, requestVars, Answer
  <2>2. /\ index \subseteq Manifests /\ hashOf \in [index -> Hashes]
        /\ searched \in Searches
    BY <2>1, QueryAssumption
       DEF Inv, Binding, BindingTypes, Routed, Typed, Indexing, Searching
  <2>3. items' \subseteq Items
    <3>1. CASE searched.alg = "iscc"
      BY <2>1, <3>1
    <3>2. CASE searched.alg # "iscc"
      <4>1. searched.value \in Hashes
        BY <2>1, <2>2, <3>2 DEF Searches, Algs, Computable
      <4> QED BY <2>1, <2>2, <3>2, <4>1, AnswersTyped
    <3> QED BY <3>1, <3>2
  <2> QED BY <2>1, <2>3 DEF Typed, Indexing, Asking, Searching, Stages, Statuses
<1>7. ASSUME NEW size, Uploaded(size) PROVE Typed'
  <2>1. pc = "upload" /\ pc' \in {"done", "validate"} /\ status' \in Statuses
    BY <1>7 DEF Uploaded, Answer, GoTo, Typed, Statuses
  <2> QED BY <1>1, <1>7, <2>1 DEF Uploaded, KeepTable, requestVars
<1>8. ASSUME Fetching(Own) \/ Fetching(Remote) PROVE Typed'
  <2>1. /\ UNCHANGED <<index, hashOf, maxResults, pc, status, route, asked>>
        /\ UNCHANGED <<image, searched, items>>
    BY <1>8 DEF Fetching, KeepTable, requestVars
  <2> QED BY <1>1, <2>1 DEF Typed
<1> QED BY <1>2, <1>3, <1>4, <1>5, <1>6, <1>7, <1>8

\* and may be one of those that look up a binding.
LEMMA LookupTyped ==
  ASSUME Typed
  PROVE  /\ Bound(LocalAnswers) \/ Bound(LocalFails) => Typed'
         /\ Bound(GatewayFails) \/ Bound(GatewayRaises) => Typed'
         /\ \A nodes \in SeqOf(Node, MaxAsked) : Bound(GatewayAnswers(nodes)) => Typed'
         /\ \A m \in Manifests : Bound(Indexed(m)) => Typed'
<1> DEFINE Alone == route = "byBinding" /\ UNCHANGED <<route, asked, image, searched, items>>
           Moved == /\ maxResults' = maxResults /\ status' \in Statuses
                    /\ pc' \in {"gateway", "local", "done"}
<1>1. Alone /\ Moved => Typed'
  BY BoundTyped DEF Typed
<1>2. ASSUME Bound(LocalAnswers) \/ Bound(LocalFails) PROVE Typed'
  <2>1. Alone
    BY <1>2 DEF Bound, requestVars, searchVars
  <2>2. \E found : Finish(found) /\ UNCHANGED <<maxResults>>
    BY <1>2 DEF Bound, LocalAnswers, LocalFails
  <2>3. Moved
    BY <2>2 DEF Finish, Statuses
  <2> QED BY <1>1, <2>1, <2>3
<1>3. ASSUME Bound(GatewayFails) \/ Bound(GatewayRaises) PROVE Typed'
  <2>1. Alone
    BY <1>3 DEF Bound, requestVars, searchVars
  <2>2. Moved
    BY <1>3 DEF Bound, GatewayFails, GatewayRaises, Continue, Statuses
  <2> QED BY <1>1, <2>1, <2>2
<1>4. ASSUME NEW nodes, Bound(GatewayAnswers(nodes)) PROVE Typed'
  <2>1. Alone
    BY <1>4 DEF Bound, requestVars, searchVars
  <2>2. Moved
    BY <1>4 DEF Bound, GatewayAnswers, Continue, Statuses
  <2> QED BY <1>1, <2>1, <2>2
<1>5. ASSUME NEW m, Bound(Indexed(m)) PROVE Typed'
  <2>1. Alone
    BY <1>5 DEF Bound, requestVars, searchVars
  <2>2. Moved
    BY <1>5 DEF Bound, Indexed, Typed
  <2> QED BY <1>1, <2>1, <2>2
<1> QED BY <1>2, <1>3, <1>4, <1>5

\* Every step keeps the types.
LEMMA TypedStep ==
  ASSUME Inv, Typed, [Next]_vars
  PROVE  Typed'
<1>1. CASE Receive
  BY <1>1, ReceiveTyped
<1>2. CASE Local
  BY <1>2, HandlerTyped, LookupTyped DEF Local
<1>3. CASE Outside
  <2>1. ASSUME NEW m \in Manifests, NEW hash \in Hashes, Stored(m, hash) PROVE Typed'
    <3>1. /\ route # "byBinding" /\ index' = index \cup {m}
          /\ hashOf' = [o \in index' |-> IF o = m THEN hash ELSE hashOf[o]]
          /\ UNCHANGED <<maxResults, pc, status, route, asked, image, searched, items>>
      BY <2>1 DEF Stored, requestVars, Inv, Routed
    <3>2. hashOf' \in [index' -> Hashes]
      BY <3>1 DEF Typed, Indexing
    <3> QED BY <3>1, <3>2 DEF Typed, Indexing, Asking, Searching
  <2> QED BY <1>3, <2>1, HandlerTyped, LookupTyped DEF Outside
<1>4. CASE UNCHANGED vars
  BY <1>4 DEF vars, bindingVars, requestVars, searchVars, Typed, Indexing, Asking, Searching
<1> QED BY <1>1, <1>2, <1>3, <1>4 DEF Next

\* The request, the lookup, the fetch and the search keep their types on every route.
THEOREM TypeCorrect == Spec => []TypeOK
<1>1. Init => Typed
  BY ResolveAssumption
     DEF Init, BindingInit, Typed, Indexing, Asking, Searching, Statuses, Stages
<1>2. Inv /\ Typed /\ [Next]_vars => Typed'
  BY TypedStep
<1>3. Inv /\ Typed => BindingTypeOK
  <2> SUFFICES ASSUME Inv, Typed PROVE BindingTypeOK
    OBVIOUS
  <2>1. \A id \in TxIds : tags[id] \in Tagged
    BY DEF Inv, Binding, BindingTypes, Chain, Tagged
  <2> QED BY <2>1 DEF Inv, Binding, BindingTypes, Matches, Typed, BindingTypeOK
<1>4. Typed /\ BindingTypeOK /\ FetchTypeOK => TypeOK
  BY DEF Typed, Indexing, Asking, Searching, Statuses, Stages, Searches, Items, TypeOK
<1> QED BY <1>1, <1>2, <1>3, <1>4, Invariance, FetchTyped, PTL DEF Spec

(***************************************************************************)
(* The parts in the whole                                                  *)
(***************************************************************************)
\* On its own route the lookup of a binding takes only its own steps, and no other
\* route takes any of them.
LEMMA LookupGoesOn ==
  ASSUME Inv, route = "byBinding", [Next]_vars
  PROVE  [BindingNext]_bindingVars /\ route' = "byBinding"
<1>1. pc \notin {"upload", "validate", "fetch", "lookup", "search"}
  BY DEF Inv, Routed
<1>2. CASE Receive
  <2>1. \/ \E input \in Inputs : Bound(AskBinding(input))
        \/ Bound(RefuseBinding)
    BY <1>2 DEF Receive
  <2> QED BY <2>1 DEF BindingNext, Inputs, Bound, requestVars
<1>3. CASE Local
  <2>1. Bound(LocalAnswers) \/ Bound(LocalFails)
    BY <1>1, <1>3 DEF Local, Fetching, Fetched, Hashed, ImageRejected, LookedUp, SearchAnswers,
                      SearchFails
  <2> QED BY <2>1 DEF BindingNext, Bound, requestVars
<1>4. CASE Outside
  <2>1. \/ \E nodes \in SeqOf(Node, MaxAsked) : Bound(GatewayAnswers(nodes))
        \/ Bound(GatewayFails) \/ Bound(GatewayRaises)
        \/ \E m \in Manifests : Bound(Indexed(m))
    BY <1>1, <1>4 DEF Outside, Fetching, Uploaded, UploadFails, Stored
  <2> QED BY <2>1, QueryAssumption DEF BindingNext, Bound, requestVars
<1>5. CASE UNCHANGED vars
  BY <1>5 DEF vars, requestVars
<1> QED BY <1>2, <1>3, <1>4, <1>5 DEF Next

\* A request to byBinding runs as the lookup does alone: what is proved or checked of
\* SoftBindingResolve holds of it among the other routes.
THEOREM LookupComposes == Spec /\ route = "byBinding" => BindingSpec
<1>1. Init => BindingInit
  BY DEF Init
<1>2. Inv /\ route = "byBinding" /\ [Next]_vars =>
        [BindingNext]_bindingVars /\ (route = "byBinding")'
  BY LookupGoesOn
<1> QED BY <1>1, <1>2, Invariance, PTL DEF Spec, BindingSpec

\* And the fetch of a reference runs as it does alone, until its handler is done with it.
THEOREM FetchComposes == Spec => FetchInit /\ [][FetchNext \/ FetchInit']_fetchVars
<1>1. Init => FetchInit
  BY DEF Init
<1>2. [Next]_vars => [FetchNext \/ FetchInit']_fetchVars
  BY FetchGoesOn DEF vars
<1> QED BY <1>1, <1>2, PTL DEF Spec

\* A step of the lookup leaves no more than half of its room empty.
LEMMA RoomStep ==
  ASSUME Binding, RoomHalfFilled, [BindingNext]_bindingVars
  PROVE  RoomHalfFilled'
<1>1. /\ maxResults \in Nat /\ matches \in Seq(Matches)
      /\ status = 200 => pc = "done"
      /\ pc = "local" => Len(matches) < maxResults
  BY DEF Binding, BindingTypes, Progress
<1>2. Len(matches) \in Nat
  BY <1>1, LenProperties
<1>3. \A input : AskBinding(input) => RoomHalfFilled'
  BY <1>1 DEF AskBinding, RoomHalfFilled
<1>4. RefuseBinding \/ GatewayRaises => RoomHalfFilled'
  BY DEF RefuseBinding, GatewayRaises, RoomHalfFilled
<1>5. \A m : Indexed(m) => RoomHalfFilled'
  BY <1>1 DEF Indexed, RoomHalfFilled
<1>6. ASSUME NEW found, Continue(found), Len(found) \in Nat, maxResults' = maxResults
      PROVE  RoomHalfFilled'
  BY <1>1, <1>6 DEF Continue, RoomHalfFilled
<1>7. ASSUME NEW nodes \in SeqOf(Node, MaxAsked), GatewayAnswers(nodes) PROVE RoomHalfFilled'
  <2>1. nodes \in Seq(Node) /\ Len(nodes) <= maxResults /\ tags \in Chain
    BY <1>7, ResolveAssumption DEF SeqOf, GatewayAnswers, Binding, BindingTypes
  <2>2. PICK found : found = FromGateway(LookupBySoftBinding(nodes, tags, maxResults))
    OBVIOUS
  <2>3. found \in Seq(Matches)
    BY <1>1, <2>1, <2>2, GatewayMatches DEF Chain
  <2>4. Len(found) \in Nat
    BY <2>3, LenProperties
  <2>5. Continue(found) /\ maxResults' = maxResults
    BY <1>7, <2>2 DEF GatewayAnswers
  <2> QED BY <1>6, <2>4, <2>5
<1>8. CASE GatewayFails
  BY <1>6, <1>8 DEF GatewayFails
<1>9. CASE LocalAnswers
  <2>1. PICK more : Adds(more)
    BY <1>9, TableAdds
  <2>2. PICK size : size = Cardinality(index)
    OBVIOUS
  <2>3. size \in Nat
    BY <2>2, SearchAssumption, QueryAssumption, FS_Subset, FS_CardinalityType
    DEF Binding, BindingTypes
  <2>4. pc = "local" /\ maxResults' = maxResults /\ index' = index
    BY <1>9 DEF LocalAnswers
  <2>5. PICK a : a = Len(matches)
    OBVIOUS
  <2>6. PICK b : b = Len(more)
    OBVIOUS
  <2>7. a \in Nat /\ b \in Nat /\ a < maxResults
    BY <1>1, <1>2, <2>1, <2>4, <2>5, <2>6, LenProperties DEF Adds
  <2>8. a + b >= IF maxResults - a <= size THEN maxResults - a ELSE size
    <3>1. maxResults - a \in Nat
      BY <1>1, <2>7
    <3>2. Min({maxResults - a, size}) = IF maxResults - a <= size THEN maxResults - a ELSE size
      BY <2>3, <3>1, MinOfTwo
    <3> QED BY <2>1, <2>2, <2>5, <2>6, <3>2 DEF Adds, Limit
  <2>9. Len(matches') = IF a + b <= maxResults THEN a + b ELSE maxResults
    <3>1. PICK cut : cut = matches'
      OBVIOUS
    <3>2. cut = SubSeq(matches \o more, 1, Min({Len(matches \o more), maxResults}))
      BY <2>1, <3>1 DEF Adds, Finish
    <3>3. Len(matches) <= maxResults /\ more \in Seq(Matches)
      BY <1>1, <2>1, <2>5, <2>7 DEF Adds
    <3>4. Len(cut) = IF Len(matches) + Len(more) <= maxResults
                     THEN Len(matches) + Len(more) ELSE maxResults
      BY <1>1, <3>2, <3>3, CutKeeps
    <3> QED BY <2>5, <2>6, <3>1, <3>4
  <2>10. 2 * Len(matches') >= maxResults \/ Len(matches') >= size
    BY <1>1, <2>3, <2>7, <2>8, <2>9
  <2> QED BY <2>2, <2>4, <2>10 DEF RoomHalfFilled
<1>10. CASE LocalFails
  BY <1>10 DEF LocalFails, RoomHalfFilled
<1>11. CASE UNCHANGED bindingVars
  BY <1>11 DEF bindingVars, RoomHalfFilled
<1> QED BY <1>3, <1>4, <1>5, <1>7, <1>8, <1>9, <1>10, <1>11 DEF BindingNext

\* A request to another route stays one.
LEMMA OtherRoutesStay ==
  ASSUME route # "byBinding", [Next]_vars
  PROVE  route' = route
<1>1. CASE Receive
  BY <1>1 DEF Receive, ReceiveContent, ReceiveReference, ReceiveSimilar, RefuseSimilar, Bound,
              requestVars
<1>2. CASE Local
  BY <1>2 DEF Local, Fetching, Fetched, Hashed, ImageRejected, LookedUp, SearchAnswers,
              SearchFails, Bound, requestVars
<1>3. CASE Outside
  BY <1>3 DEF Outside, Fetching, Uploaded, UploadFails, Stored, Bound, requestVars
<1>4. CASE UNCHANGED vars
  BY <1>4 DEF vars, requestVars
<1> QED BY <1>1, <1>2, <1>3, <1>4 DEF Next

\* The LIMIT of the local query (src/routes/softbinding.ts) may be spent on manifests the
\* gateway has given already, so that the answer has room while a match is missing; it
\* never costs more than half of the room.
THEOREM RoomHalfFilledHolds == Spec => []BindingRoomHalfFilled
<1>1. Init => BindingRoomHalfFilled
  BY DEF Init, BindingInit, RoomHalfFilled, BindingRoomHalfFilled
<1>2. Inv /\ BindingRoomHalfFilled /\ [Next]_vars => BindingRoomHalfFilled'
  <2> SUFFICES ASSUME Inv, BindingRoomHalfFilled, [Next]_vars PROVE BindingRoomHalfFilled'
    OBVIOUS
  <2>1. CASE route = "byBinding"
    <3>1. [BindingNext]_bindingVars /\ Binding /\ RoomHalfFilled
      BY <2>1, LookupGoesOn DEF BindingRoomHalfFilled, Inv
    <3>2. RoomHalfFilled'
      BY <3>1, RoomStep
    <3> QED BY <3>2 DEF BindingRoomHalfFilled
  <2>2. CASE route # "byBinding"
    BY <2>2, OtherRoutesStay DEF BindingRoomHalfFilled
  <2> QED BY <2>1, <2>2
<1> QED BY <1>1, <1>2, Invariance, PTL DEF Spec
=============================================================================
