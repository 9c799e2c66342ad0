---------------------- MODULE RemoteManifestCacheProofs ----------------------
(***************************************************************************)
(* The cache for every set of handlers, locators and bodies, every size,   *)
(* digest and limit: a body is cached, and served, only under the digest   *)
(* it was checked against; the byte counter never drifts from what is      *)
(* cached; and what goes is expired, or the least recently used.           *)
(***************************************************************************)
EXTENDS RemoteManifestCache, FiniteSetTheorems, WellFoundedInduction, TLAPS

(***************************************************************************)
(* Sizes                                                                   *)
(***************************************************************************)
Bodied(held, keys) == IsFiniteSet(keys) /\ \A k \in keys : held[k].body \in Bodies

\* The bytes under one key are as many as its body has.
LEMMA SizeOfOne ==
  ASSUME NEW held, NEW k, held[k].body \in Bodies
  PROVE  /\ IsFiniteSet(BytesOf(held, {k}))
         /\ TotalSize(held, {k}) = Size[held[k].body]
<1> DEFINE n == Size[held[k].body]
<1>1. n \in Nat
  BY CacheAssumption
<1>2. BytesOf(held, {k}) = {k} \X (1..n)
  BY DEF BytesOf
<1> HIDE DEF n
<1>3. PICK places : places = 1..n
  OBVIOUS
<1>4. IsFiniteSet(places) /\ Cardinality(places) = n
  BY <1>1, <1>3, FS_Interval
<1>5. PICK key : key = {k}
  OBVIOUS
<1>6. IsFiniteSet(key) /\ Cardinality(key) = 1
  BY <1>5, FS_Singleton
<1>7. IsFiniteSet(key \X places) /\ Cardinality(key \X places) = Cardinality(key) * Cardinality(places)
  BY <1>4, <1>6, FS_Product
<1>8. BytesOf(held, {k}) = key \X places
  BY <1>2, <1>3, <1>5
<1>9. TotalSize(held, {k}) = 1 * n
  BY <1>4, <1>6, <1>7, <1>8 DEF TotalSize
<1>10. 1 * n = n
  BY <1>1
<1> QED BY <1>7, <1>8, <1>9, <1>10 DEF n

\* Finitely many bodies have finitely many bytes.
LEMMA BytesFinite ==
  ASSUME NEW held, NEW keys, Bodied(held, keys)
  PROVE  IsFiniteSet(BytesOf(held, keys)) /\ TotalSize(held, keys) \in Nat
<1> DEFINE bytes == [k \in keys |-> BytesOf(held, {k})]
           all == {bytes[k] : k \in keys}
<1>1. \A k \in keys : bytes[k] = BytesOf(held, {k}) /\ IsFiniteSet(bytes[k])
  BY SizeOfOne DEF Bodied
<1>2. bytes \in Surjection(keys, all)
  BY DEF Surjection
<1>3. BytesOf(held, keys) = UNION all
  BY DEF BytesOf
<1> HIDE DEF bytes
<1>4. IsFiniteSet(all)
  BY <1>2, FS_Surjection DEF Bodied
<1>5. \A T \in all : IsFiniteSet(T)
  BY <1>1
<1> HIDE DEF all
<1>6. IsFiniteSet(BytesOf(held, keys))
  BY <1>3, <1>4, <1>5, FS_UNION
<1> QED BY <1>6, FS_CardinalityType DEF TotalSize

\* The bytes of two sets of keys are those of the one and those of the other.
LEMMA SizesSplit ==
  ASSUME NEW held, NEW keys, Bodied(held, keys), NEW part \in SUBSET keys
  PROVE  /\ TotalSize(held, keys) = TotalSize(held, keys \ part) + TotalSize(held, part)
         /\ TotalSize(held, part) \in Nat /\ TotalSize(held, keys \ part) \in Nat
<1> DEFINE rest == keys \ part
           P == BytesOf(held, part)
           R == BytesOf(held, rest)
<1>1. Bodied(held, part) /\ Bodied(held, rest)
  BY FS_Subset, FS_Difference DEF Bodied
<1>2. IsFiniteSet(P) /\ IsFiniteSet(R) /\ Cardinality(P) \in Nat /\ Cardinality(R) \in Nat
  BY <1>1, BytesFinite DEF TotalSize
<1>3. BytesOf(held, keys) = R \cup P
  BY DEF BytesOf
<1>4. R \cap P = {}
  BY DEF BytesOf
<1> HIDE DEF P, R
<1>5. Cardinality(R \cup P) = Cardinality(R) + Cardinality(P) - Cardinality({})
  BY <1>2, <1>4, FS_Union
<1>6. Cardinality({}) = 0
  BY FS_EmptySet
<1> QED BY <1>2, <1>3, <1>5, <1>6 DEF TotalSize, P, R

\* Only the bodies count.
LEMMA SizesSame ==
  ASSUME NEW held, NEW other, NEW keys, \A k \in keys : held[k].body = other[k].body
  PROVE  TotalSize(held, keys) = TotalSize(other, keys)
<1>1. BytesOf(held, keys) = BytesOf(other, keys)
  BY DEF BytesOf
<1> QED BY <1>1 DEF TotalSize

\* No body has no byte.
LEMMA SizeOfNone ==
  ASSUME NEW held
  PROVE  TotalSize(held, {}) = 0
<1>1. BytesOf(held, {}) = {}
  BY DEF BytesOf
<1> QED BY <1>1, FS_EmptySet DEF TotalSize

(***************************************************************************)
(* The Map                                                                 *)
(***************************************************************************)
Ordered(keys, before) ==
  /\ before \subseteq keys \X keys
  /\ \A k \in keys : <<k, k>> \notin before
  /\ \A k, l, m \in keys : <<k, l>> \in before /\ <<l, m>> \in before => <<k, m>> \in before
  /\ \A k, l \in keys : k = l \/ <<k, l>> \in before \/ <<l, k>> \in before

\* Its keys are in an order, and its bytes are counted.
WellFormed(c) ==
  /\ Bodied(c.entries, Keys(c))
  /\ \A k \in Keys(c) : c.entries[k].expiresAt \in Int
  /\ Ordered(Keys(c), c.older)
  /\ c.bytes = TotalSize(c.entries, Keys(c))

\* Deleting entries keeps the others, their order and the count.
LEMMA DeleteWell ==
  ASSUME NEW c, WellFormed(c), NEW keys, NEW d, d = DeleteEntries(c, keys)
  PROVE  /\ WellFormed(d)
         /\ Keys(d) = Keys(c) \ keys
         /\ \A k \in Keys(d) : d.entries[k] = c.entries[k]
         /\ \A k, l \in Keys(d) : <<k, l>> \in d.older <=> <<k, l>> \in c.older
         /\ d.bytes <= c.bytes
<1> DEFINE rest == Keys(c) \ keys
           gone == Keys(c) \ rest
<1>1. /\ d.entries = Restrict(c.entries, rest)
      /\ d.older = c.older \cap (rest \X rest)
      /\ d.bytes = c.bytes - TotalSize(c.entries, gone)
  BY DEF DeleteEntries
<1>2. Keys(d) = rest
  BY <1>1 DEF Keys, Restrict
<1>3. \A k \in rest : d.entries[k] = c.entries[k]
  BY <1>1 DEF Restrict
<1>4. gone \in SUBSET Keys(c) /\ rest = Keys(c) \ gone /\ rest \subseteq Keys(c)
  OBVIOUS
<1>5. Ordered(rest, d.older)
  BY <1>1, <1>4 DEF WellFormed, Ordered
<1>6. \A k, l \in rest : <<k, l>> \in d.older <=> <<k, l>> \in c.older
  BY <1>1
<1> HIDE DEF rest, gone
<1>7. Bodied(d.entries, rest)
  BY <1>3, <1>4, FS_Subset DEF WellFormed, Bodied
<1>8. /\ TotalSize(c.entries, Keys(c)) = TotalSize(c.entries, rest) + TotalSize(c.entries, gone)
      /\ TotalSize(c.entries, gone) \in Nat /\ TotalSize(c.entries, rest) \in Nat
  BY <1>4, SizesSplit DEF WellFormed
<1>9. TotalSize(d.entries, rest) = TotalSize(c.entries, rest)
  BY <1>3, SizesSame
<1>10. d.bytes = TotalSize(d.entries, rest) /\ d.bytes <= c.bytes
  BY <1>1, <1>8, <1>9 DEF WellFormed
<1>11. \A k \in rest : d.entries[k].expiresAt \in Int
  BY <1>3, <1>4 DEF WellFormed
<1> QED BY <1>2, <1>3, <1>5, <1>6, <1>7, <1>10, <1>11 DEF WellFormed, rest

\* A key that is inserted anew comes last.
LEMMA NewestLast ==
  ASSUME NEW c, Ordered(Keys(c), c.older), NEW key
  PROVE  /\ Ordered(Keys(c) \cup {key}, MadeNewest(c, key))
         /\ \A k \in Keys(c) \ {key} : <<k, key>> \in MadeNewest(c, key)
         /\ \A k, l \in Keys(c) \ {key} :
              <<k, l>> \in MadeNewest(c, key) <=> <<k, l>> \in c.older
BY DEF Ordered, MadeNewest

\* A body is stored under a key that is not there.
LEMMA StoreWell ==
  ASSUME NEW c, WellFormed(c), now \in Nat, NEW key, key \notin Keys(c), NEW body \in Bodies,
         NEW d, d = Store(c, key, body)
  PROVE  /\ WellFormed(d)
         /\ Keys(d) = Keys(c) \cup {key}
         /\ d.entries[key].body = body
         /\ \A k \in Keys(c) : d.entries[k] = c.entries[k]
         /\ d.older = MadeNewest(c, key)
<1> DEFINE keys == Keys(c) \cup {key}
<1>1. /\ d.entries = [k \in keys |-> IF k = key THEN [body |-> body, expiresAt |-> now + TTL]
                                      ELSE c.entries[k]]
      /\ d.older = MadeNewest(c, key)
      /\ d.bytes = c.bytes + Size[body]
  BY DEF Store
<1>2. /\ Keys(d) = keys /\ d.entries[key] = [body |-> body, expiresAt |-> now + TTL]
      /\ \A k \in Keys(c) : d.entries[k] = c.entries[k]
  BY <1>1 DEF Keys
<1>3. d.entries[key].body = body /\ d.entries[key].expiresAt \in Int
  BY <1>2, CacheAssumption
<1>4. keys \ {key} = Keys(c) /\ {key} \in SUBSET keys /\ Keys(c) \subseteq keys
  OBVIOUS
<1>5. IsFiniteSet(keys)
  BY FS_AddElement DEF WellFormed, Bodied
<1> HIDE DEF keys
<1>6. \A k \in keys : k = key \/ k \in Keys(c)
  BY DEF keys
<1>7. Bodied(d.entries, keys) /\ \A k \in keys : d.entries[k].expiresAt \in Int
  BY <1>2, <1>3, <1>5, <1>6 DEF WellFormed, Bodied
<1>8. Ordered(keys, d.older)
  BY <1>1, NewestLast DEF WellFormed, keys
<1>9. /\ TotalSize(d.entries, keys) = TotalSize(d.entries, Keys(c)) + TotalSize(d.entries, {key})
      /\ TotalSize(d.entries, Keys(c)) \in Nat /\ TotalSize(d.entries, {key}) \in Nat
  BY <1>4, <1>7, SizesSplit
<1>10. TotalSize(d.entries, Keys(c)) = TotalSize(c.entries, Keys(c))
  BY <1>2, SizesSame
<1>11. TotalSize(d.entries, {key}) = Size[body]
  BY <1>3, SizeOfOne
<1>12. d.bytes = TotalSize(d.entries, keys)
  BY <1>1, <1>9, <1>10, <1>11 DEF WellFormed
<1> QED BY <1>1, <1>2, <1>3, <1>7, <1>8, <1>12 DEF WellFormed, keys

\* A hit is taken out and put back.
LEMMA PromoteWell ==
  ASSUME NEW c, WellFormed(c), c = [entries |-> c.entries, older |-> c.older, bytes |-> c.bytes],
         NEW key \in Keys(c), NEW d, d = Promote(c, key)
  PROVE  WellFormed(d) /\ d.entries = c.entries /\ d.older = MadeNewest(c, key)
<1>1. d.entries = c.entries /\ d.older = MadeNewest(c, key) /\ d.bytes = c.bytes
  BY DEF Promote
<1>2. Keys(d) = Keys(c) /\ Keys(c) \cup {key} = Keys(c)
  BY <1>1 DEF Keys
<1>3. Ordered(Keys(d), d.older)
  BY <1>1, <1>2, NewestLast DEF WellFormed
<1> QED BY <1>1, <1>2, <1>3 DEF WellFormed, Bodied

(***************************************************************************)
(* Eviction                                                                *)
(***************************************************************************)
Enough(c) == {D \in Oldest(c) : Fits(DeleteEntries(c, D)) \/ D = Keys(c)}
Evicted(c) == CHOOSE D \in Enough(c) : \A E \in Enough(c) : D \subseteq E

\* Some number of a set of them is the least.
LEMMA LeastExists ==
  ASSUME NEW S \in SUBSET Nat, S # {}
  PROVE  \E n \in S : \A m \in S : n <= m
<1>1. PICK n \in S : \A m \in S : ~(<<m, n>> \in OpToRel(<, Nat))
  BY NatLessThanWellFounded, WFMin
<1>2. \A m \in S : ~(m < n)
  BY <1>1 DEF OpToRel
<1> QED BY <1>2

\* Of any two runs of the oldest entries one is the beginning of the other; so there
\* is a shortest one that is enough.
LEMMA EvictedLeast ==
  ASSUME NEW c, WellFormed(c)
  PROVE  Evicted(c) \in Enough(c) /\ \A E \in Enough(c) : Evicted(c) \subseteq E
<1> DEFINE sizes == {Cardinality(E) : E \in Enough(c)}
<1>1. \A E \in Enough(c) : E \in SUBSET Keys(c) /\ IsFiniteSet(E) /\ Cardinality(E) \in Nat
  <2>1. \A E \in Enough(c) : E \in SUBSET Keys(c)
    BY DEF Enough, Oldest
  <2>2. IsFiniteSet(Keys(c))
    BY DEF WellFormed, Bodied
  <2> QED BY <2>1, <2>2, FS_Subset, FS_CardinalityType
<1>2. Keys(c) \in Enough(c)
  BY DEF Enough, Oldest
<1>3. sizes \in SUBSET Nat /\ sizes # {}
  BY <1>1, <1>2
<1>4. PICK n \in sizes : \A m \in sizes : n <= m
  BY <1>3, LeastExists
<1>5. PICK D \in Enough(c) : Cardinality(D) = n
  BY <1>4
<1>6. \A E \in Enough(c) : Cardinality(D) <= Cardinality(E)
  BY <1>4, <1>5
<1> HIDE DEF sizes
<1>7. ASSUME NEW E \in Enough(c), NEW k \in D, k \notin E PROVE FALSE
  <2>1. \A l \in E : l \in D
    <3> SUFFICES ASSUME NEW l \in E PROVE l \in D
      OBVIOUS
    <3>1. k \in Keys(c) /\ l \in Keys(c) /\ k # l
      BY <1>1, <1>7
    <3>2. <<k, l>> \notin c.older
      BY <1>7, <3>1 DEF Enough, Oldest
    <3>3. <<l, k>> \in c.older
      BY <3>1, <3>2 DEF WellFormed, Ordered
    <3> QED BY <1>7, <3>1, <3>3 DEF Enough, Oldest
  <2>2. E \in SUBSET D /\ E # D
    BY <1>7, <2>1
  <2>3. Cardinality(E) <= Cardinality(D) /\ Cardinality(E) # Cardinality(D)
    BY <1>1, <2>2, FS_Subset
  <2> QED BY <1>1, <1>6, <2>3
<1>8. \E d \in Enough(c) : \A E \in Enough(c) : d \subseteq E
  BY <1>7
<1> QED BY <1>8 DEF Evicted

\* What is left is within the limits.
LEMMA EvictWell ==
  ASSUME NEW c, WellFormed(c), NEW d, d = EvictLru(c)
  PROVE  /\ WellFormed(d) /\ Fits(d)
         /\ Keys(d) = Keys(c) \ Evicted(c)
         /\ \A k \in Keys(d) : d.entries[k] = c.entries[k]
         /\ \A k, l \in Keys(d) : <<k, l>> \in d.older <=> <<k, l>> \in c.older
<1> DEFINE D == Evicted(c)
<1>1. d = DeleteEntries(c, D)
  BY DEF EvictLru, Evicted, Enough
<1>2. D \in Enough(c)
  BY EvictedLeast
<1> HIDE DEF D
<1>3. /\ WellFormed(d)
      /\ Keys(d) = Keys(c) \ D
      /\ \A k \in Keys(d) : d.entries[k] = c.entries[k]
      /\ \A k, l \in Keys(d) : <<k, l>> \in d.older <=> <<k, l>> \in c.older
  BY <1>1, DeleteWell
<1>4. Fits(d)
  <2>1. CASE Fits(DeleteEntries(c, D))
    BY <1>1, <2>1
  <2>2. CASE D = Keys(c)
    <3>1. Keys(d) = {}
      BY <1>3, <2>2
    <3>2. Cardinality(Keys(d)) = 0 /\ d.bytes = 0
      BY <1>3, <3>1, FS_EmptySet, SizeOfNone DEF WellFormed
    <3> QED BY <3>2, CacheAssumption DEF Fits
  <2> QED BY <1>2, <2>1, <2>2 DEF Enough
<1> QED BY <1>3, <1>4 DEF D

\* Nor is more evicted than that takes: the newest entry stays if it fits alone.
LEMMA NewestStays ==
  ASSUME NEW c, WellFormed(c), NEW key \in Keys(c), MaxEntries > 0,
         \A k \in Keys(c) \ {key} : <<k, key>> \in c.older,
         Size[c.entries[key].body] <= MaxBytes
  PROVE  key \notin Evicted(c)
<1> DEFINE rest == Keys(c) \ {key}
<1>1. rest \in Oldest(c)
  BY DEF Oldest, WellFormed, Ordered
<1>2. PICK d : d = DeleteEntries(c, rest)
  OBVIOUS
<1>3. WellFormed(d) /\ Keys(d) = Keys(c) \ rest /\ \A k \in Keys(d) : d.entries[k] = c.entries[k]
  BY <1>2, DeleteWell
<1>4. Keys(d) = {key} /\ d.entries[key] = c.entries[key]
  BY <1>3
<1>5. Cardinality(Keys(d)) = 1
  BY <1>4, FS_Singleton
<1> HIDE DEF rest
<1>6. d.bytes = Size[c.entries[key].body]
  <2>1. PICK held : held = d.entries
    OBVIOUS
  <2>2. d.bytes = TotalSize(held, {key}) /\ held[key].body \in Bodies
    BY <1>3, <1>4, <2>1 DEF WellFormed, Bodied
  <2>3. TotalSize(held, {key}) = Size[held[key].body]
    BY <2>2, SizeOfOne
  <2> QED BY <1>4, <2>1, <2>2, <2>3
<1>7. Fits(d)
  BY <1>5, <1>6, CacheAssumption DEF Fits
<1>8. rest \in Enough(c)
  BY <1>1, <1>2, <1>7 DEF Enough
<1> QED BY <1>8, EvictedLeast DEF rest

\* Only what is expired is pruned.
LEMMA PruneWell ==
  ASSUME NEW c, WellFormed(c), now \in Nat, NEW d, d = Prune(c)
  PROVE  /\ WellFormed(d) /\ d.bytes <= c.bytes /\ Keys(d) \subseteq Keys(c)
         /\ \A k \in Keys(c) : k \in Keys(d) <=> c.entries[k].expiresAt > now
         /\ \A k \in Keys(d) : d.entries[k] = c.entries[k]
         /\ \A k, l \in Keys(d) : <<k, l>> \in d.older <=> <<k, l>> \in c.older
<1> DEFINE gone == {k \in Keys(c) : c.entries[k].expiresAt <= now}
<1>1. d = DeleteEntries(c, gone)
  BY DEF Prune
<1>2. \A k \in Keys(c) : k \notin gone <=> c.entries[k].expiresAt > now
  BY DEF WellFormed
<1> HIDE DEF gone
<1>3. /\ WellFormed(d)
      /\ Keys(d) = Keys(c) \ gone
      /\ \A k \in Keys(d) : d.entries[k] = c.entries[k]
      /\ \A k, l \in Keys(d) : <<k, l>> \in d.older <=> <<k, l>> \in c.older
      /\ d.bytes <= c.bytes
  BY <1>1, DeleteWell
<1> QED BY <1>2, <1>3

\* What is stored is the newest entry unless it does not fit, and a live entry goes
\* only with all that are older.
LEMMA SetWell ==
  ASSUME NEW c, WellFormed(c), now \in Nat, NEW key, NEW body \in Bodies,
         NEW d, d = SetCached(c, key, body)
  PROVE  /\ WellFormed(d) /\ Fits(d)
         /\ Size[body] <= MaxBytes /\ MaxEntries > 0 => IsNewest(key, d.entries, d.older)
         /\ \A k, l \in Keys(c) :
              (/\ <<k, l>> \in c.older
               /\ k \in Keys(d) /\ ~IsNewest(k, d.entries, d.older)
               /\ l \notin Keys(d))
              => c.entries[l].expiresAt <= now
<1>1. PICK p : p = Prune(c)
  OBVIOUS
<1>2. PICK f : f = DeleteEntries(p, {key})
  OBVIOUS
<1>3. PICK e : e = Store(f, key, body)
  OBVIOUS
<1>4. d = EvictLru(e)
  BY <1>1, <1>2, <1>3 DEF SetCached
<1>5. /\ WellFormed(p) /\ Keys(p) \subseteq Keys(c)
      /\ \A k \in Keys(c) : k \in Keys(p) <=> c.entries[k].expiresAt > now
      /\ \A k, l \in Keys(p) : <<k, l>> \in p.older <=> <<k, l>> \in c.older
  BY <1>1, PruneWell
<1>6. /\ WellFormed(f) /\ Keys(f) = Keys(p) \ {key}
      /\ \A k, l \in Keys(f) : <<k, l>> \in f.older <=> <<k, l>> \in p.older
  BY <1>2, <1>5, DeleteWell
<1>7. /\ WellFormed(e) /\ Keys(e) = Keys(f) \cup {key}
      /\ e.entries[key].body = body /\ e.older = MadeNewest(f, key)
  BY <1>3, <1>6, StoreWell
<1>8. /\ \A k \in Keys(f) : <<k, key>> \in e.older
      /\ \A k, l \in Keys(f) : <<k, l>> \in e.older <=> <<k, l>> \in f.older
  <2>1. Keys(f) \ {key} = Keys(f) /\ Ordered(Keys(f), f.older)
    BY <1>6 DEF WellFormed
  <2>2. \A k \in Keys(f) : <<k, key>> \in MadeNewest(f, key)
    BY <2>1, NewestLast
  <2>3. \A k, l \in Keys(f) : <<k, l>> \in MadeNewest(f, key) <=> <<k, l>> \in f.older
    BY <2>1, NewestLast
  <2> QED BY <1>7, <2>2, <2>3
<1>9. /\ WellFormed(d) /\ Fits(d) /\ Keys(d) = Keys(e) \ Evicted(e)
      /\ \A k, l \in Keys(d) : <<k, l>> \in d.older <=> <<k, l>> \in e.older
  BY <1>4, <1>7, EvictWell
<1>10. key \in Keys(d) => IsNewest(key, d.entries, d.older)
  BY <1>6, <1>7, <1>8, <1>9 DEF IsNewest, Keys
<1>11. ASSUME Size[body] <= MaxBytes, MaxEntries > 0 PROVE IsNewest(key, d.entries, d.older)
  <2>1. key \in Keys(e) /\ \A k \in Keys(e) \ {key} : <<k, key>> \in e.older
    BY <1>7, <1>8
  <2>2. key \notin Evicted(e)
    BY <1>7, <1>11, <2>1, NewestStays
  <2> QED BY <1>9, <1>10, <2>1, <2>2
<1>12. ASSUME NEW k \in Keys(c), NEW l \in Keys(c), <<k, l>> \in c.older,
              k \in Keys(d), ~IsNewest(k, d.entries, d.older), l \notin Keys(d),
              c.entries[l].expiresAt > now
       PROVE  FALSE
  <2>1. k \in Keys(e) /\ k \notin Evicted(e) /\ k # key
    BY <1>9, <1>10, <1>12
  <2>2. k \in Keys(f) /\ k \in Keys(p) /\ l \in Keys(p)
    BY <1>5, <1>6, <1>7, <1>12, <2>1
  <2>3. l \in Keys(e) /\ l \in Evicted(e)
    BY <1>6, <1>7, <1>9, <1>12, <2>2
  <2>4. <<k, l>> \in e.older
    BY <1>5, <1>6, <1>8, <1>12, <2>2
  <2>5. Evicted(e) \in Oldest(e)
    BY <1>7, EvictedLeast DEF Enough
  <2> QED BY <2>1, <2>3, <2>4, <2>5 DEF Oldest
<1>13. \A l \in Keys(c) : c.entries[l].expiresAt \in Int
  BY DEF WellFormed
<1> QED BY <1>9, <1>11, <1>12, <1>13

(***************************************************************************)
(* The handlers                                                            *)
(***************************************************************************)
HandlersTyped ==
  /\ pc \in [Handlers -> {"idle", "fetching"}]
  /\ asked \in [Handlers -> Locators \cup {None}]
  /\ DOMAIN reply = Handlers
  /\ \A h \in Handlers : pc[h] = "fetching" => asked[h] \in Locators

\* A handler that fetches has not answered: what it was asked for cannot
\* change under an answer it already gave.
Trusted ==
  /\ HandlersTyped
  /\ CacheVerified
  /\ ServedVerified

Good(c) == \A k \in DOMAIN c.entries : Verified(k, c.entries[k].body)

\* Removing entries, for whatever reason, keeps a cache good.
LEMMA DeleteGood ==
  ASSUME NEW c, Good(c), NEW keys
  PROVE  /\ Good(DeleteEntries(c, keys))
         /\ DOMAIN DeleteEntries(c, keys).entries \subseteq DOMAIN c.entries
         /\ \A k \in DOMAIN DeleteEntries(c, keys).entries :
              DeleteEntries(c, keys).entries[k] = c.entries[k]
BY DEF DeleteEntries, Restrict, Good, Keys

\* So do expiry
LEMMA PruneGood ==
  ASSUME NEW c, Good(c)
  PROVE  Good(Prune(c))
BY DeleteGood DEF Prune

\* and eviction.
LEMMA EvictGood ==
  ASSUME NEW c, Good(c)
  PROVE  Good(EvictLru(c))
BY DeleteGood DEF EvictLru

\* Storing a body under a key whose digest it matches keeps a cache good.
LEMMA SetGood ==
  ASSUME NEW c, Good(c), NEW key, NEW body, Verified(key, body)
  PROVE  Good(SetCached(c, key, body))
<1> DEFINE d == DeleteEntries(Prune(c), {key})
<1>1. Good(d)
  BY PruneGood, DeleteGood
<1>2. Good(Store(d, key, body))
  BY <1>1 DEF Store, Good, Keys
<1> QED BY <1>2, EvictGood DEF SetCached

\* Every step caches and serves only what was checked.
LEMMA TrustedStep == Trusted /\ [Next]_vars => Trusted'
<1> SUFFICES ASSUME Trusted, [Next]_vars PROVE Trusted'
  OBVIOUS
<1>0. Good(Cache) /\ Good(Prune(Cache))
  <2>1. Good(Cache)
    BY DEF Good, Cache, Trusted, CacheVerified
  <2> QED BY <2>1, PruneGood
<1>1. ASSUME NEW h \in Handlers, NEW l \in Locators, Request(h, l)
      PROVE  Trusted'
  <2> DEFINE pruned == Prune(Cache)
             key == CacheKey(l)
  <2>1. key = l
    BY DEF CacheKey
  <2>2. CASE Cached(pruned, key)
    <3>1. entries' = pruned.entries
      BY <1>1, <2>2 DEF Request, Become, Promote, Prune, DeleteEntries, Keys
    <3>2. /\ reply' = [reply EXCEPT ![h] =
                         Reply(200, pruned.entries[key].body, TRUE)]
          /\ pc' = [pc EXCEPT ![h] = "idle"]
          /\ asked' = [asked EXCEPT ![h] = l]
      BY <1>1, <2>2 DEF Request, Answer
    <3>3. Verified(l, pruned.entries[key].body)
      BY <1>0, <2>1, <2>2 DEF Good, Cached, Keys
    <3>4. CacheVerified'
      BY <1>0, <3>1 DEF Good, CacheVerified, Verified
    <3>5. ServedVerified'
      BY <3>2, <3>3 DEF Trusted, HandlersTyped, ServedVerified, Reply, Verified
    <3>6. HandlersTyped'
      BY <3>2 DEF Trusted, HandlersTyped
    <3> QED BY <3>4, <3>5, <3>6 DEF Trusted
  <2>3. CASE ~Cached(pruned, key)
    <3>1. /\ entries' = pruned.entries
          /\ reply' = [reply EXCEPT ![h] = NoReply]
          /\ pc' = [pc EXCEPT ![h] = "fetching"]
          /\ asked' = [asked EXCEPT ![h] = l]
      BY <1>1, <2>3 DEF Request, Become
    <3>2. CacheVerified'
      BY <1>0, <3>1 DEF Good, CacheVerified, Verified
    <3>3. ServedVerified'
      BY <3>1 DEF Trusted, HandlersTyped, ServedVerified, NoReply, Verified
    <3>4. HandlersTyped'
      BY <3>1 DEF Trusted, HandlersTyped
    <3> QED BY <3>2, <3>3, <3>4 DEF Trusted
  <2> QED BY <2>2, <2>3
<1>2. ASSUME NEW h \in Handlers, NEW body \in Bodies, Fetched(h, body)
      PROVE  Trusted'
  <2>1. CASE Size[body] \in 1..MaxFetchBytes /\ Verified(asked[h], body)
    <3>1. /\ entries' = SetCached(Cache, CacheKey(asked[h]), body).entries
          /\ reply' = [reply EXCEPT ![h] = Reply(200, body, FALSE)]
          /\ pc' = [pc EXCEPT ![h] = "idle"]
          /\ asked' = asked
      BY <1>2, <2>1 DEF Fetched, Become, Answer
    <3>2. Good(SetCached(Cache, CacheKey(asked[h]), body))
      BY <1>0, <2>1, SetGood DEF CacheKey
    <3>3. CacheVerified'
      BY <3>1, <3>2 DEF Good, CacheVerified, Verified
    <3>4. ServedVerified'
      BY <2>1, <3>1 DEF Trusted, HandlersTyped, ServedVerified, Reply, Verified
    <3>5. HandlersTyped'
      BY <3>1 DEF Trusted, HandlersTyped
    <3> QED BY <3>3, <3>4, <3>5 DEF Trusted
  <2>2. CASE ~(Size[body] \in 1..MaxFetchBytes /\ Verified(asked[h], body))
    BY <1>2, <2>2 DEF Fetched, Answer, Reply, cacheVars, Trusted, HandlersTyped,
                      CacheVerified, ServedVerified, Verified
  <2> QED BY <2>1, <2>2
<1>3. ASSUME NEW h \in Handlers, NEW status \in {400, 502, 504},
             FetchFailed(h, status)
      PROVE  Trusted'
  BY <1>3 DEF FetchFailed, cacheVars, Answer, Reply, Trusted, HandlersTyped, CacheVerified,
              ServedVerified, Verified
<1>4. CASE Clear
  BY <1>4 DEF Clear, Trusted, HandlersTyped, CacheVerified, ServedVerified, Verified
<1>5. CASE Tick
  BY <1>5 DEF Tick, cacheVars, Trusted, HandlersTyped, CacheVerified, ServedVerified, Verified
<1>6. CASE UNCHANGED vars
  BY <1>6 DEF vars, Trusted, HandlersTyped, CacheVerified, ServedVerified, Verified
<1> QED BY <1>1, <1>2, <1>3, <1>4, <1>5, <1>6 DEF Next, Finish

Counted == WellFormed(Cache) /\ Fits(Cache) /\ now \in Nat

\* What the module variables become is a cache like any other.
LEMMA BecomeCounted ==
  ASSUME NEW d, Become(d), WellFormed(d), Fits(d), now' \in Nat
  PROVE  Counted'
BY DEF Become, Counted, Cache, WellFormed, Fits, Keys

\* Pruned and promoted, a cache is no larger than it was.
LEMMA PrunedFits ==
  ASSUME Counted, NEW d, d = Prune(Cache)
  PROVE  /\ WellFormed(d) /\ Fits(d)
         /\ \A k \in Keys(d) : Promote(d, k).entries = d.entries
         /\ \A k \in Keys(d) : \A p : p = Promote(d, k) => WellFormed(p) /\ Fits(p)
<1>1. WellFormed(d) /\ d.bytes <= Cache.bytes /\ Keys(d) \subseteq Keys(Cache)
  BY PruneWell DEF Counted
<1>2. /\ IsFiniteSet(Keys(Cache)) /\ Cardinality(Keys(d)) <= Cardinality(Keys(Cache))
      /\ Cardinality(Keys(d)) \in Nat /\ Cardinality(Keys(Cache)) \in Nat
  BY <1>1, FS_Subset, FS_CardinalityType DEF Counted, WellFormed, Bodied
<1>3. d.bytes \in Nat /\ Cache.bytes \in Nat
  BY <1>1, BytesFinite DEF Counted, WellFormed
<1>4. Fits(d)
  BY <1>1, <1>2, <1>3, CacheAssumption DEF Counted, Fits
<1>5. d = [entries |-> d.entries, older |-> d.older, bytes |-> d.bytes]
  BY DEF Prune, DeleteEntries
<1>6. ASSUME NEW k \in Keys(d), NEW p, p = Promote(d, k)
      PROVE  WellFormed(p) /\ Fits(p) /\ p.entries = d.entries
  <2>1. WellFormed(p) /\ p.entries = d.entries
    BY <1>1, <1>5, <1>6, PromoteWell
  <2>2. p.bytes = d.bytes
    BY <1>6 DEF Promote
  <2> QED BY <1>4, <2>1, <2>2 DEF Fits, Keys
<1> QED BY <1>1, <1>4, <1>6

\* Every step keeps the count.
LEMMA CountedStep ==
  ASSUME Counted, [Next]_vars
  PROVE  Counted'
<1>1. ASSUME NEW h \in Handlers, NEW l \in Locators, Request(h, l) PROVE Counted'
  <2>1. PICK d : d = Prune(Cache)
    OBVIOUS
  <2>2. now' \in Nat /\ (Become(d) \/ \E k \in Keys(d) : Become(Promote(d, k)))
    BY <1>1, <2>1 DEF Request, Counted, Cached
  <2>3. CASE Become(d)
    BY <2>1, <2>2, <2>3, PrunedFits, BecomeCounted
  <2>4. ASSUME NEW k \in Keys(d), Become(Promote(d, k)) PROVE Counted'
    <3>1. PICK p : p = Promote(d, k)
      OBVIOUS
    <3>2. WellFormed(p) /\ Fits(p)
      BY <2>1, <3>1, PrunedFits
    <3> QED BY <2>2, <2>4, <3>1, <3>2, BecomeCounted
  <2> QED BY <2>2, <2>3, <2>4
<1>2. ASSUME NEW h \in Handlers, NEW body \in Bodies, Fetched(h, body) PROVE Counted'
  <2>1. PICK d : d = SetCached(Cache, CacheKey(asked[h]), body)
    OBVIOUS
  <2>2. now' \in Nat /\ (Become(d) \/ UNCHANGED cacheVars)
    BY <1>2, <2>1 DEF Fetched, Counted
  <2>3. WellFormed(d) /\ Fits(d)
    BY <2>1, SetWell DEF Counted
  <2>4. CASE Become(d)
    BY <2>2, <2>3, <2>4, BecomeCounted
  <2>5. CASE UNCHANGED cacheVars
    BY <2>2, <2>5 DEF cacheVars, Counted, Cache
  <2> QED BY <2>2, <2>4, <2>5
<1>3. CASE Clear
  <2>1. Keys(Cache)' = {} /\ older' = {} /\ cachedBytes' = 0 /\ now' = now
    BY <1>3 DEF Clear, Keys, Cache
  <2>2. Bodied(entries', {}) /\ Cardinality({}) = 0
    BY FS_EmptySet DEF Bodied
  <2>3. Ordered({}, {}) /\ TotalSize(entries', {}) = 0
    BY SizeOfNone DEF Ordered
  <2>4. PICK d : d = Cache'
    OBVIOUS
  <2>5. /\ Keys(d) = {} /\ d.entries = entries' /\ d.older = {} /\ d.bytes = 0
        /\ entries' = d.entries /\ older' = d.older /\ cachedBytes' = d.bytes
    BY <2>1, <2>4 DEF Cache, Keys
  <2>6. WellFormed(d) /\ Fits(d)
    BY <2>2, <2>3, <2>5, CacheAssumption DEF WellFormed, Fits
  <2> QED BY <2>1, <2>5, <2>6, BecomeCounted DEF Become, Counted
<1>4. ASSUME NEW h \in Handlers, NEW status, FetchFailed(h, status) PROVE Counted'
  BY <1>4 DEF FetchFailed, cacheVars, Counted, Cache
<1>5. CASE Tick
  BY <1>5 DEF Tick, cacheVars, Counted, Cache
<1>6. CASE UNCHANGED vars
  BY <1>6 DEF vars, Counted, Cache
<1> QED BY <1>1, <1>2, <1>3, <1>4, <1>5, <1>6 DEF Next, Finish

(***************************************************************************)
(* The invariant                                                           *)
(***************************************************************************)
Inv == Trusted /\ Counted

\* The cache starts empty.
LEMMA InitInv == Init => Inv
<1> SUFFICES ASSUME Init PROVE Inv
  OBVIOUS
<1>1. Trusted
  BY DEF Init, Trusted, HandlersTyped, CacheVerified, ServedVerified, NoReply
<1>2. Keys(Cache) = {} /\ Cache.older = {} /\ Cache.bytes = 0 /\ now = 0
  BY DEF Init, Keys, Cache
<1>3. Bodied(Cache.entries, {}) /\ Cardinality({}) = 0
  BY FS_EmptySet DEF Bodied
<1>4. Ordered({}, {}) /\ TotalSize(Cache.entries, {}) = 0
  BY SizeOfNone DEF Ordered
<1>5. Counted
  BY <1>2, <1>3, <1>4, CacheAssumption DEF Counted, WellFormed, Fits
<1> QED BY <1>1, <1>5 DEF Inv

\* What is cached was checked and is counted, at all times.
LEMMA Correct == Spec => []Inv
<1>1. Inv /\ [Next]_vars => Inv'
  BY TrustedStep, CountedStep DEF Inv
<1> QED BY InitInv, <1>1, PTL DEF Spec

(***************************************************************************)
(* Types                                                                   *)
(***************************************************************************)
Entries == [body : Bodies, expiresAt : Nat]
Replies == [status : {0, 200, 400, 502, 504}, body : Bodies \cup {None},
            hit : BOOLEAN, at : Nat]

\* The entries of a cache are as SetCached makes them, under keys of requests.
Keyed(c) == Keys(c) \subseteq Locators /\ c.entries \in [Keys(c) -> Entries]

Typed == Keyed(Cache) /\ now \in Nat /\ reply \in [Handlers -> Replies]

\* What is left of a cache has the type it had.
LEMMA DeleteKeyed ==
  ASSUME NEW c, Keyed(c), NEW keys
  PROVE  Keyed(DeleteEntries(c, keys))
BY DEF DeleteEntries, Restrict, Keyed, Keys

\* What is stored expires at a time of its own.
LEMMA SetKeyed ==
  ASSUME NEW c, Keyed(c), NEW key \in Locators, NEW body \in Bodies, now \in Nat
  PROVE  Keyed(SetCached(c, key, body))
<1> DEFINE d == DeleteEntries(Prune(c), {key})
           s == Store(d, key, body)
<1>1. Keyed(d)
  BY DeleteKeyed DEF Prune
<1>2. Keys(s) = Keys(d) \cup {key}
  BY DEF Store, Keys
<1>3. [body |-> body, expiresAt |-> now + TTL] \in Entries
  BY CacheAssumption DEF Entries
<1>4. s.entries \in [Keys(s) -> Entries]
  BY <1>1, <1>2, <1>3 DEF Store, Keyed
<1>5. Keyed(s)
  BY <1>1, <1>2, <1>4 DEF Keyed
<1> HIDE DEF d, s
<1>6. EvictLru(s) = DeleteEntries(s, CHOOSE D \in Enough(s) : \A E \in Enough(s) : D \subseteq E)
  BY DEF EvictLru, Enough
<1>7. Keyed(EvictLru(s))
  BY <1>5, <1>6, DeleteKeyed
<1> QED BY <1>7 DEF SetCached, s, d

\* The module variables take the type of what they become.
LEMMA BecomeKeyed ==
  ASSUME NEW d, Become(d), Keyed(d)
  PROVE  Keyed(Cache)'
BY DEF Become, Keyed, Cache, Keys

\* Every step keeps the types.
LEMMA TypedStep ==
  ASSUME Typed, HandlersTyped, [Next]_vars
  PROVE  Typed'
<1>0. Keyed(Cache) /\ Keyed(Prune(Cache)) /\ now \in Nat /\ NoReply \in Replies
  BY DeleteKeyed DEF Typed, Prune, NoReply, Replies
<1>1. ASSUME NEW h \in Handlers, NEW l \in Locators, Request(h, l) PROVE Typed'
  <2>1. PICK d : d = Prune(Cache)
    OBVIOUS
  <2>2. CASE Cached(d, l)
    <3>1. PICK p : p = Promote(d, l)
      OBVIOUS
    <3>2. Become(p) /\ reply' = [reply EXCEPT ![h] = Reply(200, d.entries[l].body, TRUE)]
          /\ now' = now
      BY <1>1, <2>1, <2>2, <3>1 DEF Request, Answer, CacheKey
    <3>3. Keyed(p)
      BY <1>0, <2>1, <3>1 DEF Promote, Prune, DeleteEntries, Keyed, Keys
    <3>4. d.entries[l].body \in Bodies
      BY <1>0, <2>1, <2>2 DEF Keyed, Cached, Entries
    <3>5. Reply(200, d.entries[l].body, TRUE) \in Replies
      BY <1>0, <3>4 DEF Reply, Replies
    <3> QED BY <3>2, <3>3, <3>5, BecomeKeyed DEF Typed
  <2>3. CASE ~Cached(d, l)
    <3>1. Become(d) /\ reply' = [reply EXCEPT ![h] = NoReply] /\ now' = now
      BY <1>1, <2>1, <2>3 DEF Request, CacheKey
    <3> QED BY <1>0, <2>1, <3>1, BecomeKeyed DEF Typed
  <2> QED BY <2>2, <2>3
<1>2. ASSUME NEW h \in Handlers, NEW body \in Bodies, Fetched(h, body) PROVE Typed'
  <2>1. asked[h] \in Locators /\ now' = now
    BY <1>2 DEF Fetched, HandlersTyped
  <2>2. /\ Reply(200, body, FALSE) \in Replies
        /\ Reply(502, None, FALSE) \in Replies
    <3>1. body \in Bodies \cup {None} /\ None \in Bodies \cup {None}
      OBVIOUS
    <3>2. Reply(200, body, FALSE) \in Replies
      BY <1>0, <3>1 DEF Reply, Replies
    <3>3. Reply(502, None, FALSE) \in Replies
      BY <1>0, <3>1 DEF Reply, Replies
    <3> QED BY <3>2, <3>3
  <2>3. reply' \in [Handlers -> Replies]
    <3>1. \/ reply' = [reply EXCEPT ![h] = Reply(200, body, FALSE)]
          \/ reply' = [reply EXCEPT ![h] = Reply(502, None, FALSE)]
      BY <1>2 DEF Fetched, Answer
    <3>2. PICK r \in Replies : reply' = [reply EXCEPT ![h] = r]
      BY <2>2, <3>1
    <3> QED BY <3>2 DEF Typed
  <2>4. PICK d : d = SetCached(Cache, asked[h], body)
    OBVIOUS
  <2>5. Keyed(d)
    BY <1>0, <2>1, <2>4, SetKeyed
  <2>6. Become(d) \/ UNCHANGED cacheVars
    BY <1>2, <2>4 DEF Fetched, CacheKey
  <2>7. Keyed(Cache)'
    BY <1>0, <2>5, <2>6, BecomeKeyed DEF cacheVars, Keyed, Cache, Keys
  <2> QED BY <2>1, <2>3, <2>7 DEF Typed
<1>3. ASSUME NEW h \in Handlers, NEW status \in {400, 502, 504}, FetchFailed(h, status)
      PROVE  Typed'
  <2>1. Reply(status, None, FALSE) \in Replies
    BY <1>0 DEF Reply, Replies
  <2> QED BY <1>3, <2>1 DEF FetchFailed, Answer, cacheVars, Typed, Keyed, Cache, Keys
<1>4. CASE Clear
  BY <1>4 DEF Clear, Typed, Keyed, Cache, Keys
<1>5. CASE Tick
  BY <1>5 DEF Tick, cacheVars, Typed, Keyed, Cache, Keys
<1>6. CASE UNCHANGED vars
  BY <1>6 DEF vars, Typed, Keyed, Cache, Keys
<1> QED BY <1>1, <1>2, <1>3, <1>4, <1>5, <1>6 DEF Next, Finish

\* The cache, its order, its counter and the handlers keep their types; nothing is
\* cached under anything but a request.
THEOREM TypeCorrect == Spec => []TypeOK
<1>1. Init => Typed
  BY DEF Init, Typed, Keyed, Cache, Keys, NoReply, Replies
<1>2. Inv /\ Typed /\ [Next]_vars => Typed'
  BY TypedStep DEF Inv, Trusted
<1>3. Inv /\ Typed => TypeOK
  <2> SUFFICES ASSUME Inv, Typed PROVE TypeOK
    OBVIOUS
  <2>1. cachedBytes \in Nat
    BY BytesFinite DEF Inv, Counted, WellFormed, Cache, Keys
  <2> QED BY <2>1, CacheAssumption
          DEF Inv, Trusted, HandlersTyped, Counted, WellFormed, Ordered, Fits, Typed,
              Keyed, Cache, Keys, Entries, Replies, TypeOK
<1> QED BY <1>1, <1>2, <1>3, Correct, PTL DEF Spec

(***************************************************************************)
(* The properties                                                          *)
(***************************************************************************)
\* Every body cached matches the digest in its key.
THEOREM CacheVerifiedHolds == Spec => []CacheVerified
<1>1. Inv => CacheVerified
  BY DEF Inv, Trusted
<1> QED BY <1>1, Correct, PTL

\* Every manifest served matches the digest its request asked for.
THEOREM ServedVerifiedHolds == Spec => []ServedVerified
<1>1. Inv => ServedVerified
  BY DEF Inv, Trusted
<1> QED BY <1>1, Correct, PTL

\* The byte counter never drifts, and the limits are kept.
THEOREM CountersExactHolds == Spec => []CountersExact
<1>1. Inv => CountersExact
  BY DEF Inv, Counted, WellFormed, Fits, Cache, Keys, CountersExact
<1> QED BY <1>1, Correct, PTL

\* An answer from the network is not one from the cache.
LEMMA FetchedReply ==
  ASSUME NEW g \in Handlers, NEW body \in Bodies, Fetched(g, body)
  PROVE  \/ reply' = [reply EXCEPT ![g] = Reply(200, body, FALSE)]
         \/ reply' = [reply EXCEPT ![g] = Reply(502, None, FALSE)]
<1> DEFINE Sound == Size[body] \in 1..MaxFetchBytes /\ Verified(asked[g], body)
<1>1. IF Sound THEN Answer(g, Reply(200, body, FALSE)) ELSE Answer(g, Reply(502, None, FALSE))
  BY Zenon DEF Fetched
<1> QED BY <1>1 DEF Answer

\* A handler answers from the cache only where its request found the entry there, alive.
LEMMA HitIsAlive ==
  ASSUME Inv, [Next]_vars, NEW h \in Handlers, reply'[h] # reply[h], reply'[h].hit
  PROVE  entries[CacheKey(asked'[h])].expiresAt > now
<1>0. DOMAIN reply = Handlers /\ asked \in [Handlers -> Locators \cup {None}]
  BY DEF Inv, Trusted, HandlersTyped
<1>1. ASSUME NEW g \in Handlers, reply' = [reply EXCEPT ![g] = NoReply] PROVE FALSE
  BY <1>0, <1>1 DEF NoReply
<1>2. PICK g \in Handlers, l \in Locators : Request(g, l)
  <2>1. ASSUME NEW g \in Handlers, Finish(g) PROVE FALSE
    <3>1. ASSUME NEW body \in Bodies, Fetched(g, body) PROVE FALSE
      <4>1. CASE reply' = [reply EXCEPT ![g] = Reply(200, body, FALSE)]
        BY <1>0, <4>1 DEF Reply
      <4>2. CASE reply' = [reply EXCEPT ![g] = Reply(502, None, FALSE)]
        BY <1>0, <4>2 DEF Reply
      <4> QED BY <3>1, <4>1, <4>2, FetchedReply
    <3>2. ASSUME NEW status, FetchFailed(g, status) PROVE FALSE
      <4>1. reply' = [reply EXCEPT ![g] = Reply(status, None, FALSE)]
        BY <3>2 DEF FetchFailed, Answer
      <4> QED BY <1>0, <4>1 DEF Reply
    <3> QED BY <2>1, <3>1, <3>2 DEF Finish
  <2>2. reply' # reply
    OBVIOUS
  <2> QED BY <2>1, <2>2 DEF Next, Clear, Tick, vars
<1>3. PICK d : d = Prune(Cache)
  OBVIOUS
<1>4. CacheKey(l) \in Keys(d)
  BY <1>1, <1>2, <1>3 DEF Request, Cached
<1>5. g = h /\ asked'[h] = l
  BY <1>0, <1>2, <1>3, <1>4 DEF Request, Cached, Answer
<1>6. /\ Keys(d) \subseteq Keys(Cache)
      /\ \A k \in Keys(Cache) : k \in Keys(d) <=> Cache.entries[k].expiresAt > now
  BY <1>3, PruneWell DEF Inv, Counted
<1> QED BY <1>4, <1>5, <1>6 DEF Cache

\* What the cache serves has not outlived its time.
THEOREM NotServedExpiredHolds == Spec => NotServedExpired
<1>1. Inv /\ [Next]_vars =>
        [\A h \in Handlers :
           (reply'[h] # reply[h] /\ reply'[h].hit) =>
             entries[CacheKey(asked'[h])].expiresAt > now]_vars
  BY HitIsAlive
<1> QED BY <1>1, Correct, PTL DEF Spec, NotServedExpired

\* What a request leaves of the cache: all but what is expired, and what it serves last.
LEMMA RequestKeeps ==
  ASSUME Inv, NEW g \in Handlers, NEW l \in Locators, Request(g, l)
  PROVE  /\ \A k \in DOMAIN entries : k \notin DOMAIN entries' => entries[k].expiresAt <= now
         /\ reply'[g].status = 200 => IsNewest(CacheKey(asked'[g]), entries', older')
         /\ \A h \in Handlers \ {g} : asked'[h] = asked[h] /\ reply'[h] = reply[h]
<1>1. DOMAIN reply = Handlers /\ asked \in [Handlers -> Locators \cup {None}]
  BY DEF Inv, Trusted, HandlersTyped
<1>2. PICK d : d = Prune(Cache)
  OBVIOUS
<1>3. /\ WellFormed(d)
      /\ \A k \in Keys(Cache) : k \in Keys(d) <=> Cache.entries[k].expiresAt > now
  BY <1>2, PruneWell DEF Inv, Counted
<1>4. d = [entries |-> d.entries, older |-> d.older, bytes |-> d.bytes]
  BY <1>2 DEF Prune, DeleteEntries
<1>5. asked' = [asked EXCEPT ![g] = l]
  BY DEF Request
<1>6. CASE Cached(d, CacheKey(l))
  <2>1. PICK p : p = Promote(d, CacheKey(l))
    OBVIOUS
  <2>2. p.entries = d.entries /\ p.older = MadeNewest(d, CacheKey(l))
    BY <1>3, <1>4, <1>6, <2>1, PromoteWell DEF Cached
  <2>3. entries' = d.entries /\ older' = MadeNewest(d, CacheKey(l))
    BY <1>2, <1>6, <2>1, <2>2 DEF Request, Become
  <2>4. \A k \in Keys(d) \ {CacheKey(l)} : <<k, CacheKey(l)>> \in MadeNewest(d, CacheKey(l))
    BY <1>3, NewestLast DEF WellFormed
  <2>5. IsNewest(CacheKey(l), entries', older')
    BY <1>6, <2>3, <2>4 DEF IsNewest, Keys, Cached
  <2>6. PICK r : reply' = [reply EXCEPT ![g] = r]
    BY <1>2, <1>6 DEF Request, Answer
  <2>7. \A k \in DOMAIN entries : k \notin DOMAIN entries' => entries[k].expiresAt <= now
    BY <1>3, <2>3 DEF Cache, Keys, Inv, Counted, WellFormed
  <2> QED BY <1>1, <1>5, <2>5, <2>6, <2>7
<1>7. CASE ~Cached(d, CacheKey(l))
  <2>1. entries' = d.entries /\ reply' = [reply EXCEPT ![g] = NoReply]
    BY <1>2, <1>7 DEF Request, Become
  <2>2. reply'[g].status # 200
    BY <1>1, <2>1 DEF NoReply
  <2>3. \A k \in DOMAIN entries : k \notin DOMAIN entries' => entries[k].expiresAt <= now
    BY <1>3, <2>1 DEF Cache, Keys, Inv, Counted, WellFormed
  <2> QED BY <1>1, <1>5, <2>1, <2>2, <2>3
<1> QED BY <1>6, <1>7

\* What an answer from the network leaves of it.
LEMMA FetchedKeeps ==
  ASSUME Inv, MaxEntries > 0, NEW g \in Handlers, NEW body \in Bodies, Fetched(g, body)
  PROVE  /\ \A k, l \in DOMAIN entries :
              (/\ <<k, l>> \in older
               /\ k \in DOMAIN entries' /\ ~IsNewest(k, entries', older')
               /\ l \notin DOMAIN entries')
              => entries[l].expiresAt <= now
         /\ reply'[g].status = 200 /\ Size[reply'[g].body] <= MaxBytes
              => IsNewest(CacheKey(asked'[g]), entries', older')
         /\ \A h \in Handlers \ {g} : asked'[h] = asked[h] /\ reply'[h] = reply[h]
<1>1. DOMAIN reply = Handlers
  BY DEF Inv, Trusted, HandlersTyped
<1>2. PICK key : key = CacheKey(asked[g])
  OBVIOUS
<1>3. PICK d : d = SetCached(Cache, key, body)
  OBVIOUS
<1>4. /\ Size[body] <= MaxBytes => IsNewest(key, d.entries, d.older)
      /\ \A k, l \in Keys(Cache) :
           (/\ <<k, l>> \in Cache.older
            /\ k \in Keys(d) /\ ~IsNewest(k, d.entries, d.older)
            /\ l \notin Keys(d))
           => Cache.entries[l].expiresAt <= now
  BY <1>3, SetWell DEF Inv, Counted
<1>5. asked' = asked
  BY DEF Fetched
<1>6. CASE Size[body] \in 1..MaxFetchBytes /\ Verified(asked[g], body)
  <2>1. /\ entries' = d.entries /\ older' = d.older
        /\ reply' = [reply EXCEPT ![g] = Reply(200, body, FALSE)]
    BY <1>2, <1>3, <1>6 DEF Fetched, Become, Answer
  <2>2. reply'[g].body = body
    BY <1>1, <2>1 DEF Reply
  <2> QED BY <1>1, <1>2, <1>4, <1>5, <2>1, <2>2 DEF Cache, Keys
<1>7. CASE ~(Size[body] \in 1..MaxFetchBytes /\ Verified(asked[g], body))
  <2>1. entries' = entries /\ reply' = [reply EXCEPT ![g] = Reply(502, None, FALSE)]
    BY <1>7 DEF Fetched, Answer, cacheVars
  <2>2. reply'[g].status # 200
    BY <1>1, <2>1 DEF Reply
  <2> QED BY <1>1, <1>5, <2>1, <2>2
<1> QED BY <1>6, <1>7

\* Where the cache may hold an entry at all, it drops the least recently used first.
THEOREM EvictsOldestFirstHolds ==
  ASSUME MaxEntries > 0
  PROVE  Spec => EvictsOldestFirst
<1> DEFINE
      Newest ==
        \A h \in Handlers :
          (/\ <<asked'[h], reply'[h]>> # <<asked[h], reply[h]>>
           /\ reply'[h].status = 200 /\ Size[reply'[h].body] <= MaxBytes)
          => IsNewest(CacheKey(asked'[h]), entries', older')
      Kept ==
        \A k, l \in DOMAIN entries :
          (/\ <<k, l>> \in older
           /\ k \in DOMAIN entries' /\ ~IsNewest(k, entries', older')
           /\ l \notin DOMAIN entries')
          => entries[l].expiresAt <= now
<1>1. Inv /\ [Next]_vars => [Newest /\ Kept]_vars
  <2> SUFFICES ASSUME Inv, Next PROVE Newest /\ Kept
    OBVIOUS
  <2>1. ASSUME NEW g \in Handlers, NEW l \in Locators, Request(g, l) PROVE Newest /\ Kept
    BY <2>1, RequestKeeps
  <2>2. ASSUME NEW g \in Handlers, NEW body \in Bodies, Fetched(g, body) PROVE Newest /\ Kept
    BY <2>2, FetchedKeeps
  <2>3. ASSUME NEW g \in Handlers, NEW status \in {400, 502, 504}, FetchFailed(g, status)
        PROVE  Newest /\ Kept
    <3>1. DOMAIN reply = Handlers
      BY DEF Inv, Trusted, HandlersTyped
    <3>2. asked' = asked /\ entries' = entries
      BY <2>3 DEF FetchFailed, cacheVars
    <3>3. reply' = [reply EXCEPT ![g] = Reply(status, None, FALSE)]
      BY <2>3 DEF FetchFailed, Answer
    <3>4. \A h \in Handlers : reply'[h] = reply[h] \/ reply'[h].status # 200
      BY <3>1, <3>3 DEF Reply
    <3> QED BY <3>2, <3>4
  <2>4. CASE Clear
    BY <2>4 DEF Clear
  <2>5. CASE Tick
    BY <2>5 DEF Tick, cacheVars
  <2> QED BY <2>1, <2>2, <2>3, <2>4, <2>5 DEF Next, Finish
<1> QED BY <1>1, Correct, PTL DEF Spec, EvictsOldestFirst
=============================================================================
