------------------------- MODULE RemoteManifestCache -------------------------
(***************************************************************************)
(* The cache of remote manifests behind proof locators                     *)
(* (src/services/remote-manifest.service.ts): a JavaScript Map that is      *)
(* also the LRU queue, a byte counter kept beside it, and handlers that     *)
(* fetch over the network between looking a key up and storing under it.   *)
(*                                                                         *)
(* The Map is the function entries with its insertion order in older.      *)
(***************************************************************************)
EXTENDS Integers, FiniteSets, Functions

CONSTANTS
  Handlers,     \* requests in flight
  Locators,     \* what a request asks for: [manifestId, url, alg, digest]
  Bodies,       \* what a remote may answer with
  Size,         \* bytes of each body
  Hash,         \* digest of each body
  MaxEntries, MaxBytes, TTL,   \* config.REMOTE_MANIFEST_CACHE_*
  MaxFetchBytes,               \* config.REMOTE_MANIFEST_MAX_BYTES
  MaxTime,      \* bound on the clock
  None

SupportedAlgs == {"sha256", "sha384", "sha512"}

ASSUME CacheAssumption ==
  /\ Size \in [Bodies -> Nat]
  /\ \A l \in Locators : DOMAIN l = {"manifestId", "url", "alg", "digest"}
  /\ MaxEntries \in Nat /\ MaxBytes \in Nat /\ TTL \in Nat
  /\ MaxFetchBytes \in Nat /\ MaxTime \in Nat
  /\ None \notin Locators /\ None \notin Bodies

VARIABLES
  entries,      \* cached body and expiry of each cached key
  older,        \* which cached key was inserted before which
  cachedBytes,  \* the byte counter
  now,          \* Date.now()
  pc,           \* "idle", or "fetching" while fetchRemoteBytes is awaited
  asked,        \* what each handler was last asked for
  reply         \* what it answered

cacheVars == <<entries, older, cachedBytes>>
vars == <<entries, older, cachedBytes, now, pc, asked, reply>>

NoReply == [status |-> 0, body |-> None, hit |-> FALSE, at |-> 0]
Reply(status, body, hit) ==
  [status |-> status, body |-> body, hit |-> hit, at |-> now]

Init ==
  /\ entries = <<>> /\ older = {} /\ cachedBytes = 0
  /\ now = 0
  /\ pc = [h \in Handlers |-> "idle"]
  /\ asked = [h \in Handlers |-> None]
  /\ reply = [h \in Handlers |-> NoReply]

(***************************************************************************)
(* The Map and its counter                                                 *)
(***************************************************************************)
\* Fault variant of CacheKey: the digest is left out of the key.
KeyWithoutDigest(l) == [l EXCEPT !.digest = None]

\* buildCacheKey hashes all four components of the request, so that requests
\* share an entry only if they agree on all of them.
CacheKey(l) == l

\* A cache as a value: what the module variables hold at some point of a
\* synchronous stretch of code.
Cache == [entries |-> entries, older |-> older, bytes |-> cachedBytes]

Keys(c) == DOMAIN c.entries
Cached(c, key) == key \in Keys(c)

\* The bytes of the bodies under some keys, each a pair of its key and its place.
BytesOf(held, keys) == UNION {{k} \X (1..Size[held[k].body]) : k \in keys}
TotalSize(held, keys) == Cardinality(BytesOf(held, keys))

DeleteEntries(c, keys) ==
  LET rest == Keys(c) \ keys
  IN [entries |-> Restrict(c.entries, rest),
      older   |-> c.older \cap (rest \X rest),
      bytes   |-> c.bytes - TotalSize(c.entries, Keys(c) \ rest)]

\* Fault variant of Prune: an entry is still good when it expires.
PruneLate(c) ==
  DeleteEntries(c, {k \in Keys(c) : c.entries[k].expiresAt < now})

Prune(c) ==
  DeleteEntries(c, {k \in Keys(c) : c.entries[k].expiresAt <= now})

\* A key that is inserted anew comes last in the order of the Map.
MadeNewest(c, key) ==
  LET others == Keys(c) \ {key}
  IN (c.older \cap (others \X others)) \cup (others \X {key})

\* Map.set on a key it does not hold.
Store(c, key, body) ==
  [entries |-> [k \in Keys(c) \cup {key} |->
                  IF k = key THEN [body |-> body, expiresAt |-> now + TTL]
                             ELSE c.entries[k]],
   older   |-> MadeNewest(c, key),
   bytes   |-> c.bytes + Size[body]]

Promote(c, key) == [c EXCEPT !.older = MadeNewest(c, key)]

\* Fault variant of Oldest: the other end of the queue.
NewestOf(c) ==
  {D \in SUBSET Keys(c) : \A k \in D, l \in Keys(c) : <<k, l>> \in c.older => l \in D}

\* The keys that are gone after any number of turns that delete the oldest.
Oldest(c) ==
  {D \in SUBSET Keys(c) : \A k \in D, l \in Keys(c) : <<l, k>> \in c.older => l \in D}

Fits(c) == Cardinality(Keys(c)) <= MaxEntries /\ c.bytes <= MaxBytes

\* evictLruUntilWithinLimits deletes no more than it has to for the limits to hold,
\* or everything.
EvictLru(c) ==
  LET enough == {D \in Oldest(c) : Fits(DeleteEntries(c, D)) \/ D = Keys(c)}
  IN DeleteEntries(c, CHOOSE D \in enough : \A E \in enough : D \subseteq E)

\* Fault variant of SetCached: the entry under the key is overwritten without
\* taking its bytes off the counter.
OverwriteCached(c, key, body) == EvictLru(Store(Prune(c), key, body))

SetCached(c, key, body) ==
  EvictLru(Store(DeleteEntries(Prune(c), {key}), key, body))

Become(c) ==
  /\ entries' = c.entries
  /\ older' = c.older
  /\ cachedBytes' = c.bytes

(***************************************************************************)
(* fetchRemoteManifestWithCache                                            *)
(***************************************************************************)
Answer(h, r) ==
  /\ pc' = [pc EXCEPT ![h] = "idle"]
  /\ reply' = [reply EXCEPT ![h] = r]

\* Up to the first await: a hit is answered at once, a miss starts a fetch.
Request(h, l) ==
  /\ pc[h] = "idle"
  /\ asked' = [asked EXCEPT ![h] = l]
  /\ LET pruned == Prune(Cache)
         key    == CacheKey(l)
     IN IF Cached(pruned, key)
        THEN /\ Become(Promote(pruned, key))
             /\ Answer(h, Reply(200, pruned.entries[key].body, TRUE))
        ELSE /\ Become(pruned)
             /\ pc' = [pc EXCEPT ![h] = "fetching"]
             /\ reply' = [reply EXCEPT ![h] = NoReply]
  /\ UNCHANGED now

Verified(l, body) == l.alg \in SupportedAlgs /\ Hash[body] = l.digest

\* The remote answered with a body.  readStreamWithLimit refuses one that is
\* too large, the service one that is empty or does not match the digest.
Fetched(h, body) ==
  /\ pc[h] = "fetching"
  /\ IF Size[body] \in 1..MaxFetchBytes /\ Verified(asked[h], body)
     THEN /\ Become(SetCached(Cache, CacheKey(asked[h]), body))
          /\ Answer(h, Reply(200, body, FALSE))
     ELSE /\ Answer(h, Reply(502, None, FALSE))
          /\ UNCHANGED cacheVars
  /\ UNCHANGED <<now, asked>>

\* The fetch failed: bad URL, refused, timed out.
FetchFailed(h, status) ==
  /\ pc[h] = "fetching"
  /\ Answer(h, Reply(status, None, FALSE))
  /\ UNCHANGED <<cacheVars, now, asked>>

\* clearRemoteManifestCache
Clear ==
  /\ entries' = <<>> /\ older' = {} /\ cachedBytes' = 0
  /\ UNCHANGED <<now, pc, asked, reply>>

Tick ==
  /\ now < MaxTime
  /\ now' = now + 1
  /\ UNCHANGED <<cacheVars, pc, asked, reply>>

Finish(h) ==
  \/ \E body \in Bodies : Fetched(h, body)
  \/ \E status \in {400, 502, 504} : FetchFailed(h, status)

Next ==
  \/ \E h \in Handlers, l \in Locators : Request(h, l)
  \/ \E h \in Handlers : Finish(h)
  \/ Clear
  \/ Tick

Spec == Init /\ [][Next]_vars

(***************************************************************************)
(* Properties                                                              *)
(***************************************************************************)
\* The Map holds entries under what was asked for; handlers and replies are as they
\* should be.
TypeOK ==
  /\ DOMAIN entries \subseteq Locators
  /\ entries \in [DOMAIN entries -> [body : Bodies, expiresAt : Nat]]
  /\ older \subseteq (DOMAIN entries) \X (DOMAIN entries)
  /\ cachedBytes \in 0..MaxBytes
  /\ now \in Nat
  /\ pc \in [Handlers -> {"idle", "fetching"}]
  /\ asked \in [Handlers -> Locators \cup {None}]
  /\ reply \in [Handlers -> [status : {0, 200, 400, 502, 504}, body : Bodies \cup {None},
                             hit : BOOLEAN, at : Nat]]

\* Whatever a remote answered in the meantime and to whom, every body in the
\* cache matches the digest that is part of its key.
CacheVerified ==
  \A k \in DOMAIN entries : Verified(k, entries[k].body)

\* A manifest is served, from the network or from the cache, only if it matches
\* the digest this request asked for.
ServedVerified ==
  \A h \in Handlers : reply[h].status = 200 => Verified(asked[h], reply[h].body)

\* The counter is the number of bytes cached, and both it and the entries are within
\* their limits between any two steps: no overlap of fetches for one key makes it
\* drift, and no body that was just stored, larger than the whole cache or not,
\* leaves it above.
CountersExact ==
  /\ cachedBytes = TotalSize(entries, DOMAIN entries)
  /\ Cardinality(DOMAIN entries) <= MaxEntries /\ cachedBytes <= MaxBytes

\* Nothing is served from the cache once its time to live is over.
NotServedExpired ==
  [][\A h \in Handlers :
       (reply'[h] # reply[h] /\ reply'[h].hit) =>
         entries[CacheKey(asked'[h])].expiresAt > now]_vars

IsNewest(key, held, before) ==
  key \in DOMAIN held /\ \A k \in DOMAIN held \ {key} : <<k, key>> \in before

\* The cache is least recently used first: what was just served is the last to
\* go, unless it is larger than the whole cache, and a live entry is dropped
\* only with every entry served before it.
EvictsOldestFirst ==
  [][/\ \A h \in Handlers :
          (/\ <<asked'[h], reply'[h]>> # <<asked[h], reply[h]>>
           /\ reply'[h].status = 200 /\ Size[reply'[h].body] <= MaxBytes)
          => IsNewest(CacheKey(asked'[h]), entries', older')
     /\ \A k, l \in DOMAIN entries :
          (/\ <<k, l>> \in older
           /\ k \in DOMAIN entries' /\ ~IsNewest(k, entries', older')
           /\ l \notin DOMAIN entries')
          => entries[l].expiresAt <= now]_vars
=============================================================================
