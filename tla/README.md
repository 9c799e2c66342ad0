# A TLA+ verification of the trusthash sidecar

The sidecar (`src/`, a Hono server over DuckDB, with a React client under `web/`) indexes
C2PA manifests that the AR.IO gateway announces, and resolves manifests, soft bindings and
perceptual hashes against that index and against the gateway. This directory holds
models of its parts, the TLC runs that check them on small instances, and theorems
about all of these models that TLAPS checks for every instance.

Paths below are those of the repository; `PROJECT.json` maps each definition to the
lines it stands for.

## 1. The system

| part | code | state | operations | talks to |
|---|---|---|---|---|
| webhook ingestion | `src/routes/webhook.ts`, `src/services/webhook.service.ts`, `src/db/index.ts` | requests in flight; tables `manifests`, `soft_bindings` | POST of a payload or a batch | the shared connection |
| connection | `src/db/index.ts` | one `Database` with at most one transaction | `runInTransaction`, `run`, `all`, open, close | DuckDB |
| schema, migrations | `src/db/schema.ts`, `src/db/migrations.ts`, `src/migrate.ts` | shape of the tables, sequence, `schema_migrations` | one run at every start | DuckDB |
| start and shutdown | `src/index.ts`, `src/db/index.ts` | the process, what it has opened | start, signals, exit | connection, migrations |
| remote manifest cache | `src/services/remote-manifest.service.ts` | Map that is also the LRU queue, byte counter | lookup, store, expire, evict, clear | remote fetch |
| remote fetch | `src/services/remote-fetch.service.ts`, `src/utils/http.ts`, `src/utils/stream.ts` | per request: URL, hop, timer, chunks | fetch with redirects, timer and limits | any remote |
| rate limiter | `src/middleware/rate-limit.ts`, `src/index.ts` | bounded Map of token buckets | one request | - |
| gateway GraphQL | `src/services/gateway-graphql.service.ts` | none | lookup by binding, by manifest id | the gateway |
| soft-binding resolution | `src/routes/softbinding.ts` | none of its own | byBinding, byContent, byReference | gateway, tables, remote fetch, hashing |
| similarity search | `src/services/search.service.ts`, `src/routes/search.ts` | none of its own | search by hash or transaction | tables |
| manifest resolution | `src/routes/manifests.ts` | none of its own | GET of a manifest | gateway, tables, cache |
| signing | `src/routes/sign.ts`, `src/services/signing.service.ts` | none, a key | /sign, /identity/sign | crypto library, KMS |
| hashes, conversions | `src/utils/bit-vector.ts`, `src/services/phash.service.ts`, `src/services/softbinding.service.ts` | none | hash an image, spell a hash, compare | image library |
| web search page | `web/src/hooks/useSearch.ts`, `web/src/pages/ResultsPage.tsx`, `web/src/api/client.ts` | `SearchState` of the page | three kinds of search, reset, leave | the routes above |
| other web pages | `web/src/components/SearchBox.tsx`, `ManifestDetail.tsx`, `web/src/pages/`, `web/src/contexts/FileContext.tsx` | file carried between pages, detail of a manifest | select, submit, look up, navigate | client |
| health, docs, config, logging, previews, scripts | the rest | constants | - | - |

What makes it hard:

* **One connection for all requests.** JavaScript handlers interleave at every `await`,
  and `runInTransaction` has three or more of them; BEGIN, COMMIT and ROLLBACK act on
  whatever transaction the connection is in, whoever opened it, and so do readers.
* **Untrusted, repeated and reordered input.** The gateway delivers again and in any
  order; anybody may publish a transaction with somebody's manifest id. First write wins.
* **Several sources of one answer.** Resolutions merge the gateway with the local tables
  while webhooks add to them, and each source may fail.
* **Bounded memory.** Cache, limiter and stream limits, with counters kept beside the data.
* **Crashes and signals.** Nothing but DuckDB is durable; migrations commit separately from
  the row that records them, and a signal closes the database under whatever runs.
* **One thing in many spellings.** A hash is bits, hex, floats and base64; a signature is DER
  and two numbers; a tag is plain or base64url. A conversion that is right for most inputs
  passes every test.
* **A client that does not cancel.** An overtaken search or lookup still sets the page's state.

What makes each part correct is stated by the properties in section 3, and the places where
it could go wrong are listed, with their lines, under `hazards` in `PROJECT.json`.

## 2. Modules

| module | models | how |
|---|---|---|
| `WebhookRules` | decisions of `processWebhook` | a payload is the record of tag values the decision reads; `Verdict` is the chain of early returns, `RowOf` the record written |
| `DuckDbConnection` | the connection, as the code relies on it | `disk` is committed, `view` is what statements see, `tx` the transaction; external |
| `WebhookIngest` | the handlers of POST /webhook | one action per stretch of code between two awaits: `Deliver`, `Respond`, `Throw`, `Classify`, `Begin` ... `Commit`, `Undo`, `Crash`; `Query` is a reader of any other route on the same connection |
| `ManifestIndex` | what ingestion promises | `InsertIfAbsent`: an absent artifact and its binding enter together, nothing leaves |
| `RemoteManifestCache` | the cache | `entries` and `older` are the Map and its insertion order, as the pairs of keys of which one stands before the other; `Request` and `Fetched` are the two synchronous stretches around the fetch |
| `RemoteFetch` | one remote fetch | phases of `fetchRemoteBytes`; the remote may do anything |
| `RateLimiter` | the limiter | exact integer tokens; `admitted` is a history variable |
| `GatewayGraphql` | pure part of the gateway service | dedupe, order, extraction as operators |
| `SoftBindingResolve` | byBinding | gateway step, local step, either of which may fail, and `Indexed` in between |
| `SimilaritySearch` | search by hash | a hash is the set of its one bits, distance the size of the symmetric difference |
| `QueryRoutes` | byBinding, byContent, byReference, search-similar, from request to answer | `Receive...` are the handlers up to their first await; then upload or fetch, validation and hash, search |
| `ManifestResolution` | GET manifest | all fallbacks; the local rows are those `WebhookRules` can write, so the route is checked against what ingestion stores |
| `Signing` | /sign, /identity/sign, DER to P1363 | buffers are sequences of bytes, a throw is the empty one |
| `PHashFormats` | spellings of a hash and distances | strings are sequences of characters, because the conversions work on them |
| `TagDecoding` | `decodeTags`, `getTagValue` | a text is what it says and how many times it is encoded |
| `Conversions` | the three above, each against what it must preserve | a job is taken and carried out in one step |
| `Migrations` | `runMigrations` | the table's shape, the open transaction's copy, one action per statement that matters |
| `ServerLifecycle` | the process: start, signals, shutdown, `migrate.ts` | `Launch`, `Opened`, `Serve`, `Signal`, `Closed`, `Crash`, and webhooks reduced to one row each |
| `UseSearch` | the search page | searches that overlap, `Show` sets the one state of the page |
| `WebClient` | the pages around it | the file carried from page to page, `ManifestDetail` with lookups that overlap |
| `*Proofs` | theorems | section 5 |
| `MC*` | the instances TLC checks | |

How they compose:

* `WebhookIngest` takes `WebhookRules` and `DuckDbConnection` (its actions are conjunctions of
  a statement's outcome and the handler's reaction) and implements `ManifestIndex` under
  `manifests <- disk.manifests, softBindings <- disk.softBindings`.
* `QueryRoutes` takes `SoftBindingResolve` (hence `GatewayGraphql`), `RemoteFetch` and
  `SimilaritySearch`: byReference runs the fetch's own steps, and both search routes end in
  the same answer.
* `ManifestResolution` takes `GatewayGraphql` by EXTENDS and `WebhookRules` by INSTANCE.
* `ServerLifecycle` takes `Migrations`, whose statements are the steps of a start.
* `WebClient` takes `UseSearch`, which takes `SimilaritySearch`.

Abstractions. A row keeps the columns some decision reads; both digest columns, which are
set together, are one field. In `WebhookIngest` a payload exists once its tags are decoded;
`TagDecoding` has the decoding. The address arithmetic of the URL policies is a set:
`SafeUrls`, `AllowedUrls`, what kind of host a URL has (`HostOf`) and the three ways a host may
resolve; where a connection ends is the network or the private network (`reached`). The limiter
counts tokens in units of 1/windowMs, so what the code does in floating point is exact here. The
clock never steps back. An image is the hash it has. A signature is the pair of numbers the
library promises. Several modules carry *fault variants* of some definitions: the same operator with
one plausible mistake. Nothing uses them; they show for each property a change of the code that
violates it.

What is assumed of DuckDB: a statement in an aborted transaction is refused; a constraint
violation or an I/O error aborts the transaction; BEGIN inside a transaction is refused; one
connection sees its own uncommitted writes; drawing from a sequence is not undone by a
rollback. Whether the refused BEGIN leaves the transaction open or aborted
(`AfterNestedBegin`), whether the COMMIT of an aborted transaction is refused or silently
rolls back (`CommitOfAborted`) and whether COMMIT and other statements can fail are
constants, and the runs take both answers. `package.json` asks for `duckdb-async` ^1.1.0, and DuckDB
1.x is understood to answer the COMMIT of an aborted transaction without an error, by rolling it back;
`ingest_aborted` shows what follows from that.

## 3. Runs

Passing runs:

| run | asks | bounds, and why they are enough |
|---|---|---|
| `ingest_safety` | `TransactionOwned`, `BindingsComplete`, `AlreadyIndexedIsTrue`, `CommittedVisible`, `WritesAreReported`, `IndexedIsStored`, and that ingestion implements `ManifestIndex` (`ImplementsIndex`), whether DuckDB refuses the COMMIT of an aborted transaction or rolls it back without an error, while the COMMIT of a good one does not fail | two handlers, three requests, one crash, readers at any moment; payloads that share a manifest id, share a transaction id or share nothing, and batches that fail in the middle; a race needs two, a stray effect on a third request needs three deliveries |
| `ingest_faults` | `UniqueManifests`, `FirstWriteWins`, `EveryRequestAnswered`, `TransactionEnds` whatever DuckDB answers, a COMMIT included that fails and whose ROLLBACK then hits another handler | two handlers, three requests, one crash; every kind of payload the rules tell apart |
| `remote_cache` | `ServedVerified`, `CountersExact`, `NotServedExpired`, `EvictsOldestFirst` | two overlapping requests, locators that differ in one component, bodies over the fetch limit, over the cache limit, empty and wrong; clock longer than the TTL |
| `queries` | `LatestEndpoint`, `OtherSourceSuffices` (byBinding), `SentOnlyAllowed`, `LimitIsExact` (the fetch of a reference), `AnswerFitsRequest` (the three search routes), `BindingRoomHalfFilled` (the LIMIT of byBinding), `QueriesEnd` | three transactions about two manifests, in every order and repeated, pending or in a block; hashes of two bits with a threshold of one, so that a hash is equal, near or far; every combination of algorithm and hint; two allowed URLs, so that redirects loop to the limit (1 instead of 5), and one refused; of the allowed ones one is reached by http and one by https, so that the checked address is used and is not; a limit of one byte that chunks meet and step over |
| `limiter` | `WindowBound`, `RefusedOnlyOverCapacity`, `RetryAfterSuffices`, `EvictsLeastRecent` | three clients and a Map of two, so that buckets are evicted and come back; capacity 2 over a window of 3, so that a token is not a whole number of ticks; almost two windows |
| `resolution` | `OneSourceLocator`, `VerifiedIfProof`, `NotFoundIsJustified` | two transactions, every row ingestion can write, and a row that appears at any moment, also after the lookup that missed it |
| `conversions` | `SignatureExact`, `PayloadLimit`, `SameBits`, `ReadEitherWay` | signatures of two-byte numbers from bytes 0, 1 and 128 (zero, positive, in need of a sign byte), every one with one byte altered, and keys of the curve and of a wider one; payloads of up to the limit of 12 bytes and above, so that all paddings occur on both sides of it; all hashes of eight bits in every spelling, and all texts of up to four characters; up to three tags in every order, plain or encoded |
| `lifecycle` | `ServesWithSchema`, `AppliedStaysTrue`, `RowsSurvive`, `FinallyServes` | databases of every release, every set of up to three row ids, four crashes, failures, signals or runs of `migrate`, so that the repetition of an interrupted step may be interrupted too |
| `web_client` | `LoadingMeansOutstanding`, `ShownIsNear`, `MissingIsNotListed` | two overlapping searches of every kind and two overlapping lookups; two manifests that appear at any time, one more than a list holds |

Type invariants are not part of the runs: they are theorems (`TypeCorrect` of each state machine and
`FetchTyped`; the conversions, whose jobs are taken from their sets, need none). Nor are
`LocatorsServable` (no incomplete proof locator is stored) and `TrackedBounded` (the Map of the limiter
stays within its maximum), which are theorems as well.

What some of the properties do not say:

* `CommittedVisible` is about readers that are answered. While a transaction is aborted every reader
  of the connection is refused, and a route may turn that into an answer of its own
  (`src/routes/manifests.ts:193`, below). A reader that is answered may see the artifact of the one webhook
  in its transaction, which may still be rolled back.
* `IndexedIsStored` is about the step in which 'indexed' is decided upon, and names its exception:
  the transaction was aborted by somebody else, and its COMMIT is answered without an error.
* `SentOnlyAllowed` says that the host of every hop is checked once, before its request is sent, and
  that an address, and a name over http that was found to be public, lead to no other place. Where the name
  is kept (https, or a name that did not resolve) `fetch` resolves it again, and the property says only
  that a private connection can come about there and nowhere else.
* `VerifiedIfProof` speaks of the record the answer rests on: the row if it was read, otherwise what
  the gateway told. Where the row says manifest-store and the gateway, unasked or overruled, says
  proof locator, the bytes are served without verification, and where the gateway's record has a
  redirect it is followed before the row is read.
* `NotFoundIsJustified` allows the route's own 404 for an indexed manifest if the table could not be read,
  and only then. It is not about a 404 the manifest store gives for the bytes.

A bucket of the limiter that is evicted comes back full: `WindowBound` and
`RefusedOnlyOverCapacity` therefore count what was let through since the last eviction, and
`EvictsLeastRecent` says whom an eviction may hit.

Runs that show a disagreement between the code and what the repository says of it (the quoted
lines are in `PROJECT.json`, `findings`):

| run | shows |
|---|---|
| `ingest_aborted` | two webhooks are enough for `ReportedOnlyIfStored` to fail: the refused BEGIN of the second aborts the transaction of the first, whose COMMIT is answered without an error, and 'indexed' is reported of what was rolled back (it rests on DuckDB aborting the transaction and answering so) |
| `remote_fetch_policy` | one fetch breaks both promises of `docs/c2pa-support-matrix.md:139` and `:140` (`NeverHeldByPrivateHost`): over https a name found to be public is resolved again when `fetch` connects, into the private network, and since the timer stops when the headers arrive, the body may take for ever |
| `limiter_webhook` | the limiter runs twice for POST /webhook: a client is refused after half of the capacity (it rests on the router letting `/webhook/*` match `/webhook`, which Hono does) |

Further disagreements and surprises met while modelling. The models behave this way, but no run
is spent on them.

Ingestion, connection and process:

* With `CommitMayFail` ingestion keeps only what `ingest_faults` asks: the ROLLBACK after a failed
  COMMIT (`src/db/index.ts:24`) may hit the transaction another request has begun, whose remaining
  statements then commit one by one (`BindingsComplete` fails).
* A reader on the shared connection sees rows that are rolled back afterwards, is refused while
  somebody's transaction is aborted, and, when its own query fails, aborts the transaction of a
  webhook. If it does so right before a COMMIT that is answered as in `ingest_aborted`, that webhook too
  is reported as indexed and not stored.
* A single payload whose processing ends in an error, for instance because its BEGIN met another
  request's transaction, is answered 400 (`src/routes/webhook.ts:72`);
  `openapi/openapi.yaml:168` says 200 even on processing errors.
* The "graceful shutdown" (`src/index.ts:84`) does not stop accepting requests: webhooks run, and
  fail, until the process exits. A signal during the migrations closes the database under them.
* Plain tags whose known names are all in another case are decoded as if they were base64url
  (`src/services/webhook.service.ts:52`), although `getTagValue` ignores case.

Limiter:

* Where it runs twice, a client out of tokens that sends again whenever one token is back is never let
  through: the first run takes the token and the second refuses. A client that waits the second
  Retry-After asks for is (`RetryAfterHolds`).

Queries:

* With gateway and table both down byBinding answers 200 and no matches
  (`src/routes/softbinding.ts:142`); `openapi/openapi.yaml:455` lists 502.
* `hintAlg` must be paired with `hintValue` (`openapi/openapi.yaml:532`), but `hintAlg` alone is
  accepted and ignored; and byReference with a complete hint of an unsupported algorithm is
  refused only after the fetch, although `src/routes/softbinding.ts:391` says "before fetching".
* An ISCC search never finds anything: ingestion stores only pHashes.
* search-similar chooses its status by the words of an error message that quotes the input: a
  malformed hash that contains "not found" is answered 404. The message that a manifest has no
  pHash cannot occur.
* The LIMIT of the local query counts duplicates (`src/routes/softbinding.ts:154`): matches the gateway
  gave already are dropped after it, so a match may be missing while there is room for it, though never
  for more than half of the room (`BindingRoomHalfFilled`). No document promises more.
* An error of the local lookup, a refused reader included, is taken for an unknown manifest
  (`src/routes/manifests.ts:193`): 404 for one that is indexed, if the gateway does not know it.
  `openapi/openapi.yaml:830` speaks of manifests not found in any source, and is silent on a source that
  could not be asked.

Signing:

* An integer longer than the curve order throws, says `src/services/signing.service.ts:51`; its
  byte length is compared, not its value. The length of the SEQUENCE is never compared and bytes
  after it are accepted. A key is never compared with the algorithm: a P-256 key under ES384 gives
  96 bytes, in a 200.
* The size of an identity payload is estimated with its padding (`src/routes/sign.ts:133`): one of
  exactly the documented 10 MB (`openapi/openapi.yaml:1066`) that needs padding gets 413. The payload
  `==` is not empty and signs no bytes.

Web client:

* The "full index" a content search matches against (`web/src/hooks/useSearch.ts:83`) is the
  first 100 manifests by distance from the zero hash; and the distances a manifest search shows
  (`:121`) are those from the zero hash, so that distance 0 does not mean the same hash.
* The lookup of a manifest swallows its errors and reads the same 100: "Manifest not found in the
  index" (`web/src/components/ManifestDetail.tsx:64`) is also what a failing server, or a larger
  index, looks like. This is why `MissingIsNotListed` speaks of the list and not of the index.
* `matchByReference` posts `url` where the route reads `referenceUrl`; no page uses it.
* `SearchBox` may show the preview of a file selected before the last one
  (`web/src/components/SearchBox.tsx:47`); previews are not modelled.

`CHECK_DEADLOCK FALSE` appears where a behaviour is finite: one request that ends in an
answer, a job that is done, a bound on deliveries, admitted requests or events that has been
reached.

## 4. Fairness

`WebhookIngest`: weak fairness of each handler's steps. The event loop resumes a handler whose
statement was answered, and the statements of a handler are always answered, with a result or
an error. Nothing is assumed of deliveries, readers and crashes.

`QueryRoutes`: weak fairness of the handler's synchronous steps, of the table, the image library,
the resolver and the timer (`Receive \/ Local`). Nothing makes a client send its body, a remote
its body or the gateway its answer: `QueriesEnd` says that the handler ends unless it waits for
one of them, and that it does not wait for headers for ever, because of the timer alone.

`ServerLifecycle`: a supervisor starts the server again (`Launch`), statements return
(`Opened \/ Migrating \/ Serve \/ Finish`), and so does `db.close()` (`Closed`). Crashes,
failures and signals are bounded by `MaxEvents`, so `FinallyServes` says that nothing they leave
behind keeps the server from serving.

The other modules need none: they have no liveness property.

## 5. Proofs

`WebhookIngestProofs`, for any handlers, payloads and bounds:

* `TypeCorrect`: `TypeOK` is inductive by itself. One lemma per helper (`GoToTyped`,
  `FinishTyped`, `ConnStepTyped` ...), then one step per action.
* `UniqueManifestsHolds`, `FirstWriteWinsHolds`, whatever DuckDB answers. The committed rows are
  unique, but that is not inductive: COMMIT copies `view`. The invariant adds that the rows of
  `view` are unique and include those of `disk` (`RowsCorrect`). It survives even the stray
  ROLLBACK, since dropping the uncommitted part and committing a row singly both keep it.
* `TransactionOwnedHolds`, `BindingsCompleteHolds`, `CommittedVisibleHolds`,
  `LocatorsServableHolds`, `WritesAreReportedHolds`, `AlreadyIndexedIsTrueHolds`, `IndexedIsStoredHolds` and
  `Implementation` (every step is an `InsertIfAbsent` or a stutter), under the assumption
  `~CommitMayFail`, and for either answer to the COMMIT of an aborted transaction. The inductive
  invariant (`AtomicCorrect`) says that at most one handler is
  between BEGIN and its end, that the transaction is open or aborted exactly then, and what
  `view` holds beyond `disk` at each of its steps: nothing, the row, the row without old
  bindings, the row with its binding. Without it neither the contents at COMMIT nor whose they
  are could be told, nor what a reader sees (`CommittedVisible`). The assumption is needed: with
  `CommitMayFail` TLC finds the stray ROLLBACK of section 3. So is the exception in `IndexedIsStored`:
  without it the statement is refuted by `ingest_aborted`.

`RemoteManifestCacheProofs`, for any number of handlers, locators and bodies, any sizes and limits,
and any remote. The invariant (`Inv`) says of the Map that its keys are in an order, that the byte
counter is the sum over its bodies, that both limits hold and that every body verifies under its own
key; and of the handlers that an answer 200 verifies under what its handler asked.

* `CacheVerifiedHolds`, `ServedVerifiedHolds`, `CountersExactHolds` follow from it. Each
  synchronous stretch deletes, prunes, evicts and stores in turn, and each of these has a lemma. The
  loop of `evictLruUntilWithinLimits` is no loop in the model: what goes is the shortest beginning of the
  queue that is enough, and `EvictedLeast` shows that there is one.
* `NotServedExpiredHolds` and `EvictsOldestFirstHolds` are about a step. The second assumes
  `MaxEntries > 0`: a cache that may hold nothing drops what was just stored.
* `TypeCorrect`. What deletes, prunes, evicts, stores or moves to the end keeps the keys requests
  and the entries as `setCached` makes them (`Keyed`).

`QueryRoutesProofs`, for any chain, gateway, table, policy, limits and remote:

* `LatestEndpointHolds`, `OtherSourceSufficesHolds`. The gateway's nodes are deduplicated, put in
  order, cut, and reduced to the first match of each manifest; `InOrderEnumerates` and
  `FirstOccurrencesKept` say what the passes keep, and `GatewayMatches` that what is left is the
  latest. The invariant (`Binding`) then says what each source has contributed at each phase;
  that room was left when the table is asked (`Progress`) is what makes its answer arrive.
* `SentOnlyAllowedHolds`, `LimitIsExactHolds`, `FetchTyped`. Where a request goes is decided one
  phase before it leaves, so `Policed` adds that the URL of every phase after the check is allowed
  and the address is not a private one, that a connection that is pinned to it ends nowhere else, and
  ties the number of requests to the hop; that the bytes
  kept are within the limit and are those sent needs `Measured`, which says so phase by phase and
  that nothing is refused before the end.
* `AnswerFitsRequestHolds`. Between request and search the handler awaits an upload, a fetch or a
  lookup; `Routed` says that what it then searches for is still what the request means. The answer of
  the search itself is treated by a lemma on any finite table.
* `RoomHalfFilledHolds`: the table is asked for as many manifests as there is room, and of those it
  gives some may be known, but never more than the gateway gave. So an
  answer fills at least half of its room, or holds all that is indexed.
* `LookupComposes`, `FetchComposes`: a request to byBinding is a behaviour of `SoftBindingResolve`
  alone, and the fetch of a reference takes only the steps of `RemoteFetch` until its handler is done
  with it; the other routes leave both alone. What holds of the parts therefore holds of them inside
  `QueryRoutes`, and `RoomHalfFilledHolds` is proved that way.
* `TypeCorrect`. A handler asks and searches only for what its route has parsed, which has to be said
  for each phase it is on its way in (`Asking`, `Searching`).

`RateLimiterProofs`, for any clients, capacity, window and size of the Map: `TypeCorrect`, `Bounded`
(`TrackedBounded`), `WindowHolds`, `RetryAfterHolds`, `EvictsLeastRecentHolds`, and
`RefusedOnlyOverCapacityHolds` if the limiter is mounted once (`Passes = 1`; with two, TLC refutes it in
`limiter_webhook`). The invariant: the keys of the Map stand in the order of their last request, each
once (`Queued`); for every earlier time, what was let through since and what is left in the bucket are together
at most a full bucket and the refill since (`Spent`), which is what makes a bound on every window
inductive; and a refused client has its token by the time it was told, which is at least a second away
(`Promised`). Refusals need the opposite bound: nothing but passing uses tokens up (`Kept`).
`RetryAfterHolds` says that who waits as long is let through. With one run that takes one token; where
the limiter runs several times it needs one for each, and holds if the second refills as many (`Paced`;
/webhook, with 600 requests a minute, refills ten for its two).

`ManifestResolutionProofs`, for any chain, table and answer of the gateway: `TypeCorrect`,
`OneSourceLocatorHolds`, `VerifiedIfProofHolds`, `NotFoundIsJustifiedHolds`. The invariant: what a source has
told is a record of the chain or one that ingestion writes, and the latter is complete (`Sources`); what is
fetched with is URL and digest of the deciding record, and the manifest store is not asked about a proof
locator (`Asked`); and so are the answers (`Answered`). The code picks its fields one by one, each from
the row if it has it; `Picked` says that what it picks is the deciding record whenever that is a proof
locator, because a row that is a proof locator is complete. That is derived from `WebhookRules`
(`Verdict`, `RowOf`), not assumed.

`ConversionsProofs`:

* `ConversionExact`, about the operator `DerToIeeeP1363` for every buffer and every component length:
  it refuses, or returns both numbers of the buffer, right-aligned and unchanged. Numbers are
  compared byte by byte from the right (`ByteAt`), which makes leading zeros and padding the same thing;
  `StripKeeps` and `PaddedKeeps` say so for the two helpers.
* `SignatureExactHolds`, the same of the routes, for keys of up to 124 bytes a component (the widest
  curve has 66). `DerIs` follows what crypto.sign writes, in short or long form, back to the two
  INTEGERs `derToIeeeP1363` finds; `MinimalKeeps` and `MinimalFits` say that these have the number, and
  room if its key has.
* `PayloadLimitHolds`: the estimate is at most three bytes above what is decoded, and never below.
* `ReadEitherWayHolds`, for any number of tags.
* `SameBitsHolds`, for every hash of a width that is a multiple of eight, every pair of spellings and every
  text. A text is cleaned to the digits it is about, with or without a prefix or spaces
  (`CleanedPlain`, `CleanedPrefixed`, `TrimIs`). A digit is its four bits and four bits are their
  digit (`FourBits`, `DigitIs`, `BitsOfDigit`), so that hex and bits say the same (`HexReads`,
  `BinaryReads`), as bytes and floats do (`BytesAndBack`). The distance comparePHashes counts and
  the squared one of the database are both the size of the symmetric difference (`HammingIs`,
  `SquaredIs`), and what reads as a hash is a spelling of one (`ReadTextIsSpelled`). No induction over
  the bits is needed: a position of a spelling depends on one digit, and the distances are
  cardinalities, of which the squared one counts one cell for each bit that differs.

`WebClientProofs`, for any number of searches and lookups: `LoadingMeansOutstandingHolds`,
`ShownIsNearHolds`, `MissingIsNotListedHolds`. The state of the page is that of a search it waits
for or of one that has ended, and what byContent matched stays near while the index grows (`Hook`); the page of
a manifest loads only while a lookup is due, and what it shows is indexed (`Detail`). `TypeCorrect` needs that
of the searches started there is a latest, which is what a page loaded anew repeats (`HookTyped`).

`ServerLifecycleProofs`, for any row ids and any number of crashes, failures and signals:
`AppliedStaysTrueHolds` (a recorded migration is never needed again), `RowsSurviveHolds` and
`ServesWithSchemaHolds`. The invariant: versions are recorded in order (`InOrder`), so that what a later
rewrite makes of the table is also what the earlier ones asked for; the copy in an open migration holds
the rows of the table and has the shape of every version so far (`Progress`); the artifact columns,
which migrations 2 and 3 would empty, are filled only by a server that has applied all four
(`NothingToLose`); and only a migrated server writes and acknowledges (`Serving`). For what is served it
adds what the statements that have run have made (`Created`), and that the sequence is above the row ids in
every table but those older than the migrations (`Sequenced`), which migration 2 brings up to their
maximum. `TypeCorrect` says that tables stay tables of some release through every statement, crash and
signal.

The named assumptions are those on the constants in each module. Apart from them the theorems assume
only what is said above: `~CommitMayFail` (DuckDB), `Passes = 1`,
`Passes = 1 \/ Paced` and `MaxEntries > 0` (configuration). Each inductive invariant was checked on the instance of its run
before it was proved.

Only model-checked:

* liveness (`EveryRequestAnswered`, `TransactionEnds`, `QueriesEnd`, `FinallyServes`), which is out of
  the prover's reach;
* the violations of the three runs above.

## 6. Not modelled

Decoding an image and computing a hash or an ISCC from its pixels (numeric library code; a step
that gives a hash or fails). The signature algorithms themselves. Health, services, documentation
and statistics routes, /cert, configuration and logging: they read and change nothing. Previews,
health display and presentation of the web client. Scripts and deployment. Of modelled parts: the
bit arithmetic of addresses, secondary indexes and the soft_bindings table in migrations, and the
options of the db functions that nothing uses. Clocks that step back: both the limiter and the cache
read the wall clock, and what they then do follows from the formulas but is no property. Whether
DuckDB accepts a particular SQL text is outside the models (`src/db/index.ts:368` orders a
`SELECT DISTINCT` by a column it does not select); a query that fails is the failure step of its module.

## 7. Plan

Done, in the order of importance: ingestion with its connection, its readers and its abstraction,
cache, fetch, limiter, the resolutions and searches with the fetch inside, the process around the
migrations, the conversions, the web client.

Next, models: `ManifestResolution` composed with `RemoteManifestCache`, so that `ProofFetched`
becomes the cache's own steps; `RateLimiter` under a clock that steps back; the secondary indexes
and soft_bindings in `Migrations`.

Next, proofs: that `QueryRoutes` implements an abstract search which reads the index once, between
the request and the answer; and what the new models add.
