----------------------------- MODULE QueryRoutes -----------------------------
(***************************************************************************)
(* The routes that look things up in the index: byBinding, byContent and   *)
(* byReference (src/routes/softbinding.ts) and search-similar              *)
(* (src/routes/search.ts), each from the request to its answer, with the   *)
(* fetch of a reference composed from RemoteFetch, the lookup of a binding *)
(* from SoftBindingResolve and the search from SimilaritySearch, while     *)
(* webhooks go on indexing.                                                *)
(*                                                                         *)
(* One request runs.  Its handler shares nothing with other requests but   *)
(* the tables, which only grow.                                            *)
(***************************************************************************)
EXTENDS SoftBindingResolve, RemoteFetch, SimilaritySearch

CONSTANTS
  MatchThreshold,   \* 10, of searchBySoftBinding
  MaxThreshold,     \* 64, what search-similar accepts
  HintValues,       \* bound on the hashes a hint may give
  Malformed         \* a value that does not decode to a pHash

ASSUME QueryAssumption ==
  /\ MatchThreshold \in Nat /\ MaxThreshold \in Nat
  /\ Manifests = ManifestIds
  /\ HintValues \subseteq Hashes

VARIABLES
  route,      \* the route the request goes to
  hashOf,     \* manifests table: the pHash of each indexed manifest
  asked,      \* what the request says, once it is parsed
  image,      \* pHash of the image in the body or behind the reference
  searched,   \* what the table is searched for
  items       \* what the search found

requestVars == <<route, asked>>
searchVars == <<hashOf, image, searched, items>>
vars == <<bindingVars, fetchVars, requestVars, searchVars>>

(***************************************************************************)
(* Requests and searches                                                   *)
(***************************************************************************)
Computable == {"phash", "iscc"}
Algs == Computable \cup {"other"}

\* alg, hintAlg and hintValue of byContent and byReference; an absent alg is phash.
Hinted ==
  [alg : Algs, hintAlg : Algs \cup {None}, hintValue : HintValues \cup {Malformed, None}]

\* search-similar asks by hash or by transaction; a value of either is in range
\* (parseInt) or the request is refused.
Similar ==
  [hash : Hashes \cup {None}, manifest : Manifests \cup {None},
   threshold : 0..MaxThreshold, limit : 1..MaxAsked]

Search(alg, value, threshold, limit) ==
  [alg |-> alg, value |-> value, threshold |-> threshold, limit |-> limit]

Init ==
  /\ route \in {"byBinding", "byContent", "byReference", "search"}
  /\ BindingInit
  /\ route # "byBinding" => \A id \in TxIds : tags[id].manifestId = None /\ tags[id].repoUrl = None
  /\ FetchInit
  /\ hashOf = <<>>
  /\ asked = None /\ image = None /\ searched = None
  /\ items = {}

Answer(s) == pc' = "done" /\ status' = s
GoTo(stage) == pc' = stage /\ UNCHANGED status

\* Everything but what a step of these handlers sets.
KeepTable == UNCHANGED <<tags, index, answered, failed, matches, hashOf>>

\* A webhook stores a manifest with its pHash and the binding of the same value.
Stored(m, hash) ==
  /\ pc \in {"lookup", "search"}
  /\ m \notin index
  /\ index' = index \cup {m}
  /\ hashOf' = [o \in index' |-> IF o = m THEN hash ELSE hashOf[o]]
  /\ UNCHANGED <<tags, maxResults, pc, answered, failed, matches, status>>
  /\ UNCHANGED <<fetchVars, requestVars, image, searched, items>>

(***************************************************************************)
(* byContent: the image is in the body                                     *)
(***************************************************************************)
HintComplete == asked.hintAlg # None /\ asked.hintValue # None

\* parseHintParams
HintRefused(h) == h.hintValue # None /\ h.hintAlg = None

\* The request with its headers: type is an image or not, the announced length
\* is absent, within the limit or above.
ReceiveContent(h, input, isImage, announcedTooLarge) ==
  /\ route = "byContent" /\ pc = "request"
  /\ asked' = h
  /\ maxResults' = ParseMaxResults(input)
  /\ IF HintRefused(h) THEN Answer(400)
     ELSE IF ~isImage THEN Answer(415)
     ELSE IF announcedTooLarge THEN Answer(413)
     ELSE GoTo("upload")
  /\ KeepTable
  /\ UNCHANGED <<route, fetchVars, image, searched, items>>

\* readStreamWithLimit on the body, which may break off.
Uploaded(size) ==
  /\ pc = "upload"
  /\ IF size > MaxBytes THEN Answer(413)
     ELSE IF size = 0 THEN Answer(400)
     ELSE GoTo("validate")
  /\ KeepTable
  /\ UNCHANGED <<maxResults, fetchVars, requestVars, image, searched, items>>

UploadFails ==
  /\ pc = "upload"
  /\ Answer(400)
  /\ KeepTable
  /\ UNCHANGED <<maxResults, fetchVars, requestVars, image, searched, items>>

(***************************************************************************)
(* byReference: the image is fetched                                       *)
(***************************************************************************)
\* The body is JSON with a referenceUrl unless it is malformed.
ReceiveReference(h, input, enabled, malformed, announcedTooLarge) ==
  /\ route = "byReference" /\ pc = "request"
  /\ asked' = h
  /\ maxResults' = ParseMaxResults(input)
  /\ IF ~enabled THEN Answer(501)
     ELSE IF malformed \/ HintRefused(h) THEN Answer(400)
     ELSE IF h.hintAlg = None /\ h.alg \notin Computable THEN Answer(400)
     ELSE IF announcedTooLarge THEN Answer(413)
     ELSE GoTo("fetch")
  /\ KeepTable
  /\ UNCHANGED <<route, fetchVars, image, searched, items>>

Fetching(step) ==
  /\ pc = "fetch"
  /\ step
  /\ KeepTable
  /\ UNCHANGED <<maxResults, pc, status, requestVars, image, searched, items>>

FetchStatus ==
  CASE result = "refused"    -> 400
    [] result = "tooLarge"   -> 413
    [] result = "badGateway" -> 502
    [] result = "timedOut"   -> 504
    [] OTHER                 -> 400

\* The fetch is over, and with it its locals.
Fetched(isImage) ==
  /\ pc = "fetch" /\ phase = "done"
  /\ IF result # "ok" THEN Answer(FetchStatus)
     ELSE IF ~isImage THEN Answer(415)
     ELSE GoTo("validate")
  /\ phase' = "start" /\ url' = Missing /\ address' = "unknown" /\ reached' = "unknown"
  /\ hop' = 0 /\ requests' = 0 /\ waited' = 0
  /\ response' = NoResponse /\ buffered' = 0 /\ sent' = 0
  /\ result' = Missing
  /\ KeepTable
  /\ UNCHANGED <<maxResults, requestVars, image, searched, items>>

(***************************************************************************)
(* What the two have in common                                             *)
(***************************************************************************)
\* Fault variant of SearchedFor: a hint without its value is enough.
SearchedForByHint(p) ==
  IF HintComplete \/ asked.hintAlg # None
  THEN Search(asked.hintAlg, IF asked.hintValue = None THEN p ELSE asked.hintValue,
              MatchThreshold, maxResults)
  ELSE Search(asked.alg, p, MatchThreshold, maxResults)

\* A complete hint, or what computeBindingValue makes of the image: an algorithm
\* it does not know is taken for phash.
SearchedFor(p) ==
  IF HintComplete
  THEN Search(asked.hintAlg, asked.hintValue, MatchThreshold, maxResults)
  ELSE Search(IF asked.alg = "iscc" THEN "iscc" ELSE "phash", p, MatchThreshold, maxResults)

\* validateImage and, unless there is a hint, the hash of the image.  Only
\* byContent looks at the algorithm here.
Hashed(p) ==
  /\ pc = "validate"
  /\ IF route = "byContent" /\ asked.hintAlg = None /\ asked.alg \notin Computable
     THEN Answer(400) /\ UNCHANGED <<image, searched>>
     ELSE GoTo("search") /\ image' = p /\ searched' = SearchedFor(p)
  /\ KeepTable
  /\ UNCHANGED <<maxResults, fetchVars, requestVars, items>>

\* It is not an image, or cannot be hashed.
ImageRejected ==
  /\ pc = "validate"
  /\ Answer(400)
  /\ KeepTable
  /\ UNCHANGED <<maxResults, fetchVars, requestVars, image, searched, items>>

(***************************************************************************)
(* search-similar                                                          *)
(***************************************************************************)
\* A request whose parameters are in range; the hash wins over the transaction.
ReceiveSimilar(q) ==
  /\ route = "search" /\ pc = "request"
  /\ asked' = q
  /\ IF q.hash # None
     THEN searched' = Search("phash", q.hash, q.threshold, q.limit) /\ GoTo("search")
     ELSE IF q.manifest # None
     THEN GoTo("lookup") /\ UNCHANGED searched
     ELSE Answer(400) /\ UNCHANGED searched
  /\ KeepTable
  /\ UNCHANGED <<maxResults, route, fetchVars, image, items>>

\* The status is chosen by the words of the message, and the message about a
\* malformed hash quotes the hash.
MessageStatus(words) ==
  IF "not found" \in words THEN 404
  ELSE IF "Invalid pHash format" \in words THEN 400
  ELSE 500

\* A threshold or limit that is out of range, or a hash that does not parse.
RefuseSimilar(s) ==
  /\ route = "search" /\ pc = "request"
  /\ Answer(s)
  /\ KeepTable
  /\ UNCHANGED <<maxResults, fetchVars, requestVars, image, searched, items>>

\* getManifestByTxId; what ingestion stores always has a pHash.
LookedUp ==
  /\ pc = "lookup"
  /\ IF asked.manifest \in index
     THEN /\ searched' = Search("phash", hashOf[asked.manifest], asked.threshold, asked.limit)
          /\ GoTo("search")
     ELSE Answer(MessageStatus({"not found"})) /\ UNCHANGED searched
  /\ KeepTable
  /\ UNCHANGED <<maxResults, fetchVars, requestVars, image, items>>

(***************************************************************************)
(* The search itself                                                       *)
(***************************************************************************)
\* searchBySoftBinding and searchSimilarByPHash.  The bindings ingestion stores
\* are pHashes: nothing is found for an ISCC.
SearchAnswers ==
  /\ pc = "search"
  /\ searched.alg # "other" /\ ~(searched.alg = "phash" /\ searched.value = Malformed)
  /\ items' \in IF searched.alg = "iscc" THEN {{}}
                ELSE Answers(index, hashOf, searched.value, searched.threshold, searched.limit)
  /\ Answer(200)
  /\ KeepTable
  /\ UNCHANGED <<maxResults, fetchVars, requestVars, image, searched>>

\* An algorithm that is not supported, a hint that does not decode, or the table
\* cannot be read.
SearchFails ==
  /\ pc \in {"lookup", "search"}
  /\ Answer(IF route = "search" THEN MessageStatus({}) ELSE 400)
  /\ KeepTable
  /\ UNCHANGED <<maxResults, fetchVars, requestVars, image, searched, items>>

(***************************************************************************)
(* The routes together                                                     *)
(***************************************************************************)
Bound(step) ==
  /\ route = "byBinding"
  /\ step
  /\ UNCHANGED <<fetchVars, requestVars, searchVars>>

Inputs == 0..(MaxAsked + 1)

\* A handler is called and runs to its first await.
Receive ==
  /\ pc = "request"
  /\ \/ /\ route = "byContent"
        /\ \E h \in Hinted, input \in Inputs, isImage, announced \in BOOLEAN :
             ReceiveContent(h, input, isImage, announced)
     \/ /\ route = "byReference"
        /\ \E h \in Hinted, input \in Inputs, enabled, malformed, announced \in BOOLEAN :
             ReceiveReference(h, input, enabled, malformed, announced)
     \/ /\ route = "search"
        /\ \/ \E q \in Similar : ReceiveSimilar(q)
           \/ \E words \in SUBSET {"not found"} :
                RefuseSimilar(MessageStatus(words \cup {"Invalid pHash format"}))
     \/ \E input \in Inputs : Bound(AskBinding(input))
     \/ Bound(RefuseBinding)

\* Steps nobody outside the process has to take: the table and the image library
\* answer or fail.
Local ==
  \/ Fetching(Own)
  \/ \E isImage \in BOOLEAN : Fetched(isImage)
  \/ \E p \in Hashes : Hashed(p)
  \/ ImageRejected
  \/ LookedUp \/ SearchAnswers \/ SearchFails
  \/ Bound(LocalAnswers) \/ Bound(LocalFails)

\* Clients, remotes, the gateway and webhooks.
Outside ==
  \/ \E size \in 0..(MaxBytes + 1) : Uploaded(size)
  \/ UploadFails
  \/ Fetching(Remote)
  \/ pc = "gateway" /\ \E nodes \in SeqOf(Node, MaxAsked) : Bound(GatewayAnswers(nodes))
  \/ Bound(GatewayFails) \/ Bound(GatewayRaises)
  \/ \E m \in Manifests : Bound(Indexed(m))
  \/ \E m \in Manifests, hash \in Hashes : Stored(m, hash)

Next == Receive \/ Local \/ Outside

\* The event loop, the resolver, the database and the image library go on; nothing
\* is assumed of anybody outside.
Fairness == WF_vars(Receive \/ Local)

Spec == Init /\ [][Next]_vars /\ Fairness

(***************************************************************************)
(* Properties                                                              *)
(***************************************************************************)
\* Each handler is at one of its steps, with a request as it parses it, and searches
\* for a hash, or for a hint that is none.
TypeOK ==
  /\ BindingTypeOK /\ FetchTypeOK
  /\ route \in {"byBinding", "byContent", "byReference", "search"}
  /\ pc \in {"request", "upload", "fetch", "validate", "lookup", "search", "gateway", "local",
             "done"}
  /\ status \in {0, 200, 400, 404, 413, 415, 500, 501, 502, 504}
  /\ route # "byBinding" => hashOf \in [index -> Hashes]
  /\ asked \in Hinted \cup Similar \cup {None}
  /\ image \in Hashes \cup {None}
  /\ searched # None =>
       /\ searched.alg \in Algs /\ searched.value \in Hashes \cup {Malformed}
       /\ searched.threshold \in Nat /\ searched.limit \in 0..MaxAsked
  /\ items \subseteq [manifest : Manifests, distance : Nat]

\* What the request is about: its hint when that is complete, else the image under
\* the algorithm asked for; the hash asked for, or that of the manifest asked for.
Meant ==
  IF route = "search"
  THEN [alg |-> "phash", threshold |-> asked.threshold, limit |-> asked.limit,
        hash |-> IF asked.hash # None THEN asked.hash ELSE hashOf[asked.manifest]]
  ELSE [alg |-> IF HintComplete THEN asked.hintAlg
                ELSE IF asked.alg = "iscc" THEN "iscc" ELSE "phash",
        threshold |-> MatchThreshold, limit |-> maxResults,
        hash |-> IF HintComplete THEN asked.hintValue ELSE image]

\* From the request, over the upload or the redirects and the hash, to the answer:
\* every item of an answer is indexed and as near to what the request is about as
\* it says and the threshold allows; nothing nearer is left out, and nothing near
\* at all while there is room.
AnswerFitsRequest ==
  (pc = "done" /\ status = 200 /\ route # "byBinding") =>
    LET d(m) == Distance(hashOf[m], Meant.hash)
        near == IF Meant.alg = "iscc" THEN {}
                ELSE {m \in index : d(m) <= Meant.threshold}
    IN /\ \A i \in items : i.manifest \in near /\ i.distance = d(i.manifest)
       /\ Cardinality(items) <= Meant.limit
       /\ \A m \in near \ Found(items) :
            /\ Cardinality(items) = Meant.limit
            /\ \A i \in items : i.distance <= d(m)

\* byBinding among the other routes: what duplicates of the gateway and the table cost
\* an answer of it is at most half of its room, while webhooks go on indexing.
BindingRoomHalfFilled == route = "byBinding" => RoomHalfFilled

\* The body is the client's or the remote's to finish, or the gateway's answer to
\* give.
Stalled == pc \in {"upload", "gateway"} \/ phase = "body"

\* Every request is answered, unless somebody outside holds a body: redirects that
\* loop, headers that never arrive and sources that fail do not keep it waiting.
QueriesEnd == (pc # "done") ~> (pc = "done" \/ Stalled)
=============================================================================
