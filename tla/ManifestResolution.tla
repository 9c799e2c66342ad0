------------------------- MODULE ManifestResolution -------------------------
(***************************************************************************)
(* GET /v1/manifests/{manifestId} (src/routes/manifests.ts) for one        *)
(* manifest: the latest transaction the gateway reports, then the local    *)
(* row, then the bytes.  Every source may fail, and a webhook may store    *)
(* the row while the gateway is awaited.                                   *)
(***************************************************************************)
EXTENDS GatewayGraphql

CONSTANTS
  Urls, SafeUrls, HashValues, EightByteValues, ProofLocatorsEnabled,
  ChainTags,    \* what transactions with this manifest id say on chain
  MaxNodes      \* bound on the nodes of an answer (the query asks for 5)

Rules == INSTANCE WebhookRules

ASSUME ResolutionAssumption ==
  /\ ChainTags \subseteq Tagged
  /\ MaxNodes \in Nat
  /\ Locations = Urls /\ SafeUrls \subseteq Urls

VARIABLES
  tags,       \* what each transaction on chain says
  row,        \* the row the index holds for the manifest
  pc,         \* "request", "locator", "local", "proof", "store", "done"
  locator,    \* what the gateway's answer gave
  local,      \* what the local lookup gave
  failed,     \* sources that could not be asked: {"gateway", "local"}
  asked,      \* what is fetched from the remote: [url, digest]
  response    \* [status, path, digest]

vars == <<tags, row, pc, locator, local, failed, asked, response>>

NoRecord == [found |-> FALSE]
NothingAsked == [url |-> None, digest |-> None]
Response(status, path, digest) ==
  [status |-> status, path |-> path, digest |-> digest]
NoResponse == Response(0, "none", None)

\* The rows processWebhook writes, as getManifestArtifactById returns them; the
\* remote manifest URL of a row is its fetch URL.
RowRecord(r) ==
  [found |-> TRUE, txId |-> r.txId, kind |-> r.kind, repoUrl |-> r.repoUrl,
   fetchUrl |-> r.fetchUrl, remoteUrl |-> r.fetchUrl, digest |-> r.digest]
WrittenRows ==
  {RowRecord(Rules!RowOf(p)) : p \in {q \in Rules!Payload : Rules!Verdict(q) = "write"}}

Init ==
  /\ tags \in [TxIds -> ChainTags]
  /\ row \in WrittenRows \cup {NoRecord}
  /\ pc = "request"
  /\ locator = NoRecord /\ local = NoRecord /\ failed = {}
  /\ asked = NothingAsked
  /\ response = NoResponse

Respond(r) == pc' = "done" /\ response' = r
GoOn(phase) == pc' = phase /\ UNCHANGED response

\* Fault variant of Redirects: the kind of the artifact is not looked at.
RedirectsAny(r, url) == r.found /\ url # None

Redirects(r, url) == r.found /\ url # None /\ r.kind # "proof-locator"

\* Both redirects of a record: its fetch URL, else its repository.
RedirectOf(r) ==
  IF r.found /\ Redirects(r, r.fetchUrl) THEN Response(302, "fetch-url", None)
  ELSE IF r.found /\ Redirects(r, r.repoUrl) THEN Response(302, "repo-url", None)
  ELSE NoResponse

\* The parameters: an id that does not decode is a 500, an empty one or an
\* unreadable returnActiveManifest a 400, a true one a 501.
Receive(id, returnActive) ==
  /\ pc = "request"
  /\ IF id = "undecodable" THEN Respond(Response(500, "none", None))
     ELSE IF id = "empty" \/ returnActive = "unreadable"
     THEN Respond(Response(400, "none", None))
     ELSE IF returnActive = "true" THEN Respond(Response(501, "none", None))
     ELSE GoOn("locator")
  /\ UNCHANGED <<tags, row, locator, local, failed, asked>>

\* lookupManifestLocatorById answers.
Locate(nodes) ==
  /\ pc = "locator"
  /\ LET found == LookupLocator(nodes, tags)
     IN /\ locator' = found
        /\ IF RedirectOf(found) # NoResponse THEN Respond(RedirectOf(found))
                                             ELSE GoOn("local")
  /\ UNCHANGED <<tags, row, local, failed, asked>>

\* A GatewayGraphQLError: the local store is still asked.
LocateFails ==
  /\ pc = "locator"
  /\ failed' = failed \cup {"gateway"}
  /\ GoOn("local")
  /\ UNCHANGED <<tags, row, locator, local, asked>>

\* Any other error of the lookup ends the request.
LocateRaises ==
  /\ pc = "locator"
  /\ failed' = failed \cup {"gateway"}
  /\ Respond(Response(500, "none", None))
  /\ UNCHANGED <<tags, row, locator, local, asked>>

\* Fault variant of First: the local record alone.
LocalOnly(l, field) == IF l.found THEN l[field] ELSE None

\* local?.field || locator?.field
First(l, field) ==
  IF l.found /\ l[field] # None THEN l[field]
  ELSE IF locator.found THEN locator[field]
  ELSE None

\* Everything between the local lookup and the next await, given its result l.
Decide(l) ==
  LET wanted == [url |-> First(l, "remoteUrl"), digest |-> First(l, "digest")]
  IN IF RedirectOf(l) # NoResponse
     THEN Respond(RedirectOf(l)) /\ UNCHANGED asked
     ELSE IF First(l, "kind") = "proof-locator"
     THEN IF None \in {wanted.url, wanted.digest}
          THEN Respond(Response(404, "incomplete", None)) /\ UNCHANGED asked
          ELSE asked' = wanted /\ GoOn("proof")
     ELSE IF First(l, "txId") = None
     THEN Respond(Response(404, "unknown", None)) /\ UNCHANGED asked
     ELSE GoOn("store") /\ UNCHANGED asked

ReadLocal ==
  /\ pc = "local"
  /\ local' = row
  /\ Decide(row)
  /\ UNCHANGED <<tags, row, locator, failed>>

LocalFails ==
  /\ pc = "local"
  /\ failed' = failed \cup {"local"}
  /\ Decide(NoRecord)
  /\ UNCHANGED <<tags, row, locator, local>>

\* fetchRemoteManifestWithCache returns bytes it verified.
ProofFetched(path) ==
  /\ pc = "proof"
  /\ Respond(Response(200, path, asked.digest))
  /\ UNCHANGED <<tags, row, locator, local, failed, asked>>

ProofStatus(status) == IF status = 504 THEN 504 ELSE 502

ProofFails(status) ==
  /\ pc = "proof"
  /\ Respond(Response(ProofStatus(status), "none", None))
  /\ UNCHANGED <<tags, row, locator, local, failed, asked>>

\* fetchManifestByTxId
StoreFetched ==
  /\ pc = "store"
  /\ Respond(Response(200, "fallback-manifest-store", None))
  /\ UNCHANGED <<tags, row, locator, local, failed, asked>>

\* The message of the error decides: timed out, not available, anything else.
StoreFails(status) ==
  /\ pc = "store"
  /\ Respond(Response(status, "none", None))
  /\ UNCHANGED <<tags, row, locator, local, failed, asked>>

\* An error nobody expected, such as a connection that breaks in the body of a
\* remote fetch, ends in the outer catch.
Raise ==
  /\ pc = "proof"
  /\ Respond(Response(500, "none", None))
  /\ UNCHANGED <<tags, row, locator, local, failed, asked>>

\* A webhook stores the row: the first one stays.
Indexed(r) ==
  /\ pc # "done"
  /\ row = NoRecord
  /\ row' = r
  /\ UNCHANGED <<tags, pc, locator, local, failed, asked, response>>

Next ==
  \/ \E id \in {"good", "empty", "undecodable"},
        active \in {"absent", "false", "true", "unreadable"} : Receive(id, active)
  \/ \E nodes \in SeqOf(Node, MaxNodes) : Locate(nodes)
  \/ LocateFails \/ LocateRaises
  \/ ReadLocal \/ LocalFails
  \/ \E path \in {"proof-remote-cache", "proof-remote-fetch"} : ProofFetched(path)
  \/ \E status \in {400, 502, 504} : ProofFails(status)
  \/ StoreFetched
  \/ \E status \in {404, 502, 504} : StoreFails(status)
  \/ Raise
  \/ \E r \in WrittenRows : Indexed(r)

Spec == Init /\ [][Next]_vars

(***************************************************************************)
(* Properties                                                              *)
(***************************************************************************)
\* The status is one of those openapi/openapi.yaml lists for the path.
TypeOK ==
  /\ row \in WrittenRows \cup {NoRecord}
  /\ pc \in {"request", "locator", "local", "proof", "store", "done"}
  /\ local \in WrittenRows \cup {NoRecord}
  /\ failed \subseteq {"gateway", "local"}
  /\ asked \in [url : Locations \cup {None}, digest : Digests \cup {None}]
  /\ response.status \in {0, 200, 302, 400, 404, 500, 501, 502, 504}

Known == {r \in {locator, local} : r.found}

\* The code takes the URL and the digest of a proof locator each from the row or
\* from the gateway; the two it fetches with always belong to one record, so
\* that bytes are not checked against the digest of another transaction.
OneSourceLocator ==
  pc = "proof" => \E r \in Known : asked = [url |-> r.remoteUrl, digest |-> r.digest]

\* The record the answer rests on: the row, or else what the gateway told.
Deciding == IF local.found THEN local ELSE locator
DecidedProof == Deciding.found /\ Deciding.kind = "proof-locator"

\* If that record is a proof locator the manifest is not redirected, whatever the other
\* source called it, and bytes are served only verified against its own digest.
VerifiedIfProof ==
  DecidedProof =>
    /\ response.status # 302
    /\ response.status = 200 => response.digest = Deciding.digest /\ response.digest # None

\* The route itself answers 404 ("unknown", "incomplete") for a manifest that is
\* indexed at that moment only if the table could not be read; for one the gateway told
\* of only if it is a proof locator without its URL or its digest, even if the table
\* is down.
NotFoundIsJustified ==
  [][response' # response /\ response'.path \in {"unknown", "incomplete"} =>
       /\ row = NoRecord \/ "local" \in failed'
       /\ IF response'.path = "unknown" THEN ~locator.found
          ELSE /\ locator.found /\ locator.kind = "proof-locator"
               /\ None \in {locator.remoteUrl, locator.digest}]_vars
=============================================================================
