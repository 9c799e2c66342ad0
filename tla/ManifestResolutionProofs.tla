---------------------- MODULE ManifestResolutionProofs ----------------------
(***************************************************************************)
(* The resolution of one manifest, for every answer of a gateway, every    *)
(* row ingestion writes and whatever fails.                                *)
(***************************************************************************)
EXTENDS ManifestResolution, SequenceTheorems, FiniteSetTheorems, TLAPS

(***************************************************************************)
(* The latest transaction of an answer                                     *)
(***************************************************************************)
\* Some node of a finite set of them comes after no other.
LEMMA FirstExists ==
  ASSUME NEW S \in SUBSET Node, IsFiniteSet(S), S # {}
  PROVE  \E n \in S : \A m \in S : ~Before(m, n)
<1> DEFINE Earlier(n) == {m \in S : Before(m, n)}
           Family == {Earlier(n) : n \in S}
           Less == StrictSubsetOrdering(S)
<1>1. IsWellFoundedOn(Less, FiniteSubsetsOf(S))
  BY FS_StrictSubsetOrderingWellFounded
<1>2. Family \subseteq FiniteSubsetsOf(S) /\ Family # {}
  <2>1. FiniteSubsetsOf(S) = SUBSET S
    BY FS_FiniteSubsetsOfFinite
  <2>2. Family \subseteq SUBSET S /\ Family # {}
    OBVIOUS
  <2> QED BY <2>1, <2>2
<1> HIDE DEF Less, Family
<1>3. PICK F \in Family : \A G \in Family : <<G, F>> \notin Less
  BY <1>1, <1>2, WFMin
<1>4. PICK n \in S : F = Earlier(n)
  BY <1>3 DEF Family
<1>5. ASSUME NEW m \in S, Before(m, n) PROVE FALSE
  <2>1. /\ m.height \in Int /\ n.height \in Int /\ m.id \in Nat /\ n.id \in Nat
        /\ \A l \in S : l.height \in Int /\ l.id \in Nat
    BY GatewayAssumption DEF Node
  <2>2. Earlier(m) \subseteq Earlier(n)
    BY <1>5, <2>1 DEF Before
  <2>3. m \in Earlier(n) /\ m \notin Earlier(m)
    BY <1>5, <2>1 DEF Before
  <2>4. Earlier(m) \in Family
    BY DEF Family
  <2> HIDE DEF Earlier
  <2>5. Earlier(m) \in SUBSET S /\ Earlier(n) \in SUBSET S
    BY DEF Earlier
  <2>6. <<Earlier(m), Earlier(n)>> \in Less
    BY <2>2, <2>3, <2>5 DEF Less, StrictSubsetOrdering
  <2> QED BY <1>3, <1>4, <2>4, <2>6
<1> QED BY <1>5

\* The lookup finds one of the transactions reported.
LEMMA LatestReported ==
  ASSUME NEW nodes \in Seq(Node), nodes # <<>>
  PROVE  Latest(nodes) \in Node
<1> DEFINE S == ToSet(nodes)
<1>1. DOMAIN nodes = 1..Len(nodes) /\ Len(nodes) \in Nat \ {0}
  BY LenProperties, EmptySeq
<1>2. S \in SUBSET Node /\ S # {}
  BY <1>1, ElementOfSeq DEF ToSet
<1>3. IsFiniteSet(S)
  <2>1. IsFiniteSet(1..Len(nodes))
    BY <1>1, FS_Interval
  <2>2. nodes \in Surjection(1..Len(nodes), S)
    BY <1>1 DEF ToSet, Surjection
  <2> QED BY <2>1, <2>2, FS_Surjection
<1> HIDE DEF S
<1>4. PICK n \in S : \A m \in S : ~Before(m, n)
  BY <1>2, <1>3, FirstExists
<1>5. \A m \in S : m \in Node /\ m.height \in Int /\ m.id \in Nat
  BY <1>2, GatewayAssumption DEF Node
<1>6. n \in Dedupe(nodes)
  <2>1. \A m \in S : m.id = n.id => m.height <= n.height
    BY <1>4, <1>5 DEF Before
  <2> QED BY <2>1 DEF Dedupe, S
<1>7. \A m \in Dedupe(nodes) : m = n \/ Before(n, m)
  <2> SUFFICES ASSUME NEW m \in Dedupe(nodes), ~Before(n, m) PROVE m = n
    OBVIOUS
  <2>1. m \in S
    BY DEF Dedupe, S
  <2>2. m.height = n.height /\ m.id = n.id
    BY <1>4, <1>5, <2>1 DEF Before
  <2> QED BY <1>5, <2>1, <2>2 DEF Node
<1>8. Latest(nodes) \in Dedupe(nodes)
  BY <1>6, <1>7 DEF Latest
<1>9. Latest(nodes) \in S
  BY <1>8 DEF Dedupe, S
<1> QED BY <1>2, <1>9

(***************************************************************************)
(* The inductive invariant                                                 *)
(***************************************************************************)
\* What is known of a manifest: its transaction, and of a proof locator also where
\* its bytes are and what their digest is, if said.
RecordOK(r) ==
  /\ r.txId \in TxIds
  /\ r.kind \in {"manifest-store", "proof-locator", None}
  /\ r.remoteUrl \in Locations \cup {None}
  /\ r.digest \in Digests \cup {None}

\* Ingestion writes no proof locator without its URL and its digest.
Complete(r) ==
  /\ r.kind \in {"manifest-store", "proof-locator"}
  /\ r.kind = "proof-locator" => None \notin {r.remoteUrl, r.digest}

\* Before they are asked, the sources have told nothing.
Sources ==
  /\ row # NoRecord => row \in WrittenRows
  /\ local # NoRecord => local \in WrittenRows
  /\ locator # NoRecord => locator.found /\ RecordOK(locator)
  /\ pc \in {"request", "locator"} => locator = NoRecord
  /\ pc \in {"request", "locator", "local"} => local = NoRecord

\* What is fetched is what the deciding record says, whole; the manifest store is
\* asked for nothing that record calls a proof locator.
Asked ==
  /\ asked \in [url : Locations \cup {None}, digest : Digests \cup {None}]
  /\ pc = "proof" =>
       /\ DecidedProof
       /\ asked = [url |-> Deciding.remoteUrl, digest |-> Deciding.digest]
       /\ asked.digest # None
  /\ pc = "store" => ~DecidedProof

\* And so are the answers.
Answered ==
  /\ pc # "done" => response = NoResponse
  /\ DecidedProof =>
       /\ response.status # 302
       /\ response.status = 200 => response.digest = Deciding.digest /\ response.digest # None
  /\ response.status \in {0, 200, 302, 400, 404, 500, 501, 502, 504}

Phases ==
  /\ pc \in {"request", "locator", "local", "proof", "store", "done"}
  /\ failed \subseteq {"gateway", "local"}

Inv == Phases /\ Sources /\ Asked /\ Answered

(***************************************************************************)
(* The sources                                                             *)
(***************************************************************************)
\* What ingestion lets through is a whole record.
LEMMA WrittenOK ==
  ASSUME NEW r \in WrittenRows
  PROVE  r.found /\ RecordOK(r) /\ Complete(r) /\ r # NoRecord
<1>1. PICK p \in Rules!Payload : Rules!Verdict(p) = "write" /\ r = RowRecord(Rules!RowOf(p))
  BY DEF WrittenRows
<1> DEFINE kind == Rules!ArtifactKind(p)
           url == Rules!SanitizeUrl(p.fetchUrl)
<1>2. /\ r.found = TRUE /\ r.txId = p.txId /\ r.kind = kind
      /\ r.remoteUrl = url /\ r.digest = p.storeHash
  BY <1>1 DEF RowRecord, Rules!RowOf
<1>3. /\ p.txId # None
      /\ ~Rules!NotIndexable(p) /\ ~Rules!UnsafeLocator(p)
  BY <1>1 DEF Rules!Verdict
<1>4. /\ p.txId \in TxIds /\ p.fetchUrl \in Locations \cup {None}
      /\ p.storeHash \in Digests \cup {None}
  BY <1>3, ResolutionAssumption DEF Rules!Payload
<1>5. url \in Locations \cup {None}
  BY <1>4, ResolutionAssumption DEF Rules!SanitizeUrl
<1>6. kind \in {"manifest-store", "proof-locator"}
  BY <1>3 DEF Rules!NotIndexable, Rules!ArtifactKind
<1>7. kind = "proof-locator" => url # None /\ p.storeHash # None
  BY <1>3 DEF Rules!NotIndexable, Rules!IncompleteLocator, Rules!UnsafeLocator
<1>8. r # NoRecord
  BY <1>2 DEF NoRecord
<1> HIDE DEF kind, url
<1> QED BY <1>2, <1>4, <1>5, <1>6, <1>7, <1>8 DEF RecordOK, Complete

\* What a gateway tells is a record, perhaps not a whole one.
LEMMA LocatorOK ==
  ASSUME NEW nodes \in Seq(Node), NEW chain \in [TxIds -> ChainTags]
  PROVE  LET r == LookupLocator(nodes, chain)
         IN r = NoRecord \/ (r.found /\ RecordOK(r) /\ r # NoRecord)
<1>1. CASE nodes = <<>>
  BY <1>1 DEF LookupLocator, NoRecord
<1>2. CASE nodes # <<>>
  <2> DEFINE latest == Latest(nodes)
             t == chain[latest.id]
             r == LookupLocator(nodes, chain)
  <2>1. latest.id \in TxIds
    BY <1>2, LatestReported DEF Node
  <2> HIDE DEF latest
  <2>2. t \in Tagged
    BY <2>1, ResolutionAssumption
  <2>3. r = [found |-> TRUE, txId |-> latest.id, kind |-> t.kind,
             repoUrl |-> t.repoUrl, fetchUrl |-> t.fetchUrl,
             remoteUrl |-> t.fetchUrl, digest |-> t.digest]
    BY <1>2 DEF LookupLocator, latest
  <2> HIDE DEF t, r
  <2>4. r.found = TRUE /\ RecordOK(r)
    BY <2>1, <2>2, <2>3 DEF RecordOK, Tagged
  <2>5. r # NoRecord
    BY <2>4 DEF NoRecord
  <2> QED BY <2>4, <2>5 DEF r
<1> QED BY <1>1, <1>2

\* Only what is not called a proof locator is redirected.
LEMMA Redirected ==
  ASSUME NEW r, RedirectOf(r) # NoResponse
  PROVE  /\ r.found /\ r.kind # "proof-locator"
         /\ RedirectOf(r).status = 302 /\ RedirectOf(r).path \notin {"unknown", "incomplete"}
BY DEF RedirectOf, Redirects, Response, NoResponse

(***************************************************************************)
(* The steps                                                               *)
(***************************************************************************)
\* What the code picks field by field is what the deciding record says.
LEMMA Picked ==
  ASSUME Inv, NEW l, l = NoRecord \/ l \in WrittenRows
  PROVE  LET deciding == IF l # NoRecord THEN l ELSE locator
             proof == deciding # NoRecord /\ deciding.kind = "proof-locator"
         IN /\ (First(l, "txId") = None) <=> (deciding = NoRecord)
            /\ (First(l, "kind") = "proof-locator") <=> proof
            /\ proof => /\ First(l, "remoteUrl") = deciding.remoteUrl
                        /\ First(l, "digest") = deciding.digest
            /\ deciding # NoRecord => deciding.found /\ RecordOK(deciding)
            /\ l # NoRecord => deciding = l /\ Complete(l)
<1>1. /\ l # NoRecord => l.found /\ RecordOK(l) /\ Complete(l)
      /\ locator # NoRecord => locator.found /\ RecordOK(locator)
      /\ ~NoRecord.found
  BY WrittenOK DEF Inv, Sources, NoRecord
<1>2. None \notin {"manifest-store", "proof-locator"} \cup TxIds
  BY GatewayAssumption
<1>3. CASE l # NoRecord
  <2>1. First(l, "txId") = l.txId /\ First(l, "kind") = l.kind /\ l.txId # None
    BY <1>1, <1>2, <1>3 DEF First, Complete, RecordOK
  <2>2. l.kind = "proof-locator" =>
          First(l, "remoteUrl") = l.remoteUrl /\ First(l, "digest") = l.digest
    BY <1>1, <1>3 DEF First, Complete
  <2> QED BY <1>1, <1>3, <2>1, <2>2
<1>4. CASE l = NoRecord /\ locator # NoRecord
  <2>1. /\ First(l, "txId") = locator.txId /\ locator.txId # None
        /\ First(l, "kind") = locator.kind
        /\ First(l, "remoteUrl") = locator.remoteUrl /\ First(l, "digest") = locator.digest
    BY <1>1, <1>2, <1>4 DEF First, RecordOK
  <2> QED BY <1>1, <1>4, <2>1
<1>5. CASE l = NoRecord /\ locator = NoRecord
  <2>1. First(l, "txId") = None /\ First(l, "kind") = None
    BY <1>1, <1>5 DEF First
  <2> QED BY <1>2, <1>5, <2>1
<1> QED BY <1>3, <1>4, <1>5

\* Whatever the local lookup gave, the request ends, or goes on to bytes it may
\* serve.
LEMMA DecideStep ==
  ASSUME Inv, pc = "local", NEW l, l = NoRecord \/ l \in WrittenRows,
         local' = l, locator' = locator, Decide(l)
  PROVE  Asked' /\ Answered'
<1> DEFINE wanted == [url |-> First(l, "remoteUrl"), digest |-> First(l, "digest")]
           deciding == IF l # NoRecord THEN l ELSE locator
           proof == deciding # NoRecord /\ deciding.kind = "proof-locator"
<1>1. /\ (First(l, "txId") = None) <=> (deciding = NoRecord)
      /\ (First(l, "kind") = "proof-locator") <=> proof
      /\ proof => /\ First(l, "remoteUrl") = deciding.remoteUrl
                  /\ First(l, "digest") = deciding.digest
      /\ deciding # NoRecord => deciding.found /\ RecordOK(deciding)
      /\ l # NoRecord => deciding = l
  BY Picked
<1>2. ~NoRecord.found
  BY DEF NoRecord
<1>3. Deciding' = deciding /\ DecidedProof' = proof
  <2>1. Deciding' = IF l.found THEN l ELSE locator
    BY DEF Deciding
  <2>2. l.found <=> l # NoRecord
    BY <1>1, <1>2
  <2>3. Deciding' = deciding
    BY <2>1, <2>2
  <2>4. DecidedProof' <=> (deciding.found /\ deciding.kind = "proof-locator")
    BY <2>3 DEF DecidedProof
  <2>5. deciding.found <=> deciding # NoRecord
    BY <1>1, <1>2
  <2> QED BY <2>3, <2>4, <2>5 DEF DecidedProof
<1>4. /\ asked \in [url : Locations \cup {None}, digest : Digests \cup {None}]
      /\ response = NoResponse
  BY DEF Inv, Asked, Answered
<1> HIDE DEF deciding
\* How the request goes on.
<1>5. CASE RedirectOf(l) # NoResponse
  <2>1. l.found /\ l.kind # "proof-locator" /\ RedirectOf(l).status = 302
    BY <1>5, Redirected
  <2>2. ~proof
    BY <1>1, <1>2, <2>1
  <2>3. pc' = "done" /\ response' = RedirectOf(l) /\ asked' = asked
    BY <1>5 DEF Decide, Respond
  <2> QED BY <1>3, <1>4, <2>1, <2>2, <2>3 DEF Asked, Answered
<1>6. CASE RedirectOf(l) = NoResponse /\ First(l, "kind") = "proof-locator"
  <2>1. CASE None \in {wanted.url, wanted.digest}
    <3>1. pc' = "done" /\ response' = Response(404, "incomplete", None) /\ asked' = asked
      BY <1>6, <2>1 DEF Decide, Respond
    <3> QED BY <1>4, <3>1 DEF Asked, Answered, Response
  <2>2. CASE None \notin {wanted.url, wanted.digest}
    <3>1. pc' = "proof" /\ response' = response /\ asked' = wanted
      BY <1>6, <2>2 DEF Decide, GoOn
    <3>2. proof /\ wanted = [url |-> deciding.remoteUrl, digest |-> deciding.digest]
          /\ wanted.digest # None
      BY <1>1, <1>6, <2>2
    <3>3. wanted \in [url : Locations \cup {None}, digest : Digests \cup {None}]
      BY <1>1, <3>2 DEF RecordOK
    <3> HIDE DEF wanted
    <3>4. Asked'
      BY <1>3, <3>1, <3>2, <3>3 DEF Asked
    <3>5. Answered'
      BY <1>4, <3>1 DEF Answered, NoResponse, Response
    <3> QED BY <3>4, <3>5
  <2> QED BY <2>1, <2>2
<1>7. CASE RedirectOf(l) = NoResponse /\ First(l, "kind") # "proof-locator"
  <2>1. \/ pc' = "done" /\ response' = Response(404, "unknown", None)
        \/ pc' = "store" /\ response' = response
    BY <1>7 DEF Decide, Respond, GoOn
  <2>2. asked' = asked /\ ~proof
    BY <1>1, <1>7 DEF Decide
  <2>3. Asked'
    BY <1>3, <1>4, <2>1, <2>2 DEF Asked
  <2>4. Answered'
    BY <1>3, <1>4, <2>1, <2>2 DEF Answered, NoResponse, Response
  <2> QED BY <2>3, <2>4
<1> QED BY <1>5, <1>6, <1>7

\* The answer of the gateway is one record, redirected or kept.
LEMMA LocateStep ==
  ASSUME Inv, tags \in [TxIds -> ChainTags], NEW nodes \in Seq(Node), Locate(nodes)
  PROVE  Inv'
<1> DEFINE found == LookupLocator(nodes, tags)
<1>1. found = NoRecord \/ (found.found /\ RecordOK(found) /\ found # NoRecord)
  BY LocatorOK
<1>2. /\ pc = "locator" /\ locator' = found
      /\ IF RedirectOf(found) # NoResponse THEN Respond(RedirectOf(found)) ELSE GoOn("local")
      /\ UNCHANGED <<tags, row, local, failed, asked>>
  BY DEF Locate
<1> HIDE DEF found
<1>3. local = NoRecord /\ response = NoResponse
  BY <1>2 DEF Inv, Sources, Answered
<1>4. pc' \in {"local", "done"}
  BY <1>2 DEF Respond, GoOn
<1>5. Phases' /\ Sources' /\ Asked'
  BY <1>1, <1>2, <1>3, <1>4 DEF Inv, Phases, Sources, Asked
<1>6. Answered'
  <2>1. CASE RedirectOf(found) # NoResponse
    <3>1. found.kind # "proof-locator" /\ RedirectOf(found).status = 302
      BY <2>1, Redirected
    <3>2. Deciding' = found
      BY <1>2, <1>3 DEF Deciding, NoRecord
    <3>3. pc' = "done" /\ response' = RedirectOf(found)
      BY <1>2, <2>1 DEF Respond
    <3> QED BY <3>1, <3>2, <3>3 DEF Answered, DecidedProof
  <2>2. CASE RedirectOf(found) = NoResponse
    BY <1>2, <1>3, <2>2 DEF GoOn, Answered, NoResponse, Response
  <2> QED BY <2>1, <2>2
<1> QED BY <1>5, <1>6 DEF Inv

\* The bytes of a proof locator are served with the digest they were fetched with.
LEMMA ProofStep ==
  ASSUME Inv, NEW path \in {"proof-remote-cache", "proof-remote-fetch"}, ProofFetched(path)
  PROVE  Inv'
<1>1. /\ pc = "proof" /\ pc' = "done" /\ response' = Response(200, path, asked.digest)
      /\ UNCHANGED <<tags, row, locator, local, failed, asked>>
  BY DEF ProofFetched, Respond
<1>2. asked.digest = Deciding.digest /\ asked.digest # None
  BY <1>1 DEF Inv, Asked
<1>3. Deciding' = Deciding /\ DecidedProof' = DecidedProof
  BY <1>1 DEF Deciding, DecidedProof
<1>4. Answered'
  BY <1>1, <1>2, <1>3 DEF Answered, Response
<1> QED BY <1>1, <1>3, <1>4 DEF Inv, Phases, Sources, Asked

\* The manifest store answers for what is not decided to be a proof locator.
LEMMA StoreStep ==
  ASSUME Inv, StoreFetched
  PROVE  Inv'
<1>1. /\ pc = "store" /\ pc' = "done"
      /\ response' = Response(200, "fallback-manifest-store", None)
      /\ UNCHANGED <<tags, row, locator, local, failed, asked>>
  BY DEF StoreFetched, Respond
<1>2. ~DecidedProof /\ Deciding' = Deciding /\ DecidedProof' = DecidedProof
  BY <1>1 DEF Inv, Asked, Deciding, DecidedProof
<1>3. Answered'
  BY <1>1, <1>2 DEF Answered, Response
<1> QED BY <1>1, <1>2, <1>3 DEF Inv, Phases, Sources, Asked

\* A request that ends with an error says nothing of the manifest.
EndsWith(status) ==
  /\ pc # "done" /\ pc' = "done"
  /\ response' = Response(status, "none", None)
  /\ failed' \subseteq {"gateway", "local"}
  /\ row' = row /\ locator' = locator /\ local' = local /\ asked' = asked

\* So it breaks nothing.
LEMMA ErrorStep ==
  ASSUME Inv, NEW status \in {400, 404, 500, 501, 502, 504}, EndsWith(status)
  PROVE  Inv'
<1>1. Deciding' = Deciding /\ DecidedProof' = DecidedProof
  BY DEF Deciding, DecidedProof, EndsWith
<1>2. Answered'
  BY <1>1 DEF Answered, Response, EndsWith
<1> QED BY <1>1, <1>2 DEF EndsWith, Inv, Phases, Sources, Asked

(***************************************************************************)
(* The theorems                                                            *)
(***************************************************************************)
\* What the chain says stays; the invariant holds throughout.
THEOREM Invariance == Spec => [](Inv /\ tags \in [TxIds -> ChainTags])
<1> DEFINE Chain == tags \in [TxIds -> ChainTags]
<1>1. Init => Inv /\ Chain
  <2> SUFFICES ASSUME Init PROVE Inv /\ Chain
    OBVIOUS
  <2>1. Chain /\ Phases
    BY DEF Init, Phases
  <2>2. Sources
    BY DEF Init, Sources
  <2>3. ~DecidedProof
    BY DEF Init, DecidedProof, Deciding, NoRecord
  <2>4. Asked /\ Answered
    BY <2>3 DEF Init, Asked, Answered, NothingAsked, NoResponse, Response
  <2> QED BY <2>1, <2>2, <2>4 DEF Inv
<1>2. Inv /\ Chain /\ [Next]_vars => Inv' /\ Chain'
  <2> SUFFICES ASSUME Inv, Chain, [Next]_vars PROVE Inv'
    <3>1. \A id, active : Receive(id, active) => tags' = tags
      BY DEF Receive
    <3>2. \A nodes : Locate(nodes) => tags' = tags
      BY DEF Locate
    <3>3. LocateFails \/ LocateRaises \/ ReadLocal \/ LocalFails => tags' = tags
      BY DEF LocateFails, LocateRaises, ReadLocal, LocalFails
    <3>4. \A path : ProofFetched(path) => tags' = tags
      BY DEF ProofFetched
    <3>5. \A status : ProofFails(status) \/ StoreFails(status) => tags' = tags
      BY DEF ProofFails, StoreFails
    <3>6. StoreFetched \/ Raise \/ UNCHANGED vars => tags' = tags
      BY DEF StoreFetched, Raise, vars
    <3>7. \A r : Indexed(r) => tags' = tags
      BY DEF Indexed
    <3>8. Next => tags' = tags
      BY <3>1, <3>2, <3>3, <3>4, <3>5, <3>6, <3>7 DEF Next
    <3> QED BY <3>6, <3>8
  <2>1. ASSUME NEW id, NEW active, Receive(id, active) PROVE Inv'
    <3>1. /\ pc = "request" /\ failed' = failed /\ failed \subseteq {"gateway", "local"}
          /\ row' = row /\ locator' = locator /\ local' = local /\ asked' = asked
      BY <2>1 DEF Receive, Inv, Phases
    <3>2. CASE GoOn("locator")
      <4>1. pc' = "locator" /\ response' = response
        BY <3>2 DEF GoOn
      <4>2. Deciding' = Deciding /\ DecidedProof' = DecidedProof
        BY <3>1 DEF Deciding, DecidedProof
      <4> QED BY <3>1, <4>1, <4>2 DEF Inv, Phases, Sources, Asked, Answered
    <3>3. ASSUME NEW status \in {400, 500, 501}, Respond(Response(status, "none", None))
          PROVE  Inv'
      <4>1. EndsWith(status)
        BY <3>1, <3>3 DEF Respond, EndsWith
      <4> QED BY <4>1, ErrorStep
    <3> QED BY <2>1, <3>2, <3>3 DEF Receive
  <2>2. ASSUME NEW nodes \in SeqOf(Node, MaxNodes), Locate(nodes) PROVE Inv'
    <3>1. nodes \in Seq(Node)
      BY ResolutionAssumption DEF SeqOf
    <3> QED BY <2>2, <3>1, LocateStep
  <2>3. CASE LocateFails
    <3>1. /\ pc = "locator" /\ pc' = "local" /\ response' = response
          /\ failed' = failed \cup {"gateway"}
          /\ row' = row /\ locator' = locator /\ local' = local /\ asked' = asked
      BY <2>3 DEF LocateFails, GoOn
    <3>2. Deciding' = Deciding /\ DecidedProof' = DecidedProof
      BY <3>1 DEF Deciding, DecidedProof
    <3> QED BY <3>1, <3>2 DEF Inv, Phases, Sources, Asked, Answered
  <2>4. CASE LocateRaises
    <3>1. EndsWith(500)
      BY <2>4 DEF LocateRaises, Respond, EndsWith, Inv, Phases
    <3> QED BY <3>1, ErrorStep
  <2>5. ASSUME NEW l, l = row \/ l = NoRecord, pc = "local", local' = l, Decide(l),
               failed' \subseteq {"gateway", "local"}, UNCHANGED <<tags, row, locator>>
        PROVE  Inv'
    <3>1. l = NoRecord \/ l \in WrittenRows
      BY <2>5 DEF Inv, Sources
    <3>2. Asked' /\ Answered'
      BY <2>5, <3>1, DecideStep
    <3>3. pc' \in {"proof", "store", "done"}
      BY <2>5 DEF Decide, Respond, GoOn
    <3> QED BY <2>5, <3>1, <3>2, <3>3 DEF Inv, Phases, Sources
  <2>6. CASE ReadLocal
    BY <2>5, <2>6 DEF ReadLocal, Inv, Phases
  <2>7. CASE LocalFails
    <3>1. local' = NoRecord
      BY <2>7 DEF LocalFails, Inv, Sources
    <3> QED BY <2>5, <2>7, <3>1 DEF LocalFails, Inv, Phases
  <2>8. ASSUME NEW path \in {"proof-remote-cache", "proof-remote-fetch"}, ProofFetched(path)
        PROVE  Inv'
    BY <2>8, ProofStep
  <2>9. ASSUME NEW status \in {400, 502, 504}, ProofFails(status) PROVE Inv'
    <3>1. ProofStatus(status) \in {502, 504}
      BY DEF ProofStatus
    <3>2. EndsWith(ProofStatus(status))
      BY <2>9 DEF ProofFails, Respond, EndsWith, Inv, Phases
    <3> QED BY <3>1, <3>2, ErrorStep
  <2>10. CASE StoreFetched
    BY <2>10, StoreStep
  <2>11. ASSUME NEW status \in {404, 502, 504}, StoreFails(status) PROVE Inv'
    <3>1. EndsWith(status)
      BY <2>11 DEF StoreFails, Respond, EndsWith, Inv, Phases
    <3> QED BY <3>1, ErrorStep
  <2>12. CASE Raise
    <3>1. EndsWith(500)
      BY <2>12 DEF Raise, Respond, EndsWith, Inv, Phases
    <3> QED BY <3>1, ErrorStep
  <2>13. ASSUME NEW r \in WrittenRows, Indexed(r) PROVE Inv'
    BY <2>13 DEF Indexed, Inv, Phases, Sources, Asked, Answered, Deciding, DecidedProof
  <2>14. CASE UNCHANGED vars
    BY <2>14 DEF vars, Inv, Phases, Sources, Asked, Answered, Deciding, DecidedProof
  <2> QED BY <2>1, <2>2, <2>3, <2>4, <2>6, <2>7, <2>8, <2>9, <2>10, <2>11, <2>12,
             <2>13, <2>14 DEF Next
<1> QED BY <1>1, <1>2, PTL DEF Spec

\* The status is one the API lists, and what is kept is of its type.
THEOREM TypeCorrect == Spec => []TypeOK
<1>1. Inv => TypeOK
  BY DEF Inv, Phases, Sources, Asked, Answered, TypeOK
<1> QED BY <1>1, Invariance, PTL

\* A proof locator is fetched with a URL and a digest of one transaction.
THEOREM OneSourceLocatorHolds == Spec => []OneSourceLocator
<1>1. Inv => OneSourceLocator
  <2> SUFFICES ASSUME Inv, pc = "proof"
               PROVE  \E r \in Known : asked = [url |-> r.remoteUrl, digest |-> r.digest]
    BY DEF OneSourceLocator
  <2>1. /\ Deciding.found
        /\ asked = [url |-> Deciding.remoteUrl, digest |-> Deciding.digest]
    BY DEF Inv, Asked, DecidedProof
  <2>2. Deciding \in Known
    BY <2>1 DEF Deciding, Known
  <2> QED BY <2>1, <2>2
<1> QED BY <1>1, Invariance, PTL

\* A manifest whose deciding record is a proof locator is never redirected, and is served
\* only after its bytes met the digest of that record.
THEOREM VerifiedIfProofHolds == Spec => []VerifiedIfProof
<1>1. Inv => VerifiedIfProof
  BY DEF Inv, Answered, VerifiedIfProof
<1> QED BY <1>1, Invariance, PTL

\* Only the step after the local lookup answers that there is no manifest, or no
\* whole locator of one.
LEMMA NotFoundOnlyFrom ==
  ASSUME Inv, Next, response' # response, response'.path \in {"unknown", "incomplete"}
  PROVE  ReadLocal \/ LocalFails
<1>1. ASSUME NEW status, response' = Response(status, "none", None) PROVE FALSE
  BY <1>1 DEF Response
<1>2. ASSUME NEW i, NEW active, Receive(i, active) PROVE FALSE
  BY <1>1, <1>2 DEF Receive, Respond, GoOn
<1>3. ASSUME NEW nodes, Locate(nodes) PROVE FALSE
  <2> DEFINE found == LookupLocator(nodes, tags)
  <2>1. response' = RedirectOf(found) /\ RedirectOf(found) # NoResponse
    BY <1>3 DEF Locate, Respond, GoOn
  <2> HIDE DEF found
  <2> QED BY <2>1, Redirected
<1>4. ASSUME NEW path \in {"proof-remote-cache", "proof-remote-fetch"}, ProofFetched(path)
      PROVE  FALSE
  BY <1>4 DEF ProofFetched, Respond, Response
<1>5. ASSUME NEW status, ProofFails(status) \/ StoreFails(status) PROVE FALSE
  BY <1>1, <1>5 DEF ProofFails, StoreFails, Respond
<1>6. CASE StoreFetched
  BY <1>6 DEF StoreFetched, Respond, Response
<1>7. CASE Raise \/ LocateRaises \/ LocateFails
  BY <1>1, <1>7 DEF Raise, LocateRaises, LocateFails, Respond, GoOn
<1>8. ASSUME NEW r, Indexed(r) PROVE FALSE
  BY <1>8 DEF Indexed
<1> QED BY <1>2, <1>3, <1>4, <1>5, <1>6, <1>7, <1>8 DEF Next

\* A manifest is answered to be unknown, or to be an incomplete proof locator, only if no
\* source that could be read says otherwise.
THEOREM NotFoundIsJustifiedHolds == Spec => NotFoundIsJustified
<1> DEFINE Justified ==
      /\ row = NoRecord \/ "local" \in failed'
      /\ IF response'.path = "unknown" THEN ~locator.found
         ELSE /\ locator.found /\ locator.kind = "proof-locator"
              /\ None \in {locator.remoteUrl, locator.digest}
           Steps == [response' # response /\ response'.path \in {"unknown", "incomplete"} =>
                       Justified]_vars
<1>1. Inv /\ [Next]_vars => Steps
  <2> SUFFICES ASSUME Inv, Next, response' # response,
                      response'.path \in {"unknown", "incomplete"}
               PROVE  Justified
    BY DEF vars
  <2>1. PICK l \in {row, NoRecord} : Decide(l) /\ (l # row => "local" \in failed')
    BY NotFoundOnlyFrom DEF ReadLocal, LocalFails
  <2>2. l = NoRecord \/ l \in WrittenRows
    BY <2>1 DEF Inv, Sources
  <2> DEFINE deciding == IF l # NoRecord THEN l ELSE locator
             proof == deciding # NoRecord /\ deciding.kind = "proof-locator"
  <2>3. /\ (First(l, "txId") = None) <=> (deciding = NoRecord)
        /\ (First(l, "kind") = "proof-locator") <=> proof
        /\ proof => /\ First(l, "remoteUrl") = deciding.remoteUrl
                    /\ First(l, "digest") = deciding.digest
        /\ deciding # NoRecord => deciding.found /\ RecordOK(deciding)
        /\ l # NoRecord => deciding = l /\ Complete(l)
    BY <2>2, Picked
  <2>4. ~NoRecord.found
    BY DEF NoRecord
  <2>5. RedirectOf(l) = NoResponse
    BY <2>1, Redirected DEF Decide, Respond
  <2>6. \/ /\ response'.path = "incomplete" /\ First(l, "kind") = "proof-locator"
           /\ None \in {First(l, "remoteUrl"), First(l, "digest")}
        \/ /\ response'.path = "unknown" /\ First(l, "txId") = None
    BY <2>1, <2>5 DEF Decide, Respond, GoOn, Response
  <2>7. l = NoRecord
    BY <2>3, <2>6 DEF Complete
  <2>8. row = NoRecord \/ "local" \in failed'
    BY <2>1, <2>7
  <2>9. CASE response'.path = "unknown"
    BY <2>3, <2>4, <2>6, <2>7, <2>8, <2>9
  <2>10. CASE response'.path # "unknown"
    BY <2>3, <2>6, <2>7, <2>8, <2>10
  <2> QED BY <2>9, <2>10
<1> QED BY <1>1, Invariance, PTL DEF Spec, NotFoundIsJustified
=============================================================================
