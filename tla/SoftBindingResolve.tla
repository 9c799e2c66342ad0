------------------------- MODULE SoftBindingResolve -------------------------
(***************************************************************************)
(* GET and POST /v1/matches/byBinding (resolveByBinding in                 *)
(* src/routes/softbinding.ts): ask the gateway, then the local table of    *)
(* soft bindings, and merge.  Each source may fail, and the table changes  *)
(* while the gateway is awaited.                                           *)
(***************************************************************************)
EXTENDS GatewayGraphql

CONSTANTS
  MaxAsked,      \* the cap of maxResults, 100
  DefaultAsked   \* maxResults of a request that does not say, 10

ASSUME ResolveAssumption == MaxAsked \in Nat /\ DefaultAsked \in 1..MaxAsked

VARIABLES
  tags,         \* what each transaction on chain says
  index,        \* manifests soft_bindings holds for the value asked for
  maxResults,   \* parseMaxResults
  pc,           \* "request", "gateway", "local", "done"
  answered,     \* nodes the gateway reported, <<>> when it failed
  failed,       \* sources that failed: {"gateway", "local"}
  matches,      \* the result so far: [manifestId, endpoint]
  status        \* of the answer, 0 before

bindingVars == <<tags, index, maxResults, pc, answered, failed, matches, status>>

Match(manifestId, endpoint) == [manifestId |-> manifestId, endpoint |-> endpoint]

BindingInit ==
  /\ tags \in [TxIds -> [manifestId : ManifestIds \cup {None},
                         repoUrl : Locations \cup {None},
                         fetchUrl : {None}, kind : {None}, digest : {None}]]
  /\ index = {}
  /\ maxResults = 0
  /\ pc = "request"
  /\ answered = <<>> /\ failed = {} /\ matches = <<>> /\ status = 0

\* parseMaxResults: 0 stands for an input that is absent, not a number or below one.
ParseMaxResults(input) ==
  IF input = 0 THEN DefaultAsked ELSE Min({input, MaxAsked})

\* GET or POST with alg and value.
AskBinding(input) ==
  /\ pc = "request"
  /\ maxResults' = ParseMaxResults(input)
  /\ pc' = "gateway"
  /\ UNCHANGED <<tags, index, answered, failed, matches, status>>

\* alg or value is missing, or the body is not JSON.
RefuseBinding ==
  /\ pc = "request"
  /\ pc' = "done"
  /\ status' = 400
  /\ UNCHANGED <<tags, index, maxResults, answered, failed, matches>>

Ids(ms) == {ms[i].manifestId : i \in DOMAIN ms}

FromGateway(results) ==
  FirstOccurrences([i \in DOMAIN results |->
                      Match(results[i].manifestId, results[i].repoUrl)],
                   [i \in DOMAIN results |-> results[i].manifestId])

\* After an answer of the gateway the local table is asked only for what is
\* missing.
Continue(found) ==
  /\ matches' = found
  /\ pc' = IF Len(found) < maxResults THEN "local" ELSE "done"
  /\ status' = IF Len(found) < maxResults THEN 0 ELSE 200

\* The gateway answers with at most maxResults nodes, in any order, perhaps
\* one transaction twice.
GatewayAnswers(nodes) ==
  /\ pc = "gateway"
  /\ Len(nodes) <= maxResults
  /\ answered' = nodes
  /\ Continue(FromGateway(LookupBySoftBinding(nodes, tags, maxResults)))
  /\ UNCHANGED <<tags, index, maxResults, failed>>

\* Fault variant of GatewayFails: the lookup ends with what it has.
GatewayFailsForGood ==
  /\ pc = "gateway"
  /\ failed' = failed \cup {"gateway"}
  /\ pc' = "done"
  /\ status' = 200
  /\ UNCHANGED <<tags, index, maxResults, answered, matches>>

\* A GatewayGraphQLError is logged, and the lookup goes on.
GatewayFails ==
  /\ pc = "gateway"
  /\ failed' = failed \cup {"gateway"}
  /\ Continue(<<>>)
  /\ UNCHANGED <<tags, index, maxResults, answered>>

\* Any other error, of a blank alg or of a tag that is not text, is a 400.
GatewayRaises ==
  /\ pc = "gateway"
  /\ failed' = failed \cup {"gateway"}
  /\ pc' = "done"
  /\ status' = 400
  /\ UNCHANGED <<tags, index, maxResults, answered, matches>>

\* Fault variant of Limit: what the gateway reported counts, not what was made of it.
LimitByReport == maxResults - Len(answered)

\* LIMIT of the local query: what is still missing.
Limit == maxResults - Len(matches)

\* LIMIT n of the distinct manifests: n of them if there are so many.
LimitedTo(n, found) ==
  {S \in SUBSET found : Cardinality(S) = Min({n, Cardinality(found)})}

\* The rows follow, but for the manifests the gateway has given, in any order.
Merged(rows) ==
  {matches \o [i \in DOMAIN fresh |-> Match(fresh[i], None)] :
     fresh \in SetToSeqs(rows \ Ids(matches))}

Finish(found) ==
  /\ matches' = SubSeq(found, 1, Min({Len(found), maxResults}))
  /\ pc' = "done"
  /\ status' = 200

LocalAnswers ==
  /\ pc = "local"
  /\ \E rows \in LimitedTo(Limit, index) : \E found \in Merged(rows) : Finish(found)
  /\ UNCHANGED <<tags, index, maxResults, answered, failed>>

LocalFails ==
  /\ pc = "local"
  /\ failed' = failed \cup {"local"}
  /\ Finish(matches)
  /\ UNCHANGED <<tags, index, maxResults, answered>>

\* A webhook stores a binding for the same value.  What is stored before the
\* first await is as if it were stored during it: nothing reads the table earlier.
Indexed(m) ==
  /\ pc \in {"gateway", "local"}
  /\ m \notin index
  /\ index' = index \cup {m}
  /\ UNCHANGED <<tags, maxResults, pc, answered, failed, matches, status>>

BindingNext ==
  \/ \E input \in 0..(MaxAsked + 1) : AskBinding(input)
  \/ RefuseBinding
  \/ \E nodes \in SeqOf(Node, MaxAsked) : GatewayAnswers(nodes)
  \/ GatewayFails
  \/ GatewayRaises
  \/ LocalAnswers
  \/ LocalFails
  \/ \E m \in ManifestIds : Indexed(m)

BindingSpec == BindingInit /\ [][BindingNext]_bindingVars

(***************************************************************************)
(* Properties                                                              *)
(***************************************************************************)
\* What the gateway and the table have given are nodes and manifests there are.
BindingTypeOK ==
  /\ \A id \in TxIds : tags[id] \in Tagged
  /\ index \subseteq ManifestIds
  /\ maxResults \in 0..MaxAsked
  /\ answered \in Seq(Node) /\ failed \subseteq {"gateway", "local"}
  /\ matches \in Seq([manifestId : ManifestIds, endpoint : Locations \cup {None}])

Reported(m) == {n \in ToSet(answered) : tags[n.id].manifestId = m}

\* The endpoint of a match is that of the latest transaction the gateway
\* reported for the manifest, although the answer may list older ones first.
LatestEndpoint ==
  \A i \in DOMAIN matches :
    LET reported == Reported(matches[i].manifestId) IN
      reported # {} =>
        \E n \in reported :
          /\ \A m \in reported : m.height <= n.height
          /\ matches[i].endpoint = tags[n.id].repoUrl

\* The outage of one source never empties the answer of the other: without the
\* gateway the local table alone fills the result, and nothing the gateway
\* reported within the limit is lost when the table cannot be read.
OtherSourceSuffices ==
  status = 200 =>
    /\ failed = {"gateway"} => Len(matches) >= Min({maxResults, Cardinality(index)})
    /\ \A m \in ManifestIds : Reported(m) # {} => m \in Ids(matches)

\* The LIMIT of the local query leaves room for what the gateway has given, and the rows
\* may give it again, so that an answer may miss a match it has room for: but never of
\* more than half its room, and not at all if the table holds no more than are listed.
RoomHalfFilled ==
  (status = 200 /\ "local" \notin failed) =>
    2 * Len(matches) >= maxResults \/ Len(matches) >= Cardinality(index)
=============================================================================
