--------------------------- MODULE WebClientProofs ---------------------------
(***************************************************************************)
(* The pages of the web client, for any number of searches and lookups     *)
(* that overtake each other, every index and every order of the answers.   *)
(***************************************************************************)
EXTENDS WebClient, FiniteSetTheorems, TLAPS

(***************************************************************************)
(* What a search answers                                                   *)
(***************************************************************************)
\* The smaller of two numbers.
LEMMA MinOfTwo ==
  ASSUME NEW a \in Nat, NEW b \in Nat
  PROVE  Min({a, b}) = IF a <= b THEN a ELSE b
<1> DEFINE IsMin(x) == \A y \in {a, b} : x =< y
           least == IF a <= b THEN a ELSE b
<1>1. least \in {a, b} /\ IsMin(least)
  OBVIOUS
<1>2. \A x \in {a, b} : IsMin(x) => x = least
  OBVIOUS
<1> HIDE DEF IsMin, least
<1>3. (CHOOSE x \in {a, b} : IsMin(x)) = least
  BY <1>1, <1>2
<1> QED BY <1>3 DEF Min, IsMin, least

\* What an answer lists is in the index and within the threshold.
LEMMA AnswersAreNear ==
  ASSUME NEW S, NEW hashes, NEW p, NEW threshold, NEW limit,
         NEW items \in Answers(S, hashes, p, threshold, limit), NEW i \in items
  PROVE  i.manifest \in S /\ Distance(hashes[i.manifest], p) <= threshold
<1> DEFINE near == {m \in S : Within(hashes[m], p, threshold)}
<1>1. PICK T \in SUBSET near : items = {Item(m, Distance(hashes[m], p)) : m \in T}
  BY DEF Answers
<1>2. PICK m \in T : i = Item(m, Distance(hashes[m], p))
  BY <1>1
<1>3. i.manifest = m
  BY <1>2 DEF Item
<1> QED BY <1>3 DEF Within

\* An answer with room for the whole index lists all of it that is near.
LEMMA AnswersListAll ==
  ASSUME NEW S, IsFiniteSet(S), NEW hashes, NEW p, NEW threshold,
         \A m \in S : Distance(hashes[m], p) <= threshold,
         NEW limit \in Nat, Cardinality(S) <= limit,
         NEW items \in Answers(S, hashes, p, threshold, limit)
  PROVE  Found(items) = S
<1> DEFINE near == {m \in S : Within(hashes[m], p, threshold)}
<1>1. near = S
  BY DEF Within
<1>2. PICK T \in SUBSET near :
        /\ Cardinality(T) = Min({limit, Cardinality(near)})
        /\ items = {Item(m, Distance(hashes[m], p)) : m \in T}
  BY DEF Answers
<1>3. Cardinality(S) \in Nat
  BY FS_CardinalityType
<1>4. Min({limit, Cardinality(S)}) = Cardinality(S)
  BY <1>3, MinOfTwo
<1>5. T = S
  BY <1>1, <1>2, <1>4, FS_Subset
<1> HIDE DEF near
<1>6. items = {Item(m, Distance(hashes[m], p)) : m \in S}
  BY <1>2, <1>5
<1>7. \A m \in S : Item(m, Distance(hashes[m], p)).manifest = m
  BY DEF Item
<1> QED BY <1>6, <1>7 DEF Found

\* Nothing is farther from the zero hash than the threshold that lets everything
\* through.
LEMMA NearZeroIsEverything ==
  ASSUME NEW p \in Hashes
  PROVE  Distance(p, Zero) <= AllBits
<1>1. (p \ {}) \cup ({} \ p) = p
  OBVIOUS
<1>2. IsFiniteSet(p) /\ Cardinality(p) <= Cardinality(Bits)
  BY SearchAssumption, FS_Subset DEF Hashes
<1>3. Cardinality(p) \in Nat /\ Cardinality(Bits) \in Nat
  BY <1>2, SearchAssumption, FS_CardinalityType
<1> QED BY <1>1, <1>2, <1>3, UseSearchAssumption DEF Distance, Zero

(***************************************************************************)
(* The inductive invariant                                                 *)
(***************************************************************************)
Near(m, hash) == m \in index /\ Distance(hashOf[m], hash) <= Threshold

Server ==
  /\ hashOf \in [Manifests -> Hashes]
  /\ index \subseteq Manifests

\* The state of the hook is that of a search it waits for, or of one that ended;
\* and what byContent matched stays near.
Hook ==
  /\ pc \in [Searches -> {"new", "first", "second", "done"}]
  /\ query = [k \in Searches |-> query[k]]
  /\ matched = [k \in Searches |-> matched[k]]
  /\ ui.status = "loading" => Outstanding # {}
  /\ ui.status = "results" =>
       /\ ui.by \in Searches /\ pc[ui.by] = "done"
       /\ query[ui.by].kind \in {"phash", "content"} =>
            \A i \in ui.items : Near(i.manifest, query[ui.by].hash)
  /\ \A k \in Searches : pc[k] = "second" /\ query[k].kind = "content" =>
       \A m \in matched[k] : Near(m, query[k].hash)

\* A lookup is awaited while the page of a manifest loads, and what it shows is
\* indexed.
Detail ==
  /\ lookups \in [Visits -> Manifests \cup {None}]
  /\ detail \in [id : Manifests \cup {None}, data : Manifests \cup {None},
                 missing : Manifests \cup {None}, loading : BOOLEAN]
  /\ detail.data \in index \cup {None}
  /\ page = "manifest" => detail.id # None
  /\ detail.loading => Awaited # {}

Inv == Server /\ Hook /\ Detail

(***************************************************************************)
(* The hook                                                                *)
(***************************************************************************)
\* A hook that is left alone keeps what holds of it while the index grows.
LEMMA HookKept ==
  ASSUME Hook, UNCHANGED searchVars, hashOf' = hashOf, index \subseteq index'
  PROVE  Hook'
BY DEF Hook, searchVars, Outstanding, Near

\* A search that starts, or that its page starts again, shows nothing yet.
LEMMA StartStep ==
  ASSUME Hook, NEW k \in Searches, NEW q, Start(k, q) \/ StartWithoutFile(k)
  PROVE  Hook' /\ UNCHANGED serverVars
<1>1. CASE Start(k, q)
  <2>1. k \in Outstanding'
    BY <1>1 DEF Start, Hook, Outstanding
  <2> QED BY <1>1, <2>1 DEF Start, Hook, Loading, Near, serverVars
<1>2. CASE StartWithoutFile(k)
  BY <1>2 DEF StartWithoutFile, Hook, Idle, Near, serverVars
<1> QED BY <1>1, <1>2

\* A hook that is gone shows nothing.
LEMMA UnmountedStep ==
  ASSUME Unmounted
  PROVE  Hook'
BY DEF Unmounted, Hook, Idle

\* A page loaded anew waits for its search again, or has lost it.
LEMMA RestartedStep ==
  ASSUME Restarted
  PROVE  Hook'
<1> DEFINE started == {k \in Searches : pc[k] # "new"}
           latest == query[Max(started)]
           again == started # {} /\ latest.kind # "content"
<1>1. /\ pc' = [k \in Searches |-> IF k = 1 /\ started # {}
                                   THEN IF again THEN "first" ELSE "done" ELSE "new"]
      /\ query' = [k \in Searches |-> IF k = 1 /\ started # {} THEN latest
                                      ELSE [kind |-> "phash", hash |-> Zero]]
      /\ matched' = [k \in Searches |-> {}]
      /\ ui' = IF again THEN Loading ELSE Idle
  BY DEF Restarted
<1>2. again => started # {}
  OBVIOUS
<1> HIDE DEF started, again, latest
<1>3. again => 1 \in Outstanding'
  BY <1>1, <1>2, UseSearchAssumption DEF Outstanding
<1> QED BY <1>1, <1>3 DEF Hook, Loading, Idle

\* A search that ends shows what is near, or an error.
LEMMA ShowStep ==
  ASSUME Hook, NEW k \in Searches, pc[k] \in {"first", "second"}, NEW state, Show(k, state),
         query' = query, hashOf' = hashOf, index' = index,
         NEW found, matched' = matched \/ matched' = [matched EXCEPT ![k] = found],
         state.status # "loading",
         state.status = "results" =>
           /\ state.by = k
           /\ query[k].kind \in {"phash", "content"} =>
                \A i \in state.items : Near(i.manifest, query[k].hash)
  PROVE  Hook'
<1>1. /\ pc' = [pc EXCEPT ![k] = "done"] /\ ui' = state
  BY DEF Show
<1>2. /\ pc' \in [Searches -> {"new", "first", "second", "done"}]
      /\ query' = [j \in Searches |-> query'[j]]
      /\ matched' = [j \in Searches |-> matched'[j]]
  BY <1>1 DEF Hook
<1>3. \A m, hash : Near(m, hash)' = Near(m, hash)
  BY DEF Near
<1>4. \A j \in Searches : pc'[j] = "second" /\ query[j].kind = "content" =>
        \A m \in matched'[j] : Near(m, query[j].hash)
  <2> SUFFICES ASSUME NEW j \in Searches, pc'[j] = "second", query[j].kind = "content",
                      NEW m \in matched'[j]
               PROVE  Near(m, query[j].hash)
    OBVIOUS
  <2>1. j # k /\ pc[j] = "second" /\ query[j].kind = "content"
    BY <1>1 DEF Hook
  <2>2. matched'[j] = matched[j]
    BY <2>1 DEF Hook
  <2> QED BY <2>1, <2>2 DEF Hook
<1> QED BY <1>1, <1>2, <1>3, <1>4 DEF Hook

\* A search that goes on with what byContent matched has only near ones to list.
LEMMA SecondStep ==
  ASSUME Hook, NEW k \in Searches, pc[k] \in {"first", "second"},
         pc' = [pc EXCEPT ![k] = "second"], ui' = ui,
         query' = query, hashOf' = hashOf, index' = index,
         NEW found, matched' = [matched EXCEPT ![k] = found],
         query[k].kind = "content" => \A m \in found : Near(m, query[k].hash)
  PROVE  Hook'
<1>1. ui' = ui /\ ui.status = "results" => ui.by # k
  BY DEF Hook
<1>2. /\ pc' \in [Searches -> {"new", "first", "second", "done"}]
      /\ query' = [j \in Searches |-> query'[j]]
      /\ matched' = [j \in Searches |-> matched'[j]]
  BY DEF Hook
<1>3. \A m, hash : Near(m, hash)' = Near(m, hash)
  BY DEF Near
<1>4. k \in Outstanding'
  BY DEF Outstanding, Hook
<1>5. \A j \in Searches : pc'[j] = "second" /\ query[j].kind = "content" =>
        \A m \in matched'[j] : Near(m, query[j].hash)
  <2> SUFFICES ASSUME NEW j \in Searches, pc'[j] = "second", query[j].kind = "content",
                      NEW m \in matched'[j]
               PROVE  Near(m, query[j].hash)
    OBVIOUS
  <2>1. CASE j = k
    <3>1. matched'[k] = found
      BY DEF Hook
    <3> QED BY <2>1, <3>1
  <2>2. CASE j # k
    <3>1. matched'[j] = matched[j] /\ pc[j] = "second"
      BY <2>2 DEF Hook
    <3> QED BY <3>1 DEF Hook
  <2> QED BY <2>1, <2>2
<1> QED BY <1>1, <1>2, <1>3, <1>4, <1>5 DEF Hook

\* Whichever search ends, and however late, the state of the hook stays one of these.
LEMMA AnsweredStep ==
  ASSUME Hook, NEW k \in Searches, Answered(k)
  PROVE  Hook' /\ UNCHANGED serverVars
<1> USE DEF Results, Failed
<1>1. CASE PhashAnswered(k)
  <2>1. PICK items \in Ask(query[k].hash, Threshold, PageLimit) : Show(k, Results(k, items))
    BY <1>1 DEF PhashAnswered
  <2>2. \A i \in items : Near(i.manifest, query[k].hash)
    BY <2>1, AnswersAreNear DEF Ask, Near
  <2> QED BY <1>1, <2>1, <2>2, ShowStep DEF PhashAnswered, serverVars
<1>2. CASE ContentMatched(k)
  <2>1. PICK items \in Ask(query[k].hash, Threshold, ContentLimit) :
          /\ matched' = [matched EXCEPT ![k] = Found(items)]
          /\ IF items = {} THEN Show(k, Results(k, {}))
             ELSE pc' = [pc EXCEPT ![k] = "second"] /\ UNCHANGED ui
    BY <1>2 DEF ContentMatched
  <2>2. \A i \in items : Near(i.manifest, query[k].hash)
    BY <2>1, AnswersAreNear DEF Ask, Near
  <2>3. \A m \in Found(items) : Near(m, query[k].hash)
    BY <2>2 DEF Found
  <2>4. pc[k] = "first" /\ query' = query /\ hashOf' = hashOf /\ index' = index
    BY <1>2 DEF ContentMatched
  <2>5. CASE items = {}
    <3> DEFINE shown == Results(k, {})
    <3>1. Show(k, shown) /\ matched' = [matched EXCEPT ![k] = Found(items)]
      BY <2>1, <2>5
    <3>2. shown.status = "results" /\ shown.by = k /\ shown.items = {}
      OBVIOUS
    <3> HIDE DEF shown
    <3>3. Hook'
      BY <2>4, <3>1, <3>2, ShowStep
    <3> QED BY <2>4, <3>3 DEF serverVars
  <2>6. CASE items # {}
    BY <2>1, <2>3, <2>4, <2>6, SecondStep DEF serverVars
  <2> QED BY <2>5, <2>6
<1>3. CASE ContentListed(k)
  <2>1. PICK items : Show(k, Results(k, {i \in items : i.manifest \in matched[k]}))
    BY <1>3 DEF ContentListed
  <2>2. /\ pc[k] = "second" /\ query[k].kind = "content"
        /\ query' = query /\ hashOf' = hashOf /\ index' = index /\ matched' = matched
    BY <1>3 DEF ContentListed
  <2>3. \A m \in matched[k] : Near(m, query[k].hash)
    BY <2>2 DEF Hook
  <2> QED BY <2>1, <2>2, <2>3, ShowStep DEF serverVars
<1>4. CASE ManifestLookedUp(k)
  <2>1. /\ pc[k] = "first" /\ query[k].kind = "manifest"
        /\ query' = query /\ hashOf' = hashOf /\ index' = index /\ matched' = matched
    BY <1>4 DEF ManifestLookedUp
  <2>2. CASE pc' = [pc EXCEPT ![k] = "second"] /\ UNCHANGED ui
    <3>1. matched' = [matched EXCEPT ![k] = matched[k]]
      BY <2>1 DEF Hook
    <3> QED BY <2>1, <2>2, <3>1, SecondStep DEF serverVars
  <2>3. CASE Show(k, Failed(k))
    BY <2>1, <2>3, ShowStep DEF serverVars
  <2> QED BY <1>4, <2>2, <2>3 DEF ManifestLookedUp
<1>5. CASE ManifestListed(k)
  <2>1. PICK items : Show(k, Results(k, items))
    BY <1>5 DEF ManifestListed
  <2> QED BY <1>5, <2>1, ShowStep DEF ManifestListed, serverVars
<1>6. CASE SearchFails(k)
  BY <1>6, ShowStep DEF SearchFails, Outstanding, serverVars
<1> QED BY <1>1, <1>2, <1>3, <1>4, <1>5, <1>6 DEF Answered

(***************************************************************************)
(* The page of a manifest                                                  *)
(***************************************************************************)
\* So does the page of a manifest.
LEMMA DetailKept ==
  ASSUME Detail, UNCHANGED detailVars, index \subseteq index',
         page' = page \/ page' # "manifest"
  PROVE  Detail'
BY DEF Detail, detailVars, Awaited

\* A page that is left awaits nothing.
LEMMA DetailLeftStep ==
  ASSUME DetailLeft, page' # "manifest"
  PROVE  Detail'
BY WebClientAssumption DEF DetailLeft, Detail, NoLookups, NoDetail

\* A lookup that begins is awaited, and the data of the page stays.
LEMMA FetchStep ==
  ASSUME Detail, NEW m \in Manifests, NEW old, old = detail \/ old = NoDetail, Fetch(m, old),
         index' = index
  PROVE  Detail'
<1>1. PICK v \in Visits \ Awaited : lookups' = [lookups EXCEPT ![v] = m]
  BY DEF Fetch
<1>2. detail' = [old EXCEPT !.id = m, !.loading = TRUE, !.missing = None]
  BY DEF Fetch
<1>3. m # None
  BY WebClientAssumption
<1>4. /\ lookups' \in [Visits -> Manifests \cup {None}]
      /\ v \in Awaited'
  BY <1>1, <1>3 DEF Detail, Awaited
<1>5. /\ old \in [id : Manifests \cup {None}, data : Manifests \cup {None},
                  missing : Manifests \cup {None}, loading : BOOLEAN]
      /\ old.data \in index \cup {None}
  <2>1. CASE old = detail
    BY <2>1 DEF Detail
  <2>2. CASE old = NoDetail
    BY <2>2 DEF NoDetail
  <2> QED BY <2>1, <2>2
<1> QED BY <1>2, <1>3, <1>4, <1>5 DEF Detail

\* A lookup that ends takes the spinner away, whichever it is.
LEMMA SettledStep ==
  ASSUME Detail, NEW v \in Visits, NEW d, Settled(v, d), index' = index, page' = page,
         d \in [id : Manifests \cup {None}, data : Manifests \cup {None},
                missing : Manifests \cup {None}, loading : BOOLEAN],
         d.data \in index \cup {None}, d.id = detail.id
  PROVE  Detail'
<1>1. /\ lookups' = [lookups EXCEPT ![v] = None]
      /\ detail' = [d EXCEPT !.loading = FALSE]
  BY DEF Settled
<1>2. lookups' \in [Visits -> Manifests \cup {None}]
  BY <1>1 DEF Detail
<1>3. /\ detail' \in [id : Manifests \cup {None}, data : Manifests \cup {None},
                      missing : Manifests \cup {None}, loading : BOOLEAN]
      /\ detail'.loading = FALSE /\ detail'.data = d.data /\ detail'.id = d.id
  BY <1>1
<1> QED BY <1>2, <1>3 DEF Detail

\* What the lookup of a manifest finds in the list.
LEMMA LookedUpStep ==
  ASSUME Inv, NEW v \in Visits, LookedUp(v)
  PROVE  /\ Detail'
         /\ IF detail'.missing = lookups[v] /\ detail.missing # lookups[v]
            THEN lookups[v] \notin index \/ Cardinality(index) > IndexLimit
            ELSE detail'.data \in index \cup {None}
<1> DEFINE sought == lookups[v]
<1>1. v \in Awaited /\ sought \in Manifests /\ sought # None
  BY DEF LookedUp, Awaited, Inv, Detail
<1>2. PICK items \in Listed :
        Settled(v, IF sought \in Found(items) THEN [detail EXCEPT !.data = sought]
                                              ELSE [detail EXCEPT !.missing = sought])
  BY DEF LookedUp
<1>3. index' = index /\ page' = page
  BY DEF LookedUp, serverVars
<1>4. Found(items) \subseteq index
  BY <1>2, AnswersAreNear DEF Listed, Ask, Found
<1>5. index \subseteq Found(items) \/ Cardinality(index) > IndexLimit
  <2>1. IsFiniteSet(index) /\ Cardinality(index) \in Nat
    BY SearchAssumption, FS_Subset, FS_CardinalityType DEF Inv, Server
  <2>2. \A m \in index : Distance(hashOf[m], Zero) <= AllBits
    BY NearZeroIsEverything DEF Inv, Server
  <2>3. CASE Cardinality(index) <= IndexLimit
    BY <1>2, <2>1, <2>2, <2>3, AnswersListAll, UseSearchAssumption DEF Listed, Ask
  <2> QED BY <2>1, <2>3, UseSearchAssumption
<1>6. /\ detail \in [id : Manifests \cup {None}, data : Manifests \cup {None},
                     missing : Manifests \cup {None}, loading : BOOLEAN]
      /\ detail.data \in index \cup {None}
  BY DEF Inv, Detail
<1> HIDE DEF sought
<1>7. CASE sought \in Found(items)
  <2> DEFINE d == [detail EXCEPT !.data = sought]
  <2>1. /\ d \in [id : Manifests \cup {None}, data : Manifests \cup {None},
                  missing : Manifests \cup {None}, loading : BOOLEAN]
        /\ d.data = sought /\ d.id = detail.id /\ d.missing = detail.missing
    BY <1>1, <1>6
  <2>2. Settled(v, d)
    BY <1>2, <1>7
  <2> HIDE DEF d
  <2>3. Detail'
    BY <1>3, <1>4, <1>7, <2>1, <2>2, SettledStep DEF Inv
  <2>4. detail'.data = sought /\ detail'.missing = detail.missing
    BY <2>1, <2>2 DEF Settled
  <2> QED BY <1>4, <1>7, <2>3, <2>4 DEF sought
<1>8. CASE sought \notin Found(items)
  <2> DEFINE d == [detail EXCEPT !.missing = sought]
  <2>1. /\ d \in [id : Manifests \cup {None}, data : Manifests \cup {None},
                  missing : Manifests \cup {None}, loading : BOOLEAN]
        /\ d.data = detail.data /\ d.id = detail.id
    BY <1>1, <1>6
  <2>2. Settled(v, d)
    BY <1>2, <1>8
  <2> HIDE DEF d
  <2>3. Detail'
    BY <1>3, <1>6, <2>1, <2>2, SettledStep DEF Inv
  <2>4. detail'.data = detail.data
    BY <2>1, <2>2 DEF Settled
  <2> QED BY <1>5, <1>6, <1>8, <2>3, <2>4 DEF sought
<1> QED BY <1>7, <1>8

\* Loading the page anew forgets the searches and lookups, not the manifest it is about.
LEMMA ReloadStep ==
  ASSUME Inv, Reload
  PROVE  Inv'
<1>1. hashOf' = hashOf /\ index' = index /\ page' = page
  BY DEF Reload, serverVars
<1>2. Server'
  BY <1>1 DEF Inv, Server
<1>3. CASE page = "home" /\ UNCHANGED <<searchVars, detailVars>>
  BY <1>1, <1>2, <1>3, HookKept, DetailKept DEF Inv
<1>4. CASE page = "results" /\ Restarted /\ UNCHANGED detailVars
  BY <1>1, <1>2, <1>4, RestartedStep, DetailKept DEF Inv
<1>5. CASE /\ page = "manifest" /\ UNCHANGED searchVars
           /\ lookups' = [NoLookups EXCEPT ![1] = detail.id]
           /\ detail' = [NoDetail EXCEPT !.id = detail.id, !.loading = TRUE]
  <2>1. Hook'
    BY <1>1, <1>5, HookKept DEF Inv
  <2>2. detail.id \in Manifests /\ detail.id # None
    BY <1>5 DEF Inv, Detail
  <2>3. /\ lookups' \in [Visits -> Manifests \cup {None}]
        /\ 1 \in Awaited'
    BY <1>5, <2>2, WebClientAssumption DEF NoLookups, Awaited
  <2>4. Detail'
    BY <1>5, <2>2, <2>3 DEF Detail, NoDetail
  <2> QED BY <1>2, <2>1, <2>4 DEF Inv
<1> QED BY <1>3, <1>4, <1>5 DEF Reload

(***************************************************************************)
(* The theorems                                                            *)
(***************************************************************************)
\* The page and its hook keep in step, whatever the user and the server do.
THEOREM Invariance == Spec => []Inv
<1>1. Init => Inv
  <2> SUFFICES ASSUME Init PROVE Inv
    OBVIOUS
  <2>1. Server
    BY DEF Init, ServerInit, Server
  <2>2. Hook
    BY DEF Init, HookInit, Hook, Idle
  <2>3. Detail
    BY WebClientAssumption DEF Init, Detail, NoLookups, NoDetail
  <2> QED BY <2>1, <2>2, <2>3 DEF Inv
<1>2. Inv /\ [Next]_vars => Inv'
  <2> SUFFICES ASSUME Inv, [Next]_vars PROVE Inv'
    OBVIOUS
  <2>1. ASSUME UNCHANGED serverVars, Hook', Detail' PROVE Inv'
    BY <2>1 DEF Inv, Server, serverVars
  <2>2. UNCHANGED serverVars => hashOf' = hashOf /\ index' = index
    BY DEF serverVars
  <2>3. ASSUME NEW f, Select(f) PROVE Inv'
    BY <2>1, <2>2, <2>3, HookKept, DetailKept DEF Select, Inv
  <2>4. CASE GoHome
    BY <2>1, <2>4, UnmountedStep, DetailLeftStep DEF GoHome
  <2>5. ASSUME NEW k \in Searches, NEW q, Query(k, q)
        PROVE  Hook' /\ UNCHANGED serverVars
    BY <2>5, StartStep DEF Query, Inv
  <2>6. ASSUME NEW q, OpenResults(q) PROVE Inv'
    <3>1. Query(1, q) /\ DetailLeft /\ page' # "manifest"
      BY <2>6 DEF OpenResults
    <3> QED BY <2>1, <2>5, <3>1, DetailLeftStep, UseSearchAssumption
  <2>7. ASSUME NEW q, Requery(q) PROVE Inv'
    <3>1. PICK k \in Searches : Query(k, q)
      BY <2>7 DEF Requery
    <3>2. page' = page /\ UNCHANGED detailVars
      BY <2>7 DEF Requery
    <3> QED BY <2>1, <2>2, <2>5, <3>1, <3>2, DetailKept DEF Inv
  <2>8. CASE SubmitFile
    <3>1. /\ Start(1, [kind |-> "content", hash |-> selected])
          /\ page' # "manifest" /\ UNCHANGED detailVars
      BY <2>8 DEF SubmitFile
    <3>2. Hook' /\ UNCHANGED serverVars
      BY <3>1, StartStep, UseSearchAssumption DEF Inv
    <3> QED BY <2>1, <2>2, <3>1, <3>2, DetailKept DEF Inv
  <2>9. CASE SearchStep
    <3>1. PICK k \in Searches : Answered(k)
      BY <2>9 DEF SearchStep
    <3>2. Hook' /\ UNCHANGED serverVars
      BY <3>1, AnsweredStep DEF Inv
    <3>3. page' = page /\ UNCHANGED detailVars
      BY <2>9 DEF SearchStep
    <3> QED BY <2>1, <2>2, <3>2, <3>3, DetailKept DEF Inv
  <2>10. ASSUME NEW m \in Manifests, OpenManifest(m) PROVE Inv'
    BY <2>1, <2>2, <2>10, UnmountedStep, FetchStep DEF OpenManifest, Inv
  <2>11. ASSUME NEW m \in Manifests, OpenAnother(m) PROVE Inv'
    BY <2>1, <2>2, <2>11, HookKept, FetchStep DEF OpenAnother, Inv
  <2>12. ASSUME NEW v \in Visits, LookedUp(v) PROVE Inv'
    <3>1. Detail'
      BY <2>12, LookedUpStep
    <3> QED BY <2>1, <2>2, <2>12, <3>1, HookKept DEF LookedUp, Inv
  <2>13. ASSUME NEW v \in Visits, LookupFails(v) PROVE Inv'
    <3> DEFINE d == [detail EXCEPT !.missing = lookups[v]]
    <3>1. /\ Settled(v, d) /\ UNCHANGED serverVars /\ UNCHANGED searchVars /\ page' = page
      BY <2>13 DEF LookupFails
    <3>2. /\ d \in [id : Manifests \cup {None}, data : Manifests \cup {None},
                    missing : Manifests \cup {None}, loading : BOOLEAN]
          /\ d.data \in index \cup {None} /\ d.id = detail.id
      BY DEF Inv, Detail
    <3> HIDE DEF d
    <3>3. Detail'
      BY <2>2, <3>1, <3>2, SettledStep DEF Inv
    <3> QED BY <2>1, <2>2, <3>1, <3>3, HookKept DEF Inv
  <2>14. CASE Reload
    BY <2>14, ReloadStep
  <2>15. ASSUME NEW m \in Manifests, ServerIndexes(m) PROVE Inv'
    <3>1. /\ hashOf' = hashOf /\ index' = index \cup {m} /\ UNCHANGED searchVars
          /\ page' = page /\ UNCHANGED detailVars
      BY <2>15 DEF ServerIndexes, Indexed
    <3>2. Hook' /\ Detail'
      BY <3>1, HookKept, DetailKept DEF Inv
    <3> QED BY <3>1, <3>2 DEF Inv, Server
  <2>16. CASE UNCHANGED vars
    BY <2>1, <2>2, <2>16, HookKept, DetailKept DEF vars, Inv
  <2> QED BY <2>3, <2>4, <2>6, <2>7, <2>8, <2>9, <2>10, <2>11, <2>12, <2>13, <2>14,
             <2>15, <2>16 DEF Next
<1> QED BY <1>1, <1>2, PTL DEF Spec

(***************************************************************************)
(* Types                                                                   *)
(***************************************************************************)
Started == {k \in Searches : pc[k] # "new"}
Items == [manifest : Manifests, distance : Nat]

\* One of the searches started is the latest: the one a page loaded anew repeats.
HookTyped ==
  /\ query \in [Searches -> Queries]
  /\ matched \in [Searches -> SUBSET Manifests]
  /\ ui \in [status : {"idle", "loading", "error", "results"}, items : SUBSET Items,
             by : Searches \cup {0}]
  /\ Started # {} => \E l \in Started : \A k \in Started : l >= k

PageTyped ==
  /\ page \in {"home", "results", "manifest"}
  /\ file \in Hashes \cup {None} /\ selected \in Hashes \cup {None}

\* A hash differs from another in a number of bits.
LEMMA DistanceIsNat ==
  ASSUME NEW p \in Hashes, NEW q \in Hashes
  PROVE  Distance(p, q) \in Nat
<1>1. (p \ q) \cup (q \ p) \subseteq Bits
  BY DEF Hashes
<1> QED BY <1>1, SearchAssumption, FS_Subset, FS_CardinalityType DEF Distance

\* An answer lists manifests with their distance.
LEMMA AskTyped ==
  ASSUME Server, NEW p \in Hashes, NEW threshold, NEW limit,
         NEW items \in Ask(p, threshold, limit)
  PROVE  items \subseteq Items /\ Found(items) \subseteq Manifests
<1> DEFINE near == {m \in index : Within(hashOf[m], p, threshold)}
<1>1. PICK T \in SUBSET near : items = {Item(m, Distance(hashOf[m], p)) : m \in T}
  BY DEF Ask, Answers
<1>2. \A m \in T : Item(m, Distance(hashOf[m], p)) \in Items
  BY DistanceIsNat DEF Server, Item, Items
<1>3. items \subseteq Items
  BY <1>1, <1>2
<1> QED BY <1>3 DEF Found, Items

\* The zero hash is one.
LEMMA ZeroIsHash == Zero \in Hashes
BY DEF Zero, Hashes

\* A hook that nothing happens to keeps its types,
LEMMA HookTypedKept ==
  ASSUME HookTyped, UNCHANGED searchVars
  PROVE  HookTyped'
BY DEF HookTyped, searchVars, Started

\* so does one that starts a search,
LEMMA StartTyped ==
  ASSUME Hook, HookTyped, NEW k \in Searches, NEW q \in Queries,
         Start(k, q) \/ StartWithoutFile(k)
  PROVE  HookTyped'
<1>1. pc' \in [Searches -> {"new", "first", "second", "done"}]
      /\ \E p \in {"first", "done"} : pc' = [pc EXCEPT ![k] = p]
  BY DEF Start, StartWithoutFile, Hook
<1>2. Started' = Started \cup {k}
  BY <1>1 DEF Started, Hook
<1>3. \E l \in Started' : \A j \in Started' : l >= j
  <2>1. CASE Started = {}
    BY <1>2, <2>1, UseSearchAssumption
  <2>2. CASE Started # {}
    <3>1. PICK l \in Started : \A j \in Started : l >= j
      BY <2>2 DEF HookTyped
    <3>2. \A j \in Started \cup {k} : j \in Nat
      BY UseSearchAssumption DEF Started
    <3>3. CASE l >= k
      BY <1>2, <3>1, <3>3
    <3>4. CASE ~(l >= k)
      <4>1. \A j \in Started' : k >= j
        BY <1>2, <3>1, <3>2, <3>4
      <4> QED BY <1>2, <4>1
    <3> QED BY <3>3, <3>4
  <2> QED BY <2>1, <2>2
<1>4. query' \in [Searches -> Queries] /\ matched' = matched
  <2>1. [kind |-> "content", hash |-> Zero] \in Queries
    BY ZeroIsHash DEF Queries
  <2> QED BY <2>1 DEF Start, StartWithoutFile, HookTyped
<1>5. ui' = Loading \/ ui' = Idle
  BY DEF Start, StartWithoutFile
<1> QED BY <1>3, <1>4, <1>5 DEF HookTyped, Loading, Idle

\* one that is gone,
LEMMA UnmountedTyped ==
  ASSUME Unmounted
  PROVE  HookTyped'
<1>1. [kind |-> "phash", hash |-> Zero] \in Queries
  BY ZeroIsHash DEF Queries
<1>2. Started' = {}
  BY DEF Unmounted, Started
<1> QED BY <1>1, <1>2 DEF Unmounted, HookTyped, Idle

\* one that is loaded anew,
LEMMA RestartedTyped ==
  ASSUME HookTyped, Restarted
  PROVE  HookTyped'
<1> DEFINE latest == query[Max(Started)]
           again == Started # {} /\ latest.kind # "content"
<1>1. /\ pc' = [k \in Searches |-> IF k = 1 /\ Started # {}
                                   THEN IF again THEN "first" ELSE "done" ELSE "new"]
      /\ query' = [k \in Searches |-> IF k = 1 /\ Started # {} THEN latest
                                      ELSE [kind |-> "phash", hash |-> Zero]]
      /\ matched' = [k \in Searches |-> {}]
      /\ ui' = IF again THEN Loading ELSE Idle
  BY DEF Restarted, Started
<1>2. Started # {} => latest \in Queries
  <2> SUFFICES ASSUME Started # {} PROVE latest \in Queries
    OBVIOUS
  <2>1. \E l \in Started : \A k \in Started : l >= k
    BY DEF HookTyped
  <2>2. Max(Started) \in Started
    BY <2>1 DEF Max
  <2> QED BY <2>2 DEF HookTyped, Started
<1>3. [kind |-> "phash", hash |-> Zero] \in Queries
  BY ZeroIsHash DEF Queries
<1> HIDE DEF latest, again
<1>4. Started' \subseteq {1}
  BY <1>1 DEF Started
<1>5. query' \in [Searches -> Queries]
  BY <1>1, <1>2, <1>3
<1>6. Started' # {} => \E l \in Started' : \A k \in Started' : l >= k
  <2> SUFFICES ASSUME Started' # {} PROVE \E l \in Started' : \A k \in Started' : l >= k
    OBVIOUS
  <2>1. Started' = {1}
    BY <1>4
  <2> QED BY <2>1
<1>7. matched' \in [Searches -> SUBSET Manifests] /\ (ui' = Loading \/ ui' = Idle)
  BY <1>1
<1> QED BY <1>5, <1>6, <1>7 DEF HookTyped, Loading, Idle

\* and one that is answered, whatever it asked.
LEMMA AnsweredTyped ==
  ASSUME Server, Hook, HookTyped, NEW k \in Searches, Answered(k)
  PROVE  HookTyped'
<1>1. ASSUME NEW state, state \in [status : {"error", "results"}, items : SUBSET Items,
                                   by : Searches],
             \/ Show(k, state)
             \/ pc' = [pc EXCEPT ![k] = "second"] /\ ui' = ui,
             pc[k] \in {"first", "second"}, query' = query,
             matched' = matched \/ \E S \in SUBSET Manifests :
                                     matched' = [matched EXCEPT ![k] = S]
      PROVE  HookTyped'
  <2>1. Started' = Started
    BY <1>1 DEF Show, Started, Hook
  <2>2. matched' \in [Searches -> SUBSET Manifests]
    BY <1>1 DEF HookTyped
  <2>3. ui' = state \/ ui' = ui
    BY <1>1 DEF Show
  <2> QED BY <1>1, <2>1, <2>2, <2>3 DEF HookTyped
<1>2. ASSUME NEW items, items \subseteq Items
      PROVE  Results(k, items) \in [status : {"error", "results"}, items : SUBSET Items,
                                    by : Searches]
  BY <1>2 DEF Results
<1>3. Failed(k) \in [status : {"error", "results"}, items : SUBSET Items, by : Searches]
  BY DEF Failed
<1>4. CASE PhashAnswered(k)
  <2>1. PICK items \in Ask(query[k].hash, Threshold, PageLimit) : Show(k, Results(k, items))
    BY <1>4 DEF PhashAnswered
  <2>2. query[k].hash \in Hashes
    BY <1>4 DEF PhashAnswered, HookTyped, Queries
  <2> QED BY <1>1, <1>2, <1>4, <2>1, <2>2, AskTyped DEF PhashAnswered
<1>5. CASE ContentMatched(k)
  <2>1. PICK items \in Ask(query[k].hash, Threshold, ContentLimit) :
          /\ matched' = [matched EXCEPT ![k] = Found(items)]
          /\ IF items = {} THEN Show(k, Results(k, {}))
             ELSE pc' = [pc EXCEPT ![k] = "second"] /\ UNCHANGED ui
    BY <1>5 DEF ContentMatched
  <2>2. query[k].hash \in Hashes
    BY <1>5 DEF ContentMatched, HookTyped, Queries
  <2>3. Found(items) \in SUBSET Manifests
    BY <2>1, <2>2, AskTyped
  <2> QED BY <1>1, <1>2, <1>5, <2>1, <2>3 DEF ContentMatched
<1>6. CASE ContentListed(k)
  <2>1. PICK items \in Ask(Zero, AllBits, IndexLimit) :
          Show(k, Results(k, {i \in items : i.manifest \in matched[k]}))
    BY <1>6 DEF ContentListed
  <2>2. {i \in items : i.manifest \in matched[k]} \subseteq Items
    BY <2>1, AskTyped, ZeroIsHash
  <2> QED BY <1>1, <1>2, <1>6, <2>1, <2>2 DEF ContentListed
<1>7. CASE ManifestLookedUp(k)
  BY <1>1, <1>3, <1>7 DEF ManifestLookedUp
<1>8. CASE ManifestListed(k)
  <2>1. PICK items \in Ask(Zero, AllBits, PageLimit) : Show(k, Results(k, items))
    BY <1>8 DEF ManifestListed
  <2> QED BY <1>1, <1>2, <1>8, <2>1, AskTyped, ZeroIsHash DEF ManifestListed
<1>9. CASE SearchFails(k)
  BY <1>1, <1>3, <1>9 DEF SearchFails, Outstanding
<1> QED BY <1>4, <1>5, <1>6, <1>7, <1>8, <1>9 DEF Answered

\* Every step keeps the types.
LEMMA TypedStep ==
  ASSUME Inv, HookTyped, PageTyped, [Next]_vars
  PROVE  HookTyped' /\ PageTyped'
<1>1. ASSUME NEW k \in Searches, NEW q \in Queries, Query(k, q) PROVE HookTyped'
  BY <1>1, StartTyped DEF Query, Inv
<1>2. ASSUME NEW f \in Hashes \cup {None}, Select(f) PROVE HookTyped' /\ PageTyped'
  BY <1>2, HookTypedKept DEF Select, PageTyped
<1>3. CASE GoHome
  BY <1>3, UnmountedTyped DEF GoHome, HomeLeft, PageTyped
<1>4. ASSUME NEW q \in Queries, OpenResults(q) PROVE HookTyped' /\ PageTyped'
  BY <1>1, <1>4, UseSearchAssumption DEF OpenResults, HomeLeft, PageTyped
<1>5. ASSUME NEW q \in Queries, Requery(q) PROVE HookTyped' /\ PageTyped'
  BY <1>1, <1>5 DEF Requery, homeVars, PageTyped
<1>6. CASE SubmitFile
  <2>1. [kind |-> "content", hash |-> selected] \in Queries
    BY <1>6 DEF SubmitFile, PageTyped, Queries
  <2>2. HookTyped'
    BY <1>6, <2>1, StartTyped, UseSearchAssumption DEF SubmitFile, Inv
  <2> QED BY <1>6, <2>2 DEF SubmitFile, HomeLeft, PageTyped
<1>7. CASE SearchStep
  BY <1>7, AnsweredTyped DEF SearchStep, homeVars, PageTyped, Inv
<1>8. ASSUME NEW m \in Manifests, OpenManifest(m) \/ OpenAnother(m)
      PROVE  HookTyped' /\ PageTyped'
  BY <1>8, UnmountedTyped, HookTypedKept
     DEF OpenManifest, OpenAnother, HomeLeft, homeVars, PageTyped
<1>9. ASSUME NEW v \in Visits, LookedUp(v) \/ LookupFails(v)
      PROVE  HookTyped' /\ PageTyped'
  BY <1>9, HookTypedKept DEF LookedUp, LookupFails, homeVars, PageTyped
<1>10. CASE Reload
  BY <1>10, RestartedTyped, HookTypedKept DEF Reload, HomeLeft, PageTyped
<1>11. ASSUME NEW m \in Manifests, ServerIndexes(m) PROVE HookTyped' /\ PageTyped'
  BY <1>11, HookTypedKept DEF ServerIndexes, Indexed, homeVars, PageTyped
<1>12. CASE UNCHANGED vars
  BY <1>12, HookTypedKept DEF vars, homeVars, PageTyped
<1>13. Reachable \subseteq Queries
  BY DEF Reachable
<1> QED BY <1>2, <1>3, <1>4, <1>5, <1>6, <1>7, <1>8, <1>9, <1>10, <1>11, <1>12, <1>13
        DEF Next

\* The page, its hook and the file keep their types: what is shown is always a list
\* of manifests that one of the searches gave.
THEOREM TypeCorrect == Spec => []TypeOK
<1>1. Init => HookTyped /\ PageTyped
  <2> SUFFICES ASSUME Init PROVE HookTyped /\ PageTyped
    OBVIOUS
  <2>1. [kind |-> "phash", hash |-> Zero] \in Queries
    BY ZeroIsHash DEF Queries
  <2>2. Started = {}
    BY DEF Init, HookInit, Started
  <2> QED BY <2>1, <2>2 DEF Init, HookInit, HookTyped, PageTyped, Idle
<1>2. Inv /\ HookTyped /\ PageTyped /\ [Next]_vars => (HookTyped /\ PageTyped)'
  BY TypedStep
<1>3. Inv /\ HookTyped /\ PageTyped => TypeOK
  BY DEF Inv, Server, Hook, Detail, HookTyped, PageTyped, Items, TypeOK, SearchTypeOK
<1> QED BY <1>1, <1>2, <1>3, Invariance, PTL DEF Spec

\* No spinner is left behind.
THEOREM LoadingMeansOutstandingHolds == Spec => []LoadingMeansOutstanding
<1>1. Inv => LoadingMeansOutstanding
  BY DEF Inv, Hook, Detail, LoadingMeansOutstanding
<1> QED BY <1>1, Invariance, PTL

\* What a search shows is indexed and near, however old the answer is.
THEOREM ShownIsNearHolds == Spec => []ShownIsNear
<1>1. Inv => ShownIsNear
  BY DEF Inv, Hook, ShownIsNear, Shown, Near
<1> QED BY <1>1, Invariance, PTL

\* What was listed is not called missing while the list has room for the index.
THEOREM MissingIsNotListedHolds == Spec => MissingIsNotListed
<1>1. Inv /\ [Next]_vars =>
        [\A v \in Visits :
           LookedUp(v) =>
             IF detail'.missing = lookups[v] /\ detail.missing # lookups[v]
             THEN lookups[v] \notin index \/ Cardinality(index) > IndexLimit
             ELSE detail'.data \in index \cup {None}]_vars
  BY LookedUpStep
<1> QED BY <1>1, Invariance, PTL DEF Spec, MissingIsNotListed
=============================================================================
