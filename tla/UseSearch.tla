------------------------------ MODULE UseSearch ------------------------------
(***************************************************************************)
(* The hook useSearch of the web client (web/src/hooks/useSearch.ts),      *)
(* driven by ResultsPage.tsx.  A new query starts a search without         *)
(* cancelling the ones still awaited, and the content and manifest         *)
(* searches ask the server twice, while webhooks go on adding to the       *)
(* index.  WebClient has the pages around it.                              *)
(***************************************************************************)
EXTENDS SimilaritySearch

CONSTANTS
  Searches,       \* bound on the searches started, 1..n
  Threshold,      \* 10, of a pHash search and of byContent
  AllBits,        \* 64, the threshold that lets everything through
  ContentLimit,   \* 10, matches of byContent
  PageLimit,      \* 50, results of a pHash or manifest search
  IndexLimit      \* 100, what searchByContent and the lookup ask for

ASSUME UseSearchAssumption ==
  /\ Searches \subseteq Nat \ {0} /\ 1 \in Searches
  /\ Threshold \in Nat /\ AllBits \in Nat /\ Cardinality(Bits) <= AllBits
  /\ ContentLimit \in Nat /\ PageLimit \in Nat /\ IndexLimit \in Nat

VARIABLES
  hashOf,     \* pHash of each manifest
  index,      \* manifests the server has indexed
  pc,         \* of each search: "new", "first", "second" or "done"
  query,      \* its kind and the pHash or manifest it is about
  matched,    \* manifests byContent gave it
  ui          \* SearchState: status, items, and whose they are (0: nobody's)

searchVars == <<pc, query, matched, ui>>
serverVars == <<hashOf, index>>

Queries ==
  [kind : {"phash", "content"}, hash : Hashes]
  \cup [kind : {"manifest"}, manifest : Manifests]

Idle == [status |-> "idle", items |-> {}, by |-> 0]
Loading == [status |-> "loading", items |-> {}, by |-> 0]
Failed(k) == [status |-> "error", items |-> {}, by |-> k]
Results(k, items) == [status |-> "results", items |-> items, by |-> k]

ServerInit ==
  /\ hashOf \in [Manifests -> Hashes]
  /\ index = {}

HookInit ==
  /\ pc = [k \in Searches |-> "new"]
  /\ query = [k \in Searches |-> [kind |-> "phash", hash |-> Zero]]
  /\ matched = [k \in Searches |-> {}]
  /\ ui = Idle

Outstanding == {k \in Searches : pc[k] \in {"first", "second"}}

\* The effect for a new searchKey: reset, then the search sets loading.
Start(k, q) ==
  /\ pc[k] = "new"
  /\ \A j \in Searches : j < k => pc[j] # "new"
  /\ pc' = [pc EXCEPT ![k] = "first"]
  /\ query' = [query EXCEPT ![k] = q]
  /\ ui' = Loading
  /\ UNCHANGED <<hashOf, index, matched>>

\* A content query whose file is gone (the page was loaded anew) only resets.
StartWithoutFile(k) ==
  /\ pc[k] = "new"
  /\ \A j \in Searches : j < k => pc[j] # "new"
  /\ pc' = [pc EXCEPT ![k] = "done"]
  /\ query' = [query EXCEPT ![k] = [kind |-> "content", hash |-> Zero]]
  /\ ui' = Idle
  /\ UNCHANGED <<hashOf, index, matched>>

\* setState, whatever the page shows by now.
Show(k, state) ==
  /\ pc' = [pc EXCEPT ![k] = "done"]
  /\ ui' = state

Ask(p, threshold, limit) == Answers(index, hashOf, p, threshold, limit)

PhashAnswered(k) ==
  /\ pc[k] = "first" /\ query[k].kind = "phash"
  /\ \E items \in Ask(query[k].hash, Threshold, PageLimit) : Show(k, Results(k, items))
  /\ UNCHANGED <<hashOf, index, query, matched>>

\* matchByContent: without a match the search is over.
ContentMatched(k) ==
  /\ pc[k] = "first" /\ query[k].kind = "content"
  /\ \E items \in Ask(query[k].hash, Threshold, ContentLimit) :
       /\ matched' = [matched EXCEPT ![k] = Found(items)]
       /\ IF items = {} THEN Show(k, Results(k, {}))
          ELSE pc' = [pc EXCEPT ![k] = "second"] /\ UNCHANGED ui
  /\ UNCHANGED <<hashOf, index, query>>

\* Fault variant of ContentListed: everything listed is shown.
ContentListedAll(k) ==
  /\ pc[k] = "second" /\ query[k].kind = "content"
  /\ \E items \in Ask(Zero, AllBits, IndexLimit) : Show(k, Results(k, items))
  /\ UNCHANGED <<hashOf, index, query, matched>>

\* The matches are looked up among the manifests nearest to the zero hash, and
\* shown with their distance from it.
ContentListed(k) ==
  /\ pc[k] = "second" /\ query[k].kind = "content"
  /\ \E items \in Ask(Zero, AllBits, IndexLimit) :
       Show(k, Results(k, {i \in items : i.manifest \in matched[k]}))
  /\ UNCHANGED <<hashOf, index, query, matched>>

\* lookupManifestMetadata searches the same list for the manifest.
ManifestLookedUp(k) ==
  /\ pc[k] = "first" /\ query[k].kind = "manifest"
  /\ \E items \in Ask(Zero, AllBits, IndexLimit) :
       IF query[k].manifest \in Found(items)
       THEN pc' = [pc EXCEPT ![k] = "second"] /\ UNCHANGED ui
       ELSE Show(k, Failed(k))
  /\ UNCHANGED <<hashOf, index, query, matched>>

ManifestListed(k) ==
  /\ pc[k] = "second" /\ query[k].kind = "manifest"
  /\ \E items \in Ask(Zero, AllBits, PageLimit) : Show(k, Results(k, items))
  /\ UNCHANGED <<hashOf, index, query, matched>>

\* Fault variant of SearchFails: the error is swallowed.
FailsSilently(k) ==
  /\ k \in Outstanding
  /\ pc' = [pc EXCEPT ![k] = "done"]
  /\ UNCHANGED <<hashOf, index, query, matched, ui>>

\* A request that fails; lookupManifestMetadata turns it into "not found".
SearchFails(k) ==
  /\ k \in Outstanding
  /\ Show(k, Failed(k))
  /\ UNCHANGED <<hashOf, index, query, matched>>

\* The page is loaded anew, and starts the latest search again; the file of a
\* content search is lost.
Restarted ==
  LET started == {k \in Searches : pc[k] # "new"}
      latest == query[Max(started)]
      again == started # {} /\ latest.kind # "content"
  IN /\ pc' = [k \in Searches |-> IF k = 1 /\ started # {}
                                  THEN IF again THEN "first" ELSE "done" ELSE "new"]
     /\ query' = [k \in Searches |-> IF k = 1 /\ started # {} THEN latest
                                     ELSE [kind |-> "phash", hash |-> Zero]]
     /\ matched' = [k \in Searches |-> {}]
     /\ ui' = IF again THEN Loading ELSE Idle

\* The page is gone, and what is awaited sets the state of a hook nobody shows.
Unmounted ==
  /\ pc' = [k \in Searches |-> "new"]
  /\ query' = [k \in Searches |-> [kind |-> "phash", hash |-> Zero]]
  /\ matched' = [k \in Searches |-> {}]
  /\ ui' = Idle

Indexed(m) ==
  /\ m \notin index
  /\ index' = index \cup {m}
  /\ UNCHANGED <<hashOf, searchVars>>

Answered(k) ==
  \/ PhashAnswered(k)
  \/ ContentMatched(k) \/ ContentListed(k)
  \/ ManifestLookedUp(k) \/ ManifestListed(k)
  \/ SearchFails(k)

(***************************************************************************)
(* Properties                                                              *)
(***************************************************************************)
\* The server has hashes of manifests; the page shows a list of some of them.
SearchTypeOK ==
  /\ hashOf \in [Manifests -> Hashes] /\ index \subseteq Manifests
  /\ pc \in [Searches -> {"new", "first", "second", "done"}]
  /\ query \in [Searches -> Queries]
  /\ matched \in [Searches -> SUBSET Manifests]
  /\ ui.status \in {"idle", "loading", "error", "results"}
  /\ \A i \in ui.items : i.manifest \in Manifests /\ i.distance \in Nat
  /\ ui.by \in Searches \cup {0}

Shown(kind) == ui.status = "results" /\ query[ui.by].kind = kind

\* What a search by content or by hash shows is indexed and as near to what was
\* searched for as the threshold promises, also when the index grew, and other
\* searches ended, between its two requests.
ShownIsNear ==
  \A kind \in {"phash", "content"} : Shown(kind) =>
    \A i \in ui.items :
      /\ i.manifest \in index
      /\ Distance(hashOf[i.manifest], query[ui.by].hash) <= Threshold
=============================================================================
