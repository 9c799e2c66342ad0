------------------------------ MODULE WebClient ------------------------------
(***************************************************************************)
(* The pages of the web client around useSearch: HomePage with its         *)
(* SearchBox, ResultsPage, ManifestPage with ManifestDetail, and the file  *)
(* FileContext carries from one to the other (web/src).  The history lets  *)
(* the user jump from one manifest, or one query, to another without       *)
(* leaving the page; the component then stays, with what it awaits.        *)
(***************************************************************************)
EXTENDS UseSearch, TLC

CONSTANTS
  Visits,         \* bound on the lookups of one ManifestPage, 1..n
  None

ASSUME WebClientAssumption ==
  Visits \subseteq Nat /\ 1 \in Visits /\ None \notin Manifests

VARIABLES
  page,       \* "home", "results" or "manifest"
  file,       \* fileRef of FileContext: the image, by its pHash
  selected,   \* selectedFile of SearchBox
  lookups,    \* the manifest each visit awaits
  detail      \* state of ManifestDetail

homeVars == <<file, selected>>
detailVars == <<lookups, detail>>
vars == <<serverVars, searchVars, page, homeVars, detailVars>>

NoDetail == [id |-> None, data |-> None, missing |-> None, loading |-> FALSE]
NoLookups == [v \in Visits |-> None]

Init ==
  /\ ServerInit /\ HookInit
  /\ page = "home" /\ file = None /\ selected = None
  /\ lookups = NoLookups /\ detail = NoDetail

\* What a page that is left, or loaded anew, forgets.
HomeLeft == selected' = None
DetailLeft == lookups' = NoLookups /\ detail' = NoDetail

(***************************************************************************)
(* HomePage                                                                *)
(***************************************************************************)
Select(f) ==
  /\ page = "home"
  /\ selected' = f
  /\ UNCHANGED <<serverVars, searchVars, page, file, detailVars>>

GoHome ==
  /\ page # "home"
  /\ page' = "home"
  /\ HomeLeft /\ DetailLeft /\ Unmounted
  /\ UNCHANGED <<serverVars, file>>

(***************************************************************************)
(* ResultsPage                                                             *)
(***************************************************************************)
\* The effect of a new page or of a new query on it: a content query needs the
\* file.
Query(k, q) ==
  IF q.kind = "content" /\ file = None THEN StartWithoutFile(k) ELSE Start(k, q)

OpenResults(q) ==
  /\ page # "results"
  /\ page' = "results"
  /\ Query(1, q)
  /\ HomeLeft /\ DetailLeft
  /\ UNCHANGED file

\* Another query on the same page.
Requery(q) ==
  /\ page = "results"
  /\ \E k \in Searches : Query(k, q)
  /\ UNCHANGED <<page, homeVars, detailVars>>

\* handleSearch with the file that is selected.
SubmitFile ==
  /\ page = "home" /\ selected # None
  /\ file' = selected
  /\ page' = "results"
  /\ Start(1, [kind |-> "content", hash |-> selected])
  /\ HomeLeft
  /\ UNCHANGED detailVars

\* The queries a link, an entry of the history or the search box can lead to.
Reachable ==
  {q \in Queries : q.kind = "content" => q.hash = IF file = None THEN Zero ELSE file}

SearchStep ==
  /\ page = "results"
  /\ \E k \in Searches : Answered(k)
  /\ UNCHANGED <<page, homeVars, detailVars>>

(***************************************************************************)
(* ManifestPage                                                            *)
(***************************************************************************)
Awaited == {v \in Visits : lookups[v] # None}

\* fetchManifest: loading is set and the error cleared, the data stays.
Fetch(m, old) ==
  /\ \E v \in Visits \ Awaited : lookups' = [lookups EXCEPT ![v] = m]
  /\ detail' = [old EXCEPT !.id = m, !.loading = TRUE, !.missing = None]

OpenManifest(m) ==
  /\ page # "manifest"
  /\ page' = "manifest"
  /\ Fetch(m, NoDetail)
  /\ HomeLeft /\ Unmounted
  /\ UNCHANGED <<serverVars, file>>

\* The same page for another manifest.
OpenAnother(m) ==
  /\ page = "manifest" /\ m # detail.id
  /\ Fetch(m, detail)
  /\ UNCHANGED <<serverVars, searchVars, page, homeVars>>

Settled(v, d) ==
  /\ lookups' = [lookups EXCEPT ![v] = None]
  /\ detail' = [d EXCEPT !.loading = FALSE]

\* Fault variant of Listed: the threshold of a search is left as it is.
NearZero == Ask(Zero, Threshold, IndexLimit)

\* lookupManifestMetadata looks for the manifest in one list.
Listed == Ask(Zero, AllBits, IndexLimit)

LookedUp(v) ==
  /\ v \in Awaited
  /\ \E items \in Listed :
       Settled(v, IF lookups[v] \in Found(items)
                  THEN [detail EXCEPT !.data = lookups[v]]
                  ELSE [detail EXCEPT !.missing = lookups[v]])
  /\ UNCHANGED <<serverVars, searchVars, page, homeVars>>

\* A request that fails is taken for a list without the manifest.
LookupFails(v) ==
  /\ v \in Awaited
  /\ Settled(v, [detail EXCEPT !.missing = lookups[v]])
  /\ UNCHANGED <<serverVars, searchVars, page, homeVars>>

\* The browser loads the page anew: the file is lost, the server asked again.
Reload ==
  /\ file' = None
  /\ HomeLeft
  /\ \/ page = "home" /\ UNCHANGED <<searchVars, detailVars>>
     \/ page = "results" /\ Restarted /\ UNCHANGED detailVars
     \/ /\ page = "manifest" /\ UNCHANGED searchVars
        /\ lookups' = [NoLookups EXCEPT ![1] = detail.id]
        /\ detail' = [NoDetail EXCEPT !.id = detail.id, !.loading = TRUE]
  /\ UNCHANGED <<serverVars, page>>

ServerIndexes(m) ==
  /\ Indexed(m)
  /\ UNCHANGED <<page, homeVars, detailVars>>

Next ==
  \/ \E f \in Hashes \cup {None} : Select(f)
  \/ GoHome
  \/ \E q \in Reachable : OpenResults(q) \/ Requery(q)
  \/ SubmitFile
  \/ SearchStep
  \/ \E m \in Manifests : OpenManifest(m) \/ OpenAnother(m)
  \/ \E v \in Visits : LookedUp(v) \/ LookupFails(v)
  \/ Reload
  \/ \E m \in Manifests : ServerIndexes(m)

Spec == Init /\ [][Next]_vars

(***************************************************************************)
(* Properties                                                              *)
(***************************************************************************)
\* The file that is carried is a hash; a lookup and its page are about manifests.
TypeOK ==
  /\ SearchTypeOK
  /\ page \in {"home", "results", "manifest"}
  /\ file \in Hashes \cup {None} /\ selected \in Hashes \cup {None}
  /\ lookups \in [Visits -> Manifests \cup {None}]
  /\ detail \in [id : Manifests \cup {None}, data : Manifests \cup {None},
                 missing : Manifests \cup {None}, loading : BOOLEAN]

\* A spinner turns only while an answer is awaited, however many searches, or
\* visits of the page of a manifest, overtake each other: none of them leaves it
\* behind when it ends.
LoadingMeansOutstanding ==
  /\ ui.status = "loading" => Outstanding # {}
  /\ detail.loading => Awaited # {}

\* The page calls a manifest missing only if it was not indexed when the list was
\* made, if the index has outgrown the list, or if the server could not be asked;
\* and it shows none that is not indexed.
MissingIsNotListed ==
  [][\A v \in Visits :
       LookedUp(v) =>
         IF detail'.missing = lookups[v] /\ detail.missing # lookups[v]
         THEN lookups[v] \notin index \/ Cardinality(index) > IndexLimit
         ELSE detail'.data \in index \cup {None}]_vars
=============================================================================
