---------------------------- MODULE WebhookIngest ----------------------------
(***************************************************************************)
(* POST /webhook: concurrent requests that index manifests through the     *)
(* shared DuckDB connection.                                               *)
(*                                                                         *)
(* A handler is one in-flight webhook request.  Its steps are the stretches   *)
(* of code between two awaits: each executes one statement and acts on the *)
(* answer, and any other handler may run between two of them               *)
(* (src/routes/webhook.ts, src/services/webhook.service.ts,                *)
(* src/db/index.ts).                                                       *)
(***************************************************************************)
EXTENDS WebhookRules, DuckDbConnection, Naturals, Sequences

CONSTANTS
  Handlers,        \* requests that can be in flight together
  Deliveries,      \* requests the gateway may send, any number of times
  MaxDeliveries,   \* bound on the number of requests
  MaxCrashes       \* bound on the number of crashes of the process

Delivery == [batch : BOOLEAN, payloads : Seq(Payload)]

ASSUME IngestAssumption ==
  /\ Deliveries \subseteq Delivery
  /\ \A d \in Deliveries : ~d.batch => Len(d.payloads) = 1
  /\ MaxDeliveries \in Nat
  /\ MaxCrashes \in Nat

VARIABLES
  pc,          \* where each handler is: "idle", "payload" between two
               \* payloads, else the statement it awaits
  batch,       \* was the request an array?
  todo,        \* payloads still to process, the current one first
  inserted,    \* what insertManifestArtifactIfAbsent answered
  results,     \* results of the payloads already processed
  reply,       \* the HTTP answer to the handler's last request
  deliveries,  \* number of requests so far
  crashes      \* number of crashes so far

handlerVars == <<pc, batch, todo, inserted, results, reply>>
vars == <<disk, view, tx, pc, batch, todo, inserted, results, reply,
          deliveries, crashes>>

Action == {"indexed", "skipped", "error"}
Result == [payload : Payload, action : Action, known : BOOLEAN]
Reply == [status : {200, 400}, success : BOOLEAN]
Statement == {"begin", "select", "insert", "delete", "bind", "commit",
              "rollback"}
Contents == [manifests : SUBSET Row, softBindings : SUBSET Binding]

Empty == [manifests |-> {}, softBindings |-> {}]

Init ==
  /\ disk = Empty /\ view = Empty /\ tx = "none"
  /\ pc = [h \in Handlers |-> "idle"]
  /\ batch = [h \in Handlers |-> FALSE]
  /\ todo = [h \in Handlers |-> <<>>]
  /\ inserted = [h \in Handlers |-> FALSE]
  /\ results = [h \in Handlers |-> <<>>]
  /\ reply = [h \in Handlers |-> None]
  /\ deliveries = 0 /\ crashes = 0

Current(h) == Head(todo[h])
CurrentRow(h) == RowOf(Current(h))

(***************************************************************************)
(* Requests                                                                *)
(***************************************************************************)
\* The gateway sends d: new, again, or out of order.
Deliver(h, d) ==
  /\ pc[h] = "idle"
  /\ deliveries < MaxDeliveries
  /\ deliveries' = deliveries + 1
  /\ pc' = [pc EXCEPT ![h] = "payload"]
  /\ batch' = [batch EXCEPT ![h] = d.batch]
  /\ todo' = [todo EXCEPT ![h] = d.payloads]
  /\ inserted' = [inserted EXCEPT ![h] = FALSE]
  /\ results' = [results EXCEPT ![h] = <<>>]
  /\ reply' = [reply EXCEPT ![h] = None]
  /\ UNCHANGED <<connVars, crashes>>

Answer(h, status, success) ==
  /\ pc' = [pc EXCEPT ![h] = "idle"]
  /\ todo' = [todo EXCEPT ![h] = <<>>]
  /\ reply' = [reply EXCEPT ![h] = [status |-> status, success |-> success]]
  /\ UNCHANGED <<batch, inserted, results>>

NoErrors(h) == \A i \in DOMAIN results[h] : results[h][i].action # "error"

\* Fault variant of Respond: a failed request is never answered.
RespondOnSuccess(h) ==
  /\ pc[h] = "payload"
  /\ todo[h] = <<>>
  /\ NoErrors(h)
  /\ Answer(h, 200, TRUE)
  /\ UNCHANGED <<connVars, deliveries, crashes>>

\* A batch is answered 200 whatever happened, a single payload 400 when it
\* failed.
Respond(h) ==
  /\ pc[h] = "payload"
  /\ todo[h] = <<>>
  /\ Answer(h, IF batch[h] \/ NoErrors(h) THEN 200 ELSE 400, NoErrors(h))
  /\ UNCHANGED <<connVars, deliveries, crashes>>

\* A null payload makes processWebhook throw before its try: the outer catch
\* answers 200, and the rest of a batch is dropped.
Throw(h) ==
  /\ pc[h] = "payload"
  /\ todo[h] # <<>>
  /\ ~Current(h).isObject
  /\ Answer(h, 200, FALSE)
  /\ UNCHANGED <<connVars, deliveries, crashes>>

(***************************************************************************)
(* One payload                                                             *)
(***************************************************************************)
\* processWebhook returns, and a batch goes on with its next payload; known
\* tells "Already indexed" from the other reasons to skip.
Finish(h, action, known) ==
  /\ results' = [results EXCEPT ![h] =
       Append(@, [payload |-> Current(h), action |-> action, known |-> known])]
  /\ todo' = [todo EXCEPT ![h] = Tail(@)]
  /\ pc' = [pc EXCEPT ![h] = "payload"]
  /\ UNCHANGED <<batch, inserted, reply>>

GoTo(h, to) ==
  /\ pc' = [pc EXCEPT ![h] = to]
  /\ UNCHANGED <<batch, todo, inserted, results, reply>>

Classify(h) ==
  /\ pc[h] = "payload"
  /\ todo[h] # <<>>
  /\ Current(h).isObject
  /\ LET verdict == Verdict(Current(h))
     IN IF verdict = "write" THEN GoTo(h, "begin") ELSE Finish(h, verdict, FALSE)
  /\ UNCHANGED <<connVars, deliveries, crashes>>

\* Fault variant of Begin: BEGIN inside the try, so that a refused one rolls
\* back.
BeginInsideTry(h) ==
  /\ pc[h] = "begin"
  /\ \/ BeginDone /\ GoTo(h, "select")
     \/ BeginRefused /\ GoTo(h, "rollback")
  /\ UNCHANGED <<deliveries, crashes>>

\* Fault variant of Begin: a handler joins the transaction that is open.
BeginJoins(h) ==
  /\ pc[h] = "begin"
  /\ BeginDone \/ BeginRefused
  /\ GoTo(h, "select")
  /\ UNCHANGED <<deliveries, crashes>>

\* BEGIN is outside the try of runInTransaction: when it is refused nothing
\* is rolled back.
Begin(h) ==
  /\ pc[h] = "begin"
  /\ \/ BeginDone /\ GoTo(h, "select")
     \/ BeginRefused /\ Finish(h, "error", FALSE)
  /\ UNCHANGED <<deliveries, crashes>>

\* Fault variant of Present: only manifest_id is looked up and unique.
PresentById(h) ==
  \E r \in view.manifests : CurrentRow(h).manifestId = r.manifestId

Present(h) == \E r \in view.manifests : Conflicts(CurrentRow(h), r)

Select(h) ==
  /\ pc[h] = "select"
  /\ \/ /\ ReadDone
        /\ pc' = [pc EXCEPT ![h] = IF Present(h) THEN "commit" ELSE "insert"]
        /\ inserted' = [inserted EXCEPT ![h] = FALSE]
        /\ UNCHANGED <<batch, todo, results, reply>>
     \/ StatementRefused(FALSE) /\ GoTo(h, "rollback")
  /\ UNCHANGED <<deliveries, crashes>>

\* Fault variant of Insert: INSERT OR REPLACE.
InsertOrReplace(h) ==
  /\ pc[h] = "insert"
  /\ \/ /\ WriteDone([view EXCEPT !.manifests =
             {r \in @ : ~Conflicts(CurrentRow(h), r)} \cup {CurrentRow(h)}])
        /\ pc' = [pc EXCEPT ![h] = "delete"]
        /\ inserted' = [inserted EXCEPT ![h] = TRUE]
        /\ UNCHANGED <<batch, todo, results, reply>>
     \/ StatementRefused(FALSE) /\ GoTo(h, "rollback")
  /\ UNCHANGED <<deliveries, crashes>>

\* manifest_id and manifest_tx_id carry unique indexes.
Insert(h) ==
  /\ pc[h] = "insert"
  /\ \/ /\ ~Present(h)
        /\ WriteDone([view EXCEPT !.manifests = @ \cup {CurrentRow(h)}])
        /\ pc' = [pc EXCEPT ![h] = "delete"]
        /\ inserted' = [inserted EXCEPT ![h] = TRUE]
        /\ UNCHANGED <<batch, todo, results, reply>>
     \/ StatementRefused(Present(h)) /\ GoTo(h, "rollback")
  /\ UNCHANGED <<deliveries, crashes>>

\* Fault variant of OfOthers: the DELETE without its WHERE.
OfNobody(bindings, id) == {}

OfOthers(bindings, id) == {b \in bindings : b.manifestId # id}

\* replaceSoftBindings: the old bindings of the manifest go, then the one of
\* the payload is inserted.
Delete(h) ==
  /\ pc[h] = "delete"
  /\ \/ /\ WriteDone([view EXCEPT !.softBindings =
                        OfOthers(@, CurrentRow(h).manifestId)])
        /\ GoTo(h, "bind")
     \/ StatementRefused(FALSE) /\ GoTo(h, "rollback")
  /\ UNCHANGED <<deliveries, crashes>>

Bind(h) ==
  /\ pc[h] = "bind"
  /\ \/ /\ WriteDone([view EXCEPT !.softBindings =
                        @ \cup {BindingOf(CurrentRow(h))}])
        /\ GoTo(h, "commit")
     \/ StatementRefused(FALSE) /\ GoTo(h, "rollback")
  /\ UNCHANGED <<deliveries, crashes>>

Commit(h) ==
  /\ pc[h] = "commit"
  /\ \/ CommitDone /\ IF inserted[h] THEN Finish(h, "indexed", FALSE)
                                     ELSE Finish(h, "skipped", TRUE)
     \/ CommitRefused /\ GoTo(h, "rollback")
  /\ UNCHANGED <<deliveries, crashes>>

\* Fault variant of Undo: the catch of runInTransaction without its ROLLBACK.
UndoForgotten(h) ==
  /\ pc[h] = "rollback"
  /\ Finish(h, "error", FALSE)
  /\ UNCHANGED <<connVars, deliveries, crashes>>

Undo(h) ==
  /\ pc[h] = "rollback"
  /\ Rollback
  /\ Finish(h, "error", FALSE)
  /\ UNCHANGED <<deliveries, crashes>>

(***************************************************************************)
(* Everybody else on the connection, and the process                       *)
(***************************************************************************)
\* A search, a lookup or a resolution of another request sends its SELECT between
\* any two of these statements.  It reads whatever transaction is open, changes
\* nothing, and when it fails it is the transaction of the webhook that pays.
Query ==
  /\ ReadDone \/ StatementRefused(FALSE)
  /\ UNCHANGED <<handlerVars, deliveries, crashes>>

\* The process dies, its requests with it, and is started again.
Crash ==
  /\ crashes < MaxCrashes
  /\ crashes' = crashes + 1
  /\ Reopen
  /\ pc' = [h \in Handlers |-> "idle"]
  /\ batch' = [h \in Handlers |-> FALSE]
  /\ todo' = [h \in Handlers |-> <<>>]
  /\ inserted' = [h \in Handlers |-> FALSE]
  /\ results' = [h \in Handlers |-> <<>>]
  /\ reply' = [h \in Handlers |-> None]
  /\ UNCHANGED deliveries

HandlerStep(h) ==
  \/ Respond(h) \/ Throw(h) \/ Classify(h)
  \/ Begin(h) \/ Select(h) \/ Insert(h) \/ Delete(h) \/ Bind(h)
  \/ Commit(h) \/ Undo(h)

Next ==
  \/ \E h \in Handlers, d \in Deliveries : Deliver(h, d)
  \/ \E h \in Handlers : HandlerStep(h)
  \/ Query
  \/ Crash

\* A statement that was sent is answered and the event loop resumes its
\* handler; nobody has to send a webhook, and nothing has to crash.
Fairness == \A h \in Handlers : WF_vars(HandlerStep(h))

Spec == Init /\ [][Next]_vars
FairSpec == Spec /\ Fairness

(***************************************************************************)
(* Properties                                                              *)
(***************************************************************************)
\* The tables hold rows the rules write, and a handler is idle, between two
\* payloads, or waits for one statement.
TypeOK ==
  /\ disk \in Contents /\ view \in Contents
  /\ tx \in {"none", "open", "aborted"}
  /\ pc \in [Handlers -> {"idle", "payload"} \cup Statement]
  /\ batch \in [Handlers -> BOOLEAN]
  /\ todo \in [Handlers -> Seq(Payload)]
  /\ inserted \in [Handlers -> BOOLEAN]
  /\ results \in [Handlers -> Seq(Result)]
  /\ reply \in [Handlers -> Reply \cup {None}]
  /\ deliveries \in 0..MaxDeliveries
  /\ crashes \in 0..MaxCrashes

InTransaction(h) == pc[h] \in Statement \ {"begin"}

\* The transaction of the shared connection is open exactly while a handler
\* is between its BEGIN and its COMMIT or ROLLBACK, and there is one such
\* handler: no statement of runInTransaction acts on a transaction another
\* handler opened.
TransactionOwned ==
  /\ (tx # "none") <=> \E h \in Handlers : InTransaction(h)
  /\ \A g, h \in Handlers : InTransaction(g) /\ InTransaction(h) => g = h

Unique(rows) == \A r, s \in rows : Conflicts(r, s) => r = s

\* However webhooks race, repeat or fail, two committed manifests share
\* neither their manifest id nor their transaction id.
UniqueManifests == Unique(disk.manifests)

\* A manifest and its soft binding become durable together: after any number
\* of races, failures and crashes the bindings are those of the manifests,
\* no orphans and none missing (insertManifestArtifactWithBindingsIfAbsent).
BindingsComplete ==
  disk.softBindings = {BindingOf(r) : r \in disk.manifests}

\* A search or a resolution on the shared connection that is answered sees everything
\* committed, and beyond it at most the artifact of the one webhook in its transaction:
\* replacing the bindings of one manifest hides none of another.  This says nothing of
\* readers that are refused, which they are while a transaction is aborted.
CommittedVisible ==
  tx # "aborted" =>
    /\ disk.manifests \subseteq view.manifests
    /\ disk.softBindings \subseteq view.softBindings
    /\ view # disk =>
         \E h \in Handlers :
           /\ InTransaction(h)
           /\ view.manifests = disk.manifests \cup {CurrentRow(h)}
           /\ view.softBindings \subseteq disk.softBindings \cup {BindingOf(CurrentRow(h))}

\* A payload reported 'indexed' is durable in that step, its row and its binding both,
\* however many webhooks and readers interfere; the one exception is a transaction that
\* was aborted and whose COMMIT the database nevertheless answers without an error.
IndexedIsStored ==
  [][\A h \in Handlers :
       /\ todo[h] # <<>>
       /\ results'[h] = Append(results[h], [payload |-> Current(h),
                                 action |-> "indexed", known |-> FALSE])
       => \/ tx = "aborted" /\ "rolledBack" \in CommitOfAborted
          \/ /\ CurrentRow(h) \in disk'.manifests
             /\ BindingOf(CurrentRow(h)) \in disk'.softBindings]_vars

\* What runInTransaction assumes of its COMMIT: a payload reported 'indexed' is stored.
\* It does not hold where the COMMIT of an aborted transaction is answered without an
\* error: then the handler whose transaction another one aborted reports what was undone.
ReportedOnlyIfStored ==
  \A h \in Handlers : \A i \in DOMAIN results[h] :
    results[h][i].action = "indexed" =>
      /\ RowOf(results[h][i].payload) \in disk.manifests
      /\ BindingOf(RowOf(results[h][i].payload)) \in disk.softBindings

\* A payload reported 'Already indexed' lost to a record that is committed,
\* never to one that another request was about to roll back.
AlreadyIndexedIsTrue ==
  \A h \in Handlers : \A i \in DOMAIN results[h] :
    results[h][i].known =>
      \E r \in disk.manifests : Conflicts(RowOf(results[h][i].payload), r)

\* Every committed proof locator is complete: the manifest route can fetch it
\* and verify its digest, and redirects nowhere unsafe.
LocatorsServable ==
  \A r \in disk.manifests :
    r.kind = "proof-locator" => r.fetchUrl # None /\ r.digest # None

\* What became durable is what one handler reports, in the step that made it
\* durable: nothing is written on behalf of a payload that is answered
\* 'skipped' or 'error'.
WritesAreReported ==
  [][disk' # disk =>
       \E h \in Handlers :
         /\ todo[h] # <<>>
         /\ results'[h] = Append(results[h], [payload |-> Current(h),
                                   action |-> "indexed", known |-> FALSE])
         /\ disk'.manifests = disk.manifests \cup {CurrentRow(h)}]_vars

\* First-write-wins: a committed manifest is never removed and never changed,
\* whatever later webhooks carry.
FirstWriteWins == [][disk.manifests \subseteq disk'.manifests]_vars

\* Ingestion implements the abstract index: what is committed changes only by
\* inserting an absent artifact together with its binding.
Index == INSTANCE ManifestIndex
           WITH manifests <- disk.manifests, softBindings <- disk.softBindings
ImplementsIndex == Index!IndexSpec

\* Every webhook request is answered (or dies with the process).
EveryRequestAnswered == \A h \in Handlers : (pc[h] # "idle") ~> (pc[h] = "idle")

\* No failure leaves the shared connection inside a transaction, where it
\* would refuse or swallow the work of every later request.
TransactionEnds == (tx # "none") ~> (tx = "none")
=============================================================================
