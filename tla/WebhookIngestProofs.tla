------------------------- MODULE WebhookIngestProofs -------------------------
(***************************************************************************)
(* Theorems about WebhookIngest for every set of handlers, every set of    *)
(* deliveries, every bound and every behaviour of the connection the       *)
(* constants allow; where a theorem needs COMMIT to be dependable it says   *)
(* so.                                                                     *)
(***************************************************************************)
EXTENDS WebhookIngest, SequenceTheorems, TLAPS

(***************************************************************************)
(* Typing.  A handler that awaits a statement works on a payload the rules *)
(* let through; that is what makes its row a Row.                          *)
(***************************************************************************)
Working ==
  \A h \in Handlers : pc[h] \in Statement =>
    todo[h] # <<>> /\ Verdict(Current(h)) = "write"

TypeInv == TypeOK /\ Working

HandlersTyped ==
  /\ pc \in [Handlers -> {"idle", "payload"} \cup Statement]
  /\ batch \in [Handlers -> BOOLEAN]
  /\ todo \in [Handlers -> Seq(Payload)]
  /\ inserted \in [Handlers -> BOOLEAN]
  /\ results \in [Handlers -> Seq(Result)]
  /\ reply \in [Handlers -> Reply \cup {None}]

\* processWebhook hands the database only records that fit its columns.
LEMMA RowTyped ==
  ASSUME NEW p \in Payload, Verdict(p) = "write"
  PROVE  RowOf(p) \in Row /\ BindingOf(RowOf(p)) \in Binding
<1>1. /\ p.txId \in TxIds /\ p.manifestId \in ManifestIds
      /\ ArtifactKind(p) \in Kinds /\ p.value \in EightByteValues
      /\ p.storeHash \in Digests \cup {None}
  BY DEF Verdict, NotIndexable, ArtifactKind, Kinds, Payload
<1>2. \A u : SanitizeUrl(u) \in SafeUrls \cup {None}
  BY DEF SanitizeUrl
<1>3. RowOf(p) \in Row
  BY <1>1, <1>2 DEF RowOf, Row
<1>4. BindingOf(RowOf(p)) \in Binding
  BY <1>1, RulesAssumption DEF RowOf, BindingOf, Binding
<1> QED BY <1>3, <1>4

\* While a handler works on a payload there is one, and its row and binding are of the tables.
LEMMA CurrentTyped ==
  ASSUME TypeInv, NEW h \in Handlers, pc[h] \in Statement
  PROVE  /\ Current(h) \in Payload
         /\ todo[h] # <<>>
         /\ CurrentRow(h) \in Row
         /\ BindingOf(CurrentRow(h)) \in Binding
<1>1. todo[h] \in Seq(Payload) /\ todo[h] # <<>> /\ Verdict(Current(h)) = "write"
  BY DEF TypeInv, TypeOK, Working
<1>2. Current(h) \in Payload
  BY <1>1, HeadTailProperties DEF Current
<1> QED BY <1>1, <1>2, RowTyped DEF CurrentRow

\* Going on to a statement of the current payload keeps the types of the handlers,
LEMMA GoToTyped ==
  ASSUME TypeInv, NEW h \in Handlers, NEW to \in Statement,
         GoTo(h, to), todo[h] # <<>>, Verdict(Current(h)) = "write"
  PROVE  HandlersTyped' /\ Working'
BY DEF TypeInv, TypeOK, Working, HandlersTyped, GoTo, Current

\* so does finishing a payload,
LEMMA FinishTyped ==
  ASSUME TypeInv, NEW h \in Handlers, NEW action \in Action,
         NEW known \in BOOLEAN, Finish(h, action, known), todo[h] # <<>>
  PROVE  HandlersTyped' /\ Working'
<1> DEFINE r == [payload |-> Current(h), action |-> action, known |-> known]
<1>1. todo[h] \in Seq(Payload) /\ results[h] \in Seq(Result)
  BY DEF TypeInv, TypeOK
<1>2. Current(h) \in Payload /\ Tail(todo[h]) \in Seq(Payload)
  BY <1>1, HeadTailProperties DEF Current
<1>3. Append(results[h], r) \in Seq(Result)
  BY <1>1, <1>2, AppendProperties DEF Result
<1>4. HandlersTyped'
  BY <1>2, <1>3 DEF TypeInv, TypeOK, HandlersTyped, Finish
<1>5. Working'
  BY DEF TypeInv, TypeOK, Working, Finish, Current, Statement
<1> QED BY <1>4, <1>5

\* and so does answering the request.
LEMMA AnswerTyped ==
  ASSUME TypeInv, NEW h \in Handlers, NEW status \in {200, 400},
         NEW success \in BOOLEAN, Answer(h, status, success)
  PROVE  HandlersTyped' /\ Working'
<1>1. <<>> \in Seq(Payload)
  BY EmptySeq
<1> QED BY <1>1 DEF TypeInv, TypeOK, Working, HandlersTyped, Answer, Reply,
                    Statement, Current

\* The connection never holds anything but rows and bindings.
ConnTyped ==
  /\ disk \in Contents /\ view \in Contents
  /\ tx \in {"none", "open", "aborted"}

\* No step of the connection leaves the types.
LEMMA ConnStepTyped ==
  ASSUME ConnTyped,
         \/ UNCHANGED connVars
         \/ BeginDone \/ BeginRefused \/ ReadDone
         \/ \E new \in Contents : WriteDone(new)
         \/ \E violation \in BOOLEAN : StatementRefused(violation)
         \/ CommitDone \/ CommitRefused \/ Rollback \/ Reopen
  PROVE  ConnTyped'
<1> USE DEF ConnTyped, connVars
<1>1. CASE UNCHANGED connVars \/ BeginDone \/ ReadDone
  BY <1>1 DEF BeginDone, ReadDone
<1>2. CASE BeginRefused
  BY <1>2, ConnectionAssumption DEF BeginRefused
<1>3. CASE \E new \in Contents : WriteDone(new)
  BY <1>3 DEF WriteDone
<1>4. CASE \E violation \in BOOLEAN : StatementRefused(violation)
  BY <1>4 DEF StatementRefused
<1>5. CASE CommitDone \/ CommitRefused
  BY <1>5 DEF CommitDone, CommitRefused
<1>6. CASE Rollback \/ Reopen
  BY <1>6 DEF Rollback, Reopen
<1> QED BY <1>1, <1>2, <1>3, <1>4, <1>5, <1>6

\* The types hold when the server is up
LEMMA TypeInit == Init => TypeInv
<1> SUFFICES ASSUME Init PROVE TypeInv
  OBVIOUS
<1>1. <<>> \in Seq(Payload) /\ <<>> \in Seq(Result)
  BY EmptySeq
<1>2. Empty \in Contents
  BY DEF Empty, Contents
<1>3. 0 \in 0..MaxDeliveries /\ 0 \in 0..MaxCrashes
  BY IngestAssumption
<1>4. TypeOK
  BY <1>1, <1>2, <1>3 DEF Init, TypeOK
<1>5. Working
  BY DEF Init, Working, Statement
<1> QED BY <1>4, <1>5 DEF TypeInv

\* and after every step.
LEMMA TypeStep == TypeInv /\ [Next]_vars => TypeInv'
<1> SUFFICES ASSUME TypeInv, [Next]_vars PROVE TypeInv'
  OBVIOUS
<1> DEFINE Counts == deliveries \in 0..MaxDeliveries /\ crashes \in 0..MaxCrashes
<1>0. ConnTyped /\ HandlersTyped /\ Counts
  BY DEF TypeInv, TypeOK, ConnTyped, HandlersTyped
<1>a. SUFFICES ConnTyped' /\ HandlersTyped' /\ Working' /\ Counts'
  BY DEF TypeInv, TypeOK, ConnTyped, HandlersTyped
<1>1. ASSUME NEW h \in Handlers, NEW d \in Deliveries, Deliver(h, d)
      PROVE  ConnTyped' /\ HandlersTyped' /\ Working' /\ Counts'
  <2>1. d.batch \in BOOLEAN /\ d.payloads \in Seq(Payload)
    BY IngestAssumption DEF Delivery
  <2>2. <<>> \in Seq(Result)
    BY EmptySeq
  <2>3. ConnTyped'
    BY <1>0, <1>1 DEF Deliver, connVars, ConnTyped
  <2>4. HandlersTyped'
    BY <1>0, <1>1, <2>1, <2>2 DEF Deliver, HandlersTyped
  <2>5. Working'
    BY <1>0, <1>1 DEF Deliver, HandlersTyped, TypeInv, Working, Statement, Current
  <2>6. Counts'
    BY <1>0, <1>1, IngestAssumption DEF Deliver
  <2> QED BY <2>3, <2>4, <2>5, <2>6
<1>2. ASSUME NEW h \in Handlers, HandlerStep(h)
      PROVE  ConnTyped' /\ HandlersTyped' /\ Working' /\ Counts'
  <2> USE <1>2
  <2>1. CASE Respond(h)
    <3>1. ConnTyped' /\ Counts'
      BY <1>0, <2>1 DEF Respond, connVars, ConnTyped
    <3>2. NoErrors(h) \in BOOLEAN
      BY DEF NoErrors
    <3> QED BY <2>1, <3>1, <3>2, AnswerTyped DEF Respond
  <2>2. CASE Throw(h)
    <3>1. ConnTyped' /\ Counts'
      BY <1>0, <2>2 DEF Throw, connVars, ConnTyped
    <3> QED BY <2>2, <3>1, AnswerTyped, ZenonT(60) DEF Throw
  <2>3. CASE Classify(h)
    <3>1. ConnTyped' /\ Counts'
      BY <1>0, <2>3 DEF Classify, connVars, ConnTyped
    <3>2. CASE Verdict(Current(h)) = "write"
      BY <2>3, <3>1, <3>2, GoToTyped DEF Classify, Statement
    <3>3. CASE Verdict(Current(h)) # "write"
      <4>1. Verdict(Current(h)) \in Action
        BY <3>3 DEF Verdict, Action
      <4> QED BY <2>3, <3>1, <3>3, <4>1, FinishTyped DEF Classify
    <3> QED BY <3>2, <3>3
  <2>4. CASE Begin(h)
    <3>1. Counts' /\ pc[h] \in Statement
      BY <1>0, <2>4 DEF Begin, Statement
    <3>2. ConnTyped'
      BY <1>0, <2>4, ConnStepTyped DEF Begin
    <3>3. todo[h] # <<>> /\ Verdict(Current(h)) = "write"
      BY <3>1 DEF TypeInv, Working
    <3>4. CASE GoTo(h, "select")
      BY <3>1, <3>2, <3>3, <3>4, GoToTyped DEF Statement
    <3>5. CASE Finish(h, "error", FALSE)
      BY <3>1, <3>2, <3>3, <3>5, FinishTyped DEF Action
    <3> QED BY <2>4, <3>4, <3>5 DEF Begin
  <2>5. CASE Select(h)
    <3>1. Counts' /\ pc[h] \in Statement
      BY <1>0, <2>5 DEF Select, Statement
    <3>2. ConnTyped'
      BY <1>0, <2>5, ConnStepTyped DEF Select
    <3>3. todo[h] # <<>> /\ Verdict(Current(h)) = "write"
      BY <3>1 DEF TypeInv, Working
    <3>4. CASE GoTo(h, "rollback")
      BY <3>1, <3>2, <3>3, <3>4, GoToTyped DEF Statement
    <3>5. CASE /\ pc' = [pc EXCEPT ![h] = IF Present(h) THEN "commit" ELSE "insert"]
               /\ inserted' = [inserted EXCEPT ![h] = FALSE]
               /\ UNCHANGED <<batch, todo, results, reply>>
      <4>1. HandlersTyped'
        BY <1>0, <3>5 DEF HandlersTyped, Statement
      <4>2. Working'
        BY <1>0, <3>3, <3>5 DEF HandlersTyped, Working, TypeInv, Current
      <4> QED BY <3>1, <3>2, <4>1, <4>2
    <3> QED BY <2>5, <3>4, <3>5 DEF Select
  <2>6. CASE Insert(h)
    <3>1. Counts' /\ pc[h] \in Statement
      BY <1>0, <2>6 DEF Insert, Statement
    <3>2. ConnTyped'
      <4>1. CurrentRow(h) \in Row
        BY <3>1, CurrentTyped
      <4>2. [view EXCEPT !.manifests = @ \cup {CurrentRow(h)}] \in Contents
        BY <1>0, <4>1 DEF ConnTyped, Contents
      <4>3. Present(h) \in BOOLEAN
        BY DEF Present
      <4> QED BY <1>0, <2>6, <4>2, <4>3, ConnStepTyped DEF Insert
    <3>3. todo[h] # <<>> /\ Verdict(Current(h)) = "write"
      BY <3>1 DEF TypeInv, Working
    <3>4. CASE GoTo(h, "rollback")
      BY <3>1, <3>2, <3>3, <3>4, GoToTyped DEF Statement
    <3>5. CASE /\ pc' = [pc EXCEPT ![h] = "delete"]
               /\ inserted' = [inserted EXCEPT ![h] = TRUE]
               /\ UNCHANGED <<batch, todo, results, reply>>
      <4>1. HandlersTyped'
        BY <1>0, <3>5 DEF HandlersTyped, Statement
      <4>2. Working'
        BY <1>0, <3>3, <3>5 DEF HandlersTyped, Working, TypeInv, Current
      <4> QED BY <3>1, <3>2, <4>1, <4>2
    <3> QED BY <2>6, <3>4, <3>5 DEF Insert
  <2>7. CASE Delete(h) \/ Bind(h)
    <3>1. Counts' /\ pc[h] \in Statement
      BY <1>0, <2>7 DEF Delete, Bind, Statement
    <3>2. ConnTyped'
      <4>1. BindingOf(CurrentRow(h)) \in Binding
        BY <3>1, CurrentTyped
      <4>2. [view EXCEPT !.softBindings = @ \cup {BindingOf(CurrentRow(h))}]
              \in Contents
        BY <1>0, <4>1 DEF ConnTyped, Contents
      <4>3. [view EXCEPT !.softBindings = OfOthers(@, CurrentRow(h).manifestId)]
              \in Contents
        BY <1>0 DEF ConnTyped, Contents, OfOthers
      <4> QED BY <1>0, <2>7, <4>2, <4>3, ConnStepTyped DEF Delete, Bind
    <3>3. todo[h] # <<>> /\ Verdict(Current(h)) = "write"
      BY <3>1 DEF TypeInv, Working
    <3>4. GoTo(h, "rollback") \/ GoTo(h, "bind") \/ GoTo(h, "commit")
      BY <2>7 DEF Delete, Bind
    <3> QED BY <3>1, <3>2, <3>3, <3>4, GoToTyped DEF Statement
  <2>8. CASE Commit(h) \/ Undo(h)
    <3>1. Counts' /\ pc[h] \in Statement
      BY <1>0, <2>8 DEF Commit, Undo, Statement
    <3>2. ConnTyped'
      BY <1>0, <2>8, ConnStepTyped DEF Commit, Undo
    <3>3. todo[h] # <<>> /\ Verdict(Current(h)) = "write"
      BY <3>1 DEF TypeInv, Working
    <3>4. \/ GoTo(h, "rollback")
          \/ Finish(h, "error", FALSE)
          \/ Finish(h, "indexed", FALSE)
          \/ Finish(h, "skipped", TRUE)
      BY <2>8 DEF Commit, Undo
    <3> QED BY <3>1, <3>2, <3>3, <3>4, GoToTyped, FinishTyped DEF Statement, Action
  <2> QED BY <2>1, <2>2, <2>3, <2>4, <2>5, <2>6, <2>7, <2>8 DEF HandlerStep
<1>3. ASSUME Crash
      PROVE  ConnTyped' /\ HandlersTyped' /\ Working' /\ Counts'
  <2>1. <<>> \in Seq(Payload) /\ <<>> \in Seq(Result)
    BY EmptySeq
  <2>2. ConnTyped'
    BY <1>0, <1>3, ConnStepTyped DEF Crash
  <2>3. HandlersTyped'
    BY <1>3, <2>1 DEF Crash, HandlersTyped
  <2>4. Working' /\ Counts'
    BY <1>0, <1>3, IngestAssumption DEF Crash, Working, Statement
  <2> QED BY <2>2, <2>3, <2>4
<1>4. CASE UNCHANGED vars
  BY <1>0, <1>4 DEF vars, TypeInv, ConnTyped, HandlersTyped, Working, Current
<1>5. CASE Query
  <2>1. ConnTyped'
    BY <1>0, <1>5, ConnStepTyped DEF Query
  <2> QED BY <1>0, <1>5, <2>1
          DEF Query, handlerVars, TypeInv, HandlersTyped, Working, Current
<1> QED BY <1>1, <1>2, <1>3, <1>4, <1>5 DEF Next

\* Type correctness: the state keeps its types, in particular the database
\* holds only well-formed rows, however many requests run.
THEOREM TypeCorrect == Spec => []TypeOK
<1>1. Spec => []TypeInv
  BY TypeInit, TypeStep, PTL DEF Spec
<1>2. TypeInv => TypeOK
  BY DEF TypeInv
<1> QED BY <1>1, <1>2, PTL

(***************************************************************************)
(* What each write statement does to the two tables.                       *)
(***************************************************************************)
\* INSERT adds the row, to what is committed too if no transaction is open.
LEMMA InsertEffect ==
  ASSUME TypeInv, NEW h \in Handlers,
         WriteDone([view EXCEPT !.manifests = @ \cup {CurrentRow(h)}])
  PROVE  /\ view'.manifests = view.manifests \cup {CurrentRow(h)}
         /\ view'.softBindings = view.softBindings
         /\ disk' = IF tx = "none" THEN view' ELSE disk
         /\ tx' = tx /\ tx # "aborted"
BY DEF TypeInv, TypeOK, Contents, WriteDone

\* DELETE keeps the bindings of the other manifests.
LEMMA DeleteEffect ==
  ASSUME TypeInv, NEW h \in Handlers,
         WriteDone([view EXCEPT !.softBindings =
                      OfOthers(@, CurrentRow(h).manifestId)])
  PROVE  /\ view'.manifests = view.manifests
         /\ view'.softBindings =
              OfOthers(view.softBindings, CurrentRow(h).manifestId)
         /\ disk' = IF tx = "none" THEN view' ELSE disk
         /\ tx' = tx /\ tx # "aborted"
BY DEF TypeInv, TypeOK, Contents, WriteDone

\* The INSERT of a binding adds it.
LEMMA BindEffect ==
  ASSUME TypeInv, NEW h \in Handlers,
         WriteDone([view EXCEPT !.softBindings =
                      @ \cup {BindingOf(CurrentRow(h))}])
  PROVE  /\ view'.manifests = view.manifests
         /\ view'.softBindings = view.softBindings \cup {BindingOf(CurrentRow(h))}
         /\ disk' = IF tx = "none" THEN view' ELSE disk
         /\ tx' = tx /\ tx # "aborted"
BY DEF TypeInv, TypeOK, Contents, WriteDone

(***************************************************************************)
(* What holds whatever the connection does, even when a failed COMMIT lets *)
(* a later ROLLBACK hit another handler's transaction.                     *)
(***************************************************************************)
RowsInv ==
  /\ Unique(disk.manifests)
  /\ Unique(view.manifests)
  /\ disk.manifests \subseteq view.manifests

\* No step makes an id ambiguous or takes a committed row away.
LEMMA RowsStep ==
  TypeInv /\ RowsInv /\ [Next]_vars =>
    RowsInv' /\ disk.manifests \subseteq disk'.manifests
<1> SUFFICES ASSUME TypeInv, RowsInv, [Next]_vars
             PROVE  RowsInv' /\ disk.manifests \subseteq disk'.manifests
  OBVIOUS
<1> DEFINE Goal == RowsInv' /\ disk.manifests \subseteq disk'.manifests
<1>1. ASSUME disk' = disk, view' = view
      PROVE  Goal
  BY <1>1 DEF RowsInv, Unique
<1>2. ASSUME disk' = disk, view' = disk
      PROVE  Goal
  BY <1>2 DEF RowsInv, Unique
<1>3. ASSUME CommitDone \/ CommitRefused \/ Rollback \/ Reopen
      PROVE  Goal
  BY <1>1, <1>2, <1>3
     DEF CommitDone, CommitRefused, Rollback, Reopen, RowsInv, Unique, connVars
<1>4. ASSUME NEW h \in Handlers, Insert(h)
      PROVE  Goal
  <2>1. CASE /\ ~Present(h)
             /\ WriteDone([view EXCEPT !.manifests = @ \cup {CurrentRow(h)}])
    <3>1. /\ view'.manifests = view.manifests \cup {CurrentRow(h)}
          /\ disk' = IF tx = "none" THEN view' ELSE disk
      BY <2>1, InsertEffect
    <3>2. Unique(view'.manifests)
      BY <2>1, <3>1 DEF RowsInv, Unique, Present, Conflicts
    <3>3. disk'.manifests = view'.manifests \/ disk'.manifests = disk.manifests
      BY <3>1
    <3> QED BY <3>1, <3>2, <3>3 DEF RowsInv, Unique
  <2>2. CASE StatementRefused(Present(h))
    BY <1>1, <2>2 DEF StatementRefused
  <2> QED BY <1>4, <2>1, <2>2 DEF Insert
<1>5. ASSUME NEW h \in Handlers, Delete(h) \/ Bind(h)
      PROVE  Goal
  <2>1. CASE StatementRefused(FALSE)
    BY <1>1, <2>1 DEF StatementRefused
  <2>2. CASE ~StatementRefused(FALSE)
    <3>1. /\ view'.manifests = view.manifests
          /\ disk' = IF tx = "none" THEN view' ELSE disk
      BY <1>5, <2>2, DeleteEffect, BindEffect DEF Delete, Bind
    <3> QED BY <3>1 DEF RowsInv, Unique
  <2> QED BY <2>1, <2>2
<1>6. ASSUME NEW h \in Handlers, HandlerStep(h)
      PROVE  Goal
  <2>1. CASE Respond(h) \/ Throw(h) \/ Classify(h)
    BY <1>1, <2>1 DEF Respond, Throw, Classify, connVars
  <2>2. CASE Begin(h) \/ Select(h)
    BY <1>1, <2>2 DEF Begin, Select, BeginDone, BeginRefused, ReadDone,
                      StatementRefused, connVars
  <2>3. CASE Commit(h) \/ Undo(h)
    BY <1>3, <2>3 DEF Commit, Undo
  <2> QED BY <1>4, <1>5, <1>6, <2>1, <2>2, <2>3 DEF HandlerStep
<1>7. ASSUME NEW h \in Handlers, NEW d \in Deliveries, Deliver(h, d)
      PROVE  Goal
  BY <1>1, <1>7 DEF Deliver, connVars
<1>8. CASE Crash
  BY <1>3, <1>8 DEF Crash
<1>9. CASE Query
  BY <1>1, <1>9 DEF Query, ReadDone, StatementRefused, connVars
<1>10. CASE UNCHANGED vars
  BY <1>1, <1>10 DEF vars
<1> QED BY <1>6, <1>7, <1>8, <1>9, <1>10 DEF Next

\* So no sequence of steps does.
LEMMA RowsCorrect == Spec => [](TypeInv /\ RowsInv)
<1>1. Init => TypeInv /\ RowsInv
  BY TypeInit DEF Init, RowsInv, Unique, Empty
<1>2. TypeInv /\ RowsInv /\ [Next]_vars => TypeInv' /\ RowsInv'
  BY TypeStep, RowsStep
<1> QED BY <1>1, <1>2, PTL DEF Spec

\* No two committed manifests share their manifest id or transaction id, even
\* if COMMIT fails.
THEOREM UniqueManifestsHolds == Spec => []UniqueManifests
<1>1. RowsInv => UniqueManifests
  BY DEF RowsInv, UniqueManifests
<1> QED BY <1>1, RowsCorrect, PTL

\* No step removes or changes a committed manifest, even if COMMIT fails.
THEOREM FirstWriteWinsHolds == Spec => FirstWriteWins
<1>1. TypeInv /\ RowsInv /\ [Next]_vars =>
        [disk.manifests \subseteq disk'.manifests]_vars
  BY RowsStep
<1> QED BY <1>1, RowsCorrect, PTL DEF Spec, FirstWriteWins

(***************************************************************************)
(* Atomicity.  When COMMIT of a good transaction succeeds, a handler is    *)
(* between its BEGIN and its COMMIT or ROLLBACK exactly while the          *)
(* connection is in a transaction, so the uncommitted part of the view is  *)
(* the work of that handler and Stage says how far it has come.  The       *)
(* properties are not inductive without Stage: COMMIT makes the view        *)
(* durable, and only Stage knows what the view then holds.                 *)
(***************************************************************************)
Absent(r) == \A s \in disk.manifests : ~Conflicts(r, s)

Stored(r) ==
  /\ view.manifests = disk.manifests \cup {r}
  /\ view.softBindings = disk.softBindings \cup {BindingOf(r)}

StoredWithoutBinding(r) ==
  /\ view.manifests = disk.manifests \cup {r}
  /\ view.softBindings = disk.softBindings

Stage(h) ==
  /\ pc[h] = "select" => view = disk
  /\ pc[h] = "insert" => view = disk /\ Absent(CurrentRow(h))
  /\ pc[h] \in {"delete", "bind"} =>
       Absent(CurrentRow(h)) /\ StoredWithoutBinding(CurrentRow(h))
  /\ pc[h] = "commit" =>
       IF inserted[h] THEN Absent(CurrentRow(h)) /\ Stored(CurrentRow(h))
                      ELSE view = disk
  /\ pc[h] # "rollback"

\* The flag a handler will report by: false only if the SELECT found a row.
KnownPresent ==
  \A h \in Handlers :
    /\ pc[h] \in {"delete", "bind"} => inserted[h]
    /\ pc[h] = "commit" /\ ~inserted[h] => ~Absent(CurrentRow(h))

Servable(rows) ==
  \A r \in rows : r.kind = "proof-locator" => r.fetchUrl # None /\ r.digest # None

AtomicInv ==
  /\ TransactionOwned
  /\ tx = "none" => view = disk
  /\ tx = "open" => \A h \in Handlers : InTransaction(h) => Stage(h)
  /\ KnownPresent
  /\ BindingsComplete
  /\ Servable(view.manifests) /\ LocatorsServable

\* A locator the rules let through can be fetched and verified.
LEMMA WrittenServable ==
  ASSUME NEW p \in Payload, Verdict(p) = "write"
  PROVE  Servable({RowOf(p)})
BY DEF Verdict, NotIndexable, UnsafeLocator, IncompleteLocator, Servable, RowOf

\* No transaction is open when the server is up.
LEMMA AtomicInit == Init => AtomicInv
BY DEF Init, AtomicInv, TransactionOwned, InTransaction, Statement, KnownPresent,
       BindingsComplete, Servable, LocatorsServable, Empty

\* What a handler's step leaves of the other handlers.
Alone(h) ==
  \A g \in Handlers \ {h} : /\ pc'[g] = pc[g] /\ todo'[g] = todo[g]
                            /\ inserted'[g] = inserted[g]

\* A step of a handler outside any transaction: it leaves the database alone
\* and at most aborts the transaction of another.
LEMMA OutsideStep ==
  ASSUME TypeInv, AtomicInv, UNCHANGED <<disk, view>>,
         tx' = tx \/ (tx = "open" /\ tx' = "aborted"),
         NEW h \in Handlers,
         ~InTransaction(h), ~InTransaction(h)', Alone(h)
  PROVE  AtomicInv'
<1>1. \A g \in Handlers : InTransaction(g)' =>
        /\ InTransaction(g) /\ CurrentRow(g)' = CurrentRow(g)
        /\ pc'[g] = pc[g] /\ inserted'[g] = inserted[g]
  BY DEF InTransaction, CurrentRow, Current, Alone
<1>2. \A g \in Handlers : InTransaction(g) => InTransaction(g)'
  BY DEF InTransaction, Alone
<1>3. TransactionOwned'
  BY <1>1, <1>2 DEF AtomicInv, TransactionOwned
<1>4. \A g \in Handlers : InTransaction(g)' /\ Stage(g) => Stage(g)'
  BY <1>1 DEF Stage, Absent, Stored, StoredWithoutBinding
<1>5. KnownPresent'
  BY <1>1 DEF AtomicInv, KnownPresent, Absent, InTransaction, Statement
<1> QED BY <1>1, <1>3, <1>4, <1>5
        DEF AtomicInv, BindingsComplete, LocatorsServable,
            Servable

\* A step of one handler leaves every other handler where it is.
LEMMA HandlerStepsAlone ==
  ASSUME TypeInv, NEW h \in Handlers
  PROVE  /\ \A to : GoTo(h, to) => Alone(h) /\ pc'[h] = to /\ todo'[h] = todo[h]
                                   /\ inserted'[h] = inserted[h]
         /\ \A action, known : Finish(h, action, known) =>
                                 Alone(h) /\ pc'[h] = "payload"
         /\ \A status, success : Answer(h, status, success) =>
                                   Alone(h) /\ pc'[h] = "idle"
BY DEF TypeInv, TypeOK, GoTo, Finish, Answer, Alone

\* BEGIN opens the transaction of the handler that holds the lock.
LEMMA BeginAtomic ==
  ASSUME TypeInv, AtomicInv, NEW h \in Handlers, Begin(h)
  PROVE  AtomicInv'
<1>1. CASE BeginRefused /\ Finish(h, "error", FALSE)
  <2>1. ~InTransaction(h) /\ ~InTransaction(h)' /\ Alone(h)
    BY <1>1, HandlerStepsAlone DEF Begin, InTransaction, Statement
  <2>2. tx' = tx \/ (tx = "open" /\ tx' = "aborted")
    BY <1>1, ConnectionAssumption DEF BeginRefused
  <2>3. UNCHANGED <<disk, view>>
    BY <1>1 DEF BeginRefused
  <2> QED BY <2>1, <2>2, <2>3, OutsideStep
<1>2. CASE BeginDone /\ GoTo(h, "select")
  <2>1. /\ Alone(h) /\ pc'[h] = "select" /\ tx = "none" /\ tx' = "open"
        /\ disk' = disk /\ view' = view
    BY <1>2, HandlerStepsAlone DEF BeginDone
  <2>2. \A g \in Handlers : ~InTransaction(g)
    BY <2>1 DEF AtomicInv, TransactionOwned
  <2>3. \A g \in Handlers : InTransaction(g)' <=> g = h
    BY <2>1, <2>2 DEF InTransaction, Alone, Statement
  <2>4. TransactionOwned'
    BY <2>1, <2>3 DEF TransactionOwned
  <2>5. view' = disk' /\ Stage(h)'
    BY <2>1 DEF AtomicInv, Stage
  <2>6. KnownPresent'
    BY <2>1, <2>3 DEF KnownPresent, InTransaction, Statement
  <2> QED BY <2>1, <2>3, <2>4, <2>5, <2>6
          DEF AtomicInv, BindingsComplete, LocatorsServable,
              Servable
<1> QED BY <1>1, <1>2 DEF Begin

\* A step that keeps a handler in its transaction.
LEMMA InsideStep ==
  ASSUME TypeInv, AtomicInv, NEW h \in Handlers, InTransaction(h), Alone(h),
         InTransaction(h)', disk' = disk, tx' # "none",
         tx' = "open" => Stage(h)',
         pc'[h] \in {"delete", "bind"} => inserted'[h],
         pc'[h] = "commit" /\ ~inserted'[h] => ~Absent(CurrentRow(h))',
         Servable(view.manifests)'
  PROVE  AtomicInv'
<1>1. \A g \in Handlers : InTransaction(g) <=> g = h
  BY DEF AtomicInv, TransactionOwned
<1>2. \A g \in Handlers : InTransaction(g)' <=> g = h
  BY <1>1 DEF InTransaction, Alone
<1>3. TransactionOwned'
  BY <1>2 DEF TransactionOwned
<1>4. KnownPresent'
  BY <1>2 DEF KnownPresent, InTransaction, Statement
<1> QED BY <1>2, <1>3, <1>4 DEF AtomicInv, BindingsComplete, LocatorsServable, Servable

\* A statement that fails aborts the transaction and sends its handler to the
\* ROLLBACK.
LEMMA RefusedAtomic ==
  ASSUME TypeInv, AtomicInv, NEW h \in Handlers, InTransaction(h),
         NEW violation \in BOOLEAN, StatementRefused(violation),
         GoTo(h, "rollback")
  PROVE  AtomicInv'
<1>1. tx # "none"
  BY DEF AtomicInv, TransactionOwned
<1>2. tx' = "aborted" /\ disk' = disk /\ view' = view
  BY <1>1 DEF StatementRefused
<1>3. Alone(h) /\ pc'[h] = "rollback"
  BY HandlerStepsAlone
<1>4. InTransaction(h)'
  BY <1>3 DEF InTransaction, Statement
<1>5. Servable(view.manifests)'
  BY <1>2 DEF AtomicInv, Servable
<1> QED BY <1>2, <1>3, <1>4, <1>5, InsideStep

\* SELECT changes nothing, or aborts the transaction.
LEMMA SelectAtomic ==
  ASSUME TypeInv, AtomicInv, NEW h \in Handlers, Select(h)
  PROVE  AtomicInv'
<1>1. InTransaction(h)
  BY DEF Select, InTransaction, Statement
<1>2. CASE StatementRefused(FALSE) /\ GoTo(h, "rollback")
  BY <1>1, <1>2, RefusedAtomic
<1>3. CASE /\ ReadDone
           /\ pc' = [pc EXCEPT ![h] = IF Present(h) THEN "commit" ELSE "insert"]
           /\ inserted' = [inserted EXCEPT ![h] = FALSE]
           /\ UNCHANGED <<batch, todo, results, reply>>
  <2>1. tx = "open" /\ view = disk
    BY <1>1, <1>3 DEF AtomicInv, TransactionOwned, ReadDone, Select, Stage, TypeInv, TypeOK
  <2>2. disk' = disk /\ view' = view /\ tx' = tx
    BY <1>3 DEF ReadDone, connVars
  <2>3. /\ Alone(h) /\ todo' = todo /\ inserted'[h] = FALSE
        /\ pc'[h] = IF Present(h) THEN "commit" ELSE "insert"
    BY <1>3 DEF TypeInv, TypeOK, Alone
  <2>4. InTransaction(h)'
    BY <2>3 DEF InTransaction, Statement
  <2>5. CurrentRow(h)' = CurrentRow(h)
    BY <2>3 DEF CurrentRow, Current
  <2>6. Present(h) <=> ~Absent(CurrentRow(h))
    BY <2>1 DEF Present, Absent
  <2>7. Absent(CurrentRow(h))' <=> Absent(CurrentRow(h))
    BY <2>2, <2>5 DEF Absent
  <2>8. Stage(h)'
    BY <2>1, <2>2, <2>3, <2>6, <2>7 DEF Stage
  <2>9. Servable(view.manifests)'
    BY <2>2 DEF AtomicInv, Servable
  <2> QED BY <1>1, <2>1, <2>2, <2>3, <2>4, <2>6, <2>7, <2>8, <2>9, InsideStep
<1> QED BY <1>2, <1>3 DEF Select

\* The row is in the view of its own transaction only.
LEMMA InsertAtomic ==
  ASSUME TypeInv, AtomicInv, NEW h \in Handlers, Insert(h)
  PROVE  AtomicInv'
<1>1. InTransaction(h)
  BY DEF Insert, InTransaction, Statement
<1>2. CASE StatementRefused(Present(h)) /\ GoTo(h, "rollback")
  <2>1. Present(h) \in BOOLEAN
    BY DEF Present
  <2> QED BY <1>1, <1>2, <2>1, RefusedAtomic
<1>3. CASE /\ WriteDone([view EXCEPT !.manifests = @ \cup {CurrentRow(h)}])
           /\ pc' = [pc EXCEPT ![h] = "delete"]
           /\ inserted' = [inserted EXCEPT ![h] = TRUE]
           /\ UNCHANGED <<batch, todo, results, reply>>
  <2>1. /\ view'.manifests = view.manifests \cup {CurrentRow(h)}
        /\ view'.softBindings = view.softBindings
        /\ disk' = IF tx = "none" THEN view' ELSE disk
        /\ tx' = tx /\ tx # "aborted"
    BY <1>3, InsertEffect
  <2>2. tx = "open" /\ disk' = disk
    BY <1>1, <2>1 DEF AtomicInv, TransactionOwned, TypeInv, TypeOK
  <2>3. view = disk /\ Absent(CurrentRow(h))
    BY <1>1, <2>2 DEF AtomicInv, Stage, Insert
  <2>4. Alone(h) /\ pc'[h] = "delete" /\ todo' = todo /\ inserted'[h]
    BY <1>3 DEF TypeInv, TypeOK, Alone
  <2>5. InTransaction(h)' /\ CurrentRow(h)' = CurrentRow(h)
    BY <2>4 DEF InTransaction, Statement, CurrentRow, Current
  <2>6. Stage(h)'
    BY <2>1, <2>2, <2>3, <2>4, <2>5 DEF Stage, Absent, StoredWithoutBinding
  <2>7. Servable(view.manifests)'
    <3>1. Verdict(Current(h)) = "write" /\ Current(h) \in Payload
      BY <1>1, CurrentTyped DEF TypeInv, Working, InTransaction
    <3>2. Servable({CurrentRow(h)})
      BY <3>1, WrittenServable DEF CurrentRow
    <3> QED BY <2>1, <3>2 DEF AtomicInv, Servable
  <2> QED BY <1>1, <2>1, <2>2, <2>4, <2>5, <2>6, <2>7, InsideStep
<1> QED BY <1>2, <1>3 DEF Insert

\* Old bindings of the id vanish in the same transaction,
LEMMA DeleteAtomic ==
  ASSUME TypeInv, AtomicInv, NEW h \in Handlers, Delete(h)
  PROVE  AtomicInv'
<1>1. InTransaction(h)
  BY DEF Delete, InTransaction, Statement
<1>2. CASE StatementRefused(FALSE) /\ GoTo(h, "rollback")
  BY <1>1, <1>2, RefusedAtomic
<1>3. CASE /\ WriteDone([view EXCEPT !.softBindings =
                           OfOthers(@, CurrentRow(h).manifestId)])
           /\ GoTo(h, "bind")
  <2>1. /\ view'.manifests = view.manifests
        /\ view'.softBindings =
             OfOthers(view.softBindings, CurrentRow(h).manifestId)
        /\ disk' = IF tx = "none" THEN view' ELSE disk
        /\ tx' = tx /\ tx # "aborted"
    BY <1>3, DeleteEffect
  <2>2. tx = "open" /\ disk' = disk
    BY <1>1, <2>1 DEF AtomicInv, TransactionOwned, TypeInv, TypeOK
  <2>3. Absent(CurrentRow(h)) /\ StoredWithoutBinding(CurrentRow(h))
    BY <1>1, <2>2 DEF AtomicInv, Stage, Delete
  <2>4. \A b \in disk.softBindings : b.manifestId # CurrentRow(h).manifestId
    BY <2>3 DEF AtomicInv, BindingsComplete, BindingOf, Absent, Conflicts
  <2>5. view'.softBindings = view.softBindings
    BY <2>1, <2>3, <2>4 DEF OfOthers, StoredWithoutBinding
  <2>6. /\ Alone(h) /\ pc'[h] = "bind" /\ todo'[h] = todo[h]
        /\ inserted'[h] = inserted[h]
    BY <1>3, HandlerStepsAlone
  <2>7. /\ InTransaction(h)' /\ CurrentRow(h)' = CurrentRow(h)
        /\ inserted[h]
    BY <2>6 DEF InTransaction, Statement, CurrentRow, Current, AtomicInv,
                KnownPresent, Delete
  <2>8. Stage(h)'
    BY <2>1, <2>2, <2>3, <2>5, <2>6, <2>7 DEF Stage, Absent, StoredWithoutBinding
  <2>9. Servable(view.manifests)'
    BY <2>1, <2>2, <2>5 DEF AtomicInv, Servable
  <2> QED BY <1>1, <2>1, <2>2, <2>6, <2>7, <2>8, <2>9, InsideStep
<1> QED BY <1>2, <1>3 DEF Delete

\* and the new one is written in it.
LEMMA BindAtomic ==
  ASSUME TypeInv, AtomicInv, NEW h \in Handlers, Bind(h)
  PROVE  AtomicInv'
<1>1. InTransaction(h)
  BY DEF Bind, InTransaction, Statement
<1>2. CASE StatementRefused(FALSE) /\ GoTo(h, "rollback")
  BY <1>1, <1>2, RefusedAtomic
<1>3. CASE /\ WriteDone([view EXCEPT !.softBindings =
                           @ \cup {BindingOf(CurrentRow(h))}])
           /\ GoTo(h, "commit")
  <2>1. /\ view'.manifests = view.manifests
        /\ view'.softBindings = view.softBindings \cup {BindingOf(CurrentRow(h))}
        /\ disk' = IF tx = "none" THEN view' ELSE disk
        /\ tx' = tx /\ tx # "aborted"
    BY <1>3, BindEffect
  <2>2. tx = "open" /\ disk' = disk
    BY <1>1, <2>1 DEF AtomicInv, TransactionOwned, TypeInv, TypeOK
  <2>3. Absent(CurrentRow(h)) /\ StoredWithoutBinding(CurrentRow(h))
    BY <1>1, <2>2 DEF AtomicInv, Stage, Bind
  <2>4. /\ Alone(h) /\ pc'[h] = "commit" /\ todo'[h] = todo[h]
        /\ inserted'[h] = inserted[h]
    BY <1>3, HandlerStepsAlone
  <2>5. InTransaction(h)' /\ CurrentRow(h)' = CurrentRow(h)
    BY <2>4 DEF InTransaction, Statement, CurrentRow, Current
  <2>6. inserted[h]
    BY DEF AtomicInv, KnownPresent, Bind
  <2>8. Stage(h)'
    BY <2>1, <2>2, <2>3, <2>4, <2>5, <2>6
       DEF Stage, Absent, Stored, StoredWithoutBinding
  <2>9. Servable(view.manifests)'
    BY <2>1, <2>2 DEF AtomicInv, Servable
  <2> QED BY <1>1, <2>1, <2>2, <2>4, <2>5, <2>6, <2>8, <2>9, InsideStep
<1> QED BY <1>2, <1>3 DEF Bind

\* Where dependability of COMMIT is used: a COMMIT that is refused leaves the
\* transaction, aborted, to its handler's ROLLBACK.
LEMMA CommitAtomic ==
  ASSUME ~CommitMayFail, TypeInv, AtomicInv, NEW h \in Handlers, Commit(h)
  PROVE  /\ AtomicInv'
         /\ disk' # disk =>
              /\ inserted[h] /\ Absent(CurrentRow(h))
              /\ Finish(h, "indexed", FALSE)
              /\ disk'.manifests = disk.manifests \cup {CurrentRow(h)}
              /\ disk'.softBindings =
                   disk.softBindings \cup {BindingOf(CurrentRow(h))}
<1>1. InTransaction(h) /\ pc[h] = "commit"
  BY DEF Commit, InTransaction, Statement
<1>2. tx # "none"
  BY <1>1 DEF AtomicInv, TransactionOwned
<1>3. CASE CommitRefused /\ GoTo(h, "rollback")
  <2>1. tx = "aborted" /\ UNCHANGED connVars
    BY <1>2, <1>3 DEF CommitRefused
  <2>2. tx' = "aborted" /\ disk' = disk /\ view' = view
    BY <2>1 DEF connVars
  <2>3. Alone(h) /\ pc'[h] = "rollback" /\ InTransaction(h)'
    BY <1>3, HandlerStepsAlone DEF InTransaction, Statement
  <2>4. Servable(view.manifests)'
    BY <2>2 DEF AtomicInv, Servable
  <2> QED BY <1>1, <2>2, <2>3, <2>4, InsideStep
<1>4. CASE /\ CommitDone
           /\ IF inserted[h] THEN Finish(h, "indexed", FALSE)
                             ELSE Finish(h, "skipped", TRUE)
  <2>1. Alone(h) /\ pc'[h] = "payload"
    BY <1>4, HandlerStepsAlone
  <2>2. \A g \in Handlers : ~InTransaction(g)'
    BY <1>1, <2>1 DEF AtomicInv, TransactionOwned, InTransaction, Alone, Statement
  <2>3. tx' = "none" /\ TransactionOwned'
    BY <1>4, <2>2 DEF CommitDone, TransactionOwned
  <2>4. KnownPresent'
    BY <2>2 DEF KnownPresent, InTransaction, Statement
  <2>5. CASE disk' = disk
    <3>1. view' = disk'
      BY <1>1, <1>4, <2>5, <2>3 DEF CommitDone
    <3> QED BY <2>2, <2>3, <2>4, <2>5, <3>1
            DEF AtomicInv, BindingsComplete, Servable,
                LocatorsServable
  <2>6. CASE disk' # disk
    <3>1. tx = "open" /\ disk' = view /\ view' = view
      BY <1>4, <2>6 DEF CommitDone
    <3>2. Stage(h)
      BY <1>1, <3>1 DEF AtomicInv
    <3>3. inserted[h] /\ Absent(CurrentRow(h)) /\ Stored(CurrentRow(h))
      BY <1>1, <2>6, <3>1, <3>2 DEF Stage
    <3>4. BindingsComplete'
      BY <3>1, <3>3 DEF AtomicInv, BindingsComplete, Stored
    <3>5. AtomicInv'
      BY <2>2, <2>3, <2>4, <3>1, <3>4
         DEF AtomicInv, Servable, LocatorsServable
    <3> QED BY <1>4, <3>1, <3>3, <3>5 DEF Stored
  <2> QED BY <2>5, <2>6
<1> QED BY <1>3, <1>4 DEF Commit

\* No handler is in a transaction afterwards, and the view is what is durable.
LEMMA ReleasedStep ==
  ASSUME AtomicInv, disk' = disk, view' = disk, tx' = "none",
         \A g \in Handlers : ~InTransaction(g)'
  PROVE  AtomicInv'
<1>1. TransactionOwned'
  BY DEF TransactionOwned
<1>2. KnownPresent'
  BY DEF KnownPresent, InTransaction, Statement
<1> QED BY <1>1, <1>2 DEF AtomicInv, BindingsComplete, Servable,
                          LocatorsServable

\* ROLLBACK brings the view back to what is committed.
LEMMA UndoAtomic ==
  ASSUME TypeInv, AtomicInv, NEW h \in Handlers, Undo(h)
  PROVE  AtomicInv' /\ disk' = disk
<1>1. InTransaction(h)
  BY DEF Undo, InTransaction, Statement
<1>2. tx # "none"
  BY <1>1 DEF AtomicInv, TransactionOwned
<1>3. disk' = disk /\ view' = disk /\ tx' = "none"
  BY <1>2 DEF Undo, Rollback
<1>4. Alone(h) /\ pc'[h] = "payload"
  BY HandlerStepsAlone DEF Undo
<1>5. \A g \in Handlers : ~InTransaction(g)'
  BY <1>1, <1>4 DEF AtomicInv, TransactionOwned, InTransaction, Alone, Statement
<1> QED BY <1>3, <1>5, ReleasedStep

\* What a handler does between transactions touches no table.
LEMMA RequestAtomic ==
  ASSUME TypeInv, AtomicInv, NEW h \in Handlers,
         Respond(h) \/ Throw(h) \/ Classify(h) \/ \E d \in Deliveries : Deliver(h, d)
  PROVE  AtomicInv' /\ disk' = disk
<1>1. UNCHANGED connVars /\ ~InTransaction(h)
  BY DEF Respond, Throw, Classify, Deliver, InTransaction, Statement
<1>2. Alone(h) /\ pc'[h] \in {"idle", "payload", "begin"}
  <2>1. CASE \E d \in Deliveries : Deliver(h, d)
    BY <2>1 DEF Deliver, Alone, TypeInv, TypeOK
  <2>2. CASE Respond(h) \/ Throw(h) \/ Classify(h)
    BY <2>2, HandlerStepsAlone, ZenonT(60) DEF Respond, Throw, Classify
  <2> QED BY <2>1, <2>2
<1>3. ~InTransaction(h)'
  BY <1>2 DEF InTransaction, Statement
<1>4. UNCHANGED <<disk, view>> /\ tx' = tx
  BY <1>1 DEF connVars
<1> QED BY <1>1, <1>2, <1>3, <1>4, OutsideStep

\* Only the COMMIT of a handler that inserted changes what is durable.
DurableStep ==
  disk' # disk =>
    \E h \in Handlers :
      /\ pc[h] = "commit"
      /\ Absent(CurrentRow(h))
      /\ Finish(h, "indexed", FALSE)
      /\ disk'.manifests = disk.manifests \cup {CurrentRow(h)}
      /\ disk'.softBindings = disk.softBindings \cup {BindingOf(CurrentRow(h))}

\* Every step keeps the transactions apart, and what becomes durable is one artifact.
LEMMA AtomicStep ==
  ASSUME ~CommitMayFail, TypeInv, AtomicInv, [Next]_vars
  PROVE  AtomicInv' /\ DurableStep
<1>1. ASSUME NEW h \in Handlers, HandlerStep(h)
      PROVE  AtomicInv' /\ DurableStep
  <2>1. CASE Respond(h) \/ Throw(h) \/ Classify(h)
    BY <2>1, RequestAtomic DEF DurableStep
  <2>2. CASE Begin(h)
    BY <2>2, BeginAtomic DEF DurableStep, Begin, BeginDone, BeginRefused
  <2>3. CASE Select(h)
    BY <2>3, SelectAtomic DEF DurableStep, Select, ReadDone, StatementRefused, connVars
  <2>4. CASE Insert(h) \/ Delete(h) \/ Bind(h)
    <3>1. tx # "none"
      BY <2>4 DEF AtomicInv, TransactionOwned, InTransaction, Statement, Insert, Delete,
                  Bind
    <3>2. disk' = disk
      BY <2>4, <3>1 DEF Insert, Delete, Bind, WriteDone, StatementRefused
    <3> QED BY <2>4, <3>2, InsertAtomic, DeleteAtomic, BindAtomic DEF DurableStep
  <2>5. CASE Commit(h)
    BY <2>5, CommitAtomic DEF DurableStep, Commit
  <2>6. CASE Undo(h)
    BY <2>6, UndoAtomic DEF DurableStep
  <2> QED BY <1>1, <2>1, <2>2, <2>3, <2>4, <2>5, <2>6 DEF HandlerStep
<1>2. ASSUME NEW h \in Handlers, NEW d \in Deliveries, Deliver(h, d)
      PROVE  AtomicInv' /\ DurableStep
  BY <1>2, RequestAtomic DEF DurableStep
<1>3. CASE Crash
  <2>1. \A g \in Handlers : ~InTransaction(g)'
    BY <1>3 DEF Crash, InTransaction, Statement
  <2> QED BY <1>3, <2>1, ReleasedStep DEF Crash, Reopen, DurableStep
<1>4. CASE Query \/ UNCHANGED vars
  <2>1. /\ disk' = disk /\ view' = view /\ pc' = pc /\ todo' = todo
        /\ inserted' = inserted
        /\ tx' = tx \/ (tx = "open" /\ tx' = "aborted")
    <3>1. CASE UNCHANGED vars
      BY <3>1 DEF vars
    <3>2. CASE Query
      BY <3>2 DEF Query, ReadDone, StatementRefused, connVars, handlerVars,
                  TypeInv, TypeOK
    <3> QED BY <1>4, <3>1, <3>2
  <2>2. \A g \in Handlers : /\ InTransaction(g)' <=> InTransaction(g)
                            /\ CurrentRow(g)' = CurrentRow(g)
    BY <2>1 DEF InTransaction, CurrentRow, Current
  <2>3. TransactionOwned' /\ KnownPresent'
    BY <2>1, <2>2 DEF AtomicInv, TransactionOwned, KnownPresent, Absent
  <2>4. \A g \in Handlers : Stage(g) => Stage(g)'
    BY <2>1, <2>2 DEF Stage, Absent, Stored, StoredWithoutBinding
  <2> QED BY <2>1, <2>2, <2>3, <2>4
          DEF AtomicInv, BindingsComplete, Servable,
              LocatorsServable, DurableStep
<1> QED BY <1>1, <1>2, <1>3, <1>4 DEF Next

\* So every sequence of steps does.
LEMMA AtomicCorrect ==
  ASSUME ~CommitMayFail
  PROVE  Spec => [](TypeInv /\ AtomicInv)
<1>1. Init => TypeInv /\ AtomicInv
  BY TypeInit, AtomicInit
<1>2. TypeInv /\ AtomicInv /\ [Next]_vars => TypeInv' /\ AtomicInv'
  BY TypeStep, AtomicStep
<1> QED BY <1>1, <1>2, PTL DEF Spec

\* Transactions of the shared connection never mix: each belongs to one handler
\* from its BEGIN to its COMMIT or ROLLBACK.
THEOREM TransactionOwnedHolds ==
  ASSUME ~CommitMayFail
  PROVE  Spec => []TransactionOwned
<1>1. AtomicInv => TransactionOwned
  BY DEF AtomicInv
<1> QED BY <1>1, AtomicCorrect, PTL

\* A manifest and its soft binding become durable together.
THEOREM BindingsCompleteHolds ==
  ASSUME ~CommitMayFail
  PROVE  Spec => []BindingsComplete
<1>1. AtomicInv => BindingsComplete
  BY DEF AtomicInv
<1> QED BY <1>1, AtomicCorrect, PTL

\* A reader on the shared connection that is answered sees everything committed, and
\* beyond it at most the artifact of the webhook in its transaction.
THEOREM CommittedVisibleHolds ==
  ASSUME ~CommitMayFail
  PROVE  Spec => []CommittedVisible
<1>1. TypeInv /\ AtomicInv => CommittedVisible
  <2> SUFFICES ASSUME TypeInv, AtomicInv, tx # "aborted", view # disk
               PROVE  \E h \in Handlers :
                        /\ InTransaction(h)
                        /\ view.manifests = disk.manifests \cup {CurrentRow(h)}
                        /\ disk.softBindings \subseteq view.softBindings
                        /\ view.softBindings \subseteq
                             disk.softBindings \cup {BindingOf(CurrentRow(h))}
    BY DEF CommittedVisible
  <2>1. tx = "open"
    BY DEF AtomicInv, TypeInv, TypeOK
  <2>2. PICK h \in Handlers : InTransaction(h)
    BY <2>1 DEF AtomicInv, TransactionOwned
  <2>3. Stage(h)
    BY <2>1, <2>2 DEF AtomicInv
  <2>4. Stored(CurrentRow(h)) \/ StoredWithoutBinding(CurrentRow(h))
    BY <2>2, <2>3 DEF Stage, InTransaction, Statement
  <2> QED BY <2>2, <2>4 DEF Stored, StoredWithoutBinding
<1> QED BY <1>1, AtomicCorrect, PTL

\* Every stored proof locator can be fetched and verified.
THEOREM LocatorsServableHolds ==
  ASSUME ~CommitMayFail
  PROVE  Spec => []LocatorsServable
<1>1. AtomicInv => LocatorsServable
  BY DEF AtomicInv
<1> QED BY <1>1, AtomicCorrect, PTL

\* The durable index changes only as ManifestIndex allows: ingestion
\* implements it.
THEOREM Implementation ==
  ASSUME ~CommitMayFail
  PROVE  Spec => ImplementsIndex
<1>1. Init => Index!IndexInit
  BY DEF Init, Empty, Index!IndexInit
<1>2. TypeInv /\ AtomicInv /\ [Next]_vars => [Index!IndexNext]_(Index!indexVars)
  <2> SUFFICES ASSUME TypeInv, AtomicInv, [Next]_vars, disk' # disk
               PROVE  Index!IndexNext
    BY DEF Index!indexVars
  <2>1. PICK h \in Handlers :
          /\ pc[h] = "commit"
          /\ Absent(CurrentRow(h))
          /\ disk'.manifests = disk.manifests \cup {CurrentRow(h)}
          /\ disk'.softBindings = disk.softBindings \cup {BindingOf(CurrentRow(h))}
    BY AtomicStep DEF DurableStep
  <2>2. CurrentRow(h) \in Row
    BY <2>1, CurrentTyped DEF Statement
  <2>3. Index!InsertIfAbsent(CurrentRow(h))
    BY <2>1 DEF Index!InsertIfAbsent, Absent, Conflicts, BindingOf,
                Index!Conflicts, Index!BindingOf
  <2> QED BY <2>2, <2>3 DEF Index!IndexNext, Row, Kinds, Index!Row, Index!Kinds
<1> QED BY <1>1, <1>2, AtomicCorrect, PTL DEF Spec, ImplementsIndex, Index!IndexSpec

(***************************************************************************)
(* What the answers say.                                                   *)
(***************************************************************************)
\* Nothing is made durable on behalf of a payload that is not reported
\* 'indexed' in the same step.
THEOREM WritesAreReportedHolds ==
  ASSUME ~CommitMayFail
  PROVE  Spec => WritesAreReported
<1> DEFINE Reported ==
      disk' # disk =>
        \E h \in Handlers :
          /\ todo[h] # <<>>
          /\ results'[h] = Append(results[h], [payload |-> Current(h),
                                    action |-> "indexed", known |-> FALSE])
          /\ disk'.manifests = disk.manifests \cup {CurrentRow(h)}
<1>1. TypeInv /\ AtomicInv /\ [Next]_vars => [Reported]_vars
  <2> SUFFICES ASSUME TypeInv, AtomicInv, [Next]_vars, disk' # disk
               PROVE  Reported
    OBVIOUS
  <2>1. PICK h \in Handlers :
          /\ pc[h] = "commit"
          /\ Finish(h, "indexed", FALSE)
          /\ disk'.manifests = disk.manifests \cup {CurrentRow(h)}
    BY AtomicStep DEF DurableStep
  <2>2. todo[h] # <<>>
    BY <2>1, CurrentTyped DEF Statement
  <2>3. results'[h] = Append(results[h], [payload |-> Current(h),
                               action |-> "indexed", known |-> FALSE])
    BY <2>1 DEF Finish, TypeInv, TypeOK
  <2> QED BY <2>1, <2>2, <2>3
<1> QED BY <1>1, AtomicCorrect, PTL DEF Spec, WritesAreReported

\* The results of a handler after a step: those it had, none, or one more.
LEMMA ResultsGrow ==
  ASSUME TypeInv, [Next]_vars, NEW h \in Handlers
  PROVE  \/ results'[h] = results[h]
         \/ results'[h] = <<>>
         \/ \E action \in Action, known \in BOOLEAN :
              /\ HandlerStep(h)
              /\ Finish(h, action, known)
              /\ results'[h] = Append(results[h], [payload |-> Current(h),
                                        action |-> action, known |-> known])
<1> DEFINE Goal ==
      \/ results'[h] = results[h]
      \/ results'[h] = <<>>
      \/ \E action \in Action, known \in BOOLEAN :
           /\ HandlerStep(h)
           /\ Finish(h, action, known)
           /\ results'[h] = Append(results[h], [payload |-> Current(h),
                                     action |-> action, known |-> known])
<1>1. ASSUME NEW g \in Handlers, HandlerStep(g)
      PROVE  Goal
  <2>1. \/ results' = results
        \/ \E status, success : Answer(g, status, success)
        \/ \E to : GoTo(g, to)
        \/ \E action \in Action, known \in BOOLEAN : Finish(g, action, known)
    BY <1>1, ZenonT(60) DEF HandlerStep, Respond, Throw, Classify, Begin, Select, Insert,
                Delete, Bind, Commit, Undo, Action, Verdict
  <2>2. CASE \E action \in Action, known \in BOOLEAN : Finish(g, action, known)
    BY <1>1, <2>2, ZenonT(60) DEF Finish, TypeInv, TypeOK
  <2> QED BY <2>1, <2>2 DEF Answer, GoTo
<1>2. ASSUME NEW g \in Handlers, NEW d \in Deliveries, Deliver(g, d)
      PROVE  Goal
  BY <1>2 DEF Deliver, TypeInv, TypeOK
<1>3. CASE Crash
  BY <1>3 DEF Crash
<1>4. CASE Query \/ UNCHANGED vars
  BY <1>4 DEF Query, handlerVars, vars
<1> QED BY <1>1, <1>2, <1>3, <1>4 DEF Next

\* Finishing a payload as known, or as indexed, is what COMMIT does.
LEMMA FinishedHow ==
  ASSUME TypeInv, NEW h \in Handlers, NEW action \in Action, NEW known \in BOOLEAN,
         HandlerStep(h), Finish(h, action, known)
  PROVE  /\ known => /\ pc[h] = "commit" /\ ~inserted[h]
         /\ action = "indexed" =>
              /\ pc[h] = "commit" /\ inserted[h] /\ CommitDone
<1> DEFINE r == [payload |-> Current(h), action |-> action, known |-> known]
<1>1. /\ pc'[h] = "payload" /\ results'[h] = Append(results[h], r)
      /\ results[h] \in Seq(Result) /\ Len(results[h]) \in Nat
  BY LenProperties DEF Finish, TypeInv, TypeOK
<1>2. r \in Result
  <2>1. pc[h] # "idle" /\ todo[h] # <<>>
    BY DEF HandlerStep, Respond, Throw, Classify, Begin, Select, Insert, Delete,
           Bind, Commit, Undo, TypeInv, Working, Statement, Answer, Finish,
           TypeOK
  <2> QED BY <2>1, HeadTailProperties DEF Result, Current, TypeInv, TypeOK
<1>3. \A a \in Action, k \in BOOLEAN : Finish(h, a, k) => a = action /\ k = known
  <2> SUFFICES ASSUME NEW a \in Action, NEW k \in BOOLEAN, Finish(h, a, k)
               PROVE  a = action /\ k = known
    OBVIOUS
  <2> DEFINE s == [payload |-> Current(h), action |-> a, known |-> k]
  <2>1. results'[h] = Append(results[h], s)
    BY DEF Finish, TypeInv, TypeOK
  <2>2. s \in Result
    BY <1>2 DEF Result
  <2>3. s = r
    BY <1>1, <1>2, <2>1, <2>2, AppendProperties
  <2> QED BY <2>3
<1>4. pc'[h] = "payload" => \A to \in Statement : ~GoTo(h, to)
  BY DEF GoTo, TypeInv, TypeOK, Statement
<1>5. CASE Commit(h)
  BY <1>1, <1>3, <1>4, <1>5 DEF Commit, Action, Statement
<1>6. CASE ~Commit(h)
  <2>1. action # "indexed" /\ ~known
    BY <1>1, <1>3, <1>4, <1>6
       DEF HandlerStep, Respond, Throw, Classify, Begin, Select, Insert, Delete,
           Bind, Undo, Action, Statement, Answer, TypeInv, TypeOK, Verdict
  <2> QED BY <2>1
<1> QED BY <1>5, <1>6

\* What a result claims about the durable index.
Claimed(result, db) ==
  result.known => \E r \in db.manifests : Conflicts(RowOf(result.payload), r)

AllClaimed ==
  \A h \in Handlers : \A i \in DOMAIN results[h] : Claimed(results[h][i], disk)

\* What was answered stays true, and each new answer is true when it is given.
LEMMA ClaimStep ==
  ASSUME ~CommitMayFail, TypeInv, RowsInv, AtomicInv, AllClaimed, [Next]_vars
  PROVE  AllClaimed'
<1>1. /\ disk.manifests \subseteq disk'.manifests
      /\ disk.softBindings \subseteq disk'.softBindings
  BY RowsStep, AtomicStep DEF DurableStep
<1>2. \A result : Claimed(result, disk) => Claimed(result, disk')
  BY <1>1 DEF Claimed
<1> SUFFICES ASSUME NEW h \in Handlers
             PROVE  \A i \in DOMAIN results'[h] : Claimed(results'[h][i], disk')
  BY DEF AllClaimed
<1>3. CASE results'[h] = results[h]
  BY <1>2, <1>3 DEF AllClaimed
<1>4. CASE results'[h] = <<>>
  BY <1>4
<1>5. ASSUME NEW action \in Action, NEW known \in BOOLEAN, HandlerStep(h),
             Finish(h, action, known),
             results'[h] = Append(results[h], [payload |-> Current(h),
                                       action |-> action, known |-> known])
      PROVE  \A i \in DOMAIN results'[h] : Claimed(results'[h][i], disk')
  <2> DEFINE r == [payload |-> Current(h), action |-> action, known |-> known]
  <2>1. results[h] \in Seq(Result)
    BY DEF TypeInv, TypeOK
  <2>2. known => pc[h] = "commit" /\ ~inserted[h]
    BY <1>5, FinishedHow
  <2>3. ASSUME known
        PROVE  \E s \in disk'.manifests : Conflicts(CurrentRow(h), s)
    BY <1>1, <2>2, <2>3 DEF AtomicInv, KnownPresent, Absent
  <2>4. Claimed(r, disk')
    BY <2>3 DEF Claimed, CurrentRow
  <2>5. ASSUME NEW i \in DOMAIN results'[h]
        PROVE  \/ i \in DOMAIN results[h] /\ results'[h][i] = results[h][i]
               \/ results'[h][i] = r
    <3>1. results'[h] = Append(results[h], r)
      BY <1>5
    <3>2. /\ Len(results[h]) \in Nat
          /\ DOMAIN results[h] = 1..Len(results[h])
          /\ DOMAIN Append(results[h], r) = 1..(Len(results[h]) + 1)
      BY <2>1
    <3>3. \A j \in 1..(Len(results[h]) + 1) :
            Append(results[h], r)[j] =
              IF j <= Len(results[h]) THEN results[h][j] ELSE r
      BY <2>1, <3>2
    <3> QED BY <3>1, <3>2, <3>3, <2>5
  <2> QED BY <1>2, <2>4, <2>5 DEF AllClaimed
<1> QED BY <1>3, <1>4, <1>5, ResultsGrow

\* So every answer is true at any time.
LEMMA ClaimCorrect ==
  ASSUME ~CommitMayFail
  PROVE  Spec => []AllClaimed
<1>1. Init => AllClaimed
  BY DEF Init, AllClaimed
<1>2. TypeInv /\ RowsInv /\ AtomicInv /\ AllClaimed /\ [Next]_vars => AllClaimed'
  BY ClaimStep
<1> QED BY <1>1, <1>2, RowsCorrect, AtomicCorrect, PTL DEF Spec

\* A payload answered 'Already indexed' lost to a committed record.
THEOREM AlreadyIndexedIsTrueHolds ==
  ASSUME ~CommitMayFail
  PROVE  Spec => []AlreadyIndexedIsTrue
<1>1. AllClaimed => AlreadyIndexedIsTrue
  BY DEF AllClaimed, Claimed, AlreadyIndexedIsTrue
<1> QED BY <1>1, ClaimCorrect, PTL

\* A payload answered 'indexed' is durable in that step, unless its transaction was aborted
\* and the database answered the COMMIT of it without an error.
THEOREM IndexedIsStoredHolds ==
  ASSUME ~CommitMayFail
  PROVE  Spec => IndexedIsStored
<1> DEFINE Kept ==
      \A h \in Handlers :
       /\ todo[h] # <<>>
       /\ results'[h] = Append(results[h], [payload |-> Current(h),
                                 action |-> "indexed", known |-> FALSE])
       => \/ tx = "aborted" /\ "rolledBack" \in CommitOfAborted
          \/ /\ CurrentRow(h) \in disk'.manifests
             /\ BindingOf(CurrentRow(h)) \in disk'.softBindings
<1>1. TypeInv /\ AtomicInv /\ [Next]_vars => [Kept]_vars
  <2> SUFFICES ASSUME TypeInv, AtomicInv, [Next]_vars, NEW h \in Handlers,
                      todo[h] # <<>>,
                      results'[h] = Append(results[h], [payload |-> Current(h),
                                             action |-> "indexed", known |-> FALSE])
               PROVE  \/ tx = "aborted" /\ "rolledBack" \in CommitOfAborted
                      \/ /\ CurrentRow(h) \in disk'.manifests
                         /\ BindingOf(CurrentRow(h)) \in disk'.softBindings
    OBVIOUS
  <2> DEFINE r == [payload |-> Current(h), action |-> "indexed", known |-> FALSE]
  <2>1. /\ results[h] \in Seq(Result) /\ todo[h] \in Seq(Payload)
        /\ r \in Result
    BY HeadTailProperties DEF TypeInv, TypeOK, Result, Action, Current
  <2>2. results'[h] # results[h] /\ results'[h] # <<>>
    BY <2>1, AppendProperties, LenProperties
  <2>3. PICK action \in Action, known \in BOOLEAN :
          /\ HandlerStep(h)
          /\ Finish(h, action, known)
          /\ results'[h] = Append(results[h], [payload |-> Current(h),
                                    action |-> action, known |-> known])
    BY <2>2, ResultsGrow
  <2>4. action = "indexed"
    <3> DEFINE s == [payload |-> Current(h), action |-> action, known |-> known]
    <3>1. s \in Result
      BY <2>1 DEF Result
    <3>2. s = r
      BY <2>1, <2>3, <3>1, AppendProperties
    <3> QED BY <3>2
  <2>5. pc[h] = "commit" /\ inserted[h] /\ CommitDone
    BY <2>3, <2>4, FinishedHow
  <2>6. CASE tx = "open"
    <3>1. Stored(CurrentRow(h)) /\ disk' = view
      BY <2>5, <2>6 DEF AtomicInv, Stage, InTransaction, Statement, CommitDone
    <3> QED BY <3>1 DEF Stored
  <2>7. CASE tx # "open"
    BY <2>5, <2>7 DEF CommitDone
  <2> QED BY <2>6, <2>7
<1> QED BY <1>1, AtomicCorrect, PTL DEF Spec, IndexedIsStored
=============================================================================
