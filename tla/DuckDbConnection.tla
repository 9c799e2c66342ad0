-------------------------- MODULE DuckDbConnection --------------------------
(***************************************************************************)
(* The one DuckDB connection every request handler shares.  db/index.ts    *)
(* keeps a single Database object and calls run()/all() on it, so all      *)
(* statements of all handlers arrive, one at a time, at one connection     *)
(* that has at most one transaction: a BEGIN, COMMIT or ROLLBACK of one    *)
(* handler acts on the transaction of whichever handler opened it.         *)
(*                                                                         *)
(* DuckDB itself is a library: this module is its contract as far as the   *)
(* code relies on it, and where the code cannot know the outcome a CONSTANT *)
(* leaves it open.                                                         *)
(***************************************************************************)
CONSTANTS
  AfterNestedBegin,    \* what a BEGIN inside an open transaction, which is
                       \* always refused, may leave it as: "open", "aborted"
  CommitOfAborted,     \* how a COMMIT of an aborted transaction may be
                       \* answered: "refused", or "rolledBack" without error
  CommitMayFail,       \* may the COMMIT of a good transaction fail?
  StatementMayFail     \* may any other statement fail (I/O, memory)?

ASSUME ConnectionAssumption ==
  /\ AfterNestedBegin \subseteq {"open", "aborted"} /\ AfterNestedBegin # {}
  /\ CommitOfAborted \subseteq {"refused", "rolledBack"}
  /\ CommitOfAborted # {}
  /\ CommitMayFail \in BOOLEAN
  /\ StatementMayFail \in BOOLEAN

VARIABLES
  disk,   \* what is committed
  view,   \* what a statement on the connection sees
  tx      \* "none", "open" or "aborted"

connVars == <<disk, view, tx>>

BeginDone ==
  /\ tx = "none"
  /\ tx' = "open"
  /\ UNCHANGED <<disk, view>>

BeginRefused ==
  /\ \/ tx = "open" /\ tx' \in AfterNestedBegin
     \/ tx = "aborted" /\ tx' = tx
     \/ tx = "none" /\ StatementMayFail /\ tx' = tx
  /\ UNCHANGED <<disk, view>>

ReadDone ==
  /\ tx # "aborted"
  /\ UNCHANGED connVars

\* Outside a transaction a write commits by itself.
WriteDone(new) ==
  /\ tx # "aborted"
  /\ view' = new
  /\ disk' = IF tx = "none" THEN new ELSE disk
  /\ UNCHANGED tx

\* An aborted transaction refuses every statement; a statement that fails,
\* or violates a constraint, aborts the transaction it runs in.
StatementRefused(violation) ==
  /\ \/ tx = "aborted"
     \/ violation
     \/ StatementMayFail
  /\ tx' = IF tx = "none" THEN "none" ELSE "aborted"
  /\ UNCHANGED <<disk, view>>

CommitDone ==
  /\ \/ tx = "open" /\ disk' = view /\ view' = view
     \/ tx = "aborted" /\ "rolledBack" \in CommitOfAborted
                       /\ view' = disk /\ disk' = disk
  /\ tx' = "none"

CommitRefused ==
  \/ tx = "none" /\ UNCHANGED connVars
  \/ tx = "aborted" /\ "refused" \in CommitOfAborted /\ UNCHANGED connVars
  \/ /\ tx = "open" /\ CommitMayFail
     /\ tx' = "none"
     /\ view' = disk
     /\ UNCHANGED disk

\* A refused ROLLBACK is only logged, so its caller does the same in both
\* cases.
Rollback ==
  /\ tx' = "none"
  /\ view' = IF tx = "none" THEN view ELSE disk
  /\ UNCHANGED disk

\* The process ends and a new one opens the file.
Reopen ==
  /\ tx' = "none"
  /\ view' = disk
  /\ UNCHANGED disk
=============================================================================
