----------------------------- MODULE Migrations -----------------------------
(***************************************************************************)
(* runMigrations (src/db/migrations.ts): four migrations, each followed by *)
(* its row in schema_migrations.  ServerLifecycle runs them at every start *)
(* and lets the process die anywhere in between.                           *)
(*                                                                         *)
(* Migration 1 is initializeSchema (src/db/schema.ts), whose statements    *)
(* commit one by one; migrations 2 to 4 rewrite the table "manifests" in a *)
(* transaction when its shape asks for it.                                 *)
(***************************************************************************)
EXTENDS Integers, FiniteSetsExt, Functions

CONSTANTS
  RowIds,       \* ids of rows, numbers from 1
  Locator,      \* what the artifact columns of a row hold
  None

ASSUME MigrationsAssumption ==
  /\ RowIds \subseteq Nat \ {0} /\ IsFiniteSet(RowIds)
  /\ Locator # None

Versions == 1..4

VARIABLES
  table,      \* on disk, as far as the migrations look at it
  nextId,     \* what manifests_id_seq gives next, 0 while it does not exist
  applied,    \* versions in schema_migrations
  version,    \* the migration that runs; 0: not started, 5: all done
  pc,         \* "up", "rewrite" or "record"
  work,       \* the table inside the open transaction
  step        \* statements of the migration that have run

runVars == <<version, pc, work, step>>
databaseVars == <<table, nextId, applied, runVars>>

\* Is there a table, are original_hash and phash NOT NULL in it, does it have the
\* ArNS columns, the artifact columns, idx_manifests_manifest_id, and its rows: by
\* id, what their artifact columns hold.
NoTable ==
  [exists |-> FALSE, hashNotNull |-> FALSE, phashNotNull |-> FALSE, arns |-> FALSE,
   artifacts |-> FALSE, unique |-> FALSE, rows |-> <<>>]

\* The shape a release left behind that knew the first n migrations, with the
\* rows it had written; only the current shape has artifact columns to fill.  A
\* database older than the migrations may have been filled with explicit ids:
\* its sequence may be behind, which is what bumpSequence is for.
LeftBy(n, rows) ==
  [exists       |-> TRUE,
   hashNotNull  |-> n < 2,
   phashNotNull |-> n < 4,
   arns         |-> n < 3,
   artifacts    |-> n = 4,
   unique       |-> TRUE,
   rows         |-> rows]

DatabaseInit ==
  /\ \/ table = NoTable /\ nextId = 0 /\ applied = {}
     \/ \E n \in 0..4, S \in SUBSET RowIds :
          \E rows \in [S -> IF n = 4 THEN {Locator, None} ELSE {None}] :
            /\ table = LeftBy(n, rows)
            /\ nextId \in {Max(S \cup {0}) + 1} \cup (IF n = 0 THEN {1} ELSE {})
            /\ applied = 1..n
  /\ version = 0 /\ pc = "up" /\ work = NoTable /\ step = 0

\* The loop goes on with the first version that is not applied.
Pending == {v \in Versions : v \notin applied}
NextVersion == IF Pending = {} THEN 5 ELSE Min(Pending)

Begin ==
  /\ version = 0
  /\ version' = NextVersion
  /\ pc' = "up" /\ step' = 0 /\ work' = NoTable
  /\ UNCHANGED <<table, nextId, applied>>

(***************************************************************************)
(* Migration 1: each statement stands alone and may be repeated            *)
(***************************************************************************)
\* Fault variant of SequenceCreated: CREATE SEQUENCE fails on one that exists.
SequenceCreatedOnce == nextId = 0 /\ nextId' = 1

\* CREATE SEQUENCE IF NOT EXISTS
SequenceCreated == nextId' = IF nextId = 0 THEN 1 ELSE nextId

\* CREATE TABLE IF NOT EXISTS
TableCreated ==
  IF table.exists THEN table
  ELSE [NoTable EXCEPT !.exists = TRUE, !.artifacts = TRUE]

\* ALTER TABLE ... ADD COLUMN IF NOT EXISTS, and the default artifact kind
ColumnsAdded == [table EXCEPT !.artifacts = TRUE]

\* CREATE UNIQUE INDEX IF NOT EXISTS, and the other indexes
IndexCreated == [table EXCEPT !.unique = TRUE]

BaseSchema ==
  /\ version = 1 /\ pc = "up"
  /\ \/ step = 0 /\ SequenceCreated /\ UNCHANGED table
     \/ step = 1 /\ table' = TableCreated /\ UNCHANGED nextId
     \/ step = 2 /\ table' = ColumnsAdded /\ UNCHANGED nextId
     \/ step = 3 /\ table' = IndexCreated /\ UNCHANGED nextId
  /\ step' = (step + 1) % 4
  /\ pc' = IF step = 3 THEN "record" ELSE "up"
  /\ UNCHANGED <<applied, version, work>>

(***************************************************************************)
(* Migrations 2 to 4: rewrite the table, if its shape asks for it          *)
(***************************************************************************)
Needed(v, t) ==
  /\ t.exists
  /\ \/ v = 2 /\ t.hashNotNull
     \/ v = 3 /\ t.arns
     \/ v = 4 /\ (~t.artifacts \/ t.phashNotNull)

\* What BEGIN TRANSACTION ... INSERT INTO manifests_new SELECT makes of the rows:
\* the tables of migrations 2 and 3 have no artifact columns.
Copied(v, rows) ==
  IF v = 4 THEN rows ELSE [i \in DOMAIN rows |-> None]

\* Fault variant of Rewritten: phash is NOT NULL as it was.
RewrittenStrict(v, t) ==
  [exists       |-> TRUE,
   hashNotNull  |-> FALSE,
   phashNotNull |-> TRUE,
   arns         |-> FALSE,
   artifacts    |-> v = 4,
   unique       |-> FALSE,
   rows         |-> Copied(v, t.rows)]

Rewritten(v, t) ==
  [exists       |-> TRUE,
   hashNotNull  |-> FALSE,
   phashNotNull |-> v # 4,
   arns         |-> FALSE,
   artifacts    |-> v = 4,
   unique       |-> FALSE,
   rows         |-> Copied(v, t.rows)]

Skip ==
  /\ version \in 2..4 /\ pc = "up"
  /\ ~Needed(version, table)
  /\ pc' = "record"
  /\ UNCHANGED <<table, nextId, applied, version, work, step>>

\* Fault variant of Dropped: the statements commit one by one.
DroppedAtOnce(t) == NoTable

\* DROP TABLE manifests, as the disk sees it before COMMIT.
Dropped(t) == t

Rewrite ==
  /\ version \in 2..4 /\ pc = "up"
  /\ Needed(version, table)
  /\ work' = Rewritten(version, table)
  /\ table' = Dropped(table)
  /\ pc' = "rewrite"
  /\ step' = 0
  /\ UNCHANGED <<nextId, applied, version>>

Highest(t) == Max(DOMAIN t.rows \cup {0})

\* bumpSequence draws ids until the next one is above all that are used.
Bumped(t) == Max({nextId, Highest(t) + 1})

\* Fault variant of Reindexed: the indexes went with the old table.
NotReindexed(t) == t

\* recreateManifestsIndexes
Reindexed(t) == [t EXCEPT !.unique = TRUE]

\* The rest of the transaction.  What is drawn from a sequence stays drawn.
Rebuild ==
  /\ pc = "rewrite" /\ step = 0
  /\ work' = Reindexed(work)
  /\ nextId' = IF nextId = 0 THEN 0 ELSE Bumped(work)
  /\ step' = 1
  /\ UNCHANGED <<table, applied, version, pc>>

Commit ==
  /\ pc = "rewrite" /\ step = 1
  /\ table' = work
  /\ work' = NoTable
  /\ step' = 0
  /\ pc' = "record"
  /\ UNCHANGED <<nextId, applied, version>>

\* INSERT INTO schema_migrations, a statement of its own after the COMMIT.
Record ==
  /\ pc = "record"
  /\ applied' = applied \cup {version}
  /\ version' = IF Pending \ {version} = {} THEN 5 ELSE Min(Pending \ {version})
  /\ pc' = "up"
  /\ UNCHANGED <<table, nextId, work, step>>

\* A statement fails, or the process dies: the transaction is gone and the next
\* run begins again.
Interrupted == version' = 0 /\ pc' = "up" /\ work' = NoTable /\ step' = 0

\* The statements of runMigrations, one at a time.
Statement ==
  \/ Begin \/ BaseSchema
  \/ Skip \/ Rewrite \/ Rebuild \/ Commit
  \/ Record

Current(t) ==
  t.exists /\ ~t.hashNotNull /\ ~t.phashNotNull /\ ~t.arns /\ t.artifacts /\ t.unique

(***************************************************************************)
(* Properties                                                              *)
(***************************************************************************)
Tables ==
  [exists : BOOLEAN, hashNotNull : BOOLEAN, phashNotNull : BOOLEAN, arns : BOOLEAN,
   artifacts : BOOLEAN, unique : BOOLEAN,
   rows : UNION {[S -> {Locator, None}] : S \in SUBSET RowIds}]

\* The tables are tables, and the loop of runMigrations is at one of its statements.
DatabaseTypeOK ==
  /\ table \in Tables /\ work \in Tables
  /\ nextId \in Nat
  /\ applied \subseteq Versions /\ version \in 0..5
  /\ pc \in {"up", "rewrite", "record"} /\ step \in 0..3

\* A version is recorded only over a table that no longer needs it, and stays
\* that way: no later migration undoes an earlier one.
AppliedStaysTrue ==
  \A v \in applied \cap 2..4 : ~Needed(v, table)
=============================================================================
