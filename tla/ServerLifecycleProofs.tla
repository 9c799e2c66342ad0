------------------------ MODULE ServerLifecycleProofs ------------------------
(***************************************************************************)
(* Databases of every release, for every set of row ids and any number of  *)
(* crashes, failures and signals: the migrations keep what was written and *)
(* what was recorded, and end in the shape the code works with.            *)
(***************************************************************************)
EXTENDS ServerLifecycle, FiniteSetTheorems, WellFoundedInduction, TLAPS

\* The shape of a table.
TableTyped(t) ==
  /\ DOMAIN t = {"exists", "hashNotNull", "phashNotNull", "arns", "artifacts",
                  "unique", "rows"}
  /\ t.rows \in [DOMAIN t.rows -> {Locator, None}]

Settled(versions, t) == \A v \in versions \cap 2..4 : ~Needed(v, t)

\* Versions are recorded in order, and the one that runs is the next.
InOrder ==
  /\ applied \subseteq Versions
  /\ \A v \in applied, u \in Versions : u < v => u \in applied
  /\ version \in 0..5
  /\ version \in Versions =>
       version \notin applied /\ \A u \in Versions : u < version => u \in applied
  /\ version = 5 => applied = Versions

\* How far the migration has come, and what it must have achieved by then.
Progress ==
  /\ pc \in {"up", "rewrite", "record"}
  /\ pc # "up" => version \in Versions
  /\ pc = "rewrite" =>
       /\ version \in 2..4
       /\ TableTyped(work) /\ work.rows = table.rows
       /\ Settled(applied \cup {version}, work)
  /\ pc = "record" => Settled({version}, table)

\* Only the current release fills the artifact columns, which migrations 2 and 3
\* would empty; and there are no rows before there is a table to create.
NothingToLose ==
  /\ applied # Versions => \A i \in DOMAIN table.rows : table.rows[i] = None
  /\ 1 \notin applied /\ ~table.exists => DOMAIN table.rows = {}

Serving ==
  /\ stage = "serving" => version = 5
  /\ insert # 0 => stage = "serving"
  /\ acknowledged \subseteq DOMAIN table.rows

Inv ==
  /\ TableTyped(table)
  /\ InOrder
  /\ Settled(applied, table)
  /\ Progress
  /\ NothingToLose
  /\ Serving

RowsKept ==
  /\ \A i \in DOMAIN table.rows :
       i \in DOMAIN table'.rows /\ table'.rows[i] = table.rows[i]
  /\ acknowledged' \subseteq DOMAIN table'.rows

\* The next version is the least that is missing.
LEMMA NextVersionIs ==
  ASSUME NEW S \in SUBSET Versions, S # {}
  PROVE  Min(S) \in S /\ \A u \in S : Min(S) <= u
<1>1. \A x \in S : x \in {1, 2, 3, 4}
  BY DEF Versions
<1>2. \E x \in S : \A y \in S : x <= y
  <2>1. CASE 1 \in S
    <3>1. \A y \in S : 1 <= y
      BY <1>1
    <3> QED BY <2>1, <3>1
  <2>2. CASE 1 \notin S /\ 2 \in S
    <3>1. \A y \in S : 2 <= y
      BY <1>1, <2>2
    <3> QED BY <2>2, <3>1
  <2>3. CASE 1 \notin S /\ 2 \notin S /\ 3 \in S
    <3>1. \A y \in S : 3 <= y
      BY <1>1, <2>3
    <3> QED BY <2>3, <3>1
  <2>4. CASE 1 \notin S /\ 2 \notin S /\ 3 \notin S
    <3>1. \A y \in S : y = 4
      BY <1>1, <2>4
    <3> QED BY <3>1
  <2> QED BY <2>1, <2>2, <2>3, <2>4
<1> QED BY <1>2 DEF Min

\* What a release left behind needs none of the migrations it knew.
LEMMA LeftByTyped ==
  ASSUME NEW n \in 0..4, NEW S, NEW rows \in [S -> {Locator, None}]
  PROVE  TableTyped(LeftBy(n, rows)) /\ Settled(1..n, LeftBy(n, rows))
<1> DEFINE t == LeftBy(n, rows)
<1>1. t.exists /\ t.rows = rows
  BY DEF LeftBy
<1>2. TableTyped(t)
  BY <1>1 DEF TableTyped, LeftBy
<1>3. n >= 2 => ~t.hashNotNull
  <2>1. n >= 2 => (n < 2) = FALSE
    OBVIOUS
  <2> QED BY <2>1, Zenon DEF LeftBy
<1>4. n >= 3 => ~t.arns
  <2>1. n >= 3 => (n < 3) = FALSE
    OBVIOUS
  <2> QED BY <2>1, Zenon DEF LeftBy
<1>5. n = 4 => t.artifacts /\ ~t.phashNotNull
  <2>1. n = 4 => (n < 4) = FALSE
    OBVIOUS
  <2> QED BY <2>1, Zenon DEF LeftBy
<1>6. \A v \in (1..n) \cap 2..4 : ~Needed(v, t)
  <2> HIDE DEF t
  <2> QED BY <1>3, <1>4, <1>5 DEF Needed
<1> QED BY <1>2, <1>6 DEF Settled

\* Every database a start may find satisfies the invariant.
LEMMA Begins == Init => Inv
<1> SUFFICES ASSUME Init PROVE Inv
  OBVIOUS
<1>1. /\ version = 0 /\ pc = "up" /\ stage = "opening" /\ insert = 0
      /\ acknowledged = DOMAIN table.rows
  BY DEF Init, DatabaseInit
<1>2. CASE table = NoTable /\ applied = {}
  <2>1. TableTyped(NoTable)
    BY DEF TableTyped, NoTable
  <2>2. DOMAIN table.rows = {}
    BY <1>2 DEF NoTable
  <2> QED BY <1>1, <1>2, <2>1, <2>2
          DEF Inv, InOrder, Settled, Progress, NothingToLose, Serving, Versions
<1>3. ASSUME NEW n \in 0..4, NEW S \in SUBSET RowIds,
             NEW rows \in [S -> IF n = 4 THEN {Locator, None} ELSE {None}],
             table = LeftBy(n, rows), applied = 1..n
      PROVE  Inv
  <2>1. rows \in [S -> {Locator, None}]
    OBVIOUS
  <2>2. TableTyped(table) /\ Settled(applied, table)
    BY <1>3, <2>1, LeftByTyped
  <2>3. NothingToLose
    <3>1. table.exists /\ table.rows = rows
      BY <1>3 DEF LeftBy
    <3>2. applied # Versions => n # 4
      BY <1>3 DEF Versions
    <3> QED BY <3>1, <3>2 DEF NothingToLose
  <2>4. InOrder
    BY <1>1, <1>3 DEF InOrder, Versions
  <2> QED BY <1>1, <2>2, <2>3, <2>4 DEF Inv, Progress, Serving
<1> QED BY <1>2, <1>3 DEF Init, DatabaseInit

Kept == UNCHANGED <<table, applied, version, pc, work>>

\* A step that leaves the table and the migration alone keeps it,
LEMMA KeptInv ==
  ASSUME Inv, Kept, Serving'
  PROVE  Inv' /\ RowsKept
<1>1. TableTyped(table)' /\ Settled(applied, table)'
  BY DEF Inv, Kept
<1>2. InOrder' /\ Progress' /\ NothingToLose'
  BY DEF Inv, Kept, InOrder, Progress, NothingToLose
<1>3. RowsKept
  BY DEF RowsKept, Kept, Serving
<1> QED BY <1>1, <1>2, <1>3 DEF Inv

\* and so does the end of the process, wherever it comes.
LEMMA DownKeeps ==
  ASSUME Inv, Down
  PROVE  Inv' /\ RowsKept
<1>1. /\ UNCHANGED <<table, applied, acknowledged>>
      /\ version' = 0 /\ pc' = "up" /\ stage' = "opening" /\ insert' = 0
  BY DEF Down, Interrupted
<1>2. TableTyped(table)' /\ Settled(applied, table)'
  BY <1>1 DEF Inv
<1>3. InOrder'
  BY <1>1 DEF Inv, InOrder, Versions
<1>4. Progress'
  BY <1>1 DEF Progress
<1>5. NothingToLose' /\ Serving' /\ RowsKept
  BY <1>1 DEF Inv, NothingToLose, Serving, RowsKept
<1> QED BY <1>2, <1>3, <1>4, <1>5 DEF Inv

\* The server's own steps and its requests, except the COMMIT of a row.
LEMMA ProcessKeeps ==
  ASSUME Inv,
         \/ Launch \/ Opened \/ Serve \/ Insert \/ InsertFails \/ Acknowledge
         \/ UNCHANGED vars
         \/ /\ stage # "opening"
            /\ UNCHANGED <<databaseVars, program, stage, insert, acknowledged>>
  PROVE  Inv' /\ RowsKept
<1>1. Kept
  BY DEF Launch, Opened, Serve, Insert, InsertFails, Acknowledge, vars, databaseVars,
         runVars, Kept
<1>2. Serving
  BY DEF Inv
<1>3. Serving'
  <2>1. CASE Launch
    BY <1>1, <1>2, <2>1 DEF Launch, Serving, Kept
  <2>2. CASE Opened
    BY <1>1, <1>2, <2>2 DEF Opened, Serving, Kept
  <2>3. CASE Serve
    BY <1>1, <1>2, <2>3 DEF Serve, Migrated, Serving, Kept
  <2>4. CASE Insert
    BY <1>1, <1>2, <2>4 DEF Insert, Serving, Kept
  <2>5. CASE InsertFails
    BY <1>1, <1>2, <2>5 DEF InsertFails, Serving, Kept
  <2>6. CASE Acknowledge
    BY <1>1, <1>2, <2>6 DEF Acknowledge, Stored, Serving, Kept
  <2>7. CASE UNCHANGED vars \/ UNCHANGED <<stage, insert, acknowledged>>
    BY <1>1, <1>2, <2>7 DEF vars, processVars, Serving, Kept
  <2> QED BY <2>1, <2>2, <2>3, <2>4, <2>5, <2>6, <2>7
<1> QED BY <1>1, <1>3, KeptInv

\* The COMMIT of a row adds to what is kept.
LEMMA CommitInsertKeeps ==
  ASSUME Inv, CommitInsert
  PROVE  Inv' /\ RowsKept
<1>1. /\ insert \notin DOMAIN table.rows /\ stage = "serving" /\ version = 5
      /\ applied = Versions
  BY DEF Inv, CommitInsert, Serving, InOrder
<1> DEFINE rows == WithRow(table.rows, insert)
<1>2. /\ table' = [table EXCEPT !.rows = rows]
      /\ UNCHANGED <<applied, version, pc, work, stage, insert, acknowledged>>
  BY DEF CommitInsert, runVars, processVars
<1>3. TableTyped(table)
  BY DEF Inv
<1>4. /\ DOMAIN rows = DOMAIN table.rows \cup {insert}
      /\ \A i \in DOMAIN table.rows : rows[i] = table.rows[i]
      /\ rows \in [DOMAIN rows -> {Locator, None}]
  BY <1>1, <1>3 DEF WithRow, TableTyped
<1> HIDE DEF rows
<1>5. /\ table'.rows = rows
      /\ \A f \in DOMAIN table \ {"rows"} : table'[f] = table[f]
      /\ DOMAIN table' = DOMAIN table
  BY <1>2, <1>3 DEF TableTyped
<1>6. TableTyped(table')
  BY <1>3, <1>4, <1>5 DEF TableTyped
<1>7. Settled(applied', table')
  <2>1. \A v \in 2..4 : Needed(v, table') = Needed(v, table)
    BY <1>3, <1>5 DEF Needed, TableTyped
  <2> QED BY <1>2, <2>1 DEF Inv, Settled
<1>8. InOrder'
  BY <1>2 DEF Inv, InOrder
<1>9. Progress'
  <2>1. pc # "record" /\ pc # "rewrite"
    BY <1>1 DEF Inv, Progress, Versions
  <2> QED BY <1>2, <2>1 DEF Inv, Progress
<1>10. NothingToLose'
  BY <1>1, <1>2 DEF NothingToLose, Versions
<1>11. Serving' /\ RowsKept
  BY <1>2, <1>4, <1>5 DEF Inv, Serving, RowsKept
<1> QED BY <1>6, <1>7, <1>8, <1>9, <1>10, <1>11 DEF Inv

(***************************************************************************)
(* The statements of the migrations                                        *)
(***************************************************************************)
\* What the process contributes to such a step: it is not serving yet.
Idle ==
  /\ stage = "migrating"
  /\ UNCHANGED <<stage, insert, acknowledged>>

SameRows == \A i \in DOMAIN table.rows :
  i \in DOMAIN table'.rows /\ table'.rows[i] = table.rows[i]

\* A statement of a migration has only the rows to keep.
LEMMA IdleKeeps ==
  ASSUME Inv, Idle, SameRows
  PROVE  Serving' /\ RowsKept
BY DEF Inv, Idle, SameRows, Serving, RowsKept

\* The version the loop takes up, S being the versions that are still to come.
LEMMA TakesUpNext ==
  ASSUME applied' \subseteq Versions,
         \A v \in applied', u \in Versions : u < v => u \in applied',
         NEW S, S = {v \in Versions : v \notin applied'},
         version' = IF S = {} THEN 5 ELSE Min(S)
  PROVE  InOrder'
<1>1. CASE S = {}
  <2>1. applied' = Versions
    BY <1>1
  <2> QED BY <1>1, <2>1 DEF InOrder, Versions
<1>2. CASE S # {}
  <2>1. version' \in S /\ \A u \in S : version' <= u
    BY <1>2, NextVersionIs
  <2>2. version' \in 1..4 /\ version' \notin applied'
    BY <2>1 DEF Versions
  <2>3. \A u \in Versions : u < version' => u \in applied'
    BY <2>1, <2>2 DEF Versions
  <2> QED BY <2>2, <2>3 DEF InOrder, Versions
<1> QED BY <1>1, <1>2

\* The loop takes up the first missing version.
LEMMA BeginKeeps ==
  ASSUME Inv, Begin, Idle
  PROVE  Inv' /\ RowsKept
<1>1. UNCHANGED <<table, applied>> /\ pc' = "up" /\ version' = NextVersion
  BY DEF Begin
<1>2. InOrder'
  BY <1>1, TakesUpNext DEF Inv, InOrder, NextVersion, Pending
<1>3. TableTyped(table)' /\ Settled(applied, table)' /\ NothingToLose' /\ Progress'
  BY <1>1 DEF Inv, NothingToLose, Progress
<1>4. SameRows
  BY <1>1 DEF SameRows
<1> QED BY <1>2, <1>3, <1>4, IdleKeeps DEF Inv

\* Migration 1 creates what is missing and changes no row.
LEMMA BaseSchemaKeeps ==
  ASSUME Inv, BaseSchema, Idle
  PROVE  Inv' /\ RowsKept
<1>1. applied = {} /\ version = 1
  BY DEF Inv, BaseSchema, InOrder, Versions
<1>2. /\ UNCHANGED <<applied, version>> /\ pc' \in {"up", "record"}
      /\ table' \in {table, TableCreated, ColumnsAdded, IndexCreated}
  BY DEF BaseSchema
<1>3. TableTyped(table) /\ NothingToLose
  BY DEF Inv
<1>4. /\ TableTyped(table')
      /\ table.exists => table'.exists
      /\ table'.rows # table.rows => ~table.exists /\ table'.rows = <<>>
      /\ ~table'.exists => table'.rows = table.rows
  <2>1. CASE table' = table
    BY <1>3, <2>1
  <2>2. CASE table' = TableCreated
    BY <1>3, <2>2 DEF TableCreated, NoTable, TableTyped
  <2>3. CASE table' = ColumnsAdded
    BY <1>3, <2>3 DEF ColumnsAdded, TableTyped
  <2>4. CASE table' = IndexCreated
    BY <1>3, <2>4 DEF IndexCreated, TableTyped
  <2> QED BY <1>2, <2>1, <2>2, <2>3, <2>4
<1>5. SameRows /\ \A i \in DOMAIN table'.rows : table'.rows[i] = None
  BY <1>1, <1>3, <1>4 DEF SameRows, NothingToLose, Versions
<1>6. NothingToLose'
  BY <1>3, <1>4, <1>5, <1>2 DEF NothingToLose
<1>7. InOrder' /\ Settled(applied, table)'
  BY <1>1, <1>2 DEF Inv, InOrder, Settled
<1>8. Progress'
  BY <1>1, <1>2 DEF Progress, Settled, Versions
<1> QED BY <1>4, <1>5, <1>6, <1>7, <1>8, IdleKeeps DEF Inv

\* A migration that is not needed leaves its record true.
LEMMA SkipKeeps ==
  ASSUME Inv, Skip, Idle
  PROVE  Inv' /\ RowsKept
<1>1. /\ UNCHANGED <<table, applied, version>> /\ pc' = "record"
      /\ version \in 2..4 /\ ~Needed(version, table)
  BY DEF Skip
<1>2. SameRows
  BY <1>1 DEF SameRows
<1>3. InOrder' /\ TableTyped(table)' /\ Settled(applied, table)' /\ NothingToLose'
  BY <1>1 DEF Inv, InOrder, NothingToLose
<1>4. Progress'
  BY <1>1 DEF Progress, Settled, Versions
<1> QED BY <1>2, <1>3, <1>4, IdleKeeps DEF Inv

\* Where migrations 2 and 3 drop the artifact columns, they were empty.
LEMMA CopiedIsSame ==
  ASSUME Inv, version \in 2..4
  PROVE  Copied(version, table.rows) = table.rows
<1>1. CASE version = 4
  BY <1>1 DEF Copied
<1>2. CASE version # 4
  <2>1. applied # Versions
    BY DEF Inv, InOrder, Versions
  <2>2. table.rows = [i \in DOMAIN table.rows |-> None]
    BY <2>1 DEF Inv, NothingToLose, TableTyped
  <2> QED BY <1>2, <2>2 DEF Copied
<1> QED BY <1>1, <1>2

\* What is rewritten is inside the transaction only,
LEMMA RewriteKeeps ==
  ASSUME Inv, Rewrite, Idle
  PROVE  Inv' /\ RowsKept
<1>1. /\ UNCHANGED <<table, applied, version>> /\ pc' = "rewrite"
      /\ version \in 2..4 /\ work' = Rewritten(version, table)
  BY DEF Rewrite, Dropped
<1>2. SameRows
  BY <1>1 DEF SameRows
<1>3. InOrder' /\ TableTyped(table)' /\ Settled(applied, table)' /\ NothingToLose'
  BY <1>1 DEF Inv, InOrder, NothingToLose
<1>4. TableTyped(work') /\ work'.rows = table'.rows
  BY <1>1, CopiedIsSame DEF Inv, Rewritten, TableTyped
<1>5. ~work'.hashNotNull /\ ~work'.arns
  BY <1>1 DEF Rewritten
<1>6. version = 4 => work'.artifacts /\ ~work'.phashNotNull
  <2>1. version = 4 => (version = 4) = TRUE /\ (version # 4) = FALSE
    OBVIOUS
  <2> QED BY <1>1, <2>1, Zenon DEF Rewritten
<1>7. \A v \in applied \cup {version} : v <= version
  BY <1>1 DEF Inv, InOrder, Versions
<1>8. Settled(applied' \cup {version'}, work')
  BY <1>1, <1>5, <1>6, <1>7 DEF Settled, Needed
<1>9. Progress'
  BY <1>1, <1>4, <1>8 DEF Progress, Versions
<1> QED BY <1>2, <1>3, <1>9, IdleKeeps DEF Inv

\* and so are its indexes,
LEMMA RebuildKeeps ==
  ASSUME Inv, Rebuild, Idle
  PROVE  Inv' /\ RowsKept
<1>1. /\ UNCHANGED <<table, applied, version, pc>> /\ pc = "rewrite"
      /\ work' = [work EXCEPT !.unique = TRUE]
  BY DEF Rebuild, Reindexed
<1>2. SameRows
  BY <1>1 DEF SameRows
<1>3. InOrder' /\ TableTyped(table)' /\ Settled(applied, table)' /\ NothingToLose'
  BY <1>1 DEF Inv, InOrder, NothingToLose
<1>4. /\ version \in 2..4 /\ TableTyped(work) /\ work.rows = table.rows
      /\ Settled(applied \cup {version}, work)
  BY <1>1 DEF Inv, Progress
<1>5. /\ DOMAIN work' = DOMAIN work
      /\ \A f \in DOMAIN work \ {"unique"} : work'[f] = work[f]
  BY <1>1
<1>6. TableTyped(work') /\ work'.rows = table'.rows
  BY <1>1, <1>4, <1>5 DEF TableTyped
<1>7. \A v \in 2..4 : Needed(v, work') = Needed(v, work)
  BY <1>4, <1>5 DEF Needed, TableTyped
<1>8. Settled(applied' \cup {version'}, work')
  BY <1>1, <1>4, <1>7 DEF Settled
<1>9. Progress'
  BY <1>1, <1>4, <1>6, <1>8 DEF Progress, Versions
<1> QED BY <1>2, <1>3, <1>9, IdleKeeps DEF Inv

\* until the COMMIT, which puts the same rows in the place of the old ones.
LEMMA CommitKeeps ==
  ASSUME Inv, Commit, Idle
  PROVE  Inv' /\ RowsKept
<1>1. /\ UNCHANGED <<applied, version>> /\ pc = "rewrite" /\ pc' = "record"
      /\ table' = work
  BY DEF Commit
<1>2. /\ version \in 2..4 /\ TableTyped(work) /\ work.rows = table.rows
      /\ Settled(applied \cup {version}, work)
  BY <1>1 DEF Inv, Progress
<1>3. SameRows
  BY <1>1, <1>2 DEF SameRows
<1>4. 1 \in applied
  BY <1>2 DEF Inv, InOrder, Versions
<1>5. InOrder' /\ TableTyped(table)' /\ Settled(applied, table)' /\ NothingToLose'
  BY <1>1, <1>2, <1>4 DEF Inv, InOrder, NothingToLose, Settled
<1>6. Progress'
  BY <1>1, <1>2 DEF Progress, Settled, Versions
<1> QED BY <1>3, <1>5, <1>6, IdleKeeps DEF Inv

\* A version is recorded after the fact.
LEMMA RecordKeeps ==
  ASSUME Inv, Record, Idle
  PROVE  Inv' /\ RowsKept
<1>1. /\ UNCHANGED table /\ pc = "record" /\ pc' = "up"
      /\ applied' = applied \cup {version}
      /\ version' = IF Pending \ {version} = {} THEN 5 ELSE Min(Pending \ {version})
  BY DEF Record
<1>2. version \in Versions /\ Settled({version}, table)
  BY <1>1 DEF Inv, Progress
<1>3. SameRows
  BY <1>1 DEF SameRows
<1>4. InOrder'
  <2>1. applied' \subseteq Versions
    BY <1>1, <1>2 DEF Inv, InOrder
  <2>2. \A v \in applied', u \in Versions : u < v => u \in applied'
    BY <1>1, <1>2 DEF Inv, InOrder
  <2>3. Pending \ {version} = {v \in Versions : v \notin applied'}
    BY <1>1 DEF Pending
  <2> QED BY <1>1, <2>1, <2>2, <2>3, TakesUpNext
<1>5. TableTyped(table)' /\ Settled(applied, table)'
  BY <1>1, <1>2 DEF Inv, Settled
<1>6. NothingToLose'
  BY <1>1, <1>2 DEF Inv, InOrder, NothingToLose
<1>7. Progress'
  BY <1>1 DEF Progress
<1> QED BY <1>3, <1>4, <1>5, <1>6, <1>7, IdleKeeps DEF Inv

\* Every step keeps the invariant and the rows.
LEMMA StepKeeps ==
  ASSUME Inv, [Next]_vars
  PROVE  Inv' /\ RowsKept
<1>1. CASE \/ Launch \/ Opened \/ Serve \/ Insert \/ InsertFails \/ Acknowledge
           \/ UNCHANGED vars
  BY <1>1, ProcessKeeps
<1>2. CASE Migrating
  <2>1. Idle
    BY <1>2 DEF Migrating, Idle, processVars
  <2>2. CASE Begin
    BY <2>1, <2>2, BeginKeeps
  <2>3. CASE BaseSchema
    BY <2>1, <2>3, BaseSchemaKeeps
  <2>4. CASE Skip
    BY <2>1, <2>4, SkipKeeps
  <2>5. CASE Rewrite
    BY <2>1, <2>5, RewriteKeeps
  <2>6. CASE Rebuild
    BY <2>1, <2>6, RebuildKeeps
  <2>7. CASE Commit
    BY <2>1, <2>7, CommitKeeps
  <2>8. CASE Record
    BY <2>1, <2>8, RecordKeeps
  <2> QED BY <1>2, <2>2, <2>3, <2>4, <2>5, <2>6, <2>7, <2>8 DEF Migrating, Statement
<1>3. CASE Finish \/ Closed \/ StartFails \/ Crash
  BY <1>3, DownKeeps DEF Finish, Closed, StartFails, Crash
<1>4. CASE CommitInsert
  BY <1>4, CommitInsertKeeps
<1>5. CASE Signal
  <2>1. CASE Down
    BY <2>1, DownKeeps
  <2>2. CASE ~Down
    BY <1>5, <2>2, ProcessKeeps DEF Signal
  <2> QED BY <2>1, <2>2
<1> QED BY <1>1, <1>2, <1>3, <1>4, <1>5 DEF Next, Own, Requests, Outside

\* The invariant of the migrations.
LEMMA Invariance == Spec => []Inv
<1>1. Init => Inv
  BY Begins
<1>2. Inv /\ [Next]_vars => Inv'
  BY StepKeeps
<1> QED BY <1>1, <1>2, PTL DEF Spec

(***************************************************************************)
(* What is served                                                          *)
(***************************************************************************)
\* The sequence is ahead of the rows, except in a database that is older than
\* the migrations, until migration 2 has set it.
Sequenced ==
  /\ nextId \in Nat
  /\ table.exists => nextId > 0
  /\ DOMAIN table.rows \subseteq (IF table.exists THEN RowIds ELSE {})
  /\ ~table.hashNotNull => \A i \in DOMAIN table.rows : i < nextId
  /\ insert # 0 => insert \in RowIds /\ insert < nextId

\* What the statements that have run have made.
Created ==
  /\ step \in 0..3
  /\ version = 1 /\ pc = "up" =>
       (step >= 1 => nextId > 0) /\ (step >= 2 => table.exists)
  /\ 1 \in applied \/ (version = 1 /\ pc = "record") => table.exists /\ table.unique
  /\ pc = "rewrite" =>
       /\ work.exists /\ ~work.hashNotNull
       /\ step = 1 => work.unique /\ \A i \in DOMAIN work.rows : i < nextId

\* A nonempty finite set of numbers has a greatest.
LEMMA MaxIs ==
  ASSUME NEW S \in SUBSET Nat, IsFiniteSet(S), S # {}
  PROVE  Max(S) \in S /\ \A y \in S : y <= Max(S)
<1> DEFINE above == [x \in S |-> {y \in S : y > x}]
           sizes == {Cardinality(above[x]) : x \in S}
<1>1. \A x \in S : above[x] \in SUBSET S /\ IsFiniteSet(above[x]) /\ Cardinality(above[x]) \in Nat
  BY FS_Subset, FS_CardinalityType
<1>2. \A x \in S : \A y \in above[x] : above[y] \in SUBSET above[x] /\ above[y] # above[x] /\ y \in S
  <2> SUFFICES ASSUME NEW x \in S, NEW y \in above[x]
               PROVE  above[y] \in SUBSET above[x] /\ above[y] # above[x] /\ y \in S
    OBVIOUS
  <2>1. y \in S /\ y > x /\ y \notin above[y]
    OBVIOUS
  <2>2. \A z \in above[y] : z \in S /\ z > y
    BY <2>1
  <2>3. \A z \in above[y] : z \in above[x]
    BY <2>1, <2>2
  <2> QED BY <2>1, <2>3
<1>3. \A x \in S : above[x] = {} => \A y \in S : y <= x
  OBVIOUS
<1> HIDE DEF above
<1>4. sizes \in SUBSET Nat /\ sizes # {}
  BY <1>1
<1>5. PICK n \in sizes : \A m \in sizes : ~(<<m, n>> \in OpToRel(<, Nat))
  BY <1>4, NatLessThanWellFounded, WFMin
<1>6. \A m \in sizes : ~(m < n)
  BY <1>4, <1>5 DEF OpToRel
<1>7. PICK x \in S : n = Cardinality(above[x])
  BY <1>5
<1>8. ASSUME NEW y \in above[x] PROVE FALSE
  <2>1. above[y] \in SUBSET above[x] /\ above[y] # above[x] /\ y \in S
    BY <1>2
  <2>2. PICK A, B : A = above[x] /\ B = above[y]
    OBVIOUS
  <2>3. IsFiniteSet(A) /\ B \in SUBSET A /\ A # B
    BY <1>1, <2>1, <2>2
  <2>4. Cardinality(B) <= Cardinality(A) /\ Cardinality(B) # Cardinality(A)
    BY <2>3, FS_Subset
  <2>5. Cardinality(A) \in Nat /\ Cardinality(B) \in Nat /\ Cardinality(B) \in sizes
    BY <1>1, <2>1, <2>2
  <2>6. ~(Cardinality(B) < n) /\ n = Cardinality(A)
    BY <1>6, <1>7, <2>2, <2>5
  <2> QED BY <2>4, <2>5, <2>6
<1>9. \A y \in S : y <= x
  BY <1>3, <1>8
<1>10. \E z \in S : \A y \in S : z >= y
  BY <1>9
<1> QED BY <1>10 DEF Max

\* Ids are numbers.
LEMMA IdsAreNumbers == \A i \in RowIds : i \in Nat
  BY MigrationsAssumption

\* Highest is above all ids, Bumped above them and never behind.
LEMMA HighestIs ==
  ASSUME NEW t, DOMAIN t.rows \subseteq RowIds
  PROVE  /\ Highest(t) \in Nat /\ \A i \in DOMAIN t.rows : i <= Highest(t)
         /\ DOMAIN t.rows = {} => Highest(t) = 0
         /\ \A n \in Nat : (n > 0 /\ \A i \in DOMAIN t.rows : i < n) => n > Highest(t)
<1> DEFINE S == DOMAIN t.rows \cup {0}
<1>1. S \in SUBSET Nat /\ S # {}
  BY IdsAreNumbers
<1>2. IsFiniteSet(S)
  BY MigrationsAssumption, FS_Subset, FS_AddElement
<1>3. Max(S) \in S /\ \A y \in S : y <= Max(S)
  BY <1>1, <1>2, MaxIs
<1> QED BY <1>1, <1>3 DEF Highest

\* bumpSequence leaves the sequence above all ids, and never behind.
LEMMA BumpedIs ==
  ASSUME NEW t, DOMAIN t.rows \subseteq RowIds, nextId \in Nat
  PROVE  Bumped(t) \in Nat /\ Bumped(t) >= nextId /\ \A i \in DOMAIN t.rows : i < Bumped(t)
<1>1. Highest(t) \in Nat /\ \A i \in DOMAIN t.rows : i <= Highest(t)
  BY HighestIs
<1>2. PICK S : S = {nextId, Highest(t) + 1}
  OBVIOUS
<1>3. S \in SUBSET Nat /\ S # {} /\ IsFiniteSet(S)
  <2>1. PICK T : T = {nextId}
    OBVIOUS
  <2>2. IsFiniteSet(T) /\ S = T \cup {Highest(t) + 1}
    BY <1>2, <2>1, FS_Singleton
  <2>3. IsFiniteSet(S)
    BY <2>2, FS_AddElement
  <2> QED BY <1>1, <1>2, <2>3
<1>4. Max(S) \in S /\ \A y \in S : y <= Max(S)
  BY <1>3, MaxIs
<1>5. Bumped(t) = Max(S)
  BY <1>2 DEF Bumped
<1>6. \A i \in DOMAIN t.rows : i \in Nat
  BY IdsAreNumbers
<1> QED BY <1>1, <1>2, <1>4, <1>5, <1>6

\* Every database a start may find is on the way.
LEMMA BeginsServable == Init => Sequenced /\ Created
<1> SUFFICES ASSUME Init PROVE Sequenced /\ Created
  OBVIOUS
<1>1. version = 0 /\ pc = "up" /\ insert = 0 /\ step = 0
  BY DEF Init, DatabaseInit
<1>2. CASE table = NoTable /\ nextId = 0 /\ applied = {}
  BY <1>1, <1>2 DEF NoTable, Sequenced, Created
<1>3. ASSUME NEW n \in 0..4, NEW S \in SUBSET RowIds,
             NEW rows \in [S -> IF n = 4 THEN {Locator, None} ELSE {None}],
             table = LeftBy(n, rows), applied = 1..n,
             nextId \in {Max(S \cup {0}) + 1} \cup (IF n = 0 THEN {1} ELSE {})
      PROVE  Sequenced /\ Created
  <2>1. /\ table.exists /\ table.unique /\ table.rows = rows
        /\ DOMAIN table.rows = S
    BY <1>3 DEF LeftBy
  <2>2. n = 0 => table.hashNotNull
    <3>1. n = 0 => (n < 2) = TRUE
      OBVIOUS
    <3> QED BY <1>3, <3>1, Zenon DEF LeftBy
  <2>3. Highest(table) = Max(S \cup {0})
    BY <2>1 DEF Highest
  <2>4. Highest(table) \in Nat /\ \A i \in S : i <= Highest(table)
    BY <2>1, HighestIs
  <2>5. nextId \in Nat /\ nextId > 0 /\ (n # 0 => \A i \in S : i < nextId)
    <3>1. \A i \in S : i \in Nat
      BY IdsAreNumbers
    <3>2. nextId = Highest(table) + 1 \/ (n = 0 /\ nextId = 1)
      BY <1>3, <2>3
    <3> QED BY <2>4, <3>1, <3>2
  <2>6. Sequenced
    BY <1>1, <2>1, <2>2, <2>5 DEF Sequenced
  <2>7. Created
    BY <1>1, <2>1 DEF Created
  <2> QED BY <2>6, <2>7
<1> QED BY <1>2, <1>3 DEF Init, DatabaseInit

Servable == Inv /\ Sequenced /\ Created

\* Steps that leave the database and the migration as they are.
LEMMA SameServable ==
  ASSUME Servable, UNCHANGED databaseVars, insert' \in {insert, 0}
  PROVE  Sequenced' /\ Created'
<1>1. UNCHANGED <<table, nextId, applied, version, pc, work, step>>
  BY DEF databaseVars, runVars
<1>2. Sequenced'
  BY <1>1 DEF Servable, Sequenced
<1>3. Created'
  BY <1>1 DEF Servable, Created
<1> QED BY <1>2, <1>3

\* The end of the process leaves the sequence and the table.
LEMMA DownServable ==
  ASSUME Servable, Down
  PROVE  Sequenced' /\ Created'
<1>1. /\ UNCHANGED <<table, nextId, applied>>
      /\ version' = 0 /\ pc' = "up" /\ insert' = 0 /\ step' = 0
  BY DEF Down, Interrupted
<1>2. Sequenced'
  BY <1>1 DEF Servable, Sequenced
<1>3. Created'
  BY <1>1 DEF Servable, Created
<1> QED BY <1>2, <1>3

\* An id that is drawn is drawn for good.
LEMMA InsertServable ==
  ASSUME Servable, Insert
  PROVE  Sequenced' /\ Created'
<1>1. /\ UNCHANGED <<table, applied, version, pc, work, step>>
      /\ nextId \in RowIds /\ nextId' = nextId + 1 /\ insert' \in {0, nextId}
  BY DEF Insert, runVars
<1>3. nextId \in Nat /\ \A i \in DOMAIN table.rows : i \in Nat
  BY IdsAreNumbers DEF Servable, Sequenced
<1>4. Sequenced'
  BY <1>1, <1>3 DEF Servable, Sequenced
<1>5. Created'
  <2>1. \A i \in DOMAIN work.rows : pc = "rewrite" => i \in Nat
    BY <1>3 DEF Servable, Inv, Progress
  <2> QED BY <1>1, <1>3, <2>1 DEF Servable, Created
<1> QED BY <1>4, <1>5

\* A row that is committed has an id the sequence has passed.
LEMMA CommitInsertServable ==
  ASSUME Servable, CommitInsert
  PROVE  Sequenced' /\ Created'
<1>1. /\ insert # 0 /\ stage = "serving" /\ version = 5 /\ applied = Versions
      /\ insert \in RowIds /\ insert < nextId
  BY DEF Servable, Inv, CommitInsert, Serving, InOrder, Progress, Versions, Sequenced
<1> DEFINE rows == WithRow(table.rows, insert)
<1>2. /\ table' = [table EXCEPT !.rows = rows]
      /\ UNCHANGED <<nextId, applied, version, pc, work, step, insert>>
  BY DEF CommitInsert, runVars, processVars
<1>3. TableTyped(table)
  BY DEF Servable, Inv
<1>4. DOMAIN rows = DOMAIN table.rows \cup {insert}
  BY DEF WithRow
<1> HIDE DEF rows
<1>5. /\ table'.rows = rows /\ table'.exists = table.exists
      /\ table'.unique = table.unique /\ table'.hashNotNull = table.hashNotNull
  BY <1>2, <1>3 DEF TableTyped
<1>6. table.exists
  BY <1>1 DEF Servable, Created, Versions
<1>7. Sequenced'
  BY <1>1, <1>2, <1>4, <1>5, <1>6 DEF Servable, Sequenced
<1>8. Created'
  BY <1>1, <1>2, <1>5 DEF Servable, Created
<1> QED BY <1>7, <1>8

\* The loop starts from what is recorded.
LEMMA BeginServable ==
  ASSUME Servable, Begin, insert' = insert
  PROVE  Sequenced' /\ Created'
<1>1. UNCHANGED <<table, nextId, applied>> /\ pc' = "up" /\ step' = 0
  BY DEF Begin
<1>2. Sequenced'
  BY <1>1 DEF Servable, Sequenced
<1>3. Created'
  BY <1>1 DEF Servable, Created
<1> QED BY <1>2, <1>3

\* Migration 1 makes the sequence, then the table, then the index.
LEMMA BaseSchemaServable ==
  ASSUME Servable, BaseSchema, insert' = insert
  PROVE  Sequenced' /\ Created'
<1>1. /\ version = 1 /\ pc = "up" /\ UNCHANGED <<applied, version, work>>
      /\ step' = (step + 1) % 4 /\ pc' = IF step = 3 THEN "record" ELSE "up"
  BY DEF BaseSchema
<1>2. 1 \notin applied /\ TableTyped(table) /\ nextId \in Nat /\ Sequenced
      /\ (step >= 1 => nextId > 0) /\ (step >= 2 => table.exists)
  BY <1>1 DEF Servable, Inv, InOrder, Versions, Sequenced, Created
<1>3. CASE step = 0
  <2>1. UNCHANGED table /\ nextId' = IF nextId = 0 THEN 1 ELSE nextId
    BY <1>3 DEF BaseSchema, SequenceCreated
  <2>2. step' = 1 /\ pc' = "up"
    BY <1>1, <1>3
  <2>3. nextId' \in Nat /\ nextId' > 0 /\ \A i \in RowIds : i < nextId => i < nextId'
    BY <1>2, <2>1, IdsAreNumbers
  <2>4. Sequenced'
    BY <1>2, <2>1, <2>3 DEF Sequenced
  <2>5. Created'
    BY <1>1, <1>2, <2>1, <2>2 DEF Created
  <2> QED BY <2>4, <2>5
<1>4. CASE step = 1
  <2>1. table' = TableCreated /\ UNCHANGED nextId
    BY <1>4 DEF BaseSchema
  <2>2. step' = 2 /\ pc' = "up"
    BY <1>1, <1>4
  <2>3. /\ table'.exists /\ (table' = table \/ table'.rows = <<>>)
    BY <2>1 DEF TableCreated, NoTable
  <2>4. Sequenced'
    BY <1>2, <1>4, <2>1, <2>3 DEF Sequenced
  <2>5. Created'
    BY <1>1, <1>2, <1>4, <2>1, <2>2, <2>3 DEF Created
  <2> QED BY <2>4, <2>5
<1>5. CASE step = 2
  <2>1. table' = ColumnsAdded /\ UNCHANGED nextId
    BY <1>5 DEF BaseSchema
  <2>2. step' = 3 /\ pc' = "up"
    BY <1>1, <1>5
  <2>3. /\ table'.exists = table.exists /\ table'.rows = table.rows
        /\ table'.hashNotNull = table.hashNotNull
    BY <1>2, <2>1 DEF ColumnsAdded, TableTyped
  <2>4. Sequenced'
    BY <1>2, <2>1, <2>3 DEF Sequenced
  <2>5. Created'
    BY <1>1, <1>2, <1>5, <2>1, <2>2, <2>3 DEF Created
  <2> QED BY <2>4, <2>5
<1>6. CASE step = 3
  <2>1. table' = IndexCreated /\ UNCHANGED nextId
    BY <1>6 DEF BaseSchema
  <2>2. step' = 0 /\ pc' = "record"
    BY <1>1, <1>6
  <2>3. /\ table'.exists = table.exists /\ table'.rows = table.rows
        /\ table'.hashNotNull = table.hashNotNull /\ table'.unique
    BY <1>2, <2>1 DEF IndexCreated, TableTyped
  <2>4. Sequenced'
    BY <1>2, <2>1, <2>3 DEF Sequenced
  <2>5. Created'
    BY <1>1, <1>2, <1>6, <2>1, <2>2, <2>3 DEF Created
  <2> QED BY <2>4, <2>5
<1> QED BY <1>3, <1>4, <1>5, <1>6 DEF BaseSchema

\* The rewritten table exists, and misses its indexes,
LEMMA RewriteServable ==
  ASSUME Servable, Rewrite, insert' = insert
  PROVE  Sequenced' /\ Created'
<1>1. /\ UNCHANGED <<table, nextId, applied, version>> /\ pc' = "rewrite" /\ step' = 0
      /\ work' = Rewritten(version, table)
  BY DEF Rewrite, Dropped
<1>2. work'.exists /\ ~work'.hashNotNull
  BY <1>1 DEF Rewritten
<1>3. Sequenced'
  BY <1>1 DEF Servable, Sequenced
<1>4. Created'
  BY <1>1, <1>2 DEF Servable, Created
<1> QED BY <1>3, <1>4

\* which it gets together with the sequence,
LEMMA RebuildServable ==
  ASSUME Servable, Rebuild, insert' = insert
  PROVE  Sequenced' /\ Created'
<1>1. /\ UNCHANGED <<table, applied, version, pc>> /\ pc = "rewrite" /\ step' = 1
      /\ work' = [work EXCEPT !.unique = TRUE]
      /\ nextId' = IF nextId = 0 THEN 0 ELSE Bumped(work)
  BY DEF Rebuild, Reindexed
<1>2. version \in 2..4 /\ TableTyped(work) /\ work.rows = table.rows
  BY <1>1 DEF Servable, Inv, Progress
<1>3. 1 \in applied
  BY <1>2 DEF Servable, Inv, InOrder, Versions
<1>4. table.exists /\ nextId \in Nat /\ nextId > 0 /\ DOMAIN table.rows \subseteq RowIds
  BY <1>3 DEF Servable, Sequenced, Created
<1>5. nextId' \in Nat /\ nextId' >= nextId /\ \A i \in DOMAIN table.rows : i < nextId'
  BY <1>1, <1>2, <1>4, BumpedIs
<1>6. /\ work'.exists = work.exists /\ work'.hashNotNull = work.hashNotNull
      /\ work'.unique /\ work'.rows = table.rows
  BY <1>1, <1>2 DEF TableTyped
<1>7. insert # 0 => insert \in Nat /\ insert < nextId'
  BY <1>4, <1>5, IdsAreNumbers DEF Servable, Sequenced
<1>8. Sequenced'
  BY <1>1, <1>4, <1>5, <1>7 DEF Servable, Sequenced
<1>9. Created'
  BY <1>1, <1>2, <1>5, <1>6 DEF Servable, Created
<1> QED BY <1>8, <1>9

\* before the COMMIT.
LEMMA CommitServable ==
  ASSUME Servable, Commit, insert' = insert
  PROVE  Sequenced' /\ Created'
<1>1. /\ UNCHANGED <<nextId, applied, version>> /\ pc = "rewrite" /\ step = 1
      /\ table' = work /\ step' = 0 /\ pc' = "record"
  BY DEF Commit
<1>2. version \in 2..4 /\ work.rows = table.rows
  BY <1>1 DEF Servable, Inv, Progress
<1>3. 1 \in applied
  BY <1>2 DEF Servable, Inv, InOrder, Versions
<1>4. /\ work.exists /\ work.unique
      /\ \A i \in DOMAIN work.rows : i < nextId
      /\ table.exists
  BY <1>1, <1>3 DEF Servable, Created
<1>5. Sequenced'
  BY <1>1, <1>2, <1>4 DEF Servable, Sequenced
<1>6. Created'
  BY <1>1, <1>2, <1>4 DEF Servable, Created
<1> QED BY <1>5, <1>6

\* Only migration 1 records version 1.
LEMMA RecordServable ==
  ASSUME Servable, Record, insert' = insert
  PROVE  Sequenced' /\ Created'
<1>1. /\ UNCHANGED <<table, nextId, step>> /\ pc = "record" /\ pc' = "up"
      /\ applied' = applied \cup {version}
      /\ version' = IF Pending \ {version} = {} THEN 5 ELSE Min(Pending \ {version})
  BY DEF Record
<1>2. Sequenced'
  BY <1>1 DEF Servable, Sequenced
<1>3. version' # 1
  <2>1. version \in Versions /\ \A u \in Versions : u < version => u \in applied
    BY <1>1 DEF Servable, Inv, Progress, InOrder
  <2>2. 1 \notin Pending \ {version} /\ Pending \ {version} \in SUBSET Versions
    BY <2>1 DEF Pending, Versions
  <2> QED BY <1>1, <2>2, NextVersionIs
<1>4. 1 \in applied' => table'.exists /\ table'.unique
  BY <1>1 DEF Servable, Created
<1>5. Created'
  BY <1>1, <1>3, <1>4 DEF Servable, Created
<1> QED BY <1>2, <1>5

\* Every step keeps what is needed to serve.
LEMMA ServableStep ==
  ASSUME Servable, [Next]_vars
  PROVE  Servable'
<1>1. Inv'
  BY StepKeeps DEF Servable
<1>2. CASE \/ Launch \/ Opened \/ Serve \/ InsertFails \/ Acknowledge
           \/ UNCHANGED vars
  <2>1. UNCHANGED databaseVars /\ insert' \in {insert, 0}
    BY <1>2 DEF Launch, Opened, Serve, InsertFails, Acknowledge, vars, processVars
  <2> QED BY <1>1, <2>1, SameServable DEF Servable
<1>3. CASE Insert
  BY <1>1, <1>3, InsertServable DEF Servable
<1>4. CASE Migrating
  <2>1. insert' = insert
    BY <1>4 DEF Migrating, processVars
  <2>2. CASE Skip
    <3>1. /\ UNCHANGED <<table, nextId, applied, version, work, step>> /\ pc' = "record"
          /\ version \in 2..4
      BY <2>2 DEF Skip
    <3>2. Sequenced' /\ Created'
      BY <2>1, <3>1 DEF Servable, Sequenced, Created
    <3> QED BY <1>1, <3>2 DEF Servable
  <2>3. CASE Begin
    BY <1>1, <2>1, <2>3, BeginServable DEF Servable
  <2>4. CASE BaseSchema
    BY <1>1, <2>1, <2>4, BaseSchemaServable DEF Servable
  <2>5. CASE Rewrite
    BY <1>1, <2>1, <2>5, RewriteServable DEF Servable
  <2>6. CASE Rebuild
    BY <1>1, <2>1, <2>6, RebuildServable DEF Servable
  <2>7. CASE Commit
    BY <1>1, <2>1, <2>7, CommitServable DEF Servable
  <2>8. CASE Record
    BY <1>1, <2>1, <2>8, RecordServable DEF Servable
  <2> QED BY <1>4, <2>2, <2>3, <2>4, <2>5, <2>6, <2>7, <2>8 DEF Migrating, Statement
<1>5. CASE Finish \/ Closed \/ StartFails \/ Crash
  BY <1>1, <1>5, DownServable DEF Finish, Closed, StartFails, Crash, Servable
<1>6. CASE CommitInsert
  BY <1>1, <1>6, CommitInsertServable DEF Servable
<1>7. CASE Signal
  <2>1. CASE Down
    BY <1>1, <2>1, DownServable DEF Servable
  <2>2. CASE ~Down
    BY <1>1, <1>7, <2>2, SameServable DEF Signal, Servable
  <2> QED BY <2>1, <2>2
<1> QED BY <1>2, <1>3, <1>4, <1>5, <1>6, <1>7 DEF Next, Own, Requests, Outside

(***************************************************************************)
(* Types                                                                   *)
(***************************************************************************)
Typed ==
  /\ table \in Tables /\ work \in Tables
  /\ program \in {"down", "server", "migrate"}
  /\ stage \in {"opening", "migrating", "serving"}
  /\ closers \in Nat /\ events \in 0..MaxEvents

\* No table, and what a release left behind, are tables,
LEMMA FirstTables ==
  /\ NoTable \in Tables
  /\ \A n \in 0..4, S \in SUBSET RowIds : \A rows \in [S -> {Locator, None}] :
       LeftBy(n, rows) \in Tables
<1>1. NoTable \in Tables
  <2>1. {} \in SUBSET RowIds /\ <<>> \in [{} -> {Locator, None}]
    OBVIOUS
  <2>2. <<>> \in UNION {[S -> {Locator, None}] : S \in SUBSET RowIds}
    BY <2>1
  <2> QED BY <2>2 DEF NoTable, Tables
<1>2. ASSUME NEW n \in 0..4, NEW S \in SUBSET RowIds, NEW rows \in [S -> {Locator, None}]
      PROVE  LeftBy(n, rows) \in Tables
  <2>1. rows \in UNION {[T -> {Locator, None}] : T \in SUBSET RowIds}
    OBVIOUS
  <2>2. /\ (n < 2) \in BOOLEAN /\ (n < 4) \in BOOLEAN /\ (n < 3) \in BOOLEAN
        /\ (n = 4) \in BOOLEAN
    OBVIOUS
  <2> QED BY <2>1, <2>2 DEF LeftBy, Tables
<1> QED BY <1>1, <1>2

\* and so is what the statements make of one.
LEMMA NextTables ==
  ASSUME NEW t \in Tables
  PROVE  /\ \A v : Rewritten(v, t) \in Tables
         /\ Reindexed(t) \in Tables /\ [t EXCEPT !.artifacts = TRUE] \in Tables
         /\ \A id \in RowIds : [t EXCEPT !.rows = WithRow(t.rows, id)] \in Tables
<1> DEFINE Rows == UNION {[S -> {Locator, None}] : S \in SUBSET RowIds}
<1>1. PICK S \in SUBSET RowIds : t.rows \in [S -> {Locator, None}]
  BY DEF Tables
<1>2. \A v : Copied(v, t.rows) \in [S -> {Locator, None}]
  BY <1>1 DEF Copied
<1>3. \A id \in RowIds : WithRow(t.rows, id) \in [S \cup {id} -> {Locator, None}]
  BY <1>1 DEF WithRow
<1>4. \A v : Copied(v, t.rows) \in Rows
  BY <1>2
<1>5. ASSUME NEW id \in RowIds PROVE WithRow(t.rows, id) \in Rows
  <2>1. PICK T \in SUBSET RowIds : T = S \cup {id}
    OBVIOUS
  <2>2. WithRow(t.rows, id) \in [T -> {Locator, None}]
    BY <1>3, <2>1
  <2> QED BY <2>2
<1>6. \A id \in RowIds : WithRow(t.rows, id) \in Rows
  BY <1>5
<1>7. \A v : (v = 4) \in BOOLEAN /\ (v # 4) \in BOOLEAN
  OBVIOUS
<1>8. \A v : Rewritten(v, t) \in Tables
  BY <1>4, <1>7 DEF Rewritten, Tables
<1>9. /\ Reindexed(t) \in Tables /\ [t EXCEPT !.artifacts = TRUE] \in Tables
      /\ \A id \in RowIds : [t EXCEPT !.rows = WithRow(t.rows, id)] \in Tables
  BY <1>6 DEF Reindexed, Tables
<1> QED BY <1>8, <1>9

\* The statements of the migrations keep the types,
LEMMA StatementTyped ==
  ASSUME Typed, Statement
  PROVE  table' \in Tables /\ work' \in Tables
<1>1. CASE Begin \/ Skip \/ Record
  BY <1>1, FirstTables DEF Begin, Skip, Record, Typed
<1>2. CASE BaseSchema
  <2>1. TableCreated \in Tables
    <3>1. CASE table.exists
      BY <3>1 DEF TableCreated, Typed
    <3>2. CASE ~table.exists
      BY <3>2, FirstTables DEF TableCreated, Tables
    <3> QED BY <3>1, <3>2
  <2>2. ColumnsAdded \in Tables /\ IndexCreated \in Tables
    BY NextTables DEF ColumnsAdded, IndexCreated, Reindexed, Typed
  <2> QED BY <1>2, <2>1, <2>2 DEF BaseSchema, Typed
<1>3. CASE Rewrite
  BY <1>3, NextTables DEF Rewrite, Dropped, Typed
<1>4. CASE Rebuild
  BY <1>4, NextTables DEF Rebuild, Typed
<1>5. CASE Commit
  BY <1>5, FirstTables DEF Commit, Typed
<1> QED BY <1>1, <1>2, <1>3, <1>4, <1>5 DEF Statement

\* and so does every step.
LEMMA TypedStep ==
  ASSUME Typed, Servable, [Next]_vars
  PROVE  Typed'
<1>1. ASSUME Down, events' \in 0..MaxEvents PROVE Typed'
  BY <1>1, FirstTables DEF Down, Interrupted, Typed
<1>2. Event => events' \in 0..MaxEvents
  BY LifecycleAssumption DEF Event, Typed
<1>3. CASE Launch
  BY <1>2, <1>3 DEF Launch, databaseVars, runVars, Typed
<1>4. CASE Migrating
  BY <1>4, StatementTyped DEF Migrating, processVars, Typed
<1>5. CASE Finish \/ Closed \/ StartFails \/ Crash
  <2>1. Down /\ (events' = events \/ Event)
    BY <1>5 DEF Finish, Closed, StartFails, Crash
  <2> QED BY <1>1, <1>2, <2>1 DEF Typed
<1>6. CASE Opened \/ Serve
  BY <1>6 DEF Opened, Serve, databaseVars, runVars, Typed
<1>7. CASE Insert \/ InsertFails \/ Acknowledge
  BY <1>7 DEF Insert, InsertFails, Acknowledge, databaseVars, runVars, Typed
<1>8. CASE CommitInsert
  <2>1. insert \in RowIds
    BY <1>8 DEF CommitInsert, Servable, Sequenced
  <2> QED BY <1>8, <2>1, NextTables DEF CommitInsert, runVars, processVars, Typed
<1>9. CASE Signal
  <2>1. Event
    BY <1>9 DEF Signal
  <2>2. CASE Down
    BY <1>1, <1>2, <2>1, <2>2
  <2>3. CASE ~Down
    BY <1>2, <1>9, <2>1, <2>3 DEF Signal, databaseVars, runVars, Typed
  <2> QED BY <2>2, <2>3
<1>10. CASE UNCHANGED vars
  BY <1>10 DEF vars, databaseVars, runVars, processVars, Typed
<1> QED BY <1>3, <1>4, <1>5, <1>6, <1>7, <1>8, <1>9, <1>10
        DEF Next, Own, Requests, Outside

\* What is needed to serve holds at all times.
LEMMA ServableAlways == Spec => []Servable
<1>1. Init => Servable
  BY Begins, BeginsServable DEF Servable
<1>2. Servable /\ [Next]_vars => Servable'
  BY ServableStep
<1> QED BY <1>1, <1>2, PTL DEF Spec

\* The tables, the loop of the migrations and the process keep their types, for any
\* rows and any number of crashes.
THEOREM TypeCorrect == Spec => []TypeOK
<1>1. Init => Typed
  <2> SUFFICES ASSUME Init PROVE Typed
    OBVIOUS
  <2>1. table \in Tables
    BY FirstTables DEF Init, DatabaseInit
  <2> QED BY <2>1, FirstTables, LifecycleAssumption DEF Init, DatabaseInit, Typed
<1>2. Servable /\ Typed /\ [Next]_vars => Typed'
  BY TypedStep
<1>3. Servable /\ Typed => TypeOK
  BY DEF Servable, Inv, InOrder, Progress, Serving, Sequenced, Created, Typed, TypeOK,
         DatabaseTypeOK
<1> QED BY <1>1, <1>2, <1>3, ServableAlways, PTL DEF Spec

(***************************************************************************)
(* The theorems                                                            *)
(***************************************************************************)
\* A version in schema_migrations (src/db/migrations.ts) is the truth about the
\* table, over databases of every release and size, however often the migrations
\* are cut short, fail or are repeated by src/migrate.ts.
THEOREM AppliedStaysTrueHolds == Spec => []AppliedStaysTrue
<1>1. Inv => AppliedStaysTrue
  BY DEF Inv, Settled, AppliedStaysTrue
<1> QED BY Invariance, <1>1, PTL

\* No migration, crash, failure or shutdown takes away a row, empties its artifact
\* columns, or makes an answer "indexed" untrue.
THEOREM RowsSurviveHolds == Spec => RowsSurvive
<1>1. Inv /\ [Next]_vars =>
        [/\ \A i \in DOMAIN table.rows :
              i \in DOMAIN table'.rows /\ table'.rows[i] = table.rows[i]
         /\ acknowledged' \subseteq DOMAIN table'.rows]_vars
  BY StepKeeps DEF RowsKept
<1> QED BY Invariance, <1>1, PTL DEF Spec, RowsSurvive

\* Whichever release wrote the database and however many starts were cut short, what
\* is served has the current shape, with the unique index on manifest_id, and a
\* sequence that gives no id a second time.
THEOREM ServesWithSchemaHolds == Spec => []ServesWithSchema
<1>1. Servable => ServesWithSchema
  <2> SUFFICES ASSUME Servable, stage = "serving" PROVE ServesWithSchema
    BY DEF ServesWithSchema
  <2>1. applied = Versions /\ table.exists /\ table.unique
    BY DEF Servable, Inv, Serving, InOrder, Created, Versions
  <2>2. \A v \in 2..4 : ~Needed(v, table)
    BY <2>1 DEF Servable, Inv, Settled, Versions
  <2>3. ~table.hashNotNull /\ ~table.arns /\ table.artifacts /\ ~table.phashNotNull
    BY <2>1, <2>2 DEF Needed
  <2>4. /\ DOMAIN table.rows \subseteq RowIds /\ nextId \in Nat /\ nextId > 0
        /\ \A i \in DOMAIN table.rows : i < nextId
    BY <2>1, <2>3 DEF Servable, Sequenced
  <2>5. nextId > Highest(table)
    BY <2>4, HighestIs
  <2> QED BY <2>1, <2>3, <2>5 DEF ServesWithSchema, Current, Highest
<1> QED BY <1>1, ServableAlways, PTL
=============================================================================
