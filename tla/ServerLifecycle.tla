--------------------------- MODULE ServerLifecycle ---------------------------
(***************************************************************************)
(* The process over one database file: start, shutdown and the signals     *)
(* (src/index.ts), initDatabase and closeDatabase (src/db/index.ts) and    *)
(* the program src/migrate.ts, around the statements of Migrations.        *)
(*                                                                         *)
(* Webhooks are here to the extent that they write: one row at a time, in  *)
(* a transaction, with an id from the sequence.  WebhookIngest has them in *)
(* full, over a database that is open.                                     *)
(***************************************************************************)
EXTENDS Migrations

CONSTANT MaxEvents   \* bound on crashes, failures, signals and runs of migrate

ASSUME LifecycleAssumption == MaxEvents \in Nat

VARIABLES
  program,        \* "down", "server" or "migrate"
  stage,          \* "opening", "migrating" or "serving"
  closers,        \* shutdowns that wait for db.close()
  insert,         \* id of the row a webhook has inserted, 0: none
  acknowledged,   \* ids of rows whose webhook was answered: indexed
  events          \* what has come from outside

processVars == <<program, stage, closers, insert, acknowledged, events>>
vars == <<databaseVars, processVars>>

Init ==
  /\ DatabaseInit
  /\ program = "down" /\ stage = "opening"
  /\ closers = 0 /\ insert = 0 /\ events = 0
  /\ acknowledged = DOMAIN table.rows

Event == events < MaxEvents /\ events' = events + 1

\* The process is gone, and with it every transaction that is open.
Down ==
  /\ program' = "down" /\ stage' = "opening" /\ closers' = 0 /\ insert' = 0
  /\ Interrupted
  /\ UNCHANGED <<table, nextId, applied, acknowledged>>

(***************************************************************************)
(* Start                                                                   *)
(***************************************************************************)
Launch ==
  /\ program = "down"
  /\ \/ program' = "server" /\ UNCHANGED events
     \/ program' = "migrate" /\ Event
  /\ UNCHANGED <<databaseVars, stage, closers, insert, acknowledged>>

\* Database.create; from here on the server has a connection to close.
Opened ==
  /\ program # "down" /\ stage = "opening"
  /\ stage' = "migrating"
  /\ UNCHANGED <<databaseVars, program, closers, insert, acknowledged, events>>

Migrating ==
  /\ stage = "migrating"
  /\ Statement
  /\ UNCHANGED processVars

\* The file cannot be opened, or a statement of a migration fails, perhaps because
\* the connection was closed under it: exit(1).
StartFails ==
  /\ program # "down" /\ stage # "serving"
  /\ Event
  /\ Down

Migrated == version = 5

\* initDatabase has returned, and start() serves.
Serve ==
  /\ program = "server" /\ stage = "migrating" /\ Migrated
  /\ stage' = "serving"
  /\ UNCHANGED <<databaseVars, program, closers, insert, acknowledged, events>>

\* migrate.ts closes the connection and ends.
Finish ==
  /\ program = "migrate" /\ stage = "migrating" /\ Migrated
  /\ Down
  /\ UNCHANGED events

(***************************************************************************)
(* Webhooks                                                                *)
(***************************************************************************)
\* BEGIN and INSERT, which draws the id; it fails on an id that is in use.  The
\* server accepts requests until it exits.
Insert ==
  /\ stage = "serving" /\ insert = 0
  /\ nextId \in RowIds
  /\ nextId' = nextId + 1
  /\ insert' = IF nextId \in DOMAIN table.rows THEN 0 ELSE nextId
  /\ UNCHANGED <<table, applied, runVars, program, stage, closers, acknowledged, events>>

WithRow(rows, id) ==
  [i \in DOMAIN rows \cup {id} |-> IF i = id THEN Locator ELSE rows[i]]

CommitInsert ==
  /\ insert # 0 /\ insert \notin DOMAIN table.rows
  /\ table' = [table EXCEPT !.rows = WithRow(@, insert)]
  /\ UNCHANGED <<nextId, applied, runVars, processVars>>

\* A statement fails, or the connection is closed before the COMMIT.
InsertFails ==
  /\ insert # 0 /\ insert \notin DOMAIN table.rows
  /\ insert' = 0
  /\ UNCHANGED <<databaseVars, program, stage, closers, acknowledged, events>>

Stored(id) == id \in DOMAIN table.rows

Acknowledge ==
  /\ insert # 0 /\ Stored(insert)
  /\ acknowledged' = acknowledged \cup {insert}
  /\ insert' = 0
  /\ UNCHANGED <<databaseVars, program, stage, closers, events>>

(***************************************************************************)
(* Signals and crashes                                                     *)
(***************************************************************************)
\* SIGINT or SIGTERM: the server closes the connection, once for every signal that
\* comes while it does, or exits at once when it has none yet.
Signal ==
  /\ program = "server"
  /\ Event
  /\ \/ stage = "opening" /\ Down
     \/ /\ stage # "opening"
        /\ closers' = closers + 1
        /\ UNCHANGED <<databaseVars, program, stage, insert, acknowledged>>

\* db.close() returns and the process exits, or throws and ends it as an unhandled
\* rejection; in the middle of whatever runs.
Closed ==
  /\ closers > 0
  /\ Down
  /\ UNCHANGED events

Crash ==
  /\ program # "down"
  /\ Event
  /\ Down

Own == Launch \/ Opened \/ Migrating \/ Serve \/ Finish \/ Closed
Requests == Insert \/ CommitInsert \/ InsertFails \/ Acknowledge
Outside == StartFails \/ Signal \/ Crash

Next == Own \/ Requests \/ Outside

\* The supervisor starts the server again; statements and db.close() return.
Fairness == WF_vars(Launch) /\ WF_vars(Opened \/ Migrating \/ Serve \/ Finish) /\ WF_vars(Closed)

Spec == Init /\ [][Next]_vars /\ Fairness

(***************************************************************************)
(* Properties                                                              *)
(***************************************************************************)
\* So is the process, which inserts and acknowledges rows by their ids.
TypeOK ==
  /\ DatabaseTypeOK
  /\ program \in {"down", "server", "migrate"}
  /\ stage \in {"opening", "migrating", "serving"}
  /\ closers \in Nat /\ events \in 0..MaxEvents
  /\ insert \in RowIds \cup {0} /\ acknowledged \subseteq RowIds

\* What is served is served from the shape the code works with, the uniqueness of
\* manifest_id that first-write-wins relies on included, whichever release wrote
\* the file and however many starts were cut short; and no row is refused because
\* a rewrite set the sequence back.
ServesWithSchema ==
  stage = "serving" =>
    /\ applied = Versions /\ Current(table)
    /\ nextId > Max(DOMAIN table.rows \cup {0})

\* Rows, and what their artifact columns hold, survive every migration, crash and
\* shutdown, wherever it strikes; and a webhook is told so only of a row that does.
RowsSurvive ==
  [][/\ \A i \in DOMAIN table.rows :
          i \in DOMAIN table'.rows /\ table'.rows[i] = table.rows[i]
     /\ acknowledged' \subseteq DOMAIN table'.rows]_vars

\* Starts that fail finally come to an end: nothing that a crash or a signal leaves
\* behind keeps the server from serving.
FinallyServes == <>[](stage = "serving")
=============================================================================
