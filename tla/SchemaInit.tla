----------------------------- MODULE SchemaInit -----------------------------
(***************************************************************************)
(* init_db (core/database.py), run by the API when it starts and by each   *)
(* worker at every tick, all against one SQLite file, which may be new or  *)
(* written by a version that had no unique index on the quotes.            *)
(*                                                                         *)
(* pysqlite commits DDL on its own until a DML statement opens a           *)
(* transaction: what create_all does becomes visible statement by          *)
(* statement, and the migration, which begins with a DELETE, at once.      *)
(* create_all looks for every table first and then creates what it missed, *)
(* so processes that start together meet each other's tables.  The indexes *)
(* other than the unique one, which no statement depends on, are left out. *)
(***************************************************************************)
EXTENDS Naturals, FiniteSets

CONSTANTS
  Procs,       \* the processes that use the database
  Ticking,     \* the workers among them: they call init_db every tick
  Tables,      \* Base.metadata.tables
  Quotes,      \* stock_quotes
  Stamps,      \* (symbol, source_timestamp) of a quote
  NoStamp,     \* ... when the timestamp is NULL
  OldRows,     \* the rows stock_quotes may hold before
  MaxRows,     \* bound of the ids of rows
  MaxCrashes   \* bound of the crashes

ASSUME SchemaAssumption ==
  /\ IsFiniteSet(Tables) /\ Quotes \in Tables
  /\ Ticking \subseteq Procs /\ NoStamp \notin Stamps
  /\ MaxRows \in Nat /\ MaxCrashes \in Nat
  /\ OldRows \subseteq SUBSET [id : 1..MaxRows, stamp : Stamps \cup {NoStamp}]
  /\ \A rows \in OldRows : \A r, q \in rows : r.id = q.id => r = q

VARIABLES
  tables,      \* the tables of the file
  uq,          \* does the file have uq_stock_quote_symbol_ts
  quotes,      \* the rows of stock_quotes
  stage,       \* where each process is
  unseen,      \* the tables it has still to look for
  missing,     \* those it has not found, to be created
  crashes

fileVars   == <<tables, uq, quotes>>
procVars   == <<stage, unseen, missing>>
schemaVars == <<fileVars, procVars, crashes>>

Rows == [id : 1..MaxRows, stamp : Stamps \cup {NoStamp}]

Unique(rows) ==
  \A r, q \in rows : r.stamp = q.stamp /\ r.stamp # NoStamp => r = q

\* Mistake: rows without a timestamp are not spared
DeduplicatedAll(rows) ==
  {r \in rows : \A q \in rows : q.stamp = r.stamp /\ r.stamp # NoStamp => r.id <= q.id}
     \ {r \in rows : r.stamp = NoStamp}

\* DELETE ... WHERE source_timestamp IS NOT NULL AND id NOT IN (SELECT MIN(id)
\* ... GROUP BY symbol, source_timestamp)
Deduplicated(rows) ==
  {r \in rows : r.stamp # NoStamp => \A q \in rows : q.stamp = r.stamp => r.id <= q.id}

SchemaInit ==
  /\ \/ tables = {} /\ quotes = {}
     \/ tables = Tables /\ quotes \in OldRows
  /\ uq = FALSE
  /\ stage = [p \in Procs |-> "down"]
  /\ unseen = [p \in Procs |-> {}] /\ missing = [p \in Procs |-> {}]
  /\ crashes = 0

\* Mistake: the tables found missing are remembered
StopsWithPlan(p) ==
  /\ stage' = [stage EXCEPT ![p] = "down"]
  /\ unseen' = [unseen EXCEPT ![p] = {}] /\ UNCHANGED missing

\* A process leaves off: it holds no lock and no plan any more
Stops(p) ==
  /\ stage' = [stage EXCEPT ![p] = "down"]
  /\ unseen' = [unseen EXCEPT ![p] = {}] /\ missing' = [missing EXCEPT ![p] = {}]

\* The API starts, or a worker's tick does
Start(p) ==
  /\ stage[p] = "down"
  /\ stage' = [stage EXCEPT ![p] = "tables"]
  /\ unseen' = [unseen EXCEPT ![p] = Tables]
  /\ UNCHANGED <<fileVars, missing, crashes>>

\* create_all, checkfirst: is the table there?
LookFor(p, t) ==
  /\ stage[p] = "tables" /\ t \in unseen[p]
  /\ unseen' = [unseen EXCEPT ![p] = @ \ {t}]
  /\ missing' = [missing EXCEPT ![p] = IF t \in tables THEN @ ELSE @ \cup {t}]
  /\ UNCHANGED <<fileVars, stage, crashes>>

CreateTable(p, t) ==
  /\ stage[p] = "tables" /\ unseen[p] = {} /\ t \in missing[p] /\ t \notin tables
  /\ tables' = tables \cup {t}
  /\ missing' = [missing EXCEPT ![p] = @ \ {t}]
  /\ stage' = [stage EXCEPT ![p] = IF t = Quotes THEN "index" ELSE @]
  /\ UNCHANGED <<uq, quotes, unseen, crashes>>

\* Mistake: the process goes on with the tables it had missed
TableExistsAgain(p, t) ==
  /\ stage[p] = "tables" /\ unseen[p] = {} /\ t \in missing[p] /\ t \in tables
  /\ UNCHANGED schemaVars

\* "table already exists": another process created it since
TableExists(p, t) ==
  /\ stage[p] = "tables" /\ unseen[p] = {} /\ t \in missing[p] /\ t \in tables
  /\ Stops(p) /\ UNCHANGED <<fileVars, crashes>>

\* The index of a table just created
CreateIndex(p) ==
  /\ stage[p] = "index" /\ ~uq /\ Unique(quotes)
  /\ uq' = TRUE /\ stage' = [stage EXCEPT ![p] = "tables"]
  /\ UNCHANGED <<tables, quotes, unseen, missing, crashes>>

\* ... which another process's migration has made already
IndexExists(p) ==
  /\ stage[p] = "index" /\ (uq \/ ~Unique(quotes))
  /\ Stops(p) /\ UNCHANGED <<fileVars, crashes>>

\* Mistake: the index is left to create_all where create_all made the table
MigrateOld(p) ==
  /\ stage[p] = "tables" /\ unseen[p] = {} /\ missing[p] = {}
  /\ Unique(Deduplicated(quotes))
  /\ uq' = (uq \/ quotes # {}) /\ quotes' = Deduplicated(quotes)
  /\ stage' = [stage EXCEPT ![p] = "up"]
  /\ UNCHANGED <<tables, unseen, missing, crashes>>

\* _migrate_sqlite_schema, in one transaction: duplicates go, and the index is
\* made unless it is there
Migrate(p) ==
  /\ stage[p] = "tables" /\ unseen[p] = {} /\ missing[p] = {}
  /\ Unique(Deduplicated(quotes))
  /\ quotes' = Deduplicated(quotes) /\ uq' = TRUE
  /\ stage' = [stage EXCEPT ![p] = "up"]
  /\ UNCHANGED <<tables, unseen, missing, crashes>>

\* A worker stores a quote; an index rejects the stamp of another
StoreQuote(p, stamp) ==
  /\ p \in Ticking /\ stage[p] = "up"
  /\ uq => \A r \in quotes : r.stamp # stamp
  /\ \E id \in 1..MaxRows :
       /\ \A r \in quotes : r.id < id
       /\ id = 1 \/ \E r \in quotes : r.id = id - 1
       /\ quotes' = quotes \cup {[id |-> id, stamp |-> stamp]}
  /\ UNCHANGED <<tables, uq, procVars, crashes>>

\* The tick ends, and the next begins with init_db
EndTick(p) ==
  /\ p \in Ticking /\ stage[p] = "up" /\ Stops(p)
  /\ UNCHANGED <<fileVars, crashes>>

\* The process stops, or a statement fails for another reason
Crash(p) ==
  /\ stage[p] # "down" /\ crashes < MaxCrashes
  /\ crashes' = crashes + 1 /\ Stops(p) /\ UNCHANGED fileVars

Creates(p) ==
  \/ \E t \in Tables : LookFor(p, t) \/ CreateTable(p, t) \/ TableExists(p, t)
  \/ CreateIndex(p) \/ IndexExists(p) \/ Migrate(p)

Works(p) == EndTick(p) \/ \E stamp \in Stamps : StoreQuote(p, stamp)

-----------------------------------------------------------------------------
SchemaTypeOK ==
  /\ tables \subseteq Tables /\ uq \in BOOLEAN /\ quotes \subseteq Rows
  /\ stage \in [Procs -> {"down", "tables", "index", "up"}]
  /\ unseen \in [Procs -> SUBSET Tables] /\ missing \in [Procs -> SUBSET Tables]
  /\ \A p \in Procs : stage[p] \in {"down", "up"} => unseen[p] = {} /\ missing[p] = {}
  /\ crashes \in 0..MaxCrashes

\* A process that is through with init_db finds every table and the unique
\* index, whoever created them, also when the process that created the table
\* stopped before its index: create_all never makes it up, the migration does
\* (database.py:63-69).
UpHasSchema ==
  \A p \in Procs : stage[p] = "up" => tables = Tables /\ uq

\* No start-up loses a quote: a row goes only for an older row of the same
\* symbol and timestamp, and a row without a timestamp never
\* (database.py:36-55).
NothingLost ==
  [][\A r \in quotes \ quotes' :
       r.stamp # NoStamp /\ \E q \in quotes' : q.stamp = r.stamp /\ q.id < r.id]_schemaVars

\* Two quotes of one symbol and time never lie side by side once a process is
\* up, though workers store quotes while others start (models.py:46).
QuotesUnique == (\E p \in Procs : stage[p] = "up") => Unique(quotes)
=============================================================================
