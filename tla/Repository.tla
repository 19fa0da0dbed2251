---------------------------- MODULE Repository ----------------------------
(***************************************************************************)
(* The tables of the data hub (storage/models.py) and what the statements  *)
(* of DataRepository (storage/repo.py) do to them, as operators on values. *)
(* A table is a set of rows, or a function when it has a one-column key.   *)
(* Prices, names and payloads are left out: a row keeps its key and the    *)
(* times the statements compare.                                           *)
(***************************************************************************)
EXTENDS Integers, FiniteSets

CONSTANTS
  Symbols,      \* ticker symbols (upper case: every writer normalises them)
  MaxTime,      \* bound of the clock
  UnitsPerDay   \* units of the clock in one calendar day

ASSUME ClockAssumption == MaxTime \in Nat /\ UnitsPerDay \in Nat \ {0}

Times == 0..MaxTime
Never == -1              \* fetched_at of a row that does not exist

\* sector of a row of `symbols`: no row, a row with NULL, the upstream's code
\* for the sector, or its readable name
NoRow    == "noRow"
NoSector == "null"
Labels   == {NoSector, "code", "name"}

SymbolTable   == [Symbols -> Labels \cup {NoRow}]
QuoteRow      == [symbol : Symbols, at : Times]
HistoryRow    == [symbol : Symbols, interval : {"int", "eod"}, ts : Times]
EodRow        == [symbol : Symbols, date : Nat, ts : Times]
SnapshotRow   == [at : Times \cup {Never}, tickers : SUBSET Symbols]

\* The calendar day of an EOD point: point.period_start.date()
DateOf(ts) == ts \div UnitsPerDay

\* Mistake: the sector is overwritten with whatever the caller knows
UpsertSymbolBlanks(table, s, label) == [table EXCEPT ![s] = label]

\* upsert_symbol: insert, or set the sector only when a label is given
UpsertSymbol(table, s, label) ==
  [table EXCEPT ![s] = IF label # NoSector \/ @ = NoRow THEN label ELSE @]

\* Mistake: a quote exactly as old as the cutoff goes too
DeleteQuotesUpTo(table, before) == {q \in table : q.at > before}

\* delete_old_quotes: DELETE ... WHERE fetched_at < before
DeleteOldQuotes(table, before) == {q \in table : q.at >= before}

HistoryRows(s, interval, points) ==
  {[symbol |-> s, interval |-> interval, ts |-> t] : t \in points}

\* Mistake: the statement looks for a conflict among its own rows only
EodRowsUnchecked(table, s, points) ==
  {[symbol |-> s, date |-> DateOf(t), ts |-> t] :
     t \in {p \in points : \A p2 \in points : DateOf(p2) = DateOf(p) => p <= p2}}

\* upsert_eod_records, one statement: INSERT ... ON CONFLICT (symbol, date)
\* DO NOTHING; of two points of one day the earlier in the list is kept
EodRows(table, s, points) ==
  {[symbol |-> s, date |-> DateOf(t), ts |-> t] :
     t \in {p \in points :
              /\ \A e \in table : e.symbol = s => e.date # DateOf(p)
              /\ \A p2 \in points : DateOf(p2) = DateOf(p) => p <= p2}}

\* The rows of one statement: the first n of the points, which are sorted
FirstOf(n, points) ==
  {t \in points : Cardinality({u \in points : u < t}) < n}

\* get_latest_quote: ORDER BY fetched_at DESC LIMIT 1
LatestAt(table, s) ==
  LET ats == {q.at : q \in {r \in table : r.symbol = s}}
  IN  IF ats = {} THEN Never ELSE CHOOSE t \in ats : \A u \in ats : u <= t
============================================================================
