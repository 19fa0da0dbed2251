----------------------------- MODULE PollCycle -----------------------------
(***************************************************************************)
(* The worker: main() runs poll_once() for ever (worker.py), one tick at a *)
(* time.  A tick refreshes the market and every ticker of the market-watch *)
(* page, then the history of each watchlist symbol, then prunes old quotes.*)
(*                                                                         *)
(* All of a tick shares ONE AsyncSession, and nothing rolls it back: when  *)
(* a flush or a COMMIT fails the session is "poisoned" and every later     *)
(* statement of the tick raises.  A failing INSERT of a batch does not     *)
(* poison it, and leaves the batches before it in the open transaction.    *)
(*                                                                         *)
(* A step of the worker is the code between two awaits that other          *)
(* processes can tell apart.  What may go wrong (a statement, a commit, an *)
(* unstorable row, a crash) is an action of its own, and the faults of a   *)
(* behaviour are at most MaxFaults.  A fetch may fail at any time.  The     *)
(* clock counts units of which a poll interval is a small fraction.        *)
(***************************************************************************)
EXTENDS Repository

CONSTANTS
  Pages,        \* the sets of tickers the market-watch page may list
  PageLabels,   \* how the page may give the tickers' sector
  Lists,        \* the points the site may list of a symbol, as far as they are past
  Watchlist,    \* settings.market_watchlist
  BatchSize,    \* _SQLITE_BATCH_SIZE
  MaxAttempts,  \* max_attempts of _with_retries
  Retention,    \* age at which prune_old_quotes removes a quote
  MaxFaults,    \* bound of the faults in a behaviour
  NoSymbol      \* the value of `cur` outside a row

ASSUME ConfigAssumption ==
  /\ Pages \subseteq SUBSET Symbols /\ PageLabels \subseteq Labels
  /\ Lists \subseteq SUBSET Times
  /\ Watchlist \subseteq Symbols
  /\ BatchSize \in Nat \ {0}
  /\ MaxAttempts \in Nat \ {0}
  /\ Retention \in Nat
  /\ MaxFaults \in Nat
  /\ NoSymbol \notin Symbols

ASSUME FiniteAssumption == IsFiniteSet(Symbols)

VARIABLES
  now, faults,                            \* clock, faults so far
  symbols, quotes, snap, hist, eod,       \* the committed tables
  sess, txn, pendHist, pendEod,           \* the session and its transaction
  wpc, attempt, label, rows, watch,       \* where the tick is, what is left
  cur, found, stamp,                      \* the row under way, the time it is given
  fetched, pts

envVars    == <<now, faults>>
tables     == <<symbols, quotes, snap, hist, eod>>
txnVars    == <<txn, pendHist, pendEod>>
marketVars == <<attempt, label, rows>>
rowVars    == <<cur, found, stamp>>
pointVars  == <<fetched, pts>>
workerVars == <<sess, txnVars, wpc, marketVars, watch, rowVars, pointVars>>
pollVars   == <<envVars, tables, workerVars>>

BatchStages == {"intBatch", "eodHistBatch", "eodBatch"}
MarketStages == {"init", "market", "snapshot", "rows", "symbol", "quote"}
Stages == {"sleep", "init", "market", "snapshot", "rows", "symbol", "quote",
           "watch", "intFetch", "eodFetch", "prune"} \cup BatchStages

PollInit ==
  /\ now = 0 /\ faults = 0
  /\ symbols = [s \in Symbols |-> NoRow]
  /\ snap = [at |-> Never, tickers |-> {}]
  /\ quotes = {} /\ hist = {} /\ eod = {}
  /\ sess = "closed" /\ txn = FALSE /\ pendHist = {} /\ pendEod = {}
  /\ wpc = "sleep" /\ attempt = 1 /\ label = NoSector /\ rows = {} /\ watch = {}
  /\ cur = NoSymbol /\ found = FALSE /\ stamp = Never /\ fetched = {} /\ pts = {}

Goto(stage) == wpc' = stage
Fault == faults < MaxFaults /\ faults' = faults + 1 /\ UNCHANGED now
NoFault == UNCHANGED envVars

-----------------------------------------------------------------------------
\* The transaction.

Active == sess = "active"

\* commit(): what the transaction holds becomes visible, the lock is released
Commit ==
  /\ hist' = hist \cup pendHist
  /\ eod' = eod \cup pendEod
  /\ txn' = FALSE /\ pendHist' = {} /\ pendEod' = {}

DropTransaction == txn' = FALSE /\ pendHist' = {} /\ pendEod' = {}

\* A flush that fails rolls the transaction back and poisons the session
FlushFails == sess' = "poisoned" /\ DropTransaction /\ UNCHANGED tables

\* A COMMIT that fails poisons it too, and the transaction stays open
CommitFails == sess' = "poisoned" /\ txn' = TRUE /\ UNCHANGED <<tables, pendHist, pendEod>>

\* poll_once leaves the session: the open transaction is rolled back
EndTick ==
  /\ Goto("sleep") /\ sess' = "closed"
  /\ attempt' = 1 /\ label' = NoSector /\ rows' = {} /\ watch' = {}
  /\ cur' = NoSymbol /\ found' = FALSE /\ stamp' = Never /\ fetched' = {} /\ pts' = {}

\* What is stored next is given the time that the clock shows now
Stamp == stamp' = now /\ UNCHANGED <<cur, found>>
Unstamp == stamp' = Never /\ UNCHANGED <<cur, found>>

-----------------------------------------------------------------------------
\* main() and the start of a tick.

Wake ==
  /\ wpc = "sleep" /\ Goto("init")
  /\ NoFault
  /\ UNCHANGED <<tables, sess, txnVars, marketVars, watch, rowVars, pointVars>>

InitDb ==
  /\ wpc = "init" /\ Goto("market") /\ sess' = "active"
  /\ NoFault
  /\ UNCHANGED <<tables, txnVars, marketVars, watch, rowVars, pointVars>>

InitDbFails == wpc = "init" /\ Fault /\ EndTick /\ DropTransaction /\ UNCHANGED tables

\* The watchlist loop starts, whatever became of the market refresh
StartWatch ==
  /\ Goto("watch") /\ watch' = Watchlist
  /\ rows' = {} /\ attempt' = 1 /\ label' = NoSector

-----------------------------------------------------------------------------
\* refresh_market: the retried fetch, the snapshot, then a row at a time.

\* Mistake: a page is stored as a snapshot only when there is none yet
FetchMarketOneSnapshot(page, sector) ==
  /\ wpc = "market" /\ page \in Pages /\ sector \in PageLabels
  /\ rows' = page /\ label' = sector /\ attempt' = 1
  /\ Goto(IF snap.at = Never THEN "snapshot" ELSE "rows")
  /\ Stamp /\ NoFault
  /\ UNCHANGED <<tables, sess, txnVars, watch, pointVars>>

FetchMarket(page, sector) ==
  /\ wpc = "market" /\ page \in Pages /\ sector \in PageLabels
  /\ rows' = page /\ label' = sector /\ attempt' = 1
  /\ Goto("snapshot") /\ Stamp
  /\ NoFault
  /\ UNCHANGED <<tables, sess, txnVars, watch, pointVars>>

\* Mistake: one attempt too many
RetryMarketOnceMore ==
  /\ wpc = "market" /\ attempt <= MaxAttempts
  /\ attempt' = attempt + 1
  /\ NoFault
  /\ UNCHANGED <<tables, sess, txnVars, wpc, label, rows, watch, rowVars, pointVars>>

\* A temporary or parse error before the last attempt
RetryMarket ==
  /\ wpc = "market" /\ attempt < MaxAttempts
  /\ attempt' = attempt + 1
  /\ NoFault
  /\ UNCHANGED <<tables, sess, txnVars, wpc, label, rows, watch, rowVars, pointVars>>

\* Mistake: the failure leaves the tick
FetchMarketRaises ==
  /\ wpc = "market"
  /\ EndTick /\ DropTransaction /\ NoFault
  /\ UNCHANGED tables

\* The last attempt failed, or an attempt failed in a way that is not retried
FetchMarketFails ==
  /\ wpc = "market"
  /\ StartWatch /\ NoFault
  /\ UNCHANGED <<tables, sess, txnVars, rowVars, pointVars>>

SnapshotSaved ==
  /\ snap' = [at |-> stamp, tickers |-> rows]
  /\ UNCHANGED <<symbols, quotes, hist, eod>>

SaveSnapshot ==
  /\ wpc = "snapshot" /\ SnapshotSaved
  /\ Goto("rows") /\ Unstamp /\ NoFault
  /\ UNCHANGED <<sess, txnVars, marketVars, watch, pointVars>>

\* It fails, and refresh_market with it: no row is processed
SaveSnapshotFails ==
  /\ wpc = "snapshot" /\ Fault /\ (FlushFails \/ CommitFails) /\ StartWatch
  /\ Unstamp /\ UNCHANGED pointVars

\* The row is committed but reading it back fails: again no row is processed
SaveSnapshotUnread ==
  /\ wpc = "snapshot" /\ Fault /\ SnapshotSaved /\ StartWatch
  /\ Unstamp /\ UNCHANGED <<sess, txnVars, pointVars>>

\* Mistake: a row without a sector is not upserted into `symbols`
SelectSymbolWithSector(s) ==
  /\ wpc = "rows" /\ s \in rows /\ Active
  /\ rows' = rows \ {s} /\ cur' = s /\ found' = (symbols[s] # NoRow)
  /\ Goto(IF label = NoSector THEN "quote" ELSE "symbol") /\ NoFault
  /\ UNCHANGED <<tables, sess, txnVars, attempt, label, watch, stamp, pointVars>>

\* Mistake: the loop over the rows is left after the first
SelectOneSymbol(s) ==
  /\ wpc = "rows" /\ s \in rows /\ Active
  /\ rows' = {} /\ cur' = s /\ found' = (symbols[s] # NoRow)
  /\ Goto("symbol") /\ NoFault
  /\ UNCHANGED <<tables, sess, txnVars, attempt, label, watch, stamp, pointVars>>

\* upsert_symbol looks the symbol up ...
SelectSymbol(s) ==
  /\ wpc = "rows" /\ s \in rows /\ Active
  /\ rows' = rows \ {s} /\ cur' = s /\ found' = (symbols[s] # NoRow)
  /\ Goto("symbol") /\ NoFault
  /\ UNCHANGED <<tables, sess, txnVars, attempt, label, watch, stamp, pointVars>>

\* The SELECT raises, which does no harm to the session; the row is skipped
SelectSymbolFails(s) ==
  /\ wpc = "rows" /\ s \in rows /\ Active
  /\ rows' = rows \ {s} /\ Fault
  /\ UNCHANGED <<tables, sess, txnVars, wpc, attempt, label, watch, rowVars, pointVars>>

\* Mistake: a row that raises is tried again, without end
RowRaisesAgain(s) ==
  /\ wpc = "rows" /\ s \in rows /\ ~Active
  /\ NoFault
  /\ UNCHANGED <<tables, sess, txnVars, wpc, marketVars, watch, rowVars, pointVars>>

\* In a poisoned session every row raises; the loop logs and goes on
RowRaises(s) ==
  /\ wpc = "rows" /\ s \in rows /\ ~Active
  /\ rows' = rows \ {s} /\ NoFault
  /\ UNCHANGED <<tables, sess, txnVars, wpc, attempt, label, watch, rowVars, pointVars>>

NextRow == Goto("rows") /\ cur' = NoSymbol /\ found' = FALSE /\ stamp' = Never

SymbolSaved ==
  /\ found \/ symbols[cur] = NoRow
  /\ symbols' = UpsertSymbol(symbols, cur, label)
  /\ UNCHANGED <<quotes, snap, hist, eod>>

SaveSymbol ==
  /\ wpc = "symbol" /\ SymbolSaved
  /\ Goto("quote") /\ Stamp /\ NoFault
  /\ UNCHANGED <<sess, txnVars, marketVars, watch, pointVars>>

\* Another process inserted the symbol since it was looked up
SymbolTaken ==
  /\ wpc = "symbol" /\ ~found /\ symbols[cur] # NoRow
  /\ FlushFails /\ NextRow /\ NoFault
  /\ UNCHANGED <<marketVars, watch, pointVars>>

SaveSymbolFails ==
  /\ wpc = "symbol" /\ Fault /\ (FlushFails \/ CommitFails) /\ NextRow
  /\ UNCHANGED <<marketVars, watch, pointVars>>

\* Committed, but reading it back fails: the row gets no quote
SaveSymbolUnread ==
  /\ wpc = "symbol" /\ Fault /\ SymbolSaved /\ NextRow
  /\ UNCHANGED <<sess, txnVars, marketVars, watch, pointVars>>

\* upsert_quote (whether or not reading the row back fails afterwards)
SaveQuote ==
  /\ wpc = "quote"
  /\ quotes' = quotes \cup {[symbol |-> cur, at |-> stamp]}
  /\ NextRow /\ NoFault
  /\ UNCHANGED <<symbols, snap, hist, eod, sess, txnVars, marketVars, watch, pointVars>>

\* int(row["volume"]) raises: nothing is sent to the database
BadVolume ==
  /\ wpc = "quote" /\ Fault /\ NextRow
  /\ UNCHANGED <<tables, sess, txnVars, marketVars, watch, pointVars>>

SaveQuoteFails ==
  /\ wpc = "quote" /\ Fault /\ (FlushFails \/ CommitFails) /\ NextRow
  /\ UNCHANGED <<marketVars, watch, pointVars>>

RowsDone ==
  /\ wpc = "rows" /\ rows = {}
  /\ StartWatch /\ NoFault
  /\ UNCHANGED <<tables, sess, txnVars, rowVars, pointVars>>

-----------------------------------------------------------------------------
\* The watchlist: refresh_timeseries(s, "int"), then refresh_eod(s), which
\* stores the same points as "eod" history first and as EOD records after.

WatchNext(s) ==
  /\ wpc = "watch" /\ s \in watch
  /\ watch' = watch \ {s} /\ cur' = s
  /\ Goto("intFetch") /\ NoFault
  /\ UNCHANGED <<tables, sess, txnVars, marketVars, found, stamp, pointVars>>

\* Where the tick goes when a refresh ends, well or not
LeaveRefresh ==
  /\ fetched' = {} /\ pts' = {}
  /\ IF wpc \in {"intFetch", "intBatch"}
       THEN Goto("eodFetch") /\ UNCHANGED cur
       ELSE Goto("watch") /\ cur' = NoSymbol
  /\ UNCHANGED <<marketVars, watch, found, stamp>>

\* The site lists points, at most one per unit of the clock, and those that do
\* not parse are skipped: a list may leave out what an earlier one had, and have
\* what an earlier one left out
FetchPoints(list) ==
  /\ wpc \in {"intFetch", "eodFetch"} /\ Active
  /\ fetched' = list \cap 0..now /\ fetched' # {} /\ pts' = fetched'
  /\ Goto(IF wpc = "intFetch" THEN "intBatch" ELSE "eodHistBatch") /\ NoFault
  /\ UNCHANGED <<tables, sess, txnVars, marketVars, watch, rowVars>>

\* The fetch fails, once and for all (it is not retried), or lists no point
FetchPointsFails ==
  /\ wpc \in {"intFetch", "eodFetch"} /\ Active
  /\ LeaveRefresh /\ NoFault
  /\ UNCHANGED <<tables, sess, txnVars>>

\* The session is poisoned: even if the fetch succeeds, the first statement raises
PointsRaise ==
  /\ wpc \in {"intFetch", "eodFetch"} /\ ~Active
  /\ LeaveRefresh /\ NoFault
  /\ UNCHANGED <<tables, sess, txnVars>>

InsertBatch ==
  /\ wpc \in BatchStages /\ pts # {}
  /\ LET batch == FirstOf(BatchSize, pts)
     IN  /\ pts' = pts \ batch
         /\ IF wpc = "eodBatch"
              THEN /\ pendEod' = pendEod \cup EodRows(eod \cup pendEod, cur, batch)
                   /\ UNCHANGED pendHist
              ELSE /\ pendHist' = pendHist \cup
                        HistoryRows(cur, IF wpc = "intBatch" THEN "int" ELSE "eod", batch)
                   /\ UNCHANGED pendEod
  /\ txn' = TRUE /\ NoFault
  /\ UNCHANGED <<tables, sess, wpc, marketVars, watch, rowVars, fetched>>

\* Mistake: refresh_eod swallows the failure of the history it stores first
InsertBatchFailsUnseen ==
  /\ wpc \in BatchStages /\ pts # {} /\ Fault
  /\ IF wpc = "eodHistBatch"
       THEN Goto("eodBatch") /\ pts' = fetched /\ UNCHANGED <<fetched, rowVars, marketVars, watch>>
       ELSE LeaveRefresh
  /\ UNCHANGED <<tables, sess, txnVars>>

\* Mistake: the refresh starts over when a batch raises
InsertBatchFailsRetried ==
  /\ wpc \in BatchStages /\ pts # {} /\ Fault
  /\ pts' = fetched
  /\ UNCHANGED <<tables, sess, txnVars, wpc, marketVars, watch, rowVars, fetched>>

\* Mistake: the loop over the batches goes on after one that raised
InsertBatchFailsSkipped ==
  /\ wpc \in BatchStages /\ pts # {} /\ Fault
  /\ pts' = pts \ FirstOf(BatchSize, pts)
  /\ UNCHANGED <<tables, sess, txnVars, wpc, marketVars, watch, rowVars, fetched>>

\* The statement raises; the transaction stays open with the batches before
InsertBatchFails ==
  /\ wpc \in BatchStages /\ pts # {} /\ Fault /\ LeaveRefresh
  /\ UNCHANGED <<tables, sess, txnVars>>

\* Mistake: refresh_eod stops when the history it stored was all known before
CommitBatchesIfNew ==
  /\ wpc \in BatchStages /\ pts = {} /\ Commit
  /\ IF wpc = "eodHistBatch" /\ ~(pendHist \subseteq hist)
       THEN Goto("eodBatch") /\ pts' = fetched /\ UNCHANGED <<fetched, rowVars, marketVars, watch>>
       ELSE LeaveRefresh
  /\ NoFault
  /\ UNCHANGED <<symbols, quotes, snap, sess>>

CommitBatches ==
  /\ wpc \in BatchStages /\ pts = {} /\ Commit
  /\ IF wpc = "eodHistBatch"
       THEN Goto("eodBatch") /\ pts' = fetched /\ UNCHANGED <<fetched, rowVars, marketVars, watch>>
       ELSE LeaveRefresh
  /\ NoFault
  /\ UNCHANGED <<symbols, quotes, snap, sess>>

CommitBatchesFails ==
  /\ wpc \in BatchStages /\ pts = {} /\ Fault /\ CommitFails /\ LeaveRefresh

WatchDone ==
  /\ wpc = "watch" /\ watch = {}
  /\ Goto("prune") /\ Stamp /\ NoFault
  /\ UNCHANGED <<tables, sess, txnVars, marketVars, watch, pointVars>>

-----------------------------------------------------------------------------
\* prune_old_quotes, whose commit also commits what a failed batch left

Prune ==
  /\ wpc = "prune" /\ Active
  /\ quotes' = DeleteOldQuotes(quotes, stamp - Retention)
  /\ Commit /\ EndTick /\ NoFault
  /\ UNCHANGED <<symbols, snap>>

\* It raises out of poll_once into main, which logs
PruneRaises ==
  /\ wpc = "prune" /\ ~Active /\ NoFault
  /\ EndTick /\ DropTransaction /\ UNCHANGED tables

PruneFails == wpc = "prune" /\ Fault /\ EndTick /\ DropTransaction /\ UNCHANGED tables

\* The process dies anywhere in a tick; its supervisor starts another
Crash == wpc # "sleep" /\ Fault /\ EndTick /\ DropTransaction /\ UNCHANGED tables

-----------------------------------------------------------------------------
\* The environment.

Advance == now < MaxTime /\ now' = now + 1 /\ UNCHANGED <<faults, tables, workerVars>>

MarketStep ==
  \/ \E page \in Pages, sector \in PageLabels : FetchMarket(page, sector)
  \/ RetryMarket \/ FetchMarketFails
  \/ SaveSnapshot
  \/ \E s \in Symbols : SelectSymbol(s) \/ RowRaises(s)
  \/ SaveSymbol \/ SymbolTaken \/ SaveQuote
  \/ RowsDone

HistoryStep ==
  \/ \E s \in Symbols : WatchNext(s)
  \/ \E list \in Lists : FetchPoints(list)
  \/ FetchPointsFails \/ PointsRaise
  \/ InsertBatch \/ CommitBatches
  \/ WatchDone

WorkerStep ==
  Wake \/ InitDb \/ MarketStep \/ HistoryStep \/ Prune \/ PruneRaises

WorkerFault ==
  \/ InitDbFails \/ SaveSnapshotFails \/ SaveSnapshotUnread
  \/ \E s \in Symbols : SelectSymbolFails(s)
  \/ SaveSymbolFails \/ SaveSymbolUnread \/ BadVolume \/ SaveQuoteFails
  \/ InsertBatchFails \/ CommitBatchesFails \/ PruneFails \/ Crash

PollNext == WorkerStep \/ WorkerFault \/ Advance

-----------------------------------------------------------------------------
\* Properties.

EnvOK == now \in Times /\ faults \in 0..MaxFaults

TablesOK ==
  /\ symbols \in SymbolTable /\ quotes \subseteq QuoteRow /\ snap \in SnapshotRow
  /\ hist \subseteq HistoryRow /\ eod \subseteq EodRow

SessionOK ==
  /\ sess \in {"closed", "active", "poisoned"} /\ txn \in BOOLEAN
  /\ pendHist \subseteq HistoryRow /\ pendEod \subseteq EodRow

TickOK ==
  /\ wpc \in Stages /\ attempt \in 1..MaxAttempts /\ label \in Labels
  /\ rows \subseteq Symbols /\ watch \subseteq Symbols
  /\ cur \in Symbols \cup {NoSymbol} /\ found \in BOOLEAN /\ stamp \in Times \cup {Never}
  /\ fetched \subseteq Times /\ pts \subseteq Times

PollTypeOK == EnvOK /\ TablesOK /\ SessionOK /\ TickOK

\* Every quote is of a symbol the symbols table lists, though the two rows are
\* committed apart and the schema has no foreign key: a row whose symbol could
\* not be stored gets no quote (quote_service.py:70-99).
QuoteHasSymbol == \A q \in quotes : symbols[q.symbol] # NoRow

\* A quote newer than the latest market snapshot is of a ticker that snapshot
\* lists: the snapshot is committed before the quotes of its page, so a reader
\* who joins the two never finds the quotes of a page ahead of its snapshot
\* (quote_service.py:57-64).
SnapshotCoversNewerQuotes ==
  \A q \in quotes : q.at > snap.at => q.symbol \in snap.tickers

\* Every EOD record stands on the "eod" history point it was made from, in
\* spite of the two commits, failed batches whose remains a later commit
\* stores, and crashes between any two steps (quote_service.py:165-166).
EodBackedByHistory ==
  \A e \in eod : [symbol |-> e.symbol, interval |-> "eod", ts |-> e.ts] \in hist

\* One EOD record for each symbol and day, whatever is retried: the conflict
\* clause of an insert sees the rows its own transaction has not committed
\* (repo.py:310, models.py:99).
OneEodPerDay ==
  \A e, f \in eod : e.symbol = f.symbol /\ e.date = f.date => e = f

\* A symbol whose latest quote is within the retention keeps that quote: what
\* a step removes is never the latest quote of a symbol unless the worker has
\* stored none for it for longer than the retention (quote_service.py:168-170).
LatestQuoteKept ==
  [][\A s \in Symbols :
       LatestAt(quotes, s) # Never /\ now - LatestAt(quotes, s) <= Retention
         => LatestAt(quotes', s) >= LatestAt(quotes, s)]_pollVars

\* A sector, once stored, is never blanked, neither by a page without one nor
\* by the API's start-up, which knows none (repo.py:167-168).
SectorNeverBlanked ==
  [][\A s \in Symbols :
       symbols[s] \notin {NoRow, NoSector} => symbols'[s] \notin {NoRow, NoSector}]_pollVars

\* How many steps a tick still takes at most, with the points of a fetch stored
\* one by one
MaxPoints == MaxTime + 1
RefreshSteps == 3 * MaxPoints + 6
WatchLeft(n) == n * RefreshSteps + 2

RefreshLeft ==
  CASE wpc = "intFetch"     -> 3 * MaxPoints + 5
    [] wpc = "intBatch"     -> Cardinality(pts) + 2 * MaxPoints + 4
    [] wpc = "eodFetch"     -> 2 * MaxPoints + 3
    [] wpc = "eodHistBatch" -> Cardinality(pts) + MaxPoints + 2
    [] wpc = "eodBatch"     -> Cardinality(pts) + 1
    [] OTHER                -> 0

MarketLeft ==
  CASE wpc = "init"     -> MaxAttempts + 3 * Cardinality(Symbols) + 3
    [] wpc = "market"   -> (MaxAttempts - attempt) + 3 * Cardinality(Symbols) + 3
    [] wpc = "symbol"   -> 3 * Cardinality(rows) + 3
    [] wpc \in {"snapshot", "quote"} -> 3 * Cardinality(rows) + 2
    [] wpc = "rows"     -> 3 * Cardinality(rows) + 1

StepsLeft ==
  IF wpc = "sleep" THEN 0 ELSE
  IF wpc = "prune" THEN 1 ELSE
  IF wpc \in MarketStages THEN MarketLeft + WatchLeft(Cardinality(Watchlist))
  ELSE RefreshLeft + WatchLeft(Cardinality(watch))

\* Every step of a tick brings its end nearer, the steps that fail too: no
\* failure of a row, a batch or a fetch is answered with more work than it
\* saves, and no stage is entered twice for one symbol (worker.py:18-68).
TickShrinks ==
  [][wpc # "sleep" /\ workerVars' # workerVars => StepsLeft' < StepsLeft]_pollVars

\* A tick in which a row of the page could not be stored still takes up every
\* other row, unless something fails in that row itself: "never let one bad row
\* kill the whole tick" (quote_service.py:96).
BadRowIsolated ==
  [][\A s \in Symbols :
       wpc = "rows" /\ wpc' # "sleep" /\ s \in rows \ rows' => cur' = s \/ faults' # faults]_pollVars
=============================================================================
