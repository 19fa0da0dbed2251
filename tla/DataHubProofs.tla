--------------------------- MODULE DataHubProofs ---------------------------
(***************************************************************************)
(* Theorems about the worker beside a starting API, for every set of       *)
(* symbols, watchlist, page, batch size, retention and number of faults.   *)
(* Lemmas about the steps of the worker (PollCycle) come first, then those *)
(* of the API, the inductive invariant of both, and the theorems.          *)
(***************************************************************************)
EXTENDS DataHub, NatLemmas

-----------------------------------------------------------------------------
\* What the operators of Repository return.

LEMMA UpsertSymbolType ==
  ASSUME NEW table \in SymbolTable, NEW s \in Symbols, NEW l \in Labels
  PROVE  /\ UpsertSymbol(table, s, l) \in SymbolTable
         /\ UpsertSymbol(table, s, l)[s] # NoRow
         /\ \A r \in Symbols : table[r] # NoRow => UpsertSymbol(table, s, l)[r] # NoRow
         /\ \A r \in Symbols : table[r] \notin {NoRow, NoSector} =>
              UpsertSymbol(table, s, l)[r] \notin {NoRow, NoSector}
BY DEF UpsertSymbol, SymbolTable, Labels, NoRow, NoSector

LEMMA FirstOfSubset == ASSUME NEW n, NEW points PROVE FirstOf(n, points) \subseteq points
BY DEF FirstOf

LEMMA DateOfType == ASSUME NEW t \in Times PROVE DateOf(t) \in Nat
BY ClockAssumption DEF DateOf, Times

LEMMA HistoryRowsType ==
  ASSUME NEW s \in Symbols, NEW i \in {"int", "eod"}, NEW points \in SUBSET Times
  PROVE  HistoryRows(s, i, points) \subseteq HistoryRow
BY DEF HistoryRows, HistoryRow

LEMMA EodRowsType ==
  ASSUME NEW table, NEW s \in Symbols, NEW points \in SUBSET Times
  PROVE  EodRows(table, s, points) \subseteq EodRow
BY DateOfType DEF EodRows, EodRow

-----------------------------------------------------------------------------
USE DEF pollVars, workerVars, envVars, tables, txnVars, marketVars, rowVars, pointVars

\* `cur` is a symbol wherever the tick works on one
CurIsSymbol ==
  wpc \in {"symbol", "quote", "intFetch", "eodFetch"} \cup BatchStages => cur \in Symbols

\* `stamp` is a time wherever it is about to be used
StampIsTime == wpc \in {"snapshot", "quote", "prune"} => stamp \in Times

TickInv == TickOK /\ CurIsSymbol /\ StampIsTime

TypeInv == EnvOK /\ TablesOK /\ SessionOK /\ TickInv

LEMMA EnvType ==
  ASSUME EnvOK
  PROVE  (NoFault => EnvOK') /\ (Fault => EnvOK')
BY ConfigAssumption DEF EnvOK, NoFault, Fault

LEMMA EndTickType == ASSUME EndTick PROVE TickInv'
<1> USE DEF EndTick, Goto
<1>1. wpc' \in Stages /\ CurIsSymbol' /\ StampIsTime'
  BY DEF Stages, CurIsSymbol, StampIsTime, BatchStages
<1>2. attempt' \in 1..MaxAttempts /\ label' \in Labels
  BY ConfigAssumption DEF Labels
<1>3. rows' \subseteq Symbols /\ watch' \subseteq Symbols /\ fetched' \subseteq Times /\ pts' \subseteq Times
  OBVIOUS
<1>4. cur' \in Symbols \cup {NoSymbol} /\ found' \in BOOLEAN /\ stamp' \in Times \cup {Never}
  OBVIOUS
<1> QED
  BY <1>1, <1>2, <1>3, <1>4 DEF TickInv, TickOK

\* The tables and the session of a step that loses the transaction
LEMMA DropType ==
  ASSUME TablesOK, SessionOK, UNCHANGED tables, DropTransaction,
         sess' \in {"closed", "active", "poisoned"}
  PROVE  TablesOK' /\ SessionOK'
BY DEF DropTransaction, TablesOK, SessionOK

LEMMA SaveFailsType ==
  ASSUME TablesOK, SessionOK, FlushFails \/ CommitFails
  PROVE  TablesOK' /\ SessionOK'
<1>1. CASE FlushFails
  BY <1>1, DropType DEF FlushFails
<1>2. CASE CommitFails
  BY <1>2 DEF CommitFails, TablesOK, SessionOK
<1> QED
  BY <1>1, <1>2

LEMMA SymbolSavedType ==
  ASSUME TablesOK, TickInv, wpc = "symbol", SymbolSaved
  PROVE  TablesOK' /\ symbols'[cur] # NoRow
<1>1. cur \in Symbols
  BY DEF TickInv, CurIsSymbol
<1> QED
  BY <1>1, UpsertSymbolType DEF SymbolSaved, TablesOK, TickInv, TickOK

LEMMA StartWatchType ==
  ASSUME TickInv, StartWatch, stamp' \in {stamp, Never}, UNCHANGED <<cur, found, pointVars>>
  PROVE  TickInv'
BY ConfigAssumption
   DEF StartWatch, Goto, TickInv, TickOK, CurIsSymbol, StampIsTime, Stages, BatchStages, Labels

LEMMA NextRowType ==
  ASSUME TickInv, NextRow, UNCHANGED <<marketVars, watch, pointVars>>
  PROVE  TickInv'
BY DEF NextRow, Goto, TickInv, TickOK, CurIsSymbol, StampIsTime, Stages, BatchStages

LEMMA LeaveRefreshType ==
  ASSUME TickInv, LeaveRefresh, wpc \in {"intFetch", "eodFetch"} \cup BatchStages
  PROVE  TickInv'
BY DEF LeaveRefresh, Goto, TickInv, TickOK, CurIsSymbol, StampIsTime, Stages, BatchStages

LEMMA MarketStepType ==
  ASSUME TypeInv, MarketStep PROVE TypeInv'
<1> USE DEF TypeInv
<1>1. ASSUME NEW page \in Pages, NEW sector \in PageLabels, FetchMarket(page, sector)
      PROVE  TypeInv'
  BY <1>1, EnvType, ConfigAssumption
     DEF FetchMarket, Stamp, EnvOK, TickInv, TickOK, CurIsSymbol, StampIsTime, Goto, TablesOK, SessionOK, Stages, BatchStages
<1>2. CASE RetryMarket
  BY <1>2, EnvType, ConfigAssumption
     DEF RetryMarket, TickInv, TickOK, CurIsSymbol, StampIsTime, TablesOK, SessionOK
<1>3. CASE FetchMarketFails
  BY <1>3, EnvType, StartWatchType DEF FetchMarketFails, TablesOK, SessionOK, TickInv, TickOK
<1>4. CASE SaveSnapshot
  <2>1. TablesOK' /\ SessionOK'
    BY <1>4 DEF SaveSnapshot, SnapshotSaved, TablesOK, SessionOK, SnapshotRow, TickInv, TickOK
  <2>2. TickInv'
    BY <1>4 DEF SaveSnapshot, Unstamp, Goto, TickInv, TickOK, CurIsSymbol, StampIsTime, Stages, BatchStages
  <2> QED
    BY <1>4, <2>1, <2>2, EnvType DEF SaveSnapshot
<1>5. ASSUME NEW s \in Symbols, SelectSymbol(s) PROVE TypeInv'
  <2>1. TickInv'
    BY <1>5 DEF SelectSymbol, Goto, TickInv, TickOK, CurIsSymbol, StampIsTime, Stages, BatchStages
  <2> QED
    BY <1>5, <2>1, EnvType DEF SelectSymbol, TablesOK, SessionOK
<1>6. ASSUME NEW s \in Symbols, RowRaises(s) PROVE TypeInv'
  BY <1>6, EnvType DEF RowRaises, TickInv, TickOK, CurIsSymbol, StampIsTime, TablesOK, SessionOK
<1>7. CASE SaveSymbol
  <2>1. TickInv'
    BY <1>7 DEF SaveSymbol, Stamp, Goto, EnvOK, TickInv, TickOK, CurIsSymbol, StampIsTime, Stages, BatchStages
  <2> QED
    BY <1>7, <2>1, SymbolSavedType, EnvType DEF SaveSymbol, SessionOK
<1>8. CASE SymbolTaken
  BY <1>8, SaveFailsType, NextRowType, EnvType DEF SymbolTaken
<1>9. CASE SaveQuote
  <2>1. cur \in Symbols /\ stamp \in Times
    BY <1>9 DEF SaveQuote, TickInv, CurIsSymbol, StampIsTime
  <2>2. TablesOK' /\ SessionOK'
    BY <1>9, <2>1 DEF SaveQuote, TablesOK, SessionOK, QuoteRow
  <2> QED
    BY <1>9, <2>2, NextRowType, EnvType DEF SaveQuote
<1>10. CASE RowsDone
  BY <1>10, EnvType, StartWatchType DEF RowsDone, TablesOK, SessionOK, TickInv, TickOK
<1> QED
  BY <1>1, <1>2, <1>3, <1>4, <1>5, <1>6, <1>7, <1>8, <1>9, <1>10 DEF MarketStep

LEMMA HistoryStepType ==
  ASSUME TypeInv, HistoryStep PROVE TypeInv'
<1> USE DEF TypeInv
<1>1. ASSUME NEW s \in Symbols, WatchNext(s) PROVE TypeInv'
  BY <1>1, EnvType
     DEF WatchNext, Goto, TickInv, TickOK, CurIsSymbol, StampIsTime, Stages, BatchStages, TablesOK, SessionOK
<1>2. ASSUME NEW list \in Lists, FetchPoints(list) PROVE TypeInv'
  <2>1. fetched' \subseteq Times /\ pts' \subseteq Times
    BY <1>2, ConfigAssumption DEF FetchPoints
  <2>2. TickInv'
    BY <1>2, <2>1 DEF FetchPoints, Goto, TickInv, TickOK, CurIsSymbol, StampIsTime, Stages, BatchStages
  <2> QED
    BY <1>2, <2>2, EnvType DEF FetchPoints, TablesOK, SessionOK
<1>3. CASE FetchPointsFails
  BY <1>3, EnvType, LeaveRefreshType DEF FetchPointsFails, TablesOK, SessionOK
<1>4. CASE PointsRaise
  BY <1>4, EnvType, LeaveRefreshType DEF PointsRaise, TablesOK, SessionOK
<1>5. CASE InsertBatch
  <2> DEFINE batch == FirstOf(BatchSize, pts)
  <2>1. batch \subseteq Times /\ pts' \subseteq Times /\ cur \in Symbols
    BY <1>5, FirstOfSubset DEF InsertBatch, TickInv, TickOK, CurIsSymbol, StampIsTime
  <2>2. pendHist' \subseteq HistoryRow
    BY <1>5, <2>1, HistoryRowsType DEF InsertBatch, SessionOK
  <2>3. pendEod' \subseteq EodRow
    BY <1>5, <2>1, EodRowsType DEF InsertBatch, SessionOK
  <2>4. TickInv'
    BY <1>5, <2>1 DEF InsertBatch, TickInv, TickOK, CurIsSymbol, StampIsTime
  <2> QED
    BY <1>5, <2>2, <2>3, <2>4, EnvType DEF InsertBatch, TablesOK, SessionOK
<1>6. CASE CommitBatches
  <2>1. TablesOK' /\ SessionOK'
    BY <1>6 DEF CommitBatches, Commit, TablesOK, SessionOK
  <2>2. TickInv'
    <3>1. CASE wpc = "eodHistBatch"
      BY <1>6, <3>1 DEF CommitBatches, Goto, TickInv, TickOK, CurIsSymbol, StampIsTime, Stages, BatchStages
    <3>2. CASE wpc # "eodHistBatch"
      BY <1>6, <3>2, LeaveRefreshType DEF CommitBatches
    <3> QED
      BY <3>1, <3>2
  <2> QED
    BY <1>6, <2>1, <2>2, EnvType DEF CommitBatches
<1>7. CASE WatchDone
  BY <1>7, EnvType
     DEF WatchDone, Stamp, Goto, EnvOK, TickInv, TickOK, CurIsSymbol, StampIsTime, Stages, BatchStages, TablesOK, SessionOK
<1> QED
  BY <1>1, <1>2, <1>3, <1>4, <1>5, <1>6, <1>7 DEF HistoryStep

LEMMA WorkerFaultType ==
  ASSUME TypeInv, WorkerFault PROVE TypeInv'
<1> USE DEF TypeInv
<1>1. CASE InitDbFails \/ PruneFails \/ Crash
  <2>1. Fault /\ EndTick /\ DropTransaction /\ UNCHANGED tables
    BY <1>1 DEF InitDbFails, PruneFails, Crash
  <2>2. sess' = "closed"
    BY <2>1 DEF EndTick
  <2> QED
    BY <2>1, <2>2, EnvType, EndTickType, DropType
<1>2. CASE SaveSnapshotFails
  BY <1>2, EnvType, SaveFailsType, StartWatchType DEF SaveSnapshotFails, Unstamp, TickInv, TickOK
<1>3. CASE SaveSnapshotUnread
  <2>1. TablesOK' /\ SessionOK'
    BY <1>3 DEF SaveSnapshotUnread, SnapshotSaved, TablesOK, SessionOK, SnapshotRow, TickInv, TickOK
  <2> QED
    BY <1>3, <2>1, EnvType, StartWatchType DEF SaveSnapshotUnread, Unstamp, TickInv, TickOK
<1>4. CASE SaveSymbolFails
  BY <1>4, EnvType, SaveFailsType, NextRowType DEF SaveSymbolFails
<1>5. CASE SaveSymbolUnread
  BY <1>5, EnvType, SymbolSavedType, NextRowType DEF SaveSymbolUnread, SessionOK
<1>6. CASE BadVolume
  BY <1>6, EnvType, NextRowType DEF BadVolume, TablesOK, SessionOK
<1>7. CASE SaveQuoteFails
  BY <1>7, EnvType, SaveFailsType, NextRowType DEF SaveQuoteFails
<1>8. CASE InsertBatchFails
  BY <1>8, EnvType, LeaveRefreshType DEF InsertBatchFails, TablesOK, SessionOK
<1>9. CASE CommitBatchesFails
  BY <1>9, EnvType, LeaveRefreshType, SaveFailsType DEF CommitBatchesFails
<1>10. ASSUME NEW s \in Symbols, SelectSymbolFails(s) PROVE TypeInv'
  BY <1>10, EnvType
     DEF SelectSymbolFails, TickInv, TickOK, CurIsSymbol, StampIsTime, TablesOK, SessionOK
<1> QED
  BY <1>1, <1>2, <1>3, <1>4, <1>5, <1>6, <1>7, <1>8, <1>9, <1>10 DEF WorkerFault

LEMMA PollType ==
  ASSUME TypeInv, PollNext PROVE TypeInv'
<1> USE DEF TypeInv
<1>1. CASE Wake \/ InitDb
  BY <1>1, EnvType
     DEF Wake, InitDb, Goto, TickInv, TickOK, CurIsSymbol, StampIsTime, Stages, BatchStages, TablesOK, SessionOK
<1>2. CASE Prune
  <2>1. TablesOK' /\ SessionOK'
    BY <1>2 DEF Prune, Commit, EndTick, DeleteOldQuotes, TablesOK, SessionOK
  <2> QED
    BY <1>2, <2>1, EndTickType, EnvType DEF Prune
<1>3. CASE PruneRaises
  <2>1. sess' = "closed"
    BY <1>3 DEF PruneRaises, EndTick
  <2> QED
    BY <1>3, <2>1, EndTickType, DropType, EnvType DEF PruneRaises
<1>4. CASE Advance
  <2>1. EnvOK'
    BY <1>4, ClockAssumption DEF Advance, EnvOK, Times
  <2> QED
    BY <1>4, <2>1 DEF Advance, TablesOK, SessionOK, TickInv, TickOK, CurIsSymbol, StampIsTime
<1> QED
  BY <1>1, <1>2, <1>3, <1>4, MarketStepType, HistoryStepType, WorkerFaultType
     DEF PollNext, WorkerStep

-----------------------------------------------------------------------------
\* The market half: what a tick has settled by the time it stores a quote.

QuoteInv ==
  /\ snap.at <= now /\ stamp <= now /\ \A q \in quotes : q.at <= now
  /\ wpc \in {"snapshot", "quote"} => snap.at <= stamp /\ \A q \in quotes : q.at <= stamp
  /\ QuoteHasSymbol
  /\ wpc = "quote" => symbols[cur] # NoRow
  /\ SnapshotCoversNewerQuotes
  /\ wpc \in {"rows", "symbol", "quote"} => rows \subseteq snap.tickers
  /\ wpc \in {"symbol", "quote"} => cur \in snap.tickers

\* A stamp is the time now, or as old as it was
LEMMA StampPast ==
  ASSUME TypeInv, QuoteInv, stamp' \in {stamp, now, Never}
  PROVE  stamp' <= now
BY ClockAssumption DEF TypeInv, EnvOK, QuoteInv, Times, Never

\* What does not touch `quotes` or `snap`, forgets no symbol, and is not about
\* to work on a row
LEMMA QuoteFrame ==
  ASSUME TypeInv, QuoteInv, UNCHANGED <<now, quotes, snap>>,
         \A s \in Symbols : symbols[s] # NoRow => symbols'[s] # NoRow,
         stamp' \in {stamp, now, Never}, wpc' = "snapshot" => stamp' = now,
         wpc' \notin {"rows", "symbol", "quote"}
  PROVE  QuoteInv'
BY StampPast DEF TypeInv, TablesOK, QuoteRow, QuoteInv, QuoteHasSymbol, SnapshotCoversNewerQuotes

\* A row is given up
LEMMA QuoteNextRow ==
  ASSUME TypeInv, QuoteInv, UNCHANGED <<now, quotes, snap, rows>>,
         \A s \in Symbols : symbols[s] # NoRow => symbols'[s] # NoRow,
         wpc \in {"symbol", "quote"}, NextRow
  PROVE  QuoteInv'
BY StampPast
   DEF NextRow, Goto, TypeInv, TablesOK, QuoteRow, QuoteInv, QuoteHasSymbol, SnapshotCoversNewerQuotes

LEMMA SnapshotSavedQuote ==
  ASSUME TypeInv, QuoteInv, wpc = "snapshot", SnapshotSaved, Unstamp, UNCHANGED now,
         wpc' \notin {"snapshot", "symbol", "quote"}, rows' \subseteq rows
  PROVE  QuoteInv'
<1>1. stamp' <= now /\ stamp <= now /\ stamp \in Int /\ \A q \in quotes : q.at \in Int
  BY StampPast, ClockAssumption
     DEF Unstamp, QuoteInv, TypeInv, TickInv, StampIsTime, TablesOK, QuoteRow, Times
<1>2. /\ \A q \in quotes' : q.at <= now' /\ q.at <= snap'.at
      /\ snap' = [at |-> stamp, tickers |-> rows] /\ quotes' = quotes /\ symbols' = symbols
  BY DEF SnapshotSaved, QuoteInv
<1>3. SnapshotCoversNewerQuotes'
  BY <1>1, <1>2 DEF SnapshotCoversNewerQuotes
<1> QED
  BY <1>1, <1>2, <1>3 DEF QuoteInv, QuoteHasSymbol

LEMMA SymbolSavedKeeps ==
  ASSUME TypeInv, wpc = "symbol", SymbolSaved
  PROVE  /\ \A s \in Symbols : symbols[s] # NoRow => symbols'[s] # NoRow
         /\ \A s \in Symbols : symbols[s] \notin {NoRow, NoSector} =>
                               symbols'[s] \notin {NoRow, NoSector}
<1>1. cur \in Symbols
  BY DEF TypeInv, TickInv, CurIsSymbol
<1> QED
  BY <1>1, UpsertSymbolType DEF SymbolSaved, TypeInv, TablesOK, TickInv, TickOK

LEMMA MarketStepQuote ==
  ASSUME TypeInv, QuoteInv, MarketStep PROVE QuoteInv'
<1> USE DEF NoFault
<1>1. ASSUME NEW page \in Pages, NEW sector \in PageLabels, FetchMarket(page, sector)
      PROVE  QuoteInv'
  BY <1>1, QuoteFrame DEF FetchMarket, Stamp, Goto
<1>2. CASE RetryMarket
  BY <1>2, QuoteFrame DEF RetryMarket
<1>3. CASE FetchMarketFails \/ RowsDone
  BY <1>3, QuoteFrame DEF FetchMarketFails, RowsDone, StartWatch, Goto
<1>4. CASE SaveSnapshot
  BY <1>4, SnapshotSavedQuote DEF SaveSnapshot, Goto
<1>5. ASSUME NEW s \in Symbols, SelectSymbol(s) PROVE QuoteInv'
  BY <1>5 DEF SelectSymbol, Goto, QuoteInv, QuoteHasSymbol, SnapshotCoversNewerQuotes
<1>6. ASSUME NEW s \in Symbols, RowRaises(s) PROVE QuoteInv'
  BY <1>6 DEF RowRaises, QuoteInv, QuoteHasSymbol, SnapshotCoversNewerQuotes
<1>7. CASE SaveSymbol
  <2>1. symbols'[cur] # NoRow
    BY <1>7, SymbolSavedType DEF SaveSymbol, TypeInv
  <2>2. \A s \in Symbols : symbols[s] # NoRow => symbols'[s] # NoRow
    BY <1>7, SymbolSavedKeeps DEF SaveSymbol
  <2>3. stamp' = now /\ stamp' <= now
    BY <1>7, StampPast DEF SaveSymbol, Stamp
  <2> QED
    BY <1>7, <2>1, <2>2, <2>3
       DEF SaveSymbol, SymbolSaved, Stamp, Goto, TypeInv, TablesOK, QuoteRow,
           QuoteInv, QuoteHasSymbol, SnapshotCoversNewerQuotes
<1>8. CASE SymbolTaken
  BY <1>8, QuoteNextRow DEF SymbolTaken, FlushFails
<1>9. CASE SaveQuote
  <2>1. cur \in snap.tickers /\ symbols[cur] # NoRow
    BY <1>9 DEF SaveQuote, QuoteInv
  <2>2. \A q \in quotes' : q \in quotes \/ q = [symbol |-> cur, at |-> stamp]
    BY <1>9 DEF SaveQuote
  <2>3. stamp' <= now
    BY <1>9, StampPast DEF SaveQuote, NextRow
  <2> QED
    BY <1>9, <2>1, <2>2, <2>3
       DEF SaveQuote, NextRow, Goto, QuoteInv, QuoteHasSymbol, SnapshotCoversNewerQuotes
<1> QED
  BY <1>1, <1>2, <1>3, <1>4, <1>5, <1>6, <1>7, <1>8, <1>9 DEF MarketStep

LEMMA PollQuote ==
  ASSUME TypeInv, QuoteInv, PollNext PROVE QuoteInv'
<1>1. CASE Wake \/ InitDb \/ PruneRaises \/ InitDbFails \/ PruneFails \/ Crash
  BY <1>1, QuoteFrame
     DEF Wake, InitDb, PruneRaises, InitDbFails, PruneFails, Crash, EndTick, Goto, NoFault, Fault
<1>2. CASE HistoryStep
  <2>1. UNCHANGED <<now, quotes, snap, symbols>> /\ stamp' \in {stamp, now}
    BY <1>2 DEF HistoryStep, WatchNext, FetchPoints, FetchPointsFails, PointsRaise, InsertBatch,
                CommitBatches, LeaveRefresh, WatchDone, Stamp, NoFault
  <2>2. wpc' \notin {"snapshot", "rows", "symbol", "quote"}
    BY <1>2 DEF HistoryStep, WatchNext, FetchPoints, FetchPointsFails, PointsRaise, InsertBatch,
                CommitBatches, WatchDone, LeaveRefresh, Goto, BatchStages
  <2> QED
    BY <2>1, <2>2, QuoteFrame
<1>3. CASE Prune
  <2>1. quotes' \subseteq quotes /\ stamp' <= now
    BY <1>3, StampPast DEF Prune, DeleteOldQuotes, EndTick
  <2> QED
    BY <1>3, <2>1
       DEF Prune, EndTick, Goto, NoFault, QuoteInv, QuoteHasSymbol, SnapshotCoversNewerQuotes
<1>4. CASE Advance
  BY <1>4
     DEF Advance, TypeInv, EnvOK, TablesOK, TickInv, TickOK, Times, QuoteRow, SnapshotRow, Never,
         QuoteInv, QuoteHasSymbol, SnapshotCoversNewerQuotes
<1>5. CASE SaveSnapshotFails
  BY <1>5, QuoteFrame DEF SaveSnapshotFails, FlushFails, CommitFails, StartWatch, Unstamp, Goto, Fault
<1>6. CASE SaveSnapshotUnread
  BY <1>6, SnapshotSavedQuote DEF SaveSnapshotUnread, StartWatch, Goto, Fault
<1>7. CASE SaveSymbolFails \/ SaveQuoteFails \/ BadVolume
  BY <1>7, QuoteNextRow DEF SaveSymbolFails, SaveQuoteFails, BadVolume, FlushFails, CommitFails, Fault
<1>8. CASE SaveSymbolUnread
  BY <1>8, QuoteNextRow, SymbolSavedKeeps DEF SaveSymbolUnread, SymbolSaved, Fault
<1>9. CASE InsertBatchFails \/ CommitBatchesFails
  BY <1>9, QuoteFrame DEF InsertBatchFails, CommitBatchesFails, CommitFails, LeaveRefresh, Goto, Fault
<1>10. ASSUME NEW s \in Symbols, SelectSymbolFails(s) PROVE QuoteInv'
  BY <1>10 DEF SelectSymbolFails, Fault, QuoteInv, QuoteHasSymbol, SnapshotCoversNewerQuotes
<1> QED
  BY <1>1, <1>2, <1>3, <1>4, <1>5, <1>6, <1>7, <1>8, <1>9, <1>10, MarketStepQuote
     DEF PollNext, WorkerStep, WorkerFault

-----------------------------------------------------------------------------
\* The history half: an EOD row is written only after the commit of the
\* history point it is made from, and at most one for a symbol and day.

EodPoint(s, t) == [symbol |-> s, interval |-> "eod", ts |-> t]

Backed(rowSet, points) == \A e \in rowSet : EodPoint(e.symbol, e.ts) \in points

OnePerDay(rowSet) ==
  \A e, f \in rowSet : e.symbol = f.symbol /\ e.date = f.date => e = f

HistInv ==
  /\ Backed(eod \cup pendEod, hist)
  /\ OnePerDay(eod \cup pendEod)
  /\ wpc = "eodHistBatch" =>
       \A t \in fetched \ pts : EodPoint(cur, t) \in hist \cup pendHist
  /\ wpc = "eodBatch" => \A t \in pts : EodPoint(cur, t) \in hist

LEMMA EodRowsBacked ==
  ASSUME NEW table, NEW s, NEW points, NEW H, \A t \in points : EodPoint(s, t) \in H
  PROVE  Backed(EodRows(table, s, points), H)
BY DEF EodRows, Backed

LEMMA EodRowsUnique ==
  ASSUME NEW table \in SUBSET EodRow, OnePerDay(table),
         NEW s \in Symbols, NEW points \in SUBSET Times
  PROVE  OnePerDay(table \cup EodRows(table, s, points))
<1>1. \A e \in EodRows(table, s, points) :
        /\ e.symbol = s
        /\ e = [symbol |-> s, date |-> DateOf(e.ts), ts |-> e.ts]
        /\ e.ts \in points /\ e.ts \in Int
        /\ \A p \in points : DateOf(p) = DateOf(e.ts) => e.ts <= p
        /\ \A f \in table : f.symbol = s => f.date # e.date
  BY ClockAssumption DEF EodRows, Times
<1>2. ASSUME NEW e \in EodRows(table, s, points), NEW f \in EodRows(table, s, points),
             e.date = f.date
      PROVE  e = f
  <2>1. DateOf(e.ts) = DateOf(f.ts)
    BY <1>1, <1>2
  <2>2. e.ts = f.ts
    BY <1>1, <2>1
  <2> QED
    BY <1>1, <2>2
<1> QED
  BY <1>1, <1>2 DEF OnePerDay

\* What neither inserts nor is about to: the rows may be lost, or committed
LEMMA HistFrame ==
  ASSUME HistInv, hist \subseteq hist',
         eod' \cup pendEod' \subseteq eod \cup pendEod,
         wpc' \notin {"eodHistBatch", "eodBatch"}
  PROVE  HistInv'
BY DEF HistInv, Backed, OnePerDay

LEMMA HistoryStepHist ==
  ASSUME TypeInv, HistInv, HistoryStep PROVE HistInv'
<1>1. ASSUME NEW s \in Symbols, WatchNext(s) PROVE HistInv'
  BY <1>1, HistFrame DEF WatchNext, Goto
<1>2. ASSUME NEW list \in Lists, FetchPoints(list) PROVE HistInv'
  BY <1>2 DEF FetchPoints, Goto, HistInv
<1>3. CASE FetchPointsFails \/ PointsRaise
  BY <1>3, HistFrame DEF FetchPointsFails, PointsRaise, LeaveRefresh, Goto
<1>4. CASE InsertBatch /\ wpc # "eodBatch"
  <2>1. hist' = hist /\ eod' = eod /\ pendEod' = pendEod /\ wpc' = wpc /\ cur' = cur
        /\ fetched' = fetched
    BY <1>4 DEF InsertBatch
  <2>2. ASSUME wpc = "eodHistBatch", NEW t \in fetched \ pts'
        PROVE  EodPoint(cur, t) \in hist \cup pendHist'
    <3>1. pts' = pts \ FirstOf(BatchSize, pts)
          /\ pendHist' = pendHist \cup HistoryRows(cur, "eod", FirstOf(BatchSize, pts))
      BY <1>4, <2>2 DEF InsertBatch
    <3>2. CASE t \in pts
      BY <3>1, <3>2, <2>2 DEF HistoryRows, EodPoint
    <3>3. CASE t \notin pts
      BY <3>1, <3>3, <2>2 DEF HistInv
    <3> QED
      BY <3>2, <3>3
  <2> QED
    BY <2>1, <2>2, <1>4 DEF HistInv
<1>5. CASE InsertBatch /\ wpc = "eodBatch"
  <2> DEFINE batch == FirstOf(BatchSize, pts)
             new == EodRows(eod \cup pendEod, cur, batch)
  <2>1. /\ hist' = hist /\ eod' = eod /\ pendEod' = pendEod \cup new
        /\ wpc' = wpc /\ cur' = cur /\ pts' \subseteq pts
    BY <1>5 DEF InsertBatch
  <2>2. cur \in Symbols /\ batch \subseteq pts /\ batch \subseteq Times
        /\ eod \cup pendEod \subseteq EodRow
    BY <1>5, FirstOfSubset DEF TypeInv, TickInv, TickOK, CurIsSymbol, StampIsTime, BatchStages, TablesOK, SessionOK
  <2>3. Backed(new, hist)
    BY <1>5, <2>2, EodRowsBacked DEF HistInv
  <2>4. OnePerDay((eod \cup pendEod) \cup new)
    BY <2>2, EodRowsUnique DEF HistInv
  <2>5. eod' \cup pendEod' = (eod \cup pendEod) \cup new
    BY <2>1
  <2>6. Backed(eod' \cup pendEod', hist')
    BY <2>1, <2>3, <2>5 DEF Backed, HistInv
  <2> QED
    BY <1>5, <2>1, <2>4, <2>5, <2>6 DEF HistInv
<1>6. CASE CommitBatches
  <2>1. hist \subseteq hist' /\ eod' \cup pendEod' = eod \cup pendEod
    BY <1>6 DEF CommitBatches, Commit
  <2>2. CASE wpc = "eodHistBatch"
    <3>1. \A t \in fetched : EodPoint(cur, t) \in hist'
      BY <1>6, <2>2 DEF CommitBatches, Commit, HistInv
    <3>2. wpc' = "eodBatch" /\ pts' = fetched /\ cur' = cur
      BY <1>6, <2>2 DEF CommitBatches, Goto, rowVars
    <3> QED
      BY <2>1, <3>1, <3>2 DEF HistInv, Backed, OnePerDay
  <2>3. CASE wpc # "eodHistBatch"
    BY <1>6, <2>1, <2>3, HistFrame DEF CommitBatches, LeaveRefresh, Goto
  <2> QED
    BY <2>2, <2>3
<1>7. CASE WatchDone
  BY <1>7, HistFrame DEF WatchDone, Goto
<1> QED
  BY <1>1, <1>2, <1>3, <1>4, <1>5, <1>6, <1>7 DEF HistoryStep

LEMMA PollHist ==
  ASSUME TypeInv, HistInv, PollNext PROVE HistInv'
<1>1. CASE Wake \/ InitDb \/ PruneRaises \/ InitDbFails \/ PruneFails \/ Crash
  BY <1>1, HistFrame
     DEF Wake, InitDb, PruneRaises, InitDbFails, PruneFails, Crash, EndTick, DropTransaction, Goto
<1>2. CASE Prune
  BY <1>2, HistFrame DEF Prune, Commit, EndTick, Goto
<1>3. CASE Advance
  BY <1>3 DEF Advance, HistInv, Backed, OnePerDay
<1>4. CASE MarketStep
  <2>1. hist' = hist /\ eod' = eod /\ pendEod' \subseteq pendEod
    BY <1>4 DEF MarketStep, FetchMarket, RetryMarket, FetchMarketFails, SaveSnapshot, SnapshotSaved,
                SelectSymbol, RowRaises, SaveSymbol, SymbolSaved, SymbolTaken, FlushFails,
                DropTransaction, SaveQuote, RowsDone
  <2>2. wpc' \notin {"eodHistBatch", "eodBatch"}
    BY <1>4 DEF MarketStep, FetchMarket, RetryMarket, FetchMarketFails, SaveSnapshot,
                SelectSymbol, RowRaises, SaveSymbol, SymbolTaken, SaveQuote,
                RowsDone, StartWatch, NextRow, Goto
  <2> QED
    BY <2>1, <2>2, HistFrame
<1>5. CASE SaveSnapshotFails \/ SaveSnapshotUnread
  BY <1>5, HistFrame
     DEF SaveSnapshotFails, SaveSnapshotUnread, SnapshotSaved, FlushFails, CommitFails, DropTransaction,
         StartWatch, Goto
<1>6. CASE SaveSymbolFails \/ SaveQuoteFails \/ BadVolume \/ SaveSymbolUnread
  BY <1>6, HistFrame
     DEF SaveSymbolFails, SaveQuoteFails, BadVolume, SaveSymbolUnread, SymbolSaved, FlushFails,
         CommitFails, DropTransaction, NextRow, Goto
<1>7. CASE InsertBatchFails \/ CommitBatchesFails
  BY <1>7, HistFrame DEF InsertBatchFails, CommitBatchesFails, CommitFails, LeaveRefresh, Goto
<1>8. ASSUME NEW s \in Symbols, SelectSymbolFails(s) PROVE HistInv'
  BY <1>8, HistFrame DEF SelectSymbolFails
<1> QED
  BY <1>1, <1>2, <1>3, <1>4, <1>5, <1>6, <1>7, <1>8, HistoryStepHist DEF PollNext, WorkerStep, WorkerFault
-----------------------------------------------------------------------------
\* The steps that are left of a tick.

LEMMA Counted ==
  ASSUME NEW S \in SUBSET Symbols
  PROVE  /\ Cardinality(S) \in Nat /\ Cardinality(S) <= Cardinality(Symbols)
         /\ \A s \in S : Cardinality(S \ {s}) = Cardinality(S) - 1
<1>1. IsFiniteSet(S) /\ Cardinality(S) <= Cardinality(Symbols)
  BY FiniteAssumption, FS_Subset
<1> QED
  BY <1>1, FS_CardinalityType, FS_RemoveElement

\* StepsLeft, stage by stage
Counts ==
  LET N == Cardinality(Symbols)
      n == Cardinality(rows)
      W == WatchLeft(Cardinality(Watchlist))
      w == WatchLeft(Cardinality(watch))
  IN  /\ wpc = "sleep"  => StepsLeft = 0
      /\ wpc = "prune"  => StepsLeft = 1
      /\ wpc = "init"   => StepsLeft = (MaxAttempts + 3 * N + 3) + W
      /\ wpc = "market" => StepsLeft = ((MaxAttempts - attempt) + 3 * N + 3) + W
      /\ wpc = "symbol" => StepsLeft = (3 * n + 3) + W
      /\ wpc \in {"snapshot", "quote"} => StepsLeft = (3 * n + 2) + W
      /\ wpc = "rows"   => StepsLeft = (3 * n + 1) + W
      /\ wpc = "watch"  => StepsLeft = 0 + w
      /\ wpc = "intFetch"     => StepsLeft = (3 * MaxPoints + 5) + w
      /\ wpc = "intBatch"     => StepsLeft = (Cardinality(pts) + 2 * MaxPoints + 4) + w
      /\ wpc = "eodFetch"     => StepsLeft = (2 * MaxPoints + 3) + w
      /\ wpc = "eodHistBatch" => StepsLeft = (Cardinality(pts) + MaxPoints + 2) + w
      /\ wpc = "eodBatch"     => StepsLeft = (Cardinality(pts) + 1) + w

LEMMA StagesCount == Counts /\ Counts'
BY Zenon DEF Counts, StepsLeft, MarketLeft, RefreshLeft, MarketStages

LEMMA WatchLeftIs ==
  /\ MaxPoints \in Nat /\ RefreshSteps = 3 * MaxPoints + 6
  /\ \A n \in Nat : WatchLeft(n) \in Nat /\ 2 <= WatchLeft(n)
  /\ \A n \in Nat : WatchLeft(n + 1) = WatchLeft(n) + RefreshSteps
<1>1. MaxPoints \in Nat /\ RefreshSteps = 3 * MaxPoints + 6
  BY ClockAssumption DEF MaxPoints, RefreshSteps
<1>2. ASSUME NEW n \in Nat
      PROVE  /\ n * RefreshSteps \in Nat
             /\ (n + 1) * RefreshSteps = n * RefreshSteps + RefreshSteps
  <2>1. RefreshSteps \in Nat
    BY <1>1
  <2> QED
    BY <2>1
<1> QED
  BY <1>1, <1>2 DEF WatchLeft
\* The types of the numbers that are counted with
Numbers ==
  /\ Cardinality(Symbols) \in Nat /\ MaxAttempts \in Nat /\ MaxPoints \in Nat
  /\ attempt \in Nat /\ 1 <= attempt /\ attempt <= MaxAttempts
  /\ Cardinality(rows) \in Nat /\ Cardinality(rows) <= Cardinality(Symbols)
  /\ Cardinality(pts) \in Nat /\ Cardinality(pts) <= MaxPoints
  /\ Cardinality(watch) \in Nat /\ Cardinality(Watchlist) \in Nat
  /\ WatchLeft(Cardinality(watch)) \in Nat /\ 2 <= WatchLeft(Cardinality(watch))
  /\ WatchLeft(Cardinality(Watchlist)) \in Nat /\ 2 <= WatchLeft(Cardinality(Watchlist))

LEMMA PointsCounted ==
  ASSUME NEW S \in SUBSET Times
  PROVE  /\ IsFiniteSet(S) /\ Cardinality(S) \in Nat /\ Cardinality(S) <= MaxPoints
         /\ \A T \in SUBSET S : T # S => Cardinality(T) < Cardinality(S)
<1>1. IsFiniteSet(Times) /\ Cardinality(Times) = MaxPoints
  BY FS_Interval, ClockAssumption DEF Times, MaxPoints
<1>2. IsFiniteSet(S) /\ Cardinality(S) <= MaxPoints
  BY <1>1, FS_Subset
<1> QED
  BY <1>2, FS_CardinalityType, FS_Subset

LEMMA NumbersType == TypeInv => Numbers
<1> SUFFICES ASSUME TypeInv PROVE Numbers
  OBVIOUS
<1>1. rows \in SUBSET Symbols /\ watch \in SUBSET Symbols /\ pts \in SUBSET Times /\ attempt \in 1..MaxAttempts
  BY DEF TypeInv, TickInv, TickOK
<1>2. Watchlist \in SUBSET Symbols /\ Symbols \in SUBSET Symbols /\ MaxAttempts \in Nat
  BY ConfigAssumption
<1>3. /\ Cardinality(rows) \in Nat /\ Cardinality(rows) <= Cardinality(Symbols)
      /\ Cardinality(watch) \in Nat /\ Cardinality(Watchlist) \in Nat /\ Cardinality(Symbols) \in Nat
  BY <1>1, <1>2, Counted
<1>4. Cardinality(pts) \in Nat /\ Cardinality(pts) <= MaxPoints
  BY <1>1, PointsCounted
<1> QED
  BY <1>1, <1>2, <1>3, <1>4, WatchLeftIs DEF Numbers

\* How the stages are left
LEMMA ToWatchShrinks ==
  ASSUME Numbers, wpc \in MarketStages, StartWatch
  PROVE  StepsLeft' < StepsLeft
<1>1. StepsLeft' = 0 + WatchLeft(Cardinality(Watchlist))
  BY StagesCount DEF Counts, StartWatch, Goto
<1> QED
  BY <1>1, StagesCount DEF Counts, Numbers, MarketStages

LEMMA NextRowShrinks ==
  ASSUME Numbers, wpc \in {"symbol", "quote"}, NextRow, rows' = rows
  PROVE  StepsLeft' < StepsLeft
<1>1. StepsLeft' = (3 * Cardinality(rows) + 1) + WatchLeft(Cardinality(Watchlist))
  BY StagesCount DEF Counts, NextRow, Goto
<1> QED
  BY <1>1, StagesCount DEF Counts, Numbers

LEMMA LeaveRefreshShrinks ==
  ASSUME Numbers, wpc \in {"intFetch", "eodFetch"} \cup BatchStages, LeaveRefresh
  PROVE  StepsLeft' < StepsLeft
<1>1. watch' = watch
  BY DEF LeaveRefresh
<1>2. CASE wpc \in {"intFetch", "intBatch"}
  <2>1. StepsLeft' = (2 * MaxPoints + 3) + WatchLeft(Cardinality(watch))
    BY <1>1, <1>2, StagesCount DEF Counts, LeaveRefresh, Goto
  <2> QED
    BY <1>2, <2>1, StagesCount DEF Counts, Numbers
<1>3. CASE wpc \in {"eodFetch", "eodHistBatch", "eodBatch"}
  <2>1. StepsLeft' = 0 + WatchLeft(Cardinality(watch))
    BY <1>1, <1>3, StagesCount DEF Counts, LeaveRefresh, Goto
  <2> QED
    BY <1>3, <2>1, StagesCount DEF Counts, Numbers
<1> QED
  BY <1>2, <1>3 DEF BatchStages

\* A tick that runs has a step left, and never more than at its start
LEMMA StepsBounded ==
  ASSUME Numbers, wpc \in Stages
  PROVE  /\ StepsLeft \in Nat
         /\ wpc # "sleep" => 0 < StepsLeft
BY StagesCount DEF Counts, Numbers, Stages, BatchStages

LEMMA EndTickShrinks ==
  ASSUME Numbers, wpc \in Stages, wpc # "sleep", EndTick
  PROVE  StepsLeft' < StepsLeft
<1>1. StepsLeft' = 0
  BY StagesCount DEF Counts, EndTick, Goto
<1> QED
  BY <1>1, StepsBounded
LEMMA MarketShrinks ==
  ASSUME TypeInv, Numbers, Numbers', MarketStep
  PROVE  UNCHANGED workerVars \/ StepsLeft' < StepsLeft
<1> DEFINE W == WatchLeft(Cardinality(Watchlist))
<1>1. ASSUME NEW page \in Pages, NEW sector \in PageLabels, FetchMarket(page, sector)
      PROVE  StepsLeft' < StepsLeft
  <2>1. StepsLeft' = (3 * Cardinality(rows') + 2) + W
    BY <1>1, StagesCount DEF Counts, FetchMarket, Goto
  <2> QED
    BY <1>1, <2>1, StagesCount DEF Counts, FetchMarket, Numbers
<1>2. CASE RetryMarket
  <2>1. StepsLeft' = ((MaxAttempts - (attempt + 1)) + 3 * Cardinality(Symbols) + 3) + W
    BY <1>2, StagesCount DEF Counts, RetryMarket
  <2> QED
    BY <1>2, <2>1, StagesCount DEF Counts, RetryMarket, Numbers
<1>3. CASE FetchMarketFails \/ RowsDone
  BY <1>3, ToWatchShrinks DEF FetchMarketFails, RowsDone, MarketStages
<1>4. CASE SaveSnapshot
  <2>1. StepsLeft' = (3 * Cardinality(rows) + 1) + W
    BY <1>4, StagesCount DEF Counts, SaveSnapshot, Goto
  <2> QED
    BY <1>4, <2>1, StagesCount DEF Counts, SaveSnapshot, Numbers
<1>5. ASSUME NEW s \in Symbols, SelectSymbol(s) \/ RowRaises(s) PROVE StepsLeft' < StepsLeft
  <2>1. Cardinality(rows') = Cardinality(rows) - 1
    BY <1>5, Counted DEF SelectSymbol, RowRaises, TypeInv, TickInv, TickOK
  <2>2. wpc' \in {"symbol", "rows"} /\ wpc = "rows"
    BY <1>5 DEF SelectSymbol, RowRaises, Goto
  <2>3. StepsLeft' <= (3 * Cardinality(rows') + 3) + W
    BY <2>2, StagesCount DEF Counts, Numbers
  <2> QED
    BY <2>1, <2>2, <2>3, StagesCount DEF Counts, Numbers
<1>6. CASE SaveSymbol
  <2>1. StepsLeft' = (3 * Cardinality(rows) + 2) + W
    BY <1>6, StagesCount DEF Counts, SaveSymbol, Goto
  <2> QED
    BY <1>6, <2>1, StagesCount DEF Counts, SaveSymbol, Numbers
<1>7. CASE SymbolTaken \/ SaveQuote
  BY <1>7, NextRowShrinks DEF SymbolTaken, SaveQuote
<1> QED
  BY <1>1, <1>2, <1>3, <1>4, <1>5, <1>6, <1>7 DEF MarketStep

\* A batch takes at least a point
LEMMA BatchTakes ==
  ASSUME NEW points \in SUBSET Times, points # {}, NEW n \in Nat \ {0}
  PROVE  FirstOf(n, points) # {}
<1>1. PICK t \in points : \A u \in points : t <= u
  BY LeastNat, ClockAssumption DEF Times
<1>2. {u \in points : u < t} = {}
  <2>1. points \subseteq Int
    BY ClockAssumption DEF Times
  <2>2. \A u \in points : ~(u < t)
    BY <1>1, <2>1
  <2> QED
    BY <2>2
<1>3. Cardinality({u \in points : u < t}) = 0
  BY <1>2, FS_EmptySet
<1> QED
  BY <1>1, <1>3 DEF FirstOf

LEMMA HistoryShrinks ==
  ASSUME TypeInv, Numbers, Numbers', HistoryStep
  PROVE  StepsLeft' < StepsLeft
<1> DEFINE w == WatchLeft(Cardinality(watch))
<1>1. ASSUME NEW s \in Symbols, WatchNext(s) PROVE StepsLeft' < StepsLeft
  <2>1. Cardinality(watch') = Cardinality(watch) - 1
    BY <1>1, Counted DEF WatchNext, TypeInv, TickInv, TickOK
  <2>2. w = WatchLeft(Cardinality(watch')) + (3 * MaxPoints + 6)
    <3>1. Cardinality(watch') + 1 = Cardinality(watch)
      BY <2>1 DEF Numbers
    <3> QED
      BY <3>1, WatchLeftIs DEF Numbers
  <2>3. StepsLeft' = (3 * MaxPoints + 5) + WatchLeft(Cardinality(watch'))
    BY <1>1, StagesCount DEF Counts, WatchNext, Goto
  <2>4. StepsLeft = 0 + w
    BY <1>1, StagesCount DEF Counts, WatchNext
  <2> QED
    BY <2>2, <2>3, <2>4 DEF Numbers
<1>2. ASSUME NEW list \in Lists, FetchPoints(list) PROVE StepsLeft' < StepsLeft
  <2>1. Cardinality(pts') \in Nat /\ Cardinality(pts') <= MaxPoints
    BY DEF Numbers
  <2>2. CASE wpc = "intFetch"
    <3>1. StepsLeft' = (Cardinality(pts') + 2 * MaxPoints + 4) + w
      BY <1>2, <2>2, StagesCount DEF Counts, FetchPoints, Goto
    <3> QED
      BY <2>1, <2>2, <3>1, StagesCount DEF Counts, Numbers
  <2>3. CASE wpc = "eodFetch"
    <3>1. StepsLeft' = (Cardinality(pts') + MaxPoints + 2) + w
      BY <1>2, <2>3, StagesCount DEF Counts, FetchPoints, Goto
    <3> QED
      BY <2>1, <2>3, <3>1, StagesCount DEF Counts, Numbers
  <2> QED
    BY <1>2, <2>2, <2>3 DEF FetchPoints
<1>3. CASE FetchPointsFails \/ PointsRaise
  BY <1>3, LeaveRefreshShrinks DEF FetchPointsFails, PointsRaise
<1>4. CASE InsertBatch
  <2>1. Cardinality(pts') < Cardinality(pts)
    <3>1. pts \in SUBSET Times /\ pts # {}
      BY <1>4 DEF InsertBatch, TypeInv, TickInv, TickOK
    <3>2. FirstOf(BatchSize, pts) # {} /\ FirstOf(BatchSize, pts) \subseteq pts
      BY <3>1, BatchTakes, FirstOfSubset, ConfigAssumption
    <3>3. pts' \in SUBSET pts /\ pts' # pts
      BY <1>4, <3>2 DEF InsertBatch
    <3> QED
      BY <3>1, <3>3, PointsCounted
  <2>2. wpc' = wpc /\ watch' = watch /\ wpc \in BatchStages
    BY <1>4 DEF InsertBatch
  <2> QED
    BY <2>1, <2>2, StagesCount DEF Counts, Numbers, BatchStages
<1>5. CASE CommitBatches
  <2>1. CASE wpc = "eodHistBatch"
    <3>1. StepsLeft' = (Cardinality(pts') + 1) + w
      BY <1>5, <2>1, StagesCount DEF Counts, CommitBatches, Goto
    <3>2. StepsLeft = (0 + MaxPoints + 2) + w
      <4>1. Cardinality(pts) = 0
        BY <1>5, FS_EmptySet DEF CommitBatches
      <4> QED
        BY <2>1, <4>1, StagesCount DEF Counts
    <3> QED
      BY <3>1, <3>2 DEF Numbers
  <2>2. CASE wpc # "eodHistBatch"
    BY <1>5, <2>2, LeaveRefreshShrinks DEF CommitBatches
  <2> QED
    BY <2>1, <2>2
<1>6. CASE WatchDone
  <2>1. StepsLeft' = 1
    BY <1>6, StagesCount DEF Counts, WatchDone, Goto
  <2> QED
    BY <1>6, <2>1, StagesCount DEF Counts, WatchDone, Numbers
<1> QED
  BY <1>1, <1>2, <1>3, <1>4, <1>5, <1>6 DEF HistoryStep

LEMMA PollShrinks ==
  ASSUME TypeInv, Numbers, Numbers', PollNext, wpc # "sleep"
  PROVE  UNCHANGED workerVars \/ StepsLeft' < StepsLeft
<1>1. wpc \in Stages
  BY DEF TypeInv, TickInv, TickOK
<1>2. CASE InitDb
  <2>1. StepsLeft' = ((MaxAttempts - attempt) + 3 * Cardinality(Symbols) + 3)
                     + WatchLeft(Cardinality(Watchlist))
    BY <1>2, StagesCount DEF Counts, InitDb, Goto
  <2> QED
    BY <1>2, <2>1, StagesCount DEF Counts, InitDb, Numbers
<1>3. CASE InitDbFails \/ Prune \/ PruneRaises \/ PruneFails \/ Crash
  BY <1>1, <1>3, EndTickShrinks DEF InitDbFails, Prune, PruneRaises, PruneFails, Crash
<1>4. CASE SaveSnapshotFails \/ SaveSnapshotUnread
  BY <1>4, ToWatchShrinks DEF SaveSnapshotFails, SaveSnapshotUnread, MarketStages
<1>5. CASE SaveSymbolFails \/ SaveSymbolUnread \/ BadVolume \/ SaveQuoteFails
  BY <1>5, NextRowShrinks DEF SaveSymbolFails, SaveSymbolUnread, BadVolume, SaveQuoteFails
<1>6. CASE InsertBatchFails \/ CommitBatchesFails
  BY <1>6, LeaveRefreshShrinks DEF InsertBatchFails, CommitBatchesFails
<1>7. CASE Advance
  BY <1>7 DEF Advance
<1>8. ~Wake
  BY DEF Wake
<1>9. ASSUME NEW s \in Symbols, SelectSymbolFails(s) PROVE StepsLeft' < StepsLeft
  <2>1. Cardinality(rows') = Cardinality(rows) - 1
    BY <1>9, Counted DEF SelectSymbolFails, TypeInv, TickInv, TickOK
  <2> QED
    BY <1>9, <2>1, StagesCount DEF Counts, SelectSymbolFails, Numbers
<1> QED
  BY <1>2, <1>3, <1>4, <1>5, <1>6, <1>7, <1>8, <1>9, MarketShrinks, HistoryShrinks
     DEF PollNext, WorkerStep, WorkerFault

-----------------------------------------------------------------------------
\* The worker beside the API.

USE DEF vars, apiVars

ApiOK ==
  /\ apc \in {"down", "select", "save", "up"} /\ todo \subseteq Symbols
  /\ acur \in Symbols \cup {NoSymbol} /\ afound \in BOOLEAN
  /\ apc = "save" => acur \in Symbols

\* The inductive invariant.  QuoteInv and HistInv add to the
\* properties what the tick has settled on its way to a quote or an EOD row.
Inv == TypeInv /\ ApiOK /\ QuoteInv /\ HistInv

LEMMA InitInv == Init => Inv
<1> SUFFICES ASSUME Init PROVE Inv
  OBVIOUS
<1> USE DEF Init, PollInit
<1>1. EnvOK /\ TablesOK /\ SessionOK
  <2>1. EnvOK
    BY ConfigAssumption, ClockAssumption DEF EnvOK, Times
  <2>2. symbols \in SymbolTable /\ snap \in SnapshotRow
    BY DEF SymbolTable, SnapshotRow
  <2> QED
    BY <2>1, <2>2 DEF TablesOK, SessionOK
<1>2. TickInv
  <2>1. wpc \in Stages /\ CurIsSymbol /\ StampIsTime
    BY DEF CurIsSymbol, StampIsTime, Stages, BatchStages
  <2>2. attempt \in 1..MaxAttempts /\ label \in Labels
    BY ConfigAssumption DEF Labels
  <2> QED
    BY <2>1, <2>2 DEF TickInv, TickOK
<1>3. ApiOK
  BY DEF ApiOK
<1>4. QuoteInv
  BY DEF QuoteInv, QuoteHasSymbol, SnapshotCoversNewerQuotes, Never
<1>5. HistInv
  BY DEF HistInv, Backed, OnePerDay
<1> QED
  BY <1>1, <1>2, <1>3, <1>4, <1>5 DEF Inv, TypeInv

\* A step of the API leaves all to the worker but `symbols`, which only grows
ApiTouches ==
  /\ UNCHANGED <<now, quotes, snap, hist, eod, workerVars>>
  /\ (NoFault \/ Fault)
  /\ symbols = symbols' \/ \E s \in Symbols : symbols' = UpsertSymbol(symbols, s, NoSector)

LEMMA ApiTouchesOnly ==
  ASSUME Inv, ApiStep \/ ApiCrash PROVE ApiTouches
<1>1. CASE ApiSave
  <2>1. acur \in Symbols
    BY <1>1 DEF ApiSave, Inv, ApiOK
  <2> QED
    BY <1>1, <2>1 DEF ApiSave, NotWorker, ApiTouches, NoFault
<1>2. CASE ApiStart \/ ApiSymbolTaken \/ ApiLocked \/ ApiReady
  BY <1>2 DEF ApiStart, ApiSymbolTaken, ApiLocked, ApiReady, NotWorker, ApiTouches, NoFault
<1>3. ASSUME NEW s \in Symbols, ApiSelect(s) PROVE ApiTouches
  BY <1>3 DEF ApiSelect, NotWorker, ApiTouches, NoFault
<1>4. CASE ApiCrash
  BY <1>4 DEF ApiCrash, NotWorker, ApiTouches, Fault
<1> QED
  BY <1>1, <1>2, <1>3, <1>4 DEF ApiStep

LEMMA ApiTouchesSymbols ==
  ASSUME TablesOK, ApiTouches
  PROVE  /\ symbols' \in SymbolTable
         /\ \A s \in Symbols : symbols[s] # NoRow => symbols'[s] # NoRow
         /\ \A s \in Symbols : symbols[s] \notin {NoRow, NoSector} =>
                               symbols'[s] \notin {NoRow, NoSector}
<1>1. NoSector \in Labels
  BY DEF Labels
<1> QED
  BY <1>1, UpsertSymbolType DEF ApiTouches, TablesOK

LEMMA ApiTouchesInv ==
  ASSUME TypeInv, QuoteInv, HistInv, ApiTouches
  PROVE  TypeInv' /\ QuoteInv' /\ HistInv'
<1>1. TypeInv'
  BY ApiTouchesSymbols, EnvType
     DEF TypeInv, ApiTouches, TablesOK, SessionOK, TickInv, TickOK, CurIsSymbol, StampIsTime
<1>2. QuoteInv'
  BY ApiTouchesSymbols
     DEF ApiTouches, TypeInv, TablesOK, QuoteRow, TickInv, CurIsSymbol, QuoteInv, QuoteHasSymbol,
         SnapshotCoversNewerQuotes
<1>3. HistInv'
  BY DEF ApiTouches, HistInv, Backed, OnePerDay
<1> QED
  BY <1>1, <1>2, <1>3

LEMMA ApiStepOK ==
  ASSUME ApiOK, ApiStep \/ ApiCrash PROVE ApiOK'
<1>1. CASE ApiStart
  BY <1>1, ConfigAssumption DEF ApiStart, ApiOK
<1>2. CASE ApiSave
  BY <1>2 DEF ApiSave, ApiOK
<1>3. CASE ApiSymbolTaken \/ ApiLocked \/ ApiCrash
  BY <1>3 DEF ApiSymbolTaken, ApiLocked, ApiCrash, ApiStops, ApiOK
<1>4. CASE ApiReady
  BY <1>4 DEF ApiReady, ApiOK
<1>5. ASSUME NEW s \in Symbols, ApiSelect(s) PROVE ApiOK'
  BY <1>5 DEF ApiSelect, ApiOK
<1> QED
  BY <1>1, <1>2, <1>3, <1>4, <1>5 DEF ApiStep

LEMMA StutterInv == Inv /\ UNCHANGED vars => Inv'
BY DEF Inv, ApiOK, TypeInv, EnvOK, TablesOK, SessionOK, TickInv, TickOK, CurIsSymbol,
       StampIsTime, QuoteInv, QuoteHasSymbol, SnapshotCoversNewerQuotes, HistInv, Backed, OnePerDay

LEMMA NextInv == Inv /\ [Next]_vars => Inv'
<1> SUFFICES ASSUME Inv, [Next]_vars PROVE Inv'
  OBVIOUS
<1>1. CASE PollNext /\ UNCHANGED apiVars
  <2>1. ApiOK'
    BY <1>1 DEF Inv, ApiOK
  <2> QED
    BY <1>1, <2>1, PollType, PollQuote, PollHist DEF Inv
<1>2. CASE ApiStep \/ ApiCrash
  BY <1>2, ApiTouchesOnly, ApiTouchesInv, ApiStepOK DEF Inv
<1>3. CASE UNCHANGED vars
  BY <1>3, StutterInv
<1> QED
  BY <1>1, <1>2, <1>3 DEF Next

THEOREM Invariance == Spec => []Inv
BY InitInv, NextInv, PTL DEF Spec

\* The variables keep their types (TypeOK).
THEOREM TypeCorrect == Spec => []TypeOK
<1>1. Inv => TypeOK
  BY DEF Inv, TypeInv, TickInv, ApiOK, TypeOK, PollTypeOK
<1> QED
  BY Invariance, <1>1, PTL

\* No quote is ever stored of a symbol that has no row: the worker reaches
\* "quote" only through a committed upsert of the symbol, and neither process
\* deletes a row of `symbols`.
THEOREM QuotesHaveSymbols == Spec => []QuoteHasSymbol
<1>1. Inv => QuoteHasSymbol
  BY DEF Inv, QuoteInv
<1> QED
  BY Invariance, <1>1, PTL

\* No quote runs ahead of the market snapshot its page was stored as: from the
\* commit of the snapshot to the last row, what is left of the page stays part
\* of the latest snapshot.
THEOREM SnapshotsCoverQuotes == Spec => []SnapshotCoversNewerQuotes
<1>1. Inv => SnapshotCoversNewerQuotes
  BY DEF Inv, QuoteInv
<1> QED
  BY Invariance, <1>1, PTL

\* Every EOD record has its history point: rows inserted but not committed, and
\* rows that a failed batch left in the transaction, have theirs committed.
THEOREM EodIsBacked == Spec => []EodBackedByHistory
<1>1. Inv => EodBackedByHistory
  BY DEF Inv, HistInv, Backed, EodPoint, EodBackedByHistory
<1> QED
  BY Invariance, <1>1, PTL

\* At most one EOD record for a symbol and day, committed or on its way.
THEOREM EodIsUnique == Spec => []OneEodPerDay
<1>1. Inv => OneEodPerDay
  BY DEF Inv, HistInv, OnePerDay, OneEodPerDay
<1> QED
  BY Invariance, <1>1, PTL

LEMMA WorkerKeepsSectors ==
  ASSUME TypeInv, PollNext
  PROVE  \A s \in Symbols : symbols[s] \notin {NoRow, NoSector} =>
                            symbols'[s] \notin {NoRow, NoSector}
<1>1. CASE SaveSymbol \/ SaveSymbolUnread
  BY <1>1, SymbolSavedKeeps DEF SaveSymbol, SaveSymbolUnread
<1>2. CASE ~(SaveSymbol \/ SaveSymbolUnread)
  <2>1. symbols' = symbols
    <3>1. CASE MarketStep
      BY <1>2, <3>1
         DEF MarketStep, FetchMarket, RetryMarket, FetchMarketFails, SaveSnapshot, SnapshotSaved,
             SelectSymbol, RowRaises, SymbolTaken, FlushFails, SaveQuote, RowsDone
    <3>2. CASE HistoryStep
      BY <3>2 DEF HistoryStep, WatchNext, FetchPoints, FetchPointsFails, PointsRaise, InsertBatch,
                  CommitBatches, WatchDone
    <3>3. CASE WorkerFault
      BY <1>2, <3>3
         DEF WorkerFault, InitDbFails, SaveSnapshotFails, SaveSnapshotUnread, SnapshotSaved,
             SelectSymbolFails, SaveSymbolFails, BadVolume, SaveQuoteFails, InsertBatchFails,
             CommitBatchesFails, PruneFails, Crash, FlushFails, CommitFails
    <3>4. CASE Wake \/ InitDb \/ Prune \/ PruneRaises \/ Advance
      BY <3>4 DEF Wake, InitDb, Prune, PruneRaises, Advance
    <3> QED
      BY <3>1, <3>2, <3>3, <3>4 DEF PollNext, WorkerStep
  <2> QED
    BY <2>1
<1> QED
  BY <1>1, <1>2

\* No step of either process blanks a sector.
THEOREM SectorsAreKept == Spec => SectorNeverBlanked
<1> DEFINE Kept == \A s \in Symbols : symbols[s] \notin {NoRow, NoSector} =>
                                      symbols'[s] \notin {NoRow, NoSector}
<1>1. Inv /\ [Next]_vars => [Kept]_pollVars
  <2> SUFFICES ASSUME Inv, [Next]_vars, pollVars' # pollVars PROVE Kept
    OBVIOUS
  <2>1. CASE PollNext
    BY <2>1, WorkerKeepsSectors DEF Inv
  <2>2. CASE ApiStep \/ ApiCrash
    BY <2>2, ApiTouchesOnly, ApiTouchesSymbols DEF Inv, TypeInv
  <2> QED
    BY <2>1, <2>2 DEF Next
<1> QED
  BY Invariance, <1>1, PTL DEF Spec, SectorNeverBlanked

-----------------------------------------------------------------------------
\* The feed of quotes.

LEMMA GreatestTime ==
  ASSUME NEW T \in SUBSET Times, T # {}
  PROVE  \E x \in T : \A y \in T : y <= x
<1> DEFINE Below == {MaxTime - x : x \in T}
<1>1. Below \subseteq Nat /\ Below # {}
  BY ClockAssumption DEF Times
<1>2. PICK b \in Below : \A c \in Below : b <= c
  BY <1>1, LeastNat
<1>3. PICK x \in T : b = MaxTime - x
  OBVIOUS
<1>4. ASSUME NEW y \in T PROVE y <= x
  <2>1. b <= MaxTime - y
    BY <1>2
  <2> QED
    BY <1>3, <2>1, ClockAssumption DEF Times
<1> QED
  BY <1>4

\* LatestAt is the greatest time of a quote of the symbol, if there is one
LEMMA LatestIs ==
  ASSUME NEW table \in SUBSET QuoteRow, NEW s \in Symbols
  PROVE  \/ LatestAt(table, s) = Never /\ \A q \in table : q.symbol # s
         \/ /\ LatestAt(table, s) \in Times
            /\ \E q \in table : q.symbol = s /\ q.at = LatestAt(table, s)
            /\ \A q \in table : q.symbol = s => q.at <= LatestAt(table, s)
<1> DEFINE ats == {q.at : q \in {r \in table : r.symbol = s}}
<1>1. CASE ats = {}
  BY <1>1 DEF LatestAt
<1>2. CASE ats # {}
  <2>1. ats \subseteq Times
    BY DEF QuoteRow
  <2>2. \E t \in ats : \A u \in ats : u <= t
    BY <1>2, <2>1, GreatestTime
  <2>3. LatestAt(table, s) = CHOOSE t \in ats : \A u \in ats : u <= t
    BY <1>2 DEF LatestAt
  <2>4. LatestAt(table, s) \in ats /\ \A u \in ats : u <= LatestAt(table, s)
    BY <2>2, <2>3
  <2> QED
    BY <2>1, <2>4
<1> QED
  BY <1>1, <1>2

\* ... and any such time is the latest
LEMMA LatestUnique ==
  ASSUME NEW table \in SUBSET QuoteRow, NEW s \in Symbols, NEW q \in table, q.symbol = s,
         \A r \in table : r.symbol = s => r.at <= q.at
  PROVE  LatestAt(table, s) = q.at
<1>1. \A r \in table : r.at \in Int
  BY ClockAssumption DEF QuoteRow, Times
<1>2. /\ \E r \in table : r.symbol = s /\ r.at = LatestAt(table, s)
      /\ q.at <= LatestAt(table, s)
  BY LatestIs
<1> QED
  BY <1>1, <1>2

LEMMA SameQuotesSameLatest ==
  ASSUME NEW table, NEW other, NEW s,
         {r \in table : r.symbol = s} = {r \in other : r.symbol = s}
  PROVE  LatestAt(table, s) = LatestAt(other, s)
<1> DEFINE own(t) == {r \in t : r.symbol = s}
           ats(t) == {q.at : q \in own(t)}
           greatest(T) == IF T = {} THEN Never ELSE CHOOSE t \in T : \A u \in T : u <= t
<1>1. LatestAt(table, s) = greatest(ats(table)) /\ LatestAt(other, s) = greatest(ats(other))
  BY DEF LatestAt
<1>2. own(table) = own(other)
  OBVIOUS
<1> HIDE DEF own, greatest
<1>3. ats(table) = ats(other)
  BY <1>2
<1> HIDE DEF ats
<1> QED
  BY <1>1, <1>3

LEMMA SaveQuoteLatest ==
  ASSUME TypeInv, QuoteInv, SaveQuote, NEW s \in Symbols
  PROVE  LatestAt(quotes', s) = IF s = cur THEN stamp ELSE LatestAt(quotes, s)
<1> DEFINE new == [symbol |-> cur, at |-> stamp]
<1>1. quotes' = quotes \cup {new} /\ cur \in Symbols /\ stamp \in Times
  BY DEF SaveQuote, TypeInv, TickInv, CurIsSymbol, StampIsTime
<1>2. quotes \in SUBSET QuoteRow /\ quotes' \in SUBSET QuoteRow
  BY <1>1 DEF TypeInv, TablesOK, QuoteRow
<1>3. CASE s = cur
  <2>1. \A q \in quotes' : q.at <= new.at
    BY <1>1, ClockAssumption DEF SaveQuote, QuoteInv, Times
  <2>2. new \in quotes' /\ new.symbol = s
    BY <1>1, <1>3
  <2> QED
    BY <1>2, <1>3, <2>1, <2>2, LatestUnique
<1>4. CASE s # cur
  <2>1. {q \in quotes' : q.symbol = s} = {q \in quotes : q.symbol = s}
    BY <1>1, <1>4
  <2> QED
    BY <1>4, <2>1, SameQuotesSameLatest
<1> QED
  BY <1>3, <1>4

LEMMA PruneLatest ==
  ASSUME NEW table \in SUBSET QuoteRow, NEW s \in Symbols, NEW n \in Times
  PROVE  LatestAt(DeleteOldQuotes(table, n - Retention), s) =
           IF n - LatestAt(table, s) > Retention THEN Never ELSE LatestAt(table, s)
<1> DEFINE kept == DeleteOldQuotes(table, n - Retention)
           at == LatestAt(table, s)
<1>1. /\ kept \in SUBSET QuoteRow /\ kept \subseteq table
      /\ \A q \in table : q \in kept <=> q.at >= n - Retention
      /\ \A q \in table : q.at \in Int
      /\ Times \subseteq Int /\ Retention \in Int /\ n \in Int
  BY ClockAssumption, ConfigAssumption DEF DeleteOldQuotes, QuoteRow, Times
<1> HIDE DEF kept
<1>2. CASE at = Never /\ \A q \in table : q.symbol # s
  <2>1. LatestAt(kept, s) = Never
    BY <1>1, <1>2, LatestIs
  <2> QED
    BY <1>2, <2>1 DEF kept
<1>3. CASE /\ at \in Times
           /\ \E q \in table : q.symbol = s /\ q.at = at
           /\ \A q \in table : q.symbol = s => q.at <= at
  <2>1. CASE n - at > Retention
    <3>1. \A q \in kept : q.symbol # s
      BY <1>1, <1>3, <2>1
    <3>2. LatestAt(kept, s) = Never
      BY <1>1, <3>1, LatestIs
    <3> QED
      BY <2>1, <3>2 DEF kept
  <2>2. CASE ~(n - at > Retention)
    <3>1. PICK q \in table : q.symbol = s /\ q.at = at
      BY <1>3
    <3>2. q \in kept
      BY <1>1, <1>3, <2>2, <3>1
    <3>3. LatestAt(kept, s) = at
      BY <1>1, <1>3, <3>1, <3>2, LatestUnique
    <3> QED
      BY <2>2, <3>3 DEF kept
  <2> QED
    BY <2>1, <2>2
<1> QED
  BY <1>2, <1>3, LatestIs

Known  == {s \in Symbols : symbols[s] # NoRow}
Latest == [s \in Symbols |-> LatestAt(quotes, s)]
AsOf   == IF stamp = Never THEN now ELSE stamp

LEMMA LearnStep ==
  ASSUME TablesOK, NEW s \in Symbols, NEW l \in Labels,
         symbols' = UpsertSymbol(symbols, s, l), UNCHANGED <<now, quotes, snap>>
  PROVE  Feed!Learn(s)
<1>1. Known' = Known \cup {s}
  BY UpsertSymbolType DEF Known, TablesOK, UpsertSymbol, SymbolTable
<1> QED
  BY <1>1 DEF Feed!Learn, Known, Latest

LEMMA UpsertStep ==
  ASSUME TypeInv, wpc = "symbol", SymbolSaved, UNCHANGED now
  PROVE  \E s \in Symbols : Feed!Learn(s)
<1>1. cur \in Symbols /\ label \in Labels
  BY DEF TypeInv, TickInv, TickOK, CurIsSymbol, StampIsTime
<1> QED
  BY <1>1, LearnStep DEF SymbolSaved, TypeInv

\* Where `stamp` is used it is the time of the feed
LEMMA StampTime ==
  ASSUME TypeInv, QuoteInv, wpc \in {"snapshot", "quote", "prune"}
  PROVE  stamp \in Times /\ stamp \in 0..now /\ AsOf = stamp
BY ClockAssumption DEF TypeInv, EnvOK, TickInv, StampIsTime, QuoteInv, Times, AsOf, Never

LEMMA AsOfTime ==
  ASSUME TypeInv, QuoteInv
  PROVE  AsOf \in Int /\ AsOf <= now
BY ClockAssumption DEF TypeInv, EnvOK, TickInv, TickOK, QuoteInv, Times, AsOf, Never

\* A quote is no older than those before it
LEMMA PublishStep ==
  ASSUME TypeInv, QuoteInv, SaveQuote
  PROVE  \E s \in Symbols : Feed!Publish(s) /\ Latest[s] <= AsOf
<1>1. cur \in Symbols /\ cur \in Known /\ cur \in snap.tickers
  BY DEF SaveQuote, TypeInv, TickInv, CurIsSymbol, QuoteInv, Known
<1>2. Latest' = [Latest EXCEPT ![cur] = stamp]
  BY <1>1, SaveQuoteLatest DEF Latest
<1>3. UNCHANGED <<now, symbols, snap>>
  BY DEF SaveQuote, NoFault
<1>4. stamp \in 0..now /\ stamp \in Times /\ AsOf = stamp
  BY StampTime DEF SaveQuote
<1>5. Latest[cur] <= stamp
  <2>1. LatestAt(quotes, cur) = Never \/ \E q \in quotes : q.at = LatestAt(quotes, cur)
    BY <1>1, LatestIs DEF TypeInv, TablesOK
  <2> QED
    BY <1>1, <1>4, <2>1, ClockAssumption DEF SaveQuote, QuoteInv, Latest, Never, Times
<1>6. Feed!Publish(cur)
  BY <1>1, <1>2, <1>3, <1>4 DEF Feed!Publish, Known, Latest, AsOf
<1> QED
  BY <1>1, <1>4, <1>5, <1>6

LEMMA ExpireStep ==
  ASSUME TypeInv, QuoteInv, Prune PROVE Feed!Expire
<1>1. UNCHANGED <<now, symbols, snap>> /\ quotes' = DeleteOldQuotes(quotes, stamp - Retention)
  BY DEF Prune, NoFault
<1>2. quotes \in SUBSET QuoteRow /\ stamp \in Times /\ AsOf = stamp
  BY StampTime DEF Prune, TypeInv, TablesOK
<1>3. \A s \in Symbols : LatestAt(quotes', s) =
        IF stamp - LatestAt(quotes, s) > Retention THEN Never ELSE LatestAt(quotes, s)
  BY <1>1, <1>2, PruneLatest
<1>4. Latest' = [s \in Symbols |-> IF stamp - Latest[s] > Retention THEN Never ELSE Latest[s]]
  BY <1>3 DEF Latest
<1> QED
  BY <1>1, <1>2, <1>4 DEF Feed!Expire, Latest, Feed!Never, Never, AsOf

LEMMA ListStep ==
  ASSUME TypeInv, QuoteInv, wpc = "snapshot", SnapshotSaved, UNCHANGED now
  PROVE  \E page \in SUBSET Symbols : Feed!List(page)
<1>1. AsOf = stamp
  BY StampTime
<1>2. Feed!List(rows)
  BY <1>1 DEF SnapshotSaved, Feed!List, AsOf
<1> QED
  BY <1>2 DEF TypeInv, TickInv, TickOK

\* What a step of the worker or the API does to the tables of the feed
LEMMA TableStep ==
  ASSUME Inv, [Next]_vars
  PROVE  \/ Feed!TimePasses \/ Feed!Expire \/ UNCHANGED <<now, symbols, quotes, snap>>
         \/ \E s \in Symbols : Feed!Learn(s) \/ (Feed!Publish(s) /\ Latest[s] <= AsOf)
         \/ \E page \in SUBSET Symbols : Feed!List(page)
<1> USE DEF NoFault, Fault, Inv
<1>1. CASE SaveSymbol \/ SaveSymbolUnread
  BY <1>1, UpsertStep DEF SaveSymbol, SaveSymbolUnread
<1>2. CASE SaveSnapshot \/ SaveSnapshotUnread
  BY <1>2, ListStep DEF SaveSnapshot, SaveSnapshotUnread
<1>3. CASE SaveQuote
  BY <1>3, PublishStep
<1>4. CASE Prune
  BY <1>4, ExpireStep
<1>5. CASE Advance
  BY <1>5 DEF Advance, Feed!TimePasses, Feed!tableVars
<1>6. CASE ApiStep \/ ApiCrash
  <2>1. ApiTouches
    BY <1>6, ApiTouchesOnly
  <2>2. CASE symbols = symbols'
    BY <2>1, <2>2 DEF ApiTouches
  <2>3. CASE \E s \in Symbols : symbols' = UpsertSymbol(symbols, s, NoSector)
    <3>1. PICK s \in Symbols : symbols' = UpsertSymbol(symbols, s, NoSector)
      BY <2>3
    <3>2. Feed!Learn(s)
      BY <2>1, <3>1, LearnStep DEF ApiTouches, TypeInv, Labels
    <3> QED
      BY <3>2
  <2> QED
    BY <2>1, <2>2, <2>3 DEF ApiTouches
<1>7. CASE /\ PollNext \/ UNCHANGED vars
           /\ ~(SaveSymbol \/ SaveSymbolUnread \/ SaveSnapshot \/ SaveSnapshotUnread)
           /\ ~(SaveQuote \/ Prune \/ Advance)
  <2>1. CASE MarketStep
    BY <1>7, <2>1
       DEF MarketStep, FetchMarket, RetryMarket, FetchMarketFails,
           SelectSymbol, RowRaises, SymbolTaken, FlushFails, RowsDone
  <2>2. CASE HistoryStep
    BY <2>2 DEF HistoryStep, WatchNext, FetchPoints, FetchPointsFails, PointsRaise, InsertBatch,
                CommitBatches, WatchDone
  <2>3. CASE WorkerFault
    BY <1>7, <2>3
       DEF WorkerFault, InitDbFails, SaveSnapshotFails,
           SelectSymbolFails, SaveSymbolFails, BadVolume, SaveQuoteFails, InsertBatchFails,
           CommitBatchesFails, PruneFails, Crash, FlushFails, CommitFails
  <2>4. CASE Wake \/ InitDb \/ PruneRaises \/ UNCHANGED vars
    BY <2>4 DEF Wake, InitDb, PruneRaises
  <2> QED
    BY <1>7, <2>1, <2>2, <2>3, <2>4 DEF PollNext, WorkerStep
<1> QED
  BY <1>1, <1>2, <1>3, <1>4, <1>5, <1>6, <1>7 DEF Next

\* A stamp is given to what is stored next, and taken from what was stored
LEMMA StampStep ==
  ASSUME Inv, [Next]_vars
  PROVE  \/ now' = now /\ stamp' \in {stamp, now, Never}
         \/ stamp' = stamp
<1> USE DEF NoFault, Fault
<1>1. CASE MarketStep
  BY <1>1
     DEF MarketStep, FetchMarket, Stamp, RetryMarket, FetchMarketFails, SaveSnapshot, Unstamp,
         SelectSymbol, RowRaises, SaveSymbol, SymbolTaken, NextRow, SaveQuote, RowsDone
<1>2. CASE HistoryStep
  BY <1>2 DEF HistoryStep, WatchNext, FetchPoints, FetchPointsFails, LeaveRefresh, PointsRaise,
              InsertBatch, CommitBatches, WatchDone, Stamp
<1>3. CASE WorkerFault
  BY <1>3
     DEF WorkerFault, InitDbFails, EndTick, SaveSnapshotFails, SaveSnapshotUnread, Unstamp,
         SelectSymbolFails, SaveSymbolFails, SaveSymbolUnread, NextRow, BadVolume, SaveQuoteFails,
         InsertBatchFails, LeaveRefresh, CommitBatchesFails, PruneFails, Crash
<1>4. CASE Wake \/ InitDb \/ Prune \/ PruneRaises \/ Advance
  BY <1>4 DEF Wake, InitDb, Prune, PruneRaises, EndTick, Advance
<1>5. CASE ApiStep \/ ApiCrash \/ UNCHANGED vars
  BY <1>5, ApiTouchesOnly DEF ApiTouches
<1> QED
  BY <1>1, <1>2, <1>3, <1>4, <1>5 DEF Next, PollNext, WorkerStep

\* Every step of the worker or the API is a step of the feed
LEMMA FeedStep ==
  ASSUME Inv, [Next]_vars
  PROVE  Feed!FeedNext
<1>1. AsOf' \in {AsOf, now'}
  BY StampStep DEF AsOf
<1>2. (IF stamp = Never THEN now ELSE stamp)' \in {IF stamp = Never THEN now ELSE stamp, now'}
  BY <1>1 DEF AsOf
<1>3. UNCHANGED <<now, symbols, quotes, snap>> => UNCHANGED <<now, Feed!tableVars>>
  BY DEF Feed!tableVars
<1> QED
  BY <1>2, <1>3, TableStep DEF Feed!FeedNext

LEMMA FeedInit == Init => Feed!FeedInit
<1> SUFFICES ASSUME Init PROVE Feed!FeedInit
  OBVIOUS
<1>1. \A s \in Symbols : LatestAt(quotes, s) = Never
  BY LatestIs DEF Init, PollInit
<1> QED
  BY <1>1 DEF Init, PollInit, Feed!FeedInit, Feed!Never, Never, AsOf

\* The worker, failing and starting again, beside an API that starts up,
\* implements the feed of quotes that the read routes rest on.
THEOREM FeedImplemented == Spec => ImplementsFeed
<1>1. Inv /\ [Next]_vars => [Feed!FeedNext]_Feed!feedVars
  BY FeedStep
<1> QED
  BY Invariance, FeedInit, <1>1, PTL DEF Spec, ImplementsFeed, Feed!FeedSpec

\* The latest quote of a symbol goes only by outliving the retention: no other
\* step of the feed takes it.
THEOREM LatestIsKept == Spec => LatestQuoteKept
<1> DEFINE Kept ==
      \A s \in Symbols :
        LatestAt(quotes, s) # Never /\ now - LatestAt(quotes, s) <= Retention
          => LatestAt(quotes', s) >= LatestAt(quotes, s)
<1>1. Inv /\ [Next]_vars => [Kept]_pollVars
  <2> SUFFICES ASSUME Inv, [Next]_vars,
                      NEW s \in Symbols, LatestAt(quotes, s) # Never,
                      now - LatestAt(quotes, s) <= Retention
               PROVE  LatestAt(quotes', s) >= LatestAt(quotes, s)
    OBVIOUS
  <2>1. quotes \in SUBSET QuoteRow /\ now \in Times /\ \A q \in quotes : q.at <= now
    BY DEF Inv, TypeInv, TablesOK, EnvOK, QuoteInv
  <2>2. LatestAt(quotes, s) \in Times /\ LatestAt(quotes, s) <= now
    BY <2>1, LatestIs
  <2>3. /\ LatestAt(quotes, s) \in Int /\ now \in Int /\ Retention \in Int
        /\ ~(now - LatestAt(quotes, s) > Retention)
    BY <2>1, <2>2, ClockAssumption, ConfigAssumption DEF Times
  <2>4. CASE Latest' = Latest
    <3>1. Latest'[s] = Latest[s]
      BY <2>4
    <3> QED
      BY <2>3, <3>1 DEF Latest
  <2>5. ASSUME NEW r \in Symbols, Feed!Publish(r), Latest[r] <= AsOf
        PROVE  LatestAt(quotes', s) >= LatestAt(quotes, s)
    <3>1. Latest' = [Latest EXCEPT ![r] = AsOf]
      BY <2>5 DEF Feed!Publish, Latest, AsOf
    <3>2. (r = s /\ Latest'[s] = AsOf) \/ Latest'[s] = Latest[s]
      BY <3>1 DEF Latest
    <3>3. AsOf \in Int
      BY AsOfTime DEF Inv
    <3> QED
      BY <2>3, <2>5, <3>2, <3>3 DEF Latest
  <2>6. CASE Feed!Expire
    <3>1. ~(AsOf - LatestAt(quotes, s) > Retention)
      BY <2>3, AsOfTime DEF Inv
    <3>2. Latest'[s] = LatestAt(quotes, s)
      BY <2>6, <3>1 DEF Feed!Expire, Latest, AsOf
    <3> QED
      BY <2>3, <3>2 DEF Latest
  <2> QED
    BY <2>4, <2>5, <2>6, TableStep
       DEF Feed!TimePasses, Feed!tableVars, Feed!Learn, Feed!List, Latest
<1> QED
  BY Invariance, <1>1, PTL DEF Spec, LatestQuoteKept
-----------------------------------------------------------------------------
\* Ticks end.

LEMMA SameStepsLeft ==
  ASSUME wpc \in Stages, UNCHANGED workerVars PROVE StepsLeft' = StepsLeft
BY StagesCount DEF Counts, Stages, BatchStages

LEMMA TickStep ==
  ASSUME Inv, Inv', [Next]_vars
  PROVE  \/ UNCHANGED workerVars
         \/ wpc = "sleep" /\ wpc' = "init"
         \/ wpc # "sleep" /\ StepsLeft' < StepsLeft
<1> USE DEF Inv
<1>1. Numbers /\ Numbers'
  BY NumbersType, PTL
<1>2. CASE PollNext /\ wpc # "sleep"
  BY <1>1, <1>2, PollShrinks
<1>3. CASE PollNext /\ wpc = "sleep"
  <2>1. CASE Wake
    BY <2>1 DEF Wake, Goto
  <2>2. CASE Advance
    BY <2>2 DEF Advance
  <2>3. ~(MarketStep \/ HistoryStep \/ WorkerFault \/ InitDb \/ Prune \/ PruneRaises)
    BY <1>3
       DEF MarketStep, FetchMarket, RetryMarket, FetchMarketFails, SaveSnapshot, SelectSymbol, RowRaises,
           SaveSymbol, SymbolTaken, SaveQuote, RowsDone, HistoryStep, WatchNext, FetchPoints,
           FetchPointsFails, PointsRaise, InsertBatch, CommitBatches, WatchDone, BatchStages, WorkerFault,
           InitDbFails, SaveSnapshotFails, SaveSnapshotUnread, SelectSymbolFails, SaveSymbolFails,
           SaveSymbolUnread, BadVolume, SaveQuoteFails, InsertBatchFails, CommitBatchesFails, PruneFails, Crash,
           InitDb, Prune, PruneRaises
  <2> QED
    BY <1>3, <2>1, <2>2, <2>3 DEF PollNext, WorkerStep
<1>4. CASE ApiStep \/ ApiCrash \/ UNCHANGED vars
  BY <1>4, ApiTouchesOnly DEF ApiTouches
<1> QED
  BY <1>2, <1>3, <1>4 DEF Next

\* Whatever fails in a tick, each of its steps brings its end nearer.
THEOREM TicksShrink == Spec => TickShrinks
<1>1. Inv /\ Inv' /\ [Next]_vars
        => [wpc # "sleep" /\ workerVars' # workerVars => StepsLeft' < StepsLeft]_pollVars
  BY TickStep
<1> QED
  BY Invariance, <1>1, PTL DEF Spec, TickShrinks

\* What a tick takes at most, from its start
TickSteps ==
  (MaxAttempts + 3 * Cardinality(Symbols) + 3) + WatchLeft(Cardinality(Watchlist))

StepsInTick == StepsLeft \in Nat /\ StepsLeft <= TickSteps

\* A tick is over after TickSteps steps of the worker: the number of attempts,
\* of rows of the page and of points of the watchlist bounds what it does,
\* however its failures and the steps of the API fall (worker.py:18-68).
THEOREM TicksAreBounded == Spec => []StepsInTick
<1>1. Inv => Numbers /\ wpc \in Stages
  BY NumbersType DEF Inv, TypeInv, TickInv, TickOK
<1>2. Inv => StepsLeft \in Nat
  BY <1>1, StepsBounded
<1>3. Inv => TickSteps \in Nat
  BY <1>1 DEF Numbers, TickSteps
<1>4. Init /\ Inv => StepsInTick
  <2>1. Init => StepsLeft = 0
    BY StagesCount DEF Counts, Init, PollInit
  <2> QED
    BY <2>1, <1>3 DEF StepsInTick
<1>5. Inv' => (StepsLeft \in Nat)'
  BY <1>2, PTL
<1>6. Inv /\ Inv' /\ StepsInTick /\ [Next]_vars => StepsInTick'
  <2> SUFFICES ASSUME Inv, Inv', StepsInTick, [Next]_vars PROVE StepsInTick'
    OBVIOUS
  <2>1. StepsLeft' \in Nat
    BY <1>5
  <2>2. TickSteps' = TickSteps
    BY DEF TickSteps, WatchLeft, RefreshSteps, MaxPoints
  <2>3. CASE UNCHANGED workerVars
    BY <1>1, <2>1, <2>2, <2>3, SameStepsLeft DEF StepsInTick
  <2>4. CASE wpc' = "init"
    <3>1. StepsLeft' = TickSteps
      BY <2>4, StagesCount DEF Counts, TickSteps
    <3> QED
      BY <1>3, <2>1, <2>2, <3>1 DEF StepsInTick
  <2>5. CASE StepsLeft' < StepsLeft
    BY <1>3, <2>1, <2>2, <2>5 DEF StepsInTick
  <2> QED
    BY <2>3, <2>4, <2>5, TickStep
<1> QED
  BY Invariance, <1>4, <1>6, PTL DEF Spec
-----------------------------------------------------------------------------
\* The start-up of the API.

\* It upserts symbols of the watchlist only
FromWatchlist == todo \subseteq Watchlist /\ (apc = "save" => acur \in Watchlist)

LEMMA WatchlistOnly == Spec => []FromWatchlist
<1>1. Init => FromWatchlist
  BY DEF Init, FromWatchlist
<1>2. FromWatchlist /\ [Next]_vars => FromWatchlist'
  BY DEF FromWatchlist, Next, ApiStep, ApiStart, ApiSelect, ApiSave, ApiSymbolTaken, ApiLocked,
         ApiReady, ApiCrash, ApiStops
<1> QED
  BY <1>1, <1>2, PTL DEF Spec

\* The symbols for which it may still lose a race: those without a row, and the
\* one it has found without
Contested ==
  {s \in Watchlist : symbols[s] = NoRow} \cup (IF apc = "save" /\ ~afound THEN {acur} ELSE {})

\* No step makes a symbol contested again, and a race lost settles one
RaceSettles == Contested' \subseteq Contested /\ (ApiSymbolTaken => Contested' # Contested)

\* How far a start-up is from the end
StartLeft ==
  CASE apc = "down"   -> 2 * Cardinality(Watchlist) + 2
    [] apc = "select" -> 2 * Cardinality(todo) + 1
    [] apc = "save"   -> 2 * Cardinality(todo) + 2
    [] apc = "up"     -> 0

\* A step that does not break the start-up off brings it nearer to its end
StartAdvances == ApiStep /\ ~ApiSymbolTaken /\ ~ApiLocked => StartLeft' < StartLeft

\* Rows of `symbols` stay, whoever writes
LEMMA SymbolsStay ==
  ASSUME Inv, [Next]_vars
  PROVE  \A s \in Symbols : symbols[s] # NoRow => symbols'[s] # NoRow
<1>1. CASE ApiStep \/ ApiCrash
  BY <1>1, ApiTouchesOnly, ApiTouchesSymbols DEF Inv, TypeInv
<1>2. CASE PollNext
  <2>1. CASE SaveSymbol \/ SaveSymbolUnread
    BY <2>1, SymbolSavedKeeps DEF SaveSymbol, SaveSymbolUnread, Inv
  <2>2. MarketStep => SaveSymbol \/ UNCHANGED symbols
    BY DEF MarketStep, FetchMarket, RetryMarket, FetchMarketFails, SaveSnapshot, SnapshotSaved,
           SelectSymbol, RowRaises, SymbolTaken, FlushFails, SaveQuote, RowsDone
  <2>3. HistoryStep => UNCHANGED symbols
    BY DEF HistoryStep, WatchNext, FetchPoints, FetchPointsFails, PointsRaise, InsertBatch,
           CommitBatches, WatchDone
  <2>4. WorkerFault => SaveSymbolUnread \/ UNCHANGED symbols
    BY DEF WorkerFault, InitDbFails, SaveSnapshotFails, SaveSnapshotUnread, SnapshotSaved,
           SelectSymbolFails, SaveSymbolFails, FlushFails, CommitFails, BadVolume, SaveQuoteFails,
           InsertBatchFails, CommitBatchesFails, PruneFails, Crash
  <2>5. Wake \/ InitDb \/ Prune \/ PruneRaises \/ Advance => UNCHANGED symbols
    BY DEF Wake, InitDb, Prune, PruneRaises, Advance
  <2> QED
    BY <1>2, <2>1, <2>2, <2>3, <2>4, <2>5 DEF PollNext, WorkerStep
<1>3. CASE UNCHANGED vars
  BY <1>3
<1> QED
  BY <1>1, <1>2, <1>3 DEF Next

\* The start-up loses the race for a symbol of the watchlist at most once, over
\* all the times it is started, whatever else stops it: a symbol is contested
\* no more once it has a row, and rows stay (app.py:26-27, repo.py:151-173).
THEOREM ApiRacesEnd == Spec => [][RaceSettles]_vars
<1>1. Inv /\ FromWatchlist /\ [Next]_vars => [RaceSettles]_vars
  <2> SUFFICES ASSUME Inv, FromWatchlist, Next PROVE RaceSettles
    BY DEF RaceSettles, Contested, ApiSymbolTaken, ApiStops
  <2>1. \A s \in Watchlist : symbols[s] # NoRow => symbols'[s] # NoRow
    BY SymbolsStay, ConfigAssumption
  <2>2. (apc' = "save" /\ ~afound') =>
          \/ apc = "save" /\ ~afound /\ acur' = acur
          \/ acur' \in Watchlist /\ symbols[acur'] = NoRow
    BY DEF Next, ApiStep, ApiStart, ApiSelect, ApiSave, ApiSymbolTaken, ApiLocked,
           ApiReady, ApiCrash, ApiStops, FromWatchlist, Inv, ApiOK
  <2>3. Contested' \subseteq Contested
    BY <2>1, <2>2 DEF Contested
  <2>4. ASSUME ApiSymbolTaken PROVE acur \in Contested /\ acur \notin Contested'
    BY <2>4 DEF Contested, ApiSymbolTaken, ApiStops
  <2> QED
    BY <2>3, <2>4 DEF RaceSettles
<1> QED
  BY <1>1, Invariance, WatchlistOnly, PTL DEF Spec

\* A start-up that neither loses a race, nor waits too long for the lock, nor
\* crashes is over after two steps for each symbol of the watchlist and two
\* more: it waits for the worker only at a save (app.py:21-28).
THEOREM StartsAdvance == Spec => [][StartAdvances]_vars
<1>1. Inv /\ [Next]_vars => [StartAdvances]_vars
  <2> SUFFICES ASSUME Inv, ApiStep, ~ApiSymbolTaken, ~ApiLocked PROVE StartLeft' < StartLeft
    BY DEF StartAdvances
  <2>1. /\ Cardinality(todo) \in Nat /\ Cardinality(Watchlist) \in Nat
        /\ \A s \in todo : Cardinality(todo \ {s}) = Cardinality(todo) - 1
    BY Counted, ConfigAssumption DEF Inv, ApiOK
  <2>2. CASE ApiStart
    <3>1. StartLeft = 2 * Cardinality(Watchlist) + 2
      BY <2>2, Zenon DEF StartLeft, ApiStart
    <3>2. StartLeft' = 2 * Cardinality(Watchlist) + 1
      BY <2>2, Zenon DEF StartLeft, ApiStart
    <3> QED
      BY <2>1, <3>1, <3>2
  <2>3. ASSUME NEW s \in Symbols, ApiSelect(s) PROVE StartLeft' < StartLeft
    <3>1. StartLeft = 2 * Cardinality(todo) + 1
      BY <2>3, Zenon DEF StartLeft, ApiSelect
    <3>2. StartLeft' = 2 * Cardinality(todo \ {s}) + 2
      BY <2>3, Zenon DEF StartLeft, ApiSelect
    <3> QED
      BY <2>1, <2>3, <3>1, <3>2 DEF ApiSelect
  <2>4. CASE ApiSave
    <3>1. StartLeft = 2 * Cardinality(todo) + 2
      BY <2>4, Zenon DEF StartLeft, ApiSave
    <3>2. StartLeft' = 2 * Cardinality(todo) + 1
      BY <2>4, Zenon DEF StartLeft, ApiSave
    <3> QED
      BY <2>1, <3>1, <3>2
  <2>5. CASE ApiReady
    <3>1. StartLeft = 2 * Cardinality(todo) + 1
      BY <2>5, Zenon DEF StartLeft, ApiReady
    <3>2. StartLeft' = 0
      BY <2>5, Zenon DEF StartLeft, ApiReady
    <3> QED
      BY <2>1, <3>1, <3>2
  <2> QED
    BY <2>2, <2>3, <2>4, <2>5 DEF ApiStep
<1> QED
  BY <1>1, Invariance, PTL DEF Spec
-----------------------------------------------------------------------------
\* The rows of a page.

\* A ticker of the page is still to come, or is being worked on, or has a quote
\* of this tick
RowsStored ==
  faults = 0 /\ sess = "active" /\ wpc \in {"rows", "symbol", "quote"} =>
    \A s \in snap.tickers \ rows :
      \/ wpc # "rows" /\ s = cur
      \/ \E q \in quotes : q.symbol = s /\ q.at >= snap.at

LEMMA RowsFrame ==
  ASSUME RowsStored, UNCHANGED <<quotes, snap, rows, cur>>,
         wpc \in {"rows", "symbol", "quote"}, wpc' = wpc \/ (wpc # "rows" /\ wpc' # "rows"),
         faults' = 0 => faults = 0, sess' = sess
  PROVE  RowsStored'
BY DEF RowsStored

LEMMA MarketStepStores ==
  ASSUME Inv, RowsStored, MarketStep PROVE RowsStored'
<1> USE DEF NoFault, Goto
<1>1. CASE \/ RetryMarket \/ FetchMarketFails \/ RowsDone \/ SymbolTaken
           \/ \E page \in Pages, sector \in PageLabels : FetchMarket(page, sector)
  BY <1>1 DEF FetchMarket, RetryMarket, FetchMarketFails, RowsDone, StartWatch, SymbolTaken,
              FlushFails, RowsStored
<1>2. CASE SaveSnapshot
  BY <1>2 DEF SaveSnapshot, SnapshotSaved, RowsStored
<1>3. ASSUME NEW s \in Symbols, SelectSymbol(s) \/ RowRaises(s) PROVE RowsStored'
  BY <1>3 DEF SelectSymbol, RowRaises, Active, RowsStored
<1>4. CASE SaveSymbol
  BY <1>4, RowsFrame DEF SaveSymbol, SymbolSaved, Stamp
<1>5. CASE SaveQuote
  <2>1. [symbol |-> cur, at |-> stamp] \in quotes' /\ quotes \subseteq quotes' /\ stamp >= snap.at
    BY <1>5, ClockAssumption
       DEF SaveQuote, Inv, QuoteInv, TypeInv, TickInv, StampIsTime, Times, TablesOK, SnapshotRow, Never
  <2>2. wpc = "quote" /\ UNCHANGED <<faults, sess, snap, rows>>
    BY <1>5 DEF SaveQuote
  <2> QED
    BY <2>1, <2>2 DEF RowsStored
<1> QED
  BY <1>1, <1>2, <1>3, <1>4, <1>5 DEF MarketStep

\* A fault of either process is counted
LEMMA FaultsCount ==
  ASSUME Inv, Fault PROVE faults' # 0
BY DEF Inv, TypeInv, EnvOK, Fault

\* As long as nothing has failed, a tick that gets to the end of its page has
\* stored a quote for each of the tickers on it, whatever the API does beside
\* it; a race lost to the API shows in the session (quote_service.py:67-99).
THEOREM RowsAreStored == Spec => []RowsStored
<1>1. Init => RowsStored
  BY DEF Init, PollInit, RowsStored
<1>2. Inv /\ RowsStored /\ [Next]_vars => RowsStored'
  <2> SUFFICES ASSUME Inv, RowsStored, [Next]_vars PROVE RowsStored'
    OBVIOUS
  <2>1. CASE ApiStep \/ ApiCrash
    <3>1. UNCHANGED <<quotes, snap, workerVars>> /\ (NoFault \/ Fault)
      BY <2>1, ApiTouchesOnly DEF ApiTouches
    <3> QED
      BY <3>1, FaultsCount DEF RowsStored, NoFault
  <2>2. CASE MarketStep
    BY <2>2, MarketStepStores
  <2>3. CASE HistoryStep
    <3>1. wpc' \notin {"rows", "symbol", "quote"}
      BY <2>3 DEF HistoryStep, WatchNext, FetchPoints, FetchPointsFails, PointsRaise, InsertBatch,
                  CommitBatches, WatchDone, LeaveRefresh, Goto, BatchStages
    <3> QED
      BY <3>1 DEF RowsStored
  <2>4. CASE Wake \/ InitDb \/ Prune \/ PruneRaises
    BY <2>4 DEF Wake, InitDb, Prune, PruneRaises, EndTick, Goto, RowsStored
  <2>5. CASE WorkerFault
    <3>1. Fault
      BY <2>5 DEF WorkerFault, InitDbFails, SaveSnapshotFails, SaveSnapshotUnread,
                  SelectSymbolFails, SaveSymbolFails, SaveSymbolUnread, BadVolume, SaveQuoteFails,
                  InsertBatchFails, CommitBatchesFails, PruneFails, Crash
    <3> QED
      BY <3>1, FaultsCount DEF RowsStored
  <2>6. CASE Advance
    BY <2>6 DEF Advance, RowsStored
  <2>7. CASE UNCHANGED vars
    BY <2>7 DEF RowsStored
  <2> QED
    BY <2>1, <2>2, <2>3, <2>4, <2>5, <2>6, <2>7 DEF Next, PollNext, WorkerStep
<1> QED
  BY <1>1, <1>2, Invariance, PTL DEF Spec
=============================================================================
