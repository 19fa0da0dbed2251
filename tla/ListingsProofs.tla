--------------------------- MODULE ListingsProofs ---------------------------
(***************************************************************************)
(* What a reader of the listings has paged through stays as it was, but    *)
(* for what the source had left out, for every batch size, day length,     *)
(* watchlist, number of faults, and whatever the source lists at each      *)
(* fetch.  A point is stored, committed or pending, only with all the      *)
(* earlier ones of its symbol and interval that were not skipped, and a    *)
(* date only with all the earlier dates that were not.                     *)
(***************************************************************************)
EXTENDS Listings, DataHubProofs, NatLemmas

USE DEF vars, apiVars, pollVars, workerVars, envVars, tables, txnVars, marketVars, rowVars, pointVars

Point(s, i, t) == [symbol |-> s, interval |-> i, ts |-> t]

\* A table of points that has no gaps but these
Filled(table, gaps) ==
  \A s \in Symbols, i \in {"int", "eod"}, t \in Times, u \in Times :
    Point(s, i, t) \in table /\ u < t => Point(s, i, u) \in table \cup gaps

Dated(table, s, d) == \E e \in table : e.symbol = s /\ e.date = d

\* The days that are gaps as a whole
GapDays(gaps, s) ==
  {d \in {DateOf(t) : t \in Times} :
     \A t \in Times : DateOf(t) = d => Point(s, "eod", t) \in gaps}

\* A table of records that has no gaps but such days
Daily(table, gaps) ==
  \A e \in table : \A d \in 0..e.date :
    Dated(table, e.symbol, d) \/ d \in GapDays(gaps, e.symbol)

Earliest(batch, points) == \A t \in batch, u \in points : u < t => u \in batch

\* The batches take the points in their order
InOrder ==
  wpc \in BatchStages => pts \subseteq fetched /\ Earliest(fetched \ pts, fetched)

HistDone ==
  \A i \in {"int", "eod"} :
    wpc = (IF i = "int" THEN "intBatch" ELSE "eodHistBatch") =>
      \A t \in fetched \ pts : Point(cur, i, t) \in hist \cup pendHist

EodDone ==
  wpc = "eodBatch" => \A t \in fetched \ pts : Dated(eod \cup pendEod, cur, DateOf(t))

\* What the batches of a refresh have settled
BatchInv == InOrder /\ HistDone /\ EodDone

\* What is missing among `all` is a gap
Leaves(all, s, i, gaps) ==
  \A t \in all, u \in Times \ all : u < t => Point(s, i, u) \in gaps

FetchedLeaves ==
  wpc \in BatchStages =>
    Leaves(fetched, cur, IF wpc = "intBatch" THEN "int" ELSE "eod", skipped)

\* The inductive invariant of ListSpec, beside Inv and BatchInv.  The properties
\* are of the committed tables; a later commit adds what is pending, so the only
\* gaps of both have to be what was skipped.
GapInv ==
  /\ Filled(hist, skipped) /\ Filled(hist \cup pendHist, skipped)
  /\ Daily(eod, skipped) /\ Daily(eod \cup pendEod, skipped)
  /\ FetchedLeaves

-----------------------------------------------------------------------------
\* What the operators return.

LEMMA TimesAreNat == Times \subseteq Nat
BY ClockAssumption DEF Times

LEMMA TimesFinite ==
  ASSUME NEW S \in SUBSET Times
  PROVE  /\ IsFiniteSet(S) /\ Cardinality(S) \in Nat
         /\ \A T \in SUBSET S : Cardinality(T) \in Nat /\ Cardinality(T) <= Cardinality(S)
<1>1. IsFiniteSet(Times)
  BY FS_Interval, ClockAssumption DEF Times
<1>2. IsFiniteSet(S)
  BY <1>1, FS_Subset
<1> QED
  BY <1>2, FS_Subset, FS_CardinalityType

\* The first n points are the earliest
LEMMA FirstOfEarliest ==
  ASSUME NEW n \in Nat, NEW points \in SUBSET Times
  PROVE  Earliest(FirstOf(n, points), points)
<1> SUFFICES ASSUME NEW t \in FirstOf(n, points), NEW u \in points, u < t
             PROVE  u \in FirstOf(n, points)
  BY DEF Earliest
<1> DEFINE Before(x) == {v \in points : v < x}
<1>1. t \in points /\ Cardinality(Before(t)) < n
  BY DEF FirstOf
<1>2. Before(u) \subseteq Before(t) /\ Before(t) \in SUBSET Times
  <2>1. \A v \in points : v < u => v < t
    BY <1>1, TimesAreNat
  <2> QED
    BY <2>1
<1>3. /\ Cardinality(Before(u)) <= Cardinality(Before(t))
      /\ Cardinality(Before(u)) \in Nat /\ Cardinality(Before(t)) \in Nat
  BY <1>2, TimesFinite
<1>4. Cardinality(Before(u)) < n
  <2> HIDE DEF Before
  <2> QED
    BY <1>1, <1>3
<1> QED
  BY <1>4 DEF FirstOf

LEMMA DateOfIs ==
  ASSUME NEW t \in Nat, NEW d \in Nat
  PROVE  DateOf(t) = d <=> d * UnitsPerDay <= t /\ t < d * UnitsPerDay + UnitsPerDay
BY ClockAssumption, Z3 DEF DateOf

\* A point of an earlier date is earlier
LEMMA LaterDate ==
  ASSUME NEW t \in Times, NEW u \in Times, DateOf(u) < DateOf(t)
  PROVE  u < t
<1>1. t \in Nat /\ u \in Nat /\ UnitsPerDay \in Nat \ {0}
  BY ClockAssumption DEF Times
<1> QED
  BY <1>1, Z3 DEF DateOf

\* Every date before that of a point is the date of an earlier point
LEMMA EarlierDate ==
  ASSUME NEW t \in Times, NEW d \in Nat, d < DateOf(t)
  PROVE  \E u \in Times : u < t /\ DateOf(u) = d
<1> DEFINE u == d * UnitsPerDay
<1>1. u \in Nat /\ UnitsPerDay \in Nat \ {0}
  BY ClockAssumption
<1>2. DateOf(u) = d
  BY <1>1, DateOfIs
<1>3. u < t
  BY <1>1, ClockAssumption, Z3 DEF DateOf, Times
<1>4. u \in Times
  BY <1>1, <1>3, ClockAssumption DEF Times
<1> QED
  BY <1>2, <1>3, <1>4

\* An insert of the earliest points that are left makes no other gap
LEMMA HistoryRowsFill ==
  ASSUME NEW table, NEW gaps, Filled(table, gaps), NEW s \in Symbols, NEW i \in {"int", "eod"},
         NEW all \in SUBSET Times, Leaves(all, s, i, gaps),
         NEW left \in SUBSET all, NEW batch \in SUBSET left, Earliest(batch, left),
         \A t \in all \ left : Point(s, i, t) \in table
  PROVE  Filled(table \cup HistoryRows(s, i, batch), gaps)
<1> DEFINE new == HistoryRows(s, i, batch)
<1> SUFFICES ASSUME NEW r \in Symbols, NEW j \in {"int", "eod"}, NEW t \in Times, NEW u \in Times,
                    Point(r, j, t) \in table \cup new, u < t
             PROVE  Point(r, j, u) \in (table \cup new) \cup gaps
  BY DEF Filled
<1>1. CASE Point(r, j, t) \in table
  BY <1>1 DEF Filled
<1>2. CASE Point(r, j, t) \in new
  <2>1. r = s /\ j = i /\ t \in batch
    BY <1>2 DEF HistoryRows, Point
  <2>2. CASE u \notin all
    BY <2>1, <2>2 DEF Leaves
  <2>3. CASE u \in left
    <3>1. u \in batch
      BY <2>1, <2>3 DEF Earliest
    <3> QED
      BY <2>1, <3>1 DEF HistoryRows, Point
  <2>4. CASE u \in all \ left
    BY <2>1, <2>4
  <2> QED
    BY <2>2, <2>3, <2>4
<1> QED
  BY <1>1, <1>2

LEMMA EodRowsDate ==
  ASSUME NEW table, NEW s \in Symbols, NEW batch \in SUBSET Times, NEW t \in batch
  PROVE  Dated(table \cup EodRows(table, s, batch), s, DateOf(t))
<1>1. CASE Dated(table, s, DateOf(t))
  BY <1>1 DEF Dated
<1>2. CASE ~Dated(table, s, DateOf(t))
  <2> DEFINE day == {p \in batch : DateOf(p) = DateOf(t)}
  <2>1. day \subseteq Nat /\ day # {}
    <3>1. t \in day /\ day \subseteq batch
      OBVIOUS
    <3> QED
      BY <3>1, TimesAreNat
  <2>2. PICK m \in day : \A p \in day : m <= p
    BY <2>1, LeastNat
  <2>3. [symbol |-> s, date |-> DateOf(m), ts |-> m] \in EodRows(table, s, batch)
    BY <1>2, <2>2 DEF EodRows, Dated
  <2> QED
    BY <2>2, <2>3 DEF Dated
<1> QED
  BY <1>1, <1>2

LEMMA EodRowsFill ==
  ASSUME NEW table \in SUBSET EodRow, NEW gaps, Daily(table, gaps), NEW s \in Symbols,
         NEW all \in SUBSET Times, Leaves(all, s, "eod", gaps),
         NEW left \in SUBSET all, NEW batch \in SUBSET left, Earliest(batch, left),
         \A t \in all \ left : Dated(table, s, DateOf(t))
  PROVE  Daily(table \cup EodRows(table, s, batch), gaps)
<1> DEFINE new == EodRows(table, s, batch)
<1> SUFFICES ASSUME NEW e \in table \cup new, NEW d \in 0..e.date
             PROVE  Dated(table \cup new, e.symbol, d) \/ d \in GapDays(gaps, e.symbol)
  BY DEF Daily
<1>1. CASE e \in table
  BY <1>1 DEF Daily, Dated
<1>2. CASE e \in new
  <2>1. PICK p \in batch : e = [symbol |-> s, date |-> DateOf(p), ts |-> p]
    BY <1>2 DEF EodRows
  <2>2. CASE d = DateOf(p)
    BY <1>2, <2>1, <2>2 DEF Dated
  <2>3. CASE d # DateOf(p)
    <3>1. d \in Nat /\ d < DateOf(p)
      BY <2>1, <2>3, DateOfType
    <3>2. \A u \in Times : DateOf(u) = d => u < p
      BY <3>1, LaterDate
    <3>3. ASSUME NEW u \in all, DateOf(u) = d PROVE Dated(table \cup new, s, d)
      <4>1. u < p
        BY <3>2, <3>3
      <4>2. CASE u \in left
        <5>1. u \in batch
          BY <2>1, <4>1, <4>2 DEF Earliest
        <5> QED
          BY <3>3, <5>1, EodRowsDate
      <4>3. CASE u \notin left
        BY <3>3, <4>3 DEF Dated
      <4> QED
        BY <4>2, <4>3
    <3>4. CASE \A u \in all : DateOf(u) # d
      <4>1. \E u \in Times : DateOf(u) = d
        BY <3>1, EarlierDate
      <4>2. \A u \in Times : DateOf(u) = d => Point(s, "eod", u) \in gaps
        BY <2>1, <3>2, <3>4 DEF Leaves
      <4> QED
        BY <2>1, <4>1, <4>2 DEF GapDays
    <3> QED
      BY <2>1, <3>3, <3>4
  <2> QED
    BY <2>2, <2>3
<1> QED
  BY <1>1, <1>2

-----------------------------------------------------------------------------
\* The steps of the worker.

LEMMA BatchFrame == ASSUME wpc' \notin BatchStages PROVE BatchInv'
BY DEF BatchInv, InOrder, HistDone, EodDone, BatchStages

\* The points that a batch leaves are again the last ones
LEMMA BatchLeavesLast ==
  ASSUME NEW all \in SUBSET Times, NEW left \in SUBSET all, Earliest(all \ left, all),
         NEW batch \in SUBSET left, Earliest(batch, left)
  PROVE  Earliest(all \ (left \ batch), all)
<1> SUFFICES ASSUME NEW t \in all \ (left \ batch), NEW u \in all, u < t
             PROVE  u \in all \ (left \ batch)
  BY DEF Earliest
<1>1. CASE t \in batch
  BY <1>1 DEF Earliest
<1>2. CASE t \notin batch
  BY <1>2 DEF Earliest
<1> QED
  BY <1>1, <1>2

\* What an insert takes and what it has to go by
LEMMA BatchIs ==
  ASSUME TypeInv, BatchInv, InsertBatch, NEW batch, batch = FirstOf(BatchSize, pts)
  PROVE  /\ wpc \in BatchStages /\ pts' = pts \ batch
         /\ UNCHANGED <<hist, eod, wpc, cur, fetched>>
         /\ batch \subseteq pts /\ pts \subseteq fetched /\ fetched \subseteq Times
         /\ cur \in Symbols /\ eod \cup pendEod \subseteq EodRow
         /\ Earliest(fetched \ pts, fetched) /\ Earliest(batch, pts)
<1>1. wpc \in BatchStages /\ pts' = pts \ batch /\ UNCHANGED <<hist, eod, wpc, cur, fetched>>
  BY DEF InsertBatch
<1>2. /\ batch \subseteq pts /\ pts \subseteq fetched /\ fetched \subseteq Times
      /\ cur \in Symbols /\ eod \cup pendEod \subseteq EodRow
      /\ Earliest(fetched \ pts, fetched)
  BY <1>1, FirstOfSubset
     DEF BatchInv, InOrder, TypeInv, TickInv, TickOK, CurIsSymbol, TablesOK, SessionOK
<1>3. Earliest(batch, pts)
  BY <1>2, FirstOfEarliest, ConfigAssumption
<1> QED
  BY <1>1, <1>2, <1>3

LEMMA InsertBatchSettles ==
  ASSUME TypeInv, BatchInv, InsertBatch PROVE BatchInv'
<1> DEFINE batch == FirstOf(BatchSize, pts)
<1>1. /\ wpc \in BatchStages /\ pts' = pts \ batch
      /\ UNCHANGED <<hist, eod, wpc, cur, fetched>>
      /\ batch \subseteq pts /\ pts \subseteq fetched /\ fetched \subseteq Times /\ cur \in Symbols
      /\ Earliest(fetched \ pts, fetched) /\ Earliest(batch, pts)
  BY BatchIs
<1> HIDE DEF batch
<1>2. InOrder'
  <2>1. Earliest(fetched \ pts', fetched)
    BY <1>1, BatchLeavesLast
  <2> QED
    BY <1>1, <2>1 DEF InOrder, Earliest
<1>3. HistDone'
  <2> SUFFICES ASSUME NEW i \in {"int", "eod"}, wpc = (IF i = "int" THEN "intBatch" ELSE "eodHistBatch"),
                      NEW t \in fetched \ pts'
               PROVE  Point(cur, i, t) \in hist' \cup pendHist'
    BY <1>1 DEF HistDone
  <2>1. pendHist' = pendHist \cup HistoryRows(cur, i, batch)
    BY DEF InsertBatch, batch
  <2>2. \A u \in fetched \ pts : Point(cur, i, u) \in hist \cup pendHist
    BY DEF BatchInv, HistDone
  <2> QED
    BY <1>1, <2>1, <2>2 DEF HistoryRows, Point
<1>4. EodDone'
  <2> SUFFICES ASSUME wpc = "eodBatch", NEW t \in fetched \ pts'
               PROVE  Dated(eod' \cup pendEod', cur, DateOf(t))
    BY <1>1 DEF EodDone, Dated, DateOf
  <2>1. eod' \cup pendEod' = (eod \cup pendEod) \cup EodRows(eod \cup pendEod, cur, batch)
    BY <1>1 DEF InsertBatch, batch
  <2>2. CASE t \in batch
    <3>1. batch \in SUBSET Times
      BY <1>1
    <3> QED
      BY <1>1, <2>1, <2>2, <3>1, EodRowsDate
  <2>3. CASE t \notin batch
    <3>1. Dated(eod \cup pendEod, cur, DateOf(t))
      BY <1>1, <2>3 DEF BatchInv, EodDone
    <3> QED
      BY <2>1, <3>1 DEF Dated
  <2> QED
    BY <2>2, <2>3
<1> QED
  BY <1>2, <1>3, <1>4 DEF BatchInv

LEMMA HistoryStepBatch ==
  ASSUME TypeInv, BatchInv, HistoryStep PROVE BatchInv'
<1>1. ASSUME NEW s \in Symbols, WatchNext(s) PROVE BatchInv'
  BY <1>1, BatchFrame DEF WatchNext, Goto, BatchStages
<1>2. CASE FetchPointsFails \/ PointsRaise \/ WatchDone
  BY <1>2, BatchFrame DEF FetchPointsFails, PointsRaise, WatchDone, LeaveRefresh, Goto, BatchStages
<1>3. ASSUME NEW list \in Lists, FetchPoints(list) PROVE BatchInv'
  <2>1. pts' = fetched' /\ wpc' # "eodBatch"
    BY <1>3 DEF FetchPoints, Goto
  <2> QED
    BY <2>1 DEF BatchInv, InOrder, HistDone, EodDone, Earliest
<1>4. CASE CommitBatches
  <2>1. CASE wpc = "eodHistBatch"
    <3>1. wpc' = "eodBatch" /\ pts' = fetched'
      BY <1>4, <2>1 DEF CommitBatches, Goto
    <3> QED
      BY <3>1 DEF BatchInv, InOrder, HistDone, EodDone, Earliest
  <2>2. CASE wpc # "eodHistBatch"
    BY <1>4, <2>2, BatchFrame DEF CommitBatches, LeaveRefresh, Goto, BatchStages
  <2> QED
    BY <2>1, <2>2
<1> QED
  BY <1>1, <1>2, <1>3, <1>4, InsertBatchSettles DEF HistoryStep

\* The other steps of the worker lead to none of these stages
LEMMA OtherStages ==
  ASSUME PollNext, ~HistoryStep, ~Advance PROVE wpc' \notin BatchStages
<1>1. CASE MarketStep
  BY <1>1 DEF MarketStep, FetchMarket, RetryMarket, FetchMarketFails, SaveSnapshot,
              SelectSymbol, RowRaises, SaveSymbol, SymbolTaken, SaveQuote,
              RowsDone, StartWatch, NextRow, Goto, BatchStages
<1>2. CASE WorkerFault
  BY <1>2 DEF WorkerFault, InitDbFails, SaveSnapshotFails, SaveSnapshotUnread, SelectSymbolFails,
              SaveSymbolFails, SaveSymbolUnread, BadVolume, SaveQuoteFails, InsertBatchFails,
              CommitBatchesFails, PruneFails, Crash, StartWatch, NextRow, LeaveRefresh, EndTick,
              Goto, BatchStages
<1>3. CASE Wake \/ InitDb \/ Prune \/ PruneRaises
  BY <1>3 DEF Wake, InitDb, Prune, PruneRaises, EndTick, Goto, BatchStages
<1> QED
  BY <1>1, <1>2, <1>3 DEF PollNext, WorkerStep

LEMMA NextBatch == Inv /\ BatchInv /\ [Next]_vars => BatchInv'
<1> SUFFICES ASSUME Inv, BatchInv, [Next]_vars PROVE BatchInv'
  OBVIOUS
<1>1. CASE HistoryStep
  BY <1>1, HistoryStepBatch DEF Inv
<1>2. CASE Advance \/ ApiStep \/ ApiCrash \/ UNCHANGED vars
  <2>1. UNCHANGED <<hist, eod, workerVars>>
    BY <1>2, ApiTouchesOnly DEF ApiTouches, Advance
  <2> QED
    BY <2>1 DEF BatchInv, InOrder, Earliest, HistDone, EodDone, Dated
<1>3. CASE PollNext /\ ~HistoryStep /\ ~Advance
  BY <1>3, OtherStages, BatchFrame
<1> QED
  BY <1>1, <1>2, <1>3 DEF Next

THEOREM BatchesInOrder == Spec => [](Inv /\ BatchInv)
<1>1. Init => Inv /\ BatchInv
  BY InitInv DEF Init, PollInit, BatchInv, InOrder, HistDone, EodDone, BatchStages
<1>2. (Inv /\ BatchInv) /\ [Next]_vars => (Inv /\ BatchInv)'
  BY NextInv, NextBatch
<1> QED
  BY <1>1, <1>2, PTL DEF Spec

-----------------------------------------------------------------------------
\* The gaps of the tables.

\* What a step that inserts nothing does to a table: what is pending is lost,
\* kept or committed
Settles(table, pending, tableN, pendingN) ==
  /\ tableN = table \/ tableN = table \cup pending
  /\ tableN \cup pendingN = table \/ tableN \cup pendingN = table \cup pending

\* More may be skipped
LEMMA MoreGaps ==
  ASSUME NEW gaps, NEW more, gaps \subseteq more
  PROVE  /\ \A table : Filled(table, gaps) => Filled(table, more)
         /\ \A table : Daily(table, gaps) => Daily(table, more)
         /\ \A all, s, i : Leaves(all, s, i, gaps) => Leaves(all, s, i, more)
<1>1. \A table : Filled(table, gaps) => Filled(table, more)
  BY DEF Filled
<1>2. \A s : GapDays(gaps, s) \subseteq GapDays(more, s)
  BY DEF GapDays
<1>3. \A table : Daily(table, gaps) => Daily(table, more)
  BY <1>2 DEF Daily
<1>4. \A all, s, i : Leaves(all, s, i, gaps) => Leaves(all, s, i, more)
  BY DEF Leaves
<1> QED
  BY <1>1, <1>3, <1>4

LEMMA GapFrame ==
  ASSUME GapInv, skipped \subseteq skipped', wpc' \notin BatchStages,
         Settles(hist, pendHist, hist', pendHist'), Settles(eod, pendEod, eod', pendEod')
  PROVE  GapInv'
<1>1. /\ Filled(hist', skipped') /\ Filled(hist' \cup pendHist', skipped')
      /\ Daily(eod', skipped') /\ Daily(eod' \cup pendEod', skipped')
  BY MoreGaps DEF GapInv, Settles
<1>2. FetchedLeaves'
  BY DEF FetchedLeaves
<1> QED
  BY <1>1, <1>2 DEF GapInv, Filled, Daily, Dated, GapDays, DateOf

LEMMA InsertBatchGaps ==
  ASSUME TypeInv, BatchInv, GapInv, InsertBatch, skipped \subseteq skipped' PROVE GapInv'
<1> DEFINE batch == FirstOf(BatchSize, pts)
<1>1. /\ wpc \in BatchStages /\ UNCHANGED <<hist, eod, wpc, cur, fetched>>
      /\ batch \subseteq pts /\ pts \subseteq fetched /\ fetched \subseteq Times
      /\ cur \in Symbols /\ eod \cup pendEod \subseteq EodRow /\ Earliest(batch, pts)
  BY BatchIs
<1> HIDE DEF batch
<1>2. FetchedLeaves'
  <2>1. Leaves(fetched, cur, IF wpc = "intBatch" THEN "int" ELSE "eod", skipped')
    BY <1>1, MoreGaps DEF GapInv, FetchedLeaves
  <2> QED
    BY <1>1, <2>1 DEF FetchedLeaves, Leaves
<1>3. ASSUME NEW i \in {"int", "eod"}, wpc = (IF i = "int" THEN "intBatch" ELSE "eodHistBatch")
      PROVE  Filled(hist' \cup pendHist', skipped') /\ pendEod' = pendEod
  <2>1. pendHist' = pendHist \cup HistoryRows(cur, i, batch) /\ pendEod' = pendEod
    BY <1>3 DEF InsertBatch, batch
  <2>2. Leaves(fetched, cur, i, skipped)
    BY <1>1, <1>3 DEF GapInv, FetchedLeaves
  <2>3. \A t \in fetched \ pts : Point(cur, i, t) \in hist \cup pendHist
    BY <1>3 DEF BatchInv, HistDone
  <2>4. Filled((hist \cup pendHist) \cup HistoryRows(cur, i, batch), skipped)
    BY <1>1, <2>2, <2>3, HistoryRowsFill DEF GapInv
  <2>5. (hist \cup pendHist) \cup HistoryRows(cur, i, batch) = hist' \cup pendHist'
    BY <1>1, <2>1
  <2> QED
    BY <2>1, <2>4, <2>5, MoreGaps
<1>4. CASE wpc = "eodBatch"
  <2> DEFINE new == EodRows(eod \cup pendEod, cur, batch)
  <2>1. pendHist' = pendHist /\ pendEod' = pendEod \cup new
    BY <1>4 DEF InsertBatch, batch
  <2>2. Leaves(fetched, cur, "eod", skipped)
    BY <1>4 DEF GapInv, FetchedLeaves, BatchStages
  <2>3. \A t \in fetched \ pts : Dated(eod \cup pendEod, cur, DateOf(t))
    BY <1>4 DEF BatchInv, EodDone
  <2>4. Daily((eod \cup pendEod) \cup new, skipped)
    BY <1>1, <2>2, <2>3, EodRowsFill DEF GapInv
  <2>5. (eod \cup pendEod) \cup new = eod' \cup pendEod'
    BY <1>1, <2>1
  <2>6. Daily(eod' \cup pendEod', skipped') /\ Filled(hist' \cup pendHist', skipped')
    BY <1>1, <2>1, <2>4, <2>5, MoreGaps DEF GapInv
  <2> QED
    BY <1>1, <1>2, <2>6, MoreGaps DEF GapInv, Filled, Daily, Dated, GapDays, DateOf
<1>5. CASE wpc # "eodBatch"
  <2>1. Filled(hist' \cup pendHist', skipped') /\ pendEod' = pendEod
    BY <1>1, <1>3, <1>5 DEF BatchStages
  <2>2. Daily(eod', skipped') /\ Daily(eod' \cup pendEod', skipped') /\ Filled(hist', skipped')
    BY <1>1, <2>1, MoreGaps DEF GapInv
  <2> QED
    BY <1>2, <2>1, <2>2 DEF GapInv, Filled, Daily, Dated, GapDays, DateOf
<1> QED
  BY <1>4, <1>5

LEMMA CommitBatchesGaps ==
  ASSUME TypeInv, GapInv, CommitBatches, skipped \subseteq skipped' PROVE GapInv'
<1>1. /\ hist' = hist \cup pendHist /\ pendHist' = {}
      /\ eod' = eod \cup pendEod /\ pendEod' = {}
  BY DEF CommitBatches, Commit
<1>2. Settles(hist, pendHist, hist', pendHist') /\ Settles(eod, pendEod, eod', pendEod')
  BY <1>1 DEF Settles
<1>3. CASE wpc = "eodHistBatch"
  <2>1. wpc' = "eodBatch" /\ fetched' = fetched /\ cur' = cur
    BY <1>3 DEF CommitBatches, Goto
  <2>2. Leaves(fetched, cur, "eod", skipped')
    BY <1>3, MoreGaps DEF GapInv, FetchedLeaves, BatchStages
  <2>3. FetchedLeaves'
    BY <2>1, <2>2 DEF FetchedLeaves, Leaves
  <2>4. /\ Filled(hist', skipped') /\ Filled(hist' \cup pendHist', skipped')
        /\ Daily(eod', skipped') /\ Daily(eod' \cup pendEod', skipped')
    BY <1>2, MoreGaps DEF GapInv, Settles
  <2> QED
    BY <2>3, <2>4 DEF GapInv, Filled, Daily, Dated, GapDays, DateOf
<1>4. CASE wpc # "eodHistBatch"
  <2>1. wpc' \notin BatchStages
    BY <1>4 DEF CommitBatches, LeaveRefresh, Goto, BatchStages
  <2> QED
    BY <1>2, <2>1, GapFrame
<1> QED
  BY <1>3, <1>4

\* What a fetch leaves out is noted
LEMMA FetchPointsGaps ==
  ASSUME TypeInv, GapInv, NEW list \in Lists, FetchPoints(list),
         skipped' = skipped \cup (IF Fetches THEN SkippedNow ELSE {})
  PROVE  GapInv'
<1>1. Fetches /\ UNCHANGED <<hist, pendHist, eod, pendEod, cur>>
  BY DEF FetchPoints, Fetches, Goto
<1>2. SkippedNow \subseteq skipped' /\ skipped \subseteq skipped'
  BY <1>1
<1>3. wpc' = (IF wpc = "intFetch" THEN "intBatch" ELSE "eodHistBatch")
  BY DEF FetchPoints, Goto
<1>4. Leaves(fetched', cur', IF wpc' = "intBatch" THEN "int" ELSE "eod", skipped')
  BY <1>1, <1>2, <1>3 DEF Leaves, SkippedNow, HistoryRows, Point
<1>5. FetchedLeaves'
  BY <1>4 DEF FetchedLeaves, Leaves
<1>6. /\ Filled(hist', skipped') /\ Filled(hist' \cup pendHist', skipped')
      /\ Daily(eod', skipped') /\ Daily(eod' \cup pendEod', skipped')
  BY <1>1, <1>2, MoreGaps DEF GapInv
<1> QED
  BY <1>5, <1>6 DEF GapInv, Filled, Daily, Dated, GapDays, DateOf

\* What the steps settle that insert nothing
LEMMA OtherSettles ==
  ASSUME PollNext, ~InsertBatch
  PROVE  Settles(hist, pendHist, hist', pendHist') /\ Settles(eod, pendEod, eod', pendEod')
<1>1. CASE MarketStep
  BY <1>1 DEF MarketStep, FetchMarket, RetryMarket, FetchMarketFails, SaveSnapshot, SnapshotSaved,
              SelectSymbol, RowRaises, SaveSymbol, SymbolSaved, SymbolTaken, FlushFails,
              DropTransaction, SaveQuote, RowsDone, Settles
<1>2. CASE HistoryStep
  BY <1>2 DEF HistoryStep, WatchNext, FetchPoints, FetchPointsFails, PointsRaise,
              CommitBatches, Commit, WatchDone, Settles
<1>3. CASE WorkerFault
  BY <1>3 DEF WorkerFault, InitDbFails, SaveSnapshotFails, SaveSnapshotUnread, SnapshotSaved,
              SelectSymbolFails, SaveSymbolFails, SaveSymbolUnread, SymbolSaved, BadVolume,
              SaveQuoteFails, InsertBatchFails, CommitBatchesFails, PruneFails, Crash,
              FlushFails, CommitFails, DropTransaction, Settles
<1>4. CASE Wake \/ InitDb \/ Prune \/ PruneRaises \/ Advance
  BY <1>4 DEF Wake, InitDb, Prune, Commit, PruneRaises, DropTransaction, Advance, Settles
<1> QED
  BY <1>1, <1>2, <1>3, <1>4 DEF PollNext, WorkerStep

LEMMA HistoryStepStages ==
  ASSUME HistoryStep, ~InsertBatch, ~CommitBatches, \A list \in Lists : ~FetchPoints(list)
  PROVE  wpc' \notin BatchStages
BY DEF HistoryStep, WatchNext, FetchPointsFails, PointsRaise, WatchDone, LeaveRefresh, Goto, BatchStages

USE DEF listVars

LEMMA NextGaps == Inv /\ BatchInv /\ GapInv /\ [ListNext]_listVars => GapInv'
<1> SUFFICES ASSUME Inv, BatchInv, GapInv, [ListNext]_listVars PROVE GapInv'
  OBVIOUS
<1>1. skipped \subseteq skipped'
  BY DEF ListNext
<1>2. CASE InsertBatch \/ CommitBatches
  BY <1>1, <1>2, InsertBatchGaps, CommitBatchesGaps DEF Inv
<1>3. ASSUME NEW list \in Lists, FetchPoints(list) PROVE GapInv'
  <2>1. ListNext
    BY <1>3 DEF FetchPoints, Goto
  <2> QED
    BY <1>3, <2>1, FetchPointsGaps DEF Inv, ListNext
<1>4. CASE /\ PollNext /\ ~InsertBatch /\ ~CommitBatches /\ ~Advance
           /\ \A list \in Lists : ~FetchPoints(list)
  BY <1>1, <1>4, OtherSettles, OtherStages, HistoryStepStages, GapFrame
<1>5. CASE Advance \/ ApiStep \/ ApiCrash \/ UNCHANGED vars
  <2>1. UNCHANGED <<hist, eod, workerVars>>
    BY <1>5, ApiTouchesOnly DEF ApiTouches, Advance
  <2>2. /\ Filled(hist', skipped') /\ Filled(hist' \cup pendHist', skipped')
        /\ Daily(eod', skipped') /\ Daily(eod' \cup pendEod', skipped')
    BY <1>1, <2>1, MoreGaps DEF GapInv
  <2>3. FetchedLeaves'
    <3>1. wpc \in BatchStages =>
            Leaves(fetched, cur, IF wpc = "intBatch" THEN "int" ELSE "eod", skipped')
      BY <1>1, MoreGaps DEF GapInv, FetchedLeaves
    <3> QED
      BY <2>1, <3>1 DEF FetchedLeaves, Leaves
  <2> QED
    BY <2>2, <2>3 DEF GapInv, Filled, Daily, Dated, GapDays, DateOf
<1> QED
  BY <1>2, <1>3, <1>4, <1>5 DEF ListNext, Next

\* A specification with the history variable is one without
LEMMA ListSteps == ListSpec => Spec
<1>1. ListInit => Init
  BY DEF ListInit
<1>2. [ListNext]_listVars => [Next]_vars
  BY DEF ListNext
<1> QED
  BY <1>1, <1>2, PTL DEF ListSpec, Spec

\* The tables have no gaps but what a fetch has skipped, committed or not.
THEOREM GapsWereSkipped == ListSpec => [](Inv /\ BatchInv /\ GapInv)
<1>1. ListInit => GapInv
  BY DEF ListInit, Init, PollInit, GapInv, Filled, Daily, FetchedLeaves, BatchStages
<1>2. (Inv /\ BatchInv) /\ GapInv /\ [ListNext]_listVars => GapInv'
  BY NextGaps
<1> QED
  BY <1>1, <1>2, BatchesInOrder, ListSteps, PTL DEF ListSpec

\* Neither table loses a row
LEMMA TablesGrow ==
  ASSUME Inv, [Next]_vars PROVE hist \subseteq hist' /\ eod \subseteq eod'
<1>1. CASE MarketStep
  BY <1>1
     DEF MarketStep, FetchMarket, RetryMarket, FetchMarketFails, SaveSnapshot, SnapshotSaved,
         SelectSymbol, RowRaises, SaveSymbol, SymbolSaved, SymbolTaken, FlushFails, SaveQuote, RowsDone
<1>2. CASE HistoryStep
  BY <1>2 DEF HistoryStep, WatchNext, FetchPoints, FetchPointsFails, PointsRaise, InsertBatch,
              CommitBatches, Commit, WatchDone
<1>3. CASE WorkerFault
  BY <1>3
     DEF WorkerFault, InitDbFails, SaveSnapshotFails, SaveSnapshotUnread, SnapshotSaved,
         SelectSymbolFails, SaveSymbolFails, SaveSymbolUnread, SymbolSaved, BadVolume, SaveQuoteFails,
         InsertBatchFails, CommitBatchesFails, PruneFails, Crash, FlushFails, CommitFails
<1>4. CASE Wake \/ InitDb \/ Prune \/ PruneRaises \/ Advance
  BY <1>4 DEF Wake, InitDb, Prune, Commit, PruneRaises, Advance
<1>5. CASE ApiStep \/ ApiCrash \/ UNCHANGED vars
  BY <1>5, ApiTouchesOnly DEF ApiTouches
<1> QED
  BY <1>1, <1>2, <1>3, <1>4, <1>5 DEF Next, PollNext, WorkerStep

-----------------------------------------------------------------------------
\* What a reader sees.

LEMMA PointsAre ==
  ASSUME NEW table \in SUBSET HistoryRow, NEW s \in Symbols, NEW i \in {"int", "eod"}
  PROVE  /\ Points(table, s, i) \subseteq Times
         /\ \A t \in Times : t \in Points(table, s, i) <=> Point(s, i, t) \in table
BY DEF Points, Point, HistoryRow

\* A new point comes after all others, or was skipped before one of them
LEMMA NewPointsLater ==
  ASSUME NEW old \in SUBSET HistoryRow, NEW new \in SUBSET HistoryRow,
         NEW gaps, Filled(old, gaps),
         NEW s \in Symbols, NEW i \in {"int", "eod"},
         NEW t \in Points(new, s, i) \ Points(old, s, i), NEW u \in Points(old, s, i)
  PROVE  u < t \/ t \in Points(gaps, s, i)
<1>1. t \in Times /\ u \in Times /\ Point(s, i, u) \in old /\ Point(s, i, t) \notin old
  BY PointsAre
<1>2. t < u => Point(s, i, t) \in gaps
  BY <1>1 DEF Filled
<1>3. t \in Nat /\ u \in Nat /\ t # u
  BY <1>1, TimesAreNat
<1>4. Point(s, i, t) \in gaps => t \in Points(gaps, s, i)
  BY DEF Point, Points
<1> QED
  BY <1>2, <1>3, <1>4

\* The first n of a set keep their place when later points are added to it, and
\* give it up only to points that are among the first n
LEMMA FirstKept ==
  ASSUME NEW X \in SUBSET Times, NEW Y \in SUBSET Times, X \subseteq Y, NEW n \in Nat
  PROVE  /\ FirstOf(n, Y) \cap X \subseteq FirstOf(n, X)
         /\ FirstOf(n, Y) = FirstOf(n, X) \/ FirstOf(n, Y) \ FirstOf(n, X) # {}
<1> DEFINE Before(S, t) == {u \in S : u < t}
<1>1. \A S, t : t \in FirstOf(n, S) <=> t \in S /\ Cardinality(Before(S, t)) < n
  BY DEF FirstOf
<1>2. ASSUME NEW P \in SUBSET Times, NEW Q \in SUBSET P
      PROVE  /\ Cardinality(Q) \in Nat /\ Cardinality(P) \in Nat
             /\ Cardinality(P) < n => Cardinality(Q) < n
  BY TimesFinite
<1>3. FirstOf(n, Y) \cap X \subseteq FirstOf(n, X)
  <2>1. ASSUME NEW t \in X, Cardinality(Before(Y, t)) < n PROVE Cardinality(Before(X, t)) < n
    <3>1. Before(X, t) \subseteq Before(Y, t) /\ Before(Y, t) \in SUBSET Times
      OBVIOUS
    <3> HIDE DEF Before
    <3> QED
      BY <1>2, <2>1, <3>1
  <2> HIDE DEF Before
  <2> QED
    BY <1>1, <2>1
<1>4. CASE \E v \in Y \ X : v \in FirstOf(n, Y)
  <2>1. PICK v \in Y \ X : v \in FirstOf(n, Y)
    BY <1>4
  <2>2. v \notin FirstOf(n, X)
    BY <2>1 DEF FirstOf
  <2>3. FirstOf(n, Y) \ FirstOf(n, X) # {}
    BY <2>1, <2>2
  <2> QED
    BY <1>3, <2>3
<1>5. CASE \A v \in Y \ X : v \notin FirstOf(n, Y)
  <2>1. ASSUME NEW w \in FirstOf(n, X), NEW v \in Y \ X PROVE ~(v < w)
    <3> SUFFICES ASSUME v < w PROVE FALSE
      OBVIOUS
    <3>1. PICK m \in Y \ X : \A u \in Y \ X : m <= u
      <4>1. Y \ X # {} /\ Y \ X \subseteq Nat
        BY TimesAreNat
      <4> QED
        BY <4>1, LeastNat
    <3>2. w \in X /\ Cardinality(Before(X, w)) < n
      BY <1>1
    <3>3. m \in Nat /\ v \in Nat /\ w \in Nat /\ Y \subseteq Nat /\ m <= v
      BY <3>1, <3>2, TimesAreNat
    <3>4. Before(Y, m) \subseteq Before(X, w) /\ Before(X, w) \in SUBSET Times
      <4>1. ASSUME NEW u \in Y, u < m PROVE u \in X /\ u < w
        <5>1. u \in Nat /\ ~(m <= u)
          BY <3>3, <4>1
        <5>2. u \notin Y \ X
          BY <3>1, <5>1
        <5> QED
          BY <3>3, <4>1, <5>1, <5>2
      <4> QED
        BY <4>1
    <3>5. Cardinality(Before(Y, m)) < n
      <4> HIDE DEF Before
      <4> QED
        BY <1>2, <3>2, <3>4
    <3> QED
      BY <1>1, <1>5, <3>1, <3>5
  <2>2. ASSUME NEW w \in FirstOf(n, X) PROVE w \in FirstOf(n, Y)
    <3>1. Before(Y, w) = Before(X, w)
      BY <2>1, <2>2
    <3> HIDE DEF Before
    <3> QED
      BY <1>1, <2>2, <3>1
  <2>3. FirstOf(n, Y) \subseteq FirstOf(n, X)
    BY <1>3, <1>5, FirstOfSubset
  <2> QED
    BY <2>2, <2>3
<1> QED
  BY <1>3, <1>4, <1>5

\* A full page takes up no later point
LEMMA FullPage ==
  ASSUME NEW X \in SUBSET Times, NEW Y \in SUBSET Times, X \subseteq Y, NEW n \in Nat,
         Cardinality(FirstOf(n, X)) = n,
         NEW t \in FirstOf(n, Y) \ FirstOf(n, X)
  PROVE  t \in Y \ X /\ \E u \in X : ~(u < t)
<1>1. t \in Y \ X
  BY FirstKept, FirstOfSubset
<1>2. Cardinality(X) \in Nat /\ n <= Cardinality(X)
  BY TimesFinite, FirstOfSubset
<1>3. ASSUME \A u \in X : u < t PROVE FALSE
  <2> DEFINE Before == {u \in Y : u < t}
  <2>1. X \subseteq Before /\ Before \in SUBSET Times
    BY <1>3
  <2>2. Cardinality(Before) \in Nat /\ Cardinality(X) <= Cardinality(Before)
    BY <2>1, TimesFinite
  <2>3. Cardinality(Before) < n
    BY DEF FirstOf
  <2> HIDE DEF Before
  <2> QED
    BY <1>2, <2>2, <2>3
<1> QED
  BY <1>1, <1>3

\* The same of the last n dates up to a bound
LEMMA LastKept ==
  ASSUME NEW to \in Nat, NEW X \in SUBSET (0..to), NEW Y \in SUBSET (0..to), X \subseteq Y, NEW n \in Nat
  PROVE  /\ LastOf(n, Y) \cap X \subseteq LastOf(n, X)
         /\ LastOf(n, Y) = LastOf(n, X) \/ LastOf(n, Y) \ LastOf(n, X) # {}
<1> DEFINE After(S, t) == {u \in S : u > t}
<1>1. \A S, t : t \in LastOf(n, S) <=> t \in S /\ Cardinality(After(S, t)) < n
  BY DEF LastOf
<1>2. ASSUME NEW P \in SUBSET (0..to), NEW Q \in SUBSET P
      PROVE  /\ Cardinality(Q) \in Nat /\ Cardinality(P) \in Nat
             /\ Cardinality(P) < n => Cardinality(Q) < n
  <2>1. IsFiniteSet(P)
    <3>1. 0 \in Int /\ to \in Int
      OBVIOUS
    <3>2. IsFiniteSet(0..to)
      BY <3>1, FS_Interval
    <3> HIDE DEF After
    <3> QED
      BY <3>2, FS_Subset
  <2>2. /\ Cardinality(Q) \in Nat /\ Cardinality(P) \in Nat /\ Cardinality(Q) <= Cardinality(P)
    BY <2>1, FS_Subset, FS_CardinalityType
  <2> QED
    BY <2>2
<1>3. LastOf(n, Y) \cap X \subseteq LastOf(n, X)
  <2>1. ASSUME NEW t \in X, Cardinality(After(Y, t)) < n PROVE Cardinality(After(X, t)) < n
    <3>1. After(X, t) \subseteq After(Y, t) /\ After(Y, t) \in SUBSET (0..to)
      OBVIOUS
    <3> HIDE DEF After
    <3> QED
      BY <1>2, <2>1, <3>1
  <2> HIDE DEF After
  <2> QED
    BY <1>1, <2>1
<1>4. CASE \E v \in Y \ X : v \in LastOf(n, Y)
  <2>1. PICK v \in Y \ X : v \in LastOf(n, Y)
    BY <1>4
  <2>2. v \notin LastOf(n, X)
    BY <2>1 DEF LastOf
  <2>3. LastOf(n, Y) \ LastOf(n, X) # {}
    BY <2>1, <2>2
  <2> QED
    BY <1>3, <2>3
<1>5. CASE \A v \in Y \ X : v \notin LastOf(n, Y)
  <2>1. ASSUME NEW w \in LastOf(n, X), NEW v \in Y \ X PROVE ~(v > w)
    <3> SUFFICES ASSUME v > w PROVE FALSE
      OBVIOUS
    <3> DEFINE Back == {to - x : x \in Y \ X}
    <3>1. Back \subseteq Nat /\ Back # {}
      OBVIOUS
    <3>2. PICK b \in Back : \A c \in Back : b <= c
      BY <3>1, LeastNat
    <3>3. PICK m \in Y \ X : b = to - m
      OBVIOUS
    <3>4. \A u \in Y \ X : u <= m
      <4> TAKE u \in Y \ X
      <4>1. b <= to - u
        BY <3>2
      <4> QED
        BY <3>3, <4>1
    <3>5. w \in X /\ Cardinality(After(X, w)) < n
      BY <1>1
    <3>6. m \in Nat /\ v \in Nat /\ w \in Nat /\ Y \subseteq Nat /\ v <= m
      BY <3>4, <3>5
    <3>7. After(Y, m) \subseteq After(X, w) /\ After(X, w) \in SUBSET (0..to)
      <4>1. ASSUME NEW u \in Y, u > m PROVE u \in X /\ u > w
        <5>1. u \in Nat /\ ~(u <= m)
          BY <3>6, <4>1
        <5>2. u \notin Y \ X
          BY <3>4, <5>1
        <5> QED
          BY <3>6, <4>1, <5>1, <5>2
      <4> QED
        BY <4>1
    <3>8. Cardinality(After(Y, m)) < n
      <4> HIDE DEF After
      <4> QED
        BY <1>2, <3>5, <3>7
    <3> QED
      BY <1>1, <1>5, <3>3, <3>8
  <2>2. ASSUME NEW w \in LastOf(n, X) PROVE w \in LastOf(n, Y)
    <3>1. After(Y, w) = After(X, w)
      BY <2>1, <2>2
    <3> HIDE DEF After
    <3> QED
      BY <1>1, <2>2, <3>1
  <2>3. LastOf(n, Y) \subseteq LastOf(n, X)
    BY <1>1, <1>3, <1>5
  <2> QED
    BY <2>2, <2>3
<1> QED
  BY <1>3, <1>4, <1>5

LEMMA WithinIs ==
  ASSUME NEW points, NEW lower, NEW upper
  PROVE  Within(points, lower, upper) \subseteq points
BY DEF Within

\* The dates up to one that is stored stay, and only days that were gaps join
LEMMA DatesUpTo ==
  ASSUME NEW old \in SUBSET EodRow, NEW new \in SUBSET EodRow, old \subseteq new,
         NEW gaps, Daily(old, gaps),
         NEW s \in Symbols, NEW newest \in Dates(old, s), NEW to \in 0..(newest - 1)
  PROVE  LET X == Within(Dates(old, s), None, to)
             Y == Within(Dates(new, s), None, to)
         IN  X \subseteq Y /\ Y \subseteq 0..to /\ Y \ X \subseteq GapDays(gaps, s)
<1>1. \A table \in SUBSET EodRow : \A d : d \in Dates(table, s) <=> d \in Nat /\ Dated(table, s, d)
  BY DEF Dates, Dated, EodRow
<1>2. PICK e \in old : e.symbol = s /\ e.date = newest
  BY <1>1 DEF Dated
<1>3. newest \in Nat /\ to \in Nat /\ to < newest
  BY <1>1
<1>4. \A d \in 0..newest : d \in Dates(old, s) \/ d \in GapDays(gaps, s)
  BY <1>1, <1>2, <1>3 DEF Daily
<1>5. \A d \in Dates(old, s) : d \in Dates(new, s)
  BY <1>1 DEF Dated
<1>6. to # None
  BY <1>3, ListingAssumption
<1>7. \A d \in Dates(new, s) : d <= to => d \in 0..to /\ d \in 0..newest
  BY <1>1, <1>3
<1> QED
  BY <1>4, <1>5, <1>6, <1>7 DEF Within

\* The stored points of a symbol and interval grow at their end, whatever the
\* source lists: a point comes in behind others only if a fetch that brought
\* later ones had not brought it, for no batch is stored before an earlier one.
THEOREM HistoryGoesForward == ListSpec => HistoryGrowsForward
<1> DEFINE Forward ==
      \A s \in Symbols, interval \in {"int", "eod"} :
        \A t \in Points(hist', s, interval) \ Points(hist, s, interval) :
          \/ t \in Points(skipped, s, interval)
          \/ \A u \in Points(hist, s, interval) : u < t
<1>1. Inv /\ BatchInv /\ GapInv /\ [ListNext]_listVars => [Forward]_listVars
  <2> SUFFICES ASSUME Inv, GapInv, [ListNext]_listVars PROVE Forward
    OBVIOUS
  <2>1. [Next]_vars
    BY DEF ListNext
  <2>2. hist \subseteq HistoryRow /\ hist' \subseteq HistoryRow /\ Filled(hist, skipped)
    BY <2>1, NextInv DEF Inv, TypeInv, TablesOK, GapInv
  <2> QED
    BY <2>2, NewPointsLater
<1> QED
  BY GapsWereSkipped, <1>1, PTL DEF ListSpec, HistoryGrowsForward

\* A reader can page through the history and the EOD records of a symbol while
\* the worker, failing and restarting, writes them, and whatever the source
\* lists: a page that is complete changes only by what was skipped before.
THEOREM PagesAreStable == ListSpec => PagesStay
<1> DEFINE HistoryPage(table, s, i, t, limit) ==
             HistoryRoute(table, s, i, [wall |-> t, zone |-> Naive], None, limit)
           HistoryStays ==
             \A s \in Symbols, limit \in Limits, i \in {"int", "eod"}, t \in Times :
               Cardinality(HistoryPage(hist, s, i, t, limit).page) = limit =>
                 Kept(HistoryPage(hist, s, i, t, limit), HistoryPage(hist', s, i, t, limit),
                      Points(skipped, s, i))
           EodStays ==
             \A s \in Symbols, limit \in Limits : \A newest \in Dates(eod, s) :
               \A to \in 0..(newest - 1) :
                 Kept(EodRoute(eod, s, None, to, limit), EodRoute(eod', s, None, to, limit),
                      SkippedDays(s))
           Stay ==
             \A s \in Symbols, limit \in Limits :
               /\ \A interval \in {"int", "eod"}, t \in Times :
                    LET Page(table) == HistoryRoute(table, s, interval, [wall |-> t, zone |-> Naive], None, limit)
                    IN  Cardinality(Page(hist).page) = limit =>
                          Kept(Page(hist), Page(hist'), Points(skipped, s, interval))
               /\ \A newest \in Dates(eod, s) : \A to \in 0..(newest - 1) :
                    Kept(EodRoute(eod, s, None, to, limit), EodRoute(eod', s, None, to, limit),
                         SkippedDays(s))
<1>1. Inv /\ BatchInv /\ GapInv /\ [ListNext]_listVars => [Stay]_listVars
  <2> SUFFICES ASSUME Inv, GapInv, [ListNext]_listVars PROVE HistoryStays /\ EodStays
    OBVIOUS
  <2>1. [Next]_vars
    BY DEF ListNext
  <2>2. /\ hist \subseteq HistoryRow /\ hist' \subseteq HistoryRow /\ Filled(hist, skipped)
        /\ eod \subseteq EodRow /\ eod' \subseteq EodRow /\ Daily(eod, skipped)
        /\ hist \subseteq hist' /\ eod \subseteq eod'
    BY <2>1, NextInv, TablesGrow DEF Inv, TypeInv, TablesOK, GapInv
  <2>3. \A limit \in Limits : limit \in Nat
    BY ListingAssumption
  <2>4. HistoryStays
    <3> SUFFICES ASSUME NEW s \in Symbols, NEW limit \in Limits, NEW i \in {"int", "eod"}, NEW t \in Times,
                        Cardinality(HistoryPage(hist, s, i, t, limit).page) = limit
                 PROVE  Kept(HistoryPage(hist, s, i, t, limit), HistoryPage(hist', s, i, t, limit),
                             Points(skipped, s, i))
      OBVIOUS
    <3> DEFINE lower == Wall([wall |-> t, zone |-> Naive])
               X == Within(Points(hist, s, i), lower, None)
               Y == Within(Points(hist', s, i), lower, None)
    <3>1. /\ HistoryPage(hist, s, i, t, limit) = Answer(FirstOf(limit, X))
          /\ HistoryPage(hist', s, i, t, limit) = Answer(FirstOf(limit, Y))
      BY DEF HistoryRoute, GetQuoteHistory, Wall
    <3>2. X \subseteq Y /\ Y \subseteq Times
      <4>1. Points(hist, s, i) \subseteq Points(hist', s, i) /\ Points(hist', s, i) \subseteq Times
        BY <2>2, PointsAre
      <4> QED
        BY <4>1 DEF Within
    <3>3. \A v \in Y \ X, u \in X : u < v \/ v \in Points(skipped, s, i)
      <4>1. \A v \in Y \ X : v \in Points(hist', s, i) \ Points(hist, s, i)
        BY DEF Within
      <4>2. X \subseteq Points(hist, s, i)
        BY WithinIs
      <4> QED
        BY <2>2, <4>1, <4>2, NewPointsLater
    <3>4. Cardinality(FirstOf(limit, X)) = limit
      BY <3>1 DEF Answer
    <3> HIDE DEF X, Y, HistoryPage
    <3>5. FirstOf(limit, Y) \ FirstOf(limit, X) \subseteq Points(skipped, s, i)
      BY <2>3, <3>2, <3>3, <3>4, FullPage
    <3>6. FirstOf(limit, Y) = FirstOf(limit, X) \/ FirstOf(limit, Y) \ FirstOf(limit, X) # {}
      BY <2>3, <3>2, FirstKept
    <3> QED
      BY <3>1, <3>5, <3>6 DEF Kept, Answer
  <2>5. EodStays
    <3> SUFFICES ASSUME NEW s \in Symbols, NEW limit \in Limits, NEW newest \in Dates(eod, s),
                        NEW to \in 0..(newest - 1)
                 PROVE  Kept(EodRoute(eod, s, None, to, limit), EodRoute(eod', s, None, to, limit),
                             SkippedDays(s))
      OBVIOUS
    <3> DEFINE X == Within(Dates(eod, s), None, to)
               Y == Within(Dates(eod', s), None, to)
    <3>1. /\ EodRoute(eod, s, None, to, limit) = Answer(LastOf(limit, X))
          /\ EodRoute(eod', s, None, to, limit) = Answer(LastOf(limit, Y))
      BY DEF EodRoute, GetEod
    <3>2. X \subseteq Y /\ Y \subseteq 0..to /\ Y \ X \subseteq GapDays(skipped, s)
      BY <2>2, DatesUpTo
    <3>3. GapDays(skipped, s) \subseteq SkippedDays(s)
      <4>1. \A t : Point(s, "eod", t) \in skipped => t \in Points(skipped, s, "eod")
        BY DEF Point, Points
      <4> QED
        BY <4>1 DEF GapDays, SkippedDays
    <3>4. to \in Nat
      OBVIOUS
    <3> HIDE DEF X, Y
    <3>5. /\ LastOf(limit, Y) \cap X \subseteq LastOf(limit, X)
          /\ LastOf(limit, Y) = LastOf(limit, X) \/ LastOf(limit, Y) \ LastOf(limit, X) # {}
      BY <2>3, <3>2, <3>4, LastKept
    <3>6. LastOf(limit, Y) \subseteq Y
      BY DEF LastOf
    <3>7. LastOf(limit, Y) \ LastOf(limit, X) \subseteq SkippedDays(s)
      BY <3>2, <3>3, <3>5, <3>6
    <3> QED
      BY <3>1, <3>5, <3>7 DEF Kept, Answer
  <2> QED
    BY <2>4, <2>5
<1> QED
  BY GapsWereSkipped, <1>1, PTL DEF ListSpec, PagesStay

-----------------------------------------------------------------------------
\* A refresh catches up.

\* Only the commit that ends a refresh well leaves its last stage like that
LEMMA LastCommit ==
  ASSUME Inv, [Next]_vars, wpc = "eodBatch", pts = {}, wpc' = "watch", sess' = "active"
  PROVE  CommitBatches
<1>1. ~MarketStep /\ ~(WorkerFault /\ ~CommitBatchesFails /\ ~Crash) /\ ~Wake /\ ~InitDb /\ ~Prune /\ ~PruneRaises
  BY DEF MarketStep, FetchMarket, RetryMarket, FetchMarketFails, SaveSnapshot, SelectSymbol, RowRaises,
         SaveSymbol, SymbolTaken, SaveQuote, RowsDone, WorkerFault, SelectSymbolFails,
         InitDbFails, SaveSnapshotFails, SaveSnapshotUnread, SaveSymbolFails, SaveSymbolUnread,
         BadVolume, SaveQuoteFails, InsertBatchFails, PruneFails, Wake, InitDb, Prune, PruneRaises
<1>2. ~CommitBatchesFails /\ ~Crash
  BY DEF CommitBatchesFails, CommitFails, Crash, EndTick, Goto
<1>3. ~Advance /\ ~(ApiStep \/ ApiCrash \/ UNCHANGED vars)
  BY ApiTouchesOnly DEF Advance, ApiTouches
<1>4. HistoryStep => CommitBatches
  BY DEF HistoryStep, WatchNext, FetchPoints, FetchPointsFails, PointsRaise, InsertBatch, WatchDone
<1> QED
  BY <1>1, <1>2, <1>3, <1>4 DEF Next, PollNext, WorkerStep

\* Whatever the source lists, a refresh_eod that gets through to its last commit
\* leaves no stored day of the symbol without a record if the fetch brought any
\* point of that day, whatever earlier ticks broke off; of other days it makes
\* up for nothing.
THEOREM RefreshesCatchUp == Spec => RefreshCatchesUp
<1> DEFINE CatchesUp ==
      wpc = "eodBatch" /\ pts = {} /\ wpc' = "watch" /\ sess' = "active" =>
        \A h \in hist' : h.symbol = cur /\ h.interval = "eod" =>
          \/ \E e \in eod' : e.symbol = cur /\ e.date = DateOf(h.ts)
          \/ \A t \in fetched : DateOf(t) # DateOf(h.ts)
<1>1. Inv /\ BatchInv /\ [Next]_vars => [CatchesUp]_vars
  <2> SUFFICES ASSUME Inv, BatchInv, [Next]_vars,
                      wpc = "eodBatch", pts = {}, wpc' = "watch", sess' = "active",
                      NEW h \in hist', NEW t \in fetched, DateOf(t) = DateOf(h.ts)
               PROVE  \E e \in eod' : e.symbol = cur /\ e.date = DateOf(h.ts)
    OBVIOUS
  <2>1. eod' = eod \cup pendEod
    BY LastCommit DEF CommitBatches, Commit
  <2>2. Dated(eod \cup pendEod, cur, DateOf(t))
    BY DEF BatchInv, EodDone
  <2> QED
    BY <2>1, <2>2 DEF Dated
<1> QED
  BY BatchesInOrder, <1>1, PTL DEF Spec, RefreshCatchesUp
-----------------------------------------------------------------------------
\* Bounds in UTC.

\* What holds beside RangeIsInstants: for bounds in UTC, written with that zone
\* or without one, a page lists exactly the points between them
InUTC == {d \in Datetimes : d.zone \in {Naive, 0}}

UtcRangeIsExact ==
  \A s \in Symbols, interval \in {"int", "eod"}, from \in InUTC, to \in InUTC :
    LET answer == HistoryRoute(hist, s, interval, from, to, MaxTime + 1)
    IN  answer.code = 200 =>
          answer.page = {t \in Points(hist, s, interval) :
                           Instant(from) <= t /\ t <= Instant(to)}

\* A request that keeps to UTC is answered by its instants, whatever the tables
\* hold: the shift of RangeIsInstants comes from the zone of a bound alone
\* (repo.py:111-114, stocks.py:150-158).
THEOREM UtcRangesAreExact == Spec => []UtcRangeIsExact
<1>1. Inv => UtcRangeIsExact
  <2> SUFFICES ASSUME Inv, NEW s \in Symbols, NEW i \in {"int", "eod"},
                      NEW from \in InUTC, NEW to \in InUTC,
                      HistoryRoute(hist, s, i, from, to, MaxTime + 1).code = 200
               PROVE  HistoryRoute(hist, s, i, from, to, MaxTime + 1).page
                        = {t \in Points(hist, s, i) : Instant(from) <= t /\ t <= Instant(to)}
    BY DEF UtcRangeIsExact
  <2> DEFINE X == Within(Points(hist, s, i), Wall(from), Wall(to))
  <2>1. /\ from # None /\ to # None
        /\ from.wall \in Times /\ to.wall \in Times /\ from.wall # None /\ to.wall # None
    BY ListingAssumption, ClockAssumption DEF InUTC, Datetimes, Times
  <2>2. Instant(from) = from.wall /\ Instant(to) = to.wall
    BY <2>1 DEF InUTC, Instant, Times
  <2>3. X = {t \in Points(hist, s, i) : Instant(from) <= t /\ t <= Instant(to)}
    BY <2>1, <2>2 DEF Within, Wall
  <2>4. X \subseteq Times
    BY DEF Within, Points, Inv, TypeInv, TablesOK, HistoryRow
  <2>5. FirstOf(MaxTime + 1, X) = X
    <3>1. ASSUME NEW t \in X PROVE Cardinality({u \in X : u < t}) < MaxTime + 1
      <4>1. {u \in X : u < t} \subseteq X /\ {u \in X : u < t} # X
        BY <2>4, ClockAssumption DEF Times
      <4>2. Cardinality({u \in X : u < t}) < Cardinality(X) /\ Cardinality(X) <= MaxPoints
        BY <2>4, <4>1, PointsCounted
      <4>3. Cardinality({u \in X : u < t}) \in Nat /\ Cardinality(X) \in Nat
        BY <2>4, <4>1, PointsCounted
      <4> QED
        BY <4>2, <4>3, ClockAssumption DEF MaxPoints
    <3> QED
      BY <3>1 DEF FirstOf
  <2>6. HistoryRoute(hist, s, i, from, to, MaxTime + 1)
          \in {Refused(400), Refused(422), Refused(500), Answer(X)}
    BY <2>5 DEF HistoryRoute, GetQuoteHistory
  <2> QED
    BY <2>3, <2>6 DEF Refused, Answer
<1> QED
  BY <1>1, Invariance, PTL
=============================================================================
