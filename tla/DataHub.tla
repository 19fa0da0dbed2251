------------------------------ MODULE DataHub ------------------------------
(***************************************************************************)
(* The two processes that write to one SQLite file: the worker (PollCycle) *)
(* and the API, whose start-up (lifespan, api/app.py) upserts the watchlist*)
(* into `symbols` and then only reads.  Both look a symbol up first and    *)
(* insert it after, each in its own transaction.  A supervisor restarts    *)
(* whichever stops.                                                        *)
(***************************************************************************)
EXTENDS PollCycle

VARIABLES apc, todo, acur, afound   \* the start-up of the API

apiVars == <<apc, todo, acur, afound>>
vars    == <<pollVars, apiVars>>

Init == PollInit /\ apc = "down" /\ todo = {} /\ acur = NoSymbol /\ afound = FALSE

ApiStops == apc' = "down" /\ todo' = {} /\ acur' = NoSymbol /\ afound' = FALSE

NotWorker == UNCHANGED <<quotes, snap, hist, eod, workerVars>>

ApiStart ==
  /\ apc = "down"
  /\ apc' = "select" /\ todo' = Watchlist
  /\ UNCHANGED <<acur, afound, symbols, envVars>> /\ NotWorker

\* Mistake: every symbol is inserted, the known ones too
ApiSelectNone(s) ==
  /\ apc = "select" /\ s \in todo
  /\ apc' = "save" /\ todo' = todo \ {s}
  /\ acur' = s /\ afound' = FALSE
  /\ UNCHANGED <<symbols, envVars>> /\ NotWorker

ApiSelect(s) ==
  /\ apc = "select" /\ s \in todo
  /\ apc' = "save" /\ todo' = todo \ {s}
  /\ acur' = s /\ afound' = (symbols[s] # NoRow)
  /\ UNCHANGED <<symbols, envVars>> /\ NotWorker

\* upsert_symbol(symbol), without a name or a sector, once the lock is free
ApiSave ==
  /\ apc = "save" /\ ~txn
  /\ afound \/ symbols[acur] = NoRow
  /\ symbols' = UpsertSymbol(symbols, acur, NoSector)
  /\ apc' = "select" /\ acur' = NoSymbol /\ afound' = FALSE
  /\ UNCHANGED <<todo, envVars>> /\ NotWorker

\* The worker inserted the symbol in between: start-up fails
ApiSymbolTaken ==
  /\ apc = "save" /\ ~txn /\ ~afound /\ symbols[acur] # NoRow
  /\ ApiStops /\ UNCHANGED <<symbols, envVars>> /\ NotWorker

\* The lock is waited for longer than a run of batches takes, but not as long
\* as the upstream fetches during which a failed batch leaves it taken
ApiLocked ==
  /\ apc = "save" /\ txn /\ wpc \notin BatchStages
  /\ ApiStops /\ UNCHANGED <<symbols, envVars>> /\ NotWorker

ApiReady ==
  /\ apc = "select" /\ todo = {} /\ apc' = "up"
  /\ UNCHANGED <<todo, acur, afound, symbols, envVars>> /\ NotWorker

\* The process stops; `select` and `save` include a statement that fails
ApiCrash ==
  /\ apc # "down" /\ Fault /\ ApiStops
  /\ UNCHANGED symbols /\ NotWorker

ApiStep ==
  \/ ApiStart \/ ApiSave \/ ApiSymbolTaken \/ ApiLocked \/ ApiReady
  \/ \E s \in Symbols : ApiSelect(s)

Next == (PollNext /\ UNCHANGED apiVars) \/ ApiStep \/ ApiCrash

\* Both processes run on.  The API's save is granted strong fairness: SQLite's
\* busy handler tries the lock again every few milliseconds, and the worker
\* leaves it free for most of every tick.
Fairness ==
  /\ WF_vars(WorkerStep /\ UNCHANGED apiVars)
  /\ WF_vars(ApiStep) /\ SF_vars(ApiSave \/ ApiSymbolTaken)

Spec == Init /\ [][Next]_vars /\ Fairness

TypeOK ==
  /\ PollTypeOK
  /\ apc \in {"down", "select", "save", "up"} /\ todo \subseteq Symbols
  /\ acur \in Symbols \cup {NoSymbol} /\ afound \in BOOLEAN

-----------------------------------------------------------------------------
\* What readers are promised.

Feed == INSTANCE QuoteFeed WITH
  asOf   <- IF stamp = Never THEN now ELSE stamp,
  known  <- {s \in Symbols : symbols[s] # NoRow},
  listed <- snap.tickers, listedAt <- snap.at,
  latest <- [s \in Symbols |-> LatestAt(quotes, s)]

\* The worker, failing and starting again, beside an API that starts up,
\* implements the feed of quotes (quote_service.py:51-99, repo.py:57-65).
ImplementsFeed == Feed!FeedSpec

-----------------------------------------------------------------------------
\* Liveness.

\* From some time on no fetch of the market fails
MarketFails == wpc = "market" /\ wpc' \in {"market", "watch"}
SiteRecovers == <>[][~MarketFails]_vars

\* Again and again the site lists all the days of a symbol that are stored
ListsStored(s) ==
  /\ wpc = "eodFetch" /\ wpc' = "eodHistBatch" /\ cur = s
  /\ \A h \in hist : h.symbol = s /\ h.interval = "eod" => h.ts \in fetched'
DaysComeBack == \A s \in Watchlist : []<><<ListsStored(s)>>_vars

\* Every tick ends, whatever fails in it (worker.py:18-68).
TickEnds == (wpc # "sleep") ~> (wpc = "sleep")

\* Again and again no quote is older than the retention, also when the site is
\* never reachable again: the pruning is the last stage of a tick, unguarded,
\* and what goes wrong in the stages before keeps only so many ticks from it
\* (worker.py:66, quote_service.py:168-170).
OldQuotesGo == []<>(\A q \in quotes : now - q.at <= Retention)

StoresQuote(s) ==
  wpc = "quote" /\ wpc' = "rows" /\ [symbol |-> s, at |-> stamp] \in quotes'

\* Once the site is reachable for good, a quote of each ticker that every page
\* lists is stored again and again: no failure outlives its tick, and no row
\* starves behind others (quote_service.py:67-99).
QuotesKeepComing ==
  SiteRecovers =>
    \A s \in Symbols : (\A page \in Pages : s \in page) =>
       []<><<StoresQuote(s)>>_vars

\* As long as the site lists them again and again, however often it leaves them
\* out or fails in between, all days of stored "eod" history of a symbol get
\* their EOD record: a tick that stopped between the two commits, or lost a
\* batch, is made up for by a later one (quote_service.py:165-166).
EodCatchesUp ==
  DaysComeBack =>
    []<>(\A h \in hist : h.interval = "eod" =>
           \E e \in eod : e.symbol = h.symbol /\ e.date = DateOf(h.ts))

\* How: a refresh_eod that gets through to its last commit leaves a stored day
\* without a record only if the site listed no point of that day this time, in
\* whatever tick the day was stored and whatever became of its record then
\* (quote_service.py:155-166).
RefreshCatchesUp ==
  [][wpc = "eodBatch" /\ pts = {} /\ wpc' = "watch" /\ sess' = "active" =>
       \A h \in hist' : h.symbol = cur /\ h.interval = "eod" =>
         \/ \E e \in eod' : e.symbol = cur /\ e.date = DateOf(h.ts)
         \/ \A t \in fetched : DateOf(t) # DateOf(h.ts)]_vars

\* The API gets through its start-up for good: losing the race for a symbol,
\* or the wait for a lock, stops it only finitely often (app.py:21-28).
ApiComesUp == <>[](apc = "up")
=============================================================================
