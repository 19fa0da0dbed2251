# psx-data-hub: verification project

TLA+ models of psx-data-hub, checked with TLC on small instances and proved with
TLAPS for every value of the constants. Paths such as `worker.py` are below
`src/psx_data_hub/`.

## 1. The system

A **worker** process polls a public market site and fills one SQLite file; an
**API** process serves what is in the file. They share nothing else. Either is
restarted when it stops (`restart: unless-stopped` in `docker-compose.yml`).

| component | state it keeps | operations | hard about it | what makes it correct |
|---|---|---|---|---|
| poll cycle (`worker.py`) | a session, a transaction, its place in the tick | `main`, `poll_once` | every failure is caught somewhere and the tick goes on in the same session; crashes between any two commits | every tick ends, no failure outlives its tick, quotes keep coming |
| data service (`services/quote_service.py`) | none of its own | `refresh_market`, row loop, `refresh_timeseries`, `refresh_eod`, `prune_old_quotes`, `_with_retries` | one commit a row, two a watchlist symbol; rows isolated by `except` only | a quote has its symbol and its snapshot; history and EOD records agree |
| provider (`providers/`) | `_sector_names`, `_latest_watch` | four concurrent page fetches, time series | `gather()` leaves orphans behind that store names later; soft and hard pages | an overview is of one attempt and its labels too; the fetch ends |
| repository (`storage/`) | five tables | upserts, latest quote, prune | look up, then insert; batches in one open transaction; conflict clauses | keys unique, sectors not blanked, latest quote kept |
| API start-up (`api/app.py`) | - | `lifespan` upserts the watchlist | races the worker for rows and for the write lock | the API comes up |
| read routes (`api/routes/`) | - | joins of quotes, symbols, snapshot; delay metadata; history and EOD listings | statements interleave with the worker's commits; bounds and limits of a page | what a response joins fits together; stale data is marked; a page read stays as it was |
| rate limiter (`api/middleware.py`) | two tables of buckets | `allow`, `dispatch` | two sliding windows, LRU eviction, keys cut short | limits kept, memory bounded, nobody refused for another |
| authentication (`api/auth.py`, `api/dependencies.py`) | the secret; tokens are in clients' hands | `require_auth`, `/token` | four modes, two credentials at once; tokens outlive the process and its settings; rounded times | a credential that suffices is never spoilt by another; tokens end when they should |
| configuration (`core/config.py`) | - | validators, `_cors_origins` | one setting read in two places, in two ways | an open server is a local one |
| schema (`core/database.py`) | the tables and the unique index | `create_all`, migration | several processes on one file, DDL visible statement by statement, stops half-way | who is up finds the whole schema; no quote is lost; all come up |
| response schemas, entry point, scripts | - | - | - | not modelled: declarations, test tooling |

Interactions: worker -> provider -> site (calls); worker -> repository -> file and
API -> repository -> file (SQL); API and worker meet in the `symbols` table and in
SQLite's write lock; the routes read, between two commits of the worker, whatever
is there.

## 2. Modules

    Repository          tables, and what statements do to them, as operators
      PollCycle         the worker, one tick after the other
        DataHub         the worker beside the API's start-up    (MCDataHub)
          Feed          = QuoteFeed, implemented by DataHub
          Listings      history and EOD listings over DataHub   (MCListings)
          HubReads      worker, start-up and requests together  (MCHubReads)
          Reads         = ApiReads, implemented by HubReads
    QuoteFeed           what the tables promise to a reader
      ApiReads          the read routes over the feed           (MCApiReads)
    MarketFetch         what a tick assumes of its market fetch
      ProviderFetch     the concurrent, retried fetch, which implements it
    SchemaInit          init_db of several processes on one file
    Access              settings, tokens and the policy, as operators
      ApiServer         the API's life: settings, init_db, tokens, requests
                        (extends both; MCApiServer)
    RateLimit           the rate limiter                        (MCRateLimit)

    DataHubProofs, ListingsProofs, HubReadsProofs, ProviderFetchProofs,
    RateLimitProofs, ApiReadsProofs, ApiServerProofs, NatLemmas

Operators that begin with "Mistake:" in their comment are plausible bugs. Each
stands before the definition it would replace and is used by nothing else: with
it in place, a property has to fail (PROJECT.json, "mutants"), which shows that
the property looks at that code.

**Repository.** A table is a set of rows, or a function of its key. A row keeps
its key and the times that statements compare; prices, names and payloads are
data that no modelled step looks at. `UpsertSymbol`, `DeleteOldQuotes`,
`EodRows` (`ON CONFLICT DO NOTHING` against committed, pending and own rows),
`FirstOf` (batches of `_SQLITE_BATCH_SIZE`) and `LatestAt` are the statements.

**PollCycle.** `wpc` is the await the worker is at; `sess`, `txn`, `pendHist` and
`pendEod` are the `AsyncSession` that the whole tick shares. What is easy to
overlook in the code, and is the heart of the model:

- a failing flush or commit *poisons* the session: nobody calls `rollback()`, so
  every later statement of the tick raises (`RowRaises`, `PointsRaise`,
  `PruneRaises`);
- a failing `INSERT` of a batch does not, and leaves the batches before it in an
  open transaction, which a later, unrelated `commit()` stores, or the end of the
  tick drops, and which meanwhile holds the write lock;
- a commit may succeed and the `refresh()` after it fail (`...Unread`);
- a *flush* that fails rolls the transaction back (`FlushFails`), a *COMMIT* that
  fails leaves it open with the write lock until the tick ends (`CommitFails`), and
  both poison the session; a `SELECT` that fails does neither (`SelectSymbolFails`).

Each of these is an action beside the one that succeeds. `Crash` ends the tick
from any place in it. A row gets its `fetched_at` before it is committed, and the
cutoff of the pruning is computed before its `DELETE`: `stamp` is the clock at that
moment, and the clock may go on before the step that uses it. A fetch of points
returns what the site lists and the parser keeps of it (`FetchPoints(list)` with any
member of `Lists`): a point may be missing from one fetch, of a day already stored
too, and be listed by a later one.

**DataHub** adds `lifespan`: `ApiSelect`/`ApiSave` are the two halves of
`upsert_symbol`, `ApiSymbolTaken` the lost race, `ApiLocked` a write lock held for
longer than SQLite waits (only while a failed batch's transaction stays open
during fetches). A stop of the API is followed by a restart.

**QuoteFeed** is the abstraction both rest on: a symbol is known and listed before
it is quoted, its latest quote gets newer, and it goes only by outliving the
retention. What is stored is dated `asOf`, which follows the clock and may lag behind
it: in DataHub it is the worker's `stamp`, or the clock when none is out.
`DataHub!ImplementsFeed` is the refinement; **ApiReads** takes the feed
as its environment, so each of its results holds of the worker's tables. A request
is the sequence of its SELECTs, each of which sees the database as it is then
(SQLite, no explicit transaction), and its response is computed from what it read.
A statement that raises and a process that stops both end the request without an
answer (`Abort`).

**HubReads** is the whole of it: DataHub with the requests of ApiReads on the tables
that DataHub writes (`Reads!ReadNext` with `known`, `listed` and `latest` read off
`symbols`, `snap` and `quotes`). A request is served only while `apc` is "up", and a
stop of the API is `ApiCrash` and `Abort` in one step. `ImplementsReads` says that
this implements ApiReads, so that nothing is shown of a reader of some ideal feed
which a reader of the real tables would not see.

**ProviderFetch** has a task for every page and attempt. The first error of the
awaited attempt fails it; its siblings run on as orphans beside the next attempt.
Page contents are left out but for the attempt the sector names were read in.
It implements **MarketFetch**, and PollCycle's `FetchMarket`, `RetryMarket` and
`FetchMarketFails` are MarketFetch's `Deliver`, `TryAgain` and `GiveUp`.

**Listings** adds no step to DataHub: `HistoryRoute` and `EodRoute` are what the two
routes answer from a state of the tables, with their refusals, bounds, order and
limit. A datetime of a request is a wall clock and a zone, since the column it is
compared with has none. The properties relate the answers before and after a step.
The history variable `skipped` remembers the points that a fetch did not bring
though it brought later ones, for the one way in which a point can come to be stored
behind later ones by no fault of the worker's: the site lists it late. ListSpec is
DataHub's specification with that variable, which no step depends on.

**SchemaInit.** Each process looks for all tables, creates those it missed one
statement at a time, and then migrates; DDL is visible at once (pysqlite opens a
transaction only before DML). `TableExists` and `IndexExists` are the races that end
a start-up. A worker calls `init_db` at every tick, so its migration runs on a live
table. The file is new, or was written without the unique index and may hold
duplicates.

**Access** holds no state: `Hardened` is the validator of the settings, `CreateToken`
and `Decodes` cut times to whole seconds as python-jose does, `RequireAuth` is the policy.
**ApiServer** is the process around it: the operator changes the settings while it is
down, refused settings keep it down, it goes through SchemaInit beside the workers,
and a client keeps its token through all of that. Hashes and signatures are taken to
work. Users are parsed and hashed at the first `/token`, which makes no difference
to a request and is not a step.

**RateLimit.** `dispatch()` has no await between its two limiters, so a request is
one step. A bucket is the set of requests charged to it; the order of the
`OrderedDict` is the number of the request that last used a bucket. A limiter is
charged by the minute even for a request the burst limit then refuses.

## 3. Runs

| run | instance | shows |
|---|---|---|
| `market` | two tickers, pages {A,B} and {A} with and without sectors, watchlist {A} for the API's start-up, two attempts, clock to 2, retention 1, one fault | `QuoteHasSymbol`, `SnapshotCoversNewerQuotes`, `LatestQuoteKept`, `SectorNeverBlanked`, `ImplementsFeed`, `TickEnds`, `QuotesKeepComing`, `OldQuotesGo`, `ApiComesUp` |
| `history` | one watchlist symbol, days of 2 points, batches of 1, a site that lists everything or only the newest day, two faults, clock to 2, beside the API's start-up; pages of 1 and 2 | `EodBackedByHistory`, `OneEodPerDay`, `EodCatchesUp`, `TickShrinks`, `RefreshCatchesUp`, `HistoryGrowsForward`, `PagesStay` |
| `server` | the API and a worker, two tables, a new file or two old ones, two crashes, eight settings, clock of two seconds in halves | `UpHasSchema`, `QuotesUnique`, `NothingLost`, `EveryoneComesUp`, `AnyOriginIsLocal`, `LocalTokensRefused`, `TokenLifetime`, `CredentialsAddUp` |
| `api_reads` | two tickers (symmetric), all routes | `CountedAreListed`, `QuotedIsDescribed`, `NotFoundIsUnknown`, `QuotesNeverGoBack` |
| `provider` | two needed pages and the sector page, three attempts | `LabelsAreOwn`, `NamesKept`, `RequestsBounded`, `ImplementsFetch` |
| `rate_limit` | three clients with three keys, room for two buckets, six requests, both windows sliding | `BucketsBounded`, `LimitsKept`, `RefusedForOwnLoad` |
| `bad_row`, `history_range`, `jwt_bucket`, `stale_aggregate`, `sector_soft`, `names_retained` | see section 5 | a documented statement the code does not keep |

`market`, `server`, `api_reads`, `provider` and `rate_limit` check a `TypeOK` besides.

**Bounds and why they are enough.**

- `MaxTime` bounds the clock. With 2, quotes are made, age to exactly the
  retention of 1 and outlive it, and history spans two days. The clock stops and the
  worker runs on, so liveness is checked over endless ticks.
- `MaxFaults` bounds the faults (failing statements and commits, unstorable rows,
  crashes); failing *fetches* and lost races are not counted. One fault reaches
  every failure path; `history` has two because a batch left open by the first
  failure meets a second. That liveness holds for finitely many faults is what can
  be hoped for: a disk that fails at every commit stores nothing.
- `Lists`: in `history` a fetch brings all points so far, or only those of the day
  that begins at time 2 (nothing before that, which is a fetch that fails). A fetch of
  the second kind before one of the first makes the earlier day come in late. The
  market run has no lists: its tick gets through the watchlist without a batch.
  ListingsProofs is about any `Lists`.
- `history` has a page of no tickers, so its tick goes to the watchlist at once;
  the rows of a page are the business of `market`, which has both the sectors and the
  race for a symbol.
- Two symbols are one to process and one to fail or to be off the page. The rows of
  a page do not interact but through the session.
- `BatchSize` 1 with 2 points a day stores a day in two batches, either of which may
  fail; a refresh of three points has a batch left over for the next day. ListingsProofs
  shows the size not to matter.
- `server`: two processes are the API, which may race, and a worker, which may race
  and also writes. Two tables are one created before and one after the quotes. Two
  crashes leave a table without its index, and then the start-up that would make up
  for it. The settings differ in each thing the server refuses or decides by, and two of them
  let in any origin: a local server without origins, and one with "*"; four
  half seconds see a token of one second end, between two whole seconds too. The
  clock stops and the processes go on, so liveness is over endless restarts.
- `UnitsPerDay`, `Retention` (2 hours in the code) and `StaleAfter` (300 s) are
  small numbers in the same order of size; only their comparison matters. In
  `stale_aggregate` the retention is longer than the stale threshold, as it is
  in the code; its instance is the whole hub, with no faults and no watchlist,
  since neither is needed for the disagreement.
- `provider` has two of the three needed pages: they are interchangeable to the
  model, and two can fail in either order. One tick is enough for the passing
  properties since nothing of a tick is left for the next.
- `rate_limit`: six requests fill a window, overflow it, evict a bucket and bring
  its key back. `MaxRequests` and `MaxTime` end the run, hence
  `CHECK_DEADLOCK FALSE`; the same holds of the ticks of `provider`.

**Fairness.** The worker's steps that are not faults are weakly fair: the event loop
runs, every await of the worker is a request with a timeout
(`request_timeout_seconds`), a statement or a sleep, and the container is
restarted. Faults and fetch failures are never fair. The API's start-up is weakly
fair for the same reason, and its save strongly fair: SQLite's busy handler retries
the lock every few milliseconds while the worker leaves it free for most of each
tick. Two properties assume something of the site, as a hypothesis and no more than they
need: `QuotesKeepComing` that from some time on no fetch of the *market* fails
(`SiteRecovers`), `EodCatchesUp` that again and again a fetch lists all the stored
days of a symbol (`DaysComeBack`); it may fail and leave them out in between for
ever. `OldQuotesGo` and `ApiComesUp` assume nothing. In ProviderFetch every task is
weakly fair because of the request timeout. In ApiServer each process's own steps and its restart are weakly
fair (they wait for nobody, and the container is restarted); crashes are not, nor are
the worker's writes, the client's requests and the operator, and `EveryoneComesUp`
assumes that the settings are acceptable from some time on.

## 4. Proofs

All of the following are theorems for all constants that meet the named
assumptions (`ClockAssumption`, `ConfigAssumption`, `FetchAssumption`,
`LimitAssumption`, `ReadAssumption`, `ListingAssumption`, `SchemaAssumption`,
`AccessAssumption`, `ServerAssumption`): types, a positive batch size, day length and
number of attempts, a watchlist and pages of known tickers, old rows whose ids tell
them apart, an API that is not one of the workers, finitely many tickers
(`FiniteAssumption`) and tables, and special values that are not among the ordinary
ones. `RefusedForOwn` assumes besides that no two clients have the same key.

- **DataHubProofs.** `Inv == TypeInv /\ ApiOK /\ QuoteInv /\ HistInv` is inductive.
  None of the properties is so alone. *QuoteInv* adds what a tick has settled when
  it stores a quote: its symbol has a row, the rows left are of the snapshot, no
  time is ahead of the clock. *HistInv* states its property of committed *and
  pending* rows together, and says which points have been inserted so far: while
  `refresh_eod` is in its first half the points done are in the history or pending,
  in the second half they are committed. From it follow `TypeCorrect`,
  `QuotesHaveSymbols`, `SnapshotsCoverQuotes`, `EodIsBacked`, `EodIsUnique`, and, for
  steps, `SectorsAreKept`. The API's steps enter by one lemma: they touch only
  `symbols`, and only by an upsert without a sector. `FeedImplemented`
  is the refinement of QuoteFeed: the mapping of `LatestAt` needs that a finite set of times has a greatest (by
  NatLemmas), and pruning is the only step to take it (`PruneLatest`), which is
  `LatestIsKept` too. Four more theorems are about progress and need no fairness:
  `TicksShrink` is a measure (`StepsLeft`: attempts, rows, symbols of the watchlist,
  points and batches still to come) that each step of a tick lowers, the failing
  ones too, and `TicksAreBounded` is the number of steps it gives; `ApiRacesEnd` says
  that the API loses the race for a symbol at most once over all its starts, and
  `StartsAdvance` that a start-up that is not broken off ends. `RowsAreStored` is the
  other side of "rows isolated by `except` only": while there were no faults, every
  ticker of the page has a quote of the tick at the end of it, unless a race was lost to the API,
  and that shows in the session.
- **ListingsProofs.** `HistoryGoesForward` and `PagesAreStable` say that the worker
  itself leaves no gap to be filled later: what comes in behind later points had been
  left out by the site. `BatchInv` is about one refresh: the points done are the
  earliest of those fetched, and are stored or pending. `GapInv` is about the tables:
  of the committed table *and* of that table with what is pending, a point is there
  only with all earlier ones of its symbol and interval but those in `skipped`, and a
  date only with all earlier dates but those skipped as a whole; a later commit adds
  what is pending, and the end of a tick drops it, so one of the two alone is not
  inductive. That is `GapsWereSkipped`. `PagesAreStable` then is about the first or
  last `n` of a growing set (`FirstKept`, `LastKept`): what gives up its place does so
  to a new point among them, and a new point of a full page is a skipped one.
  These are theorems of ListSpec, with the history variable, and it implies Spec
  (`ListSteps`). `RefreshesCatchUp` is of Spec, and needs neither the gaps nor that a
  fetch brings what is stored: it follows records and points through the last commit,
  and quantifies over all stored points. `UtcRangesAreExact` bounds the
  finding of `history_range`: bounds in UTC, or without a zone, select exactly the
  points between the two instants.
- **HubReadsProofs.** `ReadsImplemented` is the refinement of ApiReads by the hub: a
  step of worker or start-up is one of the feed (`FeedStep` of DataHubProofs), and a
  stop of the API aborts the request. That the five results of ApiReadsProofs hold of
  the hub is read off the two together; tlapm does not instantiate theorems.
- **ApiServerProofs.** `SchemaInv` is what makes up for `create_all`'s blindness: a
  table a process would find missing is one it has still to look for or has on its
  list, so who reaches the migration finds all tables, and the migration makes the
  index whoever left it out. `NoQuoteIsLost` needs that the least id of a set of rows
  exists (NatLemmas). `TokensLast` is about `RequireAuth` and so about the mode that the
  server has been restarted with, as well as about its secret. For tokens, `TokenOK` ties the claims to the moment they were
  made at, and the lemmas about whole seconds give `TokensLast` for every clock
  resolution and lifetime. Besides: `ServerTypeCorrect`, `UpFindsSchema`,
  `QuotesAreUnique`, `AnyOriginOnlyLocal`, `LocalTokensAreRefused`,
  `CredentialsNeverSpoil`. Why all come up is proved in parts: another process sends
  one back to its start at most once for each table and once for the index
  (`RacesEnd`), a start that loses no race has a measure that each step lowers
  (`InitsAdvance`), and no duplicates, however they got there, keep the migration
  from its index (`MigrationGoesThrough`).
- **ProviderFetchProofs.** `FetchInv` adds to the properties what the task of the
  sector names returned while it is waited for, and that a provider forgets no
  names. It gives `FetchTypeCorrect`, `OverviewHasOwnNames`, `NamesAreKept`, and
  `FetchRefines`: each step is a step of MarketFetch or a stutter. `FlightIsBounded`
  counts: each failed attempt has lost the page it failed by (`InFlightOK`), and a
  set of attempts and pages with one missing per attempt is of that size. That a
  fetch ends has two halves: something that is waited for is always on its way
  (`FetchWaitsForSome`), and each step, an orphan's too, lowers a measure
  (`FetchEnds`).
- **RateLimitProofs.** `LimiterInv` says of either limiter that no bucket has more
  hits than the limit, that hits exist only where there is a bucket, and that no
  bucket was used by a request yet to come; a refusal then needs a full bucket, so
  it never adds one when the limit is positive. It gives `LimiterTypeCorrect` and
  `BucketsStayBounded`. `LogInv` ties the limiters to the log: every hit is a request
  that was charged, and a request that was charged is a hit, or out of the window, or
  enough other keys have been in use since. The last is what dropping the coldest
  bucket amounts to: all the others were used later. It gives `LimitsAreKept`, and,
  where keys tell clients apart, `RefusedForOwn`.
- **ApiReadsProofs.** A request holds what it read while the feed goes on, so the
  argument begins with what the feed never takes back (`FeedGrows`): a symbol once
  known stays known; a time up to `asOf` that is covered by the page listed stays
  covered, since the next page is dated no earlier; a time the
  latest quote has reached stays reached, or is past the retention. `ReadInv` says
  of the statements left and of what was read that it is bounded by those facts.
  It gives `AnswersTypeCorrect`, `CountedListed`, `QuotedDescribed`,
  `NotFoundUnknown` and `QuotesGoForward`. `CountedListed` and `QuotedDescribed`
  rest on the order of the statements of a request: reversed, both fail.

Model-checked only: what needs fairness (`TickEnds`, `QuotesKeepComing`,
`OldQuotesGo`, `EodCatchesUp`, `ApiComesUp`, `EveryoneComesUp`, the end of a fetch in
`ImplementsFetch`), which is out of this prover's reach. What can be said of their
reasons without fairness is proved: the measures `StepsLeft`, `StartLeft`, `InitLeft`
and `FetchLeft`, the races that settle, and `RefreshesCatchUp`. What is left to TLC is
that an enabled step is taken.

## 5. Where code and documentation disagree

| run | what TLC shows |
|---|---|
| `bad_row` | after one row fails in a flush, the other rows of the page, the watchlist and the pruning raise too; `quote_service.py:96` says one bad row never kills the tick |
| `sector_soft` | a sector page announced as JSON that does not parse fails the whole market refresh at once; `psx_dps_provider.py:300` says sector labels must not |
| `names_retained` | a tick whose sector page fails has no names even if the tick before had: each tick has a provider of its own; `docs/index.html:352` says the last mapping is retained |
| `history_range` | a bound of a history request with an offset is compared by its wall clock with times in UTC, so points in the range are missing and others listed; `docs/index.html:209` says inclusive bounds of datetimes |
| `stale_aggregate` | `companiesinloss` counts quotes older than the stale threshold and is not marked stale, for it is dated by the snapshot: while the rows of a tick are stored one by one, those still to come are of an earlier tick; `docs/index.html:321` |
| `jwt_bucket` | all access tokens share the first 24 characters and so one bucket; `docs/index.html:307` says clients are told apart by their token |

`BucketsBounded` is stated for positive limits: with a limit of zero a request is
refused before the eviction and its bucket stays.

## 6. Not modelled, and why

HTML and JSON parsing, number and date conversion: data, no control the properties
depend on; what a page yields is a choice among its outcomes. Hashing, JWT signatures
and the `compare_digest` loop are library code. The search for a field in a snapshot's
payload (`_extract_payload_value`) finds what the provider puts at the top of every
snapshot, so what its recursion does shows with seeded data only. Indexes other than
the unique one: no statement depends on them. Scopes of a token: no route looks at
them; `require_jwt_user` and `token_subject` have no caller, nor have
`refresh_symbol`, `refresh_symbols`, `fetch_quote` and `latest_watch_rows`. The branch
of the batch writers for other databases than SQLite. `HeadMethodMiddleware`, the
health and the index routes: no state, and one read at most. Response schemas and
`main.py`: declarations and a call of uvicorn. `scripts/`: test tooling. Duplicate rows
of one ticker on a page, and two API processes serving, are left out; ApiServer has
one API and any number of workers, DataHub one of each.

## 7. Plan

In order:

1. Revisions of the source: an EOD point whose price changes while its day lasts,
   against records that are never updated (`repo.py:310`). (A point that is listed
   late is modelled.)
2. The settings of the worker that are not validated (`poll_symbols_per_tick` of zero
   ends each tick before the pruning, `worker.py:51`) as constants of PollCycle.
3. Retries that are documented but not made (`fetch_timeseries` is not retried).
4. Two API processes: one rate limiter each, one file.
