------------------------------ MODULE ApiReads ------------------------------
(***************************************************************************)
(* The read routes of the API (api/routes/) beside the feed of quotes they *)
(* read.  A request is a few statements, each of which sees the database as*)
(* it is then: whoever fills it commits in between.  The feed is QuoteFeed,*)
(* which the worker and the start-up of the API implement (DataHub), so a  *)
(* reader of their tables sees nothing that is not modelled here.          *)
(*                                                                         *)
(* Requests share no state; one is followed at a time.  Its answer is what *)
(* it has read once no statement is left.                                  *)
(***************************************************************************)
EXTENDS QuoteFeed, Sequences

CONSTANTS
  StaleAfter,   \* settings.stale_threshold_seconds
  NoRoute       \* no request is being served

VARIABLES
  route, company,         \* the request
  todo,                   \* its statements still to be executed
  names, quotes, shot,    \* what it has read: symbols, latest quotes, snapshot
  stored,                 \* history: was there anything of the company at first
  seen                    \* history: newest quote of each symbol in an answer

readVars == <<route, company, todo, names, quotes, shot, stored, seen>>
vars == <<feedVars, readVars>>

Times == 0..MaxTime
NoQuotes == [s \in Symbols |-> Never]
NoShot == [at |-> Never, tickers |-> {}]

\* get_stock_quote (getalldata and equitydata alike), get_company_description,
\* get_companies_in_loss (and _in_profit), get_sector_graph, get_sectors (and
\* get_total_companies), get_market (and whatever else only reads the snapshot)
OfCompany == {"quote", "description"}
OfMarket  == {"loss", "sectorgraph", "sectors", "market"}

ASSUME ReadAssumption ==
  /\ StaleAfter \in Nat /\ MaxTime \in Nat /\ Retention \in Nat
  /\ NoRoute \notin OfCompany \cup OfMarket

\* Mistake: the latest is read first
StatementsReversed(r) ==
  [quote       |-> <<"quotes">>,
   description |-> <<"symbols", "quotes">>,
   loss        |-> <<"snapshot", "quotes">>,
   sectorgraph |-> <<"snapshot", "quotes", "symbols">>,
   sectors     |-> <<"snapshot", "symbols">>,
   market      |-> <<"snapshot">>][r]

\* The statements of a route, in the order of the code
Statements(r) ==
  [quote       |-> <<"quotes">>,
   description |-> <<"quotes", "symbols">>,
   loss        |-> <<"quotes", "snapshot">>,
   sectorgraph |-> <<"symbols", "quotes", "snapshot">>,
   sectors     |-> <<"symbols", "snapshot">>,
   market      |-> <<"snapshot">>][r]

Asked == IF route \in OfCompany THEN {company} ELSE Symbols

ReadInit ==
  /\ route = NoRoute /\ company = NoRoute /\ todo = <<>>
  /\ names = {} /\ quotes = NoQuotes /\ shot = NoShot
  /\ stored = FALSE /\ seen = NoQuotes

Request(r, c) ==
  /\ route = NoRoute /\ route' = r /\ company' = c
  /\ todo' = Statements(r)
  /\ stored' = (c \in known \/ (c \in Symbols /\ latest[c] # Never))
  /\ UNCHANGED <<feedVars, names, quotes, shot, seen>>

Execute(statement) ==
  /\ todo # <<>> /\ Head(todo) = statement /\ todo' = Tail(todo)
  /\ UNCHANGED <<feedVars, route, company, stored, seen>>

\* get_symbol, list_symbols, count_symbols: no symbol ever becomes inactive
ReadSymbols ==
  /\ Execute("symbols") /\ names' = known \cap Asked
  /\ UNCHANGED <<quotes, shot>>

\* get_latest_quote, list_latest_quotes
ReadQuotes ==
  /\ Execute("quotes")
  /\ quotes' = [s \in Symbols |-> IF s \in Asked THEN latest[s] ELSE Never]
  /\ UNCHANGED <<names, shot>>

\* get_latest_market_snapshot
ReadSnapshot ==
  /\ Execute("snapshot") /\ shot' = [at |-> listedAt, tickers |-> listed]
  /\ UNCHANGED <<names, quotes>>

-----------------------------------------------------------------------------
\* The answer.

Answered == route # NoRoute /\ todo = <<>>

\* The row that the delay metadata of an answer is about
DatedBy == IF route \in OfCompany THEN quotes[company] ELSE shot.at

\* Mistake: nobody thought of an empty table
DelayOfRow == [fetched_at |-> DatedBy, is_stale |-> now - DatedBy > StaleAfter]

\* _delay_from_snapshot, _make_delay
Delay ==
  IF DatedBy = Never THEN [fetched_at |-> now, is_stale |-> TRUE]
  ELSE [fetched_at |-> DatedBy, is_stale |-> now - DatedBy > StaleAfter]

\* Mistake: a description needs a quote
NotFoundUnquoted == route \in OfCompany /\ quotes[company] = Never

\* Status 404
NotFound ==
  \/ route = "quote" /\ quotes[company] = Never
  \/ route = "description" /\ quotes[company] = Never /\ names = {}

\* The quotes an answer is made of
Counted ==
  {s \in Symbols : quotes[s] # Never /\ (route = "sectorgraph" => s \in names)}

\* Nothing of a request outlives its session
EndRequest ==
  /\ route' = NoRoute /\ company' = NoRoute /\ todo' = <<>> /\ stored' = FALSE
  /\ names' = {} /\ quotes' = NoQuotes /\ shot' = NoShot
  /\ UNCHANGED feedVars

Respond ==
  /\ Answered /\ EndRequest
  /\ seen' = [s \in Symbols |-> IF quotes[s] = Never THEN seen[s] ELSE quotes[s]]

\* A statement raises (status 500), or the process stops
Abort == route # NoRoute /\ EndRequest /\ UNCHANGED seen

ReadNext ==
  \/ \E r \in OfCompany, c \in Symbols : Request(r, c)
  \/ \E r \in OfMarket : Request(r, NoRoute)
  \/ ReadSymbols \/ ReadQuotes \/ ReadSnapshot
  \/ Respond \/ Abort

Init == FeedInit /\ ReadInit

Next == (FeedNext /\ UNCHANGED readVars) \/ ReadNext

Spec == Init /\ [][Next]_vars

-----------------------------------------------------------------------------
\* Properties.

TypeOK ==
  /\ route \in OfCompany \cup OfMarket \cup {NoRoute}
  /\ company \in Symbols \cup {NoRoute}
  /\ todo \in Seq({"symbols", "quotes", "snapshot"}) /\ Len(todo) <= 3
  /\ names \subseteq Symbols
  /\ quotes \in [Symbols -> Times \cup {Never}] /\ seen \in [Symbols -> Times \cup {Never}]
  /\ shot \in [at : Times \cup {Never}, tickers : SUBSET Symbols]
  /\ stored \in BOOLEAN
  /\ Answered => Delay \in [fetched_at : Times, is_stale : BOOLEAN]

\* An aggregate whose quotes are newer than the snapshot it is dated by counts
\* only tickers that snapshot lists: the quotes are read before the snapshot,
\* as they are stored after it (compat.py:208-250).
CountedAreListed ==
  Answered /\ route \in {"loss", "sectorgraph"} =>
    \A s \in Counted : quotes[s] > shot.at => s \in shot.tickers

\* A description with a quote has the symbol's row, and so its sector, although
\* they are read apart: no quote is stored before its symbol, and the quote is
\* read first (stocks.py:113-116, compat.py:328-340).
QuotedIsDescribed ==
  Answered /\ route = "description" /\ quotes[company] # Never => company \in names

\* "404 only when neither a symbol record nor a quote exists"
\* (docs/index.html:207), when the request came in (stocks.py:115, compat.py:330).
NotFoundIsUnknown ==
  Answered /\ route = "description" /\ NotFound => ~stored

\* Asked again, the API never answers with an older quote of a symbol, nor with
\* none, unless the newer one has outlived the retention (repo.py:57-90).
QuotesNeverGoBack ==
  Answered /\ route \in {"quote", "loss"} =>
    \A s \in Asked : quotes[s] >= seen[s] \/ now - seen[s] > Retention

\* "Age after which metadata reports stale data" (docs/index.html:321): an
\* answer that is not marked stale has no quote in it older than that.
FreshIsFresh ==
  Answered /\ ~NotFound /\ ~Delay.is_stale =>
    \A s \in Counted : now - quotes[s] <= StaleAfter
=============================================================================
