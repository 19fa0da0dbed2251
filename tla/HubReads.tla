------------------------------ MODULE HubReads ------------------------------
(***************************************************************************)
(* The whole hub: the worker, the API that starts up beside it (DataHub),  *)
(* and the requests that the API serves once it is up (ApiReads), on the   *)
(* tables the other two write.  HubSpec implements ApiReads!Spec: what     *)
(* ApiReads shows of a reader of any feed of quotes it shows of a reader of*)
(* these tables.                                                           *)
(***************************************************************************)
EXTENDS DataHub

CONSTANTS
  StaleAfter,   \* settings.stale_threshold_seconds
  NoRoute       \* no request is being served

VARIABLES route, company, toRead, readNames, readQuotes, readShot, stored, seen

requestVars == <<route, company, toRead, readNames, readQuotes, readShot, stored, seen>>
hubVars == <<vars, requestVars>>

Reads == INSTANCE ApiReads WITH
  asOf   <- IF stamp = Never THEN now ELSE stamp,
  known  <- {s \in Symbols : symbols[s] # NoRow},
  listed <- snap.tickers, listedAt <- snap.at,
  latest <- [s \in Symbols |-> LatestAt(quotes, s)],
  todo <- toRead, names <- readNames, quotes <- readQuotes, shot <- readShot

HubInit == Init /\ Reads!ReadInit

\* A route is served only by an API that is up
Serve == apc = "up" /\ UNCHANGED vars /\ Reads!ReadNext

\* The API stops in the middle of a request
StopServing == ApiCrash /\ Reads!Abort

HubNext ==
  \/ Next /\ (apc = "up" => apc' = "up" \/ route = NoRoute) /\ UNCHANGED requestVars
  \/ Serve \/ StopServing

HubSpec == HubInit /\ [][HubNext]_hubVars

-----------------------------------------------------------------------------
\* What a reader of the hub is promised.

\* The requests of the API are those of ApiReads, on a feed that worker and API
\* fill while they fail, race and start again (stocks.py:85-121, compat.py:198-344).
ImplementsReads == Reads!Spec

\* ApiReads!FreshIsFresh of the tables that the worker writes: an answer that is
\* not marked stale has no quote in it older than the "Age after which metadata
\* reports stale data" (docs/index.html:321).
FreshIsFresh == Reads!FreshIsFresh
=============================================================================
