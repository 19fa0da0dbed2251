----------------------------- MODULE QuoteFeed -----------------------------
(***************************************************************************)
(* What the tables promise to whoever reads quotes, whatever the worker    *)
(* goes through to fill them: a symbol is known before it is quoted, it is *)
(* on the latest market page when it is quoted, its latest quote only ever *)
(* gets newer, and it is lost only by growing older than the retention.    *)
(* DataHub implements this (DataHub!Feed).                                 *)
(***************************************************************************)
EXTENDS Integers

CONSTANTS Symbols, MaxTime, Retention

VARIABLES
  now,      \* the clock
  asOf,     \* the time that what is stored next is given: `now`, or earlier
  known,    \* symbols with a row in `symbols`
  listed,   \* tickers of the latest market snapshot ...
  listedAt, \* ... and its fetched_at, or Never
  latest    \* fetched_at of each symbol's latest quote, or Never

tableVars == <<known, listed, listedAt, latest>>
feedVars == <<now, asOf, tableVars>>

Never == -1

FeedInit ==
  /\ now = 0 /\ asOf = 0
  /\ known = {} /\ listed = {} /\ listedAt = Never
  /\ latest = [s \in Symbols |-> Never]

TimePasses == now < MaxTime /\ now' = now + 1 /\ UNCHANGED tableVars

Learn(s) == known' = known \cup {s} /\ UNCHANGED <<now, listed, listedAt, latest>>

\* A page is dated before it is stored, but after all that was stored before
List(page) ==
  /\ listed' = page /\ listedAt' = asOf
  /\ UNCHANGED <<now, known, latest>>

\* So is a quote, which is of a known symbol of the page listed then
Publish(s) ==
  /\ s \in known \cap listed
  /\ latest' = [latest EXCEPT ![s] = asOf]
  /\ UNCHANGED <<now, known, listed, listedAt>>

\* Mistake: a quote goes when it is as old as the retention
ExpireEarly ==
  /\ latest' = [s \in Symbols |->
                  IF asOf - latest[s] >= Retention THEN Never ELSE latest[s]]
  /\ UNCHANGED <<now, known, listed, listedAt>>

Expire ==
  /\ latest' = [s \in Symbols |->
                  IF asOf - latest[s] > Retention THEN Never ELSE latest[s]]
  /\ UNCHANGED <<now, known, listed, listedAt>>

FeedNext ==
  /\ \/ TimePasses \/ Expire \/ UNCHANGED <<now, tableVars>>
     \/ \E s \in Symbols : Learn(s) \/ Publish(s)
     \/ \E page \in SUBSET Symbols : List(page)
  /\ asOf' \in {asOf, now'}

FeedSpec == FeedInit /\ [][FeedNext]_feedVars
=============================================================================
