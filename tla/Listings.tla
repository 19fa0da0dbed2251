------------------------------ MODULE Listings ------------------------------
(***************************************************************************)
(* The listings of one symbol: GET /v1/stocks/{symbol}/history and /eod    *)
(* (api/routes/stocks.py) over get_quote_history and get_eod               *)
(* (storage/repo.py), reading what the worker and the API of DataHub       *)
(* write.  A page is the set of its times or dates, since a time or a date *)
(* is listed once and the order of a page is that of time.  `skipped` is a *)
(* history variable, which no step depends on: the points that a fetch did *)
(* not bring though it brought later ones.                                 *)
(*                                                                         *)
(* A datetime of a request is a wall clock and its zone.  The tables keep  *)
(* UTC, and SQLite's DATETIME has no zone: a statement compares the wall   *)
(* clock it is given, whatever zone that was.                              *)
(***************************************************************************)
EXTENDS DataHub

CONSTANTS
  Limits,     \* of a page, all positive (Query(ge=1))
  Offsets,    \* of the zones of requests from UTC
  Naive,      \* the zone of a datetime without one
  None        \* a bound that is not given

VARIABLE skipped

listVars == <<vars, skipped>>

Datetimes == [wall : Times, zone : Offsets \cup {Naive}]

ASSUME ListingAssumption ==
  /\ Limits \subseteq Nat \ {0}
  /\ Offsets \subseteq Int /\ Naive \notin Offsets
  /\ None \notin Nat \cup Datetimes

\* The moment a datetime means; those without a zone are taken as UTC
Instant(d) == IF d.zone = Naive THEN d.wall ELSE d.wall - d.zone

Points(table, s, interval) ==
  {h.ts : h \in {r \in table : r.symbol = s /\ r.interval = interval}}

Dates(table, s) == {e.date : e \in {r \in table : r.symbol = s}}

LastOf(n, points) ==
  {t \in points : Cardinality({u \in points : u > t}) < n}

Within(points, lower, upper) ==
  {t \in points : (lower # None => lower <= t) /\ (upper # None => t <= upper)}

Wall(d) == IF d = None THEN None ELSE d.wall

\* Mistake: the newest points, as in get_eod
GetQuoteHistoryNewest(table, s, interval, from, to, limit) ==
  LastOf(limit, Within(Points(table, s, interval), Wall(from), Wall(to)))

\* get_quote_history: ORDER BY period_start ASC LIMIT limit
GetQuoteHistory(table, s, interval, from, to, limit) ==
  FirstOf(limit, Within(Points(table, s, interval), Wall(from), Wall(to)))

\* get_eod: ORDER BY date DESC LIMIT limit
GetEod(table, s, from, to, limit) == LastOf(limit, Within(Dates(table, s), from, to))

Refused(status) == [code |-> status, page |-> {}]
Answer(page)    == [code |-> 200, page |-> page]

\* Python does not compare a datetime that has a zone with one that has none
Comparable(d, e) == d.zone = Naive <=> e.zone = Naive

\* GET /v1/stocks/{symbol}/history
HistoryRoute(table, s, interval, from, to, limit) ==
  IF s \notin Symbols THEN Refused(400)
  ELSE IF interval \notin {"int", "eod"} THEN Refused(422)
  ELSE IF from # None /\ to # None /\ ~Comparable(from, to) THEN Refused(500)
  ELSE IF from # None /\ to # None /\ Instant(from) > Instant(to) THEN Refused(400)
  ELSE Answer(GetQuoteHistory(table, s, interval, from, to, limit))

\* GET /v1/stocks/{symbol}/eod
EodRoute(table, s, from, to, limit) ==
  IF s \notin Symbols THEN Refused(400)
  ELSE IF from # None /\ to # None /\ from > to THEN Refused(400)
  ELSE Answer(GetEod(table, s, from, to, limit))

-----------------------------------------------------------------------------
\* What the fetch of a step skipped

Fetches == wpc \in {"intFetch", "eodFetch"} /\ wpc' \in {"intBatch", "eodHistBatch"}

SkippedNow ==
  HistoryRows(cur, IF wpc = "intFetch" THEN "int" ELSE "eod",
              {t \in Times \ fetched' : \E u \in fetched' : t < u})

ListInit == Init /\ skipped = {}

ListNext == Next /\ skipped' = skipped \cup (IF Fetches THEN SkippedNow ELSE {})

ListSpec == ListInit /\ [][ListNext]_listVars /\ Fairness

-----------------------------------------------------------------------------
\* The stored points of a symbol and interval grow at their end, though batches
\* fail and what is left of them is committed later.  A point comes in behind
\* later ones only if the site had left it out beside later ones: a reader who
\* goes on from the last point it has seen misses no other (repo.py:260-269).
HistoryGrowsForward ==
  [][\A s \in Symbols, interval \in {"int", "eod"} :
       \A t \in Points(hist', s, interval) \ Points(hist, s, interval) :
         \/ t \in Points(skipped, s, interval)
         \/ \A u \in Points(hist, s, interval) : u < t]_listVars

\* The days of which the site has left out every point at some time, beside
\* points of later days or later points
SkippedDays(s) ==
  {d \in {DateOf(t) : t \in Times} :
     \A t \in Times : DateOf(t) = d => t \in Points(skipped, s, "eod")}

\* A page read again is the same, or has what was skipped before and only that
Kept(page, again, late) ==
  again = page \/ (again.page \ page.page # {} /\ again.page \ page.page \subseteq late)

\* A full page of history is the same ever after, and so is a page of EOD
\* records that ends before the newest of them, but for what the site had left
\* out: a reader can page through either while the worker writes, fails and
\* starts again (repo.py:100-115, repo.py:125-134).
PagesStay ==
  [][\A s \in Symbols, limit \in Limits :
       /\ \A interval \in {"int", "eod"}, t \in Times :
            LET Page(table) == HistoryRoute(table, s, interval, [wall |-> t, zone |-> Naive], None, limit)
            IN  Cardinality(Page(hist).page) = limit =>
                  Kept(Page(hist), Page(hist'), Points(skipped, s, interval))
       /\ \A newest \in Dates(eod, s) : \A to \in 0..(newest - 1) :
            Kept(EodRoute(eod, s, None, to, limit), EodRoute(eod', s, None, to, limit),
                 SkippedDays(s))]_listVars

\* A page of history lists exactly the stored points between its bounds, which
\* are moments in time: `from` is the "Inclusive lower bound" and `to` the
\* "Inclusive upper bound" of datetimes in any zone (docs/index.html:209).
RangeIsInstants ==
  \A s \in Symbols, interval \in {"int", "eod"}, from, to \in Datetimes :
    LET answer == HistoryRoute(hist, s, interval, from, to, MaxTime + 1)
    IN  answer.code = 200 =>
          answer.page = {t \in Points(hist, s, interval) :
                           Instant(from) <= t /\ t <= Instant(to)}
=============================================================================
