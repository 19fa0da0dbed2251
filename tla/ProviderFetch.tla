--------------------------- MODULE ProviderFetch ---------------------------
(***************************************************************************)
(* The market fetch of a tick: PsxDpsProvider.fetch_market_overview under  *)
(* MarketDataService._with_retries.  An attempt gathers four pages.  The   *)
(* first to raise fails the attempt at once, but gather() does not cancel  *)
(* the others: they run on beside the next attempt, as orphans, and the    *)
(* fetch of the sector names stores what it finds in the provider.         *)
(*                                                                         *)
(* A step is the code between two awaits of a task; the tasks of one       *)
(* attempt, and the orphans of those before, take steps in any order.      *)
(* Page contents are left out: names of sectors are known by the attempt   *)
(* whose page they were read from.                                         *)
(***************************************************************************)
EXTENDS Naturals, FiniteSets

CONSTANTS
  Needed,       \* market-watch, indices, market status
  Sectors,      \* sector-summary, without which the others are of use
  MaxAttempts,  \* max_attempts of refresh_market
  MaxTicks      \* bound of the ticks

ASSUME FetchAssumption ==
  /\ IsFiniteSet(Needed) /\ Sectors \notin Needed
  /\ MaxAttempts \in Nat \ {0} /\ MaxTicks \in Nat

VARIABLES
  tick,         \* ticks so far
  phase,        \* "idle", "fetching", "backoff", "done", "failed"
  attempt,
  task,         \* the fetch of each page in each attempt
  names,        \* provider._sector_names: attempt they were read in, or NoNames
  given,        \* what the sector fetch of this attempt has returned
  labels,       \* the names used in the overview
  had,          \* history: names at the start of the attempt
  ever          \* history: did an earlier tick have an overview with names

vars == <<tick, phase, attempt, task, names, given, labels, had, ever>>

NoNames == 0
Attempts == 1..MaxAttempts
Pages == Needed \cup {Sectors}

\* How _fetch ends: with a body, which is an HTML page that can be read or
\* something else, or with an exception.  A body announced as JSON that is
\* none raises the decoder's own exception.
Bodies == {"page", "unreadable"}
Soft   == {"notFound", "temporary"}
Errors == Soft \cup {"undecodable"}

\* "spared": the sector page failed, and its task returned all the same
Status == {"idle", "inFlight", "ended", "spared"} \cup Bodies \cup Errors

Idle == [a \in Attempts |-> [p \in Pages |-> "idle"]]

Init ==
  /\ tick = 0 /\ phase = "idle" /\ attempt = 1 /\ task = Idle
  /\ names = NoNames /\ given = NoNames /\ labels = NoNames /\ had = NoNames
  /\ ever = FALSE

\* The task belongs to the attempt that is waited for
Awaited(a) == a = attempt /\ phase = "fetching"

\* The task is over; nobody looks at what an orphan ended with
Ends(a, p, status) ==
  task' = [task EXCEPT ![a][p] = IF Awaited(a) THEN status ELSE "ended"]

Launched(a) ==
  [task EXCEPT ![a] = [p \in Pages |-> "inFlight"]]

-----------------------------------------------------------------------------
\* The tick.

\* poll_once makes a provider, which knows no names, and calls refresh_market
StartTick ==
  /\ phase = "idle" /\ tick < MaxTicks
  /\ tick' = tick + 1 /\ phase' = "fetching" /\ task' = Launched(1)
  /\ UNCHANGED <<attempt, names, given, labels, had, ever>>

\* The client is closed with the tick: fetches in flight raise, their provider
\* is dropped
EndTick ==
  /\ phase \in {"done", "failed"}
  /\ phase' = "idle" /\ attempt' = 1 /\ task' = Idle
  /\ names' = NoNames /\ given' = NoNames /\ labels' = NoNames /\ had' = NoNames
  /\ ever' = (ever \/ labels # NoNames)
  /\ UNCHANGED tick

-----------------------------------------------------------------------------
\* _with_retries

\* Mistake: the last attempt is retried too
FailsOnceMore(error) ==
  phase' = IF error \in {"notFound", "undecodable"} \/ attempt > MaxAttempts
             THEN "failed" ELSE "backoff"

\* The attempt raises
Fails(error) ==
  phase' = IF error \in {"notFound", "undecodable"} \/ attempt = MaxAttempts
             THEN "failed" ELSE "backoff"

\* Mistake: the attempts are not counted beyond the second
RetrySameCount ==
  /\ phase = "backoff" /\ phase' = "fetching"
  /\ attempt' = IF attempt = 1 THEN 2 ELSE attempt
  /\ task' = Launched(attempt')
  /\ given' = NoNames /\ had' = names
  /\ UNCHANGED <<tick, names, labels, ever>>

\* Mistake: an attempt that takes long is given up for the next
RetryImpatient ==
  /\ phase \in {"backoff", "fetching"} /\ phase' = "fetching"
  /\ attempt < MaxAttempts /\ attempt' = attempt + 1
  /\ task' = Launched(attempt + 1)
  /\ given' = NoNames /\ had' = names
  /\ UNCHANGED <<tick, names, labels, ever>>

\* After the sleep
Retry ==
  /\ phase = "backoff" /\ phase' = "fetching"
  /\ attempt' = attempt + 1
  /\ task' = Launched(attempt + 1)
  /\ given' = NoNames /\ had' = names
  /\ UNCHANGED <<tick, names, labels, ever>>

-----------------------------------------------------------------------------
\* _fetch of a needed page

PageArrives(a, p) ==
  /\ task[a][p] = "inFlight"
  /\ \E body \in Bodies : Ends(a, p, body)
  /\ UNCHANGED <<tick, phase, attempt, names, given, labels, had, ever>>

PageFails(a, p) ==
  /\ task[a][p] = "inFlight"
  /\ \E error \in Errors :
       /\ Ends(a, p, error)
       /\ IF Awaited(a) THEN Fails(error) ELSE UNCHANGED phase
  /\ UNCHANGED <<tick, attempt, names, given, labels, had, ever>>

-----------------------------------------------------------------------------
\* _fetch_sector_names

NamesArrive(a) ==
  /\ task[a][Sectors] = "inFlight" /\ Ends(a, Sectors, "page")
  /\ names' = a
  /\ given' = IF Awaited(a) THEN a ELSE given
  /\ UNCHANGED <<tick, phase, attempt, labels, had, ever>>

\* Mistake: without the page there are no names
NamesLost(a) ==
  /\ task[a][Sectors] = "inFlight" /\ Ends(a, Sectors, "spared")
  /\ names' = NoNames
  /\ given' = IF Awaited(a) THEN NoNames ELSE given
  /\ UNCHANGED <<tick, phase, attempt, labels, had, ever>>

\* Not found, temporary, or not readable: the names known before are returned
NamesSpared(a) ==
  /\ task[a][Sectors] = "inFlight" /\ Ends(a, Sectors, "spared")
  /\ given' = IF Awaited(a) THEN names ELSE given
  /\ UNCHANGED <<tick, phase, attempt, names, labels, had, ever>>

\* The decoder's exception is not among those that are caught
NamesUndecodable(a) ==
  /\ task[a][Sectors] = "inFlight" /\ Ends(a, Sectors, "undecodable")
  /\ IF Awaited(a) THEN Fails("undecodable") ELSE UNCHANGED phase
  /\ UNCHANGED <<tick, attempt, names, given, labels, had, ever>>

-----------------------------------------------------------------------------
\* The rest of fetch_market_overview, once gather() has returned

Gathered ==
  phase = "fetching" /\ \A p \in Pages : task[attempt][p] \in Bodies \cup {"spared"}

\* Mistake: the names are those the provider has by now
AssembleLate ==
  /\ Gathered
  /\ IF \E p \in Needed : task[attempt][p] = "unreadable"
       THEN Fails("parse") /\ UNCHANGED labels
       ELSE phase' = "done" /\ labels' = names
  /\ UNCHANGED <<tick, attempt, task, names, given, had, ever>>

Assemble ==
  /\ Gathered
  /\ IF \E p \in Needed : task[attempt][p] = "unreadable"
       THEN Fails("parse") /\ UNCHANGED labels
       ELSE phase' = "done" /\ labels' = given
  /\ UNCHANGED <<tick, attempt, task, names, given, had, ever>>

TaskStep(a) ==
  \/ \E p \in Needed : PageArrives(a, p) \/ PageFails(a, p)
  \/ NamesArrive(a) \/ NamesSpared(a) \/ NamesUndecodable(a)

Next ==
  \/ StartTick \/ EndTick \/ Retry \/ Assemble
  \/ \E a \in Attempts : TaskStep(a)

\* A request ends: with an answer, or when settings.request_timeout_seconds
\* are over.  The coroutine that waits for it, or sleeps, is scheduled.
Spec ==
  /\ Init /\ [][Next]_vars
  /\ WF_vars(Retry) /\ WF_vars(Assemble)
  /\ \A a \in Attempts : WF_vars(TaskStep(a))

-----------------------------------------------------------------------------
\* Properties.

TypeOK ==
  /\ tick \in 0..MaxTicks /\ attempt \in Attempts
  /\ phase \in {"idle", "fetching", "backoff", "done", "failed"}
  /\ task \in [Attempts -> [Pages -> Status]]
  /\ {names, given, labels, had} \subseteq Attempts \cup {NoNames}
  /\ ever \in BOOLEAN

\* An overview is labelled from the sector page of its own attempt when that
\* page arrived, although an orphan of an earlier attempt may store its names
\* later (psx_dps_provider.py:298-302, 339-357).
LabelsAreOwn ==
  phase = "done" /\ task[attempt][Sectors] = "page" => labels = attempt

\* Names read before an attempt began are not lost when its own sector page
\* fails: within a tick the last successful mapping is retained
\* (psx_dps_provider.py:299-302).
NamesKept == phase = "done" /\ had # NoNames => labels # NoNames

InFlight == {r \in Attempts \X Pages : task[r[1]][r[2]] = "inFlight"}

\* The orphans of failed attempts and the fetches of the next never are more
\* requests than all pages once and, for each failed attempt, all but one
\* (psx_dps_provider.py:339-344, quote_service.py:34-46).
RequestsBounded ==
  Cardinality(InFlight) <= attempt * (Cardinality(Pages) - 1) + 1

\* "Sector labels improve presentation but must not make quote refreshes fail."
\* (psx_dps_provider.py:300): an attempt only fails for a page it needs.
SectorsAreSoft ==
  phase \in {"backoff", "failed"} =>
    \E p \in Needed : task[attempt][p] \in Errors \cup {"unreadable"}

\* "Sector labels are a soft dependency and retain the last successful mapping."
\* (docs/index.html:352): after a tick with names, no overview is without.
NamesRetained == [][phase' = "done" /\ ever => labels' # NoNames]_vars

\* What MarketFetch knows of a phase
Fate == IF phase = "idle" THEN "none" ELSE
        IF phase = "done" THEN "delivered" ELSE
        IF phase = "failed" THEN "failed" ELSE "trying"

Fetch == INSTANCE MarketFetch WITH
  fate <- Fate, try <- attempt,
  sectors <- IF phase # "done" THEN "none" ELSE
             IF labels = NoNames THEN "codes" ELSE "names"

\* The gathered, retried fetch implements what PollCycle assumes of it: a few
\* attempts, then an overview or a failure.  It ends, however its pages fail,
\* arrive or race the orphans of earlier attempts (quote_service.py:31-56).
ImplementsFetch == Fetch!FetchSpec
=============================================================================
