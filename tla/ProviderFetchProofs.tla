------------------------ MODULE ProviderFetchProofs ------------------------
(***************************************************************************)
(* Proofs about ProviderFetch, for every set of needed pages, any number of*)
(* attempts and of orphans they leave: which sector names an overview is   *)
(* labelled with, and that the steps of the gathered, retried fetch are    *)
(* those MarketFetch allows.                                               *)
(***************************************************************************)
EXTENDS ProviderFetch, FiniteSetTheorems, TLAPS

\* A tick starts with the first attempt, and only an attempt that is not the
\* last waits for the next
Backoff ==
  /\ phase = "idle" => attempt = 1
  /\ phase = "backoff" => attempt < MaxAttempts

\* The task of the sector names ends in one of two ways an attempt goes on with
SectorsEnd == \A a \in Attempts : task[a][Sectors] # "unreadable"

\* What the task of the sector names returned, as long as it is waited for
GivenOK ==
  /\ phase = "fetching" /\ task[attempt][Sectors] = "page" => given = attempt
  /\ phase = "fetching" /\ task[attempt][Sectors] = "spared" /\ had # NoNames
       => given # NoNames

\* A provider does not forget the names it has read
HadOK == had # NoNames => names # NoNames

FetchInv == TypeOK /\ Backoff /\ SectorsEnd /\ GivenOK /\ HadOK /\ LabelsAreOwn /\ NamesKept

\* Attempts are numbered from 1, so none is NoNames
LEMMA AttemptNumbers ==
  /\ 1 \in Attempts /\ NoNames \notin Attempts
  /\ \A a \in Attempts : a \in Nat /\ a <= MaxAttempts
  /\ \A a \in Attempts : a < MaxAttempts => a + 1 \in Attempts
BY FetchAssumption DEF Attempts, NoNames

\* A task that ends leaves the tasks well typed and every other as it was
LEMMA EndsOne ==
  ASSUME task \in [Attempts -> [Pages -> Status]],
         NEW a \in Attempts, NEW p \in Pages, NEW status \in Status, Ends(a, p, status)
  PROVE  /\ task' \in [Attempts -> [Pages -> Status]]
         /\ task'[a][p] = IF Awaited(a) THEN status ELSE "ended"
         /\ \A b \in Attempts, q \in Pages : <<b, q>> # <<a, p>> => task'[b][q] = task[b][q]
BY DEF Ends, Status, Bodies, Errors, Soft

\* An attempt that starts puts all its pages in flight
LEMMA LaunchesAll ==
  ASSUME task \in [Attempts -> [Pages -> Status]],
         NEW a \in Attempts, task' = Launched(a)
  PROVE  /\ task' \in [Attempts -> [Pages -> Status]]
         /\ \A p \in Pages : task'[a][p] = "inFlight"
         /\ \A b \in Attempts, q \in Pages : b # a => task'[b][q] = task[b][q]
BY DEF Launched, Status

LEMMA InitInv == Init => FetchInv
<1> SUFFICES ASSUME Init PROVE FetchInv
  OBVIOUS
<1>1. TypeOK
  <2>1. task \in [Attempts -> [Pages -> Status]]
    BY DEF Init, Idle, Status
  <2>2. attempt \in Attempts /\ tick \in 0..MaxTicks
    BY AttemptNumbers, FetchAssumption DEF Init
  <2> QED
    BY <2>1, <2>2 DEF Init, TypeOK
<1>2. SectorsEnd
  BY DEF Init, SectorsEnd, Idle, Pages
<1> QED
  BY <1>1, <1>2 DEF Init, FetchInv, Backoff, GivenOK, HadOK, LabelsAreOwn, NamesKept, NoNames

\* A failed attempt is waited for no longer, and only a last one fails for good
LEMMA FailsLeaves ==
  ASSUME TypeOK, NEW error, Fails(error)
  PROVE  /\ phase' \in {"failed", "backoff"}
         /\ phase' = "backoff" => attempt < MaxAttempts
BY AttemptNumbers, FetchAssumption DEF Fails, TypeOK, Attempts

\* A step of a task of a page the overview needs
LEMMA PageKeeps ==
  ASSUME FetchInv, NEW a \in Attempts, NEW p \in Needed,
         PageArrives(a, p) \/ PageFails(a, p)
  PROVE  FetchInv'
<1>1. p \in Pages /\ Sectors \in Pages /\ p # Sectors
  BY FetchAssumption DEF Pages
<1>2. task[a][p] = "inFlight" /\ UNCHANGED <<tick, attempt, names, given, labels, had, ever>>
  BY DEF PageArrives, PageFails
<1>3. PICK status \in Status : Ends(a, p, status)
  BY DEF PageArrives, PageFails, Status, Bodies, Errors, Soft
<1>4. phase' = phase \/ (phase = "fetching" /\ phase' \in {"failed", "backoff"}
                           /\ (phase' = "backoff" => attempt < MaxAttempts))
  BY FailsLeaves DEF FetchInv, PageArrives, PageFails, Awaited
<1>5. /\ task' \in [Attempts -> [Pages -> Status]]
      /\ \A b \in Attempts : task'[b][Sectors] = task[b][Sectors]
  BY <1>1, <1>3, EndsOne DEF FetchInv, TypeOK
<1>6. attempt \in Attempts /\ attempt' = attempt
  BY <1>2 DEF FetchInv, TypeOK
<1>7. TypeOK'
  BY <1>2, <1>4, <1>5 DEF FetchInv, TypeOK
<1>8. SectorsEnd'
  BY <1>5 DEF FetchInv, SectorsEnd
<1> QED
  BY <1>2, <1>4, <1>5, <1>6, <1>7, <1>8
  DEF FetchInv, Backoff, GivenOK, HadOK, LabelsAreOwn, NamesKept

\* A step of a task that fetches the sector names
LEMMA NamesKeep ==
  ASSUME FetchInv, NEW a \in Attempts,
         NamesArrive(a) \/ NamesSpared(a) \/ NamesUndecodable(a)
  PROVE  FetchInv'
<1>1. Sectors \in Pages /\ attempt \in Attempts /\ attempt' = attempt
  BY DEF Pages, FetchInv, TypeOK, NamesArrive, NamesSpared, NamesUndecodable
<1>2. UNCHANGED <<tick, labels, had, ever>> /\ names' \in {names, a}
  BY DEF NamesArrive, NamesSpared, NamesUndecodable
<1>3. a \in Attempts /\ a # NoNames /\ attempt # NoNames
  BY <1>1, AttemptNumbers
<1>4. task \in [Attempts -> [Pages -> Status]]
  BY DEF FetchInv, TypeOK
<1>5. CASE NamesArrive(a)
  <2>1. Ends(a, Sectors, "page") /\ UNCHANGED phase /\ names' = a
        /\ given' = IF Awaited(a) THEN a ELSE given
    BY <1>5 DEF NamesArrive
  <2>2. /\ task' \in [Attempts -> [Pages -> Status]]
        /\ task'[a][Sectors] = IF Awaited(a) THEN "page" ELSE "ended"
        /\ \A b \in Attempts : b # a => task'[b][Sectors] = task[b][Sectors]
    BY <1>1, <1>4, <2>1, EndsOne DEF Status, Bodies
  <2>3. TypeOK'
    BY <1>1, <1>2, <2>1, <2>2 DEF FetchInv, TypeOK
  <2>4. SectorsEnd' /\ GivenOK'
    BY <1>1, <1>2, <1>3, <2>1, <2>2 DEF FetchInv, SectorsEnd, GivenOK, Awaited
  <2> QED
    BY <1>1, <1>2, <1>3, <2>1, <2>2, <2>3, <2>4
    DEF FetchInv, Backoff, HadOK, LabelsAreOwn, NamesKept, Awaited
<1>6. CASE NamesSpared(a)
  <2>1. Ends(a, Sectors, "spared") /\ UNCHANGED <<phase, names>>
        /\ given' = IF Awaited(a) THEN names ELSE given
    BY <1>6 DEF NamesSpared
  <2>2. /\ task' \in [Attempts -> [Pages -> Status]]
        /\ task'[a][Sectors] = IF Awaited(a) THEN "spared" ELSE "ended"
        /\ \A b \in Attempts : b # a => task'[b][Sectors] = task[b][Sectors]
    BY <1>1, <1>4, <2>1, EndsOne DEF Status
  <2>3. TypeOK'
    BY <1>1, <1>2, <2>1, <2>2 DEF FetchInv, TypeOK
  <2>4. SectorsEnd' /\ GivenOK'
    BY <1>1, <1>2, <2>1, <2>2 DEF FetchInv, SectorsEnd, GivenOK, HadOK, Awaited
  <2> QED
    BY <1>1, <1>2, <2>1, <2>2, <2>3, <2>4
    DEF FetchInv, Backoff, HadOK, LabelsAreOwn, NamesKept, Awaited
<1>7. CASE NamesUndecodable(a)
  <2>1. Ends(a, Sectors, "undecodable") /\ UNCHANGED <<names, given>>
    BY <1>7 DEF NamesUndecodable
  <2>2. /\ task' \in [Attempts -> [Pages -> Status]]
        /\ task'[a][Sectors] \in {"undecodable", "ended"}
        /\ \A b \in Attempts : b # a => task'[b][Sectors] = task[b][Sectors]
    BY <1>1, <1>4, <2>1, EndsOne DEF Status, Errors
  <2>3. phase' = phase \/ (phase' \in {"failed", "backoff"}
                             /\ (phase' = "backoff" => attempt < MaxAttempts))
    BY <1>7, FailsLeaves DEF FetchInv, NamesUndecodable
  <2>4. TypeOK'
    BY <1>1, <1>2, <2>1, <2>2, <2>3 DEF FetchInv, TypeOK
  <2>5. SectorsEnd' /\ GivenOK'
    BY <1>1, <1>2, <2>1, <2>2, <2>3 DEF FetchInv, SectorsEnd, GivenOK
  <2> QED
    BY <1>1, <1>2, <2>1, <2>2, <2>3, <2>4, <2>5
    DEF FetchInv, Backoff, HadOK, LabelsAreOwn, NamesKept
<1> QED
  BY <1>5, <1>6, <1>7

\* A step of the tick, of the retries, or of the overview put together
LEMMA ControlKeeps ==
  ASSUME FetchInv, StartTick \/ EndTick \/ Retry \/ Assemble
  PROVE  FetchInv'
<1>1. Sectors \in Pages /\ attempt \in Attempts /\ attempt # NoNames
  BY AttemptNumbers DEF Pages, FetchInv, TypeOK
<1>2. task \in [Attempts -> [Pages -> Status]]
  BY DEF FetchInv, TypeOK
<1>3. CASE StartTick
  <2>1. /\ task' \in [Attempts -> [Pages -> Status]]
        /\ \A p \in Pages : task'[1][p] = "inFlight"
        /\ \A b \in Attempts, q \in Pages : b # 1 => task'[b][q] = task[b][q]
    BY <1>2, <1>3, AttemptNumbers, LaunchesAll DEF StartTick
  <2>2. TypeOK'
    BY <1>3, <2>1, FetchAssumption DEF FetchInv, TypeOK, StartTick
  <2>3. phase' = "fetching" /\ UNCHANGED <<attempt, names, given, had, labels>>
    BY <1>3 DEF StartTick
  <2>4. SectorsEnd' /\ attempt = 1
    BY <1>1, <1>3, <2>1 DEF FetchInv, SectorsEnd, Backoff, StartTick
  <2> QED
    BY <1>1, <2>1, <2>2, <2>3, <2>4
    DEF FetchInv, Backoff, GivenOK, HadOK, LabelsAreOwn, NamesKept
<1>4. CASE EndTick
  <2>1. task' \in [Attempts -> [Pages -> Status]] /\ SectorsEnd'
    BY <1>1, <1>4 DEF EndTick, Idle, Status, SectorsEnd
  <2>2. TypeOK'
    BY <1>4, <2>1, AttemptNumbers DEF FetchInv, TypeOK, EndTick
  <2> QED
    BY <1>4, <2>1, <2>2
    DEF FetchInv, EndTick, Backoff, GivenOK, HadOK, LabelsAreOwn, NamesKept
<1>5. CASE Retry
  <2>1. attempt + 1 \in Attempts
    BY <1>1, <1>5, AttemptNumbers DEF FetchInv, Backoff, Retry
  <2>2. /\ task' \in [Attempts -> [Pages -> Status]]
        /\ \A p \in Pages : task'[attempt + 1][p] = "inFlight"
        /\ \A b \in Attempts, q \in Pages : b # attempt + 1 => task'[b][q] = task[b][q]
    BY <1>2, <1>5, <2>1, LaunchesAll DEF Retry
  <2>3. TypeOK'
    BY <1>5, <2>1, <2>2 DEF FetchInv, TypeOK, Retry
  <2>4. SectorsEnd'
    BY <1>1, <2>2 DEF FetchInv, SectorsEnd
  <2> QED
    BY <1>1, <1>5, <2>1, <2>2, <2>3, <2>4
    DEF FetchInv, Retry, Backoff, GivenOK, HadOK, LabelsAreOwn, NamesKept
<1>6. CASE Assemble
  <2>1. UNCHANGED <<tick, attempt, task, names, given, had, ever>>
    BY <1>6 DEF Assemble
  <2>2. task[attempt][Sectors] \in {"page", "spared"} /\ phase = "fetching"
    BY <1>1, <1>6 DEF FetchInv, SectorsEnd, Assemble, Gathered, Bodies
  <2>3. CASE phase' = "done" /\ labels' = given
    <3>1. TypeOK'
      BY <2>1, <2>3 DEF FetchInv, TypeOK
    <3> QED
      BY <1>1, <2>1, <2>2, <2>3, <3>1
      DEF FetchInv, Backoff, SectorsEnd, GivenOK, HadOK, LabelsAreOwn, NamesKept
  <2>4. CASE Fails("parse") /\ UNCHANGED labels
    <3>1. phase' \in {"failed", "backoff"} /\ (phase' = "backoff" => attempt < MaxAttempts)
      BY <2>4, FailsLeaves DEF FetchInv
    <3>2. TypeOK'
      BY <2>1, <2>4, <3>1 DEF FetchInv, TypeOK
    <3> QED
      BY <2>1, <2>4, <3>1, <3>2
      DEF FetchInv, Backoff, SectorsEnd, GivenOK, HadOK, LabelsAreOwn, NamesKept
  <2> QED
    BY <1>6, <2>3, <2>4 DEF Assemble
<1> QED
  BY <1>3, <1>4, <1>5, <1>6

\* The invariant holds of every reachable state
LEMMA Invariance == Spec => []FetchInv
<1>1. FetchInv /\ [Next]_vars => FetchInv'
  <2> SUFFICES ASSUME FetchInv, [Next]_vars PROVE FetchInv'
    OBVIOUS
  <2>1. CASE StartTick \/ EndTick \/ Retry \/ Assemble
    BY <2>1, ControlKeeps
  <2>2. ASSUME NEW a \in Attempts, TaskStep(a) PROVE FetchInv'
    BY <2>2, PageKeeps, NamesKeep DEF TaskStep
  <2>3. CASE UNCHANGED vars
    BY <2>3 DEF vars, FetchInv, TypeOK, Backoff, SectorsEnd, GivenOK, HadOK,
                LabelsAreOwn, NamesKept
  <2> QED
    BY <2>1, <2>2, <2>3 DEF Next
<1> QED
  BY <1>1, InitInv, PTL DEF Spec

\* Type correctness: no attempt beyond the last, and tasks, names and labels
\* of attempts only (psx_dps_provider.py:291-376, quote_service.py:31-49)
THEOREM FetchTypeCorrect == Spec => []TypeOK
BY Invariance, PTL DEF FetchInv

\* An overview never has the names of another attempt when its own sector page
\* arrived, however many orphans store theirs (psx_dps_provider.py:298-302)
THEOREM OverviewHasOwnNames == Spec => []LabelsAreOwn
BY Invariance, PTL DEF FetchInv

\* Names read in a tick are used by every later overview of the tick that has
\* no sector page of its own (psx_dps_provider.py:299-302)
THEOREM NamesAreKept == Spec => []NamesKept
BY Invariance, PTL DEF FetchInv

-----------------------------------------------------------------------------
\* The requests in flight.

\* Attempts to come have none, and each attempt that failed has lost one: the
\* page it failed by
InFlightOK ==
  /\ \A a \in Attempts : a > attempt => \A p \in Pages : task[a][p] # "inFlight"
  /\ \A a \in Attempts : a < attempt \/ (a = attempt /\ phase = "backoff") =>
       \E p \in Pages : task[a][p] # "inFlight"

\* Of n attempts at c pages each, all but the last without one of them, no more
\* than n * (c - 1) + 1 requests are left
LEMMA OneMissing ==
  ASSUME NEW n \in Nat \ {0}, NEW P, IsFiniteSet(P), NEW F \in SUBSET ((1..n) \X P),
         \A a \in 1..(n - 1) : \E p \in P : <<a, p>> \notin F
  PROVE  Cardinality(F) <= n * (Cardinality(P) - 1) + 1
<1> DEFINE All == (1..n) \X P
           miss == [a \in 1..(n - 1) |-> CHOOSE p \in P : <<a, p>> \notin F]
           g == [a \in 1..(n - 1) |-> <<a, miss[a]>>]
           Gap == {g[a] : a \in 1..(n - 1)}
<1>1. /\ IsFiniteSet(All) /\ Cardinality(All) = n * Cardinality(P)
      /\ Cardinality(P) \in Nat
  <2>1. IsFiniteSet(1..n) /\ Cardinality(1..n) = n
    BY FS_Interval
  <2> QED
    BY <2>1, FS_Product, FS_CardinalityType
<1>2. \A a \in 1..(n - 1) : miss[a] \in P /\ <<a, miss[a]>> \notin F
  OBVIOUS
<1>3. Gap \subseteq All \ F
  <2>1. \A a \in 1..(n - 1) : a \in 1..n /\ g[a] = <<a, miss[a]>>
    OBVIOUS
  <2> HIDE DEF miss, g
  <2> QED
    BY <1>2, <2>1
<1>4. g \in Injection(1..(n - 1), Gap)
  BY DEF Injection, IsInjective
<1>5. IsFiniteSet(Gap) /\ n - 1 <= Cardinality(Gap) /\ Cardinality(Gap) \in Nat
  <2>1. IsFiniteSet(Gap)
    BY <1>1, <1>3, FS_Subset
  <2>2. Cardinality(1..(n - 1)) = n - 1
    BY FS_Interval
  <2> QED
    BY <1>4, <2>1, <2>2, FS_Injection, FS_CardinalityType
<1> HIDE DEF All, Gap
<1>6. IsFiniteSet(F) /\ Cardinality(F) \in Nat
  BY <1>1, FS_Subset, FS_CardinalityType DEF All
<1>7. F \cup Gap \in SUBSET All /\ F \cap Gap = {}
  BY <1>3 DEF All
<1>8. Cardinality(F \cup Gap) = Cardinality(F) + Cardinality(Gap)
  BY <1>5, <1>6, <1>7, FS_Union, FS_EmptySet
<1>9. Cardinality(F \cup Gap) <= Cardinality(All)
  BY <1>1, <1>7, FS_Subset
<1>10. Cardinality(F) + (n - 1) <= n * Cardinality(P)
  BY <1>1, <1>5, <1>6, <1>8, <1>9
<1>11. n * (Cardinality(P) - 1) = n * Cardinality(P) - n
  BY <1>1, Z3
<1>12. n * Cardinality(P) \in Int
  BY <1>1
<1> QED
  BY <1>1, <1>6, <1>10, <1>11, <1>12

\* A task that ends leaves the flight
LEMMA EndsLands ==
  ASSUME FetchInv, InFlightOK, NEW a \in Attempts, NEW p \in Pages,
         NEW status \in Status \ {"inFlight"}, Ends(a, p, status), UNCHANGED attempt,
         phase' # "backoff" \/ phase = "backoff" \/ a = attempt
  PROVE  InFlightOK'
<1>1. /\ task'[a][p] # "inFlight"
      /\ \A b \in Attempts, q \in Pages : <<b, q>> # <<a, p>> => task'[b][q] = task[b][q]
  BY EndsOne DEF FetchInv, TypeOK
<1>2. \A b \in Attempts, q \in Pages : task[b][q] # "inFlight" => task'[b][q] # "inFlight"
  BY <1>1
<1> QED
  BY <1>1, <1>2 DEF InFlightOK

LEMMA TaskLands ==
  ASSUME FetchInv, InFlightOK, NEW a \in Attempts, TaskStep(a) PROVE InFlightOK'
<1>1. /\ UNCHANGED attempt
      /\ phase' # "backoff" \/ phase = "backoff" \/ a = attempt
  BY DEF TaskStep, PageArrives, PageFails, NamesArrive, NamesSpared, NamesUndecodable, Awaited
<1>2. PICK p \in Pages, status \in Status \ {"inFlight"} : Ends(a, p, status)
  BY DEF TaskStep, PageArrives, PageFails, NamesArrive, NamesSpared, NamesUndecodable,
         Status, Bodies, Errors, Soft, Pages
<1> QED
  BY <1>1, <1>2, EndsLands

LEMMA ControlLands ==
  ASSUME FetchInv, InFlightOK, StartTick \/ EndTick \/ Retry \/ Assemble
  PROVE  InFlightOK'
<1>1. Sectors \in Pages /\ attempt \in Attempts /\ task \in [Attempts -> [Pages -> Status]]
  BY DEF Pages, FetchInv, TypeOK
<1>2. CASE StartTick
  <2>1. attempt = 1 /\ attempt' = 1 /\ phase' = "fetching"
    BY <1>2 DEF FetchInv, Backoff, StartTick
  <2>2. \A b \in Attempts, q \in Pages : b # 1 => task'[b][q] = task[b][q]
    BY <1>1, <1>2, AttemptNumbers, LaunchesAll DEF StartTick
  <2>3. \A b \in Attempts : b \in Nat /\ ~(b < 1)
    BY AttemptNumbers, FetchAssumption DEF Attempts
  <2> QED
    BY <2>1, <2>2, <2>3 DEF InFlightOK
<1>3. CASE EndTick
  <2>1. \A b \in Attempts, q \in Pages : task'[b][q] # "inFlight"
    BY <1>3 DEF EndTick, Idle
  <2> QED
    BY <1>1, <2>1 DEF InFlightOK
<1>4. CASE Retry
  <2>1. attempt + 1 \in Attempts /\ phase = "backoff" /\ attempt' = attempt + 1 /\ phase' = "fetching"
    BY <1>1, <1>4, AttemptNumbers DEF FetchInv, Backoff, Retry
  <2>2. \A b \in Attempts, q \in Pages : b # attempt + 1 => task'[b][q] = task[b][q]
    BY <1>1, <1>4, <2>1, LaunchesAll DEF Retry
  <2>3. attempt \in Nat /\ \A b \in Attempts : b \in Nat
    BY <1>1, AttemptNumbers
  <2>4. ASSUME NEW b \in Attempts, b > attempt' PROVE \A q \in Pages : task'[b][q] # "inFlight"
    BY <2>1, <2>2, <2>3, <2>4 DEF InFlightOK
  <2>5. ASSUME NEW b \in Attempts, b < attempt' PROVE \E q \in Pages : task'[b][q] # "inFlight"
    <3>1. b < attempt \/ b = attempt
      BY <2>1, <2>3, <2>5
    <3>2. b # attempt + 1
      BY <2>3, <3>1
    <3> QED
      BY <2>1, <2>2, <3>1, <3>2 DEF InFlightOK
  <2> QED
    BY <2>1, <2>4, <2>5 DEF InFlightOK
<1>5. CASE Assemble
  <2>1. UNCHANGED <<attempt, task>> /\ task[attempt][Sectors] # "inFlight"
    BY <1>1, <1>5 DEF Assemble, Gathered, Bodies
  <2> QED
    BY <1>1, <2>1 DEF InFlightOK
<1> QED
  BY <1>2, <1>3, <1>4, <1>5

LEMMA Flight == Spec => []InFlightOK
<1>1. Init => InFlightOK
  BY AttemptNumbers, FetchAssumption DEF Init, InFlightOK, Idle, Attempts
<1>2. FetchInv /\ InFlightOK /\ [Next]_vars => InFlightOK'
  BY TaskLands, ControlLands DEF Next, vars, InFlightOK
<1> QED
  BY <1>1, <1>2, Invariance, PTL DEF Spec

\* However many attempts fail, and whenever the orphans they leave end, the
\* requests in flight are fewer than all pages of all attempts by one for each
\* failed attempt (psx_dps_provider.py:339-344, quote_service.py:34-46)
THEOREM FlightIsBounded == Spec => []RequestsBounded
<1>1. FetchInv /\ InFlightOK => RequestsBounded
  <2> SUFFICES ASSUME FetchInv, InFlightOK PROVE RequestsBounded
    OBVIOUS
  <2>1. attempt \in Nat \ {0} /\ attempt \in Attempts
    BY FetchAssumption DEF FetchInv, TypeOK, Attempts
  <2>2. IsFiniteSet(Pages)
    BY FetchAssumption, FS_AddElement DEF Pages
  <2>3. \A a \in Attempts : a \in 1..attempt \/ a > attempt
    BY <2>1 DEF Attempts
  <2>4. InFlight \subseteq (1..attempt) \X Pages
    BY <2>3 DEF InFlight, InFlightOK
  <2>5. ASSUME NEW a \in 1..(attempt - 1) PROVE \E p \in Pages : <<a, p>> \notin InFlight
    <3>1. a \in Attempts /\ a < attempt
      BY <2>1, FetchAssumption DEF Attempts
    <3> QED
      BY <3>1 DEF InFlight, InFlightOK
  <2> QED
    BY <2>1, <2>2, <2>4, <2>5, OneMissing DEF RequestsBounded
<1> QED
  BY <1>1, Invariance, Flight, PTL

-----------------------------------------------------------------------------
\* Refinement of MarketFetch.

LEMMA InitMaps == Init => Fetch!FetchInit
BY DEF Init, Fetch!FetchInit, Fate

LEMMA FailsMaps ==
  ASSUME TypeOK, phase = "fetching", NEW error, Fails(error), UNCHANGED <<attempt, labels>>
  PROVE  [Fetch!FetchNext]_Fetch!fetchVars
<1>1. phase' = "failed" \/ phase' = "backoff"
  BY FailsLeaves
<1> QED
  BY <1>1 DEF Fate, Fetch!FetchNext, Fetch!GiveUp, Fetch!fetchVars

LEMMA NextMaps ==
  ASSUME FetchInv, [Next]_vars
  PROVE  [Fetch!FetchNext]_Fetch!fetchVars
<1>1. CASE StartTick
  BY <1>1 DEF Fate, StartTick, Fetch!FetchNext, Fetch!Begin
<1>2. CASE EndTick
  BY <1>2 DEF Fate, EndTick, Fetch!FetchNext, Fetch!Leave
<1>3. CASE Retry
  BY <1>3 DEF Fate, FetchInv, Backoff, Retry, Fetch!FetchNext, Fetch!TryAgain
<1>4. CASE Assemble
  <2>1. phase = "fetching" /\ UNCHANGED attempt
    BY <1>4 DEF Assemble, Gathered
  <2>2. CASE Fails("parse") /\ UNCHANGED labels
    BY <2>1, <2>2, FailsMaps DEF FetchInv
  <2>3. CASE phase' = "done" /\ labels' = given
    BY <2>1, <2>3 DEF Fate, Fetch!FetchNext, Fetch!Deliver
  <2> QED
    BY <1>4, <2>2, <2>3 DEF Assemble
<1>5. ASSUME NEW a \in Attempts, TaskStep(a) PROVE [Fetch!FetchNext]_Fetch!fetchVars
  <2>1. UNCHANGED <<attempt, labels>>
    BY <1>5 DEF TaskStep, PageArrives, PageFails, NamesArrive, NamesSpared, NamesUndecodable
  <2>2. UNCHANGED phase \/ (phase = "fetching" /\ \E error : Fails(error))
    BY <1>5 DEF TaskStep, PageArrives, PageFails, NamesArrive, NamesSpared,
                NamesUndecodable, Awaited
  <2>3. CASE UNCHANGED phase
    BY <2>1, <2>3 DEF Fate, Fetch!fetchVars
  <2> QED
    BY <2>1, <2>2, <2>3, FailsMaps DEF FetchInv
<1>6. CASE UNCHANGED vars
  BY <1>6 DEF Fate, vars, Fetch!fetchVars
<1> QED
  BY <1>1, <1>2, <1>3, <1>4, <1>5, <1>6 DEF Next

\* Every behaviour of the fetch, orphans and all, is one MarketFetch allows: an
\* attempt is followed by the next, a delivery or a failure, at most MaxAttempts
\* times (quote_service.py:31-56).  That it ends is checked by TLC.
THEOREM FetchRefines == Spec => Fetch!FetchInit /\ [][Fetch!FetchNext]_Fetch!fetchVars
BY Invariance, InitMaps, NextMaps, PTL DEF Spec
-----------------------------------------------------------------------------
\* The end of a fetch.

\* What is waited for has not ended: a page of the attempt is in flight, or all
\* of them are there
WaitsForSome ==
  phase = "fetching" => Gathered \/ \E p \in Pages : task[attempt][p] = "inFlight"

\* No page of an attempt that is waited for has failed, or is still to be asked
Waiting ==
  phase = "fetching" => \A p \in Pages : task[attempt][p] \in {"inFlight", "spared"} \cup Bodies

LEMMA WaitingKept == Spec => []Waiting
<1>1. Init => Waiting
  BY DEF Init, Waiting
<1>2. FetchInv /\ Waiting /\ [Next]_vars => Waiting'
  <2> SUFFICES ASSUME FetchInv, Waiting, [Next]_vars PROVE Waiting'
    OBVIOUS
  <2>1. attempt \in Attempts /\ task \in [Attempts -> [Pages -> Status]]
    BY DEF FetchInv, TypeOK
  <2>2. CASE StartTick
    <3>1. attempt = 1 /\ attempt' = 1 /\ task' = Launched(1)
      BY <2>2 DEF StartTick, FetchInv, Backoff
    <3> QED
      BY <2>1, <3>1, LaunchesAll, AttemptNumbers DEF Waiting
  <2>3. CASE Retry
    <3>1. attempt' = attempt + 1 /\ attempt' \in Attempts /\ task' = Launched(attempt')
      BY <2>1, <2>3, AttemptNumbers DEF Retry, FetchInv, Backoff
    <3> QED
      BY <2>1, <3>1, LaunchesAll DEF Waiting
  <2>4. CASE EndTick
    BY <2>4 DEF EndTick, Waiting
  <2>5. CASE Assemble
    BY <2>5, FailsLeaves DEF Assemble, FetchInv, Waiting
  <2>6. ASSUME NEW a \in Attempts, TaskStep(a) PROVE Waiting'
    <3> SUFFICES ASSUME phase' = "fetching" PROVE Waiting'
      BY DEF Waiting
    <3>1. /\ attempt' = attempt /\ phase = "fetching"
          /\ \E p \in Pages, status \in Bodies \cup {"spared"} \cup Errors :
               Ends(a, p, status) /\ (Awaited(a) => status \notin Errors)
      <4>1. ASSUME NEW p \in Needed, PageArrives(a, p)
            PROVE  UNCHANGED <<phase, attempt>> /\ \E body \in Bodies : Ends(a, p, body)
        BY <4>1 DEF PageArrives
      <4>2. ASSUME NEW p \in Needed, PageFails(a, p)
            PROVE  /\ UNCHANGED <<phase, attempt>> /\ ~Awaited(a)
                   /\ \E error \in Errors : Ends(a, p, error)
        BY <4>2, FailsLeaves DEF PageFails, FetchInv
      <4>3. ASSUME NamesArrive(a) \/ NamesSpared(a)
            PROVE  /\ UNCHANGED <<phase, attempt>>
                   /\ \E status \in Bodies \cup {"spared"} : Ends(a, Sectors, status)
        BY <4>3 DEF NamesArrive, NamesSpared, Bodies
      <4>4. ASSUME NamesUndecodable(a)
            PROVE  UNCHANGED <<phase, attempt>> /\ ~Awaited(a) /\ Ends(a, Sectors, "undecodable")
        BY <4>4, FailsLeaves DEF NamesUndecodable, FetchInv
      <4>5. Needed \subseteq Pages /\ Sectors \in Pages /\ "undecodable" \in Errors
            /\ \A status \in Bodies \cup {"spared"} : status \notin Errors
        BY DEF Pages, Errors, Bodies, Soft
      <4> QED
        BY <2>6, <4>1, <4>2, <4>3, <4>4, <4>5 DEF TaskStep
    <3>2. PICK p \in Pages, status \in Bodies \cup {"spared"} \cup Errors :
            Ends(a, p, status) /\ (Awaited(a) => status \notin Errors)
      BY <3>1
    <3>3. /\ task'[a][p] = IF Awaited(a) THEN status ELSE "ended"
          /\ \A b \in Attempts, q \in Pages : <<b, q>> # <<a, p>> => task'[b][q] = task[b][q]
      BY <2>1, <3>2, EndsOne DEF Status
    <3> QED
      BY <2>1, <3>1, <3>2, <3>3 DEF Waiting, Awaited
  <2>7. CASE UNCHANGED vars
    BY <2>7 DEF vars, Waiting
  <2> QED
    BY <2>2, <2>3, <2>4, <2>5, <2>6, <2>7 DEF Next
<1> QED
  BY <1>1, <1>2, Invariance, PTL DEF Spec

\* A fetch never waits for what cannot come any more: the awaited attempt has a
\* page in flight, or is ready to be put together
\* (psx_dps_provider.py:339-344).
THEOREM FetchWaitsForSome == Spec => []WaitsForSome
<1>1. Waiting => WaitsForSome
  BY DEF Waiting, WaitsForSome, Gathered
<1> QED
  BY <1>1, WaitingKept, PTL

\* How many steps a tick's fetch still takes at most, the orphans' included
AttemptSteps == Cardinality(Attempts \X Pages) + 2

FetchLeft ==
  (MaxAttempts - attempt) * AttemptSteps + Cardinality(InFlight)
    + (IF phase = "fetching" THEN 1 ELSE 0)

\* Every step of a tick's fetch brings its end nearer
FetchShrinks == phase # "idle" /\ phase' # "idle" => FetchLeft' < FetchLeft

FlightNumbers ==
  /\ AttemptSteps \in Nat
  /\ IsFiniteSet(InFlight) /\ Cardinality(InFlight) \in 0..(AttemptSteps - 2)

LEMMA FlightCounted == FlightNumbers
<1>1. IsFiniteSet(Attempts \X Pages)
  <2>1. IsFiniteSet(Pages) /\ IsFiniteSet(Attempts)
    BY FetchAssumption, FS_AddElement, FS_Interval DEF Pages, Attempts
  <2> QED
    BY <2>1, FS_Product
<1>2. InFlight \subseteq Attempts \X Pages
  BY DEF InFlight
<1>3. /\ IsFiniteSet(InFlight) /\ Cardinality(InFlight) \in Nat
      /\ Cardinality(InFlight) <= Cardinality(Attempts \X Pages)
      /\ Cardinality(Attempts \X Pages) \in Nat
  BY <1>1, <1>2, FS_Subset, FS_CardinalityType
<1> QED
  BY <1>3 DEF AttemptSteps, FlightNumbers

LEMMA FlightCountedNext == FlightNumbers'
BY FlightCounted, PTL

\* A task that ends takes itself out of the flight, and starts nothing
LEMMA TaskShrinks ==
  ASSUME FetchInv, NEW a \in Attempts, TaskStep(a)
  PROVE  FetchLeft' < FetchLeft
<1>1. /\ UNCHANGED attempt /\ (phase' = "fetching" => phase = "fetching")
      /\ attempt \in Attempts /\ task \in [Attempts -> [Pages -> Status]]
  BY FailsLeaves
  DEF TaskStep, PageArrives, PageFails, NamesArrive, NamesSpared, NamesUndecodable,
      FetchInv, TypeOK
<1>2. PICK p \in Pages, status \in Status \ {"inFlight"} :
        task[a][p] = "inFlight" /\ Ends(a, p, status)
  BY DEF TaskStep, PageArrives, PageFails, NamesArrive, NamesSpared, NamesUndecodable,
         Status, Bodies, Errors, Soft, Pages
<1>3. InFlight' = InFlight \ {<<a, p>>} /\ <<a, p>> \in InFlight
  <2>1. /\ task'[a][p] # "inFlight"
        /\ \A b \in Attempts, q \in Pages : <<b, q>> # <<a, p>> => task'[b][q] = task[b][q]
    BY <1>1, <1>2, EndsOne
  <2> QED
    BY <1>2, <2>1 DEF InFlight
<1>4. Cardinality(InFlight') = Cardinality(InFlight) - 1
  BY <1>3, FlightCounted, FS_RemoveElement DEF FlightNumbers
<1>5. Cardinality(InFlight) \in Nat /\ (MaxAttempts - attempt) * AttemptSteps \in Int
  BY <1>1, FlightCounted, FetchAssumption DEF Attempts, FlightNumbers
<1> QED
  BY <1>1, <1>4, <1>5 DEF FetchLeft, AttemptSteps

\* The fetch of a tick, with its retries and the orphans of failed attempts,
\* is over after at most AttemptSteps steps for each attempt: a retry uses up an
\* attempt, and no error, whenever it comes, starts anything else
\* (quote_service.py:31-49, psx_dps_provider.py:339-344).
THEOREM FetchEnds == Spec => [][FetchShrinks]_vars
<1>1. FetchInv /\ FetchInv' /\ [Next]_vars => [FetchShrinks]_vars
  <2> SUFFICES ASSUME FetchInv, FetchInv', Next, phase # "idle", phase' # "idle"
               PROVE  FetchLeft' < FetchLeft
    BY DEF FetchShrinks
  <2>1. attempt \in 1..MaxAttempts /\ attempt' \in 1..MaxAttempts /\ MaxAttempts \in Nat
    BY FetchAssumption DEF FetchInv, TypeOK, Attempts
  <2>2. /\ AttemptSteps \in Nat /\ Cardinality(InFlight) \in Nat
        /\ Cardinality(InFlight)' \in Nat /\ Cardinality(InFlight)' <= AttemptSteps - 2
    BY FlightCounted, FlightCountedNext DEF FlightNumbers, AttemptSteps
  <2>3. ASSUME NEW a \in Attempts, TaskStep(a) PROVE FetchLeft' < FetchLeft
    BY <2>3, TaskShrinks
  <2>4. CASE Retry
    <3>1. attempt' = attempt + 1 /\ phase = "backoff" /\ phase' = "fetching"
      BY <2>4 DEF Retry
    <3>2. (MaxAttempts - attempt) * AttemptSteps
            = (MaxAttempts - attempt') * AttemptSteps + AttemptSteps
      BY <2>1, <2>2, <3>1
    <3>3. (MaxAttempts - attempt') * AttemptSteps \in Int
      BY <2>1, <2>2
    <3>4. /\ FetchLeft  = (MaxAttempts - attempt) * AttemptSteps + Cardinality(InFlight)
          /\ FetchLeft' = (MaxAttempts - attempt') * AttemptSteps + Cardinality(InFlight)' + 1
      BY <2>1, <2>2, <3>1 DEF FetchLeft, AttemptSteps
    <3> QED
      BY <2>2, <3>2, <3>3, <3>4
  <2>5. CASE Assemble
    <3>1. /\ UNCHANGED <<attempt, task>> /\ phase = "fetching"
          /\ phase' \in {"failed", "backoff", "done"}
      BY <2>5, FailsLeaves DEF Assemble, Gathered, FetchInv
    <3>2. InFlight' = InFlight
      BY <3>1 DEF InFlight
    <3>3. (MaxAttempts - attempt) * AttemptSteps \in Int
      BY <2>1, <2>2
    <3> QED
      BY <2>2, <3>1, <3>2, <3>3 DEF FetchLeft, AttemptSteps
  <2> QED
    BY <2>3, <2>4, <2>5 DEF Next, StartTick, EndTick
<1> QED
  BY <1>1, Invariance, PTL DEF Spec
=============================================================================
