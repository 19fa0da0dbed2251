--------------------------- MODULE ApiReadsProofs ---------------------------
(***************************************************************************)
(* Theorems about the answers of the read routes, for every set of symbols,*)
(* retention and threshold, and for every way the feed goes on between the *)
(* statements of a request.                                                *)
(***************************************************************************)
EXTENDS ApiReads, TLAPS

-----------------------------------------------------------------------------
\* The feed.

FeedOK ==
  /\ now \in Times /\ asOf \in Times /\ asOf <= now
  /\ known \subseteq Symbols /\ listed \subseteq Symbols
  /\ listedAt \in Times \cup {Never} /\ listedAt <= asOf
  /\ latest \in [Symbols -> Times \cup {Never}]
  /\ \A s \in Symbols :
       /\ latest[s] <= asOf
       /\ latest[s] # Never => s \in known
       /\ latest[s] > listedAt => s \in listed

\* What the feed never takes back
FeedGrows ==
  /\ known \subseteq known'
  /\ now <= now' /\ asOf <= asOf'
  /\ \A s \in Symbols, t \in Times \cup {Never} :
       /\ t <= asOf /\ (t > listedAt => s \in listed) => (t > listedAt' => s \in listed')
       /\ t <= latest[s] \/ now - t > Retention => t <= latest'[s] \/ now' - t > Retention

LEMMA FeedKeeps == FeedOK /\ FeedNext => FeedOK' /\ FeedGrows
<1> SUFFICES ASSUME FeedOK, FeedNext PROVE FeedOK' /\ FeedGrows
  OBVIOUS
<1> USE ReadAssumption DEF FeedOK, FeedGrows, Times, Never
<1>1. asOf' \in {asOf, now'}
  BY DEF FeedNext
<1>2. CASE TimePasses \/ UNCHANGED <<now, tableVars>>
  BY <1>1, <1>2 DEF TimePasses, tableVars
<1>3. CASE Expire
  <2>1. \A s \in Symbols :
          latest'[s] = IF asOf - latest[s] > Retention THEN Never ELSE latest[s]
    BY <1>3 DEF Expire
  <2>2. latest' \in [Symbols -> Times \cup {Never}]
    BY <1>3, <2>1 DEF Expire
  <2> QED
    BY <1>1, <1>3, <2>1, <2>2 DEF Expire
<1>4. ASSUME NEW s \in Symbols, Learn(s) PROVE FeedOK' /\ FeedGrows
  BY <1>1, <1>4 DEF Learn
<1>5. ASSUME NEW s \in Symbols, Publish(s) PROVE FeedOK' /\ FeedGrows
  <2>1. \A r \in Symbols : latest'[r] = IF r = s THEN asOf ELSE latest[r]
    BY <1>5 DEF Publish
  <2>2. latest' \in [Symbols -> Times \cup {Never}]
    BY <1>5 DEF Publish
  <2> QED
    BY <1>1, <1>5, <2>1, <2>2 DEF Publish
<1>6. ASSUME NEW page \in SUBSET Symbols, List(page) PROVE FeedOK' /\ FeedGrows
  BY <1>1, <1>6 DEF List
<1> QED
  BY <1>2, <1>3, <1>4, <1>5, <1>6 DEF FeedNext

-----------------------------------------------------------------------------
\* The request.

\* What is left of the statements of a route
LeftOf(r) ==
  [quote       |-> {<<>>, <<"quotes">>},
   description |-> {<<>>, <<"symbols">>, <<"quotes", "symbols">>},
   loss        |-> {<<>>, <<"snapshot">>, <<"quotes", "snapshot">>},
   sectorgraph |-> {<<>>, <<"snapshot">>, <<"quotes", "snapshot">>,
                    <<"symbols", "quotes", "snapshot">>},
   sectors     |-> {<<>>, <<"snapshot">>, <<"symbols", "snapshot">>},
   market      |-> {<<>>, <<"snapshot">>}][r]

\* The same, route by route, and what is left when one more is executed
LEMMA Lefts ==
  /\ LeftOf("quote") = {<<>>, <<"quotes">>}
  /\ LeftOf("description") = {<<>>, <<"symbols">>, <<"quotes", "symbols">>}
  /\ LeftOf("loss") = {<<>>, <<"snapshot">>, <<"quotes", "snapshot">>}
  /\ LeftOf("sectorgraph") = {<<>>, <<"snapshot">>, <<"quotes", "snapshot">>,
                              <<"symbols", "quotes", "snapshot">>}
  /\ LeftOf("sectors") = {<<>>, <<"snapshot">>, <<"symbols", "snapshot">>}
  /\ LeftOf("market") = {<<>>, <<"snapshot">>}
BY DEF LeftOf

LEMMA Tuples ==
  /\ \A x \in {"symbols", "quotes", "snapshot"} : Tail(<<x>>) = <<>>
  /\ Tail(<<"quotes", "symbols">>) = <<"symbols">>
  /\ Tail(<<"quotes", "snapshot">>) = <<"snapshot">>
  /\ Tail(<<"symbols", "snapshot">>) = <<"snapshot">>
  /\ Tail(<<"symbols", "quotes", "snapshot">>) = <<"quotes", "snapshot">>
OBVIOUS

RequestOK ==
  /\ route \in OfCompany \cup OfMarket \cup {NoRoute}
  /\ company \in Symbols \cup {NoRoute} /\ (route \in OfCompany => company \in Symbols)
  /\ IF route = NoRoute THEN todo = <<>> /\ quotes = NoQuotes ELSE todo \in LeftOf(route)
  /\ names \subseteq Symbols /\ stored \in BOOLEAN
  /\ quotes \in [Symbols -> Times \cup {Never}] /\ seen \in [Symbols -> Times \cup {Never}]
  /\ shot \in [at : Times \cup {Never}, tickers : SUBSET Symbols]
  /\ \A s \in Symbols : quotes[s] <= asOf

\* Aggregates: what was read of the quotes is covered by the page listed now,
\* or, once that has been read, by the snapshot of the answer
CountInv ==
  route \in {"loss", "sectorgraph"} =>
    \A s \in Symbols :
      IF todo = <<>> THEN quotes[s] > shot.at => s \in shot.tickers
      ELSE quotes[s] > listedAt => s \in listed

\* Descriptions: a company with a quote, or stored when the request came in, is
\* known, and found when the symbols are read
DescInv ==
  route = "description" /\ (stored \/ quotes[company] # Never) =>
    /\ company \in known
    /\ todo = <<>> => company \in names

\* Quotes that were read are no newer than the latest, or outlived the retention
SeenInv ==
  /\ \A s \in Symbols : seen[s] <= latest[s] \/ now - seen[s] > Retention
  /\ \A s \in Symbols : quotes[s] <= latest[s] \/ now - quotes[s] > Retention
  /\ route \in {"quote", "loss"} /\ todo \in {<<>>, <<"snapshot">>} =>
       \A s \in Asked : quotes[s] >= seen[s] \/ now - seen[s] > Retention

ReadInv == FeedOK /\ RequestOK /\ CountInv /\ DescInv /\ SeenInv

LEMMA Routes == NoRoute \notin OfCompany \cup OfMarket
BY ReadAssumption

LEMMA InitReads == Init => ReadInv
<1> SUFFICES ASSUME Init PROVE ReadInv
  OBVIOUS
<1> USE ReadAssumption DEF Init, FeedInit, ReadInit, Times, Never, NoQuotes, NoShot
<1>1. FeedOK
  BY DEF FeedOK
<1>2. RequestOK
  <2>1. quotes \in [Symbols -> Times \cup {Never}] /\ seen \in [Symbols -> Times \cup {Never}]
    OBVIOUS
  <2>2. shot \in [at : Times \cup {Never}, tickers : SUBSET Symbols]
    OBVIOUS
  <2>3. Never <= asOf /\ \A s \in Symbols : quotes[s] = Never
    OBVIOUS
  <2> QED
    BY <2>1, <2>2, <2>3, Routes DEF RequestOK
<1> QED
  BY <1>1, <1>2, Routes DEF ReadInv, CountInv, DescInv, SeenInv, OfCompany, OfMarket

\* The feed goes on
LEMMA FeedStepKeeps == ReadInv /\ FeedNext /\ UNCHANGED readVars => ReadInv'
<1> SUFFICES ASSUME ReadInv, FeedNext, UNCHANGED readVars PROVE ReadInv'
  OBVIOUS
<1>1. FeedOK' /\ FeedGrows
  BY FeedKeeps DEF ReadInv
<1>2. /\ UNCHANGED <<route, company, todo, names, quotes, shot, stored, seen>>
      /\ quotes \in [Symbols -> Times \cup {Never}] /\ seen \in [Symbols -> Times \cup {Never}]
  BY DEF readVars, ReadInv, RequestOK
<1>3. /\ now <= now' /\ now \in Int /\ now' \in Int /\ Retention \in Int
      /\ asOf <= asOf' /\ asOf \in Int /\ asOf' \in Int
      /\ \A t \in Times \cup {Never} : t \in Int
  BY <1>1, ReadAssumption DEF FeedGrows, FeedOK, ReadInv, Times, Never
<1>4. RequestOK'
  BY <1>2, <1>3 DEF ReadInv, RequestOK
<1>5. CountInv'
  BY <1>1, <1>2 DEF ReadInv, RequestOK, CountInv, FeedGrows
<1>6. DescInv'
  BY <1>1, <1>2 DEF ReadInv, DescInv, FeedGrows
<1>7. SeenInv'
  <2>1. Asked' = Asked /\ Asked \subseteq Symbols
    BY <1>2 DEF Asked, ReadInv, RequestOK
  <2>2. \A s \in Symbols : seen[s] \in Times \cup {Never} /\ quotes[s] \in Times \cup {Never}
    BY <1>2
  <2>3. \A t \in Times \cup {Never} : now - t > Retention => now' - t > Retention
    BY <1>3
  <2> QED
    BY <1>1, <1>2, <2>1, <2>2, <2>3 DEF ReadInv, SeenInv, FeedGrows
<1> QED
  BY <1>1, <1>4, <1>5, <1>6, <1>7 DEF ReadInv

LEMMA RequestKeeps ==
  ASSUME ReadInv, NEW r \in OfCompany \cup OfMarket, NEW c,
         r \in OfCompany => c \in Symbols, c \in Symbols \cup {NoRoute}, Request(r, c)
  PROVE  ReadInv'
<1> USE DEF Request
<1>1. UNCHANGED <<now, asOf, known, listed, listedAt, latest, names, quotes, shot, seen>>
      /\ route = NoRoute /\ route' = r /\ company' = c
  BY DEF feedVars, tableVars
<1>2. quotes = NoQuotes
  BY <1>1 DEF ReadInv, RequestOK
<1>3. todo' \in LeftOf(r) /\ todo' # <<>>
  BY DEF Statements, LeftOf, OfCompany, OfMarket
<1>4. todo' \in {<<>>, <<"snapshot">>} => r \notin {"quote", "loss"}
  BY DEF Statements
<1>5. FeedOK'
  BY <1>1 DEF ReadInv, FeedOK
<1>6. RequestOK'
  BY <1>1, <1>3, Routes DEF ReadInv, RequestOK
<1>7. CountInv'
  BY <1>1, <1>2, <1>3, ReadAssumption DEF CountInv, NoQuotes, ReadInv, FeedOK, Times, Never
<1>8. DescInv'
  BY <1>1, <1>2, <1>3, Routes DEF DescInv, NoQuotes, ReadInv, FeedOK, OfCompany
<1>9. SeenInv'
  BY <1>1, <1>4 DEF SeenInv, ReadInv
<1> QED
  BY <1>5, <1>6, <1>7, <1>8, <1>9 DEF ReadInv

\* A statement is the first of those left, and the rest is left after it
LEMMA ExecuteLeaves ==
  ASSUME ReadInv, NEW statement, Execute(statement)
  PROVE  /\ route \in OfCompany \cup OfMarket
         /\ UNCHANGED <<now, asOf, known, listed, listedAt, latest, route, company, stored, seen>>
         /\ todo \in LeftOf(route) /\ todo # <<>> /\ statement = Head(todo)
         /\ todo' = Tail(todo) /\ todo' \in LeftOf(route)
<1>1. /\ UNCHANGED <<now, asOf, known, listed, listedAt, latest, route, company, stored, seen>>
      /\ todo # <<>> /\ statement = Head(todo) /\ todo' = Tail(todo)
  BY DEF Execute, feedVars, tableVars
<1>2. route \in OfCompany \cup OfMarket /\ todo \in LeftOf(route)
  BY <1>1 DEF ReadInv, RequestOK
<1>3. \A r \in OfCompany \cup OfMarket : \A left \in LeftOf(r) :
        left # <<>> => Tail(left) \in LeftOf(r)
  <2>1. \A left \in LeftOf("quote") : left # <<>> => Tail(left) \in LeftOf("quote")
    BY Lefts, Tuples
  <2>2. \A left \in LeftOf("description") :
          left # <<>> => Tail(left) \in LeftOf("description")
    BY Lefts, Tuples
  <2>3. \A left \in LeftOf("loss") : left # <<>> => Tail(left) \in LeftOf("loss")
    BY Lefts, Tuples
  <2>4. \A left \in LeftOf("sectorgraph") :
          left # <<>> => Tail(left) \in LeftOf("sectorgraph")
    BY Lefts, Tuples
  <2>5. \A left \in LeftOf("sectors") : left # <<>> => Tail(left) \in LeftOf("sectors")
    BY Lefts, Tuples
  <2>6. \A left \in LeftOf("market") : left # <<>> => Tail(left) \in LeftOf("market")
    BY Lefts, Tuples
  <2> QED
    BY <2>1, <2>2, <2>3, <2>4, <2>5, <2>6 DEF OfCompany, OfMarket
<1> QED
  BY <1>1, <1>2, <1>3

LEMMA ReadSymbolsKeeps == ReadInv /\ ReadSymbols => ReadInv'
<1> SUFFICES ASSUME ReadInv, ReadSymbols PROVE ReadInv'
  OBVIOUS
<1>1. Execute("symbols") /\ names' = known \cap Asked /\ UNCHANGED <<quotes, shot>>
  BY DEF ReadSymbols
<1>2. FeedOK'
  BY <1>1, ExecuteLeaves DEF ReadInv, FeedOK
<1>3. RequestOK'
  BY <1>1, ExecuteLeaves, Routes DEF ReadInv, RequestOK, FeedOK
<1>4. CountInv'
  BY <1>1, ExecuteLeaves DEF ReadInv, CountInv, LeftOf, OfCompany, OfMarket
<1>5. DescInv'
  BY <1>1, ExecuteLeaves DEF ReadInv, RequestOK, DescInv, Asked, OfCompany
<1>6. SeenInv'
  <2>1. route \in {"quote", "loss"} => FALSE
    BY <1>1, ExecuteLeaves DEF LeftOf
  <2> QED
    BY <1>1, <2>1, ExecuteLeaves DEF ReadInv, SeenInv
<1> QED
  BY <1>2, <1>3, <1>4, <1>5, <1>6 DEF ReadInv

LEMMA ReadQuotesKeeps == ReadInv /\ ReadQuotes => ReadInv'
<1> SUFFICES ASSUME ReadInv, ReadQuotes PROVE ReadInv'
  OBVIOUS
<1>1. Execute("quotes") /\ UNCHANGED <<names, shot>>
      /\ quotes' = [s \in Symbols |-> IF s \in Asked THEN latest[s] ELSE Never]
  BY DEF ReadQuotes
<1>2. FeedOK'
  BY <1>1, ExecuteLeaves DEF ReadInv, FeedOK
<1>3. \A s \in Symbols : /\ quotes'[s] = latest[s] \/ quotes'[s] = Never
                         /\ s \in Asked => quotes'[s] = latest[s]
  BY <1>1
<1>4. RequestOK'
  <2>1. quotes' \in [Symbols -> Times \cup {Never}]
    BY <1>1 DEF ReadInv, FeedOK
  <2>2. \A s \in Symbols : quotes'[s] <= asOf
    BY <1>3, ReadAssumption DEF ReadInv, FeedOK, Times, Never
  <2> QED
    BY <1>1, <2>1, <2>2, ExecuteLeaves, Routes DEF ReadInv, RequestOK
<1>5. CountInv'
  <2>1. route \in {"loss", "sectorgraph"} => todo' # <<>>
    BY <1>1, ExecuteLeaves DEF LeftOf
  <2> QED
    BY <1>1, <1>3, <2>1, ExecuteLeaves, ReadAssumption DEF ReadInv, FeedOK, CountInv, Times, Never
<1>6. DescInv'
  <2>1. route = "description" => todo' # <<>>
    BY <1>1, ExecuteLeaves DEF LeftOf
  <2> QED
    BY <1>1, <1>3, <2>1, ExecuteLeaves DEF ReadInv, RequestOK, FeedOK, DescInv, OfCompany
<1>7. SeenInv'
  <2>1. Asked' = Asked /\ Asked \subseteq Symbols
    BY <1>1, ExecuteLeaves DEF Asked, ReadInv, RequestOK
  <2>2. \A s \in Symbols : quotes'[s] <= latest[s]
    BY <1>3, ReadAssumption DEF ReadInv, FeedOK, Times, Never
  <2>3. \A s \in Asked : quotes'[s] >= seen[s] \/ now - seen[s] > Retention
    BY <1>3, <2>1, ReadAssumption DEF ReadInv, RequestOK, FeedOK, SeenInv, Times, Never
  <2> QED
    BY <1>1, <2>1, <2>2, <2>3, ExecuteLeaves DEF ReadInv, SeenInv
<1> QED
  BY <1>2, <1>4, <1>5, <1>6, <1>7 DEF ReadInv

LEMMA ReadSnapshotKeeps == ReadInv /\ ReadSnapshot => ReadInv'
<1> SUFFICES ASSUME ReadInv, ReadSnapshot PROVE ReadInv'
  OBVIOUS
<1>1. Execute("snapshot") /\ UNCHANGED <<names, quotes>>
      /\ shot' = [at |-> listedAt, tickers |-> listed]
  BY DEF ReadSnapshot
<1>2. FeedOK'
  BY <1>1, ExecuteLeaves DEF ReadInv, FeedOK
<1>3. RequestOK'
  BY <1>1, ExecuteLeaves, Routes DEF ReadInv, RequestOK, FeedOK
<1>4. CountInv'
  BY <1>1, ExecuteLeaves DEF ReadInv, CountInv
<1>5. DescInv'
  BY <1>1, ExecuteLeaves DEF ReadInv, DescInv, LeftOf
<1>6. SeenInv'
  <2>1. Asked' = Asked
    BY <1>1, ExecuteLeaves DEF Asked
  <2>2. route \in {"quote", "loss"} => todo = <<"snapshot">>
    BY <1>1, ExecuteLeaves DEF LeftOf
  <2> QED
    BY <1>1, <2>1, <2>2, ExecuteLeaves DEF ReadInv, SeenInv
<1> QED
  BY <1>2, <1>3, <1>4, <1>5, <1>6 DEF ReadInv

LEMMA EndRequestKeeps ==
  ASSUME ReadInv, EndRequest, seen' \in [Symbols -> Times \cup {Never}],
         \A s \in Symbols : seen'[s] = seen[s] \/ (seen'[s] = quotes[s] /\ todo = <<>>)
  PROVE  ReadInv'
<1>1. /\ UNCHANGED <<now, asOf, known, listed, listedAt, latest>>
      /\ route' = NoRoute /\ company' = NoRoute /\ todo' = <<>> /\ stored' = FALSE
      /\ names' = {} /\ quotes' = NoQuotes /\ shot' = NoShot
  BY DEF EndRequest, feedVars, tableVars
<1>2. FeedOK'
  BY <1>1 DEF ReadInv, FeedOK
<1>3. RequestOK'
  <2>1. quotes' \in [Symbols -> Times \cup {Never}] /\ \A s \in Symbols : quotes'[s] = Never
    BY <1>1 DEF NoQuotes
  <2>2. shot' \in [at : Times \cup {Never}, tickers : SUBSET Symbols]
    BY <1>1 DEF NoShot
  <2>3. Never <= asOf'
    BY <1>1, ReadAssumption DEF ReadInv, FeedOK, Times, Never
  <2> QED
    BY <1>1, <2>1, <2>2, <2>3, Routes DEF RequestOK
<1>4. CountInv' /\ DescInv'
  BY <1>1, Routes DEF CountInv, DescInv, OfCompany, OfMarket
<1>5. SeenInv'
  <2>1. \A s \in Symbols : NoQuotes[s] <= latest[s]
    <3> SUFFICES ASSUME NEW s \in Symbols PROVE NoQuotes[s] <= latest[s]
      OBVIOUS
    <3>1. NoQuotes[s] = Never
      BY DEF NoQuotes
    <3>2. latest[s] \in Times \cup {Never}
      BY DEF ReadInv, FeedOK
    <3> QED
      BY <3>1, <3>2, ReadAssumption DEF Times, Never
  <2> QED
    BY <1>1, <2>1, Routes DEF ReadInv, SeenInv, OfCompany, OfMarket
<1> QED
  BY <1>2, <1>3, <1>4, <1>5 DEF ReadInv

LEMMA RespondKeeps == ReadInv /\ Respond => ReadInv'
<1> SUFFICES ASSUME ReadInv, Respond PROVE ReadInv'
  OBVIOUS
<1>1. seen' \in [Symbols -> Times \cup {Never}]
      /\ \A s \in Symbols : seen'[s] = seen[s] \/ seen'[s] = quotes[s]
  BY DEF Respond, ReadInv, RequestOK
<1> QED
  BY <1>1, EndRequestKeeps DEF Respond, Answered

LEMMA AbortKeeps == ReadInv /\ Abort => ReadInv'
BY EndRequestKeeps DEF Abort, ReadInv, RequestOK

LEMMA ReadsAlways == Spec => []ReadInv
<1>1. ReadInv /\ [Next]_vars => ReadInv'
  <2> SUFFICES ASSUME ReadInv, [Next]_vars PROVE ReadInv'
    OBVIOUS
  <2>1. ASSUME NEW r \in OfCompany, NEW c \in Symbols, Request(r, c) PROVE ReadInv'
    BY <2>1, RequestKeeps
  <2>2. ASSUME NEW r \in OfMarket, Request(r, NoRoute) PROVE ReadInv'
    <3>1. r \notin OfCompany
      BY DEF OfCompany, OfMarket
    <3> QED
      BY <2>2, <3>1, RequestKeeps
  <2>3. CASE UNCHANGED vars
    BY <2>3 DEF vars, feedVars, tableVars, readVars, ReadInv, FeedOK, RequestOK, CountInv, DescInv,
                SeenInv, Asked
  <2> QED
    BY <2>1, <2>2, <2>3, FeedStepKeeps, ReadSymbolsKeeps, ReadQuotesKeeps,
       ReadSnapshotKeeps, RespondKeeps, AbortKeeps DEF Next, ReadNext
<1> QED
  BY <1>1, InitReads, PTL DEF Spec

-----------------------------------------------------------------------------
\* Theorems.

\* Type correctness, and of the delay metadata of each answer: it has a time
\* even when the tables were empty (compat.py:78-101, stocks.py:44-55)
THEOREM AnswersTypeCorrect == Spec => []TypeOK
<1>1. ReadInv => TypeOK
  <2> SUFFICES ASSUME ReadInv PROVE TypeOK
    OBVIOUS
  <2>1. todo \in Seq({"symbols", "quotes", "snapshot"}) /\ Len(todo) <= 3
    <3> DEFINE S == {"symbols", "quotes", "snapshot"}
    <3>1. todo = <<>> \/ \E r \in OfCompany \cup OfMarket : todo \in LeftOf(r)
      BY DEF ReadInv, RequestOK
    <3>2. todo \in {<<>>, <<"quotes">>, <<"symbols">>, <<"snapshot">>,
                    <<"quotes", "symbols">>, <<"quotes", "snapshot">>,
                    <<"symbols", "snapshot">>, <<"symbols", "quotes", "snapshot">>}
      BY <3>1, Lefts DEF OfCompany, OfMarket
    <3>3. /\ <<>> \in Seq(S)
          /\ \A x \in S : <<x>> \in Seq(S)
          /\ \A x, y \in S : <<x, y>> \in Seq(S)
          /\ \A x, y, z \in S : <<x, y, z>> \in Seq(S)
      OBVIOUS
    <3>4. /\ Len(<<>>) = 0 /\ \A x : Len(<<x>>) = 1
          /\ \A x, y : Len(<<x, y>>) = 2
          /\ \A x, y, z : Len(<<x, y, z>>) = 3
      OBVIOUS
    <3>5. todo \in Seq(S)
      BY <3>2, <3>3
    <3>6. Len(todo) \in {0, 1, 2, 3}
      BY <3>2, <3>4
    <3>7. \A n \in {0, 1, 2, 3} : n <= 3
      OBVIOUS
    <3>8. Len(todo) <= 3
      BY <3>6, <3>7, Zenon
    <3> QED
      BY <3>5, <3>8
  <2>2. Answered => DatedBy \in Times \cup {Never}
    BY DEF ReadInv, RequestOK, DatedBy
  <2>3. Answered => Delay \in [fetched_at : Times, is_stale : BOOLEAN]
    BY <2>2 DEF Delay, ReadInv, FeedOK
  <2> QED
    BY <2>1, <2>3 DEF ReadInv, RequestOK, TypeOK
<1> QED
  BY <1>1, ReadsAlways, PTL

\* An aggregate never counts a quote newer than the snapshot it is dated by of
\* a ticker that snapshot does not list (compat.py:208-250)
THEOREM CountedListed == Spec => []CountedAreListed
<1>1. ReadInv => CountedAreListed
  BY DEF ReadInv, CountInv, CountedAreListed, Counted, Answered
<1> QED
  BY <1>1, ReadsAlways, PTL

\* A description with a quote has the row of its symbol (compat.py:328-340)
THEOREM QuotedDescribed == Spec => []QuotedIsDescribed
<1>1. ReadInv => QuotedIsDescribed
  BY DEF ReadInv, DescInv, QuotedIsDescribed, Answered
<1> QED
  BY <1>1, ReadsAlways, PTL

\* A description is refused only of a company that was not stored when the
\* request came in (stocks.py:113-121)
THEOREM NotFoundUnknown == Spec => []NotFoundIsUnknown
<1>1. ReadInv => NotFoundIsUnknown
  BY DEF ReadInv, DescInv, NotFoundIsUnknown, NotFound, Answered
<1> QED
  BY <1>1, ReadsAlways, PTL

\* No reader is taken back in time by a later answer (repo.py:57-90)
THEOREM QuotesGoForward == Spec => []QuotesNeverGoBack
<1>1. ReadInv => QuotesNeverGoBack
  BY DEF ReadInv, SeenInv, QuotesNeverGoBack, Answered
<1> QED
  BY <1>1, ReadsAlways, PTL
=============================================================================
