----------------------------- MODULE RateLimit -----------------------------
(***************************************************************************)
(* The API's rate limiter (api/middleware.py): two sliding-window limiters,*)
(* one of a minute and one for bursts, each a table of at most KeptBuckets *)
(* buckets from which the least recently used is dropped.                  *)
(*                                                                         *)
(* dispatch() asks both limiters without awaiting in between, so a request *)
(* is one step.  Requests are numbered; a bucket is the set of the requests*)
(* charged to it, and the OrderedDict's order is the number of the request *)
(* that last used a bucket (0: there is no bucket).  Requests for an exempt*)
(* path touch nothing and are left out.                                    *)
(***************************************************************************)
EXTENDS Integers, FiniteSets

CONSTANTS
  Clients,         \* the headers and the peer a client's requests carry
  First24,         \* first 24 characters of a token or API key
  TrustedProxies,  \* settings.trusted_proxies
  PerMinute, MinuteWindow,   \* rate_limit_per_minute, 60 seconds
  Burst, BurstWindow,        \* rate_limit_burst, 10 seconds
  MaxBuckets,      \* rate_limit_max_buckets
  MaxRequests,     \* bound of the requests in a behaviour
  MaxTime          \* bound of the clock

None == "none"     \* a header that is absent or blank

\* Mistake: X-Forwarded-For is believed of any peer
ClientKeyAnyProxy(c) ==
  CASE c.bearer # None -> <<"bearer", First24[c.bearer]>>
    [] c.bearer = None /\ c.apikey # None -> <<"apikey", First24[c.apikey]>>
    [] OTHER -> <<"ip", IF c.xff # None THEN c.xff ELSE c.peer>>

\* _extract_client_key
ClientKey(c) ==
  CASE c.bearer # None -> <<"bearer", First24[c.bearer]>>
    [] c.bearer = None /\ c.apikey # None -> <<"apikey", First24[c.apikey]>>
    [] OTHER -> <<"ip", IF c.peer \in TrustedProxies /\ c.xff # None
                          THEN c.xff ELSE c.peer>>

Keys == {ClientKey(c) : c \in Clients}

ASSUME LimitAssumption ==
  /\ IsFiniteSet(Clients)
  /\ PerMinute \in Nat /\ MinuteWindow \in Nat
  /\ Burst \in Nat /\ BurstWindow \in Nat
  /\ MaxBuckets \in Int /\ MaxRequests \in Nat /\ MaxTime \in Nat

KeptBuckets == IF MaxBuckets > 1 THEN MaxBuckets ELSE 1

VARIABLES
  now,       \* time.monotonic()
  turn,      \* the number of the next request
  minute,    \* the two limiters
  burst,
  log        \* history: every request, with what became of it

vars == <<now, turn, minute, burst, log>>

Numbers == 1..MaxRequests
Times == 0..MaxTime
Hit == [n : Numbers, at : Times]
Limiter == [hits : [Keys -> SUBSET Hit], used : [Keys -> Nat]]
Verdicts == {"served", "minute", "burst"}

Init ==
  /\ now = 0 /\ turn = 1 /\ log = {}
  /\ minute = [hits |-> [k \in Keys |-> {}], used |-> [k \in Keys |-> 0]]
  /\ burst = minute

-----------------------------------------------------------------------------
\* _WindowLimiter.allow, by parts.

Buckets(lim) == {k \in Keys : lim.used[k] # 0}

\* The hits that have not expired: exactly window old is not expired yet
Live(lim, k, window) == {h \in lim.hits[k] : now - h.at <= window}

Room(lim, k, window, capacity) == Cardinality(Live(lim, k, window)) < capacity

\* The bucket, new or not, becomes the last used and holds the given hits
Use(lim, k, hits) ==
  [hits |-> [lim.hits EXCEPT ![k] = hits], used |-> [lim.used EXCEPT ![k] = turn]]

\* Mistake: the wrong end of the OrderedDict is popped
Hottest(lim) ==
  CHOOSE k \in Buckets(lim) : \A j \in Buckets(lim) : lim.used[k] >= lim.used[j]

Coldest(lim) ==
  CHOOSE k \in Buckets(lim) : \A j \in Buckets(lim) : lim.used[k] <= lim.used[j]

\* Mistake: a bucket is dropped one too late
EvictLate(lim) ==
  IF Cardinality(Buckets(lim)) <= KeptBuckets + 1 THEN lim
  ELSE [hits |-> [lim.hits EXCEPT ![Coldest(lim)] = {}],
        used |-> [lim.used EXCEPT ![Coldest(lim)] = 0]]

\* The loop that drops cold buckets runs after each request that is let in,
\* which adds one bucket at most, so it drops one at most
Evict(lim) ==
  IF Cardinality(Buckets(lim)) <= KeptBuckets THEN lim
  ELSE [hits |-> [lim.hits EXCEPT ![Coldest(lim)] = {}],
        used |-> [lim.used EXCEPT ![Coldest(lim)] = 0]]

\* Mistake: a hit is stamped with the time it expires
AdmitUntil(lim, k, window) ==
  Evict(Use(lim, k, Live(lim, k, window) \cup {[n |-> turn, at |-> now + window]}))

\* allow() returns True, and False: then nothing is dropped
Admit(lim, k, window) ==
  Evict(Use(lim, k, Live(lim, k, window) \cup {[n |-> turn, at |-> now]}))

Refuse(lim, k, window) == Use(lim, k, Live(lim, k, window))

-----------------------------------------------------------------------------
\* RateLimitMiddleware.dispatch.

Record(c, verdict) ==
  /\ turn <= MaxRequests /\ turn' = turn + 1
  /\ log' = log \cup {[client |-> c, key |-> ClientKey(c), n |-> turn,
                       at |-> now, verdict |-> verdict]}
  /\ UNCHANGED now

Serve(c) ==
  LET k == ClientKey(c) IN
  /\ Room(minute, k, MinuteWindow, PerMinute)
  /\ Room(burst, k, BurstWindow, Burst)
  /\ minute' = Admit(minute, k, MinuteWindow)
  /\ burst' = Admit(burst, k, BurstWindow)
  /\ Record(c, "served")

\* The burst limiter is not asked
RefuseByMinute(c) ==
  LET k == ClientKey(c) IN
  /\ ~Room(minute, k, MinuteWindow, PerMinute)
  /\ minute' = Refuse(minute, k, MinuteWindow)
  /\ UNCHANGED burst
  /\ Record(c, "minute")

\* The request has been charged to the minute all the same
RefuseByBurst(c) ==
  LET k == ClientKey(c) IN
  /\ Room(minute, k, MinuteWindow, PerMinute)
  /\ ~Room(burst, k, BurstWindow, Burst)
  /\ minute' = Admit(minute, k, MinuteWindow)
  /\ burst' = Refuse(burst, k, BurstWindow)
  /\ Record(c, "burst")

Advance == now < MaxTime /\ now' = now + 1 /\ UNCHANGED <<turn, minute, burst, log>>

Next ==
  \/ \E c \in Clients : Serve(c) \/ RefuseByMinute(c) \/ RefuseByBurst(c)
  \/ Advance

Spec == Init /\ [][Next]_vars

-----------------------------------------------------------------------------
\* Properties.

LogEntry == [client : Clients, key : Keys, n : Numbers, at : Times, verdict : Verdicts]

TypeOK ==
  /\ now \in Times /\ turn \in 1..(MaxRequests + 1)
  /\ minute \in Limiter /\ burst \in Limiter
  /\ log \subseteq LogEntry

\* "Bound total memory by evicting cold buckets" (middleware.py:67): as long as
\* the limits are positive neither table outgrows max_buckets, although the
\* path that refuses a request returns before the eviction.
BucketsBounded ==
  PerMinute > 0 /\ Burst > 0 =>
    /\ Cardinality(Buckets(minute)) <= KeptBuckets
    /\ Cardinality(Buckets(burst)) <= KeptBuckets

ToMinute == {r \in log : r.verdict # "minute"}   \* charged to the minute limiter
ToBurst  == {r \in log : r.verdict = "served"}   \* charged to the burst limiter

\* The requests of S with r's key in the window that ends with r
WindowOf(S, r, window) ==
  {q \in S : q.key = r.key /\ q.n <= r.n /\ r.at - q.at <= window}

\* The other keys whose requests, of those in S, came after q and before r
OthersBetween(S, q, r) ==
  {k \in Keys \ {r.key} : \E p \in S : p.key = k /\ q.n < p.n /\ p.n < r.n}

WithinLimit(charged, asked, window, capacity) ==
  \A r \in charged :
    \/ Cardinality(WindowOf(charged, r, window)) <= capacity
    \/ \E q \in WindowOf(charged, r, window) :
         Cardinality(OthersBetween(asked, q, r)) >= KeptBuckets

\* A key is let past a limit in no window, the minute's or the burst's, unless
\* max_buckets other keys were used within that window: only then may its
\* bucket have been dropped, and its requests forgotten (middleware.py:51-70).
LimitsKept ==
  /\ WithinLimit(ToMinute, log, MinuteWindow, PerMinute)
  /\ WithinLimit(ToBurst, ToMinute, BurstWindow, Burst)

\* The requests of the client of r, of those in S, in the window before r
OwnBefore(S, r, window) ==
  {q \in S : q.client = r.client /\ q.n < r.n /\ r.at - q.at <= window}

\* "Rate limiting identifies clients by bearer token, API key, or direct peer
\* IP" (docs/index.html:307): a client is refused only for requests of its own,
\* as many as the limit that refuses it allows (middleware.py:119-132).
RefusedForOwnLoad ==
  \A r \in log :
    /\ r.verdict = "minute" =>
         Cardinality(OwnBefore(ToMinute, r, MinuteWindow)) >= PerMinute
    /\ r.verdict = "burst" =>
         Cardinality(OwnBefore(ToBurst, r, BurstWindow)) >= Burst
=============================================================================
