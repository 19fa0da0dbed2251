-------------------------- MODULE RateLimitProofs --------------------------
(***************************************************************************)
(* Theorems about the rate limiter, for any set of clients, limits, windows*)
(* and number of buckets.                                                  *)
(***************************************************************************)
EXTENDS RateLimit, NatLemmas

-----------------------------------------------------------------------------
\* Finite sets.

LEMMA KeysFinite == IsFiniteSet(Keys)
<1> DEFINE f == [c \in Clients |-> ClientKey(c)]
<1>1. f \in Surjection(Clients, Keys)
  BY DEF Keys, Surjection
<1> QED
  BY <1>1, FS_Surjection, LimitAssumption

LEMMA BucketsFinite ==
  ASSUME NEW lim
  PROVE  IsFiniteSet(Buckets(lim)) /\ Cardinality(Buckets(lim)) \in Nat
<1>1. Buckets(lim) \subseteq Keys
  BY DEF Buckets
<1> QED
  BY <1>1, KeysFinite, FS_Subset, FS_CardinalityType

LEMMA KeptIsPositive == KeptBuckets \in Nat /\ KeptBuckets >= 1
BY LimitAssumption DEF KeptBuckets

\* One more element keeps a set that was below a bound within it
LEMMA AddOne ==
  ASSUME NEW S, NEW x, NEW c \in Int, IsFiniteSet(S), Cardinality(S) < c
  PROVE  IsFiniteSet(S \cup {x}) /\ Cardinality(S \cup {x}) <= c
<1>1. Cardinality(S) \in Nat
  BY FS_CardinalityType
<1>2. /\ IsFiniteSet(S \cup {x})
      /\ Cardinality(S \cup {x}) = IF x \in S THEN Cardinality(S) ELSE Cardinality(S) + 1
  BY FS_AddElement
<1> QED
  BY <1>1, <1>2

-----------------------------------------------------------------------------
\* One limiter.  t is a number no request so far has.

LimiterOK(lim, capacity, t) ==
  /\ lim \in Limiter
  /\ \A k \in Keys : lim.used[k] < t
  /\ \A k \in Keys : lim.used[k] = 0 => lim.hits[k] = {}
  /\ \A k \in Keys : IsFiniteSet(lim.hits[k]) /\ Cardinality(lim.hits[k]) <= capacity

Bounded(lim) == Cardinality(Buckets(lim)) <= KeptBuckets

LEMMA ColdestIsLeast ==
  ASSUME NEW lim \in Limiter, Buckets(lim) # {}
  PROVE  /\ Coldest(lim) \in Buckets(lim)
         /\ \A j \in Buckets(lim) : lim.used[Coldest(lim)] <= lim.used[j]
<1> DEFINE T == {lim.used[k] : k \in Buckets(lim)}
<1>1. T \subseteq Nat /\ T # {}
  BY DEF Limiter, Buckets
<1>2. PICK x \in T : \A y \in T : x <= y
  BY <1>1, LeastNat
<1>3. \E k \in Buckets(lim) : \A j \in Buckets(lim) : lim.used[k] <= lim.used[j]
  BY <1>2
<1> QED
  BY <1>3 DEF Coldest

\* What is live of a bucket is finite, and no more than the bucket
LEMMA LiveSubset ==
  ASSUME NEW lim, NEW capacity \in Nat, NEW t \in Nat, LimiterOK(lim, capacity, t),
         NEW k \in Keys, NEW window
  PROVE  /\ Live(lim, k, window) \subseteq lim.hits[k]
         /\ Live(lim, k, window) \subseteq Hit
         /\ IsFiniteSet(Live(lim, k, window))
         /\ Cardinality(Live(lim, k, window)) \in Nat
         /\ Cardinality(Live(lim, k, window)) <= capacity
<1>1. Live(lim, k, window) \subseteq lim.hits[k] /\ lim.hits[k] \subseteq Hit
  BY DEF Live, LimiterOK, Limiter
<1>2. IsFiniteSet(lim.hits[k]) /\ Cardinality(lim.hits[k]) <= capacity
  BY DEF LimiterOK
<1>3. /\ IsFiniteSet(Live(lim, k, window))
      /\ Cardinality(Live(lim, k, window)) <= Cardinality(lim.hits[k])
  BY <1>1, <1>2, FS_Subset
<1> QED
  BY <1>1, <1>2, <1>3, FS_CardinalityType

\* Using a bucket, with no more hits than the capacity
LEMMA UseOK ==
  ASSUME NEW lim, NEW capacity \in Nat, turn \in Nat \ {0}, LimiterOK(lim, capacity, turn),
         NEW k \in Keys, NEW hits \in SUBSET Hit,
         IsFiniteSet(hits), Cardinality(hits) <= capacity
  PROVE  /\ LimiterOK(Use(lim, k, hits), capacity, turn + 1)
         /\ Buckets(Use(lim, k, hits)) = Buckets(lim) \cup {k}
<1> DEFINE u == Use(lim, k, hits)
<1>1. /\ u \in Limiter
      /\ \A j \in Keys : /\ u.used[j] = IF j = k THEN turn ELSE lim.used[j]
                         /\ u.hits[j] = IF j = k THEN hits ELSE lim.hits[j]
  BY DEF Use, LimiterOK, Limiter
<1>2. \A j \in Keys : u.used[j] < turn + 1
  BY <1>1 DEF LimiterOK, Limiter
<1> HIDE DEF u
<1>3. LimiterOK(u, capacity, turn + 1)
  BY <1>1, <1>2 DEF LimiterOK
<1>4. Buckets(u) = Buckets(lim) \cup {k}
  BY <1>1 DEF Buckets
<1> QED
  BY <1>3, <1>4 DEF u

\* The values of a limiter once its coldest bucket is dropped
LEMMA EvictValues ==
  ASSUME NEW lim \in Limiter, ~Bounded(lim)
  PROVE  /\ Coldest(lim) \in Buckets(lim)
         /\ \A j \in Buckets(lim) : lim.used[Coldest(lim)] <= lim.used[j]
         /\ Evict(lim) \in Limiter
         /\ \A j \in Keys :
              /\ Evict(lim).used[j] = IF j = Coldest(lim) THEN 0 ELSE lim.used[j]
              /\ Evict(lim).hits[j] = IF j = Coldest(lim) THEN {} ELSE lim.hits[j]
<1>1. Buckets(lim) # {}
  BY FS_EmptySet, KeptIsPositive DEF Bounded
<1>2. /\ Coldest(lim) \in Buckets(lim)
      /\ \A j \in Buckets(lim) : lim.used[Coldest(lim)] <= lim.used[j]
  BY <1>1, ColdestIsLeast
<1> DEFINE c == Coldest(lim)
<1>3. Evict(lim) = [hits |-> [lim.hits EXCEPT ![c] = {}], used |-> [lim.used EXCEPT ![c] = 0]]
  BY DEF Evict, Bounded
<1> HIDE DEF c
<1>4. /\ Evict(lim) \in Limiter
      /\ \A j \in Keys : /\ Evict(lim).used[j] = IF j = c THEN 0 ELSE lim.used[j]
                         /\ Evict(lim).hits[j] = IF j = c THEN {} ELSE lim.hits[j]
  <2> DEFINE e == Evict(lim)
             h == [lim.hits EXCEPT ![c] = {}]
             u == [lim.used EXCEPT ![c] = 0]
  <2>1. h \in [Keys -> SUBSET Hit] /\ \A j \in Keys : h[j] = IF j = c THEN {} ELSE lim.hits[j]
    BY DEF Limiter
  <2>2. u \in [Keys -> Nat] /\ \A j \in Keys : u[j] = IF j = c THEN 0 ELSE lim.used[j]
    BY DEF Limiter
  <2>3. e = [hits |-> h, used |-> u]
    BY <1>3
  <2> HIDE DEF e, h, u
  <2>4. e \in Limiter /\ e.hits = h /\ e.used = u
    BY <2>1, <2>2, <2>3 DEF Limiter
  <2> QED
    BY <2>1, <2>2, <2>4 DEF e
<1> QED
  BY <1>2, <1>4 DEF c

LEMMA EvictOK ==
  ASSUME NEW lim, NEW capacity \in Nat, NEW t \in Nat \ {0}, LimiterOK(lim, capacity, t),
         Cardinality(Buckets(lim)) <= KeptBuckets + 1
  PROVE  LimiterOK(Evict(lim), capacity, t) /\ Bounded(Evict(lim))
<1>1. CASE Bounded(lim)
  BY <1>1 DEF Evict, Bounded
<1>2. CASE ~Bounded(lim)
  <2> DEFINE c == Coldest(lim)
             e == Evict(lim)
  <2>1. /\ c \in Buckets(lim) /\ e \in Limiter
        /\ \A j \in Keys : /\ e.used[j] = IF j = c THEN 0 ELSE lim.used[j]
                           /\ e.hits[j] = IF j = c THEN {} ELSE lim.hits[j]
    BY <1>2, EvictValues DEF LimiterOK
  <2> HIDE DEF c, e
  <2>2. LimiterOK(e, capacity, t)
    BY <2>1, FS_EmptySet DEF LimiterOK
  <2>3. Buckets(e) = Buckets(lim) \ {c}
    BY <2>1 DEF Buckets
  <2>4. Cardinality(Buckets(e)) = Cardinality(Buckets(lim)) - 1
    BY <2>1, <2>3, BucketsFinite, FS_RemoveElement
  <2> QED
    BY <2>2, <2>4, BucketsFinite, KeptIsPositive DEF Bounded, e
<1> QED
  BY <1>1, <1>2

LEMMA AdmitOK ==
  ASSUME NEW lim, NEW capacity \in Nat, turn \in Numbers, now \in Times,
         LimiterOK(lim, capacity, turn), Bounded(lim),
         NEW k \in Keys, NEW window, Room(lim, k, window, capacity)
  PROVE  LimiterOK(Admit(lim, k, window), capacity, turn + 1) /\ Bounded(Admit(lim, k, window))
<1> DEFINE new == [n |-> turn, at |-> now]
           hits == Live(lim, k, window) \cup {new}
           u == Use(lim, k, hits)
<1>1. turn \in Nat \ {0} /\ turn + 1 \in Nat \ {0}
  BY LimitAssumption DEF Numbers
<1>2. /\ Live(lim, k, window) \subseteq Hit /\ IsFiniteSet(Live(lim, k, window))
      /\ Cardinality(Live(lim, k, window)) \in Nat
  BY <1>1, LiveSubset
<1>3. hits \in SUBSET Hit
  BY <1>2 DEF Hit
<1>4. IsFiniteSet(hits) /\ Cardinality(hits) <= capacity
  <2> HIDE DEF new
  <2>1. Cardinality(Live(lim, k, window)) < capacity /\ capacity \in Int
    BY DEF Room
  <2> QED
    BY <2>1, <1>2, AddOne
<1> HIDE DEF hits
<1>5. LimiterOK(u, capacity, turn + 1) /\ Buckets(u) = Buckets(lim) \cup {k}
  BY <1>1, <1>3, <1>4, UseOK
<1> HIDE DEF u
<1>6. Cardinality(Buckets(u)) <= KeptBuckets + 1
  <2>1. Cardinality(Buckets(lim)) < KeptBuckets + 1 /\ KeptBuckets + 1 \in Int
    BY BucketsFinite, KeptIsPositive DEF Bounded
  <2>2. Cardinality(Buckets(lim) \cup {k}) <= KeptBuckets + 1
    BY <2>1, BucketsFinite, AddOne
  <2> QED
    BY <2>2, <1>5
<1>7. LimiterOK(Evict(u), capacity, turn + 1) /\ Bounded(Evict(u))
  BY <1>1, <1>5, <1>6, EvictOK
<1> QED
  BY <1>7 DEF Admit, hits, u

\* A key is refused because of its hits, so it has a bucket already
LEMMA RefuseOK ==
  ASSUME NEW lim, NEW capacity \in Nat, turn \in Numbers,
         LimiterOK(lim, capacity, turn),
         NEW k \in Keys, NEW window, ~Room(lim, k, window, capacity)
  PROVE  /\ LimiterOK(Refuse(lim, k, window), capacity, turn + 1)
         /\ Bounded(lim) /\ capacity > 0 => Bounded(Refuse(lim, k, window))
<1> DEFINE hits == Live(lim, k, window)
<1>1. turn \in Nat \ {0}
  BY LimitAssumption DEF Numbers
<1>2. /\ hits \subseteq lim.hits[k] /\ hits \subseteq Hit
      /\ IsFiniteSet(hits) /\ Cardinality(hits) \in Nat /\ Cardinality(hits) <= capacity
  BY <1>1, LiveSubset
<1>3. capacity > 0 => k \in Buckets(lim)
  <2> SUFFICES ASSUME capacity > 0, lim.used[k] = 0 PROVE FALSE
    BY DEF Buckets
  <2>1. hits = {}
    BY <1>2 DEF LimiterOK
  <2> QED
    BY <2>1, FS_EmptySet DEF Room
<1>4. LimiterOK(Use(lim, k, hits), capacity, turn + 1) /\ Buckets(Use(lim, k, hits)) = Buckets(lim) \cup {k}
  BY <1>1, <1>2, UseOK
<1>5. capacity > 0 => Buckets(Use(lim, k, hits)) = Buckets(lim)
  BY <1>3, <1>4
<1> QED
  BY <1>4, <1>5 DEF Refuse, Bounded
-----------------------------------------------------------------------------
\* The middleware: both limiters, and the log of what became of the requests.

EnvInv == now \in Times /\ turn \in 1..(MaxRequests + 1) /\ log \subseteq LogEntry

MinuteInv == LimiterOK(minute, PerMinute, turn) /\ (PerMinute > 0 => Bounded(minute))
BurstInv == LimiterOK(burst, Burst, turn) /\ (Burst > 0 => Bounded(burst))

LimiterInv == EnvInv /\ MinuteInv /\ BurstInv

USE DEF vars

LEMMA InitLimiter == Init => LimiterInv
<1> SUFFICES ASSUME Init PROVE LimiterInv
  OBVIOUS
<1>1. EnvInv
  BY LimitAssumption DEF Init, EnvInv, Times
<1>2. /\ minute \in Limiter /\ minute.used = [k \in Keys |-> 0]
      /\ minute.hits = [k \in Keys |-> {}]
  BY DEF Init, Limiter
<1>3. \A c \in Nat : LimiterOK(minute, c, 1)
  BY <1>2, FS_EmptySet DEF LimiterOK
<1>4. Bounded(minute)
  <2>1. Buckets(minute) = {}
    BY <1>2 DEF Buckets
  <2> QED
    BY <2>1, FS_EmptySet, KeptIsPositive DEF Bounded
<1> QED
  BY <1>1, <1>3, <1>4, LimitAssumption DEF Init, LimiterInv, MinuteInv, BurstInv

LEMMA RecordEnv ==
  ASSUME EnvInv, NEW c \in Clients, NEW verdict \in Verdicts, Record(c, verdict)
  PROVE  EnvInv' /\ turn \in Numbers /\ turn' = turn + 1
<1>1. turn \in Numbers /\ turn' \in 1..(MaxRequests + 1) /\ turn' = turn + 1
  BY LimitAssumption DEF EnvInv, Record, Numbers
<1>2. log' \subseteq LogEntry
  BY <1>1 DEF EnvInv, Record, LogEntry, Keys
<1> QED
  BY <1>1, <1>2 DEF EnvInv, Record

\* A limiter that is not asked keeps its part of the invariant in the next turn
LEMMA LaterOK ==
  ASSUME NEW lim, NEW capacity \in Nat, turn \in Numbers, LimiterOK(lim, capacity, turn)
  PROVE  LimiterOK(lim, capacity, turn + 1)
BY LimitAssumption DEF LimiterOK, Limiter, Numbers

\* A limiter with room for a request has a positive limit
LEMMA RoomIsPositive ==
  ASSUME NEW lim, NEW capacity \in Nat, turn \in Numbers, LimiterOK(lim, capacity, turn),
         NEW k \in Keys, NEW window, Room(lim, k, window, capacity)
  PROVE  capacity > 0
<1>1. turn \in Nat
  BY LimitAssumption DEF Numbers
<1>2. Cardinality(Live(lim, k, window)) \in Nat
  BY <1>1, LiveSubset
<1> QED
  BY <1>2 DEF Room

LEMMA NextLimiter == LimiterInv /\ [Next]_vars => LimiterInv'
<1> SUFFICES ASSUME LimiterInv, [Next]_vars PROVE LimiterInv'
  OBVIOUS
<1> USE DEF LimiterInv
<1>1. ASSUME NEW c \in Clients, Serve(c) PROVE LimiterInv'
  <2> DEFINE k == ClientKey(c)
  <2>1. EnvInv' /\ turn \in Numbers /\ turn' = turn + 1 /\ now \in Times /\ k \in Keys
    BY <1>1, RecordEnv DEF Serve, Verdicts, Keys, EnvInv
  <2>2. PerMinute > 0 /\ Burst > 0
    BY <1>1, <2>1, LimitAssumption, RoomIsPositive DEF Serve, MinuteInv, BurstInv
  <2>3. MinuteInv'
    <3>1. /\ LimiterOK(Admit(minute, k, MinuteWindow), PerMinute, turn + 1)
          /\ Bounded(Admit(minute, k, MinuteWindow))
      BY <1>1, <2>1, <2>2, LimitAssumption, AdmitOK DEF Serve, MinuteInv
    <3> QED
      BY <1>1, <2>1, <3>1 DEF Serve, MinuteInv, LimiterOK, Bounded, Buckets
  <2>4. BurstInv'
    <3>1. /\ LimiterOK(Admit(burst, k, BurstWindow), Burst, turn + 1)
          /\ Bounded(Admit(burst, k, BurstWindow))
      BY <1>1, <2>1, <2>2, LimitAssumption, AdmitOK DEF Serve, BurstInv
    <3> QED
      BY <1>1, <2>1, <3>1 DEF Serve, BurstInv, LimiterOK, Bounded, Buckets
  <2> QED
    BY <2>1, <2>3, <2>4
<1>2. ASSUME NEW c \in Clients, RefuseByMinute(c) PROVE LimiterInv'
  <2> DEFINE k == ClientKey(c)
  <2>1. EnvInv' /\ turn \in Numbers /\ turn' = turn + 1 /\ k \in Keys
    BY <1>2, RecordEnv DEF RefuseByMinute, Verdicts, Keys
  <2>2. MinuteInv'
    <3>1. /\ LimiterOK(Refuse(minute, k, MinuteWindow), PerMinute, turn + 1)
          /\ PerMinute > 0 => Bounded(Refuse(minute, k, MinuteWindow))
      BY <1>2, <2>1, LimitAssumption, RefuseOK DEF RefuseByMinute, MinuteInv
    <3> QED
      BY <1>2, <2>1, <3>1 DEF RefuseByMinute, MinuteInv, LimiterOK, Bounded, Buckets
  <2>3. BurstInv'
    <3>1. LimiterOK(burst, Burst, turn + 1)
      BY <2>1, LimitAssumption, LaterOK DEF BurstInv
    <3> QED
      BY <1>2, <2>1, <3>1 DEF RefuseByMinute, BurstInv, LimiterOK, Bounded, Buckets
  <2> QED
    BY <2>1, <2>2, <2>3
<1>3. ASSUME NEW c \in Clients, RefuseByBurst(c) PROVE LimiterInv'
  <2> DEFINE k == ClientKey(c)
  <2>1. EnvInv' /\ turn \in Numbers /\ turn' = turn + 1 /\ now \in Times /\ k \in Keys
    BY <1>3, RecordEnv DEF RefuseByBurst, Verdicts, Keys, EnvInv
  <2>2. MinuteInv'
    <3>1. PerMinute > 0
      BY <1>3, <2>1, LimitAssumption, RoomIsPositive DEF RefuseByBurst, MinuteInv
    <3>2. /\ LimiterOK(Admit(minute, k, MinuteWindow), PerMinute, turn + 1)
          /\ Bounded(Admit(minute, k, MinuteWindow))
      BY <1>3, <2>1, <3>1, LimitAssumption, AdmitOK DEF RefuseByBurst, MinuteInv
    <3> QED
      BY <1>3, <2>1, <3>2 DEF RefuseByBurst, MinuteInv, LimiterOK, Bounded, Buckets
  <2>3. BurstInv'
    <3>1. /\ LimiterOK(Refuse(burst, k, BurstWindow), Burst, turn + 1)
          /\ Burst > 0 => Bounded(Refuse(burst, k, BurstWindow))
      BY <1>3, <2>1, LimitAssumption, RefuseOK DEF RefuseByBurst, BurstInv
    <3> QED
      BY <1>3, <2>1, <3>1 DEF RefuseByBurst, BurstInv, LimiterOK, Bounded, Buckets
  <2> QED
    BY <2>1, <2>2, <2>3
<1>4. ASSUME Advance \/ UNCHANGED vars PROVE LimiterInv'
  <2>1. EnvInv'
    BY <1>4, LimitAssumption DEF Advance, EnvInv, Times
  <2>2. MinuteInv'
    BY <1>4 DEF Advance, MinuteInv, LimiterOK, Bounded, Buckets
  <2>3. BurstInv'
    BY <1>4 DEF Advance, BurstInv, LimiterOK, Bounded, Buckets
  <2> QED
    BY <2>1, <2>2, <2>3
<1> QED
  BY <1>1, <1>2, <1>3, <1>4 DEF Next

LEMMA LimiterAlways == Spec => []LimiterInv
BY InitLimiter, NextLimiter, PTL DEF Spec

\* The limiters' types hold in every reachable state
THEOREM LimiterTypeCorrect == Spec => []TypeOK
<1>1. LimiterInv => TypeOK
  BY DEF LimiterInv, EnvInv, MinuteInv, BurstInv, LimiterOK, TypeOK
<1> QED
  BY <1>1, LimiterAlways, PTL

\* For every limit, window and max_buckets, neither table of buckets outgrows
\* max_buckets, although the path that refuses a request evicts nothing
\* (middleware.py:63-69): a refused key has a bucket already.
THEOREM BucketsStayBounded == Spec => []BucketsBounded
<1>1. LimiterInv => BucketsBounded
  BY DEF LimiterInv, MinuteInv, BurstInv, Bounded, BucketsBounded
<1> QED
  BY <1>1, LimiterAlways, PTL

-----------------------------------------------------------------------------
\* What a limiter remembers.  charged are the requests it has let in, asked
\* those that have used one of its buckets.

Stamp(q) == [n |-> q.n, at |-> q.at]

\* The other keys with requests in S after q
OthersSince(S, q) == {k \in Keys \ {q.key} : \E p \in S : p.key = k /\ q.n < p.n}

\* Every hit is a request that was charged
HitsCharged(lim, charged) ==
  \A k \in Keys : \A h \in lim.hits[k] : \E q \in charged : q.key = k /\ Stamp(q) = h

\* A bucket was last used by the request it says, and by none of its own later
UsesAsked(lim, charged, asked) ==
  /\ \A k \in Keys : lim.used[k] # 0 => \E p \in asked : p.key = k /\ p.n = lim.used[k]
  /\ \A q \in charged : lim.used[q.key] # 0 => q.n <= lim.used[q.key]

\* A request that was charged is forgotten only when it is out of the window,
\* or once as many other keys as there are buckets have been in use since
Remembered(lim, charged, asked, window) ==
  \A q \in charged :
    \/ Stamp(q) \in lim.hits[q.key]
    \/ now - q.at > window
    \/ Cardinality(OthersSince(asked, q)) >= KeptBuckets

Tracks(lim, charged, asked, window) ==
  /\ HitsCharged(lim, charged)
  /\ UsesAsked(lim, charged, asked)
  /\ Remembered(lim, charged, asked, window)

\* The requests are numbered in their order
Numbered ==
  /\ IsFiniteSet(log)
  /\ \A r \in log : r.n < turn /\ r.at <= now /\ r.key = ClientKey(r.client)
  /\ \A q, r \in log : q.n = r.n => q = r

\* The entry of the request being dispatched
Entry(c, verdict) ==
  [client |-> c, key |-> ClientKey(c), n |-> turn, at |-> now, verdict |-> verdict]

LEMMA OthersGrow ==
  ASSUME NEW S, NEW T, S \subseteq T, NEW q
  PROVE  /\ IsFiniteSet(OthersSince(T, q))
         /\ Cardinality(OthersSince(S, q)) \in Nat /\ Cardinality(OthersSince(T, q)) \in Nat
         /\ Cardinality(OthersSince(S, q)) <= Cardinality(OthersSince(T, q))
<1>1. OthersSince(S, q) \subseteq OthersSince(T, q) /\ OthersSince(T, q) \subseteq Keys
  BY DEF OthersSince
<1>2. IsFiniteSet(OthersSince(T, q))
  BY <1>1, KeysFinite, FS_Subset
<1>3. IsFiniteSet(OthersSince(S, q)) /\ Cardinality(OthersSince(S, q)) <= Cardinality(OthersSince(T, q))
  BY <1>1, <1>2, FS_Subset
<1> QED
  BY <1>2, <1>3, FS_CardinalityType

\* Using the bucket of the request r that is being dispatched.  C is {r} if r is
\* charged, and empty if not
LEMMA UseTracks ==
  ASSUME NEW lim \in Limiter, NEW charged \in SUBSET log, NEW asked \in SUBSET log,
         NEW window \in Nat, EnvInv, Numbered, turn \in Numbers,
         Tracks(lim, charged, asked, window),
         NEW r \in LogEntry, r.n = turn, r.at = now, NEW C \in SUBSET {r}
  PROVE  Tracks(Use(lim, r.key, Live(lim, r.key, window) \cup {Stamp(q) : q \in C}),
                charged \cup C, asked \cup {r}, window)
<1> DEFINE k == r.key
           hits == Live(lim, k, window) \cup {Stamp(q) : q \in C}
           u == Use(lim, k, hits)
<1>1. k \in Keys /\ turn \in Nat /\ turn # 0 /\ now \in Nat
  BY LimitAssumption DEF LogEntry, EnvInv, Times, Numbers
<1>2. \A j \in Keys : /\ u.used[j] = IF j = k THEN turn ELSE lim.used[j]
                      /\ u.hits[j] = IF j = k THEN hits ELSE lim.hits[j]
  BY <1>1 DEF Use, Limiter
<1>3. \A q \in log : q.key \in Keys /\ q.n \in Nat /\ q.at \in Nat /\ q.n < turn
  BY LimitAssumption DEF EnvInv, LogEntry, Numbers, Times, Numbered
<1>4. Live(lim, k, window) \subseteq lim.hits[k]
  BY DEF Live
<1> HIDE DEF u
<1>8. u.used[k] = turn /\ \A j \in Keys : j # k => u.used[j] = lim.used[j]
  BY <1>1, <1>2
<1>5. HitsCharged(u, charged \cup C)
  <2> SUFFICES ASSUME NEW j \in Keys, NEW h \in u.hits[j]
               PROVE  \E q \in charged \cup C : q.key = j /\ Stamp(q) = h
    BY DEF HitsCharged
  <2>1. CASE h \in lim.hits[j]
    BY <2>1 DEF Tracks, HitsCharged
  <2>2. CASE h \notin lim.hits[j]
    <3>1. j = k /\ h \in hits
      BY <2>2, <1>2
    <3>2. PICK q \in C : Stamp(q) = h
      BY <2>2, <3>1, <1>4
    <3> QED
      BY <3>1, <3>2
  <2> QED
    BY <2>1, <2>2
<1>6. UsesAsked(u, charged \cup C, asked \cup {r})
  <2>1. \A j \in Keys : u.used[j] # 0 => \E p \in asked \cup {r} : p.key = j /\ p.n = u.used[j]
    BY <1>2 DEF Tracks, UsesAsked
  <2>2. \A q \in charged : u.used[q.key] # 0 => q.n <= u.used[q.key]
    <3> SUFFICES ASSUME NEW q \in charged, u.used[q.key] # 0 PROVE q.n <= u.used[q.key]
      OBVIOUS
    <3>1. q.key \in Keys /\ q.n \in Nat /\ q.n < turn
      BY <1>3
    <3>2. CASE q.key = k
      BY <3>1, <3>2, <1>1, <1>8
    <3>3. CASE q.key # k
      BY <3>1, <3>3, <1>8 DEF Tracks, UsesAsked
    <3> QED
      BY <3>2, <3>3
  <2>3. \A q \in C : q.n <= u.used[q.key]
    <3> SUFFICES ASSUME NEW q \in C PROVE q.n <= u.used[q.key]
      OBVIOUS
    <3>1. q = r
      OBVIOUS
    <3> QED
      BY <3>1, <1>1, <1>8
  <2> QED
    BY <2>1, <2>2, <2>3 DEF UsesAsked
<1>7. Remembered(u, charged \cup C, asked \cup {r}, window)
  <2> SUFFICES ASSUME NEW q \in charged \cup C, Stamp(q) \notin u.hits[q.key], ~(now - q.at > window)
               PROVE  Cardinality(OthersSince(asked \cup {r}, q)) >= KeptBuckets
    BY DEF Remembered
  <2>1. q \in charged /\ q \in log
    BY <1>1, <1>2
  <2>2. Stamp(q) \notin lim.hits[q.key]
    <3> SUFFICES ASSUME Stamp(q) \in lim.hits[q.key] PROVE FALSE
      OBVIOUS
    <3>1. Stamp(q).at = q.at
      BY DEF Stamp
    <3>2. now - q.at <= window
      BY <2>1, <1>1, <1>3
    <3>3. Stamp(q) \in Live(lim, q.key, window)
      BY <3>1, <3>2 DEF Live
    <3> QED
      BY <3>3, <2>1, <1>2, <1>3
  <2>3. Cardinality(OthersSince(asked, q)) >= KeptBuckets
    BY <2>1, <2>2, <1>1, <1>3 DEF Tracks, Remembered
  <2> QED
    BY <2>3, OthersGrow, KeptIsPositive
<1> QED
  BY <1>5, <1>6, <1>7 DEF Tracks, u

\* The bucket that is dropped was used before all the others
LEMMA EvictTracks ==
  ASSUME NEW lim \in Limiter, NEW charged, NEW asked, NEW window,
         charged \subseteq asked, asked \subseteq LogEntry,
         \A p, q \in asked : p.n = q.n => p = q,
         Tracks(lim, charged, asked, window)
  PROVE  Tracks(Evict(lim), charged, asked, window)
<1>1. CASE Bounded(lim)
  BY <1>1 DEF Evict, Bounded
<1>2. CASE ~Bounded(lim)
  <2> DEFINE c == Coldest(lim)
             e == Evict(lim)
  <2>1. /\ c \in Buckets(lim) /\ \A j \in Buckets(lim) : lim.used[c] <= lim.used[j]
        /\ \A j \in Keys : /\ e.used[j] = IF j = c THEN 0 ELSE lim.used[j]
                           /\ e.hits[j] = IF j = c THEN {} ELSE lim.hits[j]
    BY <1>2, EvictValues
  <2> HIDE DEF c, e
  <2>2. c \in Keys /\ lim.used[c] # 0
    BY <2>1 DEF Buckets
  <2>3. \A q \in asked : q.key \in Keys /\ q.n \in Nat
    BY LimitAssumption DEF LogEntry, Numbers
  <2>4. HitsCharged(e, charged)
    BY <2>1 DEF Tracks, HitsCharged
  <2>5. UsesAsked(e, charged, asked)
    BY <2>1, <2>3 DEF Tracks, UsesAsked
  <2>6. \A q \in charged : q.key = c => Cardinality(OthersSince(asked, q)) >= KeptBuckets
    <3> SUFFICES ASSUME NEW q \in charged, q.key = c
                 PROVE  Cardinality(OthersSince(asked, q)) >= KeptBuckets
      OBVIOUS
    <3>1. Buckets(lim) \ {c} \subseteq OthersSince(asked, q)
      <4> SUFFICES ASSUME NEW j \in Buckets(lim), j # c PROVE j \in OthersSince(asked, q)
        OBVIOUS
      <4>1. j \in Keys /\ lim.used[j] # 0
        BY DEF Buckets
      <4>2. PICK p \in asked : p.key = j /\ p.n = lim.used[j]
        BY <4>1 DEF Tracks, UsesAsked
      <4>3. PICK o \in asked : o.key = c /\ o.n = lim.used[c]
        BY <2>2 DEF Tracks, UsesAsked
      <4>4. p.n # o.n
        BY <4>2, <4>3
      <4>5. q.n <= lim.used[c] /\ lim.used[c] <= lim.used[j]
        BY <2>1, <2>2 DEF Tracks, UsesAsked
      <4>6. q.n < p.n
        BY <2>3, <4>2, <4>3, <4>4, <4>5
      <4> QED
        BY <4>1, <4>2, <4>6 DEF OthersSince
    <3>2. Cardinality(Buckets(lim) \ {c}) = Cardinality(Buckets(lim)) - 1
      BY <2>1, BucketsFinite, FS_RemoveElement
    <3>3. Cardinality(Buckets(lim) \ {c}) >= KeptBuckets
      BY <1>2, <3>2, BucketsFinite, KeptIsPositive DEF Bounded
    <3>4. Cardinality(Buckets(lim) \ {c}) <= Cardinality(OthersSince(asked, q))
      BY <3>1, OthersGrow, FS_Subset
    <3>5. Cardinality(Buckets(lim) \ {c}) \in Nat
      BY <3>2, <3>3, BucketsFinite, KeptIsPositive
    <3> QED
      BY <3>3, <3>4, <3>5, OthersGrow, KeptIsPositive
  <2>7. Remembered(e, charged, asked, window)
    <3> SUFFICES ASSUME NEW q \in charged
                 PROVE  \/ Stamp(q) \in e.hits[q.key]
                        \/ now - q.at > window
                        \/ Cardinality(OthersSince(asked, q)) >= KeptBuckets
      BY DEF Remembered
    <3>1. CASE q.key = c
      BY <3>1, <2>6
    <3>2. CASE q.key # c
      BY <3>2, <2>1, <2>3 DEF Tracks, Remembered
    <3> QED
      BY <3>1, <3>2
  <2> QED
    BY <2>4, <2>5, <2>7 DEF Tracks, e
<1> QED
  BY <1>1, <1>2

LEMMA RefuseTracks ==
  ASSUME NEW lim \in Limiter, NEW charged \in SUBSET log, NEW asked \in SUBSET log,
         NEW window \in Nat, EnvInv, Numbered, turn \in Numbers,
         Tracks(lim, charged, asked, window),
         NEW r \in LogEntry, r.n = turn, r.at = now
  PROVE  Tracks(Refuse(lim, r.key, window), charged, asked \cup {r}, window)
<1> DEFINE C == {}
<1>1. C \in SUBSET {r} /\ charged \cup C = charged
  OBVIOUS
<1>2. Live(lim, r.key, window) \cup {Stamp(q) : q \in C} = Live(lim, r.key, window)
  OBVIOUS
<1> HIDE DEF C
<1>3. Tracks(Use(lim, r.key, Live(lim, r.key, window) \cup {Stamp(q) : q \in C}),
             charged \cup C, asked \cup {r}, window)
  BY <1>1, UseTracks
<1> QED
  BY <1>1, <1>2, <1>3 DEF Refuse

LEMMA AdmitTracks ==
  ASSUME NEW lim \in Limiter, NEW charged \in SUBSET log, NEW asked \in SUBSET log,
         charged \subseteq asked,
         NEW window \in Nat, EnvInv, Numbered, turn \in Numbers,
         Tracks(lim, charged, asked, window),
         NEW r \in LogEntry, r.n = turn, r.at = now
  PROVE  Tracks(Admit(lim, r.key, window), charged \cup {r}, asked \cup {r}, window)
<1> DEFINE k == r.key
           hits == Live(lim, k, window) \cup {[n |-> turn, at |-> now]}
           u == Use(lim, k, hits)
<1>1. {Stamp(q) : q \in {r}} = {[n |-> turn, at |-> now]}
  BY DEF Stamp
<1>2. Tracks(u, charged \cup {r}, asked \cup {r}, window)
  <2>1. Tracks(Use(lim, r.key, Live(lim, r.key, window) \cup {Stamp(q) : q \in {r}}),
               charged \cup {r}, asked \cup {r}, window)
    BY UseTracks
  <2> QED
    BY <1>1, <2>1
<1>3. u \in Limiter
  <2>1. k \in Keys /\ turn \in Nat /\ now \in Times
    BY LimitAssumption DEF LogEntry, EnvInv, Numbers
  <2>2. hits \in SUBSET Hit
    BY <2>1 DEF Live, Limiter, Hit
  <2> HIDE DEF hits, k
  <2> QED
    BY <2>1, <2>2 DEF Use, Limiter
<1>4. asked \cup {r} \subseteq LogEntry
  BY DEF EnvInv
<1>5. \A p, q \in asked \cup {r} : p.n = q.n => p = q
  <2>1. \A q \in log : q.n # r.n
    BY LimitAssumption DEF EnvInv, LogEntry, Numbers, Numbered
  <2> QED
    BY <2>1 DEF Numbered
<1> HIDE DEF u
<1>6. Tracks(Evict(u), charged \cup {r}, asked \cup {r}, window)
  BY <1>2, <1>3, <1>4, <1>5, EvictTracks
<1> QED
  BY <1>6 DEF Admit, u

\* A request that finds room is within the limit, or the bucket was dropped
LEMMA WithinNew ==
  ASSUME NEW lim, NEW capacity \in Nat, NEW window \in Nat,
         NEW charged \in SUBSET log, NEW asked \in SUBSET log,
         EnvInv, Numbered, turn \in Numbers, LimiterOK(lim, capacity, turn),
         Tracks(lim, charged, asked, window),
         NEW r \in LogEntry, r.n = turn, r.at = now,
         Room(lim, r.key, window, capacity)
  PROVE  \/ Cardinality(WindowOf(charged \cup {r}, r, window)) <= capacity
         \/ \E q \in WindowOf(charged \cup {r}, r, window) :
              Cardinality(OthersBetween(asked \cup {r}, q, r)) >= KeptBuckets
<1> DEFINE k == r.key
           before == {q \in charged : q.key = k /\ now - q.at <= window}
<1>1. turn \in Nat /\ now \in Nat /\ k \in Keys
  BY LimitAssumption DEF LogEntry, EnvInv, Times, Numbers
<1>2. \A q \in log : q.key \in Keys /\ q.n \in Nat /\ q.at \in Nat /\ q.n < turn
  BY LimitAssumption DEF EnvInv, LogEntry, Numbers, Times, Numbered
<1>3. WindowOf(charged \cup {r}, r, window) = before \cup {r}
  BY <1>1, <1>2 DEF WindowOf
<1>4. CASE \E q \in before : Stamp(q) \notin lim.hits[k]
  <2>1. PICK q \in before : Stamp(q) \notin lim.hits[k]
    BY <1>4
  <2>2. Cardinality(OthersSince(asked, q)) >= KeptBuckets
    BY <2>1, <1>1, <1>2 DEF Tracks, Remembered
  <2>3. OthersBetween(asked \cup {r}, q, r) = OthersSince(asked, q)
    BY <1>1, <1>2 DEF OthersBetween, OthersSince
  <2> QED
    BY <1>3, <2>2, <2>3
<1>5. CASE \A q \in before : Stamp(q) \in lim.hits[k]
  <2> DEFINE live == Live(lim, k, window)
             f == [q \in before |-> Stamp(q)]
  <2>1. IsFiniteSet(live) /\ Cardinality(live) \in Nat /\ Cardinality(live) < capacity
    BY <1>1, LiveSubset DEF Room
  <2>2. \A q \in before : Stamp(q) \in live
    BY <1>5 DEF Live, Stamp
  <2>3. \A p, q \in before : Stamp(p) = Stamp(q) => p = q
    <3>1. \A p, q \in before : Stamp(p) = Stamp(q) => p.n = q.n
      BY DEF Stamp
    <3> QED
      BY <3>1 DEF Numbered
  <2> HIDE DEF before, live
  <2>4. f \in Injection(before, live)
    BY <2>2, <2>3 DEF Injection, IsInjective
  <2>5. IsFiniteSet(before) /\ Cardinality(before) <= Cardinality(live)
    BY <2>1, <2>4, FS_Injection
  <2>6. Cardinality(before) < capacity
    BY <2>1, <2>5, FS_CardinalityType
  <2>7. Cardinality(before \cup {r}) <= capacity
    <3>1. capacity \in Int
      OBVIOUS
    <3> HIDE DEF f
    <3> QED
      BY <3>1, <2>5, <2>6, AddOne
  <2> QED
    BY <1>3, <2>7
<1> QED
  BY <1>4, <1>5

\* What was within the limit stays so when later requests come
LEMMA WithinLater ==
  ASSUME NEW charged \in SUBSET log, NEW asked \in SUBSET log, EnvInv, Numbered,
         turn \in Numbers, NEW r, r.n = turn, NEW C \in SUBSET {r}, NEW D \in SUBSET {r},
         NEW window, NEW capacity, WithinLimit(charged, asked, window, capacity),
         NEW s \in charged
  PROVE  \/ Cardinality(WindowOf(charged \cup C, s, window)) <= capacity
         \/ \E q \in WindowOf(charged \cup C, s, window) :
              Cardinality(OthersBetween(asked \cup D, q, s)) >= KeptBuckets
<1>1. \A q \in log : q.n \in Nat /\ q.n < turn
  BY LimitAssumption DEF EnvInv, LogEntry, Numbers, Numbered
<1>2. turn \in Nat
  BY LimitAssumption DEF Numbers
<1>3. WindowOf(charged \cup C, s, window) = WindowOf(charged, s, window)
  BY <1>1, <1>2 DEF WindowOf
<1>4. \A q : OthersBetween(asked \cup D, q, s) = OthersBetween(asked, q, s)
  <2> SUFFICES ASSUME NEW q PROVE OthersBetween(asked \cup D, q, s) = OthersBetween(asked, q, s)
    OBVIOUS
  <2>1. \A p \in D : ~(p.n < s.n)
    BY <1>1, <1>2
  <2> QED
    BY <2>1 DEF OthersBetween
<1> QED
  BY <1>3, <1>4 DEF WithinLimit

LEMMA OwnLater ==
  ASSUME EnvInv, Numbered, turn \in Numbers, NEW charged, NEW after, charged \subseteq after,
         \A q \in after \ charged : q.n = turn, NEW window, NEW s \in log
  PROVE  OwnBefore(after, s, window) = OwnBefore(charged, s, window)
<1>1. s.n \in Nat /\ s.n < turn /\ turn \in Nat
  BY LimitAssumption DEF EnvInv, LogEntry, Numbers, Numbered
<1>2. \A q \in after \ charged : ~(q.n < s.n)
  BY <1>1
<1> QED
  BY <1>2 DEF OwnBefore

\* No two clients have the same key
KeysDistinct == \A c, d \in Clients : ClientKey(c) = ClientKey(d) => c = d

\* A request that finds no room is refused for as many of its client's own
LEMMA OwnNew ==
  ASSUME KeysDistinct, NEW lim, NEW capacity \in Nat, NEW window \in Nat,
         NEW charged \in SUBSET log, NEW asked \in SUBSET log,
         EnvInv, Numbered, turn \in Numbers, LimiterOK(lim, capacity, turn),
         Tracks(lim, charged, asked, window),
         NEW r \in LogEntry, r.n = turn, r.at = now, r.key = ClientKey(r.client),
         ~Room(lim, r.key, window, capacity)
  PROVE  Cardinality(OwnBefore(charged, r, window)) >= capacity
<1> DEFINE k == r.key
           live == Live(lim, k, window)
           own == OwnBefore(charged, r, window)
           f == [h \in live |-> CHOOSE q \in own : Stamp(q) = h]
<1>1. turn \in Nat /\ k \in Keys
  BY LimitAssumption DEF LogEntry, Numbers
<1>2. IsFiniteSet(live) /\ Cardinality(live) \in Nat /\ Cardinality(live) >= capacity
  BY <1>1, LiveSubset DEF Room
<1>3. \A h \in live : \E q \in own : Stamp(q) = h
  <2> SUFFICES ASSUME NEW h \in live PROVE \E q \in own : Stamp(q) = h
    OBVIOUS
  <2>1. h \in lim.hits[k] /\ now - h.at <= window
    BY DEF Live
  <2>2. PICK q \in charged : q.key = k /\ Stamp(q) = h
    BY <1>1, <2>1 DEF Tracks, HitsCharged
  <2>3. q \in log /\ q.at = h.at
    BY <2>2 DEF Stamp
  <2>4. q.client = r.client
    BY <2>2, <2>3 DEF Numbered, KeysDistinct, EnvInv, LogEntry
  <2>5. q.n < r.n
    BY <2>3 DEF Numbered
  <2> QED
    BY <2>1, <2>2, <2>3, <2>4, <2>5 DEF OwnBefore
<1>4. IsFiniteSet(own)
  <2>1. own \subseteq log
    BY DEF OwnBefore
  <2> QED
    BY <2>1, FS_Subset DEF Numbered
<1> HIDE DEF live, own
<1>5. \A h \in live : f[h] \in own /\ Stamp(f[h]) = h
  BY <1>3
<1>6. f \in [live -> own]
  BY <1>5
<1> HIDE DEF f
<1>7. f \in Injection(live, own)
  BY <1>5, <1>6 DEF Injection, IsInjective
<1>8. Cardinality(live) <= Cardinality(own)
  BY <1>4, <1>7, FS_Injection
<1> QED
  BY <1>2, <1>4, <1>8, FS_CardinalityType DEF own

-----------------------------------------------------------------------------
\* Both limiters against the log.

TracksMinute == Tracks(minute, ToMinute, log, MinuteWindow)
TracksBurst == Tracks(burst, ToBurst, ToMinute, BurstWindow)

\* The inductive invariant of the two theorems below
LogInv == LimiterInv /\ Numbered /\ TracksMinute /\ TracksBurst

LEMMA ChargedInLog ==
  ToMinute \in SUBSET log /\ ToBurst \in SUBSET log /\ ToBurst \subseteq ToMinute
BY DEF ToMinute, ToBurst

\* What dispatching a request adds to the log
LEMMA RecordEntry ==
  ASSUME LogInv, NEW c \in Clients, NEW verdict \in Verdicts, Record(c, verdict),
         NEW e, e = Entry(c, verdict)
  PROVE  /\ e \in LogEntry /\ e.n = turn /\ e.at = now /\ e.key = ClientKey(c)
         /\ e.client = c /\ e.verdict = verdict
         /\ turn \in Numbers /\ now' = now /\ Numbered'
         /\ log' = log \cup {e}
         /\ ToMinute' = ToMinute \cup (IF verdict = "minute" THEN {} ELSE {e})
         /\ ToBurst' = ToBurst \cup (IF verdict = "served" THEN {e} ELSE {})
<1>1. /\ turn \in Numbers /\ now \in Times /\ now' = now /\ turn' = turn + 1
      /\ log' = log \cup {e}
  BY RecordEnv DEF LogInv, LimiterInv, EnvInv, Record, Entry
<1>2. /\ e \in LogEntry /\ e.n = turn /\ e.at = now /\ e.key = ClientKey(c)
      /\ e.client = c /\ e.verdict = verdict
  BY <1>1 DEF Entry, LogEntry, Keys
<1>3. turn \in Nat /\ now \in Nat /\ \A q \in log : q.n \in Nat /\ q.n < turn
  BY <1>1, LimitAssumption
     DEF LogInv, LimiterInv, EnvInv, LogEntry, Numbers, Times, Numbered
<1>4. Numbered'
  <2>1. IsFiniteSet(log')
    BY <1>1, FS_AddElement DEF LogInv, Numbered
  <2>2. \A r \in log' : r.n < turn' /\ r.at <= now' /\ r.key = ClientKey(r.client)
    BY <1>1, <1>2, <1>3 DEF LogInv, Numbered
  <2>3. \A q, r \in log' : q.n = r.n => q = r
    BY <1>1, <1>2, <1>3 DEF LogInv, Numbered
  <2> QED
    BY <2>1, <2>2, <2>3 DEF Numbered
<1>5. ToMinute' = ToMinute \cup (IF verdict = "minute" THEN {} ELSE {e})
  BY <1>1, <1>2 DEF ToMinute
<1>6. ToBurst' = ToBurst \cup (IF verdict = "served" THEN {e} ELSE {})
  BY <1>1, <1>2 DEF ToBurst
<1> QED
  BY <1>1, <1>2, <1>4, <1>5, <1>6

\* A request that is charged to a limiter, or refused by it, or not asked of it.
\* lim, charged and asked are the values after the request
LEMMA TracksNext ==
  ASSUME now' = now
  PROVE  /\ Tracks(minute', ToMinute', log', MinuteWindow) => TracksMinute'
         /\ Tracks(burst', ToBurst', ToMinute', BurstWindow) => TracksBurst'
BY DEF TracksMinute, TracksBurst, Tracks, Remembered

LEMMA InitLog == Init => LogInv /\ LimitsKept /\ RefusedForOwnLoad
<1> SUFFICES ASSUME Init PROVE LogInv /\ LimitsKept /\ RefusedForOwnLoad
  OBVIOUS
<1>1. ToMinute = {} /\ ToBurst = {} /\ log = {}
  BY DEF Init, ToMinute, ToBurst
<1>2. Numbered
  BY <1>1, FS_EmptySet DEF Numbered
<1>3. /\ minute = burst
      /\ \A k \in Keys : minute.hits[k] = {} /\ minute.used[k] = 0
  BY DEF Init
<1>4. TracksMinute /\ TracksBurst
  BY <1>1, <1>3
     DEF TracksMinute, TracksBurst, Tracks, HitsCharged, UsesAsked, Remembered
<1>5. LimitsKept /\ RefusedForOwnLoad
  BY <1>1 DEF LimitsKept, WithinLimit, RefusedForOwnLoad
<1> QED
  BY <1>2, <1>4, <1>5, InitLimiter DEF LogInv

\* What both properties say of a limiter once the request e was charged to it
LEMMA ChargeWithin ==
  ASSUME NEW lim, NEW capacity \in Nat, NEW window \in Nat,
         NEW charged \in SUBSET log, NEW asked \in SUBSET log,
         EnvInv, Numbered, turn \in Numbers, LimiterOK(lim, capacity, turn),
         Tracks(lim, charged, asked, window),
         WithinLimit(charged, asked, window, capacity),
         NEW e \in LogEntry, e.n = turn, e.at = now,
         Room(lim, e.key, window, capacity)
  PROVE  WithinLimit(charged \cup {e}, asked \cup {e}, window, capacity)
<1> DEFINE C == {e}
<1>1. \A r \in charged :
        \/ Cardinality(WindowOf(charged \cup C, r, window)) <= capacity
        \/ \E q \in WindowOf(charged \cup C, r, window) :
             Cardinality(OthersBetween(asked \cup C, q, r)) >= KeptBuckets
  BY WithinLater
<1>2. \/ Cardinality(WindowOf(charged \cup {e}, e, window)) <= capacity
      \/ \E q \in WindowOf(charged \cup {e}, e, window) :
           Cardinality(OthersBetween(asked \cup {e}, q, e)) >= KeptBuckets
  BY WithinNew
<1> QED
  BY <1>1, <1>2 DEF WithinLimit

\* A limiter that only refuses the request e, or is not asked, keeps its limit
LEMMA RefuseWithin ==
  ASSUME NEW charged \in SUBSET log, NEW asked \in SUBSET log, EnvInv, Numbered,
         turn \in Numbers, NEW e, e.n = turn, NEW D \in SUBSET {e},
         NEW window, NEW capacity, WithinLimit(charged, asked, window, capacity)
  PROVE  WithinLimit(charged, asked \cup D, window, capacity)
<1> DEFINE C == {}
<1>1. C \in SUBSET {e} /\ charged \cup C = charged
  OBVIOUS
<1> HIDE DEF C
<1>2. \A r \in charged :
        \/ Cardinality(WindowOf(charged \cup C, r, window)) <= capacity
        \/ \E q \in WindowOf(charged \cup C, r, window) :
             Cardinality(OthersBetween(asked \cup D, q, r)) >= KeptBuckets
  BY <1>1, WithinLater
<1> QED
  BY <1>1, <1>2 DEF WithinLimit

LEMMA ServeLog ==
  ASSUME LogInv, NEW c \in Clients, Serve(c)
  PROVE  TracksMinute' /\ TracksBurst' /\ (LimitsKept => LimitsKept')
<1> DEFINE e == Entry(c, "served")
           k == ClientKey(c)
<1>1. /\ e \in LogEntry /\ e.n = turn /\ e.at = now /\ e.key = k
      /\ turn \in Numbers /\ now' = now
      /\ log' = log \cup {e} /\ ToMinute' = ToMinute \cup {e} /\ ToBurst' = ToBurst \cup {e}
  BY RecordEntry DEF Serve, Verdicts
<1>2. /\ Room(minute, k, MinuteWindow, PerMinute) /\ Room(burst, k, BurstWindow, Burst)
      /\ minute' = Admit(minute, k, MinuteWindow) /\ burst' = Admit(burst, k, BurstWindow)
  BY DEF Serve
<1> HIDE DEF e, k
<1>3. /\ EnvInv /\ Numbered
      /\ LimiterOK(minute, PerMinute, turn) /\ minute \in Limiter
      /\ LimiterOK(burst, Burst, turn) /\ burst \in Limiter
      /\ Tracks(minute, ToMinute, log, MinuteWindow)
      /\ Tracks(burst, ToBurst, ToMinute, BurstWindow)
  BY DEF LogInv, LimiterInv, MinuteInv, BurstInv, LimiterOK, TracksMinute, TracksBurst
<1>4. Tracks(minute', ToMinute', log', MinuteWindow)
  BY <1>1, <1>2, <1>3, ChargedInLog, AdmitTracks, LimitAssumption
<1>5. Tracks(burst', ToBurst', ToMinute', BurstWindow)
  BY <1>1, <1>2, <1>3, ChargedInLog, AdmitTracks, LimitAssumption
<1>6. ASSUME LimitsKept PROVE LimitsKept'
  <2>1. WithinLimit(ToMinute \cup {e}, log \cup {e}, MinuteWindow, PerMinute)
    BY <1>1, <1>2, <1>3, <1>6, ChargedInLog, ChargeWithin, LimitAssumption DEF LimitsKept
  <2>2. WithinLimit(ToBurst \cup {e}, ToMinute \cup {e}, BurstWindow, Burst)
    BY <1>1, <1>2, <1>3, <1>6, ChargedInLog, ChargeWithin, LimitAssumption DEF LimitsKept
  <2> QED
    BY <1>1, <2>1, <2>2 DEF LimitsKept, WithinLimit
<1> QED
  BY <1>1, <1>4, <1>5, <1>6, TracksNext

LEMMA RefuseByMinuteLog ==
  ASSUME LogInv, NEW c \in Clients, RefuseByMinute(c)
  PROVE  TracksMinute' /\ TracksBurst' /\ (LimitsKept => LimitsKept')
<1> DEFINE e == Entry(c, "minute")
           k == ClientKey(c)
<1>1. /\ e \in LogEntry /\ e.n = turn /\ e.at = now /\ e.key = k
      /\ turn \in Numbers /\ now' = now
      /\ log' = log \cup {e} /\ ToMinute' = ToMinute /\ ToBurst' = ToBurst
  BY RecordEntry DEF RefuseByMinute, Verdicts
<1>2. minute' = Refuse(minute, k, MinuteWindow) /\ burst' = burst
  BY DEF RefuseByMinute
<1> HIDE DEF e, k
<1>3. /\ EnvInv /\ Numbered /\ minute \in Limiter
      /\ Tracks(minute, ToMinute, log, MinuteWindow)
      /\ Tracks(burst, ToBurst, ToMinute, BurstWindow)
  BY DEF LogInv, LimiterInv, MinuteInv, LimiterOK, TracksMinute, TracksBurst
<1>4. Tracks(minute', ToMinute', log', MinuteWindow)
  BY <1>1, <1>2, <1>3, ChargedInLog, RefuseTracks, LimitAssumption
<1>5. Tracks(burst', ToBurst', ToMinute', BurstWindow)
  BY <1>1, <1>2, <1>3
<1>6. ASSUME LimitsKept PROVE LimitsKept'
  <2>1. WithinLimit(ToMinute, log \cup {e}, MinuteWindow, PerMinute)
    BY <1>1, <1>3, <1>6, ChargedInLog, RefuseWithin DEF LimitsKept
  <2> QED
    BY <1>1, <1>6, <2>1 DEF LimitsKept, WithinLimit
<1> QED
  BY <1>1, <1>4, <1>5, <1>6, TracksNext

LEMMA RefuseByBurstLog ==
  ASSUME LogInv, NEW c \in Clients, RefuseByBurst(c)
  PROVE  TracksMinute' /\ TracksBurst' /\ (LimitsKept => LimitsKept')
<1> DEFINE e == Entry(c, "burst")
           k == ClientKey(c)
<1>1. /\ e \in LogEntry /\ e.n = turn /\ e.at = now /\ e.key = k
      /\ turn \in Numbers /\ now' = now
      /\ log' = log \cup {e} /\ ToMinute' = ToMinute \cup {e} /\ ToBurst' = ToBurst
  BY RecordEntry DEF RefuseByBurst, Verdicts
<1>2. /\ Room(minute, k, MinuteWindow, PerMinute)
      /\ minute' = Admit(minute, k, MinuteWindow) /\ burst' = Refuse(burst, k, BurstWindow)
  BY DEF RefuseByBurst
<1> HIDE DEF e, k
<1>3. /\ EnvInv /\ Numbered
      /\ LimiterOK(minute, PerMinute, turn) /\ minute \in Limiter /\ burst \in Limiter
      /\ Tracks(minute, ToMinute, log, MinuteWindow)
      /\ Tracks(burst, ToBurst, ToMinute, BurstWindow)
  BY DEF LogInv, LimiterInv, MinuteInv, BurstInv, LimiterOK, TracksMinute, TracksBurst
<1>4. Tracks(minute', ToMinute', log', MinuteWindow)
  BY <1>1, <1>2, <1>3, ChargedInLog, AdmitTracks, LimitAssumption
<1>5. Tracks(burst', ToBurst', ToMinute', BurstWindow)
  BY <1>1, <1>2, <1>3, ChargedInLog, RefuseTracks, LimitAssumption
<1>6. ASSUME LimitsKept PROVE LimitsKept'
  <2>1. WithinLimit(ToMinute \cup {e}, log \cup {e}, MinuteWindow, PerMinute)
    BY <1>1, <1>2, <1>3, <1>6, ChargedInLog, ChargeWithin, LimitAssumption DEF LimitsKept
  <2>2. WithinLimit(ToBurst, ToMinute \cup {e}, BurstWindow, Burst)
    BY <1>1, <1>3, <1>6, ChargedInLog, RefuseWithin DEF LimitsKept
  <2> QED
    BY <1>1, <2>1, <2>2 DEF LimitsKept, WithinLimit
<1> QED
  BY <1>1, <1>4, <1>5, <1>6, TracksNext

LEMMA AdvanceLog ==
  ASSUME LogInv, Advance \/ UNCHANGED vars
  PROVE  Numbered' /\ TracksMinute' /\ TracksBurst' /\ (LimitsKept => LimitsKept')
<1>1. /\ UNCHANGED <<turn, minute, burst, log, ToMinute, ToBurst>>
      /\ now \in Nat /\ now' \in Nat /\ now <= now'
  BY LimitAssumption DEF Advance, ToMinute, ToBurst, LogInv, LimiterInv, EnvInv, Times
<1>2. \A q \in log : q.at \in Nat
  BY LimitAssumption DEF LogInv, LimiterInv, EnvInv, LogEntry, Times
<1>3. Numbered'
  BY <1>1, <1>2 DEF LogInv, Numbered
<1>4. \A q \in log, w \in Nat : now - q.at > w => now' - q.at > w
  BY <1>1, <1>2
<1>5. TracksMinute'
  BY <1>1, <1>4, ChargedInLog, LimitAssumption
     DEF LogInv, TracksMinute, Tracks, HitsCharged, UsesAsked, Remembered
<1>6. TracksBurst'
  BY <1>1, <1>4, ChargedInLog, LimitAssumption
     DEF LogInv, TracksBurst, Tracks, HitsCharged, UsesAsked, Remembered
<1>7. LimitsKept => LimitsKept'
  BY <1>1 DEF LimitsKept, WithinLimit
<1> QED
  BY <1>3, <1>5, <1>6, <1>7

LEMMA NextLog == LogInv /\ [Next]_vars => LogInv' /\ (LimitsKept => LimitsKept')
<1> SUFFICES ASSUME LogInv, [Next]_vars PROVE LogInv' /\ (LimitsKept => LimitsKept')
  OBVIOUS
<1>1. LimiterInv'
  BY NextLimiter DEF LogInv
<1>2. ASSUME NEW c \in Clients, Serve(c) \/ RefuseByMinute(c) \/ RefuseByBurst(c)
      PROVE  Numbered'
  <2>1. \E verdict \in Verdicts : Record(c, verdict)
    BY <1>2 DEF Serve, RefuseByMinute, RefuseByBurst, Verdicts
  <2> QED
    BY <2>1, RecordEntry
<1> QED
  BY <1>1, <1>2, ServeLog, RefuseByMinuteLog, RefuseByBurstLog, AdvanceLog DEF Next, LogInv

LEMMA RefuseOwn ==
  ASSUME KeysDistinct, LogInv, RefusedForOwnLoad, [Next]_vars
  PROVE  RefusedForOwnLoad'
<1> DEFINE OwnLoad(r, before, among) ==
             /\ r.verdict = "minute" =>
                  Cardinality(OwnBefore(before, r, MinuteWindow)) >= PerMinute
             /\ r.verdict = "burst" =>
                  Cardinality(OwnBefore(among, r, BurstWindow)) >= Burst
<1>1. /\ EnvInv /\ Numbered
      /\ LimiterOK(minute, PerMinute, turn) /\ LimiterOK(burst, Burst, turn)
      /\ Tracks(minute, ToMinute, log, MinuteWindow)
      /\ Tracks(burst, ToBurst, ToMinute, BurstWindow)
  BY DEF LogInv, LimiterInv, MinuteInv, BurstInv, TracksMinute, TracksBurst
<1>2. ASSUME NEW c \in Clients, NEW verdict \in Verdicts, Record(c, verdict),
             OwnLoad(Entry(c, verdict), ToMinute, ToBurst)
      PROVE  RefusedForOwnLoad'
  <2> DEFINE e == Entry(c, verdict)
             C == IF verdict = "minute" THEN {} ELSE {e}
             D == IF verdict = "served" THEN {e} ELSE {}
  <2>1. /\ e.n = turn /\ turn \in Numbers /\ log' = log \cup {e}
        /\ ToMinute' = ToMinute \cup C /\ ToBurst' = ToBurst \cup D
        /\ e.verdict = verdict
    BY <1>2, RecordEntry
  <2>2. C \in SUBSET {e} /\ D \in SUBSET {e}
    OBVIOUS
  <2>3. OwnLoad(e, ToMinute, ToBurst)
    BY <1>2
  <2>4. e.verdict = "minute" => C = {}
    BY <2>1
  <2>5. e.verdict = "burst" => D = {}
    BY <2>1
  <2> HIDE DEF C, D, e
  <2>6. ASSUME NEW r \in log PROVE OwnLoad(r, ToMinute', ToBurst')
    <3>1. /\ OwnBefore(ToMinute', r, MinuteWindow) = OwnBefore(ToMinute, r, MinuteWindow)
          /\ OwnBefore(ToBurst', r, BurstWindow) = OwnBefore(ToBurst, r, BurstWindow)
      <4>1. /\ ToMinute \subseteq ToMinute' /\ \A q \in ToMinute' \ ToMinute : q.n = turn
            /\ ToBurst \subseteq ToBurst' /\ \A q \in ToBurst' \ ToBurst : q.n = turn
        BY <2>1, <2>2
      <4> QED
        BY <1>1, <2>1, <4>1, OwnLater
    <3> QED
      BY <3>1 DEF RefusedForOwnLoad
  <2>7. OwnLoad(e, ToMinute', ToBurst')
    BY <2>1, <2>3, <2>4, <2>5
  <2>8. \A r \in log' : OwnLoad(r, ToMinute', ToBurst')
    BY <2>1, <2>6, <2>7
  <2> QED
    BY <2>8 DEF RefusedForOwnLoad, OwnBefore
<1>3. ASSUME NEW c \in Clients, Serve(c) PROVE RefusedForOwnLoad'
  <2>1. Entry(c, "served").verdict = "served"
    BY DEF Entry
  <2> QED
    BY <1>2, <1>3, <2>1 DEF Serve, Verdicts
<1>4. ASSUME NEW c \in Clients, RefuseByMinute(c) PROVE RefusedForOwnLoad'
  <2> DEFINE e == Entry(c, "minute")
  <2>1. /\ e \in LogEntry /\ e.n = turn /\ e.at = now /\ e.key = ClientKey(c)
        /\ e.client = c /\ e.verdict = "minute" /\ turn \in Numbers
    BY <1>4, RecordEntry DEF RefuseByMinute, Verdicts
  <2>2. Cardinality(OwnBefore(ToMinute, e, MinuteWindow)) >= PerMinute
    <3> HIDE DEF e
    <3> QED
      BY <1>1, <1>4, <2>1, ChargedInLog, OwnNew, LimitAssumption DEF RefuseByMinute
  <2> QED
    BY <1>2, <1>4, <2>1, <2>2 DEF RefuseByMinute, Verdicts
<1>5. ASSUME NEW c \in Clients, RefuseByBurst(c) PROVE RefusedForOwnLoad'
  <2> DEFINE e == Entry(c, "burst")
  <2>1. /\ e \in LogEntry /\ e.n = turn /\ e.at = now /\ e.key = ClientKey(c)
        /\ e.client = c /\ e.verdict = "burst" /\ turn \in Numbers
    BY <1>5, RecordEntry DEF RefuseByBurst, Verdicts
  <2>2. Cardinality(OwnBefore(ToBurst, e, BurstWindow)) >= Burst
    <3> HIDE DEF e
    <3> QED
      BY <1>1, <1>5, <2>1, ChargedInLog, OwnNew, LimitAssumption DEF RefuseByBurst
  <2> QED
    BY <1>2, <1>5, <2>1, <2>2 DEF RefuseByBurst, Verdicts
<1>6. ASSUME Advance \/ UNCHANGED vars PROVE RefusedForOwnLoad'
  BY <1>6 DEF Advance, RefusedForOwnLoad, OwnBefore, ToMinute, ToBurst
<1> QED
  BY <1>3, <1>4, <1>5, <1>6 DEF Next

\* For every limit, window and number of buckets, a key is let past a limit in
\* no window unless as many other keys as there are buckets were used within it
\* (middleware.py:51-70).
THEOREM LimitsAreKept == Spec => []LimitsKept
<1>1. Init => LogInv /\ LimitsKept
  BY InitLog
<1>2. (LogInv /\ LimitsKept) /\ [Next]_vars => (LogInv /\ LimitsKept)'
  BY NextLog
<1> QED
  BY <1>1, <1>2, PTL DEF Spec

\* Where no two clients have the same key, nobody is refused for the requests
\* of another (middleware.py:119-132).  Users whose tokens begin alike do not
\* meet the assumption (run jwt_bucket).
THEOREM RefusedForOwn ==
  ASSUME KeysDistinct
  PROVE  Spec => []RefusedForOwnLoad
<1>1. Init => LogInv /\ RefusedForOwnLoad
  BY InitLog
<1>2. (LogInv /\ RefusedForOwnLoad) /\ [Next]_vars => (LogInv /\ RefusedForOwnLoad)'
  BY NextLog, RefuseOwn
<1> QED
  BY <1>1, <1>2, PTL DEF Spec
=============================================================================
