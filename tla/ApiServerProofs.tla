--------------------------- MODULE ApiServerProofs ---------------------------
(***************************************************************************)
(* Proofs about ApiServer, for any processes, tables and old rows, any     *)
(* settings and any clock: what a process finds when it is through with    *)
(* init_db, what start-ups do to the quotes, and how long tokens serve.    *)
(***************************************************************************)
EXTENDS ApiServer, NatLemmas

USE DEF schemaVars, fileVars, procVars

\* A table a process would find missing now is one it has still to look for,
\* or has on its list
Plan ==
  \A p \in Procs : stage[p] \in {"tables", "index"} =>
    Tables \ tables \subseteq unseen[p] \cup missing[p]

\* A process that makes an index has looked for all tables
Looked == \A p \in Procs : stage[p] = "index" => unseen[p] = {}

\* The index holds, and the ids of the rows tell them apart
IndexHolds == uq => Unique(quotes)
IdsOK == \A r, q \in quotes : r.id = q.id => r = q

SchemaInv == SchemaTypeOK /\ Plan /\ Looked /\ UpHasSchema /\ IndexHolds /\ IdsOK

\* A process that runs has accepted its settings
SettingsOK == stage[Api] # "down" => Hardened(conf)

TokenOK ==
  token # NoToken =>
    /\ token.at <= now
    /\ token.exp = Second(token.at + token.lifetime * PerSecond)

Inv == SchemaInv /\ TypeOK /\ SettingsOK /\ TokenOK

SchemaStep == \E p \in Procs : Start(p) \/ Creates(p) \/ Works(p) \/ Crash(p)

-----------------------------------------------------------------------------
\* Whole seconds.

LEMMA SecondIs ==
  ASSUME NEW x \in Nat
  PROVE  Second(x) \in Nat
BY AccessAssumption, Z3 DEF Second

LEMMA SecondMonotone ==
  ASSUME NEW x \in Nat, NEW y \in Nat, x <= y
  PROVE  Second(x) <= Second(y)
BY AccessAssumption, Z3 DEF Second

LEMMA SecondLater ==
  ASSUME NEW x \in Nat, NEW y \in Nat, x + PerSecond <= y
  PROVE  Second(x) < Second(y)
BY AccessAssumption, Z3 DEF Second

-----------------------------------------------------------------------------
\* init_db.

\* The migration keeps, of the rows of one stamp, the one of the lowest id
LEMMA DeduplicatedUnique ==
  ASSUME NEW S \in SUBSET Rows, \A r, q \in S : r.id = q.id => r = q
  PROVE  Deduplicated(S) \subseteq S /\ Unique(Deduplicated(S))
<1> SUFFICES ASSUME NEW r \in Deduplicated(S), NEW q \in Deduplicated(S),
                    r.stamp = q.stamp, r.stamp # NoStamp
             PROVE  r = q
  BY DEF Deduplicated, Unique
<1>1. r \in S /\ q \in S /\ r.id <= q.id /\ q.id <= r.id
  BY DEF Deduplicated
<1>2. r.id \in Int /\ q.id \in Int
  BY <1>1, SchemaAssumption DEF Rows
<1> QED
  BY <1>1, <1>2

LEMMA InitSchema == SchemaInit => SchemaInv
<1> SUFFICES ASSUME SchemaInit PROVE SchemaInv
  OBVIOUS
<1> USE DEF SchemaInit
<1>1. quotes \subseteq Rows /\ IdsOK
  BY SchemaAssumption DEF Rows, IdsOK
<1>2. /\ stage \in [Procs -> {"down", "tables", "index", "up"}]
      /\ unseen \in [Procs -> SUBSET Tables] /\ missing \in [Procs -> SUBSET Tables]
      /\ \A p \in Procs : unseen[p] = {} /\ missing[p] = {}
  OBVIOUS
<1>3. uq \in BOOLEAN /\ tables \subseteq Tables
  OBVIOUS
<1>4. crashes \in 0..MaxCrashes
  BY SchemaAssumption
<1>5. SchemaTypeOK
  BY <1>1, <1>2, <1>3, <1>4, Zenon DEF SchemaTypeOK
<1> QED
  BY <1>1, <1>2, <1>5 DEF SchemaInv, Plan, Looked, UpHasSchema, IndexHolds

\* What a process does to its own variables, and to those of no other
LEMMA SchemaTyped ==
  ASSUME SchemaInv, SchemaStep
  PROVE  SchemaTypeOK' /\ IdsOK'
<1> USE DEF SchemaInv
<1> PICK p \in Procs : Start(p) \/ Creates(p) \/ Works(p) \/ Crash(p)
  BY DEF SchemaStep
<1>1. CASE Start(p) \/ EndTick(p) \/ CreateIndex(p) \/ IndexExists(p)
  <2>1. CASE Start(p)
    BY <2>1 DEF Start, SchemaTypeOK, IdsOK
  <2>2. CASE EndTick(p) \/ IndexExists(p)
    BY <2>2 DEF EndTick, IndexExists, Stops, SchemaTypeOK, IdsOK
  <2>3. CASE CreateIndex(p)
    BY <2>3 DEF CreateIndex, SchemaTypeOK, IdsOK
  <2> QED
    BY <1>1, <2>1, <2>2, <2>3
<1>5. CASE Crash(p)
  <2>1. crashes' \in 0..MaxCrashes
    BY <1>5, SchemaAssumption DEF Crash, SchemaTypeOK
  <2> QED
    BY <1>5, <2>1 DEF Crash, Stops, SchemaTypeOK, IdsOK
<1>2. ASSUME NEW t \in Tables, LookFor(p, t) \/ CreateTable(p, t) \/ TableExists(p, t)
      PROVE  SchemaTypeOK' /\ IdsOK'
  BY <1>2 DEF LookFor, CreateTable, TableExists, Stops, SchemaTypeOK, IdsOK
<1>3. CASE Migrate(p)
  <2>1. Deduplicated(quotes) \subseteq quotes
    BY DeduplicatedUnique DEF SchemaTypeOK, IdsOK
  <2> QED
    BY <1>3, <2>1 DEF Migrate, SchemaTypeOK, IdsOK
<1>4. ASSUME NEW stamp \in Stamps, StoreQuote(p, stamp)
      PROVE  SchemaTypeOK' /\ IdsOK'
  <2>1. PICK id \in 1..MaxRows : /\ \A r \in quotes : r.id < id
                                 /\ quotes' = quotes \cup {[id |-> id, stamp |-> stamp]}
    BY <1>4 DEF StoreQuote
  <2>2. \A r \in quotes : r.id \in Int
    BY SchemaAssumption DEF SchemaTypeOK, Rows
  <2>3. quotes' \subseteq Rows /\ IdsOK'
    BY <2>1, <2>2 DEF SchemaTypeOK, Rows, IdsOK
  <2> QED
    BY <1>4, <2>3 DEF StoreQuote, SchemaTypeOK
<1> QED
  BY <1>1, <1>2, <1>3, <1>4, <1>5 DEF Creates, Works

\* Tables and the index are never taken back, and the plan of a process is
\* only changed by itself
LEMMA SchemaGrows ==
  ASSUME SchemaInv, SchemaStep
  PROVE  tables \subseteq tables' /\ tables' \subseteq Tables /\ (uq => uq')
<1> PICK p \in Procs : Start(p) \/ Creates(p) \/ Works(p) \/ Crash(p)
  BY DEF SchemaStep
<1> USE DEF SchemaInv, SchemaTypeOK
<1>1. CASE Start(p) \/ Works(p) \/ Crash(p)
  BY <1>1 DEF Start, Works, EndTick, StoreQuote, Crash
<1>2. CASE Creates(p)
  BY <1>2 DEF Creates, LookFor, CreateTable, TableExists, CreateIndex, IndexExists, Migrate
<1> QED
  BY <1>1, <1>2

LEMMA PlanKept ==
  ASSUME SchemaInv, SchemaStep
  PROVE  Plan' /\ Looked'
<1> PICK p \in Procs : Start(p) \/ Creates(p) \/ Works(p) \/ Crash(p)
  BY DEF SchemaStep
<1>1. tables \subseteq tables'
  BY SchemaGrows
<1> USE <1>1 DEF SchemaInv, SchemaTypeOK, Plan, Looked
<1>2. CASE Start(p)
  BY <1>2 DEF Start
<1>3. CASE Crash(p) \/ EndTick(p) \/ IndexExists(p)
  BY <1>3 DEF Crash, EndTick, IndexExists, Stops
<1>4. ASSUME NEW t \in Tables, LookFor(p, t)
      PROVE  Plan' /\ Looked'
  BY <1>4 DEF LookFor
<1>5. ASSUME NEW t \in Tables, CreateTable(p, t)
      PROVE  Plan' /\ Looked'
  BY <1>5 DEF CreateTable
<1>6. ASSUME NEW t \in Tables, TableExists(p, t)
      PROVE  Plan' /\ Looked'
  BY <1>6 DEF TableExists, Stops
<1>7. CASE CreateIndex(p) \/ Migrate(p)
  BY <1>7 DEF CreateIndex, Migrate
<1>8. ASSUME NEW stamp \in Stamps, StoreQuote(p, stamp)
      PROVE  Plan' /\ Looked'
  BY <1>8 DEF StoreQuote
<1> QED
  BY <1>2, <1>3, <1>4, <1>5, <1>6, <1>7, <1>8 DEF Creates, Works

\* Only the migration brings a process up, when it has found or made every
\* table, and it leaves the index made
LEMMA UpKept ==
  ASSUME SchemaInv, SchemaStep
  PROVE  UpHasSchema'
<1> PICK p \in Procs : Start(p) \/ Creates(p) \/ Works(p) \/ Crash(p)
  BY DEF SchemaStep
<1>1. tables \subseteq tables' /\ tables' \subseteq Tables /\ (uq => uq')
  BY SchemaGrows
<1>2. CASE Migrate(p)
  <2>1. tables = Tables
    BY <1>2 DEF Migrate, SchemaInv, SchemaTypeOK, Plan
  <2> QED
    BY <1>2, <2>1 DEF Migrate, UpHasSchema
<1>3. CASE ~Migrate(p)
  <2>1. \A q \in Procs : stage'[q] = "up" => stage[q] = "up"
    BY <1>3 DEF SchemaInv, SchemaTypeOK, Start, Creates, LookFor, CreateTable, TableExists,
                CreateIndex, IndexExists, Works, StoreQuote, EndTick, Crash, Stops
  <2> QED
    BY <1>1, <2>1 DEF SchemaInv, UpHasSchema
<1> QED
  BY <1>2, <1>3

LEMMA IndexKept ==
  ASSUME SchemaInv, SchemaStep
  PROVE  IndexHolds'
<1> PICK p \in Procs : Start(p) \/ Creates(p) \/ Works(p) \/ Crash(p)
  BY DEF SchemaStep
<1> USE DEF SchemaInv, IndexHolds
<1>1. CASE Migrate(p)
  BY <1>1 DEF Migrate, Unique
<1>2. CASE CreateIndex(p)
  BY <1>2 DEF CreateIndex, Unique
<1>3. ASSUME NEW stamp \in Stamps, StoreQuote(p, stamp)
      PROVE  IndexHolds'
  <2>1. PICK id \in 1..MaxRows : quotes' = quotes \cup {[id |-> id, stamp |-> stamp]}
    BY <1>3 DEF StoreQuote
  <2> QED
    BY <1>3, <2>1 DEF StoreQuote, Unique
<1>4. CASE UNCHANGED <<uq, quotes>>
  BY <1>4 DEF Unique
<1> QED
  BY <1>1, <1>2, <1>3, <1>4
     DEF Start, Creates, LookFor, CreateTable, TableExists, IndexExists, Works, EndTick, Crash

LEMMA SchemaNext ==
  ASSUME SchemaInv, SchemaStep \/ UNCHANGED schemaVars
  PROVE  SchemaInv'
<1>1. CASE SchemaStep
  BY <1>1, SchemaTyped, PlanKept, UpKept, IndexKept DEF SchemaInv
<1>2. CASE UNCHANGED schemaVars
  BY <1>2 DEF SchemaInv, SchemaTypeOK, Plan, Looked, UpHasSchema, IndexHolds, IdsOK, Unique
<1> QED
  BY <1>1, <1>2

-----------------------------------------------------------------------------
\* The server.

USE DEF vars, apiVars

LEMMA InitInv == Init => Inv
<1> SUFFICES ASSUME Init PROVE Inv
  OBVIOUS
<1>1. SchemaInv
  BY InitSchema DEF Init
<1>2. stage[Api] = "down"
  BY ServerAssumption DEF Init, SchemaInit
<1>3. now \in 0..MaxNow
  BY AccessAssumption DEF Init
<1> QED
  BY <1>1, <1>2, <1>3 DEF Init, Inv, TypeOK, SchemaInv, SettingsOK, TokenOK

\* The claims of a token that is made now
LEMMA TokenMade ==
  ASSUME NEW c \in Configs, NEW name \in Names, NEW t \in Nat
  PROVE  /\ CreateToken(c, name, t) \in Tokens
         /\ CreateToken(c, name, t).at = t
         /\ CreateToken(c, name, t).exp = Second(t + CreateToken(c, name, t).lifetime * PerSecond)
<1>1. c.secret \in Secrets /\ c.lifetime \in Nat
  BY ServerAssumption DEF Settings
<1>2. t + c.lifetime * PerSecond \in Nat
  BY <1>1, AccessAssumption
<1> QED
  BY <1>1, <1>2, SecondIs DEF CreateToken, Tokens

\* A step of a process, which leaves settings, token and clock alone
ServerStep(p) ==
  \/ ApiStarts
  \/ WorkerStarts(p)
  \/ (Creates(p) \/ Works(p) \/ Crash(p)) /\ UNCHANGED apiVars

LEMMA NextInv ==
  ASSUME Inv, [Next]_vars
  PROVE  Inv'
<1>1. conf \in Configs /\ now \in 0..MaxNow /\ now \in Nat
  BY AccessAssumption DEF Inv, TypeOK
<1>2. ASSUME NEW p \in Procs, ServerStep(p)
      PROVE  Inv'
  <2>1. SchemaStep /\ UNCHANGED apiVars
    BY <1>2, ServerAssumption DEF ServerStep, ApiStarts, WorkerStarts, SchemaStep
  <2>2. SchemaInv'
    BY <2>1, SchemaNext DEF Inv
  <2>3. SettingsOK'
    <3>1. CASE ApiStarts
      BY <3>1 DEF ApiStarts, SettingsOK
    <3>2. CASE ~ApiStarts
      <4>1. stage'[Api] # "down" => stage[Api] # "down"
        BY <1>2, <3>2, ServerAssumption
           DEF ServerStep, Inv, SchemaInv, SchemaTypeOK, WorkerStarts, Start, Creates, LookFor, CreateTable,
               TableExists, CreateIndex, IndexExists, Migrate, Works, StoreQuote, EndTick, Crash, Stops
      <4> QED
        BY <2>1, <4>1 DEF Inv, SettingsOK
    <3> QED
      BY <3>1, <3>2
  <2> QED
    BY <2>1, <2>2, <2>3 DEF Inv, TypeOK, TokenOK, SchemaInv
<1>3. ASSUME NEW c \in Configs, Configure(c)
      PROVE  Inv'
  <2>1. SchemaInv'
    BY <1>3, SchemaNext DEF Inv, Configure
  <2> QED
    BY <1>3, <2>1 DEF Inv, TypeOK, SettingsOK, TokenOK, SchemaInv, Configure
<1>4. ASSUME NEW name \in Names, NEW password \in Passwords, IssueToken(name, password)
      PROVE  Inv'
  <2>1. SchemaInv'
    BY <1>4, SchemaNext DEF Inv, IssueToken
  <2>2. token' \in Tokens /\ TokenOK'
    BY <1>1, <1>4, TokenMade DEF IssueToken, TokenOK
  <2> QED
    BY <1>4, <2>1, <2>2 DEF Inv, TypeOK, SettingsOK, SchemaInv, IssueToken
<1>5. CASE Advance
  <2>1. SchemaInv'
    BY <1>5, SchemaNext DEF Inv, Advance
  <2>2. now' \in 0..MaxNow /\ TokenOK'
    BY <1>1, <1>5, AccessAssumption DEF Inv, TypeOK, Tokens, TokenOK, Advance
  <2> QED
    BY <1>5, <2>1, <2>2 DEF Inv, TypeOK, SettingsOK, SchemaInv, Advance
<1>6. CASE UNCHANGED vars
  <2>1. SchemaInv'
    BY <1>6, SchemaNext DEF Inv
  <2> QED
    BY <1>6, <2>1 DEF Inv, TypeOK, SettingsOK, TokenOK, SchemaInv
<1>7. CASE Next
  <2>1. CASE ApiStarts
    BY <2>1, <1>2, ServerAssumption DEF ServerStep
  <2>2. CASE \E p \in Procs : WorkerStarts(p)
    BY <2>2, <1>2 DEF ServerStep
  <2>3. CASE \E p \in Procs : Creates(p) /\ UNCHANGED apiVars
    <3> PICK p \in Procs : Creates(p) /\ UNCHANGED apiVars
      BY <2>3
    <3> ServerStep(p)
      BY DEF ServerStep
    <3> QED
      BY <1>2
  <2>4. CASE \E p \in Procs : (Works(p) \/ Crash(p)) /\ UNCHANGED apiVars
    <3> PICK p \in Procs : (Works(p) \/ Crash(p)) /\ UNCHANGED apiVars
      BY <2>4
    <3> ServerStep(p)
      BY DEF ServerStep
    <3> QED
      BY <1>2
  <2> QED
    BY <1>7, <2>1, <2>2, <2>3, <2>4, <1>3, <1>4, <1>5 DEF Next
<1> QED
  BY <1>6, <1>7

\* The inductive invariant holds in every behaviour (database.py:63-69).
THEOREM InvHolds == Spec => []Inv
BY InitInv, NextInv, PTL DEF Spec

-----------------------------------------------------------------------------
\* The theorems.

\* Processes, file, settings and tokens are well typed, and a process that is
\* down or up has no plan left, for any number of processes (database.py:63-69).
THEOREM ServerTypeCorrect == Spec => []TypeOK
<1>1. Inv => TypeOK
  BY DEF Inv
<1> QED
  BY <1>1, InvHolds, PTL

\* A process past init_db finds every table and the unique index, however many
\* processes start, fail and stop at once (database.py:63-69).
THEOREM UpFindsSchema == Spec => []UpHasSchema
<1>1. Inv => UpHasSchema
  BY DEF Inv, SchemaInv
<1> QED
  BY <1>1, InvHolds, PTL

\* No two quotes of one symbol and time lie side by side once a process is up
\* (models.py:46).
THEOREM QuotesAreUnique == Spec => []QuotesUnique
<1>1. Inv => QuotesUnique
  BY DEF Inv, SchemaInv, UpHasSchema, IndexHolds, QuotesUnique
<1> QED
  BY <1>1, InvHolds, PTL

\* Of the rows of a stamp one has the lowest id
LEMMA OldestRow ==
  ASSUME NEW S \in SUBSET Rows, NEW r \in S
  PROVE  \E q \in S : /\ q.stamp = r.stamp
                      /\ \A u \in S : u.stamp = r.stamp => q.id <= u.id
<1> DEFINE T == {u.id : u \in {v \in S : v.stamp = r.stamp}}
<1>1. T \subseteq Nat /\ T # {}
  BY SchemaAssumption DEF Rows
<1>2. PICK x \in T : \A y \in T : x <= y
  BY <1>1, LeastNat
<1> QED
  BY <1>2

\* No start-up loses a quote but to an older one of the same symbol and time,
\* whatever the table held before (database.py:36-55).
THEOREM NoQuoteIsLost == Spec => NothingLost
<1> DEFINE Kept ==
      \A r \in quotes \ quotes' :
        r.stamp # NoStamp /\ \E q \in quotes' : q.stamp = r.stamp /\ q.id < r.id
<1>1. ASSUME Inv, [Next]_vars
      PROVE  [Kept]_schemaVars
  <2>1. ASSUME NEW p \in Procs, Migrate(p)
        PROVE  Kept
    <3> SUFFICES ASSUME NEW r \in quotes \ quotes'
                 PROVE  r.stamp # NoStamp /\ \E q \in quotes' : q.stamp = r.stamp /\ q.id < r.id
      OBVIOUS
    <3>1. quotes' = Deduplicated(quotes) /\ quotes \subseteq Rows
      BY <1>1, <2>1 DEF Migrate, Inv, SchemaInv, SchemaTypeOK
    <3>2. r.stamp # NoStamp
      BY <3>1 DEF Deduplicated
    <3>3. PICK q \in quotes : /\ q.stamp = r.stamp
                              /\ \A u \in quotes : u.stamp = r.stamp => q.id <= u.id
      BY <3>1, OldestRow
    <3>4. q \in quotes'
      BY <3>1, <3>3 DEF Deduplicated
    <3>5. q.id \in Int /\ r.id \in Int /\ q.id <= r.id
      BY <3>1, <3>3, SchemaAssumption DEF Rows
    <3>6. q.id # r.id
      BY <1>1, <3>3, <3>4 DEF Inv, SchemaInv, IdsOK
    <3> QED
      BY <3>2, <3>3, <3>4, <3>5, <3>6
  <2>2. CASE ~\E p \in Procs : Migrate(p)
    <3>1. quotes \subseteq quotes'
      BY <1>1, <2>2, ServerAssumption
         DEF Next, ApiStarts, WorkerStarts, Start, Creates, LookFor, CreateTable, TableExists,
             CreateIndex, IndexExists, Works, StoreQuote, EndTick, Crash, Configure, IssueToken,
             Advance
    <3> QED
      BY <3>1
  <2> QED
    BY <2>1, <2>2
<1> QED
  BY <1>1, InvHolds, PTL DEF Spec, NothingLost

\* A server that answers requests from any origin is local, however ENV is
\* written (config.py:150, app.py:40).
THEOREM AnyOriginOnlyLocal == Spec => []AnyOriginIsLocal
<1>1. Inv => AnyOriginIsLocal
  BY DEF Inv, SettingsOK, AnyOriginIsLocal, Serving, Hardened, CorsOrigins
<1> QED
  BY <1>1, InvHolds, PTL

\* Tokens made under the placeholder secret let nobody in outside local
\* environments (config.py:151-155).
THEOREM LocalTokensAreRefused == Spec => []LocalTokensRefused
<1>1. Inv => LocalTokensRefused
  <2> SUFFICES ASSUME Inv, Serving, ~IsLocal(conf), token # NoToken,
                      token.secret = DefaultSecret, NEW key \in ApiKeys \cup {NoKey}
               PROVE  RequireAuth(conf, key, token, now).as # "jwt"
    BY DEF LocalTokensRefused
  <2>1. conf.secret # DefaultSecret
    BY DEF Inv, SettingsOK, Serving, Hardened
  <2>2. ParseToken(conf, token, now) = Unauthorised
    BY <2>1 DEF ParseToken, Decodes
  <2> QED
    BY <2>2 DEF RequireAuth, AuthOff, Granted, Unauthorised
<1> QED
  BY <1>1, InvHolds, PTL

\* A token alone lets requests in for its lifetime, under a policy that looks at
\* tokens, and lets none in a second after it, under another secret or under
\* another policy, whatever the unit of the clock (auth.py:81-90,
\* dependencies.py:66-73).
THEOREM TokensLast == Spec => []TokenLifetime
<1>1. Inv => TokenLifetime
  <2> SUFFICES ASSUME Inv, token # NoToken PROVE TokenLifetime
    BY DEF TokenLifetime
  <2> DEFINE life == token.lifetime * PerSecond
             end == token.at + life
             LetIn(key) == RequireAuth(conf, key, token, now).as = "jwt"
             Useful == conf.mode \in {"jwt", "hybrid"} /\ token.secret = conf.secret
  <2>1. token.at \in Nat /\ token.lifetime \in Nat /\ now \in Nat
    BY AccessAssumption DEF Inv, TypeOK, Tokens
  <2>2. life \in Nat /\ end \in Nat
    BY <2>1, AccessAssumption
  <2>3. token.at <= now /\ token.exp = Second(end)
    BY DEF Inv, TokenOK
  <2>4. Second(end) \in Nat /\ Second(now) \in Nat /\ PerSecond \in Nat
    BY <2>1, <2>2, SecondIs, AccessAssumption
  <2>5. now - token.at <= life => token.exp >= Second(now)
    <3> HIDE DEF life
    <3> SUFFICES ASSUME now - token.at <= life PROVE token.exp >= Second(now)
      OBVIOUS
    <3>1. now <= end
      BY <2>1, <2>2
    <3>2. Second(now) <= Second(end)
      BY <3>1, <2>1, <2>2, SecondMonotone
    <3> QED
      BY <3>2, <2>3, <2>4
  <2>6. now - token.at >= life + PerSecond => ~(token.exp >= Second(now))
    <3> HIDE DEF life
    <3> SUFFICES ASSUME now - token.at >= life + PerSecond PROVE ~(token.exp >= Second(now))
      OBVIOUS
    <3>1. end + PerSecond <= now
      BY <2>1, <2>2, <2>4
    <3>2. Second(end) < Second(now)
      BY <3>1, <2>1, <2>2, SecondLater
    <3> QED
      BY <3>2, <2>3, <2>4
  <2>7. Useful /\ token.exp >= Second(now) => LetIn(NoKey)
    BY DEF RequireAuth, KeyMatches, ParseToken, Decodes, Granted
  <2>8. \A key : LetIn(key) => Useful /\ token.exp >= Second(now)
    BY DEF RequireAuth, AuthOff, ParseToken, Decodes, Granted, Unauthorised
  <2> HIDE DEF LetIn, Useful, life
  <2>9. /\ Useful /\ now - token.at <= life => LetIn(NoKey)
        /\ ~Useful \/ now - token.at >= life + PerSecond
             => \A key \in ApiKeys \cup {NoKey} : ~LetIn(key)
    BY <2>5, <2>6, <2>7, <2>8
  <2> QED
    BY <2>9 DEF TokenLifetime, LetIn, Useful, life
<1> QED
  BY <1>1, InvHolds, PTL

\* No credential spoils another: what one alone lets in, both do, in every
\* mode (dependencies.py:66-73).
THEOREM CredentialsNeverSpoil == Spec => []CredentialsAddUp
<1>1. Inv => CredentialsAddUp
  BY DEF CredentialsAddUp, RequireAuth, AuthOff, ParseToken, KeyMatches, Granted, Unauthorised
<1> QED
  BY <1>1, InvHolds, PTL
-----------------------------------------------------------------------------
\* Lost races.

\* What a process may still lose a race for: the tables that are not there yet
\* or that it has found missing, and the index of the quotes
Contested(p) ==
  {<<"table", t>> : t \in (Tables \ tables) \cup missing[p]}
    \cup (IF Quotes \notin tables \/ stage[p] = "index" THEN {<<"index", Quotes>>} ELSE {})

LosesRace(p) == (\E t \in Tables : TableExists(p, t)) \/ IndexExists(p)

\* No step makes a thing contested again, and a race lost settles one for good
RaceSettles ==
  \A p \in Procs :
    /\ Contested(p)' \subseteq Contested(p)
    /\ LosesRace(p) => Contested(p)' # Contested(p)

\* Who makes the index has made the table before
IndexHasTable == \A p \in Procs : stage[p] = "index" => Quotes \in tables

LEMMA NextSchema == [Next]_vars => SchemaStep \/ UNCHANGED schemaVars
BY ServerAssumption
   DEF Next, ApiStarts, WorkerStarts, Configure, IssueToken, Advance, SchemaStep

LEMMA IndexAfterTable == Spec => []IndexHasTable
<1>1. Init => IndexHasTable
  BY DEF Init, SchemaInit, IndexHasTable
<1>2. Inv /\ IndexHasTable /\ [Next]_vars => IndexHasTable'
  <2> SUFFICES ASSUME Inv, IndexHasTable, [Next]_vars PROVE IndexHasTable'
    OBVIOUS
  <2>1. SchemaStep \/ UNCHANGED schemaVars
    BY NextSchema
  <2>2. CASE UNCHANGED schemaVars
    BY <2>2 DEF IndexHasTable
  <2>3. ASSUME NEW p \in Procs, Start(p) \/ Creates(p) \/ Works(p) \/ Crash(p)
        PROVE  IndexHasTable'
    <3>1. tables \subseteq tables'
      BY <2>3, SchemaGrows DEF SchemaStep, Inv
    <3>2. \A q \in Procs : stage'[q] = "index" => stage[q] = "index" \/ Quotes \in tables'
      BY <2>3 DEF Inv, SchemaInv, SchemaTypeOK, Start, Creates, LookFor, CreateTable, TableExists,
                  CreateIndex, IndexExists, Migrate, Works, StoreQuote, EndTick, Crash, Stops
    <3> QED
      BY <3>1, <3>2 DEF IndexHasTable
  <2> QED
    BY <2>1, <2>2, <2>3 DEF SchemaStep
<1> QED
  BY <1>1, <1>2, InvHolds, PTL DEF Spec

\* A process is sent back to its start by another at most once for each table
\* and once for the index, over all the times it starts: workers start at every
\* tick, but what has been lost to another exists from then on
\* (database.py:63-69, worker.py:29-31).
THEOREM RacesEnd == Spec => [][RaceSettles]_vars
<1>1. Inv /\ IndexHasTable /\ [Next]_vars => [RaceSettles]_vars
  <2> SUFFICES ASSUME Inv, IndexHasTable, Next PROVE RaceSettles
    BY DEF RaceSettles, Contested
  <2>1. SchemaStep \/ UNCHANGED schemaVars
    BY NextSchema
  <2>2. CASE UNCHANGED schemaVars
    <3>1. \A p \in Procs : ~LosesRace(p)
      BY <2>2 DEF LosesRace, TableExists, IndexExists, Stops, Inv, SchemaInv, SchemaTypeOK
    <3> QED
      BY <2>2, <3>1 DEF RaceSettles, Contested
  <2>3. CASE SchemaStep
    <3> PICK q \in Procs : Start(q) \/ Creates(q) \/ Works(q) \/ Crash(q)
      BY <2>3 DEF SchemaStep
    <3>1. tables \subseteq tables' /\ tables' \subseteq Tables
      BY <2>3, SchemaGrows DEF Inv
    <3>2. \A p \in Procs : missing'[p] \subseteq missing[p] \cup (Tables \ tables)
      BY DEF Inv, SchemaInv, SchemaTypeOK, Start, Creates, LookFor, CreateTable, TableExists,
             CreateIndex, IndexExists, Migrate, Works, StoreQuote, EndTick, Crash, Stops
    <3>3. \A p \in Procs : stage'[p] = "index" => stage[p] = "index" \/ Quotes \notin tables
      BY DEF Inv, SchemaInv, SchemaTypeOK, Start, Creates, LookFor, CreateTable, TableExists,
             CreateIndex, IndexExists, Migrate, Works, StoreQuote, EndTick, Crash, Stops
    <3>4. \A p \in Procs : Contested(p)' \subseteq Contested(p)
      BY <3>1, <3>2, <3>3 DEF Contested
    <3>5. ASSUME NEW p \in Procs, NEW t \in Tables, TableExists(p, t)
          PROVE  <<"table", t>> \in Contested(p) /\ <<"table", t>> \notin Contested(p)'
      BY <3>5 DEF TableExists, Stops, Contested, Inv, SchemaInv, SchemaTypeOK
    <3>6. ASSUME NEW p \in Procs, IndexExists(p)
          PROVE  <<"index", Quotes>> \in Contested(p) /\ <<"index", Quotes>> \notin Contested(p)'
      BY <3>6 DEF IndexExists, Stops, Contested, Inv, SchemaInv, SchemaTypeOK, IndexHasTable
    <3> QED
      BY <3>4, <3>5, <3>6 DEF RaceSettles, LosesRace
  <2> QED
    BY <2>1, <2>2, <2>3
<1> QED
  BY <1>1, InvHolds, IndexAfterTable, PTL DEF Spec

\* How far a process is from the end of init_db
InitLeft(p) ==
  LET plan == 4 * Cardinality(unseen[p]) + 2 * Cardinality(missing[p])
  IN  CASE stage[p] = "down"   -> 4 * Cardinality(Tables) + 2
        [] stage[p] = "tables" -> plan + 1
        [] stage[p] = "index"  -> plan + 2
        [] stage[p] = "up"     -> 0

\* A step that does not send a process back brings it nearer to its end
InitAdvances ==
  \A p \in Procs :
    Start(p) \/ (Creates(p) /\ ~LosesRace(p)) => InitLeft(p)' < InitLeft(p)

LEMMA TablesCounted ==
  ASSUME NEW S \in SUBSET Tables
  PROVE  /\ Cardinality(S) \in Nat
         /\ \A t \in S : Cardinality(S \ {t}) = Cardinality(S) - 1
         /\ \A t \in Tables : Cardinality(S \cup {t}) <= Cardinality(S) + 1
<1>1. IsFiniteSet(S)
  BY SchemaAssumption, FS_Subset
<1>2. Cardinality(S) \in Nat /\ \A t \in S : Cardinality(S \ {t}) = Cardinality(S) - 1
  BY <1>1, FS_CardinalityType, FS_RemoveElement
<1>3. ASSUME NEW t \in Tables PROVE Cardinality(S \cup {t}) <= Cardinality(S) + 1
  <2>1. CASE t \in S
    <3>1. S \cup {t} = S
      BY <2>1
    <3> QED
      BY <1>2, <3>1
  <2>2. CASE t \notin S
    BY <1>1, <1>2, <2>2, FS_AddElement
  <2> QED
    BY <2>1, <2>2
<1> QED
  BY <1>2, <1>3

\* A start of init_db that loses no race is over after four steps for each
\* table and two more: nothing in it waits for another process
\* (database.py:63-69).
THEOREM InitsAdvance == Spec => [][InitAdvances]_vars
<1>1. Inv /\ [Next]_vars => [InitAdvances]_vars
  <2> SUFFICES ASSUME Inv, NEW p \in Procs, Start(p) \/ (Creates(p) /\ ~LosesRace(p))
               PROVE  InitLeft(p)' < InitLeft(p)
    BY DEF InitAdvances
  <2> DEFINE U == Cardinality(unseen[p])
             M == Cardinality(missing[p])
             T == Cardinality(Tables)
  <2>0. /\ unseen \in [Procs -> SUBSET Tables] /\ missing \in [Procs -> SUBSET Tables]
        /\ stage \in [Procs -> {"down", "tables", "index", "up"}]
        /\ stage[p] = "down" => missing[p] = {}
    BY DEF Inv, SchemaInv, SchemaTypeOK
  <2>1. U \in Nat /\ M \in Nat /\ T \in Nat
    BY <2>0, TablesCounted
  <2>2. /\ stage[p] = "down"   => InitLeft(p) = 4 * T + 2
        /\ stage[p] = "tables" => InitLeft(p) = 4 * U + 2 * M + 1
        /\ stage[p] = "index"  => InitLeft(p) = 4 * U + 2 * M + 2
    BY Zenon DEF InitLeft
  <2>3. /\ stage'[p] = "tables" => InitLeft(p)' = 4 * U' + 2 * M' + 1
        /\ stage'[p] = "index"  => InitLeft(p)' = 4 * U' + 2 * M' + 2
        /\ stage'[p] = "up"     => InitLeft(p)' = 0
    BY Zenon DEF InitLeft
  <2>4. CASE Start(p)
    <3>1. stage'[p] = "tables" /\ unseen'[p] = Tables /\ missing'[p] = {} /\ stage[p] = "down"
      BY <2>0, <2>4 DEF Start
    <3>2. U' = T /\ M' = 0
      BY <3>1, FS_EmptySet
    <3> QED
      BY <2>1, <2>2, <2>3, <3>1, <3>2
  <2>5. ASSUME NEW t \in Tables, LookFor(p, t) PROVE InitLeft(p)' < InitLeft(p)
    <3>1. /\ stage[p] = "tables" /\ stage'[p] = "tables" /\ t \in unseen[p]
          /\ unseen'[p] = unseen[p] \ {t} /\ missing'[p] \in {missing[p], missing[p] \cup {t}}
      BY <2>0, <2>5 DEF LookFor
    <3>2. U' = U - 1 /\ M' <= M + 1 /\ M' \in Nat
      BY <2>0, <2>1, <3>1, TablesCounted
    <3> QED
      BY <2>1, <2>2, <2>3, <3>1, <3>2
  <2>6. ASSUME NEW t \in Tables, CreateTable(p, t) PROVE InitLeft(p)' < InitLeft(p)
    <3>1. /\ stage[p] = "tables" /\ stage'[p] \in {"tables", "index"} /\ t \in missing[p]
          /\ unseen'[p] = unseen[p] /\ missing'[p] = missing[p] \ {t}
      BY <2>0, <2>6 DEF CreateTable
    <3>2. U' = U /\ M' = M - 1
      BY <2>0, <3>1, TablesCounted
    <3> QED
      BY <2>1, <2>2, <2>3, <3>1, <3>2
  <2>7. CASE CreateIndex(p)
    <3>1. /\ stage[p] = "index" /\ stage'[p] = "tables"
          /\ unseen'[p] = unseen[p] /\ missing'[p] = missing[p]
      BY <2>0, <2>7 DEF CreateIndex
    <3>2. U' = U /\ M' = M
      BY <3>1
    <3> QED
      BY <2>1, <2>2, <2>3, <3>1, <3>2
  <2>8. CASE Migrate(p)
    <3>1. stage[p] = "tables" /\ stage'[p] = "up"
      BY <2>0, <2>8 DEF Migrate
    <3> QED
      BY <2>1, <2>2, <2>3, <3>1
  <2> QED
    BY <2>4, <2>5, <2>6, <2>7, <2>8 DEF Creates, LosesRace
<1> QED
  BY <1>1, InvHolds, PTL DEF Spec

\* The migration is never kept from the index by duplicates, of an old file or
\* stored meanwhile: the DELETE before it leaves one row of each stamp, whatever
\* rows there are (database.py:39-61).
CanMigrate == Unique(Deduplicated(quotes))

THEOREM MigrationGoesThrough == Spec => []CanMigrate
<1>1. Inv => CanMigrate
  BY DeduplicatedUnique DEF Inv, SchemaInv, SchemaTypeOK, IdsOK, CanMigrate
<1> QED
  BY <1>1, InvHolds, PTL
=============================================================================
