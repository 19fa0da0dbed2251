--------------------------- MODULE HubReadsProofs ---------------------------
(***************************************************************************)
(* The hub with its readers implements the read routes on a feed of quotes,*)
(* of which ApiReadsProofs proves what its answers promise.                *)
(***************************************************************************)
EXTENDS HubReads, DataHubProofs

USE DEF hubVars, requestVars, vars, apiVars, pollVars, workerVars, envVars, tables, txnVars, marketVars,
        rowVars, pointVars

\* Worker and API go on as before, with readers beside them
LEMMA HubInvariance == HubSpec => []Inv
<1>1. HubInit => Init
  BY DEF HubInit
<1>2. [HubNext]_hubVars => [Next]_vars
  BY DEF HubNext, Serve, StopServing, Next
<1> QED
  BY InitInv, NextInv, <1>1, <1>2, PTL DEF HubSpec

LEMMA SameFeed == UNCHANGED vars => UNCHANGED Reads!feedVars
BY DEF Reads!feedVars, Reads!tableVars

\* The feed that the worker and the start-up implement is the one that is read
LEMMA FeedIsRead == [Feed!FeedNext]_Feed!feedVars => [Reads!FeedNext]_Reads!feedVars
<1>1. Feed!TimePasses => Reads!TimePasses
  BY DEF Feed!TimePasses, Reads!TimePasses, Feed!tableVars, Reads!tableVars
<1>2. Feed!Expire => Reads!Expire
  BY DEF Feed!Expire, Reads!Expire, Feed!Never, Reads!Never
<1>3. \A s \in Symbols : Feed!Learn(s) => Reads!Learn(s)
  BY DEF Feed!Learn, Reads!Learn
<1>4. \A s \in Symbols : Feed!Publish(s) => Reads!Publish(s)
  BY DEF Feed!Publish, Reads!Publish
<1>5. \A page \in SUBSET Symbols : Feed!List(page) => Reads!List(page)
  BY DEF Feed!List, Reads!List
<1>6. UNCHANGED <<now, Feed!tableVars>> => UNCHANGED <<now, Reads!tableVars>>
  BY DEF Feed!tableVars, Reads!tableVars
<1>7. UNCHANGED Feed!feedVars => UNCHANGED Reads!feedVars
  BY DEF Feed!feedVars, Reads!feedVars, Feed!tableVars, Reads!tableVars
<1> QED
  BY <1>1, <1>2, <1>3, <1>4, <1>5, <1>6, <1>7 DEF Feed!FeedNext, Reads!FeedNext

\* A step of the hub is one of the feed, one of a request, or neither
LEMMA HubStep == Inv /\ [HubNext]_hubVars => [Reads!Next]_Reads!vars
<1> SUFFICES ASSUME Inv, [HubNext]_hubVars PROVE [Reads!Next]_Reads!vars
  OBVIOUS
<1>1. CASE Next /\ UNCHANGED requestVars
  <2>1. [Reads!FeedNext]_Reads!feedVars
    BY <1>1, FeedStep, FeedIsRead
  <2>2. UNCHANGED Reads!readVars
    BY <1>1 DEF Reads!readVars
  <2> QED
    BY <2>1, <2>2 DEF Reads!Next, Reads!vars
<1>2. CASE Serve
  BY <1>2 DEF Serve, Reads!Next
<1>3. CASE StopServing
  BY <1>3 DEF StopServing, Reads!Next, Reads!ReadNext
<1>4. CASE UNCHANGED hubVars
  BY <1>4, SameFeed DEF Reads!vars, Reads!readVars
<1> QED
  BY <1>1, <1>2, <1>3, <1>4 DEF HubNext

\* The hub with its readers implements the read routes on a feed of quotes.
THEOREM ReadsImplemented == HubSpec => ImplementsReads
<1>1. HubInit => Reads!Init
  BY FeedInit DEF HubInit, Reads!Init, Reads!FeedInit, Feed!FeedInit, Reads!Never, Feed!Never
<1> QED
  BY HubInvariance, HubStep, <1>1, PTL DEF HubSpec, ImplementsReads, Reads!Spec
=============================================================================
