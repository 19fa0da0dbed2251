---------------------------- MODULE MarketFetch ----------------------------
(***************************************************************************)
(* What a tick relies on when it fetches the market: a few attempts, then  *)
(* either an overview, whose sectors are names or the upstream's codes, or *)
(* a failure.  PollCycle's FetchMarket, RetryMarket and FetchMarketFails   *)
(* assume no more than this; ProviderFetch implements it.                  *)
(***************************************************************************)
EXTENDS Naturals

CONSTANT MaxAttempts

VARIABLES fate, try, sectors

fetchVars == <<fate, try, sectors>>

FetchInit == fate = "none" /\ try = 1 /\ sectors = "none"

Begin == fate = "none" /\ fate' = "trying" /\ UNCHANGED <<try, sectors>>

TryAgain ==
  /\ fate = "trying" /\ try < MaxAttempts
  /\ try' = try + 1 /\ UNCHANGED <<fate, sectors>>

Deliver(labels) ==
  /\ fate = "trying" /\ fate' = "delivered" /\ sectors' = labels
  /\ UNCHANGED try

GiveUp == fate = "trying" /\ fate' = "failed" /\ UNCHANGED <<try, sectors>>

Leave ==
  /\ fate \in {"delivered", "failed"}
  /\ fate' = "none" /\ try' = 1 /\ sectors' = "none"

FetchNext ==
  \/ Begin \/ TryAgain \/ GiveUp \/ Leave
  \/ \E labels \in {"codes", "names"} : Deliver(labels)

\* A fetch that was begun ends
FetchSpec ==
  FetchInit /\ [][FetchNext]_fetchVars /\ WF_fetchVars(FetchNext /\ fate = "trying")
=============================================================================
