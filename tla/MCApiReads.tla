----------------------------- MODULE MCApiReads -----------------------------
(***************************************************************************)
(* Small instances of ApiReads for TLC: two tickers are the same to the    *)
(* feed and to the routes, so instances may be symmetric in them.          *)
(***************************************************************************)
EXTENDS ApiReads, TLC

Tickers == Permutations(Symbols)
============================================================================
