----------------------------- MODULE MCHubReads -----------------------------
(***************************************************************************)
(* Small instances of HubReads for TLC.                                    *)
(***************************************************************************)
EXTENDS HubReads

CONSTANTS A, B   \* two tickers

\* A page lists both tickers, or A alone (B is halted)
MCPages == {{A, B}, {A}}
============================================================================
