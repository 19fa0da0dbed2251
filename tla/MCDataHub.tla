----------------------------- MODULE MCDataHub -----------------------------
(***************************************************************************)
(* Small instances of DataHub for TLC.                                     *)
(***************************************************************************)
EXTENDS DataHub

CONSTANTS A, B   \* two tickers

\* A page lists both tickers, or A alone (B is halted)
MCPages == {{A, B}, {A}}
============================================================================
