---------------------------- MODULE MCListings ----------------------------
(***************************************************************************)
(* Small instances of Listings for TLC.                                    *)
(***************************************************************************)
EXTENDS Listings

CONSTANT A   \* the symbol of the watchlist

\* No ticker of the page has a price, so the market refresh stores no row
EmptyPage == {{}}

\* The site lists everything, or leaves out a whole day
MCLists == {Times, {2}}
============================================================================
