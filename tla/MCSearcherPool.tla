--------------------------- MODULE MCSearcherPool ---------------------------
(***************************************************************************)
(* SearcherPool for TLC: two searchers and three users, so that a user     *)
(* waits while the others search, return and borrow again; one of each     *)
(* for the close that nobody wakes.                                        *)
(***************************************************************************)
EXTENDS SearcherPool
=============================================================================
