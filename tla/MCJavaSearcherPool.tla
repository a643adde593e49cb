------------------------- MODULE MCJavaSearcherPool -------------------------
(***************************************************************************)
(* JavaSearcherPool for TLC: two searchers and four users, so that two     *)
(* users can be parked while the others return and borrow again.           *)
(***************************************************************************)
EXTENDS JavaSearcherPool
=============================================================================
