--------------------------- MODULE MCCangjiePool ---------------------------
(* Two searchers: one can be drained while the other is out.  Three users: *)
(* one holds a searcher, one returns, one has taken a permit too many.     *)
EXTENDS CangjiePool
=============================================================================
