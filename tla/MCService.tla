------------------------------ MODULE MCService ------------------------------
(***************************************************************************)
(* Service for TLC: the pools have two searchers; one of the files may be  *)
(* replaced, once, by any file.  The requests: the default policy for both *)
(* versions and for one, the content in memory beside a pool, and the two  *)
(* configurations swapped.                                                 *)
(***************************************************************************)
EXTENDS Service

Header(structure, ipVersion, ptrBytes, needs) ==
    [structure |-> structure, ipVersion |-> ipVersion,
     ptrBytes |-> ptrBytes, needs |-> needs]

OldV4 == Header(2, 0, 0, 3)
NewV6 == Header(3, 6, 4, 4)
TooLarge == Header(3, 4, 4, 5)

MCHeaders == {OldV4, NewV6, TooLarge}

Both(c4, c6) == [v \in Versions |-> IF v = 4 THEN c4 ELSE c6]

MCRequests ==
    { WithPath({4, 6}), WithPath({6}),
      FromOptions("BufferCache", "NoCache"),
      Both(Config("NoCache", 6), Config("BufferCache", 4)) }
=============================================================================
