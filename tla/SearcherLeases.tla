--------------------------- MODULE SearcherLeases ---------------------------
(***************************************************************************)
(* What a searcher pool promises, whatever it is made of: a searcher is    *)
(* idle, lent to exactly one user, or retired for good; and once the pool  *)
(* is shut nothing is lent again and what is out can only be retired.      *)
(***************************************************************************)
CONSTANTS Searchers, Users

VARIABLES lease,   \* Searchers -> Users, or one of the states below
          shut     \* the pool has reported that it is closed

leaseVars == <<lease, shut>>

Absent == <<"absent">>
Idle == <<"idle">>
Retired == <<"retired">>
LentTo(u) == <<"lent", u>>

Init ==
    /\ lease = [s \in Searchers |-> Absent]
    /\ shut = FALSE

Admit(s) ==
    /\ ~shut
    /\ lease[s] = Absent
    /\ lease' = [lease EXCEPT ![s] = Idle]
    /\ UNCHANGED shut

\* a user has one searcher at a time
Lend(s, u) ==
    /\ ~shut
    /\ lease[s] = Idle
    /\ \A t \in Searchers : lease[t] # LentTo(u)
    /\ lease' = [lease EXCEPT ![s] = LentTo(u)]
    /\ UNCHANGED shut

GiveBack(s, u) ==
    /\ ~shut
    /\ lease[s] = LentTo(u)
    /\ lease' = [lease EXCEPT ![s] = Idle]
    /\ UNCHANGED shut

Retire(s) ==
    /\ lease[s] \notin {Absent, Retired}
    /\ lease' = [lease EXCEPT ![s] = Retired]
    /\ UNCHANGED shut

\* shutting takes that nothing idle is left behind
Shut ==
    /\ ~shut
    /\ \A s \in Searchers : lease[s] # Idle
    /\ shut' = TRUE
    /\ UNCHANGED lease

Next ==
    \/ \E s \in Searchers : Admit(s) \/ Retire(s)
    \/ \E s \in Searchers, u \in Users : Lend(s, u) \/ GiveBack(s, u)
    \/ Shut

Spec == Init /\ [][Next]_leaseVars
=============================================================================
