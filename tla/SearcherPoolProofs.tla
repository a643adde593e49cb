------------------------- MODULE SearcherPoolProofs -------------------------
(***************************************************************************)
(* Proofs about SearcherPool for any number of searchers and users.  Inv   *)
(* is the inductive invariant: the checked invariants, strengthened by     *)
(* what the program counters of the users and the closer imply.            *)
(***************************************************************************)
EXTENDS SearcherPool, FiniteSetTheorems, SequenceTheorems, TLAPS

\* What the control points imply, none of it visible at an API boundary.
\* The last conjunct is why FinishedLeavesNothing holds: once the closer
\* has read lc = 0 nobody can be between the select of ReturnSearcher and
\* its push, since every later select finds the pool closing.
Control ==
    /\ closing <=> cpc # "idle"
    /\ phase = "building" => cpc = "idle"
    /\ phase # "ready" => \A u \in Users : pc[u] = "idle"
    /\ \A u \in Users : pc[u] = "closeIt" => closing
    /\ cpc = "close" => drained \in Searchers
    /\ cpc = "left" /\ lc = 0 => \A u \in Users : pc[u] # "push"
    /\ cpc = "finished" => pool = <<>> /\ \A u \in Users : pc[u] # "push"

Inv == TypeOK /\ SingleOwner /\ OpenIffOwned /\ LoanCountExact /\ Control

-----------------------------------------------------------------------------
(* The channel: a queue of distinct searchers *)

\* A send puts an element that is not in the channel at its end.
LEMMA AppendElements ==
    ASSUME NEW S, NEW q \in Seq(S), NEW s \in S
    PROVE  /\ Append(q, s) \in Seq(S)
           /\ Len(Append(q, s)) = Len(q) + 1
           /\ ToSet(Append(q, s)) = ToSet(q) \cup {s}
           /\ IsInjective(q) /\ s \notin ToSet(q) => IsInjective(Append(q, s))
<1>1. /\ DOMAIN q = 1..Len(q) /\ Len(q) \in Nat
      /\ DOMAIN Append(q, s) = DOMAIN q \cup {Len(q) + 1}
  BY LenProperties
<1> QED
  BY <1>1 DEF ToSet, IsInjective

\* A receive takes the first element, and no other.
LEMMA TailElements ==
    ASSUME NEW S, NEW q \in Seq(S), q # <<>>, IsInjective(q)
    PROVE  /\ Head(q) \in S
           /\ Head(q) \in ToSet(q)
           /\ Tail(q) \in Seq(S)
           /\ ToSet(Tail(q)) = ToSet(q) \ {Head(q)}
           /\ IsInjective(Tail(q))
<1>1. /\ Len(q) \in Nat \ {0} /\ DOMAIN q = 1..Len(q) /\ Head(q) = q[1]
      /\ Head(q) \in S /\ Tail(q) \in Seq(S)
      /\ DOMAIN Tail(q) = 1..(Len(q) - 1)
      /\ \A i \in 1..(Len(q) - 1) : Tail(q)[i] = q[i + 1]
  BY HeadTailProperties, LenProperties, EmptySeq
<1>2. \A j \in 2..Len(q) : j - 1 \in DOMAIN Tail(q) /\ Tail(q)[j - 1] = q[j]
  BY <1>1
<1>3. ToSet(Tail(q)) = {q[j] : j \in 2..Len(q)}
  <2>1. ToSet(Tail(q)) \subseteq {q[j] : j \in 2..Len(q)}
    BY <1>1 DEF ToSet
  <2> QED
    BY <1>2, <2>1 DEF ToSet
<1> QED
  BY <1>1, <1>3 DEF ToSet, IsInjective

\* A channel of distinct searchers has no more of them than there are.
LEMMA DistinctBound ==
    ASSUME NEW S, IsFiniteSet(S), NEW q \in Seq(S), IsInjective(q)
    PROVE  /\ Len(q) <= Cardinality(S)
           /\ ToSet(q) # S => Len(q) < Cardinality(S)
<1>0. Len(q) \in Nat
  BY LenProperties
<1>1. q \in Injection(1..Len(q), S)
  BY LenProperties DEF Injection, IsInjective
<1>2. q \in Surjection(1..Len(q), S) => ToSet(q) = S
  BY LenProperties DEF Injection, Surjection, ToSet
<1>3. Cardinality(1..Len(q)) = Len(q)
  BY <1>0, FS_Interval, SMTT(30)
<1>4. /\ Cardinality(1..Len(q)) <= Cardinality(S)
      /\ Cardinality(1..Len(q)) = Cardinality(S)
            <=> q \in Surjection(1..Len(q), S)
  BY <1>1, FS_Injection
<1> QED
  BY <1>0, <1>2, <1>3, <1>4, FS_CardinalityType

-----------------------------------------------------------------------------
(* Inv is preserved: one lemma per conjunct, one step per action *)

\* The types are preserved; who takes the count down is among the counted.
LEMMA TypeStep == Inv /\ [Next]_vars => TypeOK'
<1> SUFFICES ASSUME Inv, [Next]_vars PROVE TypeOK'
  OBVIOUS
<1> USE DEF Inv, TypeOK, userVars, closerVars, UserPCs, CloserPCs
<1>1. ASSUME NEW s \in Searchers, CreateSearcher(s) PROVE TypeOK'
  BY <1>1, AppendElements DEF CreateSearcher, Unbuilt
<1>2. ASSUME CreateDone PROVE TypeOK'
  BY <1>2 DEF CreateDone
<1>3. ASSUME CreateFails PROVE TypeOK'
  BY <1>3 DEF CreateFails
<1>4. ASSUME NEW u \in Users, StartSearch(u) PROVE TypeOK'
  BY <1>4 DEF StartSearch
<1>5. ASSUME NEW u \in Users, BorrowNil(u) PROVE TypeOK'
  BY <1>5 DEF BorrowNil
<1>6. ASSUME NEW u \in Users, BorrowReceive(u) PROVE TypeOK'
  BY <1>6, TailElements DEF BorrowReceive, SingleOwner
<1>7. ASSUME NEW u \in Users, BorrowCount(u) PROVE TypeOK'
  BY <1>7 DEF BorrowCount
<1>8. ASSUME NEW u \in Users, ReturnSelect(u) PROVE TypeOK'
  BY <1>8 DEF ReturnSelect
<1>9. ASSUME NEW u \in Users, ReturnClose(u) PROVE TypeOK'
  BY <1>9 DEF ReturnClose
<1>10. ASSUME NEW u \in Users, ReturnPush(u) PROVE TypeOK'
  BY <1>10, AppendElements DEF ReturnPush, SingleOwner, Holders, HoldingPCs
<1>11. ASSUME NEW u \in Users, ReturnCount(u) PROVE TypeOK'
  <2>1. u \in Counted /\ IsFiniteSet(Counted)
    BY <1>11, UsersAssumption, FS_Subset DEF ReturnCount, Counted, CountedPCs
  <2>2. Cardinality(Counted) \in Nat \ {0}
    BY <2>1, FS_CardinalityType, FS_EmptySet
  <2>q. QED BY <1>11, <2>2 DEF ReturnCount, LoanCountExact
<1>12. ASSUME CloseStart PROVE TypeOK'
  BY <1>12 DEF CloseStart
<1>13. ASSUME CloseReadCount PROVE TypeOK'
  BY <1>13 DEF CloseReadCount
<1>14. ASSUME CloseReadLeft PROVE TypeOK'
  BY <1>14 DEF CloseReadLeft
<1>15. ASSUME CloseReceive PROVE TypeOK'
  BY <1>15, TailElements DEF CloseReceive, SingleOwner
<1>16. ASSUME CloseSearcher PROVE TypeOK'
  BY <1>16 DEF CloseSearcher
<1>17. ASSUME CloseTimedOut PROVE TypeOK'
  BY <1>17 DEF CloseTimedOut
<1>18. ASSUME TimerFires PROVE TypeOK'
  BY <1>18 DEF TimerFires
<1>19. ASSUME UNCHANGED vars PROVE TypeOK'
  BY <1>19 DEF vars
<1>q. QED
  BY <1>1, <1>2, <1>3, <1>4, <1>5, <1>6, <1>7, <1>8, <1>9, <1>10,
     <1>11, <1>12, <1>13, <1>14, <1>15, <1>16, <1>17, <1>18, <1>19
     DEF Next, CreateStep, CloseStep, UserStep, BorrowSearcher, ReturnSearcher

\* What the phases and the closer's program counter imply stays true.
LEMMA ControlStep == Inv /\ [Next]_vars => Control'
<1> SUFFICES ASSUME Inv, [Next]_vars PROVE Control'
  OBVIOUS
<1> USE DEF Inv, TypeOK, Control, userVars, closerVars
<1>1. ASSUME NEW s \in Searchers, CreateSearcher(s) PROVE Control'
  BY <1>1 DEF CreateSearcher
<1>2. ASSUME CreateDone PROVE Control'
  BY <1>2 DEF CreateDone
<1>3. ASSUME CreateFails PROVE Control'
  BY <1>3 DEF CreateFails
<1>4. ASSUME NEW u \in Users, StartSearch(u) PROVE Control'
  BY <1>4 DEF StartSearch
<1>5. ASSUME NEW u \in Users, BorrowNil(u) PROVE Control'
  BY <1>5 DEF BorrowNil
<1>6. ASSUME NEW u \in Users, BorrowReceive(u) PROVE Control'
  BY <1>6 DEF BorrowReceive
<1>7. ASSUME NEW u \in Users, BorrowCount(u) PROVE Control'
  BY <1>7 DEF BorrowCount
<1>8. ASSUME NEW u \in Users, ReturnSelect(u) PROVE Control'
  BY <1>8 DEF ReturnSelect
<1>9. ASSUME NEW u \in Users, ReturnClose(u) PROVE Control'
  BY <1>9 DEF ReturnClose
<1>10. ASSUME NEW u \in Users, ReturnPush(u) PROVE Control'
  BY <1>10 DEF ReturnPush
<1>11. ASSUME NEW u \in Users, ReturnCount(u) PROVE Control'
  BY <1>11 DEF ReturnCount
<1>12. ASSUME CloseStart PROVE Control'
  BY <1>12 DEF CloseStart
<1>13. ASSUME CloseReadCount PROVE Control'
  <2>1. IsFiniteSet(Counted)
    BY UsersAssumption, FS_Subset DEF Counted
  <2>2. loanCount = 0 => Counted = {}
    BY <2>1, FS_EmptySet DEF LoanCountExact
  <2>3. loanCount = 0 => \A u \in Users : pc[u] # "push"
    BY <2>2 DEF Counted, CountedPCs
  <2>q. QED BY <1>13, <2>3 DEF CloseReadCount
<1>14. ASSUME CloseReadLeft PROVE Control'
  BY <1>14 DEF CloseReadLeft
<1>15. ASSUME CloseReceive PROVE Control'
  BY <1>15, TailElements DEF CloseReceive, SingleOwner
<1>16. ASSUME CloseSearcher PROVE Control'
  BY <1>16 DEF CloseSearcher
<1>17. ASSUME CloseTimedOut PROVE Control'
  BY <1>17 DEF CloseTimedOut
<1>18. ASSUME TimerFires PROVE Control'
  BY <1>18 DEF TimerFires
<1>19. ASSUME UNCHANGED vars PROVE Control'
  BY <1>19 DEF vars
<1>q. QED
  BY <1>1, <1>2, <1>3, <1>4, <1>5, <1>6, <1>7, <1>8, <1>9, <1>10,
     <1>11, <1>12, <1>13, <1>14, <1>15, <1>16, <1>17, <1>18, <1>19
     DEF Next, CreateStep, CloseStep, UserStep, BorrowSearcher, ReturnSearcher

\* The count moves with the goroutines between the two atomic operations.
LEMMA CountStep == Inv /\ [Next]_vars => LoanCountExact'
<1> SUFFICES ASSUME Inv, [Next]_vars PROVE LoanCountExact'
  OBVIOUS
<1>0. IsFiniteSet(Counted)
  BY UsersAssumption, FS_Subset DEF Counted
<1> USE DEF LoanCountExact, userVars, closerVars
<1>1. ASSUME NEW s \in Searchers, CreateSearcher(s) PROVE LoanCountExact'
  <2>1. Counted' = Counted
    BY <1>1 DEF CreateSearcher, Counted
  <2>q. QED BY <1>1, <2>1 DEF CreateSearcher, Inv
<1>2. ASSUME CreateDone PROVE LoanCountExact'
  <2>1. Counted' = Counted
    BY <1>2 DEF CreateDone, Counted
  <2>q. QED BY <1>2, <2>1 DEF CreateDone, Inv
<1>3. ASSUME CreateFails PROVE LoanCountExact'
  <2>1. Counted' = Counted
    BY <1>3 DEF CreateFails, Counted
  <2>q. QED BY <1>3, <2>1 DEF CreateFails, Inv
<1>4. ASSUME NEW u \in Users, StartSearch(u) PROVE LoanCountExact'
  <2>1. Counted' = Counted
    BY <1>4 DEF StartSearch, Inv, TypeOK, Counted, CountedPCs
  <2>q. QED BY <1>4, <2>1 DEF StartSearch, Inv
<1>5. ASSUME NEW u \in Users, BorrowNil(u) PROVE LoanCountExact'
  <2>1. Counted' = Counted
    BY <1>5 DEF BorrowNil, Inv, TypeOK, Counted, CountedPCs
  <2>q. QED BY <1>5, <2>1 DEF BorrowNil, Inv
<1>6. ASSUME NEW u \in Users, BorrowReceive(u) PROVE LoanCountExact'
  <2>1. Counted' = Counted
    BY <1>6 DEF BorrowReceive, Inv, TypeOK, Counted, CountedPCs
  <2>q. QED BY <1>6, <2>1 DEF BorrowReceive, Inv
<1>7. ASSUME NEW u \in Users, BorrowCount(u) PROVE LoanCountExact'
  <2>1. Counted' = Counted \cup {u} /\ u \notin Counted
    BY <1>7 DEF BorrowCount, Inv, TypeOK, Counted, CountedPCs
  <2>q. QED BY <1>7, <2>1, <1>0, FS_AddElement DEF BorrowCount, Inv
<1>8. ASSUME NEW u \in Users, ReturnSelect(u) PROVE LoanCountExact'
  <2>1. Counted' = Counted
    BY <1>8 DEF ReturnSelect, Inv, TypeOK, Counted, CountedPCs
  <2>q. QED BY <1>8, <2>1 DEF ReturnSelect, Inv
<1>9. ASSUME NEW u \in Users, ReturnClose(u) PROVE LoanCountExact'
  <2>1. Counted' = Counted
    BY <1>9 DEF ReturnClose, Inv, TypeOK, Counted, CountedPCs
  <2>q. QED BY <1>9, <2>1 DEF ReturnClose, Inv
<1>10. ASSUME NEW u \in Users, ReturnPush(u) PROVE LoanCountExact'
  <2>1. Counted' = Counted
    BY <1>10 DEF ReturnPush, Inv, TypeOK, Counted, CountedPCs
  <2>q. QED BY <1>10, <2>1 DEF ReturnPush, Inv
<1>11. ASSUME NEW u \in Users, ReturnCount(u) PROVE LoanCountExact'
  <2>1. Counted' = Counted \ {u} /\ u \in Counted
    BY <1>11 DEF ReturnCount, Inv, TypeOK, Counted, CountedPCs
  <2>q. QED BY <1>11, <2>1, <1>0, FS_RemoveElement DEF ReturnCount, Inv
<1>12. ASSUME CloseStart PROVE LoanCountExact'
  <2>1. Counted' = Counted
    BY <1>12 DEF CloseStart, Counted
  <2>q. QED BY <1>12, <2>1 DEF CloseStart, Inv
<1>13. ASSUME CloseReadCount PROVE LoanCountExact'
  <2>1. Counted' = Counted
    BY <1>13 DEF CloseReadCount, Counted
  <2>q. QED BY <1>13, <2>1 DEF CloseReadCount, Inv
<1>14. ASSUME CloseReadLeft PROVE LoanCountExact'
  <2>1. Counted' = Counted
    BY <1>14 DEF CloseReadLeft, Counted
  <2>q. QED BY <1>14, <2>1 DEF CloseReadLeft, Inv
<1>15. ASSUME CloseReceive PROVE LoanCountExact'
  <2>1. Counted' = Counted
    BY <1>15 DEF CloseReceive, Counted
  <2>q. QED BY <1>15, <2>1 DEF CloseReceive, Inv
<1>16. ASSUME CloseSearcher PROVE LoanCountExact'
  <2>1. Counted' = Counted
    BY <1>16 DEF CloseSearcher, Counted
  <2>q. QED BY <1>16, <2>1 DEF CloseSearcher, Inv
<1>17. ASSUME CloseTimedOut PROVE LoanCountExact'
  <2>1. Counted' = Counted
    BY <1>17 DEF CloseTimedOut, Counted
  <2>q. QED BY <1>17, <2>1 DEF CloseTimedOut, Inv
<1>18. ASSUME TimerFires PROVE LoanCountExact'
  <2>1. Counted' = Counted
    BY <1>18 DEF TimerFires, Counted
  <2>q. QED BY <1>18, <2>1 DEF TimerFires, Inv
<1>19. ASSUME UNCHANGED vars PROVE LoanCountExact'
  BY <1>19 DEF vars, Counted, Inv
<1>q. QED
  BY <1>1, <1>2, <1>3, <1>4, <1>5, <1>6, <1>7, <1>8, <1>9, <1>10,
     <1>11, <1>12, <1>13, <1>14, <1>15, <1>16, <1>17, <1>18, <1>19
     DEF Next, CreateStep, CloseStep, UserStep, BorrowSearcher, ReturnSearcher

\* A searcher changes hands, never copies: one step, one owner.
LEMMA OwnerStep == Inv /\ [Next]_vars => SingleOwner'
<1> SUFFICES ASSUME Inv, [Next]_vars PROVE SingleOwner'
  OBVIOUS
<1> USE DEF Inv, TypeOK, SingleOwner, Control, Holders, HoldingPCs,
            userVars, closerVars
<1>1. ASSUME NEW s \in Searchers, CreateSearcher(s) PROVE SingleOwner'
  <2>1. s \notin InPool
    BY <1>1 DEF CreateSearcher, Unbuilt, OpenIffOwned, Open, Owned
  <2>2. InPool' = InPool \cup {s} /\ IsInjective(pool')
    BY <1>1, <2>1, AppendElements DEF CreateSearcher, InPool
  <2>q. QED BY <1>1, <2>2, NobodyAssumption DEF CreateSearcher
<1>2. ASSUME CreateDone PROVE SingleOwner'
  BY <1>2 DEF CreateDone, InPool
<1>3. ASSUME CreateFails PROVE SingleOwner'
  BY <1>3 DEF CreateFails, InPool
<1>4. ASSUME NEW u \in Users, StartSearch(u) PROVE SingleOwner'
  BY <1>4 DEF StartSearch, InPool
<1>5. ASSUME NEW u \in Users, BorrowNil(u) PROVE SingleOwner'
  BY <1>5 DEF BorrowNil, InPool
<1>6. ASSUME NEW u \in Users, BorrowReceive(u) PROVE SingleOwner'
  <2>1. /\ Head(pool) \in Searchers \cap InPool
        /\ InPool' = InPool \ {Head(pool)}
        /\ IsInjective(pool')
    BY <1>6, TailElements DEF BorrowReceive, InPool
  <2>q. QED BY <1>6, <2>1, NobodyAssumption DEF BorrowReceive
<1>7. ASSUME NEW u \in Users, BorrowCount(u) PROVE SingleOwner'
  BY <1>7 DEF BorrowCount, InPool
<1>8. ASSUME NEW u \in Users, ReturnSelect(u) PROVE SingleOwner'
  BY <1>8 DEF ReturnSelect, InPool
<1>9. ASSUME NEW u \in Users, ReturnClose(u) PROVE SingleOwner'
  BY <1>9 DEF ReturnClose, InPool
<1>10. ASSUME NEW u \in Users, ReturnPush(u) PROVE SingleOwner'
  <2>1. held[u] \in Searchers \ InPool
    BY <1>10 DEF ReturnPush
  <2>2. InPool' = InPool \cup {held[u]} /\ IsInjective(pool')
    BY <1>10, <2>1, AppendElements DEF ReturnPush, InPool
  <2>q. QED BY <1>10, <2>1, <2>2, NobodyAssumption DEF ReturnPush
<1>11. ASSUME NEW u \in Users, ReturnCount(u) PROVE SingleOwner'
  BY <1>11 DEF ReturnCount, InPool
<1>12. ASSUME CloseStart PROVE SingleOwner'
  BY <1>12 DEF CloseStart, InPool
<1>13. ASSUME CloseReadCount PROVE SingleOwner'
  BY <1>13 DEF CloseReadCount, InPool
<1>14. ASSUME CloseReadLeft PROVE SingleOwner'
  BY <1>14 DEF CloseReadLeft, InPool
<1>15. ASSUME CloseReceive PROVE SingleOwner'
  <2>1. /\ Head(pool) \in Searchers \cap InPool
        /\ InPool' = InPool \ {Head(pool)}
        /\ IsInjective(pool')
    BY <1>15, TailElements DEF CloseReceive, InPool
  <2>q. QED BY <1>15, <2>1, NobodyAssumption DEF CloseReceive
<1>16. ASSUME CloseSearcher PROVE SingleOwner'
  BY <1>16 DEF CloseSearcher, InPool
<1>17. ASSUME CloseTimedOut PROVE SingleOwner'
  BY <1>17 DEF CloseTimedOut, InPool
<1>18. ASSUME TimerFires PROVE SingleOwner'
  BY <1>18 DEF TimerFires, InPool
<1>19. ASSUME UNCHANGED vars PROVE SingleOwner'
  BY <1>19 DEF vars, InPool
<1>q. QED
  BY <1>1, <1>2, <1>3, <1>4, <1>5, <1>6, <1>7, <1>8, <1>9, <1>10,
     <1>11, <1>12, <1>13, <1>14, <1>15, <1>16, <1>17, <1>18, <1>19
     DEF Next, CreateStep, CloseStep, UserStep, BorrowSearcher, ReturnSearcher

\* A handle is opened into the builder's hands and closed out of its owner's.
LEMMA OpenStep == Inv /\ [Next]_vars => OpenIffOwned'
<1> SUFFICES ASSUME Inv, [Next]_vars PROVE OpenIffOwned'
  OBVIOUS
<1> USE DEF OpenIffOwned, Open, Owned, userVars, closerVars
<1>1. ASSUME NEW s \in Searchers, CreateSearcher(s) PROVE OpenIffOwned'
  <2>1. InPool' = InPool \cup {s}
    BY <1>1, AppendElements DEF CreateSearcher, Inv, TypeOK, InPool
  <2>2. Open' = Open \cup {s}
    BY <1>1 DEF CreateSearcher, Inv, TypeOK
  <2>q. QED BY <1>1, <2>1, <2>2 DEF CreateSearcher, Inv, Holders
<1>2. ASSUME CreateDone PROVE OpenIffOwned'
  BY <1>2 DEF CreateDone, Inv, InPool, Holders
<1>3. ASSUME CreateFails PROVE OpenIffOwned'
  BY <1>3 DEF CreateFails, Inv, InPool, Holders
<1>4. ASSUME NEW u \in Users, StartSearch(u) PROVE OpenIffOwned'
  <2>1. Holders' = Holders
    BY <1>4 DEF StartSearch, Inv, TypeOK, Holders, HoldingPCs
  <2>q. QED BY <1>4, <2>1 DEF StartSearch, Inv, InPool
<1>5. ASSUME NEW u \in Users, BorrowNil(u) PROVE OpenIffOwned'
  <2>1. Holders' = Holders
    BY <1>5 DEF BorrowNil, Inv, TypeOK, Holders, HoldingPCs
  <2>q. QED BY <1>5, <2>1 DEF BorrowNil, Inv, InPool
<1>6. ASSUME NEW u \in Users, BorrowReceive(u) PROVE OpenIffOwned'
  <2>1. /\ Head(pool) \in InPool
        /\ InPool' = InPool \ {Head(pool)}
    BY <1>6, TailElements DEF BorrowReceive, Inv, TypeOK, SingleOwner, InPool
  <2>2. /\ Holders' = Holders \cup {u} /\ u \notin Holders
        /\ \A v \in Holders' : held'[v] = IF v = u THEN Head(pool) ELSE held[v]
    BY <1>6 DEF BorrowReceive, Inv, TypeOK, Holders, HoldingPCs
  <2>q. QED BY <1>6, <2>1, <2>2 DEF BorrowReceive, Inv
<1>7. ASSUME NEW u \in Users, BorrowCount(u) PROVE OpenIffOwned'
  <2>1. Holders' = Holders
    BY <1>7 DEF BorrowCount, Inv, TypeOK, Holders, HoldingPCs
  <2>q. QED BY <1>7, <2>1 DEF BorrowCount, Inv, InPool
<1>8. ASSUME NEW u \in Users, ReturnSelect(u) PROVE OpenIffOwned'
  <2>1. Holders' = Holders
    BY <1>8 DEF ReturnSelect, Inv, TypeOK, Holders, HoldingPCs
  <2>q. QED BY <1>8, <2>1 DEF ReturnSelect, Inv, InPool
<1>9. ASSUME NEW u \in Users, ReturnClose(u) PROVE OpenIffOwned'
  <2>1. /\ Holders' = Holders \ {u} /\ u \in Holders
        /\ \A v \in Holders' : held'[v] = held[v] /\ held[v] # held[u]
    BY <1>9 DEF ReturnClose, Inv, TypeOK, SingleOwner, Holders, HoldingPCs
  <2>2. /\ held[u] \in Searchers \ InPool
        /\ cpc = "close" => drained # held[u]
        /\ Open' = Open \ {held[u]}
    BY <1>9, <2>1 DEF ReturnClose, Inv, TypeOK, SingleOwner
  <2>q. QED BY <1>9, <2>1, <2>2 DEF ReturnClose, Inv, InPool
<1>10. ASSUME NEW u \in Users, ReturnPush(u) PROVE OpenIffOwned'
  <2>1. InPool' = InPool \cup {held[u]}
    BY <1>10, AppendElements
       DEF ReturnPush, Inv, TypeOK, SingleOwner, InPool, Holders, HoldingPCs
  <2>2. /\ Holders' = Holders \ {u} /\ u \in Holders
        /\ \A v \in Holders' : held'[v] = held[v]
    BY <1>10 DEF ReturnPush, Inv, TypeOK, Holders, HoldingPCs
  <2>q. QED BY <1>10, <2>1, <2>2 DEF ReturnPush, Inv
<1>11. ASSUME NEW u \in Users, ReturnCount(u) PROVE OpenIffOwned'
  <2>1. Holders' = Holders
    BY <1>11 DEF ReturnCount, Inv, TypeOK, Holders, HoldingPCs
  <2>q. QED BY <1>11, <2>1 DEF ReturnCount, Inv, InPool
<1>12. ASSUME CloseStart PROVE OpenIffOwned'
  BY <1>12 DEF CloseStart, Inv, InPool, Holders
<1>13. ASSUME CloseReadCount PROVE OpenIffOwned'
  BY <1>13 DEF CloseReadCount, Inv, InPool, Holders
<1>14. ASSUME CloseReadLeft PROVE OpenIffOwned'
  BY <1>14 DEF CloseReadLeft, Inv, InPool, Holders
<1>15. ASSUME CloseReceive PROVE OpenIffOwned'
  <2>1. /\ Head(pool) \in InPool
        /\ InPool' = InPool \ {Head(pool)}
    BY <1>15, TailElements DEF CloseReceive, Inv, TypeOK, SingleOwner, InPool
  <2>q. QED BY <1>15, <2>1 DEF CloseReceive, Inv, Holders
<1>16. ASSUME CloseSearcher PROVE OpenIffOwned'
  <2>1. /\ drained \notin InPool
        /\ \A u \in Holders : held[u] # drained
        /\ Open' = Open \ {drained}
    BY <1>16 DEF CloseSearcher, Inv, TypeOK, SingleOwner, Control
  <2>q. QED BY <1>16, <2>1 DEF CloseSearcher, Inv, Holders, InPool
<1>17. ASSUME CloseTimedOut PROVE OpenIffOwned'
  BY <1>17 DEF CloseTimedOut, Inv, InPool, Holders
<1>18. ASSUME TimerFires PROVE OpenIffOwned'
  BY <1>18 DEF TimerFires, Inv, InPool, Holders
<1>19. ASSUME UNCHANGED vars PROVE OpenIffOwned'
  BY <1>19 DEF vars, Inv, InPool, Holders
<1>q. QED
  BY <1>1, <1>2, <1>3, <1>4, <1>5, <1>6, <1>7, <1>8, <1>9, <1>10,
     <1>11, <1>12, <1>13, <1>14, <1>15, <1>16, <1>17, <1>18, <1>19
     DEF Next, CreateStep, CloseStep, UserStep, BorrowSearcher, ReturnSearcher

\* Inv holds before the pool is built.
LEMMA InitInv == Init => Inv
<1> SUFFICES ASSUME Init PROVE Inv
  OBVIOUS
<1> USE DEF Init
<1>1. InPool = {} /\ IsInjective(pool)
  BY EmptySeq DEF InPool, ToSet, IsInjective
<1>2. Holders = {} /\ Counted = {} /\ Open = {}
  BY DEF Holders, HoldingPCs, Counted, CountedPCs, Open
<1>3. TypeOK
  BY EmptySeq DEF TypeOK, UserPCs, CloserPCs
<1>4. SingleOwner
  BY <1>1, <1>2 DEF SingleOwner
<1>5. OpenIffOwned
  BY <1>1, <1>2 DEF OpenIffOwned, Owned
<1>6. LoanCountExact
  BY <1>2, FS_EmptySet DEF LoanCountExact
<1>7. Control
  BY DEF Control
<1>q. QED BY <1>3, <1>4, <1>5, <1>6, <1>7 DEF Inv

\* The conjuncts together: Inv is inductive.
LEMMA NextInv == Inv /\ [Next]_vars => Inv'
BY TypeStep, OwnerStep, OpenStep, CountStep, ControlStep DEF Inv

-----------------------------------------------------------------------------
(* The theorems *)

\* The strengthened invariant holds in every reachable state, for every
\* number of searchers and users: construction, Search and CloseTimeout.
THEOREM Invariance == Spec => []Inv
<1>1. Init => Inv
  BY InitInv
<1>2. Inv /\ [Next]_vars => Inv'
  BY NextInv
<1>q. QED BY <1>1, <1>2, PTL DEF Spec

\* Every variable keeps its type; in particular loanCount, which is
\* decremented without a check, never becomes negative.
THEOREM PoolTypeOK == Spec => []TypeOK
<1>1. Inv => TypeOK
  BY DEF Inv
<1>q. QED BY <1>1, Invariance, PTL

\* No searcher is ever in two hands, and the open handles are exactly those
\* of the searchers in the channel or in somebody's hands.
THEOREM PoolOwnership == Spec => []Ownership
<1>1. Inv => Ownership
  BY DEF Inv, Ownership
<1>q. QED BY <1>1, Invariance, PTL

\* LoanCount is exact in every interleaving of borrowers and returners.
THEOREM PoolLoanCount == Spec => []LoanCountExact
<1>1. Inv => LoanCountExact
  BY DEF Inv
<1>q. QED BY <1>1, Invariance, PTL

\* The send in ReturnSearcher, and those of NewSearcherPool, find a free
\* slot whatever the number of users that borrow and return.
THEOREM PoolNeverBlocks == Spec => []PushNeverBlocks
<1>1. ASSUME Inv PROVE PushNeverBlocks
  <2>1. Len(pool) <= Cardinality(Searchers) /\ Cardinality(Searchers) \in Nat
    BY <1>1, DistinctBound, SearchersAssumption, FS_CardinalityType
       DEF Inv, TypeOK, SingleOwner
  <2>2. Len(pool) \in Nat
    BY <1>1, LenProperties DEF Inv, TypeOK
  <2>q. QED BY <2>1, <2>2 DEF PushNeverBlocks, Capacity
<1>q. QED BY <1>1, Invariance, PTL

\* When CloseTimeout leaves its loop the channel is empty for good, and who
\* still holds a searcher will close it; a failed construction is clean.
THEOREM PoolDrained == Spec => []Drained
<1>1. ASSUME Inv PROVE Drained
  <2>1. ASSUME cpc = "finished"
        PROVE  /\ pool = <<>> /\ InPool = {}
               /\ \A u \in Users : pc[u] # "push"
    BY <1>1, <2>1, EmptySeq DEF Inv, Control, InPool, ToSet
  <2>2. cpc = "finished" => Open \subseteq {held[u] : u \in Holders}
    BY <1>1, <2>1 DEF Inv, OpenIffOwned, Owned
  <2>3. phase = "failed" => Holders = {}
    BY <1>1 DEF Inv, Control, Holders, HoldingPCs
  <2>q. QED
    BY <2>1, <2>2, <2>3
       DEF Drained, FinishedLeavesNothing, FailedBuildClosesAll
<1>q. QED BY <1>1, Invariance, PTL
-----------------------------------------------------------------------------
(* The pool implements SearcherLeases *)

LeaseMap == [s \in Searchers |-> LeaseOf(s)]

\* The lease of a searcher, read off its handle and its owner.
LeaseCase(s) ==
    /\ handle[s] = "none" => LeaseOf(s) = Leases!Absent
    /\ handle[s] = "closed" => LeaseOf(s) = Leases!Retired
    /\ \A u \in Holders : held[u] = s => LeaseOf(s) = Leases!LentTo(u)
    /\ handle[s] = "open" /\ (\A u \in Holders : held[u] # s)
          => LeaseOf(s) = Leases!Idle
    /\ s \in InPool => LeaseOf(s) = Leases!Idle

\* The lease of a searcher, read off its place and its handle.
LEMMA LeaseCases == Inv => \A s \in Searchers : LeaseCase(s)
<1> SUFFICES ASSUME Inv, NEW s \in Searchers PROVE LeaseCase(s)
  OBVIOUS
<1>1. ASSUME NEW u \in Holders, held[u] = s
      PROVE  LeaseOf(s) = Leases!LentTo(u)
  <2>1. handle[s] = "open"
    BY <1>1 DEF Inv, OpenIffOwned, Open, Owned
  <2>2. \A v \in Holders : held[v] = s => v = u
    BY <1>1 DEF Inv, SingleOwner
  <2>3. (CHOOSE v \in Holders : held[v] = s) = u
    BY <1>1, <2>2
  <2>q. QED BY <1>1, <2>1, <2>3 DEF LeaseOf, Leases!LentTo
<1>2. s \in InPool =>
         handle[s] = "open" /\ \A u \in Holders : held[u] # s
  BY DEF Inv, SingleOwner, OpenIffOwned, Open, Owned
<1>3. handle[s] # "open" => ~\E u \in Holders : held[u] = s
  BY DEF Inv, OpenIffOwned, Open, Owned
<1>4. ASSUME handle[s] = "none" PROVE LeaseOf(s) = Leases!Absent
  BY <1>3, <1>4 DEF LeaseOf, Leases!Absent
<1>5. ASSUME handle[s] = "closed" PROVE LeaseOf(s) = Leases!Retired
  BY <1>3, <1>5 DEF LeaseOf, Leases!Retired
<1>6. ASSUME handle[s] = "open", ~\E u \in Holders : held[u] = s
      PROVE  LeaseOf(s) = Leases!Idle
  <2>1. /\ handle[s] # "none"
        /\ handle[s] # "closed"
    BY <1>6
  <2>q. QED BY <1>6, <2>1, Zenon DEF LeaseOf, Leases!Idle
<1>q. QED BY <1>1, <1>2, <1>4, <1>5, <1>6 DEF LeaseCase

\* The same after a step.
LEMMA LeaseCasesNext == Inv' => (\A s \in Searchers : LeaseCase(s))'
BY LeaseCases, PTL

\* A searcher whose handle and holder a step leaves alone keeps its lease.
LEMMA LeaseFrame ==
    ASSUME Inv, Inv', NEW s \in Searchers, handle'[s] = handle[s],
           \A u \in Users : (u \in Holders /\ held[u] = s)
                              <=> (u \in Holders' /\ held'[u] = s)
    PROVE  LeaseOf(s)' = LeaseOf(s)
<1>1. LeaseCase(s) /\ LeaseCase(s)'
  BY LeaseCases, LeaseCasesNext
<1>2. Holders \subseteq Users /\ Holders' \subseteq Users
  BY DEF Holders
<1>3. handle[s] \in {"none", "open", "closed"}
  BY DEF Inv, TypeOK
<1>4. CASE \E u \in Holders : held[u] = s
  BY <1>1, <1>2, <1>4 DEF LeaseCase, Leases!LentTo
<1>5. CASE ~\E u \in Holders : held[u] = s
  BY <1>1, <1>2, <1>3, <1>5
     DEF LeaseCase, Leases!Absent, Leases!Retired, Leases!Idle
<1>q. QED BY <1>4, <1>5
\* Every step of the pool is a step of SearcherLeases or leaves the leases
\* and the shut flag alone.
LEMMA LeaseStep ==
    ASSUME Inv, Inv', [Next]_vars
    PROVE  [Leases!Next]_(Leases!leaseVars)
<1> DEFINE Goal == [Leases!Next]_(Leases!leaseVars)
           SameHolder(s) == \A v \in Users :
               (v \in Holders /\ held[v] = s)
                  <=> (v \in Holders' /\ held'[v] = s)
<1> USE DEF userVars, closerVars
<1>case. \A s \in Searchers : LeaseCase(s) /\ LeaseCase(s)'
  BY LeaseCases, LeaseCasesNext
<1>tags. /\ Leases!Absent # Leases!Idle /\ Leases!Absent # Leases!Retired
         /\ Leases!Idle # Leases!Retired
         /\ \A u \in Users :
               /\ Leases!LentTo(u) \notin
                     {Leases!Absent, Leases!Idle, Leases!Retired}
               /\ \A v \in Users :
                     Leases!LentTo(u) = Leases!LentTo(v) => u = v
  BY DEF Leases!Absent, Leases!Idle, Leases!Retired, Leases!LentTo
<1>users. Holders \subseteq Users /\ Holders' \subseteq Users
  BY DEF Holders
<1>frame. ASSUME NEW s \in Searchers, handle'[s] = handle[s], SameHolder(s)
          PROVE  LeaseOf(s)' = LeaseOf(s)
  BY <1>frame, LeaseFrame
\* one lease changes, the shut flag does not
<1>one. ASSUME NEW s \in Searchers, NEW new, LeaseOf(s)' = new,
               cpc' = "finished" <=> cpc = "finished",
               \A t \in Searchers \ {s} :
                  handle'[t] = handle[t] /\ SameHolder(t)
        PROVE  /\ LeaseMap' = [LeaseMap EXCEPT ![s] = new]
               /\ UNCHANGED (cpc = "finished")
  <2>1. \A t \in Searchers \ {s} : LeaseOf(t)' = LeaseOf(t)
    BY <1>one, <1>frame
  <2>q. QED BY <1>one, <2>1 DEF LeaseMap
<1>stutter. ASSUME handle' = handle, cpc' = "finished" <=> cpc = "finished",
                   \A s \in Searchers : SameHolder(s)
            PROVE  Goal
  <2>1. \A s \in Searchers : LeaseOf(s)' = LeaseOf(s)
    BY <1>stutter, <1>frame
  <2>2. UNCHANGED Leases!leaseVars
    BY <1>stutter, <2>1 DEF Leases!leaseVars
  <2>q. QED BY <2>2
<1>hide. HIDE DEF Goal
<1>1. ASSUME NEW s \in Searchers, CreateSearcher(s) PROVE Goal
  <2>1. /\ cpc = "idle" /\ cpc' = cpc
        /\ handle[s] = "none" /\ s \in InPool'
        /\ \A t \in Searchers \ {s} : handle'[t] = handle[t] /\ SameHolder(t)
    BY <1>1, AppendElements
       DEF CreateSearcher, Unbuilt, InPool, Control, Inv, TypeOK, Holders
  <2>2. LeaseOf(s) = Leases!Absent /\ LeaseOf(s)' = Leases!Idle
    BY <1>case, <2>1 DEF LeaseCase
  <2>3. /\ LeaseMap' = [LeaseMap EXCEPT ![s] = Leases!Idle]
        /\ UNCHANGED (cpc = "finished")
    BY <1>one, <2>1, <2>2
  <2>4. Leases!Admit(s)
    BY <2>1, <2>2, <2>3 DEF Leases!Admit, LeaseMap
  <2>q. QED BY <2>4 DEF Goal, Leases!Next
<1>2. ASSUME CreateDone PROVE Goal
  <2>1. /\ handle' = handle
        /\ cpc' = "finished" <=> cpc = "finished"
        /\ \A s \in Searchers : SameHolder(s)
    BY <1>2 DEF CreateDone, Inv, TypeOK, Holders, HoldingPCs
  <2>q. QED BY <2>1, <1>stutter
<1>3. ASSUME CreateFails PROVE Goal
  <2>1. /\ handle' = handle
        /\ cpc' = "finished" <=> cpc = "finished"
        /\ \A s \in Searchers : SameHolder(s)
    BY <1>3 DEF CreateFails, Inv, TypeOK, Holders, HoldingPCs
  <2>q. QED BY <2>1, <1>stutter
<1>4. ASSUME NEW u \in Users, StartSearch(u) PROVE Goal
  <2>1. /\ handle' = handle
        /\ cpc' = "finished" <=> cpc = "finished"
        /\ \A s \in Searchers : SameHolder(s)
    BY <1>4 DEF StartSearch, Inv, TypeOK, Holders, HoldingPCs
  <2>q. QED BY <2>1, <1>stutter
<1>5. ASSUME NEW u \in Users, BorrowNil(u) PROVE Goal
  <2>1. /\ handle' = handle
        /\ cpc' = "finished" <=> cpc = "finished"
        /\ \A s \in Searchers : SameHolder(s)
    BY <1>5 DEF BorrowNil, Inv, TypeOK, Holders, HoldingPCs
  <2>q. QED BY <2>1, <1>stutter
<1>6. ASSUME NEW u \in Users, BorrowReceive(u) PROVE Goal
  <2>0. PICK s \in Searchers : s = Head(pool)
    BY <1>6, TailElements DEF BorrowReceive, Inv, TypeOK, SingleOwner
  <2>1. /\ s \in Searchers \cap InPool
        /\ cpc # "finished" /\ cpc' = cpc
        /\ u \notin Holders /\ u \in Holders' /\ held'[u] = s
    BY <1>6, <2>0, TailElements
       DEF BorrowReceive, Inv, TypeOK, Holders, HoldingPCs, SingleOwner, Control, InPool
  <2>2. \A t \in Searchers \ {s} : handle'[t] = handle[t] /\ SameHolder(t)
    BY <1>6, <2>0, <2>1 DEF BorrowReceive, Inv, TypeOK, Holders, HoldingPCs
  <2>3. LeaseOf(s) = Leases!Idle /\ LeaseOf(s)' = Leases!LentTo(u)
    BY <1>case, <2>0, <2>1 DEF LeaseCase
  <2>4. /\ LeaseMap' = [LeaseMap EXCEPT ![s] = Leases!LentTo(u)]
        /\ UNCHANGED (cpc = "finished")
    BY <1>one, <2>1, <2>2, <2>3
  <2>5. ASSUME NEW t \in Searchers PROVE LeaseOf(t) # Leases!LentTo(u)
    <3>1. CASE \E v \in Holders : held[v] = t
      BY <1>case, <1>tags, <1>users, <2>1, <3>1 DEF LeaseCase
    <3>2. CASE ~\E v \in Holders : held[v] = t
      <4>1. handle[t] \in {"none", "open", "closed"}
        BY DEF Inv, TypeOK
      <4>q. QED BY <1>case, <1>tags, <3>2, <4>1 DEF LeaseCase
    <3>q. QED BY <3>1, <3>2
  <2>6. Leases!Lend(s, u)
    BY <2>1, <2>3, <2>4, <2>5 DEF Leases!Lend, LeaseMap
  <2>q. QED BY <2>1, <2>6 DEF Goal, Leases!Next
<1>7. ASSUME NEW u \in Users, BorrowCount(u) PROVE Goal
  <2>1. /\ handle' = handle
        /\ cpc' = "finished" <=> cpc = "finished"
        /\ \A s \in Searchers : SameHolder(s)
    BY <1>7 DEF BorrowCount, Inv, TypeOK, Holders, HoldingPCs
  <2>q. QED BY <2>1, <1>stutter
<1>8. ASSUME NEW u \in Users, ReturnSelect(u) PROVE Goal
  <2>1. /\ handle' = handle
        /\ cpc' = "finished" <=> cpc = "finished"
        /\ \A s \in Searchers : SameHolder(s)
    BY <1>8 DEF ReturnSelect, Inv, TypeOK, Holders, HoldingPCs
  <2>q. QED BY <2>1, <1>stutter
<1>9. ASSUME NEW u \in Users, ReturnClose(u) PROVE Goal
  <2>0. PICK s \in Searchers : s = held[u]
    BY <1>9 DEF ReturnClose, Inv, TypeOK, Holders, HoldingPCs, SingleOwner
  <2>1. /\ u \in Holders /\ s \in Searchers
        /\ cpc' = cpc /\ handle'[s] = "closed"
    BY <1>9, <2>0 DEF ReturnClose, Inv, TypeOK, Holders, HoldingPCs, SingleOwner
  <2>2. \A t \in Searchers \ {s} : handle'[t] = handle[t] /\ SameHolder(t)
    BY <1>9, <2>0, <2>1 DEF ReturnClose, Inv, TypeOK, Holders, HoldingPCs
  <2>3. LeaseOf(s) = Leases!LentTo(u) /\ LeaseOf(s)' = Leases!Retired
    BY <1>case, <2>0, <2>1 DEF LeaseCase
  <2>4. /\ LeaseMap' = [LeaseMap EXCEPT ![s] = Leases!Retired]
        /\ UNCHANGED (cpc = "finished")
    BY <1>one, <2>1, <2>2, <2>3
  <2>5. Leases!Retire(s)
    BY <1>tags, <2>1, <2>3, <2>4 DEF Leases!Retire, LeaseMap
  <2>q. QED BY <2>1, <2>5 DEF Goal, Leases!Next
<1>10. ASSUME NEW u \in Users, ReturnPush(u) PROVE Goal
  <2>0. PICK s \in Searchers : s = held[u]
    BY <1>10 DEF ReturnPush, Inv, TypeOK, Holders, HoldingPCs, SingleOwner
  <2>1. /\ u \in Holders /\ s \in Searchers /\ s \in InPool'
        /\ cpc # "finished" /\ cpc' = cpc
    BY <1>10, <2>0, AppendElements
       DEF ReturnPush, Inv, TypeOK, Holders, HoldingPCs, SingleOwner, Control, InPool
  <2>2. \A t \in Searchers \ {s} : handle'[t] = handle[t] /\ SameHolder(t)
    BY <1>10, <2>0, <2>1 DEF ReturnPush, Inv, TypeOK, Holders, HoldingPCs
  <2>3. LeaseOf(s) = Leases!LentTo(u) /\ LeaseOf(s)' = Leases!Idle
    BY <1>case, <2>0, <2>1 DEF LeaseCase
  <2>4. /\ LeaseMap' = [LeaseMap EXCEPT ![s] = Leases!Idle]
        /\ UNCHANGED (cpc = "finished")
    BY <1>one, <2>1, <2>2, <2>3
  <2>5. Leases!GiveBack(s, u)
    BY <2>0, <2>1, <2>3, <2>4 DEF Leases!GiveBack, LeaseMap
  <2>q. QED BY <2>1, <2>5 DEF Goal, Leases!Next
<1>11. ASSUME NEW u \in Users, ReturnCount(u) PROVE Goal
  <2>1. /\ handle' = handle
        /\ cpc' = "finished" <=> cpc = "finished"
        /\ \A s \in Searchers : SameHolder(s)
    BY <1>11 DEF ReturnCount, Inv, TypeOK, Holders, HoldingPCs
  <2>q. QED BY <2>1, <1>stutter
<1>12. ASSUME CloseStart PROVE Goal
  <2>1. /\ handle' = handle
        /\ cpc' = "finished" <=> cpc = "finished"
        /\ \A s \in Searchers : SameHolder(s)
    BY <1>12 DEF CloseStart, Inv, TypeOK, Holders, HoldingPCs
  <2>q. QED BY <2>1, <1>stutter
<1>13. ASSUME CloseReadCount PROVE Goal
  <2>1. /\ handle' = handle
        /\ cpc' = "finished" <=> cpc = "finished"
        /\ \A s \in Searchers : SameHolder(s)
    BY <1>13 DEF CloseReadCount, Inv, TypeOK, Holders, HoldingPCs
  <2>q. QED BY <2>1, <1>stutter
<1>14. ASSUME CloseReadLeft PROVE Goal
  <2>1. /\ cpc = "left" /\ UNCHANGED <<handle, pc, held>>
        /\ \A s \in Searchers : handle'[s] = handle[s] /\ SameHolder(s)
    BY <1>14 DEF CloseReadLeft, Holders
  <2>2. CASE cpc' # "finished"
    BY <1>stutter, <2>1, <2>2
  <2>3. CASE cpc' = "finished"
    <3>1. pool = <<>> /\ InPool = {}
      BY <1>14, <2>3, EmptySeq DEF CloseReadLeft, InPool, ToSet
    <3>2. ASSUME NEW s \in Searchers PROVE LeaseOf(s) # Leases!Idle
      <4>1. handle[s] = "open" => \E v \in Holders : held[v] = s
        BY <2>1, <3>1 DEF Inv, OpenIffOwned, Open, Owned
      <4>2. handle[s] \in {"none", "open", "closed"}
        BY DEF Inv, TypeOK
      <4>q. QED BY <1>case, <1>tags, <1>users, <4>1, <4>2 DEF LeaseCase
    <3>3. LeaseMap' = LeaseMap
      BY <1>frame, <2>1 DEF LeaseMap
    <3>4. Leases!Shut
      BY <2>1, <2>3, <3>2, <3>3 DEF Leases!Shut, LeaseMap
    <3>q. QED BY <3>4 DEF Goal, Leases!Next
  <2>q. QED BY <2>2, <2>3
<1>15. ASSUME CloseReceive PROVE Goal
  <2>1. /\ handle' = handle
        /\ cpc' = "finished" <=> cpc = "finished"
        /\ \A s \in Searchers : SameHolder(s)
    BY <1>15 DEF CloseReceive, Inv, TypeOK, Holders, HoldingPCs
  <2>q. QED BY <2>1, <1>stutter
<1>16. ASSUME CloseSearcher PROVE Goal
  <2>0. PICK s \in Searchers : s = drained
    BY <1>16 DEF CloseSearcher, Inv, Control
  <2>1. /\ s \in Searchers /\ handle[s] = "open" /\ handle'[s] = "closed"
        /\ \A u \in Holders : held[u] # s
        /\ cpc = "close" /\ cpc' = "count"
    BY <1>16, <2>0 DEF CloseSearcher, Inv, TypeOK, Holders, HoldingPCs, SingleOwner, Control,
                OpenIffOwned, Open, Owned
  <2>2. \A t \in Searchers \ {s} : handle'[t] = handle[t] /\ SameHolder(t)
    BY <1>16, <2>0, <2>1 DEF CloseSearcher, Inv, TypeOK, Holders, HoldingPCs
  <2>3. LeaseOf(s) = Leases!Idle /\ LeaseOf(s)' = Leases!Retired
    BY <1>case, <2>0, <2>1 DEF LeaseCase
  <2>4. /\ LeaseMap' = [LeaseMap EXCEPT ![s] = Leases!Retired]
        /\ UNCHANGED (cpc = "finished")
    BY <1>one, <2>1, <2>2, <2>3
  <2>5. Leases!Retire(s)
    BY <1>tags, <2>1, <2>3, <2>4 DEF Leases!Retire, LeaseMap
  <2>q. QED BY <2>1, <2>5 DEF Goal, Leases!Next
<1>17. ASSUME CloseTimedOut PROVE Goal
  <2>1. /\ handle' = handle
        /\ cpc' = "finished" <=> cpc = "finished"
        /\ \A s \in Searchers : SameHolder(s)
    BY <1>17 DEF CloseTimedOut, Inv, TypeOK, Holders, HoldingPCs
  <2>q. QED BY <2>1, <1>stutter
<1>18. ASSUME TimerFires PROVE Goal
  <2>1. /\ handle' = handle
        /\ cpc' = "finished" <=> cpc = "finished"
        /\ \A s \in Searchers : SameHolder(s)
    BY <1>18 DEF TimerFires, Inv, TypeOK, Holders, HoldingPCs
  <2>q. QED BY <2>1, <1>stutter
<1>19. ASSUME UNCHANGED vars PROVE Goal
  <2>1. /\ handle' = handle /\ cpc' = cpc
        /\ \A s \in Searchers : SameHolder(s)
    BY <1>19 DEF vars, Holders
  <2>q. QED BY <2>1, <1>stutter
<1>all. Goal
  BY <1>1, <1>2, <1>3, <1>4, <1>5, <1>6, <1>7, <1>8, <1>9, <1>10,
     <1>11, <1>12, <1>13, <1>14, <1>15, <1>16, <1>17, <1>18, <1>19, <1>19
     DEF Next, CreateStep, CloseStep, UserStep, BorrowSearcher, ReturnSearcher
<1>q. QED BY <1>all DEF Goal

\* The pool keeps the promise of SearcherLeases: exclusive leases, no lease
\* of a closed searcher, and after a completed CloseTimeout no lease at all.
THEOREM PoolImplementsLeases == Spec => ImplementsLeases
<1>1. Init => Leases!Init
  <2> SUFFICES ASSUME Init PROVE Leases!Init
    OBVIOUS
  <2>1. \A s \in Searchers : handle[s] = "none"
    BY DEF Init
  <2>2. \A s \in Searchers : LeaseOf(s) = Leases!Absent
    BY <2>1, InitInv, LeaseCases DEF LeaseCase
  <2>q. QED BY <2>2 DEF Init, Leases!Init
<1>2. Inv /\ Inv' /\ [Next]_vars => [Leases!Next]_(Leases!leaseVars)
  BY LeaseStep
<1>q. QED BY <1>1, <1>2, Invariance, PTL DEF Spec, ImplementsLeases, Leases!Spec
=============================================================================
