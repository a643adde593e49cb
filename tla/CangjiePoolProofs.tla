------------------------- MODULE CangjiePoolProofs -------------------------
(***************************************************************************)
(* Proofs about CangjiePool for any number of searchers and threads, and   *)
(* for both readings of its semaphore.  Nothing is locked, so the          *)
(* invariant is about single operations: where a searcher is between two   *)
(* of them, who is counted, and who has a permit.                          *)
(***************************************************************************)
EXTENDS CangjiePool, FiniteSetTheorems, SequenceTheorems, TLAPS

Unreturned == {s \in Searchers : handle[s] = "unreturned"}

\* OneOwner, without the count
Owned ==
    /\ IsInjective(queue) /\ Queued \cap InHands = {}
    /\ \A u, v \in Owners : held[u] = held[v] => u = v
    /\ drained \notin {held[u] : u \in Owners}
    /\ Queued \cup InHands \subseteq Open

CountExact ==
    loanCnt = Cardinality(Counted) + Cardinality(Lost) + Cardinality(Unreturned)

\* while the constructor runs every open searcher is in the queue
Control ==
    phase # "ready" =>
        /\ ~closing /\ cpc = "idle"
        /\ \A u \in Users : pc[u] = "idle"
        /\ Open \subseteq Queued
        /\ \A s \in Searchers : handle[s] \in {"none", "open"}

Inv == TypeOK /\ Owned /\ CountExact /\ Control

-----------------------------------------------------------------------------
(* The linked list of searchers *)

\* add puts a searcher at the end of the list.
LEMMA AppendElements ==
    ASSUME NEW S, NEW q \in Seq(S), NEW s \in S
    PROVE  /\ Append(q, s) \in Seq(S)
           /\ Len(Append(q, s)) = Len(q) + 1
           /\ ToSet(Append(q, s)) = ToSet(q) \cup {s}
           /\ IsInjective(q) /\ s \notin ToSet(q) => IsInjective(Append(q, s))
<1>1. /\ DOMAIN q = 1..Len(q) /\ Len(q) \in Nat
      /\ DOMAIN Append(q, s) = DOMAIN q \cup {Len(q) + 1}
  BY LenProperties
<1> QED
  BY <1>1 DEF ToSet, IsInjective

\* remove(0) takes the first searcher of the list.
LEMMA TailElements ==
    ASSUME NEW S, NEW q \in Seq(S), q # <<>>, IsInjective(q)
    PROVE  /\ Head(q) \in S
           /\ Head(q) \in ToSet(q)
           /\ Tail(q) \in Seq(S)
           /\ ToSet(Tail(q)) = ToSet(q) \ {Head(q)}
           /\ IsInjective(Tail(q))
<1>1. /\ Len(q) \in Nat \ {0} /\ DOMAIN q = 1..Len(q) /\ Head(q) = q[1]
      /\ Head(q) \in S /\ Tail(q) \in Seq(S)
      /\ DOMAIN Tail(q) = 1..(Len(q) - 1)
      /\ \A i \in 1..(Len(q) - 1) : Tail(q)[i] = q[i + 1]
  BY HeadTailProperties, LenProperties, EmptySeq
<1>2. \A j \in 2..Len(q) : j - 1 \in DOMAIN Tail(q) /\ Tail(q)[j - 1] = q[j]
  BY <1>1
<1>3. ToSet(Tail(q)) = {q[j] : j \in 2..Len(q)}
  <2>1. ToSet(Tail(q)) \subseteq {q[j] : j \in 2..Len(q)}
    BY <1>1 DEF ToSet
  <2> QED
    BY <1>2, <2>1 DEF ToSet
<1> QED
  BY <1>1, <1>3 DEF ToSet, IsInjective

\* A list of distinct searchers is no longer than there are searchers.
LEMMA DistinctBound ==
    ASSUME NEW S, IsFiniteSet(S), NEW q \in Seq(S), IsInjective(q)
    PROVE  /\ Len(q) <= Cardinality(S)
           /\ ToSet(q) # S => Len(q) < Cardinality(S)
<1>0. Len(q) \in Nat
  BY LenProperties
<1>1. q \in Injection(1..Len(q), S)
  BY LenProperties DEF Injection, IsInjective
<1>2. q \in Surjection(1..Len(q), S) => ToSet(q) = S
  BY LenProperties DEF Injection, Surjection, ToSet
<1>3. Cardinality(1..Len(q)) = Len(q)
  BY <1>0, FS_Interval, SMTT(30)
<1>4. /\ Cardinality(1..Len(q)) <= Cardinality(S)
      /\ Cardinality(1..Len(q)) = Cardinality(S)
            <=> q \in Surjection(1..Len(q), S)
  BY <1>1, FS_Injection
<1> QED
  BY <1>0, <1>2, <1>3, <1>4, FS_CardinalityType

-----------------------------------------------------------------------------
(* Facts about the semaphore and the counted sets *)

\* A permit is given back, up to the limit of the semaphore.
LEMMA ReleaseStep ==
    ASSUME TypeOK, Release
    PROVE  /\ permits' = IF permits < limit THEN permits + 1 ELSE limit
           /\ permits' \in 0..limit
<1>1. limit \in Nat /\ permits \in 0..limit
  BY CangjieAssumption, FS_CardinalityType DEF TypeOK, N
<1> DEFINE least == IF permits < limit THEN permits + 1 ELSE limit
<1>2. /\ least \in {permits + 1, limit}
      /\ \A y \in {permits + 1, limit} : least <= y
  BY <1>1
<1>3. \A x \in {permits + 1, limit} :
         (\A y \in {permits + 1, limit} : x <= y) => x = least
  BY <1>1, <1>2
<1>4. Min({permits + 1, limit}) = least
  BY <1>2, <1>3 DEF Min
<1>q. QED BY <1>1, <1>4 DEF Release

\* All that is counted is finite.
LEMMA Finite ==
    /\ IsFiniteSet(Counted) /\ IsFiniteSet(Lost) /\ IsFiniteSet(Unreturned)
    /\ Cardinality(Counted) \in Nat /\ Cardinality(Lost) \in Nat
    /\ Cardinality(Unreturned) \in Nat /\ N \in Nat
BY CangjieAssumption, FS_Subset, FS_CardinalityType
   DEF Counted, Lost, Open, Unreturned, N

-----------------------------------------------------------------------------
(* Inv is preserved: one lemma per conjunct, one step per action *)

\* The types are preserved; who takes the count down is among the counted.
LEMMA TypeStep == Inv /\ [Next]_vars => TypeOK'
<1> SUFFICES ASSUME TypeOK, Owned, CountExact, [Next]_vars PROVE TypeOK'
  BY DEF Inv
<1>0. N \in Nat /\ limit \in Nat
  BY CangjieAssumption, FS_CardinalityType DEF TypeOK, N
<1> USE DEF TypeOK, UserPCs, CloserPCs, Goto, poolVars, closerVars
<1>1. ASSUME NEW s \in Searchers, CreateSearcher(s) PROVE TypeOK'
  <2>1. queue' \in Seq(Searchers)
    BY <1>1, AppendElements DEF CreateSearcher
  <2>q. QED BY <1>1, <1>0, <2>1, ReleaseStep DEF CreateSearcher, Owners
<1>2. ASSUME CreateEnds PROVE TypeOK'
  BY <1>2, <1>0 DEF CreateEnds, Owners
<1>3. ASSUME NEW u \in Users, StartSearch(u) PROVE TypeOK'
  BY <1>3, <1>0 DEF StartSearch, Owners
<1>4. ASSUME NEW u \in Users, BorrowTest(u) PROVE TypeOK'
  BY <1>4, <1>0 DEF BorrowTest, Owners
<1>5. ASSUME NEW u \in Users, BorrowAcquire(u) PROVE TypeOK'
  BY <1>5, <1>0 DEF BorrowAcquire, Owners
<1>6. ASSUME NEW u \in Users, BorrowRemove(u) PROVE TypeOK'
  <2>1. /\ Head(queue) \in Searchers /\ Head(queue) # Nobody
        /\ Tail(queue) \in Seq(Searchers)
    BY <1>6, CangjieAssumption, TailElements DEF BorrowRemove, Owned
  <2>q. QED BY <1>6, <1>0, <2>1 DEF BorrowRemove, Owners
<1>7. ASSUME NEW u \in Users, BorrowNone(u) PROVE TypeOK'
  BY <1>7, <1>0 DEF BorrowNone, Owners
<1>8. ASSUME NEW u \in Users, BorrowRelease(u) PROVE TypeOK'
  BY <1>8, <1>0, ReleaseStep DEF BorrowRelease, Owners
<1>9. ASSUME NEW u \in Users, BorrowCount(u) PROVE TypeOK'
  BY <1>9, <1>0 DEF BorrowCount, Owners
<1>10. ASSUME NEW u \in Users, SearchThrows(u) PROVE TypeOK'
  BY <1>10, <1>0 DEF SearchThrows, Owners
<1>11. ASSUME NEW u \in Users, ReturnTest(u) PROVE TypeOK'
  BY <1>11, <1>0 DEF ReturnTest, Owners
<1>12. ASSUME NEW u \in Users, ReturnClose(u) PROVE TypeOK'
  BY <1>12, <1>0 DEF ReturnClose, Owners
<1>13. ASSUME NEW u \in Users, ReturnCloseThrows(u) PROVE TypeOK'
  BY <1>13, <1>0 DEF ReturnCloseThrows, Owners
<1>14. ASSUME NEW u \in Users, ReturnAdd(u) PROVE TypeOK'
  <2>1. queue' \in Seq(Searchers)
    BY <1>14, AppendElements DEF ReturnAdd, Owners
  <2>q. QED BY <1>14, <1>0, <2>1 DEF ReturnAdd, Owners
<1>15. ASSUME NEW u \in Users, ReturnRelease(u) PROVE TypeOK'
  BY <1>15, <1>0, ReleaseStep DEF ReturnRelease, Owners
<1>16. ASSUME NEW u \in Users, ReturnCount(u) PROVE TypeOK'
  <2>1. u \in Counted
    BY <1>16 DEF ReturnCount, Counted
  <2>2. loanCnt > 0
    BY <2>1, Finite, FS_EmptySet DEF CountExact
  <2>q. QED BY <1>16, <1>0, <2>2 DEF ReturnCount, Owners
<1>17. ASSUME CloseStart PROVE TypeOK'
  BY <1>17, <1>0 DEF CloseStart, Owners
<1>18. ASSUME DrainAcquire PROVE TypeOK'
  BY <1>18, <1>0 DEF DrainAcquire, Owners
<1>19. ASSUME DrainTake PROVE TypeOK'
  <2>1. CASE queue = <<>>
    BY <1>19, <1>0, <2>1 DEF DrainTake, Owners
  <2>2. CASE queue # <<>>
    <3>1. /\ Head(queue) \in Searchers /\ Head(queue) # Nobody
          /\ Tail(queue) \in Seq(Searchers)
      BY <2>2, CangjieAssumption, TailElements DEF Owned
    <3>q. QED BY <1>19, <1>0, <2>2, <3>1 DEF DrainTake, Owners
  <2>q. QED BY <2>1, <2>2
<1>20. ASSUME DrainClose PROVE TypeOK'
  BY <1>20, <1>0 DEF DrainClose, Owners
<1>21. ASSUME DrainThrows PROVE TypeOK'
  BY <1>21, <1>0 DEF DrainThrows, Owners
<1>22. ASSUME DrainBreak PROVE TypeOK'
  BY <1>22, <1>0 DEF DrainBreak, Owners
<1>23. ASSUME DeadlinePasses PROVE TypeOK'
  BY <1>23, <1>0 DEF DeadlinePasses, Owners
<1>24. ASSUME WaitOver PROVE TypeOK'
  BY <1>24, <1>0 DEF WaitOver, Owners
<1>25. ASSUME UNCHANGED vars PROVE TypeOK'
  BY <1>25 DEF vars, Owners
<1>q. QED
  BY <1>1, <1>2, <1>3, <1>4, <1>5, <1>6, <1>7, <1>8, <1>9,
     <1>10, <1>11, <1>12, <1>13, <1>14, <1>15, <1>16, <1>17, <1>18,
     <1>19, <1>20, <1>21, <1>22, <1>23, <1>24, <1>25
     DEF Next, UserStep, CloseStep

\* A searcher moves from the queue to one pair of hands and back, and is
\* closed only there.
LEMMA OwnedStep == Inv /\ [Next]_vars => Owned'
<1> SUFFICES ASSUME TypeOK, Owned, [Next]_vars PROVE Owned'
  BY DEF Inv
<1> USE DEF TypeOK, poolVars, closerVars
<1>same. ASSUME UNCHANGED <<queue, handle, drained, held>>, Owners' = Owners
         PROVE  Owned'
  BY <1>same DEF Owned, Queued, InHands, Open
<1>1. ASSUME NEW s \in Searchers, CreateSearcher(s) PROVE Owned'
  <2>1. s \notin Queued /\ s \notin InHands
    BY <1>1 DEF CreateSearcher, Unopened, Owned, Open
  <2>2. /\ IsInjective(queue') /\ Queued' = Queued \cup {s}
    BY <1>1, <2>1, AppendElements DEF CreateSearcher, Owned, Queued
  <2>3. Open' = Open \cup {s} /\ InHands' = InHands /\ Owners' = Owners
    BY <1>1 DEF CreateSearcher, Unopened, Open, InHands, Owners
  <2>4. UNCHANGED <<held, drained>>
    BY <1>1 DEF CreateSearcher
  <2>q. QED BY <2>1, <2>2, <2>3, <2>4 DEF Owned
<1>2. ASSUME CreateEnds PROVE Owned'
  <2>1. UNCHANGED <<queue, handle, drained, held>> /\ Owners' = Owners
    BY <1>2 DEF CreateEnds, Owners, Goto
  <2>q. QED BY <2>1, <1>same
<1>3. ASSUME NEW u \in Users, StartSearch(u) PROVE Owned'
  <2>1. UNCHANGED <<queue, handle, drained, held>> /\ Owners' = Owners
    BY <1>3 DEF StartSearch, Owners, Goto
  <2>q. QED BY <2>1, <1>same
<1>4. ASSUME NEW u \in Users, BorrowTest(u) PROVE Owned'
  <2>1. UNCHANGED <<queue, handle, drained, held>> /\ Owners' = Owners
    BY <1>4 DEF BorrowTest, Owners, Goto
  <2>q. QED BY <2>1, <1>same
<1>5. ASSUME NEW u \in Users, BorrowAcquire(u) PROVE Owned'
  <2>1. UNCHANGED <<queue, handle, drained, held>> /\ Owners' = Owners
    BY <1>5 DEF BorrowAcquire, Owners, Goto
  <2>q. QED BY <2>1, <1>same
<1>6. ASSUME NEW u \in Users, BorrowRemove(u) PROVE Owned'
  <2>1. /\ Head(queue) \in Queued /\ Head(queue) \in Searchers
        /\ IsInjective(Tail(queue)) /\ ToSet(Tail(queue)) = Queued \ {Head(queue)}
    BY <1>6, TailElements DEF BorrowRemove, Owned, Queued
  <2>2. Owners' = Owners \cup {u} /\ u \notin Owners
    BY <1>6 DEF BorrowRemove, Owners, Goto
  <2>3. \A x \in Owners' : held'[x] = IF x = u THEN Head(queue) ELSE held[x]
    BY <1>6, <2>2 DEF BorrowRemove, Owners
  <2>4. InHands' = InHands \cup {Head(queue)} /\ Queued' = Queued \ {Head(queue)}
    BY <1>6, <2>1, <2>2, <2>3 DEF BorrowRemove, InHands, Queued
  <2>5. Open' = Open /\ drained' = drained
    BY <1>6 DEF BorrowRemove, Open
  <2>q. QED BY <1>6, <2>1, <2>2, <2>3, <2>4, <2>5, CangjieAssumption
    DEF BorrowRemove, Owned, InHands
<1>7. ASSUME NEW u \in Users, BorrowNone(u) PROVE Owned'
  <2>1. UNCHANGED <<queue, handle, drained, held>> /\ Owners' = Owners
    BY <1>7 DEF BorrowNone, Owners, Goto
  <2>q. QED BY <2>1, <1>same
<1>8. ASSUME NEW u \in Users, BorrowRelease(u) PROVE Owned'
  <2>1. UNCHANGED <<queue, handle, drained, held>> /\ Owners' = Owners
    BY <1>8 DEF BorrowRelease, Owners, Goto
  <2>q. QED BY <2>1, <1>same
<1>9. ASSUME NEW u \in Users, BorrowCount(u) PROVE Owned'
  <2>1. UNCHANGED <<queue, handle, drained, held>> /\ Owners' = Owners
    BY <1>9 DEF BorrowCount, Owners, Goto
  <2>q. QED BY <2>1, <1>same
<1>10. ASSUME NEW u \in Users, SearchThrows(u) PROVE Owned'
  <2>1. Owners' = Owners \ {u} /\ u \in Owners
    BY <1>10 DEF SearchThrows, Owners, Goto
  <2>2. \A x \in Owners' : held'[x] = held[x]
    BY <1>10, <2>1 DEF SearchThrows, Owners
  <2>3. InHands' \subseteq InHands /\ UNCHANGED <<queue, Queued, Open, drained>>
    BY <1>10, <2>1, <2>2 DEF SearchThrows, InHands, Queued, Open
  <2>q. QED BY <2>1, <2>2, <2>3 DEF Owned
<1>11. ASSUME NEW u \in Users, ReturnTest(u) PROVE Owned'
  <2>1. UNCHANGED <<queue, handle, drained, held>> /\ Owners' = Owners
    BY <1>11 DEF ReturnTest, Owners, Goto
  <2>q. QED BY <2>1, <1>same
<1>12. ASSUME NEW u \in Users, ReturnClose(u) PROVE Owned'
  <2>1. Owners' = Owners \ {u} /\ u \in Owners /\ held[u] \in Searchers
    BY <1>12 DEF ReturnClose, Owners, Goto
  <2>2. \A x \in Owners' : held'[x] = held[x]
    BY <1>12, <2>1 DEF ReturnClose, Owners
  <2>3. /\ InHands' \subseteq InHands \ {held[u]} /\ held[u] \in InHands
        /\ UNCHANGED <<queue, Queued, drained>>
    BY <1>12, <2>1, <2>2 DEF ReturnClose, InHands, Queued, Owned
  <2>4. Open' = Open \ {held[u]}
    BY <1>12, <2>1 DEF ReturnClose, Open
  <2>q. QED BY <2>1, <2>2, <2>3, <2>4 DEF Owned
<1>13. ASSUME NEW u \in Users, ReturnCloseThrows(u) PROVE Owned'
  <2>1. Owners' = Owners \ {u} /\ u \in Owners /\ held[u] \in Searchers
    BY <1>13 DEF ReturnCloseThrows, Owners, Goto
  <2>2. \A x \in Owners' : held'[x] = held[x]
    BY <1>13, <2>1 DEF ReturnCloseThrows, Owners
  <2>3. /\ InHands' \subseteq InHands \ {held[u]} /\ held[u] \in InHands
        /\ UNCHANGED <<queue, Queued, drained>>
    BY <1>13, <2>1, <2>2 DEF ReturnCloseThrows, InHands, Queued, Owned
  <2>4. Open' = Open \ {held[u]}
    BY <1>13, <2>1 DEF ReturnCloseThrows, Open
  <2>q. QED BY <2>1, <2>2, <2>3, <2>4 DEF Owned
<1>14. ASSUME NEW u \in Users, ReturnAdd(u) PROVE Owned'
  <2>1. Owners' = Owners \ {u} /\ u \in Owners /\ held[u] \in Searchers
    BY <1>14 DEF ReturnAdd, Owners, Goto
  <2>2. \A x \in Owners' : held'[x] = held[x]
    BY <1>14, <2>1 DEF ReturnAdd, Owners
  <2>3. /\ InHands' \subseteq InHands \ {held[u]} /\ held[u] \in InHands
        /\ UNCHANGED <<Open, drained>>
    BY <1>14, <2>1, <2>2 DEF ReturnAdd, InHands, Open, Owned
  <2>4. IsInjective(queue') /\ Queued' = Queued \cup {held[u]}
    BY <1>14, <2>1, <2>3, AppendElements DEF ReturnAdd, Owned, Queued
  <2>q. QED BY <2>1, <2>2, <2>3, <2>4 DEF Owned
<1>15. ASSUME NEW u \in Users, ReturnRelease(u) PROVE Owned'
  <2>1. UNCHANGED <<queue, handle, drained, held>> /\ Owners' = Owners
    BY <1>15 DEF ReturnRelease, Owners, Goto
  <2>q. QED BY <2>1, <1>same
<1>16. ASSUME NEW u \in Users, ReturnCount(u) PROVE Owned'
  <2>1. UNCHANGED <<queue, handle, drained, held>> /\ Owners' = Owners
    BY <1>16 DEF ReturnCount, Owners, Goto
  <2>q. QED BY <2>1, <1>same
<1>17. ASSUME CloseStart PROVE Owned'
  <2>1. UNCHANGED <<queue, handle, drained, held>> /\ Owners' = Owners
    BY <1>17 DEF CloseStart, Owners, Goto
  <2>q. QED BY <2>1, <1>same
<1>18. ASSUME DrainAcquire PROVE Owned'
  <2>1. UNCHANGED <<queue, handle, drained, held>> /\ Owners' = Owners
    BY <1>18 DEF DrainAcquire, Owners, Goto
  <2>q. QED BY <2>1, <1>same
<1>19. ASSUME DrainTake PROVE Owned'
  <2>1. CASE queue = <<>>
    <3>1. UNCHANGED <<queue, handle, drained, held>> /\ Owners' = Owners
      BY <1>19, <2>1 DEF DrainTake, Owners
    <3>q. QED BY <3>1, <1>same
  <2>2. CASE queue # <<>>
    <3>1. /\ Head(queue) \in Queued /\ Head(queue) \in Searchers
          /\ IsInjective(queue') /\ Queued' = Queued \ {Head(queue)}
      <4>1. queue' = Tail(queue)
        BY <1>19, <2>2 DEF DrainTake
      <4>q. QED BY <2>2, <4>1, TailElements DEF Owned, Queued
    <3>2. UNCHANGED <<held, Owners, Open>> /\ drained = Nobody
      BY <1>19, <2>2 DEF DrainTake, Owners, Open
    <3>3. drained' = Head(queue) /\ InHands' = InHands \cup {Head(queue)}
      BY <1>19, <2>2, <3>1, <3>2, CangjieAssumption DEF DrainTake, InHands
    <3>q. QED BY <3>1, <3>2, <3>3 DEF Owned, InHands
  <2>q. QED BY <2>1, <2>2
<1>20. ASSUME DrainClose PROVE Owned'
  <2>1. drained \in Searchers /\ drained' = Nobody
    BY <1>20 DEF DrainClose
  <2>2. UNCHANGED <<queue, Queued, held, Owners>> /\ Open' = Open \ {drained}
    BY <1>20, <2>1 DEF DrainClose, Queued, Owners, Open
  <2>3. InHands' = InHands \ {drained} /\ drained \in InHands
    BY <2>1, <2>2, CangjieAssumption DEF InHands, Owned
  <2>4. drained' \notin {held'[x] : x \in Owners'}
    BY <2>1, <2>2 DEF Owners
  <2>q. QED BY <2>2, <2>3, <2>4 DEF Owned
<1>21. ASSUME DrainThrows PROVE Owned'
  <2>1. drained \in Searchers /\ drained' = Nobody
    BY <1>21 DEF DrainThrows
  <2>2. UNCHANGED <<queue, Queued, held, Owners>> /\ Open' = Open \ {drained}
    BY <1>21, <2>1 DEF DrainThrows, Queued, Owners, Open
  <2>3. InHands' = InHands \ {drained} /\ drained \in InHands
    BY <2>1, <2>2, CangjieAssumption DEF InHands, Owned
  <2>4. drained' \notin {held'[x] : x \in Owners'}
    BY <2>1, <2>2 DEF Owners
  <2>q. QED BY <2>2, <2>3, <2>4 DEF Owned
<1>22. ASSUME DrainBreak PROVE Owned'
  <2>1. UNCHANGED <<queue, handle, drained, held>> /\ Owners' = Owners
    BY <1>22 DEF DrainBreak, Owners, Goto
  <2>q. QED BY <2>1, <1>same
<1>23. ASSUME DeadlinePasses PROVE Owned'
  <2>1. UNCHANGED <<queue, handle, drained, held>> /\ Owners' = Owners
    BY <1>23 DEF DeadlinePasses, Owners, Goto
  <2>q. QED BY <2>1, <1>same
<1>24. ASSUME WaitOver PROVE Owned'
  <2>1. UNCHANGED <<queue, handle, drained, held>> /\ Owners' = Owners
    BY <1>24 DEF WaitOver, Owners, Goto
  <2>q. QED BY <2>1, <1>same
<1>25. ASSUME UNCHANGED vars PROVE Owned'
  <2>1. UNCHANGED <<queue, handle, drained, held>> /\ Owners' = Owners
    BY <1>25 DEF vars, Owners
  <2>q. QED BY <2>1, <1>same
<1>q. QED
  BY <1>1, <1>2, <1>3, <1>4, <1>5, <1>6, <1>7, <1>8, <1>9,
     <1>10, <1>11, <1>12, <1>13, <1>14, <1>15, <1>16, <1>17, <1>18,
     <1>19, <1>20, <1>21, <1>22, <1>23, <1>24, <1>25
     DEF Next, UserStep, CloseStep

\* The count moves with the threads between the two atomic operations, and
\* a searcher that is lost takes the place of the thread that lost it.
LEMMA CountStep == Inv /\ [Next]_vars => CountExact'
<1> SUFFICES ASSUME TypeOK, Owned, CountExact, [Next]_vars PROVE CountExact'
  BY DEF Inv
<1> USE DEF TypeOK, poolVars, closerVars
<1>same. ASSUME UNCHANGED <<queue, handle, drained, held, loanCnt>>,
                Owners' = Owners, Counted' = Counted
         PROVE  CountExact'
  BY <1>same DEF CountExact, Lost, Queued, InHands, Open, Unreturned
<1>1. ASSUME NEW s \in Searchers, CreateSearcher(s) PROVE CountExact'
  <2>1. /\ Open' = Open \cup {s} /\ Queued' = Queued \cup {s}
        /\ InHands' = InHands /\ s \notin Open
    BY <1>1, AppendElements
       DEF CreateSearcher, Unopened, Open, Queued, InHands, Owners
  <2>2. Lost' = Lost
    BY <2>1 DEF Lost, Owned
  <2>3. UNCHANGED <<Counted, Unreturned, loanCnt>>
    BY <1>1 DEF CreateSearcher, Counted, Unopened, Unreturned
  <2>q. QED BY <2>2, <2>3 DEF CountExact
<1>2. ASSUME CreateEnds PROVE CountExact'
  <2>1. UNCHANGED <<queue, handle, drained, held, loanCnt>>
    BY <1>2 DEF CreateEnds
  <2>2. Owners' = Owners /\ Counted' = Counted
    BY <1>2 DEF CreateEnds, Owners, Counted, Goto
  <2>q. QED BY <2>1, <2>2, <1>same
<1>3. ASSUME NEW u \in Users, StartSearch(u) PROVE CountExact'
  <2>1. UNCHANGED <<queue, handle, drained, held, loanCnt>>
    BY <1>3 DEF StartSearch
  <2>2. Owners' = Owners /\ Counted' = Counted
    BY <1>3 DEF StartSearch, Owners, Counted, Goto
  <2>q. QED BY <2>1, <2>2, <1>same
<1>4. ASSUME NEW u \in Users, BorrowTest(u) PROVE CountExact'
  <2>1. UNCHANGED <<queue, handle, drained, held, loanCnt>>
    BY <1>4 DEF BorrowTest
  <2>2. Owners' = Owners /\ Counted' = Counted
    BY <1>4 DEF BorrowTest, Owners, Counted, Goto
  <2>q. QED BY <2>1, <2>2, <1>same
<1>5. ASSUME NEW u \in Users, BorrowAcquire(u) PROVE CountExact'
  <2>1. UNCHANGED <<queue, handle, drained, held, loanCnt>>
    BY <1>5 DEF BorrowAcquire
  <2>2. Owners' = Owners /\ Counted' = Counted
    BY <1>5 DEF BorrowAcquire, Owners, Counted, Goto
  <2>q. QED BY <2>1, <2>2, <1>same
<1>6. ASSUME NEW u \in Users, BorrowRemove(u) PROVE CountExact'
  <2>1. Head(queue) \in Queued /\ ToSet(Tail(queue)) = Queued \ {Head(queue)}
    BY <1>6, TailElements DEF BorrowRemove, Owned, Queued
  <2>2. Owners' = Owners \cup {u} /\ u \notin Owners
    BY <1>6 DEF BorrowRemove, Owners, Goto
  <2>3. \A x \in Owners' : held'[x] = IF x = u THEN Head(queue) ELSE held[x]
    BY <1>6, <2>2 DEF BorrowRemove, Owners
  <2>4. /\ InHands' = InHands \cup {Head(queue)}
        /\ Queued' = Queued \ {Head(queue)} /\ Open' = Open
    BY <1>6, <2>1, <2>2, <2>3 DEF BorrowRemove, InHands, Queued, Open
  <2>5. Lost' = Lost
    BY <2>1, <2>4 DEF Lost
  <2>6. UNCHANGED <<Counted, Unreturned, loanCnt>>
    BY <1>6 DEF BorrowRemove, Counted, Unreturned, Goto
  <2>q. QED BY <2>5, <2>6 DEF CountExact
<1>7. ASSUME NEW u \in Users, BorrowNone(u) PROVE CountExact'
  <2>1. UNCHANGED <<queue, handle, drained, held, loanCnt>>
    BY <1>7 DEF BorrowNone
  <2>2. Owners' = Owners /\ Counted' = Counted
    BY <1>7 DEF BorrowNone, Owners, Counted, Goto
  <2>q. QED BY <2>1, <2>2, <1>same
<1>8. ASSUME NEW u \in Users, BorrowRelease(u) PROVE CountExact'
  <2>1. UNCHANGED <<queue, handle, drained, held, loanCnt>>
    BY <1>8 DEF BorrowRelease
  <2>2. Owners' = Owners /\ Counted' = Counted
    BY <1>8 DEF BorrowRelease, Owners, Counted, Goto
  <2>q. QED BY <2>1, <2>2, <1>same
<1>9. ASSUME NEW u \in Users, BorrowCount(u) PROVE CountExact'
  <2>1. Counted' = Counted \cup {u} /\ u \notin Counted
    BY <1>9 DEF BorrowCount, Counted, Goto
  <2>2. UNCHANGED <<Lost, Unreturned>> /\ loanCnt' = loanCnt + 1
    <3>1. Owners' = Owners
      BY <1>9 DEF BorrowCount, Owners, Goto
    <3>q. QED BY <1>9, <3>1
      DEF BorrowCount, Lost, Open, Queued, InHands, Unreturned
  <2>3. Cardinality(Counted') = Cardinality(Counted) + 1
    BY <2>1, Finite, FS_AddElement
  <2>q. QED BY <2>2, <2>3, Finite DEF CountExact
<1>10. ASSUME NEW u \in Users, SearchThrows(u) PROVE CountExact'
  <2>1. Owners' = Owners \ {u} /\ u \in Owners /\ held[u] \in Searchers
    BY <1>10 DEF SearchThrows, Owners, Goto
  <2>2. \A x \in Owners' : held'[x] = held[x]
    BY <1>10, <2>1 DEF SearchThrows, Owners
  <2>3. /\ InHands' = InHands \ {held[u]} /\ held[u] \in InHands
        /\ UNCHANGED <<Queued, Open, Unreturned, loanCnt>>
    BY <1>10, <2>1, <2>2
       DEF SearchThrows, InHands, Queued, Open, Unreturned, Owned
  <2>4. Lost' = Lost \cup {held[u]} /\ held[u] \notin Lost
    BY <2>3 DEF Lost, Owned
  <2>5. Counted' = Counted \ {u} /\ u \in Counted
    BY <1>10 DEF SearchThrows, Counted, Goto
  <2>6. /\ Cardinality(Lost') = Cardinality(Lost) + 1
        /\ Cardinality(Counted') = Cardinality(Counted) - 1
    BY <2>4, <2>5, Finite, FS_AddElement, FS_RemoveElement
  <2>q. QED BY <2>3, <2>6, Finite DEF CountExact
<1>11. ASSUME NEW u \in Users, ReturnTest(u) PROVE CountExact'
  <2>1. UNCHANGED <<queue, handle, drained, held, loanCnt>>
    BY <1>11 DEF ReturnTest
  <2>2. Owners' = Owners /\ Counted' = Counted
    BY <1>11 DEF ReturnTest, Owners, Counted, Goto
  <2>q. QED BY <2>1, <2>2, <1>same
<1>12. ASSUME NEW u \in Users, ReturnClose(u) PROVE CountExact'
  <2>1. Owners' = Owners \ {u} /\ u \in Owners /\ held[u] \in Searchers
    BY <1>12 DEF ReturnClose, Owners, Goto
  <2>2. \A x \in Owners' : held'[x] = held[x]
    BY <1>12, <2>1 DEF ReturnClose, Owners
  <2>3. /\ InHands' = InHands \ {held[u]} /\ held[u] \in InHands
        /\ UNCHANGED <<Queued, loanCnt>>
    BY <1>12, <2>1, <2>2 DEF ReturnClose, InHands, Queued, Owned
  <2>4. Open' = Open \ {held[u]}
    BY <1>12, <2>1 DEF ReturnClose, Open
  <2>5. Lost' = Lost
    BY <2>3, <2>4 DEF Lost
  <2>6. UNCHANGED <<Counted, Unreturned>>
    BY <1>12, <2>1, <2>3
       DEF ReturnClose, Counted, Unreturned, Open, Owned, Goto
  <2>q. QED BY <2>3, <2>5, <2>6 DEF CountExact
<1>13. ASSUME NEW u \in Users, ReturnCloseThrows(u) PROVE CountExact'
  <2>1. Owners' = Owners \ {u} /\ u \in Owners /\ held[u] \in Searchers
    BY <1>13 DEF ReturnCloseThrows, Owners, Goto
  <2>2. \A x \in Owners' : held'[x] = held[x]
    BY <1>13, <2>1 DEF ReturnCloseThrows, Owners
  <2>3. /\ InHands' = InHands \ {held[u]} /\ held[u] \in InHands
        /\ UNCHANGED <<Queued, loanCnt>>
    BY <1>13, <2>1, <2>2 DEF ReturnCloseThrows, InHands, Queued, Owned
  <2>4. Open' = Open \ {held[u]}
    BY <1>13, <2>1 DEF ReturnCloseThrows, Open
  <2>5. Lost' = Lost
    BY <2>3, <2>4 DEF Lost
  <2>6. /\ Unreturned' = Unreturned \cup {held[u]}
        /\ held[u] \notin Unreturned
    BY <1>13, <2>1, <2>3 DEF ReturnCloseThrows, Unreturned, Open, Owned
  <2>7. Counted' = Counted \ {u} /\ u \in Counted
    BY <1>13 DEF ReturnCloseThrows, Counted, Goto
  <2>8. /\ Cardinality(Unreturned') = Cardinality(Unreturned) + 1
        /\ Cardinality(Counted') = Cardinality(Counted) - 1
    BY <2>6, <2>7, Finite, FS_AddElement, FS_RemoveElement
  <2>q. QED BY <2>3, <2>5, <2>8, Finite DEF CountExact
<1>14. ASSUME NEW u \in Users, ReturnAdd(u) PROVE CountExact'
  <2>1. Owners' = Owners \ {u} /\ u \in Owners /\ held[u] \in Searchers
    BY <1>14 DEF ReturnAdd, Owners, Goto
  <2>2. \A x \in Owners' : held'[x] = held[x]
    BY <1>14, <2>1 DEF ReturnAdd, Owners
  <2>3. /\ InHands' = InHands \ {held[u]} /\ held[u] \in InHands
        /\ UNCHANGED <<Open, Unreturned, loanCnt>>
    BY <1>14, <2>1, <2>2 DEF ReturnAdd, InHands, Open, Unreturned, Owned
  <2>4. Queued' = Queued \cup {held[u]}
    BY <1>14, <2>1, AppendElements DEF ReturnAdd, Owned, Queued
  <2>5. Lost' = Lost
    BY <2>3, <2>4 DEF Lost, Owned
  <2>6. Counted' = Counted
    BY <1>14 DEF ReturnAdd, Counted, Goto
  <2>q. QED BY <2>3, <2>5, <2>6 DEF CountExact
<1>15. ASSUME NEW u \in Users, ReturnRelease(u) PROVE CountExact'
  <2>1. UNCHANGED <<queue, handle, drained, held, loanCnt>>
    BY <1>15 DEF ReturnRelease
  <2>2. Owners' = Owners /\ Counted' = Counted
    BY <1>15 DEF ReturnRelease, Owners, Counted, Goto
  <2>q. QED BY <2>1, <2>2, <1>same
<1>16. ASSUME NEW u \in Users, ReturnCount(u) PROVE CountExact'
  <2>1. Counted' = Counted \ {u} /\ u \in Counted
    BY <1>16 DEF ReturnCount, Counted, Goto
  <2>2. UNCHANGED <<Lost, Unreturned>> /\ loanCnt' = loanCnt - 1
    <3>1. Owners' = Owners
      BY <1>16 DEF ReturnCount, Owners, Goto
    <3>q. QED BY <1>16, <3>1
      DEF ReturnCount, Lost, Open, Queued, InHands, Unreturned
  <2>3. Cardinality(Counted') = Cardinality(Counted) - 1
    BY <2>1, Finite, FS_RemoveElement
  <2>q. QED BY <2>2, <2>3, Finite DEF CountExact
<1>17. ASSUME CloseStart PROVE CountExact'
  <2>1. UNCHANGED <<queue, handle, drained, held, loanCnt>>
    BY <1>17 DEF CloseStart
  <2>2. Owners' = Owners /\ Counted' = Counted
    BY <1>17 DEF CloseStart, Owners, Counted, Goto
  <2>q. QED BY <2>1, <2>2, <1>same
<1>18. ASSUME DrainAcquire PROVE CountExact'
  <2>1. UNCHANGED <<queue, handle, drained, held, loanCnt>>
    BY <1>18 DEF DrainAcquire
  <2>2. Owners' = Owners /\ Counted' = Counted
    BY <1>18 DEF DrainAcquire, Owners, Counted, Goto
  <2>q. QED BY <2>1, <2>2, <1>same
<1>19. ASSUME DrainTake PROVE CountExact'
  <2>1. CASE queue = <<>>
    <3>1. UNCHANGED <<queue, handle, drained, held, loanCnt, Owners, Counted>>
      BY <1>19, <2>1 DEF DrainTake, Owners, Counted
    <3>q. QED BY <3>1, <1>same
  <2>2. CASE queue # <<>>
    <3>1. Head(queue) \in Queued /\ Queued' = Queued \ {Head(queue)}
      <4>1. queue' = Tail(queue)
        BY <1>19, <2>2 DEF DrainTake
      <4>q. QED BY <2>2, <4>1, TailElements DEF Owned, Queued
    <3>2. /\ UNCHANGED <<held, Owners, Open, Counted, Unreturned, loanCnt>>
          /\ drained = Nobody
      BY <1>19, <2>2 DEF DrainTake, Owners, Open, Counted, Unreturned
    <3>3. InHands' = InHands \cup {Head(queue)}
      <4>1. Head(queue) # Nobody
        BY <2>2, CangjieAssumption, TailElements DEF Owned
      <4>q. QED BY <1>19, <2>2, <3>2, <4>1 DEF DrainTake, InHands
    <3>4. Lost' = Lost
      BY <3>1, <3>2, <3>3 DEF Lost
    <3>q. QED BY <3>2, <3>4 DEF CountExact
  <2>q. QED BY <2>1, <2>2
<1>20. ASSUME DrainClose PROVE CountExact'
  <2>1. drained \in Searchers /\ drained' = Nobody
    BY <1>20 DEF DrainClose
  <2>2. /\ UNCHANGED <<Queued, held, Owners, Counted, loanCnt>>
        /\ Open' = Open \ {drained}
    BY <1>20, <2>1 DEF DrainClose, Queued, Owners, Counted, Open
  <2>3. InHands' = InHands \ {drained} /\ drained \in InHands
    BY <2>1, <2>2, CangjieAssumption DEF InHands, Owned
  <2>4. UNCHANGED <<Lost, Unreturned>>
    BY <1>20, <2>1, <2>2, <2>3 DEF DrainClose, Lost, Unreturned, Open, Owned
  <2>q. QED BY <2>2, <2>4 DEF CountExact
<1>21. ASSUME DrainThrows PROVE CountExact'
  <2>1. drained \in Searchers /\ drained' = Nobody
    BY <1>21 DEF DrainThrows
  <2>2. /\ UNCHANGED <<Queued, held, Owners, Counted, loanCnt>>
        /\ Open' = Open \ {drained}
    BY <1>21, <2>1 DEF DrainThrows, Queued, Owners, Counted, Open
  <2>3. InHands' = InHands \ {drained} /\ drained \in InHands
    BY <2>1, <2>2, CangjieAssumption DEF InHands, Owned
  <2>4. UNCHANGED <<Lost, Unreturned>>
    BY <1>21, <2>1, <2>2, <2>3 DEF DrainThrows, Lost, Unreturned, Open, Owned
  <2>q. QED BY <2>2, <2>4 DEF CountExact
<1>22. ASSUME DrainBreak PROVE CountExact'
  <2>1. UNCHANGED <<queue, handle, drained, held, loanCnt>>
    BY <1>22 DEF DrainBreak
  <2>2. Owners' = Owners /\ Counted' = Counted
    BY <1>22 DEF DrainBreak, Owners, Counted, Goto
  <2>q. QED BY <2>1, <2>2, <1>same
<1>23. ASSUME DeadlinePasses PROVE CountExact'
  <2>1. UNCHANGED <<queue, handle, drained, held, loanCnt>>
    BY <1>23 DEF DeadlinePasses
  <2>2. Owners' = Owners /\ Counted' = Counted
    BY <1>23 DEF DeadlinePasses, Owners, Counted, Goto
  <2>q. QED BY <2>1, <2>2, <1>same
<1>24. ASSUME WaitOver PROVE CountExact'
  <2>1. UNCHANGED <<queue, handle, drained, held, loanCnt>>
    BY <1>24 DEF WaitOver
  <2>2. Owners' = Owners /\ Counted' = Counted
    BY <1>24 DEF WaitOver, Owners, Counted, Goto
  <2>q. QED BY <2>1, <2>2, <1>same
<1>25. ASSUME UNCHANGED vars PROVE CountExact'
  <2>1. UNCHANGED <<queue, handle, drained, held, loanCnt, Owners, Counted>>
    BY <1>25 DEF vars, Owners, Counted
  <2>q. QED BY <2>1, <1>same
<1>q. QED
  BY <1>1, <1>2, <1>3, <1>4, <1>5, <1>6, <1>7, <1>8, <1>9,
     <1>10, <1>11, <1>12, <1>13, <1>14, <1>15, <1>16, <1>17, <1>18,
     <1>19, <1>20, <1>21, <1>22, <1>23, <1>24, <1>25
     DEF Next, UserStep, CloseStep

\* Nobody searches or closes what is under construction.
LEMMA ControlStep == Inv /\ [Next]_vars => Control'
<1> SUFFICES ASSUME TypeOK, Control, [Next]_vars PROVE Control'
  BY DEF Inv
<1> USE DEF TypeOK, Control, Goto, poolVars, closerVars
<1>1. ASSUME NEW s \in Searchers, CreateSearcher(s) PROVE Control'
  <2>1. /\ Open' = Open \cup {s} /\ Queued' = Queued \cup {s}
    BY <1>1, AppendElements DEF CreateSearcher, Unopened, Open, Queued
  <2>q. QED BY <1>1, <2>1 DEF CreateSearcher
<1>2. ASSUME CreateEnds PROVE Control'
  BY <1>2 DEF CreateEnds, Open, Queued
<1>3. ASSUME NEW u \in Users, StartSearch(u) PROVE Control'
  BY <1>3 DEF StartSearch
<1>4. ASSUME NEW u \in Users, BorrowTest(u) PROVE Control'
  BY <1>4 DEF BorrowTest
<1>5. ASSUME NEW u \in Users, BorrowAcquire(u) PROVE Control'
  BY <1>5 DEF BorrowAcquire
<1>6. ASSUME NEW u \in Users, BorrowRemove(u) PROVE Control'
  BY <1>6 DEF BorrowRemove
<1>7. ASSUME NEW u \in Users, BorrowNone(u) PROVE Control'
  BY <1>7 DEF BorrowNone
<1>8. ASSUME NEW u \in Users, BorrowRelease(u) PROVE Control'
  BY <1>8 DEF BorrowRelease
<1>9. ASSUME NEW u \in Users, BorrowCount(u) PROVE Control'
  BY <1>9 DEF BorrowCount
<1>10. ASSUME NEW u \in Users, SearchThrows(u) PROVE Control'
  BY <1>10 DEF SearchThrows
<1>11. ASSUME NEW u \in Users, ReturnTest(u) PROVE Control'
  BY <1>11 DEF ReturnTest
<1>12. ASSUME NEW u \in Users, ReturnClose(u) PROVE Control'
  BY <1>12 DEF ReturnClose
<1>13. ASSUME NEW u \in Users, ReturnCloseThrows(u) PROVE Control'
  BY <1>13 DEF ReturnCloseThrows
<1>14. ASSUME NEW u \in Users, ReturnAdd(u) PROVE Control'
  BY <1>14 DEF ReturnAdd
<1>15. ASSUME NEW u \in Users, ReturnRelease(u) PROVE Control'
  BY <1>15 DEF ReturnRelease
<1>16. ASSUME NEW u \in Users, ReturnCount(u) PROVE Control'
  BY <1>16 DEF ReturnCount
<1>17. ASSUME CloseStart PROVE Control'
  BY <1>17 DEF CloseStart
<1>18. ASSUME DrainAcquire PROVE Control'
  BY <1>18 DEF DrainAcquire
<1>19. ASSUME DrainTake PROVE Control'
  BY <1>19 DEF DrainTake
<1>20. ASSUME DrainClose PROVE Control'
  BY <1>20 DEF DrainClose
<1>21. ASSUME DrainThrows PROVE Control'
  BY <1>21 DEF DrainThrows
<1>22. ASSUME DrainBreak PROVE Control'
  BY <1>22 DEF DrainBreak
<1>23. ASSUME DeadlinePasses PROVE Control'
  BY <1>23 DEF DeadlinePasses
<1>24. ASSUME WaitOver PROVE Control'
  BY <1>24 DEF WaitOver
<1>25. ASSUME UNCHANGED vars PROVE Control'
  BY <1>25 DEF vars, Open, Queued
<1>q. QED
  BY <1>1, <1>2, <1>3, <1>4, <1>5, <1>6, <1>7, <1>8, <1>9,
     <1>10, <1>11, <1>12, <1>13, <1>14, <1>15, <1>16, <1>17, <1>18,
     <1>19, <1>20, <1>21, <1>22, <1>23, <1>24, <1>25
     DEF Next, UserStep, CloseStep

-----------------------------------------------------------------------------
(* The theorems *)

\* Every initial state satisfies the inductive invariant.
LEMMA InitInv == Init => Inv
<1> SUFFICES ASSUME Init PROVE Inv
  OBVIOUS
<1> USE DEF Init
<1>1. N \in Nat
  BY Finite
<1>2. Owners = {} /\ Counted = {} /\ Open = {} /\ Unreturned = {}
  BY DEF Owners, Counted, Open, Unreturned
<1>3. Queued = {} /\ InHands = {} /\ Lost = {}
  BY <1>2 DEF Queued, ToSet, InHands, Lost
<1>4. TypeOK
  <2>1. limit \in {N, 2 * N} /\ permits \in 0..limit
    BY <1>1
  <2>2. pc \in [Users -> UserPCs] /\ cpc \in CloserPCs
    BY DEF UserPCs, CloserPCs
  <2>3. /\ held \in [Users -> Searchers \cup {Nobody}]
        /\ \A u \in Users : u \in Owners <=> held[u] # Nobody
    BY <1>2
  <2>4. /\ queue \in Seq(Searchers) /\ loanCnt \in Nat /\ closing \in BOOLEAN
        /\ late \in BOOLEAN
    BY EmptySeq
  <2>q. QED BY <2>1, <2>2, <2>3, <2>4 DEF TypeOK
<1>5. Owned
  BY <1>2, <1>3 DEF Owned, IsInjective
<1>6. CountExact
  BY <1>2, <1>3, FS_EmptySet DEF CountExact
<1>7. Control
  BY <1>2 DEF Control
<1>q. QED BY <1>4, <1>5, <1>6, <1>7 DEF Inv

\* Every reachable state satisfies the inductive invariant.
THEOREM Invariance == Spec => []Inv
<1>1. Inv /\ [Next]_vars => Inv'
  BY TypeStep, OwnedStep, CountStep, ControlStep DEF Inv
<1>q. QED BY InitInv, <1>1, PTL DEF Spec

\* Every variable of the pool keeps its type; the permits stay below their
\* limit, whichever it is, and the loan count above zero.
THEOREM CangjiePoolTypeOK == Spec => []TypeOK
<1>1. Inv => TypeOK
  BY DEF Inv
<1>q. QED BY <1>1, Invariance, PTL

\* Although nothing is locked a searcher has one owner and is open while it
\* has one; the loan count is the running searches and what was lost.
THEOREM CangjiePoolOneOwner == Spec => []OneOwner
<1>1. Inv => OneOwner
  BY DEF Inv, Owned, CountExact, Unreturned, OneOwner
<1>q. QED BY <1>1, Invariance, PTL

\* Who has a permit and will look for a searcher or give it back, and who has
\* added a searcher and will give its permit back.
Covering == {u \in Users : pc[u] \in {"remove", "none", "release"}}

\* For each searcher in the queue there is a permit, or somebody who has it.
Covered ==
    Len(queue) <= permits + Cardinality(Covering)
                     + (IF cpc = "take" THEN 1 ELSE 0)

\* Each searcher that enters the queue brings a permit, each permit that is
\* taken is used or given back, and one that is lost to the limit is not
\* missed, because the limit is no less than the number of searchers.
LEMMA CoveredStep == Inv /\ Inv' /\ Covered /\ [Next]_vars => Covered'
<1> SUFFICES ASSUME Inv, Inv', Covered, [Next]_vars PROVE Covered'
  OBVIOUS
<1> USE DEF poolVars, closerVars
<1>0. /\ TypeOK /\ N \in Nat /\ limit \in Nat /\ limit >= N
      /\ permits \in 0..limit /\ queue \in Seq(Searchers) /\ Len(queue) \in Nat
      /\ IsFiniteSet(Covering) /\ Cardinality(Covering) \in Nat
  <2>1. IsFiniteSet(Covering)
    BY CangjieAssumption, FS_Subset DEF Covering
  <2>q. QED BY <2>1, Finite, FS_CardinalityType, LenProperties DEF Inv, TypeOK
<1>bound. Len(queue) <= N /\ Len(queue') <= N
  BY CangjieAssumption, DistinctBound DEF Inv, TypeOK, Owned, N
<1>same. ASSUME UNCHANGED <<queue, permits, limit, cpc>>, Covering' = Covering
         PROVE  Covered'
  BY <1>same DEF Covered
<1>1. ASSUME NEW s \in Searchers, CreateSearcher(s) PROVE Covered'
  <2>1. Len(queue') = Len(queue) + 1 /\ Len(queue') <= N
    BY <1>1, <1>0, AppendElements, <1>bound DEF CreateSearcher
  <2>2. permits' = IF permits < limit THEN permits + 1 ELSE limit
    BY <1>1, <1>0, ReleaseStep DEF CreateSearcher
  <2>3. UNCHANGED <<limit, cpc, Covering>>
    BY <1>1 DEF CreateSearcher, Covering
  <2>q. QED BY <1>0, <2>1, <2>2, <2>3 DEF Covered
<1>2. ASSUME CreateEnds PROVE Covered'
  <2>1. UNCHANGED <<queue, permits, limit, cpc>> /\ Covering' = Covering
    BY <1>2, <1>0 DEF CreateEnds, Covering, Goto, TypeOK
  <2>q. QED BY <2>1, <1>same
<1>3. ASSUME NEW u \in Users, StartSearch(u) PROVE Covered'
  <2>1. UNCHANGED <<queue, permits, limit, cpc>> /\ Covering' = Covering
    BY <1>3, <1>0 DEF StartSearch, Covering, Goto, TypeOK
  <2>q. QED BY <2>1, <1>same
<1>4. ASSUME NEW u \in Users, BorrowTest(u) PROVE Covered'
  <2>1. UNCHANGED <<queue, permits, limit, cpc>> /\ Covering' = Covering
    BY <1>4, <1>0 DEF BorrowTest, Covering, Goto, TypeOK
  <2>q. QED BY <2>1, <1>same
<1>5. ASSUME NEW u \in Users, BorrowAcquire(u) PROVE Covered'
  <2>1. CASE permits > 0
    <3>1. Covering' = Covering \cup {u} /\ u \notin Covering
      BY <1>5, <1>0, <2>1 DEF BorrowAcquire, Covering, Goto, TypeOK
    <3>2. Cardinality(Covering') = Cardinality(Covering) + 1
      BY <1>0, <3>1, FS_AddElement
    <3>3. permits' = permits - 1 /\ UNCHANGED <<queue, limit, cpc>>
      BY <1>5, <2>1 DEF BorrowAcquire
    <3>q. QED BY <1>0, <3>2, <3>3 DEF Covered
  <2>2. CASE ~(permits > 0)
    <3>1. UNCHANGED <<queue, permits, limit, cpc>> /\ Covering' = Covering
      BY <1>5, <1>0, <2>2 DEF BorrowAcquire, Covering, Goto, TypeOK
    <3>q. QED BY <3>1, <1>same
  <2>q. QED BY <2>1, <2>2
<1>6. ASSUME NEW u \in Users, BorrowRemove(u) PROVE Covered'
  <2>1. Covering' = Covering \ {u} /\ u \in Covering
    BY <1>6, <1>0 DEF BorrowRemove, Covering, Goto, TypeOK
  <2>2. Cardinality(Covering') = Cardinality(Covering) - 1
    BY <1>0, <2>1, FS_RemoveElement
  <2>3. Len(queue') = Len(queue) - 1 /\ UNCHANGED <<permits, limit, cpc>>
    BY <1>6, <1>0, HeadTailProperties DEF BorrowRemove, TypeOK
  <2>q. QED BY <1>0, <2>2, <2>3 DEF Covered
<1>7. ASSUME NEW u \in Users, BorrowNone(u) PROVE Covered'
  <2>1. UNCHANGED <<queue, permits, limit, cpc>> /\ Covering' = Covering
    BY <1>7, <1>0 DEF BorrowNone, Covering, Goto, TypeOK
  <2>q. QED BY <2>1, <1>same
<1>8. ASSUME NEW u \in Users, BorrowRelease(u) PROVE Covered'
  <2>1. Covering' = Covering \ {u} /\ u \in Covering
    BY <1>8, <1>0 DEF BorrowRelease, Covering, Goto, TypeOK
  <2>2. Cardinality(Covering') = Cardinality(Covering) - 1
    BY <1>0, <2>1, FS_RemoveElement
  <2>3. permits' = IF permits < limit THEN permits + 1 ELSE limit
    BY <1>8, <1>0, ReleaseStep DEF BorrowRelease
  <2>4. UNCHANGED <<queue, limit, cpc>>
    BY <1>8 DEF BorrowRelease
  <2>5. CASE permits < limit
    BY <1>0, <2>2, <2>3, <2>4, <2>5 DEF Covered
  <2>6. CASE permits = limit
    <3>1. Cardinality(Covering') >= 0
      BY <1>0, <2>1, FS_Subset, FS_CardinalityType
    <3>2. permits' = limit
      BY <1>0, <2>3, <2>6
    <3>3. Len(queue') <= permits' + Cardinality(Covering')
      BY <1>0, <1>bound, <2>2, <3>1, <3>2
    <3>4. permits' \in Nat /\ Len(queue') \in Nat
      BY <1>0, <2>4, <3>2
    <3>q. QED BY <1>0, <2>2, <3>3, <3>4 DEF Covered
  <2>q. QED BY <1>0, <2>5, <2>6
<1>9. ASSUME NEW u \in Users, BorrowCount(u) PROVE Covered'
  <2>1. UNCHANGED <<queue, permits, limit, cpc>> /\ Covering' = Covering
    BY <1>9, <1>0 DEF BorrowCount, Covering, Goto, TypeOK
  <2>q. QED BY <2>1, <1>same
<1>10. ASSUME NEW u \in Users, SearchThrows(u) PROVE Covered'
  <2>1. UNCHANGED <<queue, permits, limit, cpc>> /\ Covering' = Covering
    BY <1>10, <1>0 DEF SearchThrows, Covering, Goto, TypeOK
  <2>q. QED BY <2>1, <1>same
<1>11. ASSUME NEW u \in Users, ReturnTest(u) PROVE Covered'
  <2>1. UNCHANGED <<queue, permits, limit, cpc>> /\ Covering' = Covering
    BY <1>11, <1>0 DEF ReturnTest, Covering, Goto, TypeOK
  <2>q. QED BY <2>1, <1>same
<1>12. ASSUME NEW u \in Users, ReturnClose(u) PROVE Covered'
  <2>1. UNCHANGED <<queue, permits, limit, cpc>> /\ Covering' = Covering
    BY <1>12, <1>0 DEF ReturnClose, Covering, Goto, TypeOK
  <2>q. QED BY <2>1, <1>same
<1>13. ASSUME NEW u \in Users, ReturnCloseThrows(u) PROVE Covered'
  <2>1. UNCHANGED <<queue, permits, limit, cpc>> /\ Covering' = Covering
    BY <1>13, <1>0 DEF ReturnCloseThrows, Covering, Goto, TypeOK
  <2>q. QED BY <2>1, <1>same
<1>14. ASSUME NEW u \in Users, ReturnAdd(u) PROVE Covered'
  <2>1. Covering' = Covering \cup {u} /\ u \notin Covering
    BY <1>14, <1>0 DEF ReturnAdd, Covering, Goto, TypeOK
  <2>2. Cardinality(Covering') = Cardinality(Covering) + 1
    BY <1>0, <2>1, FS_AddElement
  <2>3. held[u] \in Searchers
    BY <1>14, <1>0 DEF ReturnAdd, TypeOK, Owners, Goto
  <2>4. Len(queue') = Len(queue) + 1 /\ UNCHANGED <<permits, limit, cpc>>
    BY <1>14, <1>0, <2>3, AppendElements DEF ReturnAdd, TypeOK
  <2>q. QED BY <1>0, <2>2, <2>4 DEF Covered
<1>15. ASSUME NEW u \in Users, ReturnRelease(u) PROVE Covered'
  <2>1. Covering' = Covering \ {u} /\ u \in Covering
    BY <1>15, <1>0 DEF ReturnRelease, Covering, Goto, TypeOK
  <2>2. Cardinality(Covering') = Cardinality(Covering) - 1
    BY <1>0, <2>1, FS_RemoveElement
  <2>3. permits' = IF permits < limit THEN permits + 1 ELSE limit
    BY <1>15, <1>0, ReleaseStep DEF ReturnRelease
  <2>4. UNCHANGED <<queue, limit, cpc>>
    BY <1>15 DEF ReturnRelease
  <2>5. CASE permits < limit
    BY <1>0, <2>2, <2>3, <2>4, <2>5 DEF Covered
  <2>6. CASE permits = limit
    <3>1. Cardinality(Covering') >= 0
      BY <1>0, <2>1, FS_Subset, FS_CardinalityType
    <3>2. permits' = limit
      BY <1>0, <2>3, <2>6
    <3>3. Len(queue') <= permits' + Cardinality(Covering')
      BY <1>0, <1>bound, <2>2, <3>1, <3>2
    <3>4. permits' \in Nat /\ Len(queue') \in Nat
      BY <1>0, <2>4, <3>2
    <3>q. QED BY <1>0, <2>2, <3>3, <3>4 DEF Covered
  <2>q. QED BY <1>0, <2>5, <2>6
<1>16. ASSUME NEW u \in Users, ReturnCount(u) PROVE Covered'
  <2>1. UNCHANGED <<queue, permits, limit, cpc>> /\ Covering' = Covering
    BY <1>16, <1>0 DEF ReturnCount, Covering, Goto, TypeOK
  <2>q. QED BY <2>1, <1>same
<1>17. ASSUME CloseStart PROVE Covered'
  <2>1. /\ UNCHANGED <<queue, permits, limit, Covering>>
        /\ cpc # "take" /\ cpc' # "take"
    BY <1>17 DEF CloseStart, Covering
  <2>q. QED BY <1>0, <2>1 DEF Covered
<1>18. ASSUME DrainAcquire PROVE Covered'
  <2>1. Covering' = Covering /\ UNCHANGED <<queue, limit>>
    BY <1>18 DEF DrainAcquire, Covering
  <2>q. QED BY <1>18, <1>0, <2>1 DEF DrainAcquire, Covered
<1>19. ASSUME DrainTake PROVE Covered'
  <2>1. Covering' = Covering /\ UNCHANGED <<permits, limit>>
    BY <1>19 DEF DrainTake, Covering
  <2>2. Len(queue') = IF queue = <<>> THEN 0 ELSE Len(queue) - 1
    BY <1>19, <1>0, HeadTailProperties, EmptySeq DEF DrainTake, TypeOK
  <2>3. queue = <<>> => Len(queue) = 0
    OBVIOUS
  <2>q. QED BY <1>19, <1>0, <2>1, <2>2, <2>3 DEF DrainTake, Covered
<1>20. ASSUME DrainClose PROVE Covered'
  <2>1. /\ UNCHANGED <<queue, permits, limit, Covering>>
        /\ cpc # "take" /\ cpc' # "take"
    BY <1>20 DEF DrainClose, Covering
  <2>q. QED BY <1>0, <2>1 DEF Covered
<1>21. ASSUME DrainThrows PROVE Covered'
  <2>1. /\ UNCHANGED <<queue, permits, limit, Covering>>
        /\ cpc # "take" /\ cpc' # "take"
    BY <1>21 DEF DrainThrows, Covering
  <2>q. QED BY <1>0, <2>1 DEF Covered
<1>22. ASSUME DrainBreak PROVE Covered'
  <2>1. /\ UNCHANGED <<queue, permits, limit, Covering>>
        /\ cpc # "take" /\ cpc' # "take"
    BY <1>22 DEF DrainBreak, Covering
  <2>q. QED BY <1>0, <2>1 DEF Covered
<1>23. ASSUME DeadlinePasses PROVE Covered'
  <2>1. UNCHANGED <<queue, permits, limit, cpc>> /\ Covering' = Covering
    BY <1>23, <1>0 DEF DeadlinePasses, Covering, Goto, TypeOK
  <2>q. QED BY <2>1, <1>same
<1>24. ASSUME WaitOver PROVE Covered'
  <2>1. /\ UNCHANGED <<queue, permits, limit, Covering>>
        /\ cpc # "take" /\ cpc' # "take"
    BY <1>24 DEF WaitOver, Covering
  <2>q. QED BY <1>0, <2>1 DEF Covered
<1>25. ASSUME UNCHANGED vars PROVE Covered'
  <2>1. UNCHANGED <<queue, permits, limit, cpc>> /\ Covering' = Covering
    BY <1>25 DEF vars, Covering
  <2>q. QED BY <2>1, <1>same
<1>q. QED
  BY <1>1, <1>2, <1>3, <1>4, <1>5, <1>6, <1>7, <1>8, <1>9,
     <1>10, <1>11, <1>12, <1>13, <1>14, <1>15, <1>16, <1>17, <1>18,
     <1>19, <1>20, <1>21, <1>22, <1>23, <1>24, <1>25
     DEF Next, UserStep, CloseStep

\* No searcher in the queue is out of reach: as long as one is there, a
\* permit is to be had, or somebody has one and is about to use it or to give
\* it back.  Permits and searchers are counted apart, and nothing but the
\* order of the operations keeps them together.
THEOREM CangjiePoolCovered == Spec => []Covered
<1>1. Init => Covered
  BY CangjieAssumption, FS_Subset, FS_CardinalityType
     DEF Init, Covered, Covering, N
<1>q. QED BY <1>1, Invariance, CoveredStep, PTL DEF Spec
=============================================================================
