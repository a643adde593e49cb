----------------------- MODULE JavaSearcherPoolProofs -----------------------
(***************************************************************************)
(* Proofs about JavaSearcherPool for any number of searchers and threads.  *)
(***************************************************************************)
EXTENDS JavaSearcherPool, FiniteSetTheorems, SequenceTheorems, TLAPS

\* The condition's queue holds the parked users, each once.
ParkedOnce ==
    /\ IsInjective(parked)
    /\ ToSet(parked) = {u \in Users : pc[u] = "parked"}

LoanCountExact == loanCount = Cardinality(Using)

\* What the phases imply; close passed its loop only with nothing loaned,
\* and holds the lock until the queue is empty.
Control ==
    /\ phase # "ready" => cpc = "none" /\ \A u \in Users : pc[u] = "idle"
    /\ cpc \in {"draining", "closed"} => Using = {}
    /\ cpc = "closed" => pool = <<>>

Inv ==
    /\ TypeOK /\ OneHolder /\ ParkedOnce /\ LoanCountExact
    /\ NoLostWakeup /\ Control

\* Counting needs finite sets, which TLC takes for granted.
LEMMA FiniteCounts ==
    /\ IsFiniteSet(Using) /\ Cardinality(Using) \in Nat
    /\ IsFiniteSet(Woken) /\ Cardinality(Woken) \in Nat
BY UsersAssumption, FS_Subset, FS_CardinalityType DEF Using, Woken

-----------------------------------------------------------------------------
(* The pool's deque and the condition's queue *)

\* A searcher comes home, or a thread parks: the queue has one more.
LEMMA AppendElements ==
    ASSUME NEW S, NEW q \in Seq(S), NEW s \in S
    PROVE  /\ Append(q, s) \in Seq(S)
           /\ Len(Append(q, s)) = Len(q) + 1
           /\ ToSet(Append(q, s)) = ToSet(q) \cup {s}
           /\ IsInjective(q) /\ s \notin ToSet(q) => IsInjective(Append(q, s))
<1>1. /\ DOMAIN q = 1..Len(q) /\ Len(q) \in Nat
      /\ DOMAIN Append(q, s) = DOMAIN q \cup {Len(q) + 1}
  BY LenProperties
<1> QED
  BY <1>1 DEF ToSet, IsInjective

\* A poll, or a signal, takes the first of the queue.
LEMMA TailElements ==
    ASSUME NEW S, NEW q \in Seq(S), q # <<>>, IsInjective(q)
    PROVE  /\ Head(q) \in S
           /\ Head(q) \in ToSet(q)
           /\ Tail(q) \in Seq(S)
           /\ ToSet(Tail(q)) = ToSet(q) \ {Head(q)}
           /\ IsInjective(Tail(q))
<1>1. /\ Len(q) \in Nat \ {0} /\ DOMAIN q = 1..Len(q) /\ Head(q) = q[1]
      /\ Head(q) \in S /\ Tail(q) \in Seq(S)
      /\ DOMAIN Tail(q) = 1..(Len(q) - 1)
      /\ \A i \in 1..(Len(q) - 1) : Tail(q)[i] = q[i + 1]
  BY HeadTailProperties, LenProperties, EmptySeq
<1>2. \A j \in 2..Len(q) : j - 1 \in DOMAIN Tail(q) /\ Tail(q)[j - 1] = q[j]
  BY <1>1
<1>3. ToSet(Tail(q)) = {q[j] : j \in 2..Len(q)}
  <2>1. ToSet(Tail(q)) \subseteq {q[j] : j \in 2..Len(q)}
    BY <1>1 DEF ToSet
  <2> QED
    BY <1>2, <2>1 DEF ToSet
<1> QED
  BY <1>1, <1>3 DEF ToSet, IsInjective

\* An interrupted thread leaves the queue from anywhere.
LEMMA RemoveElements ==
    ASSUME NEW S, NEW q \in Seq(S), IsInjective(q), NEW i \in DOMAIN q
    PROVE  /\ RemoveAt(q, i) \in Seq(S)
           /\ ToSet(RemoveAt(q, i)) = ToSet(q) \ {q[i]}
           /\ IsInjective(RemoveAt(q, i))
<1> DEFINE r == RemoveAt(q, i)
<1>0. /\ Len(q) \in Nat /\ DOMAIN q = 1..Len(q) /\ i \in 1..Len(q)
      /\ \A j \in 1..Len(q) : q[j] \in S
  BY LenProperties, ElementOfSeq
<1>1. /\ SubSeq(q, 1, i - 1) \in Seq(S)
      /\ Len(SubSeq(q, 1, i - 1)) = i - 1
      /\ \A j \in 1..(i - 1) : SubSeq(q, 1, i - 1)[j] = q[j]
  <2>1. \A j \in 1..(i - 1) : q[j] \in S
    BY <1>0
  <2>q. QED BY <1>0, <2>1, SubSeqProperties
<1>2. /\ SubSeq(q, i + 1, Len(q)) \in Seq(S)
      /\ Len(SubSeq(q, i + 1, Len(q))) = Len(q) - i
      /\ \A j \in 1..(Len(q) - i) : SubSeq(q, i + 1, Len(q))[j] = q[i + j]
  <2>1. \A j \in (i + 1)..Len(q) : q[j] \in S
    BY <1>0
  <2>q. QED BY <1>0, <2>1, SubSeqProperties
<1>3. /\ r \in Seq(S)
      /\ Len(r) = Len(q) - 1
      /\ \A j \in 1..(Len(q) - 1) : r[j] = IF j < i THEN q[j] ELSE q[j + 1]
  <2> DEFINE a == SubSeq(q, 1, i - 1)
             b == SubSeq(q, i + 1, Len(q))
  <2>1. r = a \o b
    BY DEF RemoveAt
  <2>2. /\ a \in Seq(S) /\ Len(a) = i - 1
        /\ b \in Seq(S) /\ Len(b) = Len(q) - i
        /\ \A j \in 1..(i - 1) : a[j] = q[j]
        /\ \A j \in 1..(Len(q) - i) : b[j] = q[i + j]
    BY <1>1, <1>2
  <2> HIDE DEF a, b, r
  <2>3. /\ a \o b \in Seq(S)
        /\ Len(a \o b) = Len(a) + Len(b)
        /\ \A j \in 1..(Len(a) + Len(b)) :
              (a \o b)[j] = IF j <= Len(a) THEN a[j] ELSE b[j - Len(a)]
    BY <2>2, ConcatProperties
  <2>4. ASSUME NEW j \in 1..(Len(q) - 1)
        PROVE  r[j] = IF j < i THEN q[j] ELSE q[j + 1]
    <3>1. CASE j < i
      BY <1>0, <2>1, <2>2, <2>3, <3>1
    <3>2. CASE ~(j < i)
      <4>1. j - (i - 1) \in 1..(Len(q) - i) /\ i + (j - (i - 1)) = j + 1
        BY <1>0, <3>2
      <4>2. b[j - (i - 1)] = q[j + 1]
        BY <2>2, <4>1
      <4>3. j \in 1..(Len(a) + Len(b)) /\ ~(j <= Len(a))
        BY <1>0, <2>2, <3>2
      <4>4. (a \o b)[j] = b[j - Len(a)]
        BY <2>3, <4>3
      <4>q. QED BY <2>1, <2>2, <3>2, <4>2, <4>4
    <3>q. QED BY <3>1, <3>2
  <2>q. QED BY <1>0, <2>1, <2>2, <2>3, <2>4
<1>4. DOMAIN r = 1..(Len(q) - 1)
  BY <1>3, LenProperties
<1>5. ToSet(r) \subseteq ToSet(q) \ {q[i]}
  BY <1>0, <1>3, <1>4, SMTT(30) DEF ToSet, IsInjective
<1>6. ASSUME NEW x \in ToSet(q), x # q[i]
      PROVE  x \in ToSet(r)
  <2>1. PICK j \in 1..Len(q) : x = q[j]
    BY <1>0 DEF ToSet
  <2>2. CASE j < i
    BY <1>0, <1>3, <1>4, <2>1, <2>2 DEF ToSet
  <2>3. CASE j > i
    <3>1. j - 1 \in 1..(Len(q) - 1) /\ r[j - 1] = q[j]
      BY <1>0, <1>3, <2>3
    <3>q. QED BY <1>4, <2>1, <3>1 DEF ToSet
  <2>q. QED BY <1>0, <1>6, <2>1, <2>2, <2>3
<1>7. IsInjective(r)
  BY <1>0, <1>3, <1>4, SMTT(30) DEF IsInjective
<1> HIDE DEF r
<1>q. QED BY <1>3, <1>5, <1>6, <1>7 DEF r

-----------------------------------------------------------------------------
(* Inv is preserved: one lemma per conjunct, one step per action *)

\* The types are preserved; a return never takes the count below zero.
LEMMA TypeStep == Inv /\ [Next]_vars => TypeOK'
<1> SUFFICES ASSUME Inv, [Next]_vars PROVE TypeOK'
  OBVIOUS
<1> USE DEF Inv, TypeOK, UserPCs
<1>1. ASSUME NEW s \in Searchers, CreateSearcher(s) PROVE TypeOK'
  BY <1>1, AppendElements DEF CreateSearcher
<1>2. ASSUME CreateDone PROVE TypeOK'
  BY <1>2 DEF CreateDone
<1>3. ASSUME CreateFails PROVE TypeOK'
  BY <1>3 DEF CreateFails
<1>4. ASSUME NEW u \in Users, StartSearch(u) PROVE TypeOK'
  BY <1>4 DEF StartSearch
<1>5. ASSUME NEW u \in Users, BorrowTake(u) PROVE TypeOK'
  BY <1>5, TailElements DEF BorrowTake, OneHolder
<1>6. ASSUME NEW u \in Users, BorrowPark(u) PROVE TypeOK'
  BY <1>6, AppendElements DEF BorrowPark
<1>7. ASSUME NEW u \in Users, Interrupt(u) PROVE TypeOK'
  BY <1>7, RemoveElements DEF Interrupt, ParkedOnce
<1>8. ASSUME NEW u \in Users, ReturnSearcher(u) PROVE TypeOK'
  <2>1. u \in Using /\ held[u] \in Searchers
    BY <1>8 DEF ReturnSearcher, Using, OneHolder
  <2>2. loanCount - 1 \in Nat
    <3>1. Cardinality(Using) # 0
      BY <2>1, FiniteCounts, FS_EmptySet
    <3>q. QED BY <3>1, FiniteCounts DEF LoanCountExact
  <2>3. pool' \in Seq(Searchers)
    BY <1>8, <2>1, AppendElements DEF ReturnSearcher
  <2>4. parked # <<>> => Head(parked) \in Users /\ Tail(parked) \in Seq(Users)
    BY TailElements DEF ParkedOnce
  <2>q. QED BY <1>8, <2>1, <2>2, <2>3, <2>4 DEF ReturnSearcher
<1>9. ASSUME CloseBegin PROVE TypeOK'
  BY <1>9 DEF CloseBegin
<1>10. ASSUME CloseSearcher PROVE TypeOK'
  BY <1>10, TailElements DEF CloseSearcher, OneHolder
<1>11. ASSUME CloseEnd PROVE TypeOK'
  BY <1>11 DEF CloseEnd
<1>12. ASSUME UNCHANGED vars PROVE TypeOK'
  BY <1>12 DEF vars
<1>q. QED
  BY <1>1, <1>2, <1>3, <1>4, <1>5, <1>6, <1>7, <1>8, <1>9, <1>10, <1>11,
     <1>12 DEF Next, UserStep, CloseStep

\* The condition's queue follows the program counters.
LEMMA ParkedStep == Inv /\ [Next]_vars => ParkedOnce'
<1> SUFFICES ASSUME Inv, [Next]_vars PROVE ParkedOnce'
  OBVIOUS
<1> USE DEF Inv, TypeOK, ParkedOnce
<1>1. ASSUME NEW s \in Searchers, CreateSearcher(s) PROVE ParkedOnce'
  BY <1>1 DEF CreateSearcher
<1>2. ASSUME CreateDone PROVE ParkedOnce'
  BY <1>2 DEF CreateDone
<1>3. ASSUME CreateFails PROVE ParkedOnce'
  BY <1>3 DEF CreateFails
<1>4. ASSUME NEW u \in Users, StartSearch(u) PROVE ParkedOnce'
  BY <1>4 DEF StartSearch
<1>5. ASSUME NEW u \in Users, BorrowTake(u) PROVE ParkedOnce'
  BY <1>5 DEF BorrowTake
<1>6. ASSUME NEW u \in Users, BorrowPark(u) PROVE ParkedOnce'
  <2>1. u \notin ToSet(parked)
    BY <1>6 DEF BorrowPark
  <2>2. ToSet(parked') = ToSet(parked) \cup {u} /\ IsInjective(parked')
    BY <1>6, <2>1, AppendElements DEF BorrowPark
  <2>q. QED BY <1>6, <2>2 DEF BorrowPark
<1>7. ASSUME NEW u \in Users, Interrupt(u) PROVE ParkedOnce'
  <2>1. ToSet(parked') = ToSet(parked) \ {u} /\ IsInjective(parked')
    BY <1>7, RemoveElements DEF Interrupt
  <2>q. QED BY <1>7, <2>1 DEF Interrupt
<1>8. ASSUME NEW u \in Users, ReturnSearcher(u) PROVE ParkedOnce'
  <2>1. CASE parked = <<>>
    BY <1>8, <2>1 DEF ReturnSearcher
  <2>2. CASE parked # <<>>
    <3>1. /\ Head(parked) \in Users
          /\ ToSet(Tail(parked)) = ToSet(parked) \ {Head(parked)}
          /\ IsInjective(Tail(parked))
      BY <2>2, TailElements
    <3>q. QED BY <1>8, <2>2, <3>1 DEF ReturnSearcher
  <2>q. QED BY <2>1, <2>2
<1>9. ASSUME CloseBegin PROVE ParkedOnce'
  BY <1>9 DEF CloseBegin
<1>10. ASSUME CloseSearcher PROVE ParkedOnce'
  BY <1>10 DEF CloseSearcher
<1>11. ASSUME CloseEnd PROVE ParkedOnce'
  BY <1>11 DEF CloseEnd
<1>12. ASSUME UNCHANGED vars PROVE ParkedOnce'
  BY <1>12 DEF vars
<1>q. QED
  BY <1>1, <1>2, <1>3, <1>4, <1>5, <1>6, <1>7, <1>8, <1>9, <1>10, <1>11,
     <1>12 DEF Next, UserStep, CloseStep

\* loanCount moves with the users that have a searcher.
LEMMA CountStep == Inv /\ [Next]_vars => LoanCountExact'
<1> SUFFICES ASSUME Inv, [Next]_vars PROVE LoanCountExact'
  OBVIOUS
<1>0. loanCount = Cardinality(Using) /\ IsFiniteSet(Using)
  BY FiniteCounts DEF Inv, LoanCountExact
<1>1. ASSUME NEW u \in Users, BorrowTake(u) PROVE LoanCountExact'
  <2>1. Using' = Using \cup {u} /\ u \notin Using
    BY <1>1 DEF BorrowTake, Using, Inv, TypeOK
  <2>q. QED
    BY <1>0, <1>1, <2>1, FS_AddElement DEF BorrowTake, LoanCountExact
<1>2. ASSUME NEW u \in Users, ReturnSearcher(u) PROVE LoanCountExact'
  <2>1. Using' = Using \ {u} /\ u \in Using
    <3>1. parked # <<>> => pc[Head(parked)] = "parked"
      BY TailElements DEF Inv, TypeOK, ParkedOnce
    <3>q. QED BY <1>2, <3>1 DEF ReturnSearcher, Using, Inv, TypeOK
  <2>q. QED
    BY <1>0, <1>2, <2>1, FS_RemoveElement DEF ReturnSearcher, LoanCountExact
<1>3. ASSUME UNCHANGED loanCount, Using' = Using PROVE LoanCountExact'
  BY <1>0, <1>3 DEF LoanCountExact
<1>4. ASSUME NEW s \in Searchers, CreateSearcher(s) PROVE LoanCountExact'
  BY <1>3, <1>4 DEF CreateSearcher, Using
<1>5. ASSUME CreateDone \/ CreateFails PROVE LoanCountExact'
  BY <1>3, <1>5 DEF CreateDone, CreateFails, Using
<1>6. ASSUME NEW u \in Users, StartSearch(u) \/ BorrowPark(u) \/ Interrupt(u)
      PROVE  LoanCountExact'
  BY <1>3, <1>6
     DEF StartSearch, BorrowPark, Interrupt, Using, Inv, TypeOK
<1>7. ASSUME CloseBegin \/ CloseStep PROVE LoanCountExact'
  BY <1>3, <1>7 DEF CloseBegin, CloseStep, CloseSearcher, CloseEnd, Using
<1>8. ASSUME UNCHANGED vars PROVE LoanCountExact'
  BY <1>3, <1>8 DEF vars, Using
<1>q. QED
  BY <1>1, <1>2, <1>4, <1>5, <1>6, <1>7, <1>8 DEF Next, UserStep

\* A searcher changes hands, never copies.
LEMMA HolderStep == Inv /\ [Next]_vars => OneHolder'
<1> SUFFICES ASSUME Inv, [Next]_vars PROVE OneHolder'
  OBVIOUS
<1> USE DEF Inv, TypeOK, OneHolder, InPool, Using, Open
<1>1. ASSUME NEW s \in Searchers, CreateSearcher(s) PROVE OneHolder'
  <2>1. s \notin ToSet(pool)
    BY <1>1 DEF CreateSearcher
  <2>2. ToSet(pool') = ToSet(pool) \cup {s} /\ IsInjective(pool')
    BY <1>1, <2>1, AppendElements DEF CreateSearcher
  <2>3. \A u \in Users : pc[u] # "using"
    BY <1>1 DEF CreateSearcher, Control
  <2>q. QED BY <1>1, <2>2, <2>3 DEF CreateSearcher
<1>2. ASSUME CreateDone \/ CreateFails PROVE OneHolder'
  BY <1>2 DEF CreateDone, CreateFails
<1>3. ASSUME NEW u \in Users, StartSearch(u) PROVE OneHolder'
  BY <1>3 DEF StartSearch
<1>4. ASSUME NEW u \in Users, BorrowTake(u) PROVE OneHolder'
  <2>1. /\ Head(pool) \in Searchers \cap ToSet(pool)
        /\ ToSet(pool') = ToSet(pool) \ {Head(pool)}
        /\ IsInjective(pool')
    BY <1>4, TailElements DEF BorrowTake
  <2>q. QED BY <1>4, <2>1 DEF BorrowTake
<1>5. ASSUME NEW u \in Users, BorrowPark(u) \/ Interrupt(u) PROVE OneHolder'
  BY <1>5, SMTT(30) DEF BorrowPark, Interrupt
<1>6. ASSUME NEW u \in Users, ReturnSearcher(u) PROVE OneHolder'
  <2>1. held[u] \in Searchers \ ToSet(pool)
    BY <1>6 DEF ReturnSearcher
  <2>2. ToSet(pool') = ToSet(pool) \cup {held[u]} /\ IsInjective(pool')
    BY <1>6, <2>1, AppendElements DEF ReturnSearcher
  <2>3. parked # <<>> => pc[Head(parked)] = "parked"
    BY TailElements DEF ParkedOnce
  <2>4. Using' = Using \ {u}
    BY <1>6, <2>3 DEF ReturnSearcher
  <2>q. QED BY <1>6, <2>1, <2>2, <2>4, SMTT(30) DEF ReturnSearcher
<1>7. ASSUME CloseBegin \/ CloseEnd PROVE OneHolder'
  BY <1>7 DEF CloseBegin, CloseEnd
<1>8. ASSUME CloseSearcher PROVE OneHolder'
  <2>1. /\ Head(pool) \in Searchers \cap ToSet(pool)
        /\ ToSet(pool') = ToSet(pool) \ {Head(pool)}
        /\ IsInjective(pool')
    BY <1>8, TailElements DEF CloseSearcher
  <2>2. Using = {}
    BY <1>8 DEF CloseSearcher, Control
  <2>q. QED BY <1>8, <2>1, <2>2 DEF CloseSearcher
<1>9. ASSUME UNCHANGED vars PROVE OneHolder'
  BY <1>9 DEF vars
<1>q. QED
  BY <1>1, <1>2, <1>3, <1>4, <1>5, <1>6, <1>7, <1>8, <1>9
     DEF Next, UserStep, CloseStep

\* A return adds one searcher and wakes one user; a user that takes one of
\* them away is at worst a signalled one; only an empty queue parks a user.
LEMMA WakeupStep == Inv /\ [Next]_vars => NoLostWakeup'
<1> SUFFICES ASSUME Inv, [Next]_vars PROVE NoLostWakeup'
  OBVIOUS
<1>0. /\ IsFiniteSet(Woken) /\ Cardinality(Woken) \in Nat
      /\ Len(pool) \in Nat
      /\ parked # <<>> => Len(pool) <= Cardinality(Woken)
  BY FiniteCounts, LenProperties DEF Inv, TypeOK, NoLostWakeup
<1>1. ASSUME NEW s \in Searchers, CreateSearcher(s) PROVE NoLostWakeup'
  <2>1. ToSet(parked) = {}
    BY <1>1 DEF CreateSearcher, Inv, Control, ParkedOnce
  <2>2. parked = <<>>
    BY <2>1, TailElements DEF Inv, TypeOK, ParkedOnce
  <2>q. QED BY <1>1, <2>2 DEF CreateSearcher, NoLostWakeup
<1>2. ASSUME Woken' = Woken, Len(pool') <= Len(pool), Len(pool') \in Nat,
             parked' # <<>> => parked # <<>>
      PROVE  NoLostWakeup'
  BY <1>0, <1>2 DEF NoLostWakeup
<1>3. ASSUME CreateDone \/ CreateFails PROVE NoLostWakeup'
  BY <1>0, <1>2, <1>3 DEF CreateDone, CreateFails, Woken
<1>4. ASSUME NEW u \in Users, StartSearch(u) PROVE NoLostWakeup'
  BY <1>0, <1>2, <1>4 DEF StartSearch, Woken, Inv, TypeOK
<1>5. ASSUME NEW u \in Users, BorrowTake(u) PROVE NoLostWakeup'
  <2>1. Len(pool') = Len(pool) - 1
    BY <1>5, HeadTailProperties DEF BorrowTake, Inv, TypeOK
  <2>2. Woken' = Woken \ {u}
    BY <1>5 DEF BorrowTake, Woken, Inv, TypeOK
  <2>3. Cardinality(Woken') \in Nat /\ Cardinality(Woken') >= Cardinality(Woken) - 1
    <3>1. CASE u \in Woken
      <4>1. Cardinality(Woken \ {u}) = Cardinality(Woken) - 1
        BY <1>0, <3>1, FS_RemoveElement
      <4>2. Cardinality(Woken \ {u}) \in Nat
        BY <1>0, FS_Subset, FS_CardinalityType
      <4>q. QED BY <1>0, <2>2, <4>1, <4>2
    <3>2. CASE u \notin Woken
      <4>1. Cardinality(Woken') = Cardinality(Woken)
        <5>1. Woken' = Woken
          BY <2>2, <3>2
        <5>q. QED BY <5>1
      <4>q. QED BY <1>0, <4>1
    <3>q. QED BY <3>1, <3>2
  <2>q. QED BY <1>0, <1>5, <2>1, <2>3 DEF BorrowTake, NoLostWakeup
<1>6. ASSUME NEW u \in Users, BorrowPark(u) PROVE NoLostWakeup'
  <2>1. IsFiniteSet(Woken') /\ Cardinality(Woken') \in Nat
    <3>1. Woken' \subseteq Users
      BY DEF Woken
    <3>q. QED BY <3>1, UsersAssumption, FS_Subset, FS_CardinalityType
  <2>2. Len(pool') = 0
    BY <1>6, EmptySeq DEF BorrowPark
  <2>q. QED BY <2>1, <2>2 DEF NoLostWakeup
<1>7. ASSUME NEW u \in Users, Interrupt(u) PROVE NoLostWakeup'
  <2>1. parked # <<>>
    <3>1. ToSet(parked) # {}
      BY <1>7 DEF Interrupt, Inv, ParkedOnce
    <3>q. QED BY <3>1 DEF ToSet
  <2>q. QED BY <1>0, <1>2, <1>7, <2>1 DEF Interrupt, Woken, Inv, TypeOK
<1>8. ASSUME NEW u \in Users, ReturnSearcher(u) PROVE NoLostWakeup'
  <2>1. CASE parked = <<>>
    BY <1>8, <2>1 DEF ReturnSearcher, NoLostWakeup
  <2>2. CASE parked # <<>>
    <3>1. Head(parked) \in Users /\ pc[Head(parked)] = "parked"
      BY <2>2, TailElements DEF Inv, TypeOK, ParkedOnce
    <3>2. Woken' = Woken \cup {Head(parked)} /\ Head(parked) \notin Woken
      BY <1>8, <2>2, <3>1 DEF ReturnSearcher, Woken, Inv, TypeOK
    <3>3. Cardinality(Woken') = Cardinality(Woken) + 1
      BY <1>0, <3>2, FS_AddElement
    <3>4. held[u] \in Searchers
      BY <1>8 DEF ReturnSearcher, Inv, OneHolder, Using
    <3>5. Len(pool') = Len(pool) + 1
      BY <1>8, <3>4, AppendElements DEF ReturnSearcher, Inv, TypeOK
    <3>q. QED BY <1>0, <2>2, <3>3, <3>5 DEF NoLostWakeup
  <2>q. QED BY <2>1, <2>2
<1>9. ASSUME CloseBegin \/ CloseEnd PROVE NoLostWakeup'
  BY <1>0, <1>2, <1>9 DEF CloseBegin, CloseEnd, Woken
<1>10. ASSUME CloseSearcher PROVE NoLostWakeup'
  <2>1. Len(pool') = Len(pool) - 1 /\ Len(pool) # 0
    BY <1>10, HeadTailProperties, EmptySeq DEF CloseSearcher, Inv, TypeOK
  <2>2. Woken' = Woken /\ parked' = parked
    BY <1>10 DEF CloseSearcher, Woken
  <2>q. QED BY <1>0, <2>1, <2>2 DEF NoLostWakeup
<1>11. ASSUME UNCHANGED vars PROVE NoLostWakeup'
  BY <1>0, <1>2, <1>11 DEF vars, Woken
<1>q. QED
  BY <1>1, <1>3, <1>4, <1>5, <1>6, <1>7, <1>8, <1>9, <1>10, <1>11
     DEF Next, UserStep, CloseStep

\* While close drains the lock is taken, and afterwards the queue is empty:
\* no user gets a searcher any more.
LEMMA ControlStep == Inv /\ [Next]_vars => Control'
<1> SUFFICES ASSUME Inv, [Next]_vars PROVE Control'
  OBVIOUS
<1> USE DEF Inv, TypeOK, Control, Using, LockFree
<1>1. ASSUME NEW s \in Searchers, CreateSearcher(s) PROVE Control'
  BY <1>1 DEF CreateSearcher
<1>2. ASSUME CreateDone \/ CreateFails PROVE Control'
  BY <1>2 DEF CreateDone, CreateFails
<1>3. ASSUME NEW u \in Users, StartSearch(u) PROVE Control'
  BY <1>3 DEF StartSearch
<1>4. ASSUME NEW u \in Users, BorrowTake(u) PROVE Control'
  BY <1>4 DEF BorrowTake
<1>5. ASSUME NEW u \in Users, BorrowPark(u) PROVE Control'
  BY <1>5 DEF BorrowPark
<1>6. ASSUME NEW u \in Users, Interrupt(u) PROVE Control'
  BY <1>6 DEF Interrupt
<1>7. ASSUME NEW u \in Users, ReturnSearcher(u) PROVE Control'
  BY <1>7 DEF ReturnSearcher
<1>8. ASSUME CloseBegin PROVE Control'
  <2>1. loanCount = 0 => Using = {}
    BY FiniteCounts, FS_EmptySet DEF LoanCountExact
  <2>q. QED BY <1>8, <2>1 DEF CloseBegin
<1>9. ASSUME CloseSearcher PROVE Control'
  BY <1>9 DEF CloseSearcher
<1>10. ASSUME CloseEnd PROVE Control'
  BY <1>10 DEF CloseEnd
<1>11. ASSUME UNCHANGED vars PROVE Control'
  BY <1>11 DEF vars
<1>q. QED
  BY <1>1, <1>2, <1>3, <1>4, <1>5, <1>6, <1>7, <1>8, <1>9, <1>10, <1>11
     DEF Next, UserStep, CloseStep

-----------------------------------------------------------------------------
(* The invariant holds, and with it what the runs check *)

\* Inv holds before the pool is built.
LEMMA InitInv == Init => Inv
<1> SUFFICES ASSUME Init PROVE Inv
  OBVIOUS
<1>1. TypeOK
  BY DEF Init, TypeOK, UserPCs
<1>2. Using = {} /\ InPool = {} /\ Open = {}
  BY DEF Init, Using, InPool, ToSet, Open
<1>3. OneHolder
  BY <1>2 DEF Init, OneHolder, IsInjective
<1>4. ParkedOnce /\ Control /\ NoLostWakeup
  BY <1>2 DEF Init, ParkedOnce, IsInjective, ToSet, Control, NoLostWakeup
<1>5. LoanCountExact
  BY <1>2, FS_EmptySet DEF Init, LoanCountExact
<1>q. QED BY <1>1, <1>3, <1>4, <1>5 DEF Inv

\* Every state of the Java pool satisfies Inv.
THEOREM Invariance == Spec => []Inv
<1>1. Inv /\ [Next]_vars => Inv'
  BY TypeStep, ParkedStep, CountStep, HolderStep, WakeupStep, ControlStep
     DEF Inv
<1>q. QED BY InitInv, <1>1, PTL DEF Spec

\* The pool is well typed: in particular the count never goes below zero.
THEOREM JavaPoolTypeOK == Spec => []TypeOK
<1>1. Inv => TypeOK
  BY DEF Inv
<1>q. QED BY <1>1, Invariance, PTL

\* A searcher has one holder, and is open exactly while it has one.
THEOREM JavaPoolOneHolder == Spec => []OneHolder
<1>1. Inv => OneHolder
  BY DEF Inv
<1>q. QED BY <1>1, Invariance, PTL

\* No wakeup is lost, with any number of threads that barge, are signalled
\* and are interrupted.
THEOREM JavaPoolNoLostWakeup == Spec => []NoLostWakeup
<1>1. Inv => NoLostWakeup
  BY DEF Inv
<1>q. QED BY <1>1, Invariance, PTL

\* A close that completed leaves nothing open and nothing lent, for good.
THEOREM JavaPoolClosedForGood == Spec => []ClosedForGood
<1>1. Inv => ClosedForGood
  BY DEF Inv, Control, OneHolder, ClosedForGood, InPool, ToSet
<1>q. QED BY <1>1, Invariance, PTL

-----------------------------------------------------------------------------
(* The pool implements SearcherLeases *)

LeaseMap == [s \in Searchers |-> LeaseOf(s)]

\* The lease of a searcher, read off its handle and its user.
LeaseCase(s) ==
    /\ handle[s] = "none" => LeaseOf(s) = Leases!Absent
    /\ handle[s] = "closed" => LeaseOf(s) = Leases!Retired
    /\ \A u \in Using : held[u] = s => LeaseOf(s) = Leases!LentTo(u)
    /\ handle[s] = "open" /\ (\A u \in Using : held[u] # s)
          => LeaseOf(s) = Leases!Idle

\* Each searcher's lease is one of the four, whatever CHOOSE picks.
LEMMA LeaseCases == Inv => \A s \in Searchers : LeaseCase(s)
<1> SUFFICES ASSUME Inv, NEW s \in Searchers PROVE LeaseCase(s)
  OBVIOUS
<1>1. ASSUME NEW u \in Using, held[u] = s
      PROVE  LeaseOf(s) = Leases!LentTo(u)
  <2>1. handle[s] = "open"
    BY <1>1 DEF Inv, OneHolder, Open
  <2>2. \A v \in Using : held[v] = s => v = u
    BY <1>1 DEF Inv, OneHolder
  <2>3. (CHOOSE v \in Using : held[v] = s) = u
    BY <1>1, <2>2
  <2>q. QED BY <1>1, <2>1, <2>3 DEF LeaseOf, Leases!LentTo
<1>2. handle[s] # "open" => ~\E u \in Using : held[u] = s
  BY DEF Inv, OneHolder, Open
<1>3. ASSUME handle[s] = "none" PROVE LeaseOf(s) = Leases!Absent
  BY <1>2, <1>3 DEF LeaseOf, Leases!Absent
<1>4. ASSUME handle[s] = "closed" PROVE LeaseOf(s) = Leases!Retired
  BY <1>2, <1>4 DEF LeaseOf, Leases!Retired
<1>5. ASSUME handle[s] = "open", ~\E u \in Using : held[u] = s
      PROVE  LeaseOf(s) = Leases!Idle
  <2>1. handle[s] # "none" /\ handle[s] # "closed"
    BY <1>5
  <2>q. QED BY <1>5, <2>1, Zenon DEF LeaseOf, Leases!Idle
<1>q. QED BY <1>1, <1>3, <1>4, <1>5 DEF LeaseCase

\* The same after a step.
LEMMA LeaseCasesNext == Inv' => (\A s \in Searchers : LeaseCase(s))'
BY LeaseCases, PTL

\* A searcher whose handle and user a step leaves alone keeps its lease.
LEMMA LeaseFrame ==
    ASSUME Inv, Inv', NEW s \in Searchers, handle'[s] = handle[s],
           \A u \in Users : (u \in Using /\ held[u] = s)
                              <=> (u \in Using' /\ held'[u] = s)
    PROVE  LeaseOf(s)' = LeaseOf(s)
<1>1. LeaseCase(s) /\ LeaseCase(s)'
  BY LeaseCases, LeaseCasesNext
<1>2. Using \subseteq Users /\ Using' \subseteq Users
  BY DEF Using
<1>3. handle[s] \in {"none", "open", "closed"}
  BY DEF Inv, TypeOK
<1>4. CASE \E u \in Using : held[u] = s
  BY <1>1, <1>2, <1>4 DEF LeaseCase, Leases!LentTo
<1>5. CASE ~\E u \in Using : held[u] = s
  BY <1>1, <1>2, <1>3, <1>5
     DEF LeaseCase, Leases!Absent, Leases!Retired, Leases!Idle
<1>q. QED BY <1>4, <1>5

\* Every step of the pool is a step of SearcherLeases or leaves the leases
\* and the shut flag alone.  A borrower that parks, is woken or interrupted
\* changes no lease; close retires the idle searchers one by one and shuts.
LEMMA LeaseStep ==
    ASSUME Inv, Inv', [Next]_vars
    PROVE  [Leases!Next]_(Leases!leaseVars)
<1> DEFINE Goal == [Leases!Next]_(Leases!leaseVars)
           SameHolder(s) == \A v \in Users :
               (v \in Using /\ held[v] = s)
                  <=> (v \in Using' /\ held'[v] = s)
<1>case. \A s \in Searchers : LeaseCase(s) /\ LeaseCase(s)'
  BY LeaseCases, LeaseCasesNext
<1>tags. /\ Leases!Absent # Leases!Idle /\ Leases!Absent # Leases!Retired
         /\ Leases!Idle # Leases!Retired
         /\ \A u \in Users :
               /\ Leases!LentTo(u) \notin
                     {Leases!Absent, Leases!Idle, Leases!Retired}
               /\ \A v \in Users :
                     Leases!LentTo(u) = Leases!LentTo(v) => u = v
  BY DEF Leases!Absent, Leases!Idle, Leases!Retired, Leases!LentTo
<1>users. Using \subseteq Users /\ Using' \subseteq Users
  BY DEF Using
<1>types. /\ pc \in [Users -> UserPCs]
          /\ held \in [Users -> Searchers \cup {Nobody}]
          /\ handle \in [Searchers -> {"none", "open", "closed"}]
  BY DEF Inv, TypeOK
<1>parked. parked # <<>> =>
              Head(parked) \in Users /\ pc[Head(parked)] = "parked"
  BY TailElements DEF Inv, TypeOK, ParkedOnce
<1>frame. ASSUME NEW s \in Searchers, handle'[s] = handle[s], SameHolder(s)
          PROVE  LeaseOf(s)' = LeaseOf(s)
  BY <1>frame, LeaseFrame
\* one lease changes, the shut flag does not
<1>one. ASSUME NEW s \in Searchers, NEW new, LeaseOf(s)' = new,
               cpc' = "closed" <=> cpc = "closed",
               \A t \in Searchers \ {s} :
                  handle'[t] = handle[t] /\ SameHolder(t)
        PROVE  /\ LeaseMap' = [LeaseMap EXCEPT ![s] = new]
               /\ UNCHANGED (cpc = "closed")
  <2>1. \A t \in Searchers \ {s} : LeaseOf(t)' = LeaseOf(t)
    BY <1>one, <1>frame
  <2>q. QED BY <1>one, <2>1 DEF LeaseMap
<1>stutter. ASSUME handle' = handle, cpc' = "closed" <=> cpc = "closed",
                   \A s \in Searchers : SameHolder(s)
            PROVE  Goal
  <2>1. \A s \in Searchers : LeaseOf(s)' = LeaseOf(s)
    BY <1>stutter, <1>frame
  <2>2. UNCHANGED Leases!leaseVars
    BY <1>stutter, <2>1 DEF Leases!leaseVars
  <2>q. QED BY <2>2
<1>hide. HIDE DEF Goal
\* the steps that end a close
<1>shut. ASSUME UNCHANGED <<handle, pc, held>>, pool = <<>>, Using = {},
                cpc # "closed", cpc' = "closed"
         PROVE  Goal
  <2>1. \A s \in Searchers : handle[s] # "open"
    BY <1>shut, EmptySeq DEF Inv, OneHolder, Open, InPool, ToSet
  <2>2. \A s \in Searchers : LeaseOf(s) # Leases!Idle
    BY <1>case, <1>tags, <1>types, <2>1 DEF LeaseCase
  <2>3. \A s \in Searchers : SameHolder(s)
    BY <1>shut DEF Using
  <2>4. LeaseMap' = LeaseMap
    BY <1>shut, <1>frame, <2>3 DEF LeaseMap
  <2>5. Leases!Shut
    BY <1>shut, <2>2, <2>4 DEF Leases!Shut, LeaseMap
  <2>q. QED BY <2>5 DEF Goal, Leases!Next
<1>1. ASSUME NEW s \in Searchers, CreateSearcher(s) PROVE Goal
  <2>1. /\ cpc = "none" /\ cpc' = cpc /\ Using = {} /\ Using' = {}
        /\ handle[s] = "none" /\ handle'[s] = "open"
        /\ \A t \in Searchers \ {s} : handle'[t] = handle[t] /\ SameHolder(t)
    BY <1>1, <1>types DEF CreateSearcher, Inv, Control, Using
  <2>2. LeaseOf(s) = Leases!Absent /\ LeaseOf(s)' = Leases!Idle
    BY <1>case, <2>1 DEF LeaseCase
  <2>3. /\ LeaseMap' = [LeaseMap EXCEPT ![s] = Leases!Idle]
        /\ UNCHANGED (cpc = "closed")
    BY <1>one, <2>1, <2>2
  <2>4. Leases!Admit(s)
    BY <2>1, <2>2, <2>3 DEF Leases!Admit, LeaseMap
  <2>q. QED BY <2>4 DEF Goal, Leases!Next
<1>2. ASSUME CreateDone \/ CreateFails PROVE Goal
  <2>1. /\ handle' = handle
        /\ cpc' = "closed" <=> cpc = "closed"
        /\ \A s \in Searchers : SameHolder(s)
    BY <1>2 DEF CreateDone, CreateFails, Using
  <2>q. QED BY <2>1, <1>stutter
<1>3. ASSUME NEW u \in Users, StartSearch(u) PROVE Goal
  <2>1. /\ handle' = handle
        /\ cpc' = "closed" <=> cpc = "closed"
        /\ \A s \in Searchers : SameHolder(s)
    BY <1>3, <1>types DEF StartSearch, Using
  <2>q. QED BY <2>1, <1>stutter
<1>4. ASSUME NEW u \in Users, BorrowPark(u) \/ Interrupt(u) PROVE Goal
  <2>1. /\ handle' = handle
        /\ cpc' = "closed" <=> cpc = "closed"
        /\ \A s \in Searchers : SameHolder(s)
    BY <1>4, <1>types DEF BorrowPark, Interrupt, Using
  <2>q. QED BY <2>1, <1>stutter
<1>5. ASSUME NEW u \in Users, BorrowTake(u) PROVE Goal
  <2>0. PICK s \in Searchers : s = Head(pool) /\ s \in InPool
    BY <1>5, TailElements DEF BorrowTake, Inv, TypeOK, OneHolder, InPool
  <2>1. /\ cpc # "closed" /\ cpc' = cpc /\ handle' = handle
        /\ u \notin Using /\ u \in Using' /\ held'[u] = s
    BY <1>5, <1>types, <2>0 DEF BorrowTake, Inv, Control, Using
  <2>2. handle[s] = "open" /\ \A v \in Using : held[v] # s
    BY <2>0 DEF Inv, OneHolder, Open
  <2>3. \A t \in Searchers \ {s} : handle'[t] = handle[t] /\ SameHolder(t)
    BY <1>5, <1>types, <2>0, <2>1 DEF BorrowTake, Using
  <2>4. LeaseOf(s) = Leases!Idle /\ LeaseOf(s)' = Leases!LentTo(u)
    BY <1>case, <2>1, <2>2 DEF LeaseCase
  <2>5. /\ LeaseMap' = [LeaseMap EXCEPT ![s] = Leases!LentTo(u)]
        /\ UNCHANGED (cpc = "closed")
    BY <1>one, <2>1, <2>3, <2>4
  <2>6. ASSUME NEW t \in Searchers PROVE LeaseOf(t) # Leases!LentTo(u)
    <3>1. CASE \E v \in Using : held[v] = t
      BY <1>case, <1>tags, <1>users, <2>1, <3>1 DEF LeaseCase
    <3>2. CASE ~\E v \in Using : held[v] = t
      BY <1>case, <1>tags, <1>types, <3>2 DEF LeaseCase
    <3>q. QED BY <3>1, <3>2
  <2>7. Leases!Lend(s, u)
    BY <2>1, <2>4, <2>5, <2>6 DEF Leases!Lend, LeaseMap
  <2>q. QED BY <2>7 DEF Goal, Leases!Next
<1>6. ASSUME NEW u \in Users, ReturnSearcher(u) PROVE Goal
  <2>0. PICK s \in Searchers : s = held[u]
    BY <1>6 DEF ReturnSearcher, Inv, OneHolder, Using
  <2>1. u \in Using /\ cpc' = cpc /\ cpc # "closed" /\ handle' = handle
    BY <1>6 DEF ReturnSearcher, Inv, Control, Using
  <2>2. Using' = Using \ {u} /\ \A v \in Using' : held'[v] = held[v]
    BY <1>6, <1>types, <1>parked DEF ReturnSearcher, Using
  <2>3. \A t \in Searchers \ {s} : handle'[t] = handle[t] /\ SameHolder(t)
    BY <2>0, <2>1, <2>2
  <2>4. handle'[s] = "open" /\ \A v \in Using' : held'[v] # s
    BY <2>0, <2>1, <2>2 DEF Inv, OneHolder, Open
  <2>5. LeaseOf(s) = Leases!LentTo(u) /\ LeaseOf(s)' = Leases!Idle
    BY <1>case, <2>0, <2>1, <2>4 DEF LeaseCase
  <2>6. /\ LeaseMap' = [LeaseMap EXCEPT ![s] = Leases!Idle]
        /\ UNCHANGED (cpc = "closed")
    BY <1>one, <2>1, <2>3, <2>5
  <2>7. Leases!GiveBack(s, u)
    BY <2>1, <2>5, <2>6 DEF Leases!GiveBack, LeaseMap
  <2>q. QED BY <2>7 DEF Goal, Leases!Next
<1>7. ASSUME CloseBegin PROVE Goal
  <2>1. UNCHANGED <<handle, pc, held>> /\ \A s \in Searchers : SameHolder(s)
    BY <1>7 DEF CloseBegin, Using
  <2>2. CASE cpc = "closed"
    <3>1. loanCount = 0 /\ pool = <<>>
      BY <2>2, FS_EmptySet DEF Inv, Control, LoanCountExact
    <3>2. cpc' = "closed"
      BY <1>7, <3>1 DEF CloseBegin
    <3>q. QED BY <1>stutter, <2>1, <2>2, <3>2
  <2>3. CASE cpc # "closed" /\ cpc' # "closed"
    BY <1>stutter, <2>1, <2>3
  <2>4. CASE cpc # "closed" /\ cpc' = "closed"
    <3>1. loanCount = 0 /\ pool = <<>>
      BY <1>7, <2>4 DEF CloseBegin, Inv, TypeOK
    <3>2. Using = {}
      BY <3>1, FiniteCounts, FS_EmptySet DEF Inv, LoanCountExact
    <3>q. QED BY <1>shut, <2>1, <2>4, <3>1, <3>2
  <2>q. QED BY <2>2, <2>3, <2>4
<1>8. ASSUME CloseSearcher PROVE Goal
  <2>0. PICK s \in Searchers : s = Head(pool) /\ s \in InPool
    BY <1>8, TailElements DEF CloseSearcher, Inv, TypeOK, OneHolder, InPool
  <2>1. /\ cpc = "draining" /\ cpc' = cpc
        /\ handle[s] = "open" /\ handle'[s] = "closed"
        /\ \A u \in Using : held[u] # s
    BY <1>8, <1>types, <2>0 DEF CloseSearcher, Inv, OneHolder, Open
  <2>2. \A t \in Searchers \ {s} : handle'[t] = handle[t] /\ SameHolder(t)
    BY <1>8, <1>types, <2>0 DEF CloseSearcher, Using
  <2>3. LeaseOf(s) = Leases!Idle /\ LeaseOf(s)' = Leases!Retired
    BY <1>case, <2>1 DEF LeaseCase
  <2>4. /\ LeaseMap' = [LeaseMap EXCEPT ![s] = Leases!Retired]
        /\ UNCHANGED (cpc = "closed")
    BY <1>one, <2>1, <2>2, <2>3
  <2>5. Leases!Retire(s)
    BY <1>tags, <2>3, <2>4 DEF Leases!Retire, LeaseMap
  <2>q. QED BY <2>5 DEF Goal, Leases!Next
<1>9. ASSUME CloseEnd PROVE Goal
  <2>1. /\ UNCHANGED <<handle, pc, held>> /\ pool = <<>> /\ Using = {}
        /\ cpc # "closed" /\ cpc' = "closed"
    BY <1>9 DEF CloseEnd, Inv, Control
  <2>q. QED BY <1>shut, <2>1
<1>10. ASSUME UNCHANGED vars PROVE Goal
  <2>1. /\ handle' = handle
        /\ cpc' = "closed" <=> cpc = "closed"
        /\ \A s \in Searchers : SameHolder(s)
    BY <1>10 DEF vars, Using
  <2>q. QED BY <2>1, <1>stutter
<1>all. Goal
  BY <1>1, <1>2, <1>3, <1>4, <1>5, <1>6, <1>7, <1>8, <1>9, <1>10
     DEF Next, UserStep, CloseStep
<1>q. QED BY <1>all DEF Goal

\* The Java pool keeps the promise of SearcherLeases, with any number of
\* searchers and threads: exclusive leases, and after a close that completed
\* no lease at all.
THEOREM JavaPoolImplementsLeases == Spec => ImplementsLeases
<1>1. Init => Leases!Init
  <2> SUFFICES ASSUME Init PROVE Leases!Init
    OBVIOUS
  <2>1. \A s \in Searchers : LeaseOf(s) = Leases!Absent
    BY InitInv, LeaseCases DEF LeaseCase, Init
  <2>q. QED BY <2>1 DEF Init, Leases!Init
<1>2. Inv /\ Inv' /\ [Next]_vars => [Leases!Next]_(Leases!leaseVars)
  BY LeaseStep
<1>q. QED
  BY <1>1, <1>2, Invariance, PTL DEF Spec, ImplementsLeases, Leases!Spec
=============================================================================
