--------------------------- MODULE ServiceProofs ---------------------------
(***************************************************************************)
(* Proofs about Service for any number of searchers and goroutines, any    *)
(* files, any requests and any duration.  Inv is the inductive invariant:  *)
(* what the phase of the construction, the place of each goroutine and the *)
(* place of the closer say of the two pools and of the files.              *)
(***************************************************************************)
EXTENDS Service, TLAPS

Answered == [kind : {"region"}, v : Versions,
             ptrs : Files \cup {NoFile}, data : Files \cup {NoFile}]

Holding == {"search", "push", "closeIt"}

\* pool v as NewSearcherPool leaves it: full, or not there
Complete(v) ==
    \A s \in Searchers : Lease(v)[s] = IF UsesPool(v) THEN Idle ELSE Absent
Untouched(v) == \A s \in Searchers : Lease(v)[s] = Absent

\* newConfig has returned for version v, and not with an error
Configured(v) ==
    phase \notin {<<"failed">>, <<"config", 4>>, <<"config", v>>}

\* CloseTimeout is through with pool v
Past(v) == closer = <<"closed">> \/ (v = 4 /\ closer = <<"closing", 6>>)

\* Nobody searches before the construction is done, or after it has failed.
Quiet ==
    /\ result \in [Users -> Answered \cup {Nil, WrongLength}]
    /\ phase # <<"ready">> =>
          /\ closer = <<"open">>
          /\ \A u \in Users : pc[u] = AtRest /\ result[u] = Nil

\* The pools while they are made, one after the other, and when that fails.
Construction ==
    /\ phase = <<"config", 4>> => Untouched(4) /\ Untouched(6)
    /\ phase = <<"config", 6>> => Untouched(4) /\ Untouched(6)
    /\ phase \in {<<"pool", 4>>, <<"undo", 4>>} => Untouched(6)
    /\ phase \in {<<"pool", 6>>, <<"undo", 6>>} => Complete(4)
    /\ \A v \in Versions :
          /\ phase = <<"pool", v>> =>
                /\ \A s \in Searchers : Lease(v)[s] \in {Absent, Idle}
                /\ ~UsesPool(v) => Untouched(v)
          /\ phase = <<"undo", v>> =>
                /\ UsesPool(v)
                /\ \A s \in Searchers : Lease(v)[s] \in {Absent, Idle, Retired}

\* The file of a configuration is one of its version; it is still the file
\* at the path, and the one each searcher opens, unless it has moved.
Cached ==
    \A v \in Versions :
        /\ Configured(v) /\ request[v] # Disabled =>
              /\ seen[v] # NoFile
              /\ VersionFromHeader(seen[v].header) = request[v].version
              /\ disk[v] = seen[v] \/ v \in moved \/ Constructed
        /\ \A s \in Searchers :
              Lease(v)[s] # Absent => opened[v][s] = seen[v] \/ v \in moved

\* Who searches in a pool holds one searcher of it, and nobody else does.
\* A goroutine about to push has found the pool open.
LoanOf(u, v) ==
    /\ \A p \in Places : At(u, p, v) =>
          IF p = "answered" THEN InMemory(v) ELSE UsesPool(v)
    /\ IF pc[u] \in Holding \X {v}
         THEN \E s \in Searchers : HeldBy(u, v) = {s}
         ELSE HeldBy(u, v) = {}
Loans == \A u \in Users, v \in Versions : LoanOf(u, v)

\* A pool whose close did not give up is shut, and stays as it was shut.
ClosedOf(v) ==
    /\ closer = <<"closing", v>> => UsesPool(v)
    /\ IsShut(v) => Past(v)
    /\ UsesPool(v) /\ Past(v) /\ v \notin gaveUp => IsShut(v)
    /\ IsShut(v) =>
          /\ \A s \in Searchers : Lease(v)[s] # Idle
          /\ \A u \in Users : ~At(u, "push", v)
Closed == \A v \in Versions : ClosedOf(v)

\* OneFilePerAnswer and AnswerOfItsVersion, of one goroutine's answer.
Sound(a) ==
    /\ a.data = seen[a.v] \/ (a.v \in moved /\ UsesPool(a.v))
    /\ a.ptrs = a.data \/ (a.v \in moved /\ request[a.v].policy = "VIndexCache")
    /\ \/ VersionFromHeader(a.data.header) = a.v
       \/ a.v \in moved /\ UsesPool(a.v)
AnswersSound ==
    \A u \in Users :
        result[u] # Nil /\ result[u].kind = "region" => Sound(result[u])

Inv ==
    /\ TypeOK /\ Quiet /\ Construction /\ FailedNewLeavesOnlyV4 /\ Cached
    /\ Loans /\ Closed /\ AnswersSound

-----------------------------------------------------------------------------
(* Facts about the tags of the state and about the steps of the pools *)

\* The tags of the construction, of the closer and of the leases differ.
LEMMA Tags ==
    /\ After(<<"config", 4>>) = <<"config", 6>>
    /\ After(<<"config", 6>>) = <<"pool", 4>>
    /\ After(<<"pool", 4>>) = <<"pool", 6>>
    /\ After(<<"pool", 6>>) = <<"ready">>
    /\ Absent # Idle /\ Absent # Retired /\ Idle # Retired
    /\ \A u \in Users :
          /\ Pool4!LentTo(u) \notin {Absent, Idle, Retired}
          /\ \A w \in Users : Pool4!LentTo(u) = Pool4!LentTo(w) => u = w
BY DEF After, Absent, Idle, Retired, Pool4!Absent, Pool4!Idle, Pool4!Retired,
       Pool4!LentTo

\* One lease of pool v changes, and nothing else of either pool.
Becomes(v, s, l) ==
    /\ \A w \in Versions, t \in Searchers :
          Lease(w)'[t] = IF w = v /\ t = s THEN l ELSE Lease(w)[t]
    /\ \A w \in Versions : IsShut(w)' = IsShut(w)

\* What the steps of the pools do to the leases.
LEMMA PoolSteps ==
    ASSUME TypeOK, NEW v \in Versions, NEW s \in Searchers
    PROVE  /\ Admit(v, s) =>
                 Lease(v)[s] = Absent /\ ~IsShut(v) /\ Becomes(v, s, Idle)
           /\ \A u \in Users :
                 /\ Lend(v, s, u) =>
                       /\ Lease(v)[s] = Idle /\ ~IsShut(v)
                       /\ \A t \in Searchers : Lease(v)[t] # Pool4!LentTo(u)
                       /\ Becomes(v, s, Pool4!LentTo(u))
                 /\ GiveBack(v, s, u) =>
                       /\ Lease(v)[s] = Pool4!LentTo(u) /\ ~IsShut(v)
                       /\ Becomes(v, s, Idle)
           /\ Retire(v, s) =>
                 Lease(v)[s] \notin {Absent, Retired} /\ Becomes(v, s, Retired)
BY DEF TypeOK, Versions, Lease, IsShut, Becomes, Absent, Idle, Retired,
       Admit, Lend, GiveBack, Retire,
       Pool4!Admit, Pool4!Lend, Pool4!GiveBack, Pool4!Retire,
       Pool6!Admit, Pool6!Lend, Pool6!GiveBack, Pool6!Retire,
       Pool4!Absent, Pool4!Idle, Pool4!Retired, Pool4!LentTo,
       Pool6!Absent, Pool6!Idle, Pool6!Retired, Pool6!LentTo

\* Shutting a pool says that nothing is at home, and changes no lease.
LEMMA ShutStep ==
    ASSUME TypeOK, NEW v \in Versions, Shut(v)
    PROVE  /\ ~IsShut(v) /\ \A s \in Searchers : Lease(v)[s] # Idle
           /\ UNCHANGED <<lease4, lease6>>
           /\ \A w \in Versions : IsShut(w)' <=> w = v \/ IsShut(w)
BY DEF TypeOK, Versions, Lease, IsShut, Idle, Shut, Pool4!Shut, Pool6!Shut,
       Pool4!Idle, Pool6!Idle

\* The steps of the pools keep their types.
LEMMA PoolTypes ==
    ASSUME TypeOK, NEW v \in Versions,
           \/ \E s \in Searchers :
                 \/ Admit(v, s) \/ Retire(v, s)
                 \/ \E u \in Users : Lend(v, s, u) \/ GiveBack(v, s, u)
           \/ Shut(v)
    PROVE  /\ lease4' \in [Searchers -> Leases] /\ shut4' \in BOOLEAN
           /\ lease6' \in [Searchers -> Leases] /\ shut6' \in BOOLEAN
<1> USE DEF TypeOK, Leases, Absent, Idle, Retired,
       Pool4!Absent, Pool4!Idle, Pool4!Retired, Pool4!LentTo,
       Pool6!Absent, Pool6!Idle, Pool6!Retired, Pool6!LentTo
<1> DEFINE Goal == /\ lease4' \in [Searchers -> Leases] /\ shut4' \in BOOLEAN
                   /\ lease6' \in [Searchers -> Leases] /\ shut6' \in BOOLEAN
<1>1. ASSUME NEW s \in Searchers, Admit(v, s) PROVE Goal
  BY <1>1 DEF Admit, Pool4!Admit, Pool6!Admit
<1>2. ASSUME NEW s \in Searchers, NEW u \in Users, Lend(v, s, u) PROVE Goal
  <2>1. CASE v = 4 /\ Pool4!Lend(s, u) /\ UNCHANGED <<lease6, shut6>>
    BY <2>1 DEF Pool4!Lend
  <2>2. CASE v = 6 /\ Pool6!Lend(s, u) /\ UNCHANGED <<lease4, shut4>>
    BY <2>2 DEF Pool6!Lend
  <2>q. QED BY <1>2, <2>1, <2>2 DEF Lend
<1>3. ASSUME NEW s \in Searchers, NEW u \in Users, GiveBack(v, s, u) PROVE Goal
  BY <1>3 DEF GiveBack, Pool4!GiveBack, Pool6!GiveBack
<1>4. ASSUME NEW s \in Searchers, Retire(v, s) PROVE Goal
  BY <1>4 DEF Retire, Pool4!Retire, Pool6!Retire
<1>5. ASSUME Shut(v) PROVE Goal
  BY <1>5 DEF Shut, Pool4!Shut, Pool6!Shut
<1> HIDE DEF Goal
<1>6. Goal
  BY <1>1, <1>2, <1>3, <1>4, <1>5
<1>q. QED BY <1>6 DEF Goal

-----------------------------------------------------------------------------
(* Inv is preserved: one lemma per conjunct, one step per action *)

\* The types are preserved; no file is replaced more than MaxGen times.
LEMMA TypeStep == TypeOK /\ [Next]_vars => TypeOK'
<1> SUFFICES ASSUME TypeOK, [Next]_vars PROVE TypeOK'
  OBVIOUS
<1> USE DEF TypeOK, userVars, closeVars, buildVars, poolVars
<1>1. ASSUME NEW v \in Versions, NewConfig(v) PROVE TypeOK'
  BY <1>1, Tags DEF NewConfig, Phases, Versions, Files
<1>2. ASSUME NEW v \in Versions, NoConfig(v) PROVE TypeOK'
  BY <1>2, Tags DEF NoConfig, Phases, Versions
<1>3. ASSUME NEW v \in Versions, ConfigFails(v) PROVE TypeOK'
  BY <1>3 DEF ConfigFails, Phases
<1>4. ASSUME NEW v \in Versions, NEW s \in Searchers, OpenSearcher(v, s)
      PROVE  TypeOK'
  BY <1>4, PoolTypes DEF OpenSearcher
<1>5. ASSUME NEW v \in Versions, PoolDone(v) PROVE TypeOK'
  BY <1>5, Tags DEF PoolDone, Phases, Versions
<1>6. ASSUME NEW v \in Versions, OpenFails(v) PROVE TypeOK'
  BY <1>6 DEF OpenFails, Phases
<1>7. ASSUME NEW v \in Versions, Undo(v) PROVE TypeOK'
  BY <1>7, PoolTypes DEF Undo, Phases, IdleIn
<1>8. ASSUME NEW u \in Users, NEW v \in Versions, Dispatch(u, v) PROVE TypeOK'
  <2>1. <<"borrow", v>> \in Places \X Versions /\ <<"answered", v>> \in Places \X Versions
    BY DEF Places
  <2>2. pc' \in [Users -> {AtRest} \cup (Places \X Versions)]
    BY <1>8, <2>1 DEF Dispatch, Goes
  <2>q. QED BY <1>8, <2>2 DEF Dispatch
<1>9. ASSUME NEW u \in Users, NEW v \in Versions, Borrow(u, v) PROVE TypeOK'
  BY <1>9, PoolTypes DEF Borrow, Goes, Places
<1>10. ASSUME NEW u \in Users, NEW v \in Versions, BorrowNil(u, v)
       PROVE  TypeOK'
  BY <1>10 DEF BorrowNil
<1>11. ASSUME NEW u \in Users, NEW v \in Versions, Search(u, v) PROVE TypeOK'
  BY <1>11 DEF Search, Goes, Places
<1>12. ASSUME NEW u \in Users, NEW v \in Versions, ReturnAct(u, v)
       PROVE  TypeOK'
  BY <1>12, PoolTypes DEF ReturnAct, Leaves, HeldBy
<1>13. ASSUME NEW u \in Users, NEW v \in Versions, Finish(u, v) PROVE TypeOK'
  BY <1>13 DEF Finish, Leaves
<1>14. ASSUME CloseBegin PROVE TypeOK'
  BY <1>14 DEF CloseBegin, NextClose, Versions
<1>15. ASSUME NEW v \in Versions, CloseDone(v) PROVE TypeOK'
  BY <1>15, PoolTypes, WaitAssumption DEF CloseDone, NextClose, Versions
<1>16. ASSUME NEW v \in Versions, CloseTimedOut(v) PROVE TypeOK'
  <2>1. closer' \in {<<"closed">>} \cup {<<"closing", w>> : w \in Versions}
    BY <1>16 DEF CloseTimedOut, NextClose, Versions
  <2>q. QED BY <1>16, <2>1, WaitAssumption DEF CloseTimedOut
<1>17. ASSUME NEW v \in Versions, NEW s \in Searchers, Drain(v, s)
       PROVE  TypeOK'
  BY <1>17, PoolTypes DEF Drain
<1>18. ASSUME Tick PROVE TypeOK'
  BY <1>18, WaitAssumption DEF Tick
<1>19. ASSUME NEW v \in Versions, Replace(v) PROVE TypeOK'
  BY <1>19, WaitAssumption DEF Replace, Files, File, Versions
<1>20. ASSUME UNCHANGED vars PROVE TypeOK'
  BY <1>20 DEF vars
<1>q. QED
  BY <1>1, <1>2, <1>3, <1>4, <1>5, <1>6, <1>7, <1>8, <1>9, <1>10,
     <1>11, <1>12, <1>13, <1>14, <1>15, <1>16, <1>17, <1>18, <1>19, <1>20
     DEF Next, Build, UserStep, CloseStep

\* What a search returns names files, or refuses the address.
LEMMA ResultType ==
    ASSUME NEW v \in Versions, NEW ptrs \in Files \cup {NoFile},
           NEW data \in Files \cup {NoFile}
    PROVE  Result(v, ptrs, data) \in Answered \cup {Nil, WrongLength}
BY DEF Result, Answer, Answered

\* The construction ends before the first search and before the close.
LEMMA QuietStep == Inv /\ [Next]_vars => Quiet'
<1> SUFFICES ASSUME Inv, [Next]_vars PROVE Quiet'
  OBVIOUS
<1> USE DEF Inv, Quiet, userVars, closeVars, buildVars, poolVars
<1>1. ASSUME NEW v \in Versions, NewConfig(v) PROVE Quiet'
  BY <1>1 DEF NewConfig
<1>2. ASSUME NEW v \in Versions, NoConfig(v) PROVE Quiet'
  BY <1>2 DEF NoConfig
<1>3. ASSUME NEW v \in Versions, ConfigFails(v) PROVE Quiet'
  BY <1>3 DEF ConfigFails
<1>4. ASSUME NEW v \in Versions, NEW s \in Searchers, OpenSearcher(v, s)
      PROVE  Quiet'
  BY <1>4 DEF OpenSearcher
<1>5. ASSUME NEW v \in Versions, PoolDone(v) PROVE Quiet'
  BY <1>5 DEF PoolDone
<1>6. ASSUME NEW v \in Versions, OpenFails(v) PROVE Quiet'
  BY <1>6 DEF OpenFails
<1>7. ASSUME NEW v \in Versions, Undo(v) PROVE Quiet'
  BY <1>7 DEF Undo
<1>8. ASSUME NEW u \in Users, NEW v \in Versions, Dispatch(u, v) PROVE Quiet'
  <2>1. Result(v, seen[v], seen[v]) \in Answered \cup {Nil, WrongLength}
    BY ResultType DEF TypeOK
  <2>q. QED BY <1>8, <2>1 DEF Dispatch, Returns
<1>9. ASSUME NEW u \in Users, NEW v \in Versions, Borrow(u, v) PROVE Quiet'
  BY <1>9 DEF Borrow, At, AtRest
<1>10. ASSUME NEW u \in Users, NEW v \in Versions, BorrowNil(u, v) PROVE Quiet'
  BY <1>10 DEF BorrowNil, At, AtRest
<1>11. ASSUME NEW u \in Users, NEW v \in Versions, Search(u, v) PROVE Quiet'
  <2>1. phase = <<"ready">>
    BY <1>11 DEF Search, At, AtRest
  <2>2. ASSUME NEW s \in Searchers
        PROVE  Result(v, PointerSource(v, s), FileOf(v, s))
                  \in Answered \cup {Nil, WrongLength}
    <3>1. opened[v][s] \in Files \cup {NoFile} /\ seen[v] \in Files \cup {NoFile}
      BY DEF TypeOK
    <3>q. QED BY <3>1, ResultType DEF PointerSource, FileOf
  <2>q. QED BY <1>11, <2>1, <2>2 DEF Search, Returns, HeldBy
<1>12. ASSUME NEW u \in Users, NEW v \in Versions, ReturnAct(u, v) PROVE Quiet'
  BY <1>12 DEF ReturnAct, At, AtRest, Leaves, Returns
<1>13. ASSUME NEW u \in Users, NEW v \in Versions, Finish(u, v) PROVE Quiet'
  BY <1>13 DEF Finish, At, AtRest, Leaves, Returns
<1>14. ASSUME CloseBegin PROVE Quiet'
  BY <1>14 DEF CloseBegin
<1>15. ASSUME NEW v \in Versions, CloseDone(v) PROVE Quiet'
  BY <1>15 DEF CloseDone, ClosingOrder
<1>16. ASSUME NEW v \in Versions, CloseTimedOut(v) PROVE Quiet'
  BY <1>16 DEF CloseTimedOut, ClosingOrder
<1>17. ASSUME NEW v \in Versions, NEW s \in Searchers, Drain(v, s) PROVE Quiet'
  BY <1>17 DEF Drain
<1>18. ASSUME Tick PROVE Quiet'
  BY <1>18 DEF Tick
<1>19. ASSUME NEW v \in Versions, Replace(v) PROVE Quiet'
  BY <1>19 DEF Replace
<1>20. ASSUME UNCHANGED vars PROVE Quiet'
  BY <1>20 DEF vars
<1>q. QED
  BY <1>1, <1>2, <1>3, <1>4, <1>5, <1>6, <1>7, <1>8, <1>9, <1>10,
     <1>11, <1>12, <1>13, <1>14, <1>15, <1>16, <1>17, <1>18, <1>19, <1>20
     DEF Next, Build, UserStep, CloseStep

\* The pools are made one after the other, and a failure undoes only its own.
LEMMA ConstructionStep == Inv /\ [Next]_vars => Construction'
<1> SUFFICES ASSUME Inv, [Next]_vars PROVE Construction'
  OBVIOUS
<1> USE DEF Inv, Quiet, Construction, Untouched, Complete, Lease, UsesPool,
       Versions, userVars, closeVars, buildVars, poolVars
<1>1. ASSUME NEW v \in Versions, NewConfig(v) PROVE Construction'
  BY <1>1, Tags DEF NewConfig
<1>2. ASSUME NEW v \in Versions, NoConfig(v) PROVE Construction'
  BY <1>2, Tags DEF NoConfig
<1>3. ASSUME NEW v \in Versions, ConfigFails(v) PROVE Construction'
  BY <1>3 DEF ConfigFails
<1>4. ASSUME NEW v \in Versions, NEW s \in Searchers, OpenSearcher(v, s)
      PROVE  Construction'
  BY <1>4, PoolSteps DEF OpenSearcher, Becomes
<1>5. ASSUME NEW v \in Versions, PoolDone(v) PROVE Construction'
  BY <1>5, Tags DEF PoolDone, Complete
<1>6. ASSUME NEW v \in Versions, OpenFails(v) PROVE Construction'
  BY <1>6 DEF OpenFails
<1>7. ASSUME NEW v \in Versions, Undo(v) PROVE Construction'
  BY <1>7, PoolSteps DEF Undo, IdleIn, Becomes
<1>8. ASSUME NEW u \in Users, NEW v \in Versions, Dispatch(u, v)
      PROVE  Construction'
  BY <1>8 DEF Dispatch
<1>9. ASSUME NEW u \in Users, NEW v \in Versions, Borrow(u, v)
      PROVE  Construction'
  BY <1>9 DEF Borrow, At, AtRest
<1>10. ASSUME NEW u \in Users, NEW v \in Versions, BorrowNil(u, v)
       PROVE  Construction'
  BY <1>10 DEF BorrowNil, At, AtRest
<1>11. ASSUME NEW u \in Users, NEW v \in Versions, Search(u, v)
       PROVE  Construction'
  BY <1>11 DEF Search, At, AtRest
<1>12. ASSUME NEW u \in Users, NEW v \in Versions, ReturnAct(u, v)
       PROVE  Construction'
  BY <1>12 DEF ReturnAct, At, AtRest
<1>13. ASSUME NEW u \in Users, NEW v \in Versions, Finish(u, v)
       PROVE  Construction'
  BY <1>13 DEF Finish, At, AtRest
<1>14. ASSUME CloseBegin PROVE Construction'
  BY <1>14 DEF CloseBegin
<1>15. ASSUME NEW v \in Versions, CloseDone(v) PROVE Construction'
  BY <1>15 DEF CloseDone, ClosingOrder
<1>16. ASSUME NEW v \in Versions, CloseTimedOut(v) PROVE Construction'
  BY <1>16 DEF CloseTimedOut, ClosingOrder
<1>17. ASSUME NEW v \in Versions, NEW s \in Searchers, Drain(v, s)
       PROVE  Construction'
  BY <1>17 DEF Drain, ClosingOrder
<1>18. ASSUME Tick PROVE Construction'
  BY <1>18 DEF Tick
<1>19. ASSUME NEW v \in Versions, Replace(v) PROVE Construction'
  BY <1>19 DEF Replace
<1>20. ASSUME UNCHANGED vars PROVE Construction'
  BY <1>20 DEF vars
<1>q. QED
  BY <1>1, <1>2, <1>3, <1>4, <1>5, <1>6, <1>7, <1>8, <1>9, <1>10,
     <1>11, <1>12, <1>13, <1>14, <1>15, <1>16, <1>17, <1>18, <1>19, <1>20
     DEF Next, Build, UserStep, CloseStep

\* A construction fails while it makes no pool, the v4 pool, which it then
\* empties, or the v6 pool, which it empties while the v4 pool is complete.
LEMMA FailedStep == Inv /\ [Next]_vars => FailedNewLeavesOnlyV4'
<1> SUFFICES ASSUME Inv, [Next]_vars PROVE FailedNewLeavesOnlyV4'
  OBVIOUS
<1> USE DEF Inv, Quiet, FailedNewLeavesOnlyV4, OpenIn, Lease, UsesPool,
       Versions, userVars, closeVars, buildVars, poolVars
<1>1. ASSUME NEW v \in Versions, NewConfig(v) PROVE FailedNewLeavesOnlyV4'
  BY <1>1, Tags DEF NewConfig
<1>2. ASSUME NEW v \in Versions, NoConfig(v) PROVE FailedNewLeavesOnlyV4'
  BY <1>2, Tags DEF NoConfig
<1>3. ASSUME NEW v \in Versions, ConfigFails(v) PROVE FailedNewLeavesOnlyV4'
  <2>1. OpenIn(4)' = {} /\ OpenIn(6)' = {}
    BY <1>3 DEF ConfigFails, Construction, Untouched
  <2>q. QED BY <2>1
<1>4. ASSUME NEW v \in Versions, NEW s \in Searchers, OpenSearcher(v, s)
      PROVE  FailedNewLeavesOnlyV4'
  BY <1>4 DEF OpenSearcher
<1>5. ASSUME NEW v \in Versions, PoolDone(v) PROVE FailedNewLeavesOnlyV4'
  BY <1>5, Tags DEF PoolDone
<1>6. ASSUME NEW v \in Versions, OpenFails(v) PROVE FailedNewLeavesOnlyV4'
  BY <1>6 DEF OpenFails
<1>7. ASSUME NEW v \in Versions, Undo(v) PROVE FailedNewLeavesOnlyV4'
  <2>1. CASE IdleIn(v) # {}
    BY <1>7, <2>1 DEF Undo
  <2>2. CASE IdleIn(v) = {}
    <3>1. OpenIn(v)' = {} /\ UNCHANGED <<lease4, lease6, request>>
      BY <1>7, <2>2 DEF Undo, IdleIn, Construction
    <3>2. OpenIn(IF v = 4 THEN 6 ELSE 4) \in {{}, Searchers}
      BY <1>7, Tags DEF Undo, Construction, Complete, Untouched
    <3>3. v = 4 => OpenIn(6) = {}
      BY <1>7 DEF Undo, Construction, Untouched
    <3>4. UsesPool(v)
      BY <1>7 DEF Undo, Construction
    <3>q. QED BY <3>1, <3>2, <3>3, <3>4
  <2>q. QED BY <2>1, <2>2
<1>8. ASSUME NEW u \in Users, NEW v \in Versions, Dispatch(u, v)
      PROVE  FailedNewLeavesOnlyV4'
  BY <1>8 DEF Dispatch
<1>9. ASSUME NEW u \in Users, NEW v \in Versions, Borrow(u, v)
      PROVE  FailedNewLeavesOnlyV4'
  BY <1>9 DEF Borrow, At, AtRest
<1>10. ASSUME NEW u \in Users, NEW v \in Versions, BorrowNil(u, v)
       PROVE  FailedNewLeavesOnlyV4'
  BY <1>10 DEF BorrowNil, At, AtRest
<1>11. ASSUME NEW u \in Users, NEW v \in Versions, Search(u, v)
       PROVE  FailedNewLeavesOnlyV4'
  BY <1>11 DEF Search, At, AtRest
<1>12. ASSUME NEW u \in Users, NEW v \in Versions, ReturnAct(u, v)
       PROVE  FailedNewLeavesOnlyV4'
  BY <1>12 DEF ReturnAct, At, AtRest
<1>13. ASSUME NEW u \in Users, NEW v \in Versions, Finish(u, v)
       PROVE  FailedNewLeavesOnlyV4'
  BY <1>13 DEF Finish, At, AtRest
<1>14. ASSUME CloseBegin PROVE FailedNewLeavesOnlyV4'
  BY <1>14 DEF CloseBegin
<1>15. ASSUME NEW v \in Versions, CloseDone(v) PROVE FailedNewLeavesOnlyV4'
  BY <1>15 DEF CloseDone, ClosingOrder
<1>16. ASSUME NEW v \in Versions, CloseTimedOut(v) PROVE FailedNewLeavesOnlyV4'
  BY <1>16 DEF CloseTimedOut, ClosingOrder
<1>17. ASSUME NEW v \in Versions, NEW s \in Searchers, Drain(v, s)
       PROVE  FailedNewLeavesOnlyV4'
  BY <1>17 DEF Drain, ClosingOrder
<1>18. ASSUME Tick PROVE FailedNewLeavesOnlyV4'
  BY <1>18 DEF Tick
<1>19. ASSUME NEW v \in Versions, Replace(v) PROVE FailedNewLeavesOnlyV4'
  BY <1>19 DEF Replace
<1>20. ASSUME UNCHANGED vars PROVE FailedNewLeavesOnlyV4'
  BY <1>20 DEF vars
<1>q. QED
  BY <1>1, <1>2, <1>3, <1>4, <1>5, <1>6, <1>7, <1>8, <1>9, <1>10,
     <1>11, <1>12, <1>13, <1>14, <1>15, <1>16, <1>17, <1>18, <1>19, <1>20
     DEF Next, Build, UserStep, CloseStep

\* What newConfig checked of a file stays true of what it keeps, and a file
\* that is replaced before the pools are made is remembered.
LEMMA CachedStep == Inv /\ [Next]_vars => Cached'
<1> SUFFICES ASSUME Inv, [Next]_vars PROVE Cached'
  OBVIOUS
<1> USE DEF Inv, TypeOK, Cached, Configured, Constructed, Lease, Versions,
       userVars, closeVars, buildVars, poolVars
<1>1. ASSUME NEW v \in Versions, NewConfig(v) PROVE Cached'
  <2>1. /\ disk[v] # NoFile
        /\ VersionFromHeader(disk[v].header) = request[v].version
    BY <1>1, NilAssumption DEF NewConfig, Accepts, NoFile
  <2>2. \A w \in Versions : Configured(w)' => w = v \/ Configured(w)
    BY <1>1, Tags DEF NewConfig
  <2>3. \A s \in Searchers : Lease(v)[s] = Absent
    BY <1>1 DEF NewConfig, Construction, Untouched
  <2>4. \A w \in Versions : seen'[w] = IF w = v THEN disk[v] ELSE seen[w]
    BY <1>1 DEF NewConfig
  <2>q. QED BY <1>1, <2>1, <2>2, <2>3, <2>4 DEF NewConfig
<1>2. ASSUME NEW v \in Versions, NoConfig(v) PROVE Cached'
  BY <1>2, Tags DEF NoConfig
<1>3. ASSUME NEW v \in Versions, ConfigFails(v) PROVE Cached'
  BY <1>3 DEF ConfigFails
<1>4. ASSUME NEW v \in Versions, NEW s \in Searchers, OpenSearcher(v, s)
      PROVE  Cached'
  BY <1>4, PoolSteps DEF OpenSearcher, Becomes, UsesPool
<1>5. ASSUME NEW v \in Versions, PoolDone(v) PROVE Cached'
  BY <1>5, Tags DEF PoolDone
<1>6. ASSUME NEW v \in Versions, OpenFails(v) PROVE Cached'
  BY <1>6 DEF OpenFails
<1>7. ASSUME NEW v \in Versions, Undo(v) PROVE Cached'
  BY <1>7, Tags, PoolSteps DEF Undo, IdleIn, Becomes
<1>8. ASSUME NEW u \in Users, NEW v \in Versions, Dispatch(u, v) PROVE Cached'
  BY <1>8 DEF Dispatch
<1>9. ASSUME NEW u \in Users, NEW v \in Versions, Borrow(u, v) PROVE Cached'
  BY <1>9, Tags, PoolSteps DEF Borrow, Becomes
<1>10. ASSUME NEW u \in Users, NEW v \in Versions, BorrowNil(u, v)
       PROVE  Cached'
  BY <1>10 DEF BorrowNil
<1>11. ASSUME NEW u \in Users, NEW v \in Versions, Search(u, v) PROVE Cached'
  BY <1>11 DEF Search
<1>12. ASSUME NEW u \in Users, NEW v \in Versions, ReturnAct(u, v)
       PROVE  Cached'
  BY <1>12, Tags, PoolSteps DEF ReturnAct, Becomes, HeldBy
<1>13. ASSUME NEW u \in Users, NEW v \in Versions, Finish(u, v) PROVE Cached'
  BY <1>13 DEF Finish
<1>14. ASSUME CloseBegin PROVE Cached'
  BY <1>14 DEF CloseBegin
<1>15. ASSUME NEW v \in Versions, CloseDone(v) PROVE Cached'
  BY <1>15, ShutStep DEF CloseDone
<1>16. ASSUME NEW v \in Versions, CloseTimedOut(v) PROVE Cached'
  BY <1>16 DEF CloseTimedOut
<1>17. ASSUME NEW v \in Versions, NEW s \in Searchers, Drain(v, s)
       PROVE  Cached'
  BY <1>17, Tags, PoolSteps DEF Drain, Becomes
<1>18. ASSUME Tick PROVE Cached'
  BY <1>18 DEF Tick
<1>19. ASSUME NEW v \in Versions, Replace(v) PROVE Cached'
  BY <1>19, NilAssumption DEF Replace, NoFile
<1>20. ASSUME UNCHANGED vars PROVE Cached'
  BY <1>20 DEF vars
<1>q. QED
  BY <1>1, <1>2, <1>3, <1>4, <1>5, <1>6, <1>7, <1>8, <1>9, <1>10,
     <1>11, <1>12, <1>13, <1>14, <1>15, <1>16, <1>17, <1>18, <1>19, <1>20
     DEF Next, Build, UserStep, CloseStep

\* A goroutine has its searcher from the borrow to the return; the close
\* and the construction take away only what is at home.
LEMMA LoansStep == Inv /\ [Next]_vars => Loans'
<1> SUFFICES ASSUME Inv, [Next]_vars, NEW x \in Users, NEW w \in Versions
             PROVE  LoanOf(x, w)'
  BY DEF Loans
<1> USE DEF userVars, closeVars, buildVars, poolVars
<1>0. LoanOf(x, w) /\ TypeOK
  BY DEF Inv, Loans
<1>kept. ASSUME pc'[x] = pc[x], HeldBy(x, w)' = HeldBy(x, w), request' = request
         PROVE  LoanOf(x, w)'
  BY <1>0, <1>kept DEF LoanOf, At, InMemory, UsesPool
<1>1. ASSUME NEW v \in Versions, NewConfig(v) PROVE LoanOf(x, w)'
  <2>1. UNCHANGED <<pc, request, lease4, lease6>>
    BY <1>1 DEF NewConfig
  <2>q. QED BY <2>1, <1>kept DEF HeldBy, Lease
<1>2. ASSUME NEW v \in Versions, NoConfig(v) PROVE LoanOf(x, w)'
  <2>1. UNCHANGED <<pc, request, lease4, lease6>>
    BY <1>2 DEF NoConfig
  <2>q. QED BY <2>1, <1>kept DEF HeldBy, Lease
<1>3. ASSUME NEW v \in Versions, ConfigFails(v) PROVE LoanOf(x, w)'
  <2>1. UNCHANGED <<pc, request, lease4, lease6>>
    BY <1>3 DEF ConfigFails
  <2>q. QED BY <2>1, <1>kept DEF HeldBy, Lease
<1>4. ASSUME NEW v \in Versions, NEW s \in Searchers, OpenSearcher(v, s)
      PROVE  LoanOf(x, w)'
  <2>1. HeldBy(x, w)' = HeldBy(x, w)
    BY <1>4, Tags, <1>0, PoolSteps
       DEF OpenSearcher, Becomes, HeldBy, Lease, Versions
  <2>q. QED BY <1>4, <2>1, <1>kept DEF OpenSearcher
<1>5. ASSUME NEW v \in Versions, PoolDone(v) PROVE LoanOf(x, w)'
  <2>1. UNCHANGED <<pc, request, lease4, lease6>>
    BY <1>5 DEF PoolDone
  <2>q. QED BY <2>1, <1>kept DEF HeldBy, Lease
<1>6. ASSUME NEW v \in Versions, OpenFails(v) PROVE LoanOf(x, w)'
  <2>1. UNCHANGED <<pc, request, lease4, lease6>>
    BY <1>6 DEF OpenFails
  <2>q. QED BY <2>1, <1>kept DEF HeldBy, Lease
<1>7. ASSUME NEW v \in Versions, Undo(v) PROVE LoanOf(x, w)'
  <2>1. HeldBy(x, w)' = HeldBy(x, w)
    <3>1. CASE IdleIn(v) = {}
      BY <1>7, <3>1 DEF Undo, HeldBy, Lease
    <3>2. CASE IdleIn(v) # {}
      BY <1>7, <3>2, Tags, <1>0, PoolSteps
         DEF Undo, Becomes, HeldBy, Lease, Versions, IdleIn
    <3>q. QED BY <3>1, <3>2
  <2>q. QED BY <1>7, <2>1, <1>kept DEF Undo
<1>8. ASSUME NEW u \in Users, NEW v \in Versions, Dispatch(u, v)
      PROVE  LoanOf(x, w)'
  <2>1. HeldBy(x, w)' = HeldBy(x, w) /\ request' = request
    BY <1>8, <1>0 DEF Dispatch, HeldBy, Lease
  <2>2. CASE x # u
    BY <1>8, <1>0, <2>1, <2>2, <1>kept DEF Dispatch, Goes, TypeOK
  <2>3. CASE x = u
    <3>1. HeldBy(x, w) = {}
      BY <1>8, <2>3, <1>0 DEF Dispatch, LoanOf, AtRest, Holding
    <3>q. QED BY <1>8, <1>0, <2>1, <2>3, <3>1
      DEF Dispatch, Goes, TypeOK, LoanOf, At, Holding, Places, UsesPool, InMemory
  <2>q. QED BY <2>2, <2>3
<1>9. ASSUME NEW u \in Users, NEW v \in Versions, Borrow(u, v)
      PROVE  LoanOf(x, w)'
  <2>1. request' = request /\ pc' = [pc EXCEPT ![u] = <<"search", v>>]
    BY <1>9 DEF Borrow, Goes
  <2>2. PICK s \in Searchers : Lend(v, s, u)
    BY <1>9 DEF Borrow
  <2>3. /\ Lease(v)[s] = Idle
        /\ Becomes(v, s, Pool4!LentTo(u))
    BY <2>2, <1>0, PoolSteps
  <2>4. CASE x # u
    <3>1. HeldBy(x, w)' = HeldBy(x, w)
      BY <2>3, <2>4, Tags DEF Becomes, HeldBy, Lease, Versions
    <3>q. QED BY <2>1, <2>4, <3>1, <1>kept, <1>0 DEF TypeOK
  <2>5. CASE x = u
    <3>1. HeldBy(x, w) = {} /\ (w = v => UsesPool(v))
      BY <1>9, <2>5, <1>0 DEF Borrow, LoanOf, At, Holding, Places
    <3>2. HeldBy(x, w)' = IF w = v THEN {s} ELSE {}
      BY <2>3, <2>5, <3>1, Tags DEF Becomes, HeldBy, Lease, Versions
    <3>q. QED BY <1>0, <2>1, <2>5, <3>1, <3>2
      DEF TypeOK, LoanOf, At, Holding, Places, UsesPool
  <2>q. QED BY <2>4, <2>5
<1>10. ASSUME NEW u \in Users, NEW v \in Versions, BorrowNil(u, v)
       PROVE  LoanOf(x, w)'
  <2>1. HeldBy(x, w)' = HeldBy(x, w) /\ request' = request
    BY <1>10, <1>0 DEF BorrowNil, HeldBy, Lease
  <2>2. CASE x # u
    BY <1>10, <1>0, <2>1, <2>2, <1>kept DEF BorrowNil, TypeOK
  <2>3. CASE x = u
    <3>1. HeldBy(x, w) = {}
      BY <1>10, <2>3, <1>0 DEF BorrowNil, LoanOf, At, Holding
    <3>q. QED BY <1>10, <1>0, <2>1, <2>3, <3>1
      DEF BorrowNil, TypeOK, LoanOf, At, AtRest, Holding
  <2>q. QED BY <2>2, <2>3
<1>11. ASSUME NEW u \in Users, NEW v \in Versions, Search(u, v)
       PROVE  LoanOf(x, w)'
  <2>1. HeldBy(x, w)' = HeldBy(x, w) /\ request' = request
    BY <1>11, <1>0 DEF Search, HeldBy, Lease
  <2>2. CASE x # u
    BY <1>11, <1>0, <2>1, <2>2, <1>kept DEF Search, Goes, TypeOK
  <2>3. CASE x = u
    <3>1. /\ pc[x] = <<"search", v>>
          /\ \/ pc'[x] = <<"push", v>>
             \/ pc'[x] = <<"closeIt", v>>
      BY <1>11, <2>3, <1>0 DEF Search, Goes, TypeOK, At
    <3>q. QED BY <2>1, <3>1, <1>0
      DEF LoanOf, At, Holding, Places, UsesPool, InMemory
  <2>q. QED BY <2>2, <2>3
<1>12. ASSUME NEW u \in Users, NEW v \in Versions, ReturnAct(u, v)
       PROVE  LoanOf(x, w)'
  <2>1. request' = request /\ pc' = [pc EXCEPT ![u] = AtRest]
    BY <1>12 DEF ReturnAct, Leaves
  <2>2. PICK s \in HeldBy(u, v), l \in {Idle, Retired} :
           Becomes(v, s, l) /\ pc[u] \in Holding \X {v}
    <3>1. PICK s \in HeldBy(u, v) :
             \/ At(u, "push", v) /\ GiveBack(v, s, u)
             \/ At(u, "closeIt", v) /\ Retire(v, s)
      BY <1>12 DEF ReturnAct
    <3>2. s \in Searchers
      BY DEF HeldBy
    <3>3. CASE At(u, "push", v) /\ GiveBack(v, s, u)
      BY <1>0, <3>2, <3>3, PoolSteps DEF At, Holding
    <3>4. CASE At(u, "closeIt", v) /\ Retire(v, s)
      BY <1>0, <3>2, <3>4, PoolSteps DEF At, Holding
    <3>q. QED BY <3>1, <3>3, <3>4
  <2>3. /\ s \in Searchers /\ Lease(v)[s] = Pool4!LentTo(u)
        /\ Pool4!LentTo(x) # l
    BY Tags DEF HeldBy
  <2>4. CASE x # u
    <3>1. HeldBy(x, w)' = HeldBy(x, w)
      BY <2>2, <2>3, <2>4, Tags DEF Becomes, HeldBy, Lease, Versions
    <3>q. QED BY <2>1, <2>4, <3>1, <1>kept, <1>0 DEF TypeOK
  <2>5. CASE x = u
    <3>1. HeldBy(x, w) = IF w = v THEN {s} ELSE {}
      BY <2>2, <2>5, <1>0 DEF LoanOf, Holding
    <3>2. HeldBy(x, w)' = {}
      BY <2>2, <2>3, <2>5, <3>1 DEF Becomes, HeldBy, Lease, Versions
    <3>q. QED BY <2>1, <2>5, <3>2, <1>0 DEF TypeOK, LoanOf, At, AtRest, Holding
  <2>q. QED BY <2>4, <2>5
<1>13. ASSUME NEW u \in Users, NEW v \in Versions, Finish(u, v)
       PROVE  LoanOf(x, w)'
  <2>1. HeldBy(x, w)' = HeldBy(x, w) /\ request' = request
    BY <1>13, <1>0 DEF Finish, HeldBy, Lease
  <2>2. CASE x # u
    BY <1>13, <1>0, <2>1, <2>2, <1>kept DEF Finish, Leaves, TypeOK
  <2>3. CASE x = u
    <3>1. HeldBy(x, w) = {}
      BY <1>13, <2>3, <1>0 DEF Finish, LoanOf, At, Holding
    <3>q. QED BY <1>13, <1>0, <2>1, <2>3, <3>1
      DEF Finish, Leaves, TypeOK, LoanOf, At, AtRest, Holding
  <2>q. QED BY <2>2, <2>3
<1>14. ASSUME CloseBegin PROVE LoanOf(x, w)'
  <2>1. UNCHANGED <<pc, request, lease4, lease6>>
    BY <1>14 DEF CloseBegin
  <2>q. QED BY <2>1, <1>kept DEF HeldBy, Lease
<1>15. ASSUME NEW v \in Versions, CloseDone(v) PROVE LoanOf(x, w)'
  <2>1. UNCHANGED <<pc, request, lease4, lease6>>
    BY <1>15, <1>0, ShutStep DEF CloseDone
  <2>q. QED BY <2>1, <1>kept DEF HeldBy, Lease
<1>16. ASSUME NEW v \in Versions, CloseTimedOut(v) PROVE LoanOf(x, w)'
  <2>1. UNCHANGED <<pc, request, lease4, lease6>>
    BY <1>16 DEF CloseTimedOut
  <2>q. QED BY <2>1, <1>kept DEF HeldBy, Lease
<1>17. ASSUME NEW v \in Versions, NEW s \in Searchers, Drain(v, s)
       PROVE  LoanOf(x, w)'
  <2>1. HeldBy(x, w)' = HeldBy(x, w)
    BY <1>17, Tags, <1>0, PoolSteps DEF Drain, Becomes, HeldBy, Lease, Versions
  <2>q. QED BY <1>17, <2>1, <1>kept DEF Drain
<1>18. ASSUME Tick PROVE LoanOf(x, w)'
  <2>1. UNCHANGED <<pc, request, lease4, lease6>>
    BY <1>18 DEF Tick
  <2>q. QED BY <2>1, <1>kept DEF HeldBy, Lease
<1>19. ASSUME NEW v \in Versions, Replace(v) PROVE LoanOf(x, w)'
  <2>1. UNCHANGED <<pc, request, lease4, lease6>>
    BY <1>19 DEF Replace
  <2>q. QED BY <2>1, <1>kept DEF HeldBy, Lease
<1>20. ASSUME UNCHANGED vars PROVE LoanOf(x, w)'
  <2>1. UNCHANGED <<pc, request, lease4, lease6>>
    BY <1>20 DEF vars
  <2>q. QED BY <2>1, <1>kept DEF HeldBy, Lease
<1>q. QED
  BY <1>1, <1>2, <1>3, <1>4, <1>5, <1>6, <1>7, <1>8, <1>9, <1>10,
     <1>11, <1>12, <1>13, <1>14, <1>15, <1>16, <1>17, <1>18, <1>19, <1>20
     DEF Next, Build, UserStep, CloseStep

\* A pool is shut when the closer passes it by its test; after that nothing
\* comes home, because whoever answers later finds the pool closing.
LEMMA ClosedStep == Inv /\ [Next]_vars => Closed'
<1> SUFFICES ASSUME Inv, [Next]_vars, NEW w \in Versions
             PROVE  ClosedOf(w)'
  BY DEF Closed
<1> USE DEF userVars, closeVars, buildVars, poolVars, Lease, IsShut, Versions
<1>0. TypeOK /\ ClosedOf(w) /\ Loans
  BY DEF Inv, Closed
<1>same. ASSUME UNCHANGED <<request, poolVars, closer, gaveUp>>,
                \A x \in Users : At(x, "push", w)' => At(x, "push", w)
         PROVE  ClosedOf(w)'
  BY <1>0, <1>same DEF ClosedOf, Past, UsesPool
<1>1. ASSUME NEW v \in Versions, NewConfig(v) PROVE ClosedOf(w)'
  <2>1. /\ UNCHANGED <<request, poolVars, closer, gaveUp>>
        /\ \A x \in Users : At(x, "push", w)' = At(x, "push", w)
    BY <1>1 DEF At, NewConfig
  <2>q. QED BY <2>1, <1>same
<1>2. ASSUME NEW v \in Versions, NoConfig(v) PROVE ClosedOf(w)'
  <2>1. /\ UNCHANGED <<request, poolVars, closer, gaveUp>>
        /\ \A x \in Users : At(x, "push", w)' = At(x, "push", w)
    BY <1>2 DEF At, NoConfig
  <2>q. QED BY <2>1, <1>same
<1>3. ASSUME NEW v \in Versions, ConfigFails(v) PROVE ClosedOf(w)'
  <2>1. /\ UNCHANGED <<request, poolVars, closer, gaveUp>>
        /\ \A x \in Users : At(x, "push", w)' = At(x, "push", w)
    BY <1>3 DEF At, ConfigFails
  <2>q. QED BY <2>1, <1>same
<1>4. ASSUME NEW v \in Versions, NEW s \in Searchers, OpenSearcher(v, s)
      PROVE  ClosedOf(w)'
  BY <1>4, <1>0, Tags, PoolSteps
     DEF OpenSearcher, Becomes, ClosedOf, Past, UsesPool, At
<1>5. ASSUME NEW v \in Versions, PoolDone(v) PROVE ClosedOf(w)'
  <2>1. /\ UNCHANGED <<request, poolVars, closer, gaveUp>>
        /\ \A x \in Users : At(x, "push", w)' = At(x, "push", w)
    BY <1>5 DEF At, PoolDone
  <2>q. QED BY <2>1, <1>same
<1>6. ASSUME NEW v \in Versions, OpenFails(v) PROVE ClosedOf(w)'
  <2>1. /\ UNCHANGED <<request, poolVars, closer, gaveUp>>
        /\ \A x \in Users : At(x, "push", w)' = At(x, "push", w)
    BY <1>6 DEF At, OpenFails
  <2>q. QED BY <2>1, <1>same
<1>7. ASSUME NEW v \in Versions, Undo(v) PROVE ClosedOf(w)'
  <2>1. CASE IdleIn(v) = {}
    <3>1. /\ UNCHANGED <<request, poolVars, closer, gaveUp>>
          /\ \A x \in Users : At(x, "push", w)' = At(x, "push", w)
      BY <1>7, <2>1 DEF At, Undo
    <3>q. QED BY <3>1, <1>same
  <2>2. CASE IdleIn(v) # {}
    BY <1>7, <1>0, <2>2, Tags, PoolSteps
       DEF Undo, Becomes, ClosedOf, Past, UsesPool, At, IdleIn
  <2>q. QED BY <2>1, <2>2
<1>8. ASSUME NEW u \in Users, NEW v \in Versions, Dispatch(u, v)
      PROVE  ClosedOf(w)'
  <2>1. \A x \in Users : At(x, "push", w)' => At(x, "push", w)
    BY <1>8, <1>0 DEF Dispatch, Goes, At, TypeOK
  <2>2. UNCHANGED <<request, poolVars, closer, gaveUp>>
    BY <1>8 DEF Dispatch
  <2>q. QED BY <2>1, <2>2, <1>same
<1>9. ASSUME NEW u \in Users, NEW v \in Versions, Borrow(u, v)
      PROVE  ClosedOf(w)'
  <2>1. \A x \in Users : At(x, "push", w)' => At(x, "push", w)
    BY <1>9, <1>0 DEF Borrow, Goes, At, TypeOK
  <2>q. QED BY <1>9, <1>0, <2>1, Tags, PoolSteps
    DEF Borrow, Becomes, ClosedOf, Past, UsesPool
<1>10. ASSUME NEW u \in Users, NEW v \in Versions, BorrowNil(u, v)
       PROVE  ClosedOf(w)'
  <2>1. \A x \in Users : At(x, "push", w)' => At(x, "push", w)
    BY <1>10, <1>0 DEF BorrowNil, At, AtRest, TypeOK
  <2>2. UNCHANGED <<request, poolVars, closer, gaveUp>>
    BY <1>10 DEF BorrowNil
  <2>q. QED BY <2>1, <2>2, <1>same
<1>11. ASSUME NEW u \in Users, NEW v \in Versions, Search(u, v)
       PROVE  ClosedOf(w)'
  <2>1. UNCHANGED <<request, poolVars, closer, gaveUp>>
    BY <1>11 DEF Search
  <2>2. CASE IsShut(w)
    <3>1. UsesPool(v)
      BY <1>11, <1>0 DEF Search, Loans, LoanOf, At, Places
    <3>2. w = v => Closing(v)
      BY <1>0, <2>2, <3>1 DEF ClosedOf, Past, Closing
    <3>3. \A x \in Users : At(x, "push", w)' => At(x, "push", w)
      BY <1>11, <1>0, <3>2 DEF Search, Goes, At, TypeOK
    <3>q. QED BY <2>1, <3>3, <1>same
  <2>3. CASE ~IsShut(w)
    BY <1>0, <2>1, <2>3 DEF ClosedOf, Past, UsesPool
  <2>q. QED BY <2>2, <2>3
<1>12. ASSUME NEW u \in Users, NEW v \in Versions, ReturnAct(u, v)
       PROVE  ClosedOf(w)'
  <2>1. \A x \in Users : At(x, "push", w)' => At(x, "push", w)
    BY <1>12, <1>0 DEF ReturnAct, Leaves, At, AtRest, TypeOK
  <2>2. PICK s \in Searchers, l \in {Idle, Retired} :
           Becomes(v, s, l) /\ (l = Idle => ~IsShut(v))
    <3>1. PICK s \in Searchers : GiveBack(v, s, u) \/ Retire(v, s)
      BY <1>12 DEF ReturnAct, HeldBy
    <3>2. CASE GiveBack(v, s, u)
      BY <1>0, <3>2, PoolSteps, Zenon
    <3>3. CASE Retire(v, s)
      <4>1. Becomes(v, s, Retired) /\ Retired # Idle
        BY <1>0, <3>3, PoolSteps, Tags, Zenon
      <4>q. QED BY <4>1
    <3>q. QED BY <3>1, <3>2, <3>3
  <2>q. QED BY <1>12, <1>0, <2>1, <2>2, Tags
    DEF ReturnAct, Becomes, ClosedOf, Past, UsesPool
<1>13. ASSUME NEW u \in Users, NEW v \in Versions, Finish(u, v)
       PROVE  ClosedOf(w)'
  <2>1. \A x \in Users : At(x, "push", w)' => At(x, "push", w)
    BY <1>13, <1>0 DEF Finish, Leaves, At, AtRest, TypeOK
  <2>2. UNCHANGED <<request, poolVars, closer, gaveUp>>
    BY <1>13 DEF Finish
  <2>q. QED BY <2>1, <2>2, <1>same
<1>14. ASSUME CloseBegin PROVE ClosedOf(w)'
  BY <1>14, <1>0 DEF CloseBegin, ClosedOf, Past, NextClose, UsesPool, At, Quiet
<1>15. ASSUME NEW v \in Versions, CloseDone(v) PROVE ClosedOf(w)'
  BY <1>15, <1>0, ShutStep
     DEF CloseDone, ClosedOf, Past, NextClose, UsesPool, At, ClosingOrder
<1>16. ASSUME NEW v \in Versions, CloseTimedOut(v) PROVE ClosedOf(w)'
  BY <1>16, <1>0
     DEF CloseTimedOut, ClosedOf, Past, NextClose, UsesPool, At, ClosingOrder
<1>17. ASSUME NEW v \in Versions, NEW s \in Searchers, Drain(v, s)
       PROVE  ClosedOf(w)'
  BY <1>17, <1>0, Tags, PoolSteps
     DEF Drain, Becomes, ClosedOf, Past, UsesPool, At
<1>18. ASSUME Tick PROVE ClosedOf(w)'
  <2>1. /\ UNCHANGED <<request, poolVars, closer, gaveUp>>
        /\ \A x \in Users : At(x, "push", w)' = At(x, "push", w)
    BY <1>18 DEF At, Tick
  <2>q. QED BY <2>1, <1>same
<1>19. ASSUME NEW v \in Versions, Replace(v) PROVE ClosedOf(w)'
  <2>1. /\ UNCHANGED <<request, poolVars, closer, gaveUp>>
        /\ \A x \in Users : At(x, "push", w)' = At(x, "push", w)
    BY <1>19 DEF At, Replace
  <2>q. QED BY <2>1, <1>same
<1>20. ASSUME UNCHANGED vars PROVE ClosedOf(w)'
  <2>1. /\ UNCHANGED <<request, poolVars, closer, gaveUp>>
        /\ \A x \in Users : At(x, "push", w)' = At(x, "push", w)
    BY <1>20 DEF At, vars
  <2>q. QED BY <2>1, <1>same
<1>q. QED
  BY <1>1, <1>2, <1>3, <1>4, <1>5, <1>6, <1>7, <1>8, <1>9, <1>10,
     <1>11, <1>12, <1>13, <1>14, <1>15, <1>16, <1>17, <1>18, <1>19, <1>20
     DEF Next, Build, UserStep, CloseStep

\* An answer is made of the file its configuration was read from, or of one
\* that was moved in before the pool was made; and it stays so.
LEMMA AnswersStep == Inv /\ [Next]_vars => AnswersSound'
<1> DEFINE SoundOf(x) ==
              result[x] # Nil /\ result[x].kind = "region" => Sound(result[x])
<1> SUFFICES ASSUME Inv, [Next]_vars, NEW x \in Users
             PROVE  SoundOf(x)'
  BY DEF AnswersSound
<1> USE DEF Inv, userVars, closeVars, buildVars, poolVars
<1>same. ASSUME result'[x] = result[x], UNCHANGED <<request, seen>>,
                moved \subseteq moved'
         PROVE  SoundOf(x)'
  BY <1>same DEF AnswersSound, Sound, UsesPool
<1>none. ASSUME result'[x] = Nil PROVE SoundOf(x)'
  BY <1>none
<1>1. ASSUME NEW v \in Versions, NewConfig(v) PROVE SoundOf(x)'
  <2>1. result'[x] = Nil
    BY <1>1 DEF NewConfig, Quiet
  <2>q. QED BY <2>1, <1>none
<1>2. ASSUME NEW v \in Versions, NoConfig(v) PROVE SoundOf(x)'
  <2>1. result'[x] = Nil
    BY <1>2 DEF NoConfig, Quiet
  <2>q. QED BY <2>1, <1>none
<1>3. ASSUME NEW v \in Versions, ConfigFails(v) PROVE SoundOf(x)'
  <2>1. result'[x] = Nil
    BY <1>3 DEF ConfigFails, Quiet
  <2>q. QED BY <2>1, <1>none
<1>4. ASSUME NEW v \in Versions, NEW s \in Searchers, OpenSearcher(v, s)
      PROVE  SoundOf(x)'
  <2>1. result'[x] = Nil
    BY <1>4 DEF OpenSearcher, Quiet
  <2>q. QED BY <2>1, <1>none
<1>5. ASSUME NEW v \in Versions, PoolDone(v) PROVE SoundOf(x)'
  <2>1. result'[x] = Nil
    BY <1>5 DEF PoolDone, Quiet
  <2>q. QED BY <2>1, <1>none
<1>6. ASSUME NEW v \in Versions, OpenFails(v) PROVE SoundOf(x)'
  <2>1. result'[x] = Nil
    BY <1>6 DEF OpenFails, Quiet
  <2>q. QED BY <2>1, <1>none
<1>7. ASSUME NEW v \in Versions, Undo(v) PROVE SoundOf(x)'
  <2>1. result'[x] = Nil
    BY <1>7 DEF Undo, Quiet
  <2>q. QED BY <2>1, <1>none
<1>8. ASSUME NEW u \in Users, NEW v \in Versions, Dispatch(u, v)
      PROVE  SoundOf(x)'
  <2>1. UNCHANGED <<request, seen, moved>>
    BY <1>8 DEF Dispatch
  <2>2. CASE result'[x] = result[x]
    BY <2>1, <2>2, <1>same
  <2>3. CASE result'[x] # result[x]
    <3>1. /\ InMemory(v) /\ phase = <<"ready">>
          /\ result'[x] = Result(v, seen[v], seen[v])
      BY <1>8, <2>3 DEF Dispatch, Returns, Quiet
    <3>2. VersionFromHeader(seen[v].header) = request[v].version
      BY <3>1 DEF Cached, Configured, InMemory
    <3>q. QED BY <2>1, <3>1, <3>2 DEF Sound, Result, Answer, WrongLength
  <2>q. QED BY <2>2, <2>3
<1>9. ASSUME NEW u \in Users, NEW v \in Versions, Borrow(u, v)
      PROVE  SoundOf(x)'
  <2>1. UNCHANGED <<result, request, seen>> /\ moved \subseteq moved'
    BY <1>9 DEF Borrow
  <2>q. QED BY <2>1, <1>same
<1>10. ASSUME NEW u \in Users, NEW v \in Versions, BorrowNil(u, v)
       PROVE  SoundOf(x)'
  <2>1. UNCHANGED <<result, request, seen>> /\ moved \subseteq moved'
    BY <1>10 DEF BorrowNil
  <2>q. QED BY <2>1, <1>same
<1>11. ASSUME NEW u \in Users, NEW v \in Versions, Search(u, v)
       PROVE  SoundOf(x)'
  <2>1. UNCHANGED <<request, seen, moved>>
    BY <1>11 DEF Search
  <2>2. CASE result'[x] = result[x]
    BY <2>1, <2>2, <1>same
  <2>3. CASE result'[x] # result[x]
    <3>1. PICK s \in HeldBy(u, v) :
             result'[x] = Result(v, PointerSource(v, s), FileOf(v, s))
      BY <1>11, <2>3 DEF Search, Returns, Quiet
    <3>2. opened[v][s] = seen[v] \/ v \in moved
      BY <3>1, Tags DEF Cached, HeldBy
    <3>3. UsesPool(v) /\ phase = <<"ready">>
      BY <1>11 DEF Search, Loans, LoanOf, At, Places, Quiet, AtRest
    <3>4. VersionFromHeader(seen[v].header) = request[v].version
      BY <3>3 DEF Cached, Configured, UsesPool
    <3>q. QED BY <2>1, <3>1, <3>2, <3>3, <3>4
      DEF Sound, Result, Answer, WrongLength, PointerSource, FileOf, UsesPool
  <2>q. QED BY <2>2, <2>3
<1>12. ASSUME NEW u \in Users, NEW v \in Versions, ReturnAct(u, v)
       PROVE  SoundOf(x)'
  <2>1. result'[x] = result[x] \/ result'[x] = Nil
    BY <1>12 DEF ReturnAct, Leaves, Returns, Quiet
  <2>2. UNCHANGED <<request, seen, moved>>
    BY <1>12 DEF ReturnAct
  <2>q. QED BY <2>1, <2>2, <1>same, <1>none
<1>13. ASSUME NEW u \in Users, NEW v \in Versions, Finish(u, v)
       PROVE  SoundOf(x)'
  <2>1. result'[x] = result[x] \/ result'[x] = Nil
    BY <1>13 DEF Finish, Leaves, Returns, Quiet
  <2>2. UNCHANGED <<request, seen, moved>>
    BY <1>13 DEF Finish
  <2>q. QED BY <2>1, <2>2, <1>same, <1>none
<1>14. ASSUME CloseBegin PROVE SoundOf(x)'
  <2>1. UNCHANGED <<result, request, seen>> /\ moved \subseteq moved'
    BY <1>14 DEF CloseBegin
  <2>q. QED BY <2>1, <1>same
<1>15. ASSUME NEW v \in Versions, CloseDone(v) PROVE SoundOf(x)'
  <2>1. UNCHANGED <<result, request, seen>> /\ moved \subseteq moved'
    BY <1>15 DEF CloseDone
  <2>q. QED BY <2>1, <1>same
<1>16. ASSUME NEW v \in Versions, CloseTimedOut(v) PROVE SoundOf(x)'
  <2>1. UNCHANGED <<result, request, seen>> /\ moved \subseteq moved'
    BY <1>16 DEF CloseTimedOut
  <2>q. QED BY <2>1, <1>same
<1>17. ASSUME NEW v \in Versions, NEW s \in Searchers, Drain(v, s)
       PROVE  SoundOf(x)'
  <2>1. UNCHANGED <<result, request, seen>> /\ moved \subseteq moved'
    BY <1>17 DEF Drain
  <2>q. QED BY <2>1, <1>same
<1>18. ASSUME Tick PROVE SoundOf(x)'
  <2>1. UNCHANGED <<result, request, seen>> /\ moved \subseteq moved'
    BY <1>18 DEF Tick
  <2>q. QED BY <2>1, <1>same
<1>19. ASSUME NEW v \in Versions, Replace(v) PROVE SoundOf(x)'
  <2>1. UNCHANGED <<result, request, seen>> /\ moved \subseteq moved'
    BY <1>19 DEF Replace
  <2>q. QED BY <2>1, <1>same
<1>20. ASSUME UNCHANGED vars PROVE SoundOf(x)'
  <2>1. UNCHANGED <<result, request, seen>> /\ moved \subseteq moved'
    BY <1>20 DEF vars
  <2>q. QED BY <2>1, <1>same
<1>q. QED
  BY <1>1, <1>2, <1>3, <1>4, <1>5, <1>6, <1>7, <1>8, <1>9, <1>10,
     <1>11, <1>12, <1>13, <1>14, <1>15, <1>16, <1>17, <1>18, <1>19, <1>20
     DEF Next, Build, UserStep, CloseStep

-----------------------------------------------------------------------------
(* The theorems *)

\* Every initial state satisfies the inductive invariant.
LEMMA InitInv == Init => Inv
<1> SUFFICES ASSUME Init PROVE Inv
  OBVIOUS
<1> USE DEF Init, Versions, Absent, Pool4!Init, Pool6!Init, Pool4!Absent, Pool6!Absent
<1>1. TypeOK
  <2>1. \A h \in Headers : File(h, 0) \in Files
    BY WaitAssumption DEF File, Files
  <2>2. disk \in [Versions -> Files]
    BY <2>1
  <2>3. /\ lease4 \in [Searchers -> Leases] /\ lease6 \in [Searchers -> Leases]
        /\ shut4 \in BOOLEAN /\ shut6 \in BOOLEAN
    BY DEF Leases
  <2>4. /\ seen \in [Versions -> Files \cup {NoFile}]
        /\ opened \in [Versions -> [Searchers -> Files \cup {NoFile}]]
    OBVIOUS
  <2>5. pc \in [Users -> {AtRest} \cup (Places \X Versions)]
    OBVIOUS
  <2>6. timer \in 0..Wait
    BY WaitAssumption
  <2>q. QED BY <2>2, <2>3, <2>4, <2>5, <2>6 DEF TypeOK, Phases
<1>2. Untouched(4) /\ Untouched(6)
  BY DEF Untouched, Lease
<1>3. Quiet /\ Construction /\ FailedNewLeavesOnlyV4
  BY <1>2 DEF Quiet, Construction, FailedNewLeavesOnlyV4
<1>4. Cached
  BY <1>2 DEF Cached, Configured, Untouched
<1>5. Loans
  <2> SUFFICES ASSUME NEW u \in Users, NEW v \in Versions PROVE LoanOf(u, v)
    BY DEF Loans
  <2>1. pc[u] = AtRest
    OBVIOUS
  <2>2. HeldBy(u, v) = {}
    BY Tags DEF HeldBy, Lease
  <2>q. QED BY <2>1, <2>2 DEF LoanOf, At, AtRest, Holding
<1>6. Closed
  BY DEF Closed, ClosedOf, Past, IsShut
<1>7. AnswersSound
  BY DEF AnswersSound
<1>q. QED BY <1>1, <1>3, <1>4, <1>5, <1>6, <1>7 DEF Inv

\* Every reachable state satisfies the inductive invariant.
THEOREM Invariance == Spec => []Inv
<1>1. Inv /\ [Next]_vars => Inv'
  BY TypeStep, QuietStep, ConstructionStep, FailedStep, CachedStep, LoansStep,
     ClosedStep, AnswersStep DEF Inv
<1>q. QED BY InitInv, <1>1, PTL DEF Spec

\* Every variable of the service keeps its type.
THEOREM ServiceTypeOK == Spec => []TypeOK
<1>1. Inv => TypeOK
  BY DEF Inv
<1>q. QED BY <1>1, Invariance, PTL

\* However files are moved and goroutines interleave, an answer comes from the
\* file its configuration was read from, but for a file moved in between the
\* configuration and the pool.
THEOREM ServiceOneFilePerAnswer == Spec => []OneFilePerAnswer
<1>1. Inv => OneFilePerAnswer
  BY DEF Inv, AnswersSound, Sound, OneFilePerAnswer, Answers
<1>q. QED BY <1>1, Invariance, PTL

\* An address is answered from a file of its own version, whatever the
\* configurations, with the same exception.
THEOREM ServiceAnswerOfItsVersion == Spec => []AnswerOfItsVersion
<1>1. Inv => AnswerOfItsVersion
  BY DEF Inv, AnswersSound, Sound, AnswerOfItsVersion, Answers
<1>q. QED BY <1>1, Invariance, PTL

\* A construction that fails leaves nothing open, except a complete v4 pool
\* when the v6 pool fails.
THEOREM ServiceFailedNewLeavesOnlyV4 == Spec => []FailedNewLeavesOnlyV4
<1>1. Inv => FailedNewLeavesOnlyV4
  BY DEF Inv
<1>q. QED BY <1>1, Invariance, PTL

\* After CloseTimeout a pool whose close did not give up has no searcher at
\* home, nor one on its way there.
THEOREM ServiceClosedLeavesNothing == Spec => []ClosedLeavesNothing
<1>1. Inv => ClosedLeavesNothing
  BY DEF Inv, Closed, ClosedOf, Past, ClosedLeavesNothing, IdleIn
<1>q. QED BY <1>1, Invariance, PTL

\* From its borrow to its return a goroutine has exactly one searcher, of the
\* pool it searches, and at no other time any: no search runs out of its
\* searcher because of a close or another search, and none keeps it.
THEOREM ServiceLoans == Spec => []Loans
<1>1. Inv => Loans
  BY DEF Inv
<1>q. QED BY <1>1, Invariance, PTL

\* Every step of the service is a step of each pool or leaves it alone: what
\* SearcherPool is proved to implement is all the service asks of it.
THEOREM ServiceUsesLeases == Spec => Pool4!Spec /\ Pool6!Spec
<1>1. Init => Pool4!Init /\ Pool6!Init
  BY DEF Init
<1>2. [Next]_vars => [Pool4!Next]_(Pool4!leaseVars) /\ [Pool6!Next]_(Pool6!leaseVars)
  <2> DEFINE Goal == /\ [Pool4!Next]_(Pool4!leaseVars)
                     /\ [Pool6!Next]_(Pool6!leaseVars)
  <2> SUFFICES ASSUME [Next]_vars PROVE Goal
    OBVIOUS
  <2>same. ASSUME UNCHANGED poolVars PROVE Goal
    BY <2>same DEF poolVars, Pool4!leaseVars, Pool6!leaseVars
  <2>lend. ASSUME NEW v \in Versions, NEW s \in Searchers, NEW u \in Users,
                  Lend(v, s, u) \/ GiveBack(v, s, u)
           PROVE  Goal
    BY <2>lend DEF Lend, GiveBack, Pool4!Next, Pool6!Next,
                   Pool4!leaseVars, Pool6!leaseVars
  <2>one. ASSUME NEW v \in Versions, NEW s \in Searchers,
                 Admit(v, s) \/ Retire(v, s)
          PROVE  Goal
    BY <2>one DEF Admit, Retire, Pool4!Next, Pool6!Next,
                  Pool4!leaseVars, Pool6!leaseVars
  <2>shut. ASSUME NEW v \in Versions, Shut(v) PROVE Goal
    BY <2>shut
       DEF Shut, Pool4!Next, Pool6!Next, Pool4!leaseVars, Pool6!leaseVars
  <2> HIDE DEF Goal
  <2>1. ASSUME Build PROVE Goal
    BY <2>1, <2>same, <2>one
       DEF Build, NewConfig, NoConfig, ConfigFails, OpenSearcher, PoolDone,
           OpenFails, Undo, IdleIn
  <2>2. ASSUME NEW u \in Users, NEW v \in Versions,
               Dispatch(u, v) \/ UserStep(u, v)
        PROVE  Goal
    BY <2>2, <2>same, <2>lend, <2>one
       DEF Dispatch, UserStep, Borrow, BorrowNil, Search, ReturnAct, Finish, HeldBy
  <2>3. ASSUME CloseBegin \/ CloseStep \/ Tick PROVE Goal
    BY <2>3, <2>same, <2>one, <2>shut
       DEF CloseBegin, CloseStep, CloseDone, CloseTimedOut, Drain, Tick
  <2>4. ASSUME NEW v \in Versions, Replace(v) PROVE Goal
    BY <2>4, <2>same DEF Replace
  <2>5. ASSUME UNCHANGED vars PROVE Goal
    BY <2>5, <2>same DEF vars
  <2>6. Goal
    BY <2>1, <2>2, <2>3, <2>4, <2>5 DEF Next
  <2>q. QED BY <2>6
<1>q. QED BY <1>1, <1>2, PTL DEF Spec, Pool4!Spec, Pool6!Spec
=============================================================================
