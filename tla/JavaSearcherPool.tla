-------------------------- MODULE JavaSearcherPool --------------------------
(***************************************************************************)
(* The Java searcher pool (binding/java, service/SearcherPool.java): a     *)
(* queue of open searchers and a count of the loaned ones, guarded by one  *)
(* ReentrantLock with a condition for borrowers.  A critical section is    *)
(* one action, except the loop of close, which holds the lock throughout.  *)
(*                                                                         *)
(* Definitions named ...Fault are plausible bugs of the action below them. *)
(***************************************************************************)
EXTENDS Integers, Sequences, FiniteSets, SequencesExt

CONSTANTS
    Searchers,   \* the config.searchers searchers the pool creates
    Users,       \* the threads that call Ip2Region.search
    Nobody       \* "no searcher"

ASSUME SearchersAssumption == IsFiniteSet(Searchers) /\ Searchers # {}
ASSUME UsersAssumption == IsFiniteSet(Users)
ASSUME NobodyAssumption == Nobody \notin Searchers

VARIABLES
    pool,        \* SearcherPool.pool, oldest first
    loanCount,   \* SearcherPool.loanCount
    handle,      \* the file handle of each searcher
    phase,       \* create: building, then ready or failed
    pc,          \* where each user is inside one search call
    held,        \* the searcher each user has in its hands
    parked,      \* the users that await emptyCondition, oldest first
    cpc          \* the last close call: none, draining, closed or threw

vars == <<pool, loanCount, handle, phase, pc, held, parked, cpc>>

Init ==
    /\ pool = <<>>
    /\ loanCount = 0
    /\ handle = [s \in Searchers |-> "none"]
    /\ phase = "building"
    /\ pc = [u \in Users |-> "idle"]
    /\ held = [u \in Users |-> Nobody]
    /\ parked = <<>>
    /\ cpc = "none"

-----------------------------------------------------------------------------
(* create: the constructor and init.  An IOException leaves the searchers  *)
(* opened so far to the garbage collector: nobody closes them.             *)

CreateSearcher(s) ==
    /\ phase = "building"
    /\ handle[s] = "none"
    /\ handle' = [handle EXCEPT ![s] = "open"]
    /\ pool' = Append(pool, s)
    /\ UNCHANGED <<loanCount, phase, pc, held, parked, cpc>>

CreateDone ==
    /\ phase = "building"
    /\ \A s \in Searchers : handle[s] # "none"
    /\ phase' = "ready"
    /\ UNCHANGED <<pool, loanCount, handle, pc, held, parked, cpc>>

CreateFails ==
    /\ phase = "building"
    /\ \E s \in Searchers : handle[s] = "none"
    /\ phase' = "failed"
    /\ UNCHANGED <<pool, loanCount, handle, pc, held, parked, cpc>>

-----------------------------------------------------------------------------
(* A user: v4Search and v6Search of Ip2Region.java *)

\* close holds the lock from its first to its last step
LockFree == cpc # "draining"

\* calls borrowSearcher and stands before lock.lock()
StartSearch(u) ==
    /\ phase = "ready"
    /\ pc[u] = "idle"
    /\ pc' = [pc EXCEPT ![u] = "borrow"]
    /\ UNCHANGED <<pool, loanCount, handle, phase, held, parked, cpc>>

\* forgets the count
BorrowTakeFault(u) ==
    /\ pc[u] \in {"borrow", "woken"}
    /\ LockFree
    /\ pool # <<>>
    /\ held' = [held EXCEPT ![u] = Head(pool)]
    /\ pool' = Tail(pool)
    /\ pc' = [pc EXCEPT ![u] = "using"]
    /\ UNCHANGED <<loanCount, handle, phase, parked, cpc>>

\* pool is not empty; a barging borrower and a signalled one are equal
BorrowTake(u) ==
    /\ pc[u] \in {"borrow", "woken"}
    /\ LockFree
    /\ pool # <<>>
    /\ loanCount' = loanCount + 1
    /\ held' = [held EXCEPT ![u] = Head(pool)]
    /\ pool' = Tail(pool)
    /\ pc' = [pc EXCEPT ![u] = "using"]
    /\ UNCHANGED <<handle, phase, parked, cpc>>

\* an if where the code has a while: a woken user goes on and polls null
BorrowParkFault(u) ==
    /\ LockFree
    /\ pool = <<>>
    /\ \/ /\ pc[u] = "borrow"
          /\ parked' = Append(parked, u)
          /\ pc' = [pc EXCEPT ![u] = "parked"]
          /\ UNCHANGED <<loanCount, held>>
       \/ /\ pc[u] = "woken"
          /\ loanCount' = loanCount + 1
          /\ pc' = [pc EXCEPT ![u] = "using"]
          /\ UNCHANGED <<held, parked>>
    /\ UNCHANGED <<pool, handle, phase, cpc>>

\* while (pool.isEmpty()) emptyCondition.await()
BorrowPark(u) ==
    /\ pc[u] \in {"borrow", "woken"}
    /\ LockFree
    /\ pool = <<>>
    /\ parked' = Append(parked, u)
    /\ pc' = [pc EXCEPT ![u] = "parked"]
    /\ UNCHANGED <<pool, loanCount, handle, phase, held, cpc>>

\* Thread.interrupt before a signal: await throws, the call is over.  An
\* interrupt that comes after the signal does not lose it.
Interrupt(u) ==
    /\ pc[u] = "parked"
    /\ LockFree
    /\ \E i \in DOMAIN parked :
          parked[i] = u /\ parked' = RemoveAt(parked, i)
    /\ pc' = [pc EXCEPT ![u] = "idle"]
    /\ UNCHANGED <<pool, loanCount, handle, phase, held, cpc>>

\* the signal is sent only when the queue was empty
ReturnSearcherFault(u) ==
    /\ pc[u] = "using"
    /\ LockFree
    /\ pool' = Append(pool, held[u])
    /\ loanCount' = loanCount - 1
    /\ held' = [held EXCEPT ![u] = Nobody]
    /\ IF parked = <<>> \/ pool # <<>>
         THEN /\ pc' = [pc EXCEPT ![u] = "idle"]
              /\ UNCHANGED parked
         ELSE /\ pc' = [pc EXCEPT ![u] = "idle", ![Head(parked)] = "woken"]
              /\ parked' = Tail(parked)
    /\ UNCHANGED <<handle, phase, cpc>>

\* signal moves the longest waiter; nobody ever waits on fullCondition
ReturnSearcher(u) ==
    /\ pc[u] = "using"
    /\ LockFree
    /\ pool' = Append(pool, held[u])
    /\ loanCount' = loanCount - 1
    /\ held' = [held EXCEPT ![u] = Nobody]
    /\ IF parked = <<>>
         THEN /\ pc' = [pc EXCEPT ![u] = "idle"]
              /\ UNCHANGED parked
         ELSE /\ pc' = [pc EXCEPT ![u] = "idle", ![Head(parked)] = "woken"]
              /\ parked' = Tail(parked)
    /\ UNCHANGED <<handle, phase, cpc>>

-----------------------------------------------------------------------------
(* close, which may be called again *)

\* does not look at loanCount
CloseBeginFault ==
    /\ phase = "ready"
    /\ LockFree
    /\ cpc' = "draining"
    /\ UNCHANGED <<pool, loanCount, handle, phase, pc, held, parked>>

\* With a searcher out, fullCondition.wait is Object.wait on a monitor the
\* thread does not own: IllegalMonitorStateException, and unlock.
CloseBegin ==
    /\ phase = "ready"
    /\ LockFree
    /\ cpc' = CASE loanCount > 0 -> "threw"
                [] loanCount = 0 /\ pool = <<>> -> "closed"
                [] OTHER -> "draining"
    /\ UNCHANGED <<pool, loanCount, handle, phase, pc, held, parked>>

\* one round of the iterator: close (an IOException is dropped) and remove
CloseSearcher ==
    /\ cpc = "draining"
    /\ pool # <<>>
    /\ handle' = [handle EXCEPT ![Head(pool)] = "closed"]
    /\ pool' = Tail(pool)
    /\ UNCHANGED <<loanCount, phase, pc, held, parked, cpc>>

CloseEnd ==
    /\ cpc = "draining"
    /\ pool = <<>>
    /\ cpc' = "closed"
    /\ UNCHANGED <<pool, loanCount, handle, phase, pc, held, parked>>

UserStep(u) == BorrowTake(u) \/ BorrowPark(u) \/ ReturnSearcher(u)

CloseStep == CloseSearcher \/ CloseEnd

Next ==
    \/ \E s \in Searchers : CreateSearcher(s)
    \/ CreateDone \/ CreateFails
    \/ \E u \in Users : StartSearch(u) \/ UserStep(u) \/ Interrupt(u)
    \/ CloseBegin \/ CloseStep

Spec == Init /\ [][Next]_vars

\* A thread that can take the free lock takes it at some time, a search
\* ends, and close does not stop half-way.  ReentrantLock(false) promises no
\* more: a borrower may lose the race for a searcher again and again.
FairSpec ==
    Spec /\ (\A u \in Users : WF_vars(UserStep(u))) /\ WF_vars(CloseStep)

-----------------------------------------------------------------------------
UserPCs == {"idle", "borrow", "parked", "woken", "using"}

InPool == ToSet(pool)
Using == {u \in Users : pc[u] = "using"}
Woken == {u \in Users : pc[u] = "woken"}
Open == {s \in Searchers : handle[s] = "open"}

TypeOK ==
    /\ pool \in Seq(Searchers)
    /\ loanCount \in Nat
    /\ handle \in [Searchers -> {"none", "open", "closed"}]
    /\ phase \in {"building", "ready", "failed"}
    /\ pc \in [Users -> UserPCs]
    /\ held \in [Users -> Searchers \cup {Nobody}]
    /\ parked \in Seq(Users)
    /\ cpc \in {"none", "draining", "closed", "threw"}

\* Each open searcher is in the queue or in the hands of one user, never
\* both, and what a user has in its hands is open: no shared file offset, no
\* search on a closed handle, no poll of an empty queue.
OneHolder ==
    /\ IsInjective(pool)
    /\ \A u, v \in Using : held[u] = held[v] => u = v
    /\ \A u \in Using : held[u] \in Searchers \ InPool
    /\ Open = InPool \cup {held[u] : u \in Using}

\* No wakeup is lost to a barging borrower, an interrupt or a signal with
\* nobody there: while users are parked, each idle searcher has a signalled
\* user on its way to it.
NoLostWakeup == parked # <<>> => Len(pool) <= Cardinality(Woken)

\* A close that completed found everything at home: nothing is open, nothing
\* is lent, and no later call lends anything.
ClosedForGood == cpc = "closed" => Open = {} /\ Using = {}

\* Idle searchers and parked users do not stay side by side.
IdleMeetsParked ==
    pool # <<>> /\ parked # <<>> ~> pool = <<>> \/ parked = <<>>

\* The pool keeps the promise of SearcherLeases, as the Go pool does.
LeaseOf(s) ==
    CASE handle[s] = "none" -> <<"absent">>
      [] handle[s] = "closed" -> <<"retired">>
      [] \E u \in Using : held[u] = s ->
             <<"lent", CHOOSE u \in Using : held[u] = s>>
      [] OTHER -> <<"idle">>

Leases == INSTANCE SearcherLeases
             WITH lease <- [s \in Searchers |-> LeaseOf(s)],
                  shut <- (cpc = "closed")

ImplementsLeases == Leases!Spec

\* README.md of the binding: close waits up to its limit "to allow as many
\* searchers as possible to be returned"; a call that ends has closed at
\* least what was at home.
CloseLeavesNoneIdle == cpc = "threw" => InPool \cap Open = {}
=============================================================================
