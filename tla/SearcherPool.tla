---------------------------- MODULE SearcherPool ----------------------------
(***************************************************************************)
(* The Go searcher pool (binding/golang/service/searcher_pool.go): a       *)
(* buffered channel of open xdb searchers, an atomic count of the loaned   *)
(* ones, and a channel that is closed when the pool closes.  One action is *)
(* one step another goroutine can interleave with: a select, a channel     *)
(* operation, an atomic operation, the close of a file handle.             *)
(*                                                                         *)
(* Definitions named ...Fault are plausible bugs of the action below them. *)
(* No specification uses them: they show that a property can fail.         *)
(***************************************************************************)
EXTENDS Integers, Sequences, FiniteSets, SequencesExt

CONSTANTS
    Searchers,   \* the config.searchers searchers the pool creates
    Users,       \* the goroutines that call Ip2Region.Search
    Nobody       \* "no searcher": a nil *xdb.Searcher

ASSUME SearchersAssumption == IsFiniteSet(Searchers) /\ Searchers # {}
ASSUME UsersAssumption == IsFiniteSet(Users)
ASSUME NobodyAssumption == Nobody \notin Searchers

VARIABLES
    pool,        \* SearcherPool.pool: the buffered channel, oldest first
    closing,     \* SearcherPool.closing has been closed
    loanCount,   \* SearcherPool.loanCount
    handle,      \* the file handle of each searcher
    phase,       \* NewSearcherPool: building, then ready or failed
    pc,          \* where each user is inside one Search call
    held,        \* the searcher each user has in its hands
    cpc,         \* where the goroutine that runs CloseTimeout is
    lc,          \* its local variable lc
    drained,     \* its local variable s
    timer        \* the timer it waits on: idle, running or fired

userVars == <<pc, held>>
closerVars == <<cpc, lc, drained, timer>>
vars == <<pool, closing, loanCount, handle, phase, pc, held,
          cpc, lc, drained, timer>>

CapacityFault == Cardinality(Searchers) - 1

\* make(chan *xdb.Searcher, config.searchers+1)
Capacity == Cardinality(Searchers) + 1

InPool == ToSet(pool)

Init ==
    /\ pool = <<>>
    /\ closing = FALSE
    /\ loanCount = 0
    /\ handle = [s \in Searchers |-> "none"]
    /\ phase = "building"
    /\ pc = [u \in Users |-> "idle"]
    /\ held = [u \in Users |-> Nobody]
    /\ cpc = "idle"
    /\ lc = 0
    /\ drained = Nobody
    /\ timer = "idle"

-----------------------------------------------------------------------------
(* NewSearcherPool: one open file per searcher; if an open fails the       *)
(* deferred function closes the half-built pool.                           *)

Unbuilt == {s \in Searchers : handle[s] = "none"}

CreateSearcher(s) ==
    /\ phase = "building"
    /\ s \in Unbuilt
    /\ Len(pool) < Capacity
    /\ handle' = [handle EXCEPT ![s] = "open"]
    /\ pool' = Append(pool, s)
    /\ UNCHANGED <<closing, loanCount, phase, userVars, closerVars>>

CreateDone ==
    /\ phase = "building"
    /\ Unbuilt = {}
    /\ phase' = "ready"
    /\ UNCHANGED <<pool, closing, loanCount, handle, userVars, closerVars>>

CreateFails ==
    /\ phase = "building"
    /\ Unbuilt # {}
    /\ phase' = "failed"
    /\ UNCHANGED <<pool, closing, loanCount, handle, userVars, closerVars>>

-----------------------------------------------------------------------------
(* A user: Search borrows, reads the xdb, and returns (v4Search, v6Search) *)

StartSearch(u) ==
    /\ phase = "ready"
    /\ pc[u] = "idle"
    /\ pc' = [pc EXCEPT ![u] = "borrow"]
    /\ UNCHANGED <<pool, closing, loanCount, handle, phase, held, closerVars>>

\* case <-sp.closing: return nil
BorrowNil(u) ==
    /\ pc[u] = "borrow"
    /\ closing
    /\ pc' = [pc EXCEPT ![u] = "idle"]
    /\ UNCHANGED <<pool, closing, loanCount, handle, phase, held, closerVars>>

\* takes a searcher without removing it
BorrowReceivePeekFault(u) ==
    /\ pc[u] = "borrow"
    /\ pool # <<>>
    /\ held' = [held EXCEPT ![u] = Head(pool)]
    /\ pc' = [pc EXCEPT ![u] = "received"]
    /\ UNCHANGED <<pool, closing, loanCount, handle, phase, closerVars>>

\* forgets the increment
BorrowReceiveUncountedFault(u) ==
    /\ pc[u] = "borrow"
    /\ pool # <<>>
    /\ held' = [held EXCEPT ![u] = Head(pool)]
    /\ pool' = Tail(pool)
    /\ pc' = [pc EXCEPT ![u] = "using"]
    /\ UNCHANGED <<closing, loanCount, handle, phase, closerVars>>

\* case s := <-sp.pool, possible whether or not the pool is closing
BorrowReceive(u) ==
    /\ pc[u] = "borrow"
    /\ pool # <<>>
    /\ held' = [held EXCEPT ![u] = Head(pool)]
    /\ pool' = Tail(pool)
    /\ pc' = [pc EXCEPT ![u] = "received"]
    /\ UNCHANGED <<closing, loanCount, handle, phase, closerVars>>

\* atomic.AddInt32(&sp.loanCount, 1), a step after the receive
BorrowCount(u) ==
    /\ pc[u] = "received"
    /\ loanCount' = loanCount + 1
    /\ pc' = [pc EXCEPT ![u] = "using"]
    /\ UNCHANGED <<pool, closing, handle, phase, held, closerVars>>

\* always puts the searcher back
ReturnSelectFault(u) ==
    /\ pc[u] = "using"
    /\ pc' = [pc EXCEPT ![u] = "push"]
    /\ UNCHANGED <<pool, closing, loanCount, handle, phase, held, closerVars>>

\* the search is over; the select of ReturnSearcher looks at closing once
ReturnSelect(u) ==
    /\ pc[u] = "using"
    /\ pc' = [pc EXCEPT ![u] = IF closing THEN "closeIt" ELSE "push"]
    /\ UNCHANGED <<pool, closing, loanCount, handle, phase, held, closerVars>>

\* drops the searcher without closing it
ReturnCloseDropFault(u) ==
    /\ pc[u] = "closeIt"
    /\ held' = [held EXCEPT ![u] = Nobody]
    /\ pc' = [pc EXCEPT ![u] = "settle"]
    /\ UNCHANGED <<pool, closing, loanCount, handle, phase, closerVars>>

\* returns before the decrement
ReturnCloseUncountedFault(u) ==
    /\ pc[u] = "closeIt"
    /\ handle' = [handle EXCEPT ![held[u]] = "closed"]
    /\ held' = [held EXCEPT ![u] = Nobody]
    /\ pc' = [pc EXCEPT ![u] = "idle"]
    /\ UNCHANGED <<pool, closing, loanCount, phase, closerVars>>

\* case <-sp.closing: searcher.Close()
ReturnClose(u) ==
    /\ pc[u] = "closeIt"
    /\ handle' = [handle EXCEPT ![held[u]] = "closed"]
    /\ held' = [held EXCEPT ![u] = Nobody]
    /\ pc' = [pc EXCEPT ![u] = "settle"]
    /\ UNCHANGED <<pool, closing, loanCount, phase, closerVars>>

\* default: sp.pool <- searcher, which blocks while the buffer is full
ReturnPush(u) ==
    /\ pc[u] = "push"
    /\ Len(pool) < Capacity
    /\ pool' = Append(pool, held[u])
    /\ held' = [held EXCEPT ![u] = Nobody]
    /\ pc' = [pc EXCEPT ![u] = "settle"]
    /\ UNCHANGED <<closing, loanCount, handle, phase, closerVars>>

\* atomic.AddInt32(&sp.loanCount, -1), the last step of both branches
ReturnCount(u) ==
    /\ pc[u] = "settle"
    /\ loanCount' = loanCount - 1
    /\ pc' = [pc EXCEPT ![u] = "idle"]
    /\ UNCHANGED <<pool, closing, handle, phase, held, closerVars>>

BorrowSearcher(u) == BorrowNil(u) \/ BorrowReceive(u) \/ BorrowCount(u)

ReturnSearcher(u) ==
    ReturnSelect(u) \/ ReturnClose(u) \/ ReturnPush(u) \/ ReturnCount(u)

UserStep(u) == BorrowSearcher(u) \/ ReturnSearcher(u)

-----------------------------------------------------------------------------
(* CloseTimeout, run by the owner of the service, or by NewSearcherPool    *)
(* itself when it fails.  It is called once: a second call would close the *)
(* closed channel and panic.                                               *)

\* starts the timer but forgets close(sp.closing)
CloseStartFault ==
    /\ phase \in {"ready", "failed"}
    /\ cpc = "idle"
    /\ timer' = "running"
    /\ cpc' = "count"
    /\ UNCHANGED <<pool, closing, loanCount, handle, phase, userVars,
                   lc, drained>>

CloseStart ==
    /\ phase \in {"ready", "failed"}
    /\ cpc = "idle"
    /\ closing' = TRUE
    /\ timer' = "running"
    /\ cpc' = "count"
    /\ UNCHANGED <<pool, loanCount, handle, phase, userVars, lc, drained>>

\* lc, left := sp.LoanCount(), ...
CloseReadCount ==
    /\ cpc = "count"
    /\ lc' = loanCount
    /\ cpc' = "left"
    /\ UNCHANGED <<pool, closing, loanCount, handle, phase, userVars,
                   drained, timer>>

\* leaves the loop as soon as nothing is loaned
CloseReadLeftLoanFault ==
    /\ cpc = "left"
    /\ cpc' = IF lc = 0 THEN "finished" ELSE "select"
    /\ UNCHANGED <<pool, closing, loanCount, handle, phase, userVars,
                   lc, drained, timer>>

\* leaves the loop as soon as the channel is empty
CloseReadLeftPoolFault ==
    /\ cpc = "left"
    /\ cpc' = IF pool = <<>> THEN "finished" ELSE "select"
    /\ UNCHANGED <<pool, closing, loanCount, handle, phase, userVars,
                   lc, drained, timer>>

\* ..., len(sp.pool), read after the count; leave the loop if both are 0
CloseReadLeft ==
    /\ cpc = "left"
    /\ cpc' = IF lc = 0 /\ pool = <<>> THEN "finished" ELSE "select"
    /\ UNCHANGED <<pool, closing, loanCount, handle, phase, userVars,
                   lc, drained, timer>>

\* case s := <-sp.pool
CloseReceive ==
    /\ cpc = "select"
    /\ pool # <<>>
    /\ drained' = Head(pool)
    /\ pool' = Tail(pool)
    /\ cpc' = "close"
    /\ UNCHANGED <<closing, loanCount, handle, phase, userVars, lc, timer>>

\* s.Close(), and round the loop
CloseSearcher ==
    /\ cpc = "close"
    /\ handle' = [handle EXCEPT ![drained] = "closed"]
    /\ drained' = Nobody
    /\ cpc' = "count"
    /\ UNCHANGED <<pool, closing, loanCount, phase, userVars, lc, timer>>

\* case <-timer.C: return
CloseTimedOut ==
    /\ cpc = "select"
    /\ timer = "fired"
    /\ cpc' = "timedOut"
    /\ UNCHANGED <<pool, closing, loanCount, handle, phase, userVars,
                   lc, drained, timer>>

\* the duration passes, wherever the closer is; external to the code
TimerFires ==
    /\ timer = "running"
    /\ timer' = "fired"
    /\ UNCHANGED <<pool, closing, loanCount, handle, phase, userVars,
                   cpc, lc, drained>>

CloseStep ==
    \/ CloseReadCount \/ CloseReadLeft
    \/ CloseReceive \/ CloseSearcher \/ CloseTimedOut

CreateStep == (\E s \in Searchers : CreateSearcher(s)) \/ CreateDone

Next ==
    \/ CreateStep
    \/ CreateFails
    \/ \E u \in Users : StartSearch(u) \/ UserStep(u)
    \/ CloseStart
    \/ CloseStep
    \/ TimerFires

Spec == Init /\ [][Next]_vars

-----------------------------------------------------------------------------
(* Fairness.  A goroutine that can run does run (the Go scheduler); a      *)
(* search ends; the timer fires; and a goroutine blocked on the channel is *)
(* first in, first out among the waiters (the channel's receive queue),    *)
(* hence strong fairness of BorrowReceive.  Nobody has to search or close. *)

UserFairness ==
    \A u \in Users : WF_vars(UserStep(u)) /\ SF_vars(BorrowReceive(u))

\* the closer runs, but the duration may be as long as it likes
PatientSpec == Spec /\ UserFairness /\ WF_vars(CloseStep)

FairSpec == PatientSpec /\ WF_vars(TimerFires)

-----------------------------------------------------------------------------
UserPCs == {"idle", "borrow", "received", "using", "closeIt", "push", "settle"}
CloserPCs ==
    {"idle", "count", "left", "select", "close", "finished", "timedOut"}
HoldingPCs == {"received", "using", "closeIt", "push"}
CountedPCs == {"using", "closeIt", "push", "settle"}

Holders == {u \in Users : pc[u] \in HoldingPCs}
Counted == {u \in Users : pc[u] \in CountedPCs}
Open == {s \in Searchers : handle[s] = "open"}

TypeOK ==
    /\ pool \in Seq(Searchers)
    /\ closing \in BOOLEAN
    /\ loanCount \in Nat
    /\ handle \in [Searchers -> {"none", "open", "closed"}]
    /\ phase \in {"building", "ready", "failed"}
    /\ pc \in [Users -> UserPCs]
    /\ held \in [Users -> Searchers \cup {Nobody}]
    /\ cpc \in CloserPCs
    /\ lc \in Nat
    /\ drained \in Searchers \cup {Nobody}
    /\ timer \in {"idle", "running", "fired"}

\* Each searcher is in one place: a slot of the channel, the hands of one
\* user, or the hands of the closer; so two searches never share a file
\* offset (xdb.Searcher seeks and reads), and no handle is closed twice.
SingleOwner ==
    /\ IsInjective(pool)
    /\ \A u, v \in Holders : held[u] = held[v] => u = v
    /\ \A u \in Holders : held[u] \notin InPool \cup {Nobody}
    /\ cpc = "close" =>
          /\ drained \notin InPool \cup {Nobody}
          /\ \A u \in Holders : held[u] # drained

Owned ==
    InPool \cup {held[u] : u \in Holders}
           \cup (IF cpc = "close" THEN {drained} ELSE {})

\* The open file handles are exactly those of the searchers some party
\* still has: none is used after its close, and none is lost while open.
OpenIffOwned == Open = Owned

\* A searcher has one owner at a time, from its open to its close, and the
\* pool with its users has every open handle, in any interleaving of borrow,
\* return and close.
Ownership == SingleOwner /\ OpenIffOwned

\* LoanCount counts the users between the two atomic operations of their
\* Search call, in every interleaving: CloseTimeout relies on it.
LoanCountExact == loanCount = Cardinality(Counted)

\* sp.pool <- searcher never blocks a returning user: the buffer always has
\* a slot for the searcher it holds, even while new users borrow.
PushNeverBlocks ==
    /\ phase = "building" /\ Unbuilt # {} => Len(pool) < Capacity
    /\ \A u \in Users : pc[u] = "push" => Len(pool) < Capacity

\* When CloseTimeout leaves its loop (not by the timer) the channel is empty
\* and nobody is about to push to it: every open handle is in the hands of a
\* user whose ReturnSearcher will take the closing branch.  The loop may be
\* left while such a user still holds one: it has received the searcher but
\* not counted it yet, or borrowed it between the reads of the two counters.
FinishedLeavesNothing ==
    cpc = "finished" =>
        /\ pool = <<>>
        /\ \A u \in Users : pc[u] # "push"
        /\ Open \subseteq {held[u] : u \in Holders}

\* If NewSearcherPool fails, its deferred Close closes what it opened.
FailedBuildClosesAll ==
    phase = "failed" /\ cpc = "finished" => Open = {}

\* A close that ended by its own test forgot no handle, be it the close of
\* the service or the deferred one of a construction that failed.
Drained == FinishedLeavesNothing /\ FailedBuildClosesAll

\* A blocked BorrowSearcher is always answered: with a searcher, or with nil
\* once the pool closes; no borrower waits forever on a drained channel.
BorrowAnswered == \A u \in Users : pc[u] = "borrow" ~> pc[u] # "borrow"

\* After CloseTimeout left its loop the last handles are closed by the users
\* that still hold them.
FinishedThenAllClosed == cpc = "finished" ~> Open = {}

-----------------------------------------------------------------------------
(* The pool implements the promise of SearcherLeases.  A searcher the      *)
(* closer has received but not yet closed still counts as idle.            *)

LeaseOf(s) ==
    CASE handle[s] = "none" -> <<"absent">>
      [] handle[s] = "closed" -> <<"retired">>
      [] \E u \in Holders : held[u] = s ->
             <<"lent", CHOOSE u \in Holders : held[u] = s>>
      [] OTHER -> <<"idle">>

Leases == INSTANCE SearcherLeases
             WITH lease <- [s \in Searchers |-> LeaseOf(s)],
                  shut <- (cpc = "finished")

ImplementsLeases == Leases!Spec

-----------------------------------------------------------------------------
(* What the README says and the code does not do.                          *)

\* README.md of the binding: Close "will wait up to 10 seconds by default
\* for searchers to be returned"; when all are back and closed it returns.
CloseEndsOnceAllClosed ==
    cpc \in {"count", "left", "select"} /\ Open = {}
        ~> cpc \in {"finished", "timedOut"}
=============================================================================
