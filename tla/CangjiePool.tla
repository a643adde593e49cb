---------------------------- MODULE CangjiePool ----------------------------
(***************************************************************************)
(* The Cangjie searcher pool (binding/cangjie/src/service/searcher_pool.cj *)
(* and its users, ip2region.cj): a concurrent queue of open searchers, a   *)
(* semaphore with a permit for each of them, an atomic count of the loaned *)
(* ones and an atomic flag.  One action is one operation on one of these;  *)
(* nothing is locked across two.  A user that finds no permit polls.       *)
(*                                                                         *)
(* Definitions named ...Fault are plausible bugs of the action below them. *)
(***************************************************************************)
EXTENDS Integers, SequencesExt

CONSTANTS
    Searchers,   \* the config.searchers searchers the constructor opens
    Users,       \* the threads that call Ip2Region.search
    Nobody       \* no searcher

ASSUME CangjieAssumption ==
    IsFiniteSet(Searchers) /\ IsFiniteSet(Users) /\ Nobody \notin Searchers

VARIABLES
    queue,       \* SearcherPool.queue, oldest first
    permits,     \* the counter of SearcherPool.semaphore
    limit,       \* the value that counter never exceeds
    closing, loanCnt,
    handle,      \* the file handle of each searcher
    phase,       \* the constructor: building, then ready or failed
    pc, held,    \* each user inside one search call, and its searcher
    cpc, drained,\* the thread in closeTimeout, and the searcher it took
    late         \* its deadline has passed

poolVars == <<queue, permits, limit, closing, loanCnt, handle, phase>>
closerVars == <<cpc, drained, late>>
vars == <<poolVars, pc, held, closerVars>>

N == Cardinality(Searchers)

\* Semaphore(N) starts with N permits.  Whether release lifts it above N is
\* the library's affair: both are possible here.
Init ==
    /\ queue = <<>> /\ permits = N /\ limit \in {N, 2 * N}
    /\ closing = FALSE /\ loanCnt = 0
    /\ handle = [s \in Searchers |-> "none"]
    /\ phase = "building"
    /\ pc = [u \in Users |-> "idle"] /\ held = [u \in Users |-> Nobody]
    /\ cpc = "idle" /\ drained = Nobody /\ late = FALSE

Release == permits' = Min({permits + 1, limit})

-----------------------------------------------------------------------------
(* The constructor: nobody else has the pool yet.  The exception of an     *)
(* open leaves the earlier ones to nobody.                                 *)

Unopened == {s \in Searchers : handle[s] = "none"}

CreateSearcher(s) ==
    /\ phase = "building" /\ s \in Unopened
    /\ handle' = [handle EXCEPT ![s] = "open"]
    /\ queue' = Append(queue, s)
    /\ Release
    /\ UNCHANGED <<limit, closing, loanCnt, phase, pc, held, closerVars>>

CreateEnds ==
    /\ phase = "building"
    /\ phase' \in {IF Unopened = {} THEN "ready" ELSE "failed"}
    /\ UNCHANGED <<queue, permits, limit, closing, loanCnt, handle,
                   pc, held, closerVars>>

-----------------------------------------------------------------------------
(* borrow *)

Goto(u, from, to) == pc[u] = from /\ pc' = [pc EXCEPT ![u] = to]

StartSearch(u) ==
    /\ phase = "ready"
    /\ Goto(u, "idle", "poll")
    /\ UNCHANGED <<poolVars, held, closerVars>>

\* the loop's test; search answers the exception with "Invalid IP"
BorrowTest(u) ==
    /\ Goto(u, "poll", IF closing THEN "idle" ELSE "acquire")
    /\ UNCHANGED <<poolVars, held, closerVars>>

\* tryAcquire; without a permit the thread sleeps and tests again
BorrowAcquire(u) ==
    /\ Goto(u, "acquire", IF permits > 0 THEN "remove" ELSE "poll")
    /\ permits' = IF permits > 0 THEN permits - 1 ELSE permits
    /\ UNCHANGED <<queue, limit, closing, loanCnt, handle, phase,
                   held, closerVars>>

\* takes a searcher without removing it
BorrowRemoveFault(u) ==
    /\ Goto(u, "remove", "taken")
    /\ queue # <<>>
    /\ held' = [held EXCEPT ![u] = Head(queue)]
    /\ UNCHANGED <<poolVars, closerVars>>

BorrowRemove(u) ==
    /\ Goto(u, "remove", "taken")
    /\ queue # <<>>
    /\ held' = [held EXCEPT ![u] = Head(queue)]
    /\ queue' = Tail(queue)
    /\ UNCHANGED <<permits, limit, closing, loanCnt, handle, phase,
                   closerVars>>

BorrowNone(u) ==
    /\ Goto(u, "remove", "none")
    /\ queue = <<>>
    /\ UNCHANGED <<poolVars, held, closerVars>>

\* gives the permit back and tries again
BorrowRelease(u) ==
    /\ Goto(u, "none", "poll")
    /\ Release
    /\ UNCHANGED <<queue, limit, closing, loanCnt, handle, phase,
                   held, closerVars>>

\* forgets the increment
BorrowCountFault(u) ==
    /\ Goto(u, "taken", "using")
    /\ UNCHANGED <<poolVars, held, closerVars>>

BorrowCount(u) ==
    /\ Goto(u, "taken", "using")
    /\ loanCnt' = loanCnt + 1
    /\ UNCHANGED <<queue, permits, limit, closing, handle, phase,
                   held, closerVars>>

-----------------------------------------------------------------------------
(* The search, and return_ *)

\* nothing returns the searcher of a search that throws
SearchThrows(u) ==
    /\ Goto(u, "using", "idle")
    /\ held' = [held EXCEPT ![u] = Nobody]
    /\ UNCHANGED <<poolVars, closerVars>>

ReturnTest(u) ==
    /\ Goto(u, "using", IF closing THEN "close" ELSE "add")
    /\ UNCHANGED <<poolVars, held, closerVars>>

ReturnClose(u) ==
    /\ Goto(u, "close", "count")
    /\ handle' = [handle EXCEPT ![held[u]] = "closed"]
    /\ held' = [held EXCEPT ![u] = Nobody]
    /\ UNCHANGED <<queue, permits, limit, closing, loanCnt, phase,
                   closerVars>>

\* nor is the loan of a close that throws uncounted
ReturnCloseThrows(u) ==
    /\ Goto(u, "close", "idle")
    /\ handle' = [handle EXCEPT ![held[u]] = "unreturned"]
    /\ held' = [held EXCEPT ![u] = Nobody]
    /\ UNCHANGED <<queue, permits, limit, closing, loanCnt, phase,
                   closerVars>>

ReturnAdd(u) ==
    /\ Goto(u, "add", "release")
    /\ queue' = Append(queue, held[u])
    /\ held' = [held EXCEPT ![u] = Nobody]
    /\ UNCHANGED <<permits, limit, closing, loanCnt, handle, phase,
                   closerVars>>

ReturnRelease(u) ==
    /\ Goto(u, "release", "count")
    /\ Release
    /\ UNCHANGED <<queue, limit, closing, loanCnt, handle, phase,
                   held, closerVars>>

ReturnCount(u) ==
    /\ Goto(u, "count", "idle")
    /\ loanCnt' = loanCnt - 1
    /\ UNCHANGED <<queue, permits, limit, closing, handle, phase,
                   held, closerVars>>

-----------------------------------------------------------------------------
(* closeTimeout, which may be called again once it has returned *)

CloseStart ==
    /\ phase = "ready" /\ cpc \in {"idle", "finished", "timedOut"}
    /\ closing' = TRUE
    /\ cpc' = "drain" /\ late' = FALSE
    /\ UNCHANGED <<queue, permits, limit, loanCnt, handle, phase,
                   pc, held, drained>>

\* tryAcquire, until there is no permit
DrainAcquire ==
    /\ cpc = "drain"
    /\ IF permits > 0 THEN permits' = permits - 1 /\ cpc' = "take"
                      ELSE UNCHANGED permits /\ cpc' = "wait"
    /\ UNCHANGED <<queue, limit, closing, loanCnt, handle, phase,
                   pc, held, drained, late>>

DrainTake ==
    /\ cpc = "take"
    /\ IF queue = <<>>
         THEN cpc' = "drain" /\ UNCHANGED <<queue, drained>>
         ELSE /\ cpc' = "close"
              /\ drained' = Head(queue) /\ queue' = Tail(queue)
    /\ UNCHANGED <<permits, limit, closing, loanCnt, handle, phase,
                   pc, held, late>>

\* the drain stops after one searcher
DrainCloseFault ==
    /\ cpc = "close" /\ cpc' = "wait"
    /\ handle' = [handle EXCEPT ![drained] = "closed"]
    /\ drained' = Nobody
    /\ UNCHANGED <<queue, permits, limit, closing, loanCnt, phase,
                   pc, held, late>>

DrainClose ==
    /\ cpc = "close" /\ cpc' = "drain"
    /\ handle' = [handle EXCEPT ![drained] = "closed"]
    /\ drained' = Nobody
    /\ UNCHANGED <<queue, permits, limit, closing, loanCnt, phase,
                   pc, held, late>>

\* the close throws: catch (_) breaks the loop
DrainThrows ==
    /\ cpc = "close" /\ cpc' = "cut"
    /\ handle' = [handle EXCEPT ![drained] = "unclosed"]
    /\ drained' = Nobody
    /\ UNCHANGED <<queue, permits, limit, closing, loanCnt, phase,
                   pc, held, late>>

DrainBreak ==
    /\ cpc = "cut" /\ cpc' = "wait"
    /\ UNCHANGED <<poolVars, pc, held, drained, late>>

DeadlinePasses ==
    /\ cpc = "wait" /\ ~late /\ late' = TRUE
    /\ UNCHANGED <<poolVars, pc, held, cpc, drained>>

\* the loop's test, then the deadline's; sleeping changes nothing
WaitOver ==
    /\ cpc = "wait"
    /\ \/ loanCnt <= 0 /\ cpc' = "finished"
       \/ loanCnt > 0 /\ late /\ cpc' = "timedOut"
    /\ UNCHANGED <<poolVars, pc, held, drained, late>>

-----------------------------------------------------------------------------
UserStep(u) ==
    \/ BorrowTest(u) \/ BorrowAcquire(u) \/ BorrowRemove(u)
    \/ BorrowNone(u) \/ BorrowRelease(u) \/ BorrowCount(u)
    \/ SearchThrows(u) \/ ReturnTest(u) \/ ReturnClose(u)
    \/ ReturnCloseThrows(u) \/ ReturnAdd(u) \/ ReturnRelease(u)
    \/ ReturnCount(u)

CloseStep ==
    \/ DrainAcquire \/ DrainTake \/ DrainClose
    \/ DrainThrows \/ DrainBreak \/ DeadlinePasses \/ WaitOver

Next ==
    \/ CreateEnds \/ \E s \in Searchers : CreateSearcher(s)
    \/ \E u \in Users : StartSearch(u) \/ UserStep(u)
    \/ CloseStart \/ CloseStep

Spec == Init /\ [][Next]_vars

\* threads are scheduled and time passes; nobody has to search or to close
FairSpec ==
    /\ Spec
    /\ WF_vars(CloseStep) /\ \A u \in Users : WF_vars(UserStep(u))

-----------------------------------------------------------------------------
Owners == {u \in Users : pc[u] \in {"taken", "using", "close", "add"}}
Counted == {u \in Users : pc[u] \in {"using", "close", "add", "release", "count"}}
Queued == ToSet(queue)
InHands == {held[u] : u \in Owners} \cup ({drained} \ {Nobody})
Open == {s \in Searchers : handle[s] = "open"}

\* the searchers of searches that threw: open, and in nobody's reach
Lost == Open \ (Queued \cup InHands)

\* a return that saw the pool open and has not yet put its permit back
Returning == {u \in Users : pc[u] \in {"add", "release"}}

UserPCs == {"idle", "poll", "acquire", "remove", "none", "taken", "using",
            "close", "add", "release", "count"}
CloserPCs == {"idle", "drain", "take", "close", "cut", "wait",
              "finished", "timedOut"}

TypeOK ==
    /\ queue \in Seq(Searchers)
    /\ limit \in {N, 2 * N} /\ permits \in 0..limit
    /\ phase \in {"building", "ready", "failed"}
    /\ pc \in [Users -> UserPCs] /\ cpc \in CloserPCs /\ late \in BOOLEAN
    /\ drained \in Searchers \cup {Nobody}
    /\ closing \in BOOLEAN /\ loanCnt \in Nat
    /\ handle \in [Searchers -> {"none", "open", "closed",
                                "unclosed", "unreturned"}]
    /\ held \in [Users -> Searchers \cup {Nobody}]
    /\ \A u \in Users : u \in Owners <=> held[u] # Nobody
    /\ drained = Nobody <=> cpc # "close"

\* Without a lock around queue, semaphore and count, a searcher still has one
\* owner, is open as long as it has one, and the loan count exceeds the
\* running searches by exactly the searchers that a search or a return lost
\* by throwing: from the first on, every close waits its whole timeout.
OneOwner ==
    /\ IsInjective(queue) /\ Queued \cap InHands = {}
    /\ \A u, v \in Owners : held[u] = held[v] => u = v
    /\ drained \notin {held[u] : u \in Owners}
    /\ Queued \cup InHands \subseteq Open
    /\ phase = "ready" =>
          loanCnt = Cardinality(Counted) + Cardinality(Lost)
                       + Cardinality({s \in Searchers : handle[s] = "unreturned"})

\* ip2region.cj: "close releases all resources".  When a close has seen the
\* loan count 0, the searchers still out come back closed and none is left in
\* the queue, if no return overtook the start of a close (it saw the pool
\* open, and its searcher enters the queue behind the drain), no close of a
\* handle threw, and no search threw.
CloseReleases ==
    [](Lost = {} /\ cpc # "cut" /\ (closing => Returning = {}))
        => (cpc = "finished" ~> Open = {})
=============================================================================
