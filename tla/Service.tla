------------------------------ MODULE Service ------------------------------
(***************************************************************************)
(* The Go service (binding/golang/service/ip2region.go, config.go): two    *)
(* configurations, each read from an xdb file that may be replaced at its  *)
(* path at any moment; for each version a pool of searchers, one searcher  *)
(* in memory, or nothing; searches of any number of goroutines; and the    *)
(* close of one pool after the other, each with the same duration.         *)
(*                                                                         *)
(* The pools are not modelled again: every step of theirs is a step of     *)
(* SearcherLeases, which SearcherPool implements.                          *)
(***************************************************************************)
EXTENDS Integers, FiniteSets

CONSTANTS
    Searchers,   \* the searchers of one pool; config.searchers of them
    Users,       \* goroutines that call Search
    Headers,     \* what can be read of a file: see Verify
    Requests,    \* what NewV4Config, NewV6Config and NewIp2Region are given
    MaxGen,      \* how often a file is replaced, on either path
    Wait,        \* the duration given to CloseTimeout, in ticks
    Nil          \* a nil configuration; no file

\* newConfig refuses searchers < 1
ASSUME SearchersAssumption == Searchers # {} /\ IsFiniteSet(Searchers)
ASSUME WaitAssumption == Wait \in Nat /\ MaxGen \in Nat

VARIABLES
    request,         \* the arguments: a configuration or nil, per version
    disk,            \* the file at the path of each version
    seen,            \* the file newConfig read its buffers from
    lease4, shut4,   \* v4Pool, as SearcherLeases
    lease6, shut6,   \* v6Pool
    opened,          \* the file each searcher has opened
    phase,           \* how far the application is with the construction
    pc,              \* the goroutines, with the version each one searches
    result,          \* what its search returns
    closer,          \* the goroutine in Ip2Region.CloseTimeout
    timer,           \* ticks since the running CloseTimeout of a pool began
    gaveUp,          \* history: the pools whose close ended by the timer
    moved            \* history: files replaced between config and pool

poolVars == <<lease4, shut4, lease6, shut6>>
buildVars == <<request, seen, opened, phase, moved>>
userVars == <<pc, result>>
closeVars == <<closer, timer, gaveUp>>
vars == <<disk, poolVars, buildVars, userVars, closeVars>>

Versions == {4, 6}
Disabled == Nil
NoFile == Nil

Pool4 == INSTANCE SearcherLeases WITH lease <- lease4, shut <- shut4
Pool6 == INSTANCE SearcherLeases WITH lease <- lease6, shut <- shut6

Lease(v) == IF v = 4 THEN lease4 ELSE lease6
IsShut(v) == IF v = 4 THEN shut4 ELSE shut6

Admit(v, s) ==
    \/ v = 4 /\ Pool4!Admit(s) /\ UNCHANGED <<lease6, shut6>>
    \/ v = 6 /\ Pool6!Admit(s) /\ UNCHANGED <<lease4, shut4>>
Lend(v, s, u) ==
    \/ v = 4 /\ Pool4!Lend(s, u) /\ UNCHANGED <<lease6, shut6>>
    \/ v = 6 /\ Pool6!Lend(s, u) /\ UNCHANGED <<lease4, shut4>>
GiveBack(v, s, u) ==
    \/ v = 4 /\ Pool4!GiveBack(s, u) /\ UNCHANGED <<lease6, shut6>>
    \/ v = 6 /\ Pool6!GiveBack(s, u) /\ UNCHANGED <<lease4, shut4>>
Retire(v, s) ==
    \/ v = 4 /\ Pool4!Retire(s) /\ UNCHANGED <<lease6, shut6>>
    \/ v = 6 /\ Pool6!Retire(s) /\ UNCHANGED <<lease4, shut4>>
Shut(v) ==
    \/ v = 4 /\ Pool4!Shut /\ UNCHANGED <<lease6, shut6>>
    \/ v = 6 /\ Pool6!Shut /\ UNCHANGED <<lease4, shut4>>

Absent == Pool4!Absent
Idle == Pool4!Idle
Retired == Pool4!Retired

IdleIn(v) == {s \in Searchers : Lease(v)[s] = Idle}
OpenIn(v) == {s \in Searchers : Lease(v)[s] \notin {Absent, Retired}}
HeldBy(u, v) == {s \in Searchers : Lease(v)[s] = Pool4!LentTo(u)}

-----------------------------------------------------------------------------
(* Files.  A header holds the structure number, the IP version field, the  *)
(* bytes of a runtime pointer, and (not in the header) the bytes a pointer *)
(* to the end of the file needs.                                           *)

File(h, n) == [header |-> h, gen |-> n]

PtrBytes(h) == IF h.structure = 2 THEN 4 ELSE h.ptrBytes

\* Verify: a known structure, and no file larger than a pointer can reach
Verify(h) == h.structure \in {2, 3} /\ h.needs <= PtrBytes(h)

\* structure 2 knows IPv4 only, whatever stands in the version field
VersionFromHeader(h) == IF h.structure = 2 THEN 4 ELSE h.ipVersion

AcceptsFault(h, v) == Verify(h)

\* newConfig: the file can be searched, and is one of the wanted version
Accepts(h, v) == Verify(h) /\ VersionFromHeader(h) = v

Config(policy, version) == [policy |-> policy, version |-> version]

\* NewIp2RegionWithPath: the versions with a path, and the default policy
WithPath(given) ==
    [v \in Versions |->
        IF v \in given THEN Config("VIndexCache", v) ELSE Disabled]

\* createService of the command line: a policy per version, no version disabled
FromOptions(policy4, policy6) ==
    [v \in Versions |-> Config(IF v = 4 THEN policy4 ELSE policy6, v)]

InMemory(v) == request[v] # Disabled /\ request[v].policy = "BufferCache"
UsesPool(v) == request[v] # Disabled /\ request[v].policy # "BufferCache"

-----------------------------------------------------------------------------
AtRest == <<"idle">>
At(u, place, v) == pc[u] = <<place, v>>
Goes(u, place, v) == pc' = [pc EXCEPT ![u] = <<place, v>>]
Returns(u, r) == result' = [result EXCEPT ![u] = r]
Leaves(u) == pc' = [pc EXCEPT ![u] = AtRest] /\ Returns(u, Nil)

Init ==
    /\ request \in Requests
    /\ disk \in [Versions -> {File(h, 0) : h \in Headers}]
    /\ seen = [v \in Versions |-> NoFile]
    /\ Pool4!Init /\ Pool6!Init
    /\ opened = [v \in Versions |-> [s \in Searchers |-> NoFile]]
    /\ phase = <<"config", 4>>
    /\ pc = [u \in Users |-> AtRest]
    /\ result = [u \in Users |-> Nil]
    /\ closer = <<"open">>
    /\ timer = 0
    /\ gaveUp = {} /\ moved = {}

Constructed == phase \in {<<"ready">>, <<"failed">>}

\* someone moves another file to the path; open handles keep the old one
Replace(v) ==
    /\ disk[4].gen + disk[6].gen < MaxGen
    /\ \E h \in Headers : disk' = [disk EXCEPT ![v] = File(h, @.gen + 1)]
    /\ moved' = IF seen[v] # NoFile /\ ~Constructed
                  THEN moved \cup {v} ELSE moved
    /\ UNCHANGED <<request, seen, opened, phase>>
    /\ UNCHANGED <<poolVars, userVars, closeVars>>

-----------------------------------------------------------------------------
(* The application creates the v4 configuration, then the v6 one, then the *)
(* service: its v4 pool, then its v6 pool.                                 *)

After(p) ==
    CASE p = <<"config", 4>> -> <<"config", 6>>
      [] p = <<"config", 6>> -> <<"pool", 4>>
      [] p = <<"pool", 4>> -> <<"pool", 6>>
      [] p = <<"pool", 6>> -> <<"ready">>

\* header, vector index and content come through one handle, closed again
NewConfig(v) ==
    /\ phase = <<"config", v>>
    /\ request[v] # Disabled
    /\ Accepts(disk[v].header, request[v].version)
    /\ seen' = [seen EXCEPT ![v] = disk[v]]
    /\ phase' = After(phase)
    /\ UNCHANGED <<request, opened, moved, disk, poolVars, userVars, closeVars>>

NoConfig(v) ==
    /\ phase = <<"config", v>>
    /\ request[v] = Disabled
    /\ phase' = After(phase)
    /\ UNCHANGED <<request, seen, opened, moved, disk>>
    /\ UNCHANGED <<poolVars, userVars, closeVars>>

\* the file is refused; any open or read may fail as well
ConfigFails(v) ==
    /\ phase = <<"config", v>>
    /\ request[v] # Disabled
    /\ phase' = <<"failed">>
    /\ UNCHANGED <<request, seen, opened, moved, disk>>
    /\ UNCHANGED <<poolVars, userVars, closeVars>>

\* NewSearcherPool: each searcher opens the path of the configuration anew
OpenSearcher(v, s) ==
    /\ phase = <<"pool", v>>
    /\ UsesPool(v)
    /\ Admit(v, s)
    /\ opened' = [opened EXCEPT ![v][s] = disk[v]]
    /\ UNCHANGED <<request, seen, phase, moved, disk, userVars, closeVars>>

PoolDone(v) ==
    /\ phase = <<"pool", v>>
    /\ UsesPool(v) => \A s \in Searchers : Lease(v)[s] # Absent
    /\ phase' = After(phase)
    /\ UNCHANGED <<request, seen, opened, moved, disk>>
    /\ UNCHANGED <<poolVars, userVars, closeVars>>

OpenFailsFault(v) ==
    /\ phase = <<"pool", v>>
    /\ UsesPool(v)
    /\ \E s \in Searchers : Lease(v)[s] = Absent
    /\ phase' = <<"failed">>
    /\ UNCHANGED <<request, seen, opened, moved, disk>>
    /\ UNCHANGED <<poolVars, userVars, closeVars>>

\* an open fails: the deferred close of NewSearcherPool runs
OpenFails(v) ==
    /\ phase = <<"pool", v>>
    /\ UsesPool(v)
    /\ \E s \in Searchers : Lease(v)[s] = Absent
    /\ phase' = <<"undo", v>>
    /\ UNCHANGED <<request, seen, opened, moved, disk>>
    /\ UNCHANGED <<poolVars, userVars, closeVars>>

Undo(v) ==
    /\ phase = <<"undo", v>>
    /\ IF IdleIn(v) = {}
         THEN phase' = <<"failed">> /\ UNCHANGED poolVars
         ELSE \E s \in IdleIn(v) : Retire(v, s) /\ UNCHANGED phase
    /\ UNCHANGED <<request, seen, opened, moved, disk, userVars, closeVars>>

Build ==
    \E v \in Versions :
        \/ NewConfig(v) \/ NoConfig(v) \/ ConfigFails(v)
        \/ \E s \in Searchers : OpenSearcher(v, s)
        \/ PoolDone(v) \/ OpenFails(v) \/ Undo(v)

-----------------------------------------------------------------------------
(* Search.  An answer names the file its vector pointers came from and the *)
(* file its index entries and its region came from; pointers into another  *)
(* file may as well end in a read error or in no region.                   *)

WrongLength == [kind |-> "length"]
Answer(v, ptrs, data) ==
    [kind |-> "region", v |-> v, ptrs |-> ptrs, data |-> data]

\* Searcher.Search compares the length of the address with its version's
Result(v, ptrs, data) ==
    IF request[v].version = v THEN Answer(v, ptrs, data) ELSE WrongLength

\* v stands for the length of the address.  Other lengths are refused at once,
\* and a version without a configuration is answered "": both change nothing.
Dispatch(u, v) ==
    /\ phase = <<"ready">>
    /\ pc[u] = AtRest
    /\ \/ UsesPool(v) /\ Goes(u, "borrow", v) /\ UNCHANGED result
       \/ /\ InMemory(v)
          /\ Goes(u, "answered", v)
          /\ Returns(u, Result(v, seen[v], seen[v]))
    /\ UNCHANGED <<disk, poolVars, buildVars, closeVars>>

ClosingFault(v) == UsesPool(v) /\ closer = <<"closing", v>>

\* the closing channel of the pool is closed
Closing(v) ==
    UsesPool(v) /\ \/ closer \in {<<"closing", v>>, <<"closed">>}
                   \/ v = 4 /\ closer = <<"closing", 6>>

Borrow(u, v) ==
    /\ At(u, "borrow", v)
    /\ \E s \in Searchers : Lend(v, s, u)
    /\ Goes(u, "search", v)
    /\ UNCHANGED <<result, disk, buildVars, closeVars>>

BorrowNil(u, v) ==
    /\ At(u, "borrow", v)
    /\ Closing(v)
    /\ pc' = [pc EXCEPT ![u] = AtRest]
    /\ UNCHANGED <<result, disk, poolVars, buildVars, closeVars>>

\* a searcher that looks at the file behind the path
FileOfFault(v, s) == disk[v]

FileOf(v, s) == opened[v][s]

\* a cached vector index is the configuration's
PointerSource(v, s) ==
    IF request[v].policy = "VIndexCache" THEN seen[v] ELSE FileOf(v, s)

\* the deferred ReturnSearcher chooses its branch before it acts; nothing a
\* search reads changes between the answer and that choice
Search(u, v) ==
    /\ At(u, "search", v)
    /\ \E s \in HeldBy(u, v) :
          Returns(u, Result(v, PointerSource(v, s), FileOf(v, s)))
    /\ Goes(u, IF Closing(v) THEN "closeIt" ELSE "push", v)
    /\ UNCHANGED <<disk, poolVars, buildVars, closeVars>>

\* the closing branch forgets to close the searcher
ReturnActFault(u, v) ==
    /\ \/ At(u, "push", v) /\ \E s \in HeldBy(u, v) : GiveBack(v, s, u)
       \/ At(u, "closeIt", v) /\ UNCHANGED poolVars
    /\ Leaves(u)
    /\ UNCHANGED <<disk, buildVars, closeVars>>

ReturnAct(u, v) ==
    /\ \E s \in HeldBy(u, v) :
          \/ At(u, "push", v) /\ GiveBack(v, s, u)
          \/ At(u, "closeIt", v) /\ Retire(v, s)
    /\ Leaves(u)
    /\ UNCHANGED <<disk, buildVars, closeVars>>

\* the shared searcher in memory needs no return
Finish(u, v) ==
    /\ At(u, "answered", v)
    /\ Leaves(u)
    /\ UNCHANGED <<disk, poolVars, buildVars, closeVars>>

UserStep(u, v) ==
    \/ Borrow(u, v) \/ BorrowNil(u, v) \/ Search(u, v)
    \/ ReturnAct(u, v) \/ Finish(u, v)

-----------------------------------------------------------------------------
(* CloseTimeout(d): the v4 pool, then the v6 pool, each with d.            *)

ClosingOrder(v) == closer = <<"closing", v>>

NextCloseLoopFault(v) == <<"closing", IF v = 0 THEN 4 ELSE v + 2>>

NextCloseFault(v) ==
    IF v = 0 THEN IF UsesPool(4) THEN <<"closing", 4>> ELSE <<"closed">>
    ELSE IF v = 4 /\ UsesPool(6) THEN <<"closing", 6>> ELSE <<"closed">>

\* a pool that is nil is skipped
NextClose(v) ==
    IF v = 0 /\ UsesPool(4) THEN <<"closing", 4>>
    ELSE IF v # 6 /\ UsesPool(6) THEN <<"closing", 6>> ELSE <<"closed">>

CloseBegin ==
    /\ phase = <<"ready">> /\ closer = <<"open">>
    /\ closer' = NextClose(0)
    /\ UNCHANGED <<timer, gaveUp, disk, poolVars, buildVars, userVars>>

\* the loop of the pool receives what is at home and closes it
Drain(v, s) ==
    /\ ClosingOrder(v)
    /\ Lease(v)[s] = Idle
    /\ Retire(v, s)
    /\ UNCHANGED <<closeVars, disk, buildVars, userVars>>

\* the loop's test: what FinishedLeavesNothing of the pool says of it
CloseDone(v) ==
    /\ ClosingOrder(v)
    /\ ~\E u \in Users : At(u, "push", v)
    /\ Shut(v)
    /\ closer' = NextClose(v)
    /\ timer' = 0
    /\ UNCHANGED <<gaveUp, disk, buildVars, userVars>>

CloseTimedOut(v) ==
    /\ ClosingOrder(v)
    /\ timer = Wait
    /\ closer' = NextClose(v)
    /\ timer' = 0
    /\ gaveUp' = gaveUp \cup {v}
    /\ UNCHANGED <<disk, poolVars, buildVars, userVars>>

CloseStep ==
    \E v \in Versions :
        CloseDone(v) \/ CloseTimedOut(v) \/ \E s \in Searchers : Drain(v, s)

\* time passes while a pool is being closed; a timer that is due fires first
Tick ==
    /\ closer \in {<<"closing", v>> : v \in Versions}
    /\ timer < Wait
    /\ timer' = timer + 1
    /\ UNCHANGED <<closer, gaveUp, disk, poolVars, buildVars, userVars>>

Next ==
    \/ Build
    \/ \E u \in Users, v \in Versions : Dispatch(u, v) \/ UserStep(u, v)
    \/ CloseBegin \/ CloseStep \/ Tick
    \/ \E v \in Versions : Replace(v)

Spec == Init /\ [][Next]_vars
-----------------------------------------------------------------------------
(* Fairness: as for SearcherPool, whose BorrowAnswered justifies the       *)
(* strong fairness of Borrow; the closer runs and time passes.             *)

FairSpec ==
    /\ Spec
    /\ \A u \in Users :
          /\ WF_vars(\E v \in Versions : UserStep(u, v))
          /\ SF_vars(\E v \in Versions : Borrow(u, v))
    /\ WF_vars(CloseStep) /\ WF_vars(Tick)

-----------------------------------------------------------------------------
Files == [header : Headers, gen : 0..MaxGen]
ASSUME NilAssumption == Nil \notin Files
Leases == {Absent, Idle, Retired} \cup {Pool4!LentTo(u) : u \in Users}
Phases ==
    {<<"config", v>> : v \in Versions} \cup {<<"pool", v>> : v \in Versions}
       \cup {<<"undo", v>> : v \in Versions} \cup {<<"ready">>, <<"failed">>}

Places == {"borrow", "search", "push", "closeIt", "answered"}

TypeOK ==
    /\ request \in Requests
    /\ disk \in [Versions -> Files]
    /\ seen \in [Versions -> Files \cup {NoFile}]
    /\ lease4 \in [Searchers -> Leases] /\ lease6 \in [Searchers -> Leases]
    /\ shut4 \in BOOLEAN /\ shut6 \in BOOLEAN
    /\ opened \in [Versions -> [Searchers -> Files \cup {NoFile}]]
    /\ phase \in Phases
    /\ pc \in [Users -> {AtRest} \cup (Places \X Versions)]
    /\ closer \in {<<"open">>, <<"closed">>} \cup {<<"closing", v>> : v \in Versions}
    /\ timer \in 0..Wait
    /\ gaveUp \subseteq Versions /\ moved \subseteq Versions

Answers ==
    {result[u] : u \in {w \in Users :
                         result[w] # Nil /\ result[w].kind = "region"}}

\* An answer is put together from one file, the one its configuration was
\* read from, whatever happens to the path later.  Only a file that is
\* replaced between the configuration and the last open of the pool is
\* searched unseen, and only a cached vector index is then of another file.
OneFilePerAnswer ==
    \A a \in Answers :
        /\ a.data = seen[a.v] \/ (a.v \in moved /\ UsesPool(a.v))
        /\ \/ a.ptrs = a.data
           \/ a.v \in moved /\ request[a.v].policy = "VIndexCache"

\* An IPv4 address is never answered from an IPv6 file or the other way
\* round, not even when the two configurations are swapped: newConfig checks
\* the file, the searcher the address.  (Nobody checks a file that was moved
\* in after newConfig.)
AnswerOfItsVersion ==
    \A a \in Answers :
        \/ VersionFromHeader(a.data.header) = a.v
        \/ a.v \in moved /\ UsesPool(a.v)

\* A construction that fails closes what it opened, with one exception: the
\* v4 pool, complete, when the v6 pool fails.  NewIp2Region returns nothing
\* that could close it.
FailedNewLeavesOnlyV4 ==
    phase = <<"failed">> =>
        /\ OpenIn(6) = {}
        /\ OpenIn(4) \in {{}, Searchers}
        /\ OpenIn(4) # {} => UsesPool(6)

\* Once Ip2Region.CloseTimeout has returned, each pool whose close did not
\* give up has no searcher at home and nobody who would bring one back: no
\* later search finds one, and what is out is closed by its user.
ClosedLeavesNothing ==
    closer = <<"closed">> =>
        \A v \in Versions \ gaveUp :
            UsesPool(v) =>
                /\ IdleIn(v) = {}
                /\ ~\E u \in Users : At(u, "push", v)

\* Every Search call comes back, before, while and after the service closes.
SearchAnswered == \A u \in Users : pc[u] # AtRest ~> pc[u] = AtRest

\* After Ip2Region.CloseTimeout no file stays open for good, unless a timer
\* won: what was in use is closed by the search that used it, whichever pool
\* was closed first and wherever the search was when its pool was closed.
ClosedReleasesAll ==
    closer = <<"closed">> ~>
        \A v \in Versions \ gaveUp : UsesPool(v) => OpenIn(v) = {}
=============================================================================
