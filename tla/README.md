# A TLA+ development of ip2region

ip2region answers "which region is this IP address in?" from one binary file,
the *xdb*. This directory models the parts of the repository that have state
worth arguing about, checks them with TLC on small instances, and proves with
TLAPS, for every size, the safety of the three searcher pools and of the Go
service, that the maker and the search agree on every source, that the source
editor keeps a table through puts, saves and crashes, and that both ways to a
database with fewer fields give what the options ask for.

Contents: [the system](#1-the-system) · [the modules](#2-the-modules) ·
[the runs](#3-the-runs) · [fairness](#4-fairness) · [the proofs](#5-the-proofs) ·
[what is not modelled](#6-what-is-not-modelled) · [plan](#7-plan)

## 1. The system

    source text --(editor)--> source text --(maker)--> xdb file --(searcher)--> region
                                                                     |
                                  service: a pool of searchers for IPv4, one for IPv6

A **source** is a list of lines `start|end|region`. The **editor** changes a
source interactively. The **maker** turns a source into an xdb file. A
**searcher** answers one address at a time from one xdb file, through its own
file offset; the **service** of a binding lends searchers to threads from a
**pool**. The same search exists in a dozen languages; pools exist in Go, Java
and Cangjie, pool workers in Erlang, one shared searcher in C#.

### Inventory

| component (code) | state | operations | interacts with | hard behaviour | what makes it correct |
|---|---|---|---|---|---|
| Go searcher pool (`binding/golang/service/searcher_pool.go`) | buffered channel of searchers, `closing` channel, atomic `loanCount` | `NewSearcherPool`, `BorrowSearcher`, `ReturnSearcher`, `CloseTimeout` | called by `Search` of any goroutine; shares file handles | every channel and atomic operation interleaves; a close races borrows and returns; a timer | one owner per searcher; handles open exactly while owned; close misses nothing; nobody blocks for good |
| Java searcher pool (`binding/java/.../service/SearcherPool.java`) | `LinkedList` of searchers, `loanCount`, a lock with two conditions | `create`, `borrowSearcher`, `returnSearcher`, `close` | called by `search` of any thread | barging, lost wakeups, interrupts, close while searchers are out | one holder per searcher; no lost wakeup; a completed close leaves nothing open |
| Cangjie pool (`binding/cangjie/src/service`) | concurrent queue, semaphore, `closing`, `loanCnt` | `borrow` (polling), `return_`, `closeTimeout` | as above | return and borrow race the drain; an exception loses a loan | as for Go |
| Go service (`ip2region.go`, `config.go`, `createService` of `main.go`) | per version a pool, an in-memory searcher or nothing; cached vector index; two timers | `newConfig`, `NewIp2Region`, `Search`, `CloseTimeout` | composes two pools; reads files others replace | one of two constructions fails; one close after the other; file replaced after caching | answers come from one file of the right version; a failed construction and a close leave what they say |
| Java service (`Ip2Region.java`) | two pools or two in-memory searchers | as above | composes two pools | close of one pool throws | both closed |
| Erlang workers (`binding/erlang/src`) | ETS tables of vectors, segments and answers; one file handle per worker | `search`, worker start, crash, restart | poolboy, supervisor | tables outlive workers and files | answers from one file only |
| C# searcher (`binding/csharp`) | one shared `FileStream` | `Search` | called from any thread | Seek and Read interleave | documented as thread safe |
| source segments (`maker/golang/xdb/segment.go`, `util.go`) | none | compare, merge, sort, split | used by editor and maker | address arithmetic wraps; merging precedes sorting | merging and splitting keep the table |
| source editor (`maker/golang/xdb/editor.go`, `cmd/edit.go`) | segment list, `toSave`, the source file | load, put, put_file, save, quit | the file system | truncating save cut short, also inside a line; empty source; bad line in the middle of a file; lines of the other version | the list is a partition; no silent loss; what is saved loads again |
| xdb maker (`maker/golang/xdb/maker.go`) | segments, vector index, destination file | init, load, start, end | the file system | unordered and overlapping sources; stop between writes | a finished file answers every address of its source; an unfinished one answers nothing wrong |
| xdb search (`binding/golang/xdb/searcher.go`) | file offset, `ioCount` | `Search` | one owner at a time | bounds of the binary search, empty blocks, gaps | finds exactly what the maker wrote |
| region processor (`xdb/processor.go`, `cmd/process.go`, `cmd/util.go`) | list of segments with rewritten regions, destination file | options, load, sort, write | reads what the editor wrote, writes what the maker reads | merging by *new* regions and before sorting; stop between lines; blank regions | the output gives every address the wanted region, and a database made from it too |
| commands `gen`, `bench`, `search` (`cmd/`) | none | run the maker, compare, query | maker, searcher | `bench` tests only the ends of lines | it tells a database with rewritten regions from one of the same source without |
| other bindings, other makers | | | | | see section 6 |

`PROJECT.json` lists the hazards at their lines with the properties that cover
them; section 6 ends with those no property can speak of.

## 2. The modules

| module | lines of code it models | role |
|---|---|---|
| `SearcherLeases` | (abstract) | what any searcher pool promises |
| `SearcherPool` | searcher_pool.go | the Go pool, one action per channel or atomic operation |
| `JavaSearcherPool` | SearcherPool.java | the Java pool, one action per critical section |
| `CangjiePool` | searcher_pool.cj, ip2region.cj | the Cangjie pool, one action per operation on queue, semaphore, count or flag |
| `Service` | ip2region.go, config.go, parts of searcher.go and util.go | the Go service over two instances of `SearcherLeases`, with the files and the timers |
| `Segments` | segment.go, util.go | addresses, segments, merging, sorting |
| `RegionTable` | (abstract) | what the editor promises: a table of regions |
| `Editor` | editor.go, cmd/edit.go | the source editor |
| `XdbFile` | segment.go (Split), searcher.go | the file, cutting into blocks, search |
| `Maker` | maker.go | the maker, one action per write |
| `RegionFields` | cmd/util.go, util.go | the fields of a region and the option that lists them |
| `Processor` | processor.go, cmd/process.go | the `process` command, one action per line written |
| `Pipeline` | cmd/generate.go, cmd/bench.go | `Processor` composed with an instance of `Maker`: gen with a field list, process and then gen |
| `SearcherPoolProofs`, `JavaSearcherPoolProofs`, `CangjiePoolProofs`, `ServiceProofs` | | the theorems about pools and service |
| `SegmentsProofs` | | what merging, sorting and order checking do to any list of segments, overlaps included |
| `EditorProofs` | | what loading, a put and a save do to a list, and the theorems about the editor |
| `MakerProofs` | | splitting, the vector index, the binary search, and the theorems about the maker |
| `PipelineProofs` | | field lists, what `process` makes of a source, and the theorems about processor and pipeline, over an instance of `MakerProofs` |
| `MC...` | | instances for TLC |

Definitions whose name ends in `Fault` are not used by any specification. Each
is the definition below it with one plausible bug, and shows that some property
would catch that bug (`mutants` in `PROJECT.json`).

### SearcherPool: the Go pool

| state | code |
|---|---|
| `pool`, `closing`, `loanCount` | the fields of `SearcherPool`; the channel as a FIFO sequence |
| `handle[s]` | the `*os.File` of a searcher: none, open, closed |
| `phase` | how far `NewSearcherPool` is |
| `pc[u]`, `held[u]` | a goroutine inside `v4Search`, and the searcher in its local variable |
| `cpc`, `lc`, `drained`, `timer` | the goroutine in `CloseTimeout`, its locals and its timer |

A borrow is the choice of the `select` (`BorrowNil` or `BorrowReceive`, both
possible when both cases are ready) and then the atomic increment
(`BorrowCount`): between the two the searcher is out but not counted. A return
is the `select` with default (`ReturnSelect`), the close of the handle or the
push (`ReturnClose`, `ReturnPush`), and the decrement (`ReturnCount`).
`CloseTimeout` reads the count and the channel's length in two steps
(`CloseReadCount`, `CloseReadLeft`), then waits in its `select`
(`CloseReceive`, then `CloseSearcher`; or `CloseTimedOut`). `TimerFires` is
external and may happen at any time after the start.

`LoanCount()` and `len` change nothing and appear only where `CloseTimeout`
uses them. `CloseTimeout` runs once: a second call panics.

### JavaSearcherPool: the Java pool

Everything happens under one `ReentrantLock`, so a critical section is one
action; only the loop of `close` is several, and `LockFree` keeps the others out
meanwhile. A thread is `idle`, before the lock (`borrow`), in the condition's
queue (`parked`), signalled and on its way back to the lock (`woken`), or
`using` a searcher. `BorrowTake` serves newcomers and signalled threads alike,
because `create` makes the lock unfair: this is barging. `ReturnSearcher` moves
the longest waiter to `woken`. `Interrupt` takes a waiter out of the queue; the
condition of the JDK does not wake spuriously (it parks in a loop until the
waiter is on the lock's queue), and an interrupt after a signal does not lose
the signal. `CloseBegin` throws when searchers are out, because
`fullCondition.wait(...)` is `Object.wait` on a monitor nobody owns.

### CangjiePool: the Cangjie pool

Nothing is locked across two operations, so each operation on the queue, the
semaphore, the count or the flag is an action. A borrow tests the flag
(`BorrowTest`), takes a permit or sleeps (`BorrowAcquire`), takes a searcher
(`BorrowRemove`) or finds none and gives the permit back (`BorrowNone`,
`BorrowRelease`), and counts the loan (`BorrowCount`). A return adds the
searcher, then the permit, then uncounts (`ReturnAdd`, `ReturnRelease`,
`ReturnCount`), or closes. A search may throw; `search` swallows the exception,
and nothing returns the searcher (`SearchThrows`). The close of a handle may throw as well, in a return
(`ReturnCloseThrows`) or in the drain (`DrainThrows`). `closeTimeout` drains by
permits, until one is missing or the close of a handle throws, and only then
waits for the count. It may be called again, which is not an error here.

The constructor starts the semaphore with as many permits as there are
searchers and releases one more for each. Whether the library lets the counter
rise above its start is not to be seen in this repository: `limit` is chosen at
the start, and everything holds for both.

### Service: the Go service

| state | code |
|---|---|
| `request[v]` | the configuration of version `v`, or nil |
| `disk[v]`, `seen[v]`, `opened[v][s]` | the file at the path; the one `newConfig` read; the one a searcher opened |
| `lease4`, `shut4`, `lease6`, `shut6` | the two pools, as `SearcherLeases` |
| `phase` | how far `newConfig` and `NewIp2Region` are |
| `pc[u]`, `result[u]` | a goroutine in `Search`, and what it returns |
| `closer`, `timer` | the goroutine in `CloseTimeout`, and the timer of the pool it is closing |
| `gaveUp`, `moved` | history: pools whose timer won; files replaced between `newConfig` and the pool |

A file is its header and a number that tells it from the one it replaced.
`newConfig` verifies, checks the version and caches (`Accepts`, `NewConfig`);
each searcher of a pool opens the path anew (`OpenSearcher`), and any opening
may fail (`OpenFails`), after which the pool under construction closes what it
has (`Undo`). A search in a pool borrows, reads its pointers from the cached
index, from memory or from the file (`PointerSource`), and the rest from the
file its searcher has opened. `CloseTimeout` closes the v4 pool and then the v6
pool, each with the whole duration (`Tick` lets time pass): with two pools it may
take twice the duration, which `README.md:56` of the binding calls a maximum. No
property or run is about the sum, which can be read off `ip2region.go:185-193`. `Replace` moves a
complete file to a path; it is external.

The pools are the abstract ones. That is sound because `SearcherPool`
implements `SearcherLeases`, which is checked and proved; what `CloseDone` and
`Borrow` assume of a pool beyond that are `Drained` and `BorrowAnswered` of
`SearcherPool`.

### RegionFields, Processor and Pipeline

A region is a tuple of fields, a field a model value; `Blank` is the empty one.
`FieldsOf` is the list of field numbers as the option gives them and
`GetFilterFields` the same list sorted; `ListAccepted` is the code's test for
duplicates, which compares numbers as text (`Single(zeros, n)` is `n` behind
that many zeros). `Readable` is what the tokenizer
takes for a region: not one blank alone.

`Processor` loads (`LoadSegments`: clear, keep fields, merge neighbours that
are now equal), sorts (`Sort`; equal starts come in any order), and writes a
line at a time, with a `Stop` between any two; a line is taken as written whole or
not at all (the editor is where a cut inside a line is modelled). `Pipeline` runs the maker on a source
with a field list (`GenerateDirectly`), or on what a process left behind,
finished or not (`GenerateProcessed`). `Bench` is the verdict of the bench
command on a finished database.

### Segments, XdbFile and Maker

An address is a number in `0..MaxIP`; `IPAddOne` and `IPSubOne` wrap as the
bytes do. A region is a model value, or a tuple of fields where fields matter; `EmptyRegion` is what a search answers when
it finds nothing, and what the editor's padding carries. `MergeLine` is one
round of `IterateSegmentsFull`. Merging happens before sorting, as in the code.

`BlockSize` addresses share their two leading bytes. A file is a record of what
the maker has written so far; a position counts index entries from 1, and 0 is
the unwritten pointer. `Search` follows the code's loop with its own bounds: its
upper bound is one position *after* the last entry of the block. Searching
reads the last thing in the file, so a probe behind the last entry is a read
error. `Maker` performs the writes in the code's order (header, regions, index
entries, vector index, header pointers), after the filter of `RegionFields` has
refused lines with too few fields or chosen the fields, and can stop after any of them; one
`Write` call is taken to be whole or absent.

### Editor

`segs` is the linked list, `toSave` the flag, `file` the source on disk as lines.
`Open` is `NewEditor` with merging, sorting, overlap check and padding. `Put`
and each step of `PutFile` replace the elements from the one that holds the
start address to the one that holds the end address. `SaveBegin` truncates the
source, `SaveLine` writes one line, and a write error (`SaveFails`) or the end
of the process (`Kill`) may come between any two or inside one. `Quit` is refused
while the flag is up; `ForceQuit` is `quit!` or the end of the input; both and
`Kill` leave no editor (`Leave`). A `put_file` that meets a line it cannot parse has
put everything before it except the segment still pending for a merge (`BatchOf`).

*Lines of the other version.* Only the loader checks the version of a line
(`editor.go:81`). `put` and `put_file` take any line, so the model has the addresses
of a second version, numbers behind `MaxIP`, and `IPLess` compares addresses of
different lengths as `bytes.Compare` does: `Rank` says how many addresses of the
editor's version are below one of the other. A line of the other version cuts
segments into parts with one address of each length, which are saved and refused by
the next load. A put file has at most one such line, so that lines of the other
version are merged with no other. What holds of the list holds until such a line is
put, or one that finds no segment to go into, as on a source without a segment:
`astray` remembers that, and `spoilt` that the file was saved from such a list. They
are history variables, and the properties of the editor except those states and
nothing else.

*Torn lines.* A write that breaks off leaves nothing, text that does not parse, or
a shorter line (`Torn`). Text cut in the region parses with a shorter region; text
cut in the end address parses too, because `StringTokenizer` returns its last token
twice and the end address becomes the region. Hence the three: `LeftFileLoads` says
that the file loads once a last line that does not parse is taken out (`Whole`), and
`Tear` of `RegionTable` that at most one range, behind all that was saved, has a
wrong region.

The text of a line is otherwise left out: what `ParseSegment` accepts is
`SourceLines`, and what matters about writing, that padding is skipped because a
line without a region would not load again, is in `SaveLines` and `Parses`.

## 3. The runs

| run | instance | states | shows |
|---|---|---|---|
| `pool` | 2 searchers, 3 goroutines, one closer | 20,549 | all pool properties, safety and liveness, and refinement of `SearcherLeases` |
| `pool_patient` | 1 searcher, 1 goroutine, the timer need not fire | | **finding**: a closer in its `select` sleeps until the timer although everything is closed |
| `cangjie_pool` | 2 searchers, 3 threads, both readings of the semaphore | 180,679 | one owner, exact loan count, and what a close leaves open and why |
| `java_pool` | 2 searchers, 4 threads | 2,052 | all Java pool properties and refinement of `SearcherLeases` |
| `java_pool_close` | 2 searchers, 1 thread | | **finding**: `close` with a searcher out throws and closes nothing |
| `service` | 2 pools of 2 searchers, 2 goroutines, 4 ways to configure, 3 kinds of file, one replacement, 1 tick per close | 230,175 | all service properties, safety and liveness |
| `editor` | 4 addresses and 8 of the other version, 2 regions, 3 sources, 3 put files, 2 lines of the other version | 59,191 | all editor properties and refinement of `RegionTable` |
| `editor_empty` | an empty source | | **finding**: a put into an empty list does not raise the save flag |
| `maker` | 6 addresses in 3 blocks, 2 regions, every source of at most 2 lines, every disjoint one of 3 | 103,051 | file and search agree; nothing wrong from cut files |
| `pipeline` | 4 addresses in 2 blocks, 3 regions of up to 2 fields, every source of 1 line, every pair of lines in both orders, 8 field lists, 3 ways to clear | 345,019 | process then gen, and gen with fields, give the wanted database |
| `maker_answers` | a source whose lines wrap around, with a gap at the end of a block | | **two findings**: both ranges are missing in the file; an address in the gap gives a read error |
| `process_twice` | a source with a line given twice | | **finding**: the line is still there twice after `process`, which calls itself de-duplicating |

### The properties

*Go pool.* `TypeOK`. `Ownership`: a searcher is in one slot or in one pair of
hands (`SingleOwner`), and the open handles are those of owned searchers, so
nothing is used after its close and nothing is lost (`OpenIffOwned`).
`LoanCountExact`: the count is the number of goroutines between the two atomic
operations. `PushNeverBlocks`: the buffer has room for a return at every moment.
`Drained`: a close that left its loop by its test left an empty channel, nobody
about to push, and open handles only in hands that will close them; and a failed
construction closes what it had opened. `BorrowAnswered`,
`FinishedThenAllClosed`: borrows are answered, and what a finished close left
out is closed. `ImplementsLeases`.

*Java pool.* `TypeOK`. `OneHolder`: as above, and no thread polls an empty
queue. `NoLostWakeup`: while threads are parked, each idle searcher has a
signalled thread on its way. `ClosedForGood`: after a completed close nothing is
open or lent, ever. `IdleMeetsParked`: idle searchers and parked threads do not
stay side by side. `ImplementsLeases`.

*Cangjie pool.* `TypeOK`. `OneOwner`: a searcher has one owner although nothing
is locked, and the loan count exceeds the running searches by exactly the
searchers that throwing searches and returns lost. `CloseReleases`: when a close has seen
the count 0, everything is closed in the end, provided no return overtook the
start of a close, no search threw and no close of a handle threw. Each of the
three provisos is needed: without it TLC finds the property violated. The first
is the price of draining before waiting; in the Go pool the loop tests both
until both are zero, and `Drained` needs no proviso.

*Go service.* `TypeOK`. `OneFilePerAnswer`: an answer is put together from one
file, the one its configuration was read from, except behind a replacement
between `newConfig` and the pool. `AnswerOfItsVersion`: an address is never
answered from a file of the other version, not even with the configurations
swapped, with the same exception. `FailedNewLeavesOnlyV4`: a construction that
fails closes everything it opened, except the complete v4 pool when the v6 pool
fails, which nobody can close. `ClosedLeavesNothing`: after `CloseTimeout` only a
pool that gave up has a searcher at home or on its way there. `SearchAnswered`:
every search comes back. `ClosedReleasesAll`: after `CloseTimeout` no file stays open
for good, but in a pool that gave up.

*Editor.* All but `TypeOK` are about lists that have not gone astray and files not
saved from one. `TypeOK`. `Continuous`: the list is a sorted partition of all
addresses. `NoSilentLoss`: with the flag down, file and list say the same
(`QuitDropsNothing` says it of every list, and is what `editor_empty` refutes).
`CutSaveUsable`: whatever a session left, saves cut after or inside a line
included, loads, if need be without its last line, and a save that is not finished
lacks lines but says nothing wrong. `ImplementsTable`: the whole session is a plain
table to which ranges are written.
`FileApplied`: after a `put_file` each address has the region of the last line
that holds it, although merged segments are put and not lines, if all lines of the
file parse and are of the version.

*Maker and search.* `TypeOK`. `SearchFinds`: in a finished file each address of
the source is found with its region. `NeverWrongRegion`: at no moment, finished
or not, does a search answer a region the source does not give. `VectorDelimitsBlocks`: the
entries are in address order, no entry leaves its block, and the pointers of a block
delimit exactly its entries. `AnswersAsSource`, which `maker_answers` refutes, asks
both that each line is found and that an address of no line gives the empty string.

*Pipeline.* `TypeOK`. `OutputRewritten`: a finished process gives every address
of a source the regions the options ask for and covers no other. `NothingForeign`:
whatever process left behind, finished or not, and whatever the maker made of it,
says nothing of an address that the source does not say. `DatabaseOfSource`:
both ways to fewer fields end in the same answers. `GenAccepts`: the maker
finishes exactly when there is a line, no two overlap, every line has the
fields, and no region came out blank on the way through a text file; it is also
what shows that overlaps never become a database, a line given twice among them:
`process` does not remove it (`NoLineTwice`, refuted by `process_twice`). `BenchTells`: bench, which
tests the two ends of each line, passes exactly when the options changed no
region. The properties speak of `Wanted`, which says what the options ask for
without the code, and except lists that name a field twice (`ListedTwice`).

### Bounds, and why they are enough

* Two searchers let one be drained while the other is lent; three goroutines
  let one wait while two hold. With four threads in Java two can be parked while
  two barge. The safety properties of every module are proved for every number,
  where section 5 says under which conditions; TLC's bounds matter to them no longer.
* In `cangjie_pool` a third thread can hold a permit while one searches and one
  returns. In `service` one replacement is enough to separate the three files an
  answer depends on (path, cache, handle), and two goroutines to hold one
  searcher each, or to meet in one pool; one tick tells a close that waited from
  one that did not, per pool. The four requests are the default (both versions),
  one version, memory beside a pool, and the two versions swapped.
* `pipeline` has the smallest sources in which two lines become equal by the
  rewriting, adjacent or not, in order or not; field lists of both forms,
  duplicates, leading zeros and a number beyond the last field.
* Four addresses let a put cut a head and a tail off one segment, span three
  segments, and leave gaps at either end. Six addresses in three blocks let a
  segment start in the middle of a block, cover a whole one and end in the
  middle of a third; three lines in all orders exercise sorting and merging.
* `maker` and `pipeline` leave out the sources that wrap around (`WrapsAround`),
  which are a subject of `maker_answers`. In `pipeline` a pair also wraps around
  when one line covers all addresses and the other starts at 0: its sort may put the
  first before the second, and gen, which merges before it tests for overlaps,
  would join them and accept. None of the sources of
  `editor` wraps around.
* A list gone astray can grow for ever. The constraint `Short` of `editor` follows one
  of at most three segments, in the first session only, through its save and to the
  closed editor; the proofs need no constraint. Two lines of the other version, one
  inside the addresses of the version and one behind them, start, end and lie between
  two addresses of the version.
* Nothing else is counted without bound: the list of the editor, until it goes astray,
  is a partition of four addresses, put files have at most four lines, `MaxGen` bounds the
  replacements and `Wait` the ticks of the service.

Deadlock is not checked: users need not search again, a closed pool is at rest, a
maker ends, and a source saved from a list gone astray, or with a torn last line,
may not open.

## 4. Fairness

*Go.* `UserFairness`: a goroutine that can run does run (the scheduler is
preemptive), which includes the end of a search. Reception from the channel is
strongly fair because goroutines blocked on a channel queue in order: each
push is handed to the first one waiting. `WF(CloseStep)`: the closer runs.
`WF(TimerFires)`: the duration passes. Nobody has to call `Search` or `Close`.
`pool_patient` drops the fairness of the timer, and only that, to ask whether
the end of a close depends on it.

*Java.* Weak fairness of a user's steps and of the steps of `close`. The lock is
unfair, so nothing stronger is justified: one thread may lose every race. The
liveness property is therefore about the threads as a group.

*Cangjie.* Weak fairness of a user's steps and of the steps of a running
`closeTimeout`. Permits go to whoever polls first, so no more is justified, and
no borrow is promised an answer while the pool is open.

*Service.* `FairSpec` has the weak fairness of each goroutine's steps, of the
closer's, and of `Tick`. `Borrow` is strongly fair: the pool under it is the Go
pool, in which a blocked borrow is always answered (`BorrowAnswered`).

Editor, maker and pipeline have no liveness properties: they wait for a person, or end.

## 5. The proofs

`SearcherPoolProofs` proves, for every finite set of searchers and of
goroutines (`SearchersAssumption`, `UsersAssumption`, `NobodyAssumption`):

| theorem | says |
|---|---|
| `PoolTypeOK` | `[]TypeOK` |
| `PoolOwnership` | `[]Ownership` |
| `PoolLoanCount` | `[]LoanCountExact` |
| `PoolNeverBlocks` | `[]PushNeverBlocks` |
| `PoolDrained` | `[]Drained` |
| `PoolImplementsLeases` | `Spec => ImplementsLeases` |

The invariants are not inductive one by one. `Inv` joins `TypeOK`,
`SingleOwner`, `OpenIffOwned` and `LoanCountExact` with `Control`, which says
what the program counters imply. Its core is this: *when the closer has read
the count 0, nobody is between the select of a return and its push*. It holds
because such a goroutine is counted, and because every select after the start
of the close takes the other branch. `LoanCountExact` is needed for it, and it
in turn for `Drained`. `TypeOK` itself needs `LoanCountExact`: that
the unchecked decrement stays above zero is a fact about who is counted.
`PushNeverBlocks` follows from `SingleOwner` by counting: the queue holds
distinct searchers without the one being returned.

For the refinement, `LeaseCases` computes the lease of each searcher from its
place, `LeaseFrame` says what a step that leaves a searcher alone does, and
`LeaseStep` treats the actions one by one: a receive is `Lend`, a push is
`GiveBack`, either close of a handle is `Retire`, the finished close is `Shut`,
the rest stutter.

`JavaSearcherPoolProofs` proves, under the same assumptions:

| theorem | says |
|---|---|
| `JavaPoolTypeOK` | `[]TypeOK` |
| `JavaPoolOneHolder` | `[]OneHolder` |
| `JavaPoolNoLostWakeup` | `[]NoLostWakeup` |
| `JavaPoolClosedForGood` | `[]ClosedForGood` |

Here `Inv` adds to the checked invariants that the condition's queue holds the
parked threads, each once (`ParkedOnce`), that the count is exact, and `Control`:
past its loop `close` has nothing lent, and a completed one left the queue
empty. `NoLostWakeup` is proved by counting: a return adds one searcher and one
signalled thread, a take removes one searcher and at most one signalled thread,
and threads park only when the queue is empty.

`JavaPoolImplementsLeases` says `Spec => ImplementsLeases`. The Java `close`
retires the idle searchers one by one, which the abstract pool allows at any
moment once closing; the end of the loop, or a close that finds nothing to
retire, is `Shut`, and a close of a closed pool stutters. As for Go there are
`LeaseCases`, `LeaseFrame` and one step per action in `LeaseStep`.

`CangjiePoolProofs` proves, for every finite set of searchers and threads and
either limit of the semaphore (`CangjieAssumption`):

| theorem | says |
|---|---|
| `CangjiePoolTypeOK` | `[]TypeOK` |
| `CangjiePoolOneOwner` | `[]OneOwner` |
| `CangjiePoolCovered` | `[]Covered`: for each queued searcher there is a permit, or a thread on its way with one |

`Inv` is `TypeOK`, `Owned` (one owner, no matter between which two operations),
`CountExact` (who is counted, who was lost by a search that threw, which close
in a return threw) and `Control`. `Covered` is not checked by a run; it is the
reason a permit and a searcher, counted apart, do not drift apart, and is proved
from `Inv` on its own.

`ServiceProofs` proves, for all files, configurations, searchers and goroutines
(`SearchersAssumption`, `WaitAssumption`, and `NilAssumption`: no file is nil):

| theorem | says |
|---|---|
| `ServiceTypeOK` | `[]TypeOK` |
| `ServiceOneFilePerAnswer` | `[]OneFilePerAnswer` |
| `ServiceAnswerOfItsVersion` | `[]AnswerOfItsVersion` |
| `ServiceFailedNewLeavesOnlyV4` | `[]FailedNewLeavesOnlyV4` |
| `ServiceClosedLeavesNothing` | `[]ClosedLeavesNothing` |
| `ServiceLoans` | `[]Loans`: from borrow to return a goroutine holds exactly one searcher, of the right pool, and otherwise none |
| `ServiceUsesLeases` | every step is a step of each abstract pool or leaves it alone |

`Inv` has a part for each phase in the life of a service: `Quiet` (nobody
searches before it is ready), `Construction` (what each pool holds while one
after the other is made or undone), `Cached` (the cached file, the path and the
open files agree unless a file moved), `Loans`, `Closed` (a pool whose close
did not give up is shut and stays so) and `AnswersSound` (each answer's sources).
None is inductive alone: an answer is sound because of what was cached, and what
was cached is intact because construction is over when searching begins.

`SegmentsProofs` and `MakerProofs` prove, for every number of addresses
(`MaxIPAssumption`), block size (`BlockSizeAssumption`), set of sources
(`SourcesAssumption`: sequences of lines, ordered or not, overlapping or not,
inverted or not) and set of field lists:

| theorem | says |
|---|---|
| `MakerTypeOK` | `[]TypeOK` |
| `MakerSearchFinds` | `NoWrap` implies `[]SearchFinds` |
| `MakerNeverWrongRegion` | `NoWrap` implies `[]NeverWrongRegion` |
| `MakerVectorDelimitsBlocks` | `NoWrap` implies `[]VectorDelimitsBlocks` |

`NoWrap` says that the source has no line at address 0 right behind a line that
ends at the last address and, filtered, has the same region. It is a predicate on
the source and the field list of one behaviour. It is needed:
`maker_answers` shows what happens otherwise, and nothing else is excluded. The
argument runs along the data:

1. `Says(list, ip, r)`: some segment of the list gives `ip` the region `r`. One
   merge keeps what a list says (`MergeLineSays`), hence all of them do
   (`MergeSays`); so does sorting (`LoadOrderSays`, over `OrderExists`: an
   order by starts exists, so the `CHOOSE` in `SortedByStart` has a value).
2. The loader's test of neighbours orders every two segments
   (`InOrderIsOrder`), so no two of them speak of one address.
3. Splitting keeps what is said, keeps the order, and leaves each piece in one
   block (`SplitSays`, `SplitAllSays`).
4. Setting a block's pointers for the next entry of an ordered index keeps all
   blocks delimited (`VectorExtends`).
5. The loop of the search computes what its rounds say (`ProbeRounds`: the
   recursion of `Probe` is well-founded on the width left). What it finds, an
   entry says (`ProbeSound`, with no assumption about order); in an ordered
   index, what an entry between its bounds says it finds (`ProbeFinds`),
   although its upper bound starts one position too high.

The inductive invariant `IInv` carries this through the writes. While entries
are written, those in the file and those left make up the pieces and the
pointers in memory delimit the entries already there (`Indexing`); a vector
index that is not zero is in the file only when the segment index is complete
(`VectorLast`). That is why a stopped maker leaves no wrong answers: the
vector index is written last, and a zero pointer answers nothing.

`EditorProofs` proves, for every number of addresses of both versions and every way
to order them among each other (`OtherAssumption`, `BadLineAssumption`), every set of
sources, of put files and of lines of the other version (`SourcesAssumption`,
`PutFilesAssumption`):

| theorem | says, under `Sensible` |
|---|---|
| `EditorTypeOK` | `[]TypeOK` |
| `EditorContinuous` | `[]Continuous` |
| `EditorNoSilentLoss` | `[]NoSilentLoss` |
| `EditorCutSaveUsable` | `[]CutSaveUsable`, if every source loads |
| `EditorImplementsTable` | `ImplementsTable` |
| `EditorFileApplied` | `FileApplied` |

`Sensible` says that no source and no put file has lines
that meet at the seam between the last address and address 0, which `MergeLine`
joins to a segment that starts behind its end (`maker_answers` has the same merge in
the maker), and that a source that loads is in order. The loader's overlap test
does not ensure that: it asks `RightBehind` before `After` (`editor.go:124-126`),
and a segment at address 0 is right behind one that ends at the last address,
so a source with `0..MaxIP` and a second line at 0 loads. Nothing is assumed of the
sessions: sources without a segment, files left empty by a save that was cut before
its first line, torn lines, and puts of the other version are all among them, and the
properties themselves say what they except (`astray`, `spoilt`).

`Tiles(list, lo, hi)` carries the argument: the list is in order and every address
from `lo` to `hi` is in one of its segments. Lists that tile neighbouring ranges
tile the whole when put together (`TilesConcat`); a list that tiles all addresses
is continuous (`TilesContinuous`). From these, with `Says` as above:

1. Padding makes any list in order tile all addresses, and adds to what it says
   nothing but empty regions (`PadSays`, by induction along the list).
2. In a list that tiles all addresses, the scan of `PutSegment` stops at the
   segments with the first and the last address of the new one (`Hits`); what is
   left of them tiles the addresses around it (`HeadPartTiles`, `TailPartTiles`,
   `TilesAround`), so the new list tiles all addresses and its table is the old one,
   overridden (`PutTable`). That the early return is never taken is part of it: a put
   into such a list always raises the flag. Which segment holds an address of
   the version is a matter of that version alone (`OwnHolds`).
3. A save writes lines in order that say what the list says, but for empty regions
   (`SaveSays`); a part of it says the same up to some address and nothing behind it
   (`SavedPart`). Merging lines in order leaves them in order (`MergeInOrder`), so
   what a save left, cut or not, loads again (`OrderedLoads`). A torn line that parses
   starts where the line did and ends no later, so it lies behind all that was written
   and the lines stay in order (`TornPart`).
4. Which line of a file has the last word on an address (`Wins`) survives merging:
   a line that is joined to the one before it has its region, so whoever won still
   wins (`MergeWins`). Putting the segments one by one gives each address its
   winner's region (`PutSteps`, `PutWins`), hence the file is overlaid line by
   line (`FileOverlays`).

`IInv` adds to `Tiles`, which it claims of a list that has not gone astray, that the
file is sound if not spoilt, and one part for each mode: with
the flag down the tables agree (`OpenPart`); while saving, what is written and what
is not make up the save, in this order (`SavingPart`). `NoSilentLoss` alone is not
inductive: the last write must know what the earlier ones left.

The facts about all lists are proved by induction on a number, although the
library's induction theorems take an operator and cannot be used: `SetInduction`
states induction for a *set* of numbers, which is an ordinary variable, and is
derived from `WFMin`. A recursive definition is then reached through its
equation, which is a fact about one function (`MergeSteps`, `FlattenSteps`,
`ProbeRounds`).

`PipelineProofs` proves, for every set of sources, of field lists and of ways to
clear (`SourcesAssumption`, `FlagsAssumption`), number of addresses and block size:

| theorem | says |
|---|---|
| `PipelineTypeOK` | `[]TypeOK`, of any source |
| `PipelineOutputRewritten` | `NoSeams` implies `[]OutputRewritten` |
| `PipelineNothingForeign` | `NoSeams` implies `[]NothingForeign` |
| `PipelineDatabaseOfSource` | `NoSeams` implies `[]DatabaseOfSource` |
| `PipelineGenAccepts` | `NoSeams` implies `[]GenAccepts` |
| `PipelineBenchTells` | `NoSeams` implies `[]BenchTells` |

`NoSeams` is `NoWrap` for the two merges of the pipeline: neither the rewritten
lines nor an output, in any order the sort may give it, has a line at address 0
right behind a line with the same region that ends at the last address. For
sources whose lines do not overlap only the first part is a restriction
(`ApartHasNoSeams`), and it is the one of `maker_answers`; in a sorted output such a seam needs a line from 0 to
the last address beside another line at 0. Without it `GenAccepts` fails on such
a pair: process writes both lines, and gen joins them before it looks for
overlaps. A source that cannot be rewritten as a whole meets no merge, and
`NoSeams` asks nothing of it.

1. *Field lists.* The numbers of an accepted list, sorted, are those listed
   (`FieldsListed`, `FieldsSorted`), and if none is listed twice there is only one
   way to list a set in ascending order (`AscendingIsOnly`), so the code's
   `GetFilterFields` and the `Ascending` of the specification are the same function
   (`RewrittenAsWanted`).
2. *process.* `ProcessInv`: the output begins one of the orders of the merged,
   rewritten lines, at every moment, and is one of them when finished. An order
   says what the lines say (`OrderSays`, from `MergeSays` and `SortedSays`), so a
   beginning of it says nothing else (`OutputOfSource`) and a finished one all of it
   (`SourceInOutput`).
3. *Overlaps.* Merging hides no overlap and makes none (`MergeApart`), sorting
   changes none (`SortedApart`), and a sorted list passes the loader's test of
   neighbours exactly when its segments are apart (`SortedInOrder`). With these
   the outcome of gen is decided by the source alone (`InputInOrder`).
4. *gen.* `P` is `MakerProofs` instantiated on whatever file gen reads. Its
   assumptions on the constants are proved of the instance (`MakerAssumptions`) and
   tlapm asks for them wherever a lemma of `P` is cited. The pipeline's own
   instance of `Maker` differs in constants only, so each of its steps is a step of
   `P` (`MakerSteps`). `DbInv` says that the maker's file is one of the two inputs
   and that a file it cannot read leaves no trace; `FileInv` that any other file
   satisfies `P!IInv`. Where gen starts, the initial condition of `P` holds
   (`GenerateInv`), and from there on every step keeps its invariant
   (`FileStepInv`). What a file says is then `FileSays` of `MakerProofs`.

The inductive invariant is `PipelineInv`, the conjunction of the four. `NoSeams`
belongs to it because gen starts in the middle of a behaviour: that its file has no
wrap (`NoWrapOfInput`) follows only from what process has made of the source.

Only model-checked, and why:

* liveness (`BorrowAnswered`, `FinishedThenAllClosed`, `IdleMeetsParked`,
  `CloseReleases`, `SearchAnswered`, `ClosedReleasesAll`): proofs under fairness need ENABLED, out of the prover's
  reach;
* that a database is finished at all: the theorems about files speak of what is
  there when the maker is done, or was stopped, and of why it failed.

## 6. What is not modelled

* *Formatting, parsing and encoding*: text of addresses and lines, byte order of index
  entries; a line in CIDR notation, which `ParseSegment` accepts (`segment.go:37`), is
  the line of its range. The abstraction of an IPv4 or IPv6 address is its
  position in the order `IPCompare` defines.
* *Cache policies of the searcher*: vector cache and content buffer hold the
  bytes of the file and change where a read goes, not what it returns.
* *Sizes*: the limits of a file of 4 GiB and a region of 65,535 bytes.
* *`Append`* of the maker: an operation no command calls. *The interactive search*
  and the reading of flags in `cmd/`: no state.
* *C, C++, Rust, Python, PHP, JavaScript, Lua and nginx bindings*: the search of
  `XdbFile` with one searcher per caller. *Java, Python, Rust and C# makers*: ports
  of the Go maker.
* *`createSearcher`* of the binding's `main.go`, which makes one searcher without
  a service: it verifies one opening of the path, caches from a second and
  searches a third, as `OneFilePerAnswer` excludes for the service.
* *The services of Java and Cangjie*: two pools side by side, as in `Service`.
* *Erlang*: what a crash leaves to the next worker depends on poolboy and on the
  supervisor's restart strategy, which are not in the repository; the reading of
  a partly filled table cannot be decided from the code that is. *C#*: one
  shared stream, one interleaving; the hazard says all there is.

Hazards of this code that no property speaks of:

* a searcher pushed into the channel of a Go pool whose close gave up stays open
  (`searcher_pool.go:124`): the channel owns it, and the properties of the service
  except such a pool;
* `Ip2Region.CloseTimeout(d)` takes up to `2d` with two pools (`ip2region.go:185`), where
  the README of the binding says maximum;
* `put_file` drops the segment that is pending when it meets a bad line
  (`editor.go:365`), and a line of the other version is put without a word
  (`editor.go:195`): the model does both, no property calls either wrong;
* a second `CloseTimeout` of the Go pool closes a closed channel and panics
  (`searcher_pool.go:108`): there is no later state;
* in memory all goroutines share one searcher and race on its `ioCount`
  (`binding/golang/xdb/searcher.go:132`): every store is a 0;
* `Verify` takes the width of pointers from the header, searches decode four
  bytes (`binding/golang/xdb/util.go:156`): needs a file beyond 4 GiB, as does the
  sum in `uint32` at `maker.go:269`;
* a file rebuilt in place under open handles: `Replace` is a move;
* `process` truncates its destination before it reads its source
  (`processor.go:44`), so one path for both empties it: the paths are distinct;
* `bench` prints the wrong error variable when it fails (`bench.go:129`);
* Java: a parked borrower may starve (`SearcherPool.java:81`), a failed
  construction leaves files to the garbage collector (`:63`), a throwing close
  of the v4 pool skips the v6 pool (`Ip2Region.java:169`);
* Cangjie: the in-memory searcher and the pool of the family that is switched
  off open the path too, and no close reaches them (`ip2region.cj:63`).

## 7. Plan

Done: the three pools, the Go service, maker and search, the editor, the processor
and the way from a source to a database, with all their safety properties proved.

What would come next: the services of Java and Cangjie as compositions of two
pools, as `Service` is for Go; the limits of a region of 65,535 bytes and a file of
4 GiB; and `CloseReleases` of the Cangjie pool split into a safety part, which
could be proved from `Covered`, and the liveness that is left.
