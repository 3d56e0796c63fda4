# pplMe in TLA+

pplMe finds people of about a user's age who live near a place. A daemon,
`pplmed`, holds everybody in memory in a grid of cells, one per degree, and
answers requests over TCP. This directory models it: the search and its thread
pool, the grids and the walks over them, the TCP server and client, and the
daemon that holds them together. TLC checks every part of it on small instances;
TLAPS proves the safety of both searches, of the server, of the daemon composed
of them, of the spiral and of the conversions, for every value of
their constants.

Paths below are relative to the repository; `src/...` is its source directory.

## The system

| Component | State it keeps | Operations | What is hard about it |
|---|---|---|---|
| `PplmeMatchingPplProvider` (`src/libpplmeengine`): find | per call a `FindContext` on the caller's stack: people found, pending cells, mutex, condition variable, `we_done_here` | `FindMatchingPpl`, `TryFindPpl`, `TryFindPplAsync` | pool threads hold a pointer into the caller's stack; two mutexes nest; three waits share one condition variable; four CHECKs abort the process |
| its `NoddyWorkerPool` | a queue of closures, `die_`, threads | `QueueWorklette`, `StartWorking`, the destructor | a wait without a predicate; destruction drops what is queued |
| its grid and `Sqiral` | a vector of cells | locate, index, spiral outwards | wraps at the date line, truncates to whole degrees, ends by counting corners |
| its `AddPerson` and cell search | people per cell in date-of-birth order | sorted insertion, search by a window of dates | two binary searches rely on the order; no lock |
| `PrototypeMatchingPplProvider` | per call a shared `FindPplOrchestration`: counter, mutex, condition variable, pointer to the answer | `FindMatchingPpl` (returns within a second), `GetNearbyCells` | a timeout races late worklettes; unsigned wrap-around |
| `My1stMatchingPplProvider` | a vector of cells, unsorted | add, find | works out the window of dates for each person; its index leaves the grid at latitude 90 |
| `SingleShotServer` (`src/libpplmenet`) | io thread, map of connection threads, its lock | `Start`, accept, serve, `Shutdown`, destructor | threads remove themselves from a map that Shutdown moves away |
| `Connection`, `Message` | a socket | `SendMessage`, `ReceiveMessage` | partial reads and writes, limits, closes, resets, logging that throws |
| `Client` | a connection, an io thread | `Connect`, `SendRequest`, `Disconnect`, destructor | blocking calls at both ends of one connection |
| `pplmed` (`src/pplmed`): `main`, `Server` | the provider, the server | `Go`, `HandlePplmeRequest`, destructor | a load that fails half way; destruction while requests are in flight |
| `PplSlurper` | a file name | `Populate` | stops at the first wrong line |
| `libpplmeproto` (`Convert`) | none | conversions, both ways | octet order, missing or absurd fields |
| `pplmec`: `Pplme` | a `Client` | one request, decode, print | catches nothing, never disconnects |
| `libpplmecore`, `libpplmeutils`, scripts | values, templates | | |

How they interact: `main` makes a `Server`, which loads people into the
provider through the slurper (`AddPerson`), then starts the `SingleShotServer`.
That calls `HandlePplmeRequest` back on one thread per connection; the handler
calls `FindMatchingPpl`, which queues closures on the provider's pool and waits
for them. At the other end `pplmec` drives a `Client`; both ends convert people
between the domain's values and protobuf messages with `Convert`.

What makes each correct, in short: a find returns, with the right number of
matching people and no one twice, and nothing touches its context after; the
spiral meets every cell once, nearest first; a cell search honours its window;
the prototype's answer is frozen when it is returned; the server's table holds
exactly the threads that serve, and none of them is left when Shutdown has
returned; a client gets its own answer or an error, and what it prints is what was found;
the daemon serves all of its data or does not serve.

## Modules

| Module | Models | Composes |
|---|---|---|
| `MatchingPplProvider` | what `engine::PplRepository` and `core::MatchingPplProvider` promise: people are added; concurrent calls, each with an acceptable answer | |
| `NoddyWorkerPool` | the pool, in both copies | |
| `PplFind` | the find of `PplmeMatchingPplProvider` | EXTENDS `NoddyWorkerPool`; implements `MatchingPplProvider` (`Abs`, an INSTANCE with a refinement mapping) |
| `Sqiral` | grid indexes and the spiral | |
| `PplGrid` | `AddPerson` and the search of a cell, of all three providers | |
| `PrototypeFind` | the find of `PrototypeMatchingPplProvider` | EXTENDS `NoddyWorkerPool` |
| `PrototypeGrid` | its `GetNearbyCells` | |
| `SingleShotServer` | the server, with its clients as they look from its side | |
| `Client` | the client, the framing, the far end | |
| `Convert` | the conversions | |
| `Pplmec` | the function `Pplme`, or a caller by the example in `client.h` | EXTENDS `Client` and `Convert` |
| `Pplmed` | the daemon, the slurper, the request handler | INSTANCE of `SingleShotServer` (`Net`) and of `MatchingPplProvider` (`Provider`); implements `SingleShotServer` (`ImplementsServer`) |
| `PplFind_proofs`, `PplGrid_proofs`, `PrototypeFind_proofs`, `PrototypeGrid_proofs`, `SingleShotServer_proofs`, `Sqiral_proofs`, `Pplmec_proofs` | the theorems about the module named | EXTENDS that module, `TLAPS` |
| `Pplmed_proofs` | the theorems about `Pplmed` | EXTENDS `Pplmed`; INSTANCE of `SingleShotServer_proofs` |
| `MC_*` | the values of function-valued constants for TLC | the module named |

`Pplmed` is composed of abstractions that are checked where they are defined:
its provider is `MatchingPplProvider`, which `PplFind` implements
(`ImplementsProvider`), and its server is `SingleShotServer` itself, whose
steps it takes and whose specification, with the fairness that says that the
request handler returns, it implements.

`PplGrid` has the three providers as a variable that never changes. They differ
in the insertion (sorted, or at the end for `My1stMatchingPplProvider`), in the
search (binary or linear), in whether distance counts (the prototype's
vicinity), and in what an exception does.

State and actions are named after the code wherever TLA+ lets them be. An
action is the stretch between two points at which another thread could see a
difference: a lock block that takes no other lock is one action (the pool, the
prototype's orchestration), while a mutex that is held across another lock or
a notification has an explicit owner and one action per stretch
(`context.mutex` in `PplFind`, `connection_threads_lock_` in
`SingleShotServer`). Threads have a program counter: `pc` a caller's, `wpc` a
pool thread's, `svc` a connection thread's. A wait on a condition variable
releases the mutex with the sleep, and may end spuriously at any time.

In `PplFind`, `pc[f]` is `try` inside `TryFindPpl` before it has the mutex,
`queue` when it holds it and is about to queue, `drain` in its second wait,
`final` in `FindMatchingPpl`'s own wait. A pool thread is `start`ing a
worklette, `search`ing, and `notify`ing and `unlock`ing with the mutex held.
What a search finds is a constant (`Hits`): the search of a cell is `PplGrid`'s
subject, the order of the cells (`Route`) is `Sqiral`'s, and the assumption that
a route repeats no cell is checked and proved there (`EachCellOnce`). A person is
what one `AddPerson` stored, and so in one cell (`HitsAssumption`).

In `SingleShotServer`, `io` says how far the accept handler has come, `current`
is the connection it holds, `entries` the keys of `connection_threads_`, `taken`
those that Shutdown has moved out, and `crash` which way the process went down.
In `Client`, a TCP connection is two bounded sequences of words (`wire`), a
message is a header word and as many body words as the header says, and `act[s]`
is what a side does with its socket. A caller's program counter is `app`.

An operator named `X_Y`, preceded by "Mutant", is a deliberately wrong variant
of the definition `X` that follows it: what a plausible slip in that code would
do. No specification uses these; they show, substituted for `X`, that the
properties notice.

## What the runs check

Twelve runs, each one configuration file of the same name. The types of
`PplFind`'s variables are part of `IInv`, which the run `PplFind` checks; those of
`SingleShotServer`, `PrototypeFind` and `Sqiral` are proved with their
invariants; in the other modules the comments at VARIABLES say what the values
are.

| Run | Instance | What it shows |
|---|---|---|
| `PplFind` | 2 finders, 3 pool threads, 3 cells, 4 people, at most 2 people per answer, 2 cells at a time | bookkeeping, lifetimes, wakeups, how far out of order an answer is, that every find returns and the pool joins, that the find implements the abstract provider, and that the invariant of the proofs holds |
| `Sqiral` | a planet of 2 by 4 degrees, 3 cells to a degree, every position, stopped anywhere | no cell twice, none outside the vector, none missed, nearest first, and it ends |
| `PplGrid` | 3 providers, 4 people in 2 cells, 2 searchers, 6 ages, 2 vicinities | after every order of insertions, searches that find exactly who was added, lives there, was born in the window and is near |
| `PrototypeFind` | 3 calls with 3, 1 and 0 nearby cells, 2 pool threads | exact counting, frozen answers, nothing lost, returns by the clock alone or the pool alone |
| `PrototypeGrid` | a planet of 3 by 8 degrees, 2 cells to a degree, every position, every reach | no cell twice, nor two that share a place in the vector; complete to the north |
| `PrototypeGrid_south` | 1 cell to a degree | *violated*: see Divergences |
| `Server` | 2 connections | the table of threads, which are left after Shutdown and with what to do, progress of accepts, requests and shutdowns |
| `Server_shutdown`, `Server_reset`, `Server_release` | as above | *violated*: see Divergences |
| `Pplmec` | 2 people to find, 8 other person messages, 2 requests, bodies of 0 to 3 words with a limit of 2, buffers of 2 words | what is received is whole, whatever breaks; `Pplme` returns, true if and only if it was answered, and prints the people that were found; no request hangs |
| `Pplmed` | every file of up to 2 lines, or 1 generated person; 2 requests of every kind with different matches | serves all its data or does not serve, so that no one is added during a find; destruction waits for finds; while it serves it comes down for the causes `ComesDownForACause` lists and no other; good requests are answered; it implements its server's specification |

### Bounds, and why they are enough

* `PplFind`: the finders share nothing but the pool, so two show all
  interference, and three pool threads let one search, one notify and one sleep.
  One finder's first cell holds enough people and the next too many, so that
  early ways out, drains and the resize happen; the other finder never has
  enough and runs out of cells. A limit of two pending cells is met and waited
  on. Finders call again without end.
* `Sqiral`, `PrototypeGrid`: the spans of latitude and longitude are constants
  with the Earth's 180 and 360 as one value. On the small planets the walks meet
  both poles and the date line from every position. `Sqiral` has three cells to a
  degree, so that the truncation to whole degrees shows; `PrototypeGrid` has two,
  the most at which what its run checks holds (see Divergences), on a planet wide
  enough for its quarter turn to matter. `Word`, there, is one more than the
  largest `size_t`: the assumption asks for twice the planet's rows and columns,
  and the proof shows that it makes no difference by how much it is larger.
* `PplGrid`: two people share a date of birth, one shares nothing, one was born
  after today, as a line of data may say; dates lie inside, outside and on both ends of windows; one age is too old for the
  calendar, whose first day is day 0, and one so far below zero that the window
  lies beyond its last. The vicinities are everyone, and some of two cells.
* `PrototypeFind`: more worklettes than threads, so that some are still queued
  when the second is over. A thread's next call is another call.
* `SingleShotServer`: two connections, so that one thread is in the table while
  the other is being put there; each may send, send rubbish, close without
  waiting for the answer, or reset.
  What a third would add is more of the same, and the proofs are for any number.
* `Pplmec`: the buffers hold less than a message, so that writes block half way;
  bodies reach one word over the limit. The strange messages lack a field at the
  top or in a nested message, have an id one octet short, or a date that is not
  one (a leap day of 1900, a 13th month, a year before the calendar). `Pplme`
  makes one request, the example's caller two, so that an answer could be taken
  for another's.
* `Pplmed`: a wrong line first, last or after a right one, a file that breaks off;
  answers of at most one person, with nobody to find, or somebody; two
  requests, in different phases when main stops, each good, refused, with a
  location off the planet or with an age beyond the calendar.

`CHECK_DEADLOCK FALSE` is set where the modelled program may stop without being
destroyed: everyone added and searched for (`PplGrid`), or a caller, client or
owner that simply does not go on, as they have no fairness (`Server`, `Pplmec`,
`Pplmed`). Elsewhere a final state has a
step of its own (`Joined`, `Over`, `Stop`).

### Fairness

* Threads that can run are run: weak fairness on each thread's steps. That is
  the operating system's scheduler, and all a `std::thread` promises. A mutex
  that is free again and again is taken by weak fairness alone, because the
  model's steps hold it for finitely many steps and nobody competes for one
  forever: TLC agrees.
* Calls (`Call`, `Connect`, `SendRequest`, `Start`, the destruction), standard
  input, clients, resets and spurious wakeups have none.
* The prototype's clock is fair in `ReturnsInTime` alone, its pool threads in
  `ReturnsWhenDone` alone: each is an implication from that fairness.
* `Pplme` goes on by itself (its own steps are weakly fair): it is a function
  without loops or waits of its own. The other caller of `Client` need not.
* In `SingleShotServer` and `Client` `request_handler_` is assumed to return.
  `Pplmed`'s `ImplementsServer` discharges this for the daemon, given a provider
  whose calls return; and `PplFind`'s `ImplementsProvider` shows that they do.
* No strong fairness anywhere.

## What is proved

Thirty-six theorems in eight modules. All but `PersonRoundTrip` and
`MessageRoundTrip`, which are about pure functions, say of a specification what holds in each of its states or
steps, for every value of its constants that the named assumptions admit.

| Module | Theorem | Property |
|---|---|---|
| `PplFind_proofs` | `TypeCorrect` | `TypeOK` |
| | `Invariance` | `IInv`, the inductive invariant |
| | `PendingIsExact` | `PendingMatchesWork` |
| | `EraseFindsItsCell` | `NoWorkletteTwice` |
| | `InsertIsAlwaysNew` | `InsertIsNew` |
| | `NoDanglingContext` | `ContextOutlivesWork` |
| | `NotificationsArrive` | `NoMissedNotify` |
| | `PoolIsAwake` | `NoLostWakeup` |
| | `NothingAbandoned` | `NoWorkAbandoned` |
| | `PoolIsShared` | `ConcurrencyBounded` |
| | `FindKeepsItsPromise` | the safety half of `ImplementsProvider` |
| | `NearlyInOrder` | `NearestFirst` |
| `PplGrid_proofs` | `SearchIsRight` | `SearchFindsTheWindow` |
| `PrototypeFind_proofs` | `NothingComesLate` | `AnswerFrozen` |
| | `CountIsExact` | `PendingOpsExact` |
| | `EveryCellAccounted` | `NothingLost` |
| | `TimelyIsComplete` | `CompleteUnlessPending` |
| `SingleShotServer_proofs` | `MapIsExact` | `MapHoldsTheServing` |
| | `ShutdownLeavesOnlyReleases` | `OnlyReleasesAreLeft` |
| `Pplmed_proofs` | `WholeDataServed` | `ServesWholeData` |
| | `ProviderGoesLast` | `ProviderOutlivesFinds` |
| | `OnlyKnownCauses` | `ComesDownForACause` |
| | `UsesTheServer` | the safety half of `ImplementsServer` |
| `Sqiral_proofs` | `SpiralStaysInGrid` | `InGrid` |
| | `SpiralRepeatsNothing` | `EachCellOnce` |
| | `SpiralGoesOutward` | `NothingNearerMissed` |
| | `SpiralIsComplete` | `CoversThePopulated` |
| | `SpiralIsBounded` | `EndsAtFarthestCorner` |
| `PrototypeGrid_proofs` | `NobodyIsFoundTwice` | `NobodyTwice` |
| | `NorthIsFound` | `FindsTheNorth` |
| `Pplmec_proofs` | `PersonRoundTrip` | `ToPerson(FromPerson(p)) = {p}` |
| | `MessageRoundTrip` | a message that converts to `p` is `FromPerson(p)` |
| | `MessagesComeWhole` | `WholeMessagesOnly`, of `Client` by itself (`Spec`) |
| | `MessagesComeWholeToPplme` | `WholeMessagesOnly`, with `Pplme` (`PplmeSpec`) |
| | `ResultIsHonest` | `TrueIffAnswered` |
| | `PrintsTheFound` | `PrintsWhatWasFound` |

`InsertIsNew` and `ConcurrencyBounded` are stated and proved, and checked by no
run.

### PplFind

Assumed (`PplFindAssumption`): finders and pool threads are different threads;
there is a pool thread; a route is not empty and repeats no cell; the
constructor's CHECKs (`max_ppl > 0`, `per_find_concurrency > 0`); types. Nothing is assumed about how
many finders, threads or cells there are; that `pending_cells` is finite, which
`ConcurrencyBounded` needs, is part of the invariant `PendingBounded`.

`ContextOutlivesWork`, the property everything hangs on, is not
inductive: that a finder returns only when its pending cells are gone helps
only if the pending cells are exactly the worklettes in the queue and in
threads, and only if the thread that erased the last one still holds the mutex.
So `IInv` has three layers, each inductive relative to those before:

1. `ControlInv`: types, who owns which mutex (`MutexOwner`: a finder exactly
   while it queues, a thread exactly while it notifies and unlocks), and how
   program counters, `done` and `next` fit together (`ContextAgrees`).
2. `WorkInv`: pending cells are the cells being queued, queued or in hand; each
   once; all of them offered already (`PendingOffered`, which makes the next
   insertion new because routes repeat nothing); and a thread that notifies has
   a live context (`NotifiedIsLive`).
3. `WakeInv`: a sleeper whose predicate holds has a notification on its way,
   and the pool is not asleep on work. These two need the mutex layer: a
   predicate turns true only under the mutex that the notifier still holds.

`ControlStep`, `WorkStep` and `WakeStep` prove the three, one step per action;
`InitInv` the initial states. `NoDanglingContext` and `NothingAbandoned` then
follow from `IInv`; `PoolIsShared` has an invariant of its own on top of it.

What a find answers comes on top of `IInv`, and assumes besides that nobody
is found twice (`HitsAssumption`). `AnswerInv` says that the people found come
from cells that were offered and are not pending any more, nobody twice; that
unless `we_done_here` is set everybody in those cells is among them; and that a
find stops only when it has enough, or has offered its whole route. A worklette
merges a cell that is pending until then, which is why its people are new. So a
return, where nothing is pending, is the abstract `Return` with an `Acceptable`
answer; a call is the abstract `Call`; no other step is seen (`StepIsSeen`).

`NearestFirst` has to survive the cells that are given up unsearched once there
is enough: they are pending no more, and their people are missing for good.
`OrderInv` counts the two together. The cells that are `Unfinished` - pending, or
with someone missing - are the pending ones alone as long as cells are still
offered, and become no more afterwards, so that `PerFindConcurrency` bounds them;
the cell a worklette merges is one of them, which leaves fewer nearer ones.

### PplGrid

Assumed (`PplGridAssumption`): types; that a year has days; that dates of birth
are in the calendar. Nothing is assumed about how many people there are, who
shares a date of birth or was born after today, or the ages that requests ask
for.

`PartitionPoint` is a recursive function of a part of the cell. `Halving` shows
what it is wherever its argument splits - true up to some position, false from
there on: the function that maps each part to its point next to the split
satisfies the equation, so there is such a function, and the least part on which
another differed would refute itself. That a cell in date-of-birth order splits
is all that `upper_bound` and `lower_bound` are owed. `GridInv` says that every
cell is in that order (but for `My1stMatchingPplProvider`'s, which does not need
it), and holds the people who have been added and live there, each once;
an insertion at the split keeps that (`PutInHolds`, `PutInOrder`), and in such a
cell the positions from `lower_bound`'s to the early stop are exactly those
in the window (`MatchingIsTheWindow`).

### PrototypeFind

Assumed: each call has some number of nearby cells, none included. There may be
no pool thread at all. The invariant has three layers again. `ControlInv` says
how far each call's loop is, and that a call's vector is attached exactly while
it lives; `AnswerFrozen` follows, since a late worklette finds it detached.
`WorkInv` says that each queued or running worklette is one that the loop has
passed, and there once. Then `SumInv`, which is the properties `PendingOpsExact`
and `NothingLost` themselves, is preserved: each action moves one cell at most
between the loop, the pool and the vector. `CompleteUnlessPending` is the two
put together in the step that returns.

### SingleShotServer, and Pplmed through it

`ServerInv` has the types, what the io thread has in its hands (`HandsInv`: one
connection at a time, and the lock exactly while it puts a thread into the
map), whose the threads are (`TableInv`: they are in the map, in Shutdown's
hands, or that one), and what Start and Shutdown have done (`OwnerInv`). Shutdown
takes the map under the lock, and no thread starts that finds it taken; so once
it has joined both, no thread serves any more or is about to. That is not to say
that none runs: one that has taken itself out of the map is waited for by nobody,
and has its connection to release yet, before or after the server is destroyed
(`svc` is `release`). `OnlyReleasesAreLeft` says so, and no more; what comes of
such a release is the run `Server_release`'s subject.

`Pplmed_proofs` proves nothing about threads again. `ServerRefined` shows that
each step of the daemon is a step of its server or leaves the server's variables alone -
this is the safety half of `ImplementsServer`, `UsesTheServer` - so that `ServerInv`,
substituted, is an invariant of the daemon. `DaemonInv` adds that the people in the provider are the
lines read so far, that the server starts only when all of them are, and that
who is in a find is in the request handler. The assumptions are types only.

`ComesDownForACause` needs the reasons that are gone by the time it is asked: `CrashInv`
says that whatever brought the process down has left its cause behind. The causes
in a daemon that serves are the want of a thread (`ThreadFails`); a client that has
reset its connection, or has closed it and is being answered (`PeerThrows`); and a
request in the handler with a location off the planet (`FindAborts`) or an age beyond
the calendar (`FindThrows`). A thread that finds no entry in a map that is there is
not among them, by `TableInv`; one that finds no map, a connection refused too
late and a connection released too late are, but only once `OwnerInv` says that
main is not `up` any more. These are the ways down that are modelled: a daemon
that runs out of memory comes down, too.

### Sqiral

`RouteInv` says that every cell offered is in a row `CheckOffsets` admits and
a column that `do_cell`'s wrap leaves. The rest is arithmetic: the index of such a
cell is below the product of the two widths that `CalculateSizeForPplGrid`
multiplies (`IndexInVector`), and two cells with one index are one cell
(`IndexIsOwn`, as a column is less than the row's width). Assumed: there are
degrees, and at least one cell to each.

The other four theorems are about the walk. The offsets come in an order
(`Before`: by distance, then round the diamond), and `WalkInv` says that the cells
offered are exactly those of the offsets before the next one. Each is a new cell
(`CellIsOwn`): `CheckOffsets` lets a diamond wrap by less than a turn, so that two
offsets that pass it do not meet in one column. Each populated cell has an
offset that passes, as long as the cell is far (`WayToPopulated`), because cells
with people begin whole degrees; so that what is nearer has been offered, and
at the end everything has. `corner_count` is the number of the grid's corners
among the offsets so far, and so reaches four exactly at the end of the diamond
of the farthest. That a route repeats nothing, on any planet, is what
`PplFindAssumption` asks for.

### PrototypeGrid

Assumed (`PrototypeGridAssumption`): there are degrees, the half turn is even, and
`size_t` holds twice the planet's rows and columns. The unsigned differences of
`IsTooFarFromOrigin`, one of which is always nearly the whole of `Word`, then say
exactly that a column is a quarter turn or more from the user's (`QuarterEnds`).
A walk that has passed the seam is that far away, and ends there at the latest;
so `PlaceInv` can say that the cell under the loop is on its side of the user's
column, or past the seam, where it is not taken. The row one below row 0 has the
index `Word - 1`, which is too far south from anywhere (`SouthGoesOn`).

`BehindInv` then counts: every cell taken lies behind the walk, the next one does
not, and so the cells are one more at each step. Their columns are less than half
a turn apart, which up to two cells a degree is less than the 360 places that
`GetPplIndex` gives a row, so that no two share a place. `CoveredInv` is the
converse: whatever column, and to the north whatever row, is near all the way
from the user's and lies behind has been taken; when the walk is over,
everything near is behind it. Up to two cells a degree, everybody near lives in
such a column and such a row.

### Client, Convert and Pplmec

Assumed (`PplmecAssumption`): types; a calendar whose years two octets hold; that
`Found` are people, and that each of `Strange` is a message that the `.proto` files
allow (`IsPersonMessage`). Bodies, limits and buffers may be of any size.

`PersonRoundTrip` holds for hosts of either octet order (`LittleEndian`);
`MessageRoundTrip` is its converse, that `ToPerson` accepts nothing but what
`FromPerson` makes, and loses none of it.

`ClientInv` is about the words of a message in a stream. At any time what has been
read, what is on the wire and what is not yet written are one message, in this
order: `Rest(q, r, m, g)` says that two queues hold, one after the other, the words
of `m` from number `g` on. So a side that has read a header and as many words as it
says has read the message that the other side sent (`RequestWhole`, `ReadWhole`),
wherever writes blocked; and a side that reads the end of the stream before has
not. What makes this inductive is that a socket's `act` says which of its words are
still to come, and that a closed or reset connection only ever drops words from
the end.

`PplmeInv` adds that the one response that can be on its way is the reply to
`Pplme`'s one request (`OnlyReply`), that a `SendRequest` that failed had a reason
to (`FailsForAReason`: a connection lost, or a response longer than the limit),
and what `Pplme` has made of the response. `TrueIffAnswered` and
`PrintsWhatWasFound` follow from its last conjunct (`Finished`), the latter with
the round trips.

## What is only model-checked

* Liveness, as the prover does not treat fairness and ENABLED: of `PplFind`,
  `PrototypeFind`, `SingleShotServer`, `Client`, `Pplmec` and `Pplmed`.
* The liveness halves of `ImplementsProvider` and `ImplementsServer`.

## Divergences found

Four statements of the repository's own comments that the code does not keep;
each has a run that ends in the counterexample.

1. `Server_shutdown`. `Shutdown` moves the map of threads away
   (`src/libpplmenet/single_shot_server.cc:93`) to "wait for them all to
   finish"; a thread still serving goes back to the map at line 208 and
   dereferences the null pointer left behind.
2. `Server_release`. `Service` resets its `shared_ptr` to the connection so that
   the thread "no-longer owns anything because once we remove it from the
   collection of connection threads, we need to be certain that it can't touch
   anything that may very well be about to be destroyed"
   (`single_shot_server.cc:199-202`). But the function object it was started
   with (line 163) holds another, which goes when `Service` has returned. By then
   the thread is in no map and detached, `Shutdown` does not wait for it, and
   the socket may be closed after `~Impl` has destroyed its `io_service`.
3. `Server_reset`. `ReceiveMessage` "Returns non-owning on error"
   (`src/libpplmenet/detail/connection.h:44`); but the log of the error asks for
   the remote endpoint, which throws when the peer has reset the connection.
4. `PrototypeGrid_south`. "we inspect the ppl in that cell, and neighbouring
   cells" (`src/libpplmeengine/prototype_matching_ppl_provider.h:25-26`); the
   loop to the south leaves out the user's own column
   (`prototype_matching_ppl_provider.cc:464`).

Modelled as they are, without a run that claims otherwise:

* "The number of cells per decimal degree (in each "dimension")"
  (`src/pplmed/server.h:29-30`): positions are truncated to whole degrees before
  they are multiplied by the resolution (`pplme_matching_ppl_provider.cc:214`), so
  that a resolution above one enlarges the grid without making it finer.
  `Sqiral`'s `ToCellLocator` does the same, and its properties are about the cells
  that this leaves people in (`Populated`).
* The window of dates of birth leaves out people who are a year minus a day
  past the difference, who still have the age it allows (`server.h:32-33`).
* `AddPerson` takes no lock although `ppl_repository.h:24-26` tells clients to
  ignore synchronization; `ServesWholeData` shows that `pplmed` does not need
  one, as every person is in the grid before its first request is handled.
* A request's location and age are used without a look at them. An age beyond the
  calendar makes a search throw out of a pool thread and brings the daemon down
  (`PplGrid`'s `threw`, `FindThrows` in `Pplmed`; `PplFind` is about ages that the
  calendar has room for). A position off the planet fails a CHECK, from a request
  or a data file (`FindAborts`, `ReadNowhere` in `Pplmed`).
* A client need not mean harm to bring the daemon down. One that has merely
  closed its connection resets it by its answer to the header of the response;
  the body then fails (`connection.cc:42`), and the log of that throws as in
  `Server_reset` (line 46; `PeerThrows` for a client that has `left`).
* A connection accepted during Shutdown is refused with a log that asks a
  moved-from socket for its endpoint (`Refuse`); a connection's thread that
  cannot be started ends the process (`ThreadFails`). `OnlySilenceHoldsItUp` and
  the other liveness properties are about a process that runs, and excuse both;
  `ComesDownForACause` has that the former does not happen before the shutdown.
* The receiver alone enforces the length limit, and a response is as long as
  the people found make it (`Client`).
* `pplmec` catches nothing, so that a reset ends it with an exception
  (`Uncaught`); and a `Client` whose `Connect` could not start its thread
  throws from its destructor (`JoinThrows`).
* A second `SendRequest` on one connection fails, as the server is single-shot,
  although `client.h` says "May be called multiple times".
* The prototype's distances do not wrap at the date line; its rows next to the
  poles are not entered from outside.
* The prototype truncates to whole degrees, too (`ToCellLocator`), but walks by
  cells, and `GetPplIndex` multiplies rows by 360 whatever the resolution
  (`prototype_matching_ppl_provider.cc:329`). From three cells a degree on, the
  walk may stop before the cell where a near neighbour is, even to the north, and
  a long enough walk meets one place under two locators and finds its people
  twice: `FindsTheNorth` and `NobodyTwice` claim no more than two.

Seen while reading, and outside the models: `My1stMatchingPplProvider` sizes its
vector for 180 by 360 cells, so that latitude 90 indexes past its end and
longitude 180 shares the cell of the next row's first column.

## What is not modelled, and why

* `libpplmecore`'s `IsValid`, which neither the daemon nor the client calls.
  Its classes are immutable values: their fields are `Convert`'s records.
* `libpplmeutils`: templates that forward, and helpers for tests.
* In `pplmec`, the age that is printed and the parsing of the command line; in
  `pplmed`, the flags.
* What a field of a data line looks like: a line is right, wrong, or right with
  a home that is not on the planet.
* `hardware_concurrency() == 0`, where the pool has no threads (named as a
  hazard, outside `PplFindAssumption`), and exhaustion of memory.
* Ages so large that the arithmetic of dates wraps (boost's months and years have
  16 bits) and comes to a date in the calendar again, instead of throwing.
* The cosine of `ApproxDistance`: a nondeterministic reach, north-south and
  east-west. The haversine filter on people in the prototype's search: a
  vicinity, which is any set of people.
* The cell of a position in `My1stMatchingPplProvider`: `PplGrid` is given each
  person's cell.
* asio, glog and protobuf, except as the code uses them; the dataset script, the
  builds, the documentation's pages.

## The plan

The models came in the order of importance: `MatchingPplProvider`,
`NoddyWorkerPool`, `PplFind`, `Sqiral`, `SingleShotServer`, `PplGrid`,
`PrototypeFind`, `PrototypeGrid`, `Client`, `Pplmed`, `Convert`, `Pplmec`; every
component that changes state has its module. Every safety property
that a run checks is proved, and the safety halves of the refinements. What is
left to the model checker is liveness.
