------------------------------ MODULE PplFind ------------------------------
(***************************************************************************)
(* PplmeMatchingPplProvider::Impl::FindMatchingPpl, TryFindPpl and         *)
(* TryFindPplAsync, with the NoddyWorkerPool that runs the worklettes      *)
(* (libpplmeengine/pplme_matching_ppl_provider.cc).                        *)
(*                                                                         *)
(* A finder is a thread inside FindMatchingPpl.  It offers the cells of    *)
(* its route, nearest first, to TryFindPpl, which queues one worklette per *)
(* cell; pool threads search the cells and merge what they find into the   *)
(* FindContext, which lives on the finder's stack.                         *)
(*                                                                         *)
(* The pool is module NoddyWorkerPool.  A context's mutex is held while    *)
(* QueueWorklette takes work_mutex_, and across notify_all, so its owner   *)
(* is explicit.                                                            *)
(***************************************************************************)
EXTENDS NoddyWorkerPool, FiniteSets

CONSTANTS
  Finders,             \* threads that call FindMatchingPpl
  NoThread,            \* the owner of a mutex nobody holds
  Cells,               \* cells of the grid
  People,
  Route,               \* Route[f]: the cells Sqiral offers to f, in order
  Hits,                \* Hits[f][c]: who in c matches f's parameters
  MaxPpl,              \* max_ppl_
  PerFindConcurrency   \* per_find_concurrency_

(* The CHECKs of the constructor, a machine that knows how many threads it *)
(* can run, and what Sqiral provides: a route is not empty and offers no   *)
(* cell twice (module Sqiral).                                             *)
ASSUME PplFindAssumption ==
  /\ Finders \cap Workers = {}
  /\ Workers # {}
  /\ NoThread \notin Finders \cup Workers
  /\ Route \in [Finders -> Seq(Cells)]
  /\ \A f \in Finders : Route[f] # <<>>
  /\ \A f \in Finders : \A i, j \in 1..Len(Route[f]) :
       Route[f][i] = Route[f][j] => i = j
  /\ Hits \in [Finders -> [Cells -> Seq(People)]]
  /\ MaxPpl \in Nat \ {0}
  /\ PerFindConcurrency \in Nat \ {0}

(* AddPerson puts a person into one cell (module PplGrid), and the search  *)
(* of a cell finds nobody twice.                                           *)
ASSUME HitsAssumption ==
  \A f \in Finders : \A c, d \in Cells :
    \A i \in 1..Len(Hits[f][c]), j \in 1..Len(Hits[f][d]) :
      Hits[f][c][i] = Hits[f][d][j] => c = d /\ i = j

VARIABLES
  pc,        \* pc[f]: where finder f is
  next,      \* next[f]: the position in Route[f] that Sqiral offers next
  asleep,    \* the finders blocked in context.condvar
  lock,      \* lock[f]: the owner of f's context.mutex
  ppl,       \* ppl[f]: context.ppl
  pending,   \* pending[f]: context.pending_cells
  done,      \* done[f]: context.we_done_here
  answer     \* answer[f]: what f's last call returned

context == <<ppl, pending, done>>
finderVars == <<pc, next, answer>>
callVars == <<finderVars, asleep, lock, context>>
vars == <<pc, next, asleep, lock, ppl, pending, done, answer,
          work, die, wpc, job>>

-----------------------------------------------------------------------------
(* The finder's side.  "idle" and "returned" are outside FindMatchingPpl.  *)

FinderPcs == {"idle", "try", "queue", "drain", "final", "returned"}

(* The finder's stack frame, and so its context, exists.                   *)
Live(f) == pc[f] \notin {"idle", "returned"}

Full(f) == Len(ppl[f]) >= MaxPpl

(* Mutants: FindMatchingPpl forgets its own wait; one cell too many.       *)
WaitOver_NotFinal(f) ==
  \/ /\ pc[f] = "try"
     /\ done[f] \/ Full(f) \/ Cardinality(pending[f]) < PerFindConcurrency
  \/ pc[f] = "drain" /\ pending[f] = {}
  \/ pc[f] = "final"

WaitOver_OneMore(f) ==
  \/ /\ pc[f] = "try"
     /\ done[f] \/ Full(f) \/ Cardinality(pending[f]) <= PerFindConcurrency
  \/ pc[f] \in {"drain", "final"} /\ pending[f] = {}

(* The predicates of the three condvar waits: TryFindPpl's first and       *)
(* second, and FindMatchingPpl's.                                          *)
WaitOver(f) ==
  \/ /\ pc[f] = "try"
     /\ done[f] \/ Full(f) \/ Cardinality(pending[f]) < PerFindConcurrency
  \/ /\ pc[f] \in {"drain", "final"}
     /\ pending[f] = {}

(* f runs and can have its context's mutex.                                *)
HasMutex(f) == f \notin asleep /\ lock[f] = NoThread

(* The call enters FindMatchingPpl with a new context.  The provider's     *)
(* owner does not destroy it under a caller, so no call begins after die_. *)
Call(f) ==
  /\ ~Live(f)
  /\ ~die
  /\ pc' = [pc EXCEPT ![f] = "try"]
  /\ next' = [next EXCEPT ![f] = 1]
  /\ answer' = [answer EXCEPT ![f] = <<>>]
  /\ UNCHANGED <<asleep, lock, context, poolVars>>

(* A wait whose predicate is false: the mutex is released with the sleep.  *)
Wait(f) ==
  /\ pc[f] \in {"try", "drain", "final"}
  /\ HasMutex(f)
  /\ ~WaitOver(f)
  /\ asleep' = asleep \cup {f}
  /\ UNCHANGED <<finderVars, lock, context, poolVars>>

(* TryFindPpl finds enough people: no cell is queued any more, and the     *)
(* searches under way are awaited.                                         *)
TryEnough(f) ==
  /\ pc[f] = "try"
  /\ HasMutex(f)
  /\ Full(f)
  /\ done' = [done EXCEPT ![f] = TRUE]
  /\ IF pending[f] = {}
       THEN pc' = [pc EXCEPT ![f] = "final"] /\ UNCHANGED asleep
       ELSE pc' = [pc EXCEPT ![f] = "drain"] /\ asleep' = asleep \cup {f}
  /\ UNCHANGED <<next, answer, lock, ppl, pending, poolVars>>

(* TryFindPpl makes the cell pending, and keeps the mutex.                 *)
TryCell(f) ==
  /\ pc[f] = "try"
  /\ HasMutex(f)
  /\ WaitOver(f)
  /\ ~Full(f)
  /\ ~done[f]
  /\ pending' = [pending EXCEPT ![f] = @ \cup {Route[f][next[f]]}]
  /\ lock' = [lock EXCEPT ![f] = f]
  /\ pc' = [pc EXCEPT ![f] = "queue"]
  /\ UNCHANGED <<next, answer, asleep, ppl, done, poolVars>>

(* Mutant: the spiral offers the cell again.                               *)
QueueWorklette_Again(f) ==
  /\ pc[f] = "queue"
  /\ Queue(<<f, Route[f][next[f]]>>)
  /\ lock' = [lock EXCEPT ![f] = NoThread]
  /\ pc' = [pc EXCEPT ![f] = "try"]
  /\ UNCHANGED <<next, answer, asleep, context>>

(* QueueWorklette, then TryFindPpl releases the mutex and returns false:   *)
(* Sqiral goes on to the next cell, or has no more.                        *)
QueueWorklette(f) ==
  /\ pc[f] = "queue"
  /\ Queue(<<f, Route[f][next[f]]>>)
  /\ lock' = [lock EXCEPT ![f] = NoThread]
  /\ next' = [next EXCEPT ![f] = @ + 1]
  /\ pc' = [pc EXCEPT ![f] = IF next[f] = Len(Route[f]) THEN "final" ELSE "try"]
  /\ UNCHANGED <<answer, asleep, context>>

(* TryFindPpl's second wait is over; it returns true and Sqiral stops.     *)
Drained(f) ==
  /\ pc[f] = "drain"
  /\ HasMutex(f)
  /\ WaitOver(f)
  /\ pc' = [pc EXCEPT ![f] = "final"]
  /\ UNCHANGED <<next, answer, asleep, lock, context, poolVars>>

(* Mutant: no resize.                                                      *)
Resized_Not(f) == ppl[f]

(* FindMatchingPpl's resize.                                               *)
Resized(f) == IF Len(ppl[f]) > MaxPpl THEN SubSeq(ppl[f], 1, MaxPpl) ELSE ppl[f]

(* FindMatchingPpl copies the people it answers with and returns, which    *)
(* destroys the context.                                                   *)
Return(f) ==
  /\ pc[f] = "final"
  /\ HasMutex(f)
  /\ WaitOver(f)
  /\ answer' = [answer EXCEPT ![f] = Resized(f)]
  /\ pc' = [pc EXCEPT ![f] = "returned"]
  /\ ppl' = [ppl EXCEPT ![f] = <<>>]
  /\ done' = [done EXCEPT ![f] = FALSE]
  /\ UNCHANGED <<next, asleep, lock, pending, poolVars>>

(* A condition variable may wake a thread that nobody notified.            *)
SpuriousWake(f) ==
  /\ f \in asleep
  /\ asleep' = asleep \ {f}
  /\ UNCHANGED <<finderVars, lock, context, poolVars>>

-----------------------------------------------------------------------------
(* The worklette's side: TryFindPplAsync in a pool thread.                 *)

WorkerPcs == {"top", "asleep", "woken", "start", "search", "notify", "unlock",
              "dead"}

Finder(w) == job[w][1]
Cell(w) == job[w][2]

(* The worklette's body still has to touch f's context.                    *)
Busy(w) == wpc[w] \in {"start", "search", "notify", "unlock"}

(* Its cell is still in pending_cells.                                     *)
Holds(w) == wpc[w] \in {"start", "search"}

(* TryFindPplAsync takes the mutex and reads we_done_here ...              *)
CanLock(w) == lock[Finder(w)] = NoThread

(* ... which is false: it releases the mutex and searches the cell.        *)
StartSearch(w) ==
  /\ wpc[w] = "start"
  /\ CanLock(w)
  /\ ~done[Finder(w)]
  /\ wpc' = [wpc EXCEPT ![w] = "search"]
  /\ UNCHANGED <<callVars, work, die, job>>

(* Mutants: the cell stays pending; the mutex is released before the       *)
(* notification.                                                           *)
EraseCell_Keeps(w) ==
  /\ lock' = [lock EXCEPT ![Finder(w)] = w]
  /\ wpc' = [wpc EXCEPT ![w] = "notify"]
  /\ UNCHANGED pending

EraseCell_Unlocked(w) ==
  /\ pending' = [pending EXCEPT ![Finder(w)] = @ \ {Cell(w)}]
  /\ wpc' = [wpc EXCEPT ![w] = "notify"]
  /\ UNCHANGED lock

EraseCell(w) ==
  /\ pending' = [pending EXCEPT ![Finder(w)] = @ \ {Cell(w)}]
  /\ lock' = [lock EXCEPT ![Finder(w)] = w]
  /\ wpc' = [wpc EXCEPT ![w] = "notify"]

(* Mutant: the early way out returns without notifying.                    *)
SkipSearch_Silent(w) ==
  /\ wpc[w] = "start" /\ CanLock(w) /\ done[Finder(w)]
  /\ pending' = [pending EXCEPT ![Finder(w)] = @ \ {Cell(w)}]
  /\ lock' = [lock EXCEPT ![Finder(w)] = w]
  /\ wpc' = [wpc EXCEPT ![w] = "unlock"]
  /\ UNCHANGED <<finderVars, asleep, ppl, done, work, die, job>>

(* ... or true: the cell is given up unsearched.                           *)
SkipSearch(w) ==
  /\ wpc[w] = "start"
  /\ CanLock(w)
  /\ done[Finder(w)]
  /\ EraseCell(w)
  /\ UNCHANGED <<finderVars, asleep, ppl, done, work, die, job>>

(* The search over, its people join the context's under the mutex.         *)
Merge(w) ==
  /\ wpc[w] = "search"
  /\ CanLock(w)
  /\ ppl' = [ppl EXCEPT ![Finder(w)] = @ \o Hits[Finder(w)][Cell(w)]]
  /\ EraseCell(w)
  /\ UNCHANGED <<finderVars, asleep, done, work, die, job>>

(* context->condvar.notify_all, the mutex still held.                      *)
Notify(w) ==
  /\ wpc[w] = "notify"
  /\ asleep' = asleep \ {Finder(w)}
  /\ wpc' = [wpc EXCEPT ![w] = "unlock"]
  /\ UNCHANGED <<finderVars, lock, context, work, die, job>>

(* The last touch of the context; the worklette is over.                   *)
Unlock(w) ==
  /\ wpc[w] = "unlock"
  /\ lock' = [lock EXCEPT ![Finder(w)] = NoThread]
  /\ WorkletteEnds(w)
  /\ UNCHANGED <<finderVars, asleep, context>>

(* The provider is destroyed by its owner, when no call is in progress.    *)
Die ==
  /\ \A f \in Finders : ~Live(f)
  /\ Destroy
  /\ UNCHANGED callVars

-----------------------------------------------------------------------------
Init ==
  /\ pc = [f \in Finders |-> "idle"]
  /\ next = [f \in Finders |-> 1]
  /\ asleep = {}
  /\ lock = [f \in Finders |-> NoThread]
  /\ ppl = [f \in Finders |-> <<>>]
  /\ pending = [f \in Finders |-> {}]
  /\ done = [f \in Finders |-> FALSE]
  /\ answer = [f \in Finders |-> <<>>]
  /\ PoolInit

FinderStep(f) ==
  \/ Wait(f) \/ TryEnough(f) \/ TryCell(f) \/ QueueWorklette(f)
  \/ Drained(f) \/ Return(f)

WorkerStep(w) ==
  \/ PoolStep(w) /\ UNCHANGED callVars
  \/ StartSearch(w) \/ SkipSearch(w) \/ Merge(w) \/ Notify(w) \/ Unlock(w)

Next ==
  \/ \E f \in Finders : Call(f) \/ FinderStep(f) \/ SpuriousWake(f)
  \/ \E w \in Workers : WorkerStep(w) \/ (WorkerSpuriousWake(w) /\ UNCHANGED callVars)
  \/ Die
  \/ Joined /\ UNCHANGED vars

(* Every thread that can run is eventually run, and gets a mutex that is   *)
(* free again and again.  Calls, the destructor and spurious wakeups are   *)
(* the environment's and have no fairness.                                 *)
Fairness ==
  /\ \A f \in Finders : WF_vars(FinderStep(f))
  /\ \A w \in Workers : WF_vars(WorkerStep(w))

Spec == Init /\ [][Next]_vars

FairSpec == Spec /\ Fairness

-----------------------------------------------------------------------------
(* What must hold of it.                                                   *)

(* The values the variables take.                                          *)
TypeOK ==
  /\ pc \in [Finders -> FinderPcs]
  /\ next \in [Finders -> Nat \ {0}]
  /\ asleep \subseteq Finders
  /\ lock \in [Finders -> Finders \cup Workers \cup {NoThread}]
  /\ ppl \in [Finders -> Seq(People)]
  /\ pending \in [Finders -> SUBSET Cells]
  /\ done \in [Finders -> BOOLEAN]
  /\ answer \in [Finders -> Seq(People)]
  /\ work \in Seq(Finders \X Cells)
  /\ die \in BOOLEAN
  /\ wpc \in [Workers -> WorkerPcs]
  /\ job \in [Workers -> (Finders \X Cells) \cup {<<>>}]

(* Where a worklette for f and c can be: made pending by TryFindPpl and    *)
(* not yet queued, in the pool's queue, or on its way through a thread.    *)
BeingQueued(f, c) == pc[f] = "queue" /\ c = Route[f][next[f]]

Queued(f, c) == \E i \in 1..Len(work) : work[i][1] = f /\ work[i][2] = c

InHand(f, c) == \E w \in Workers : Holds(w) /\ Finder(w) = f /\ Cell(w) = c

(* pending_cells, which is all that tells a finder when it may return, has *)
(* exactly the cells of its worklettes that are somewhere on this way,     *)
(* under whatever interleaving of the two mutexes: none is forgotten, none *)
(* is counted that is gone.                                                *)
PendingMatchesWork ==
  \A f \in Finders, c \in Cells :
    c \in pending[f] <=> BeingQueued(f, c) \/ Queued(f, c) \/ InHand(f, c)

(* No worklette is there twice, so that each erase in TryFindPplAsync      *)
(* finds its cell (the CHECKs there).                                      *)
NoWorkletteTwice ==
  /\ \A i, j \in 1..Len(work) :
       work[i][1] = work[j][1] /\ work[i][2] = work[j][2] => i = j
  /\ \A f \in Finders, c \in Cells :
       /\ BeingQueued(f, c) => ~Queued(f, c) /\ ~InHand(f, c)
       /\ Queued(f, c) => ~InHand(f, c)
  /\ \A v, w \in Workers :
       Holds(v) /\ Holds(w) /\ Finder(v) = Finder(w) /\ Cell(v) = Cell(w) => v = w

(* A cell that TryFindPpl inserts into pending_cells is new to it (the     *)
(* CHECK there), though earlier cells come and go as the pool likes.       *)
InsertIsNew ==
  \A f \in Finders : pc[f] = "try" => Route[f][next[f]] \notin pending[f]

(* The FindContext is on the finder's stack: as long as a worklette that   *)
(* points to it is queued or running, up to the pool thread's release of   *)
(* the context's mutex, FindMatchingPpl has not returned.                  *)
ContextOutlivesWork ==
  /\ \A i \in 1..Len(work) : Live(work[i][1])
  /\ \A w \in Workers : Busy(w) => Live(Finder(w))

(* A finder is not left asleep with nothing to wait for: if its predicate  *)
(* has come true while it sleeps, the thread that made it true is about to *)
(* notify it.  Both of TryFindPplAsync's paths must notify for this.       *)
NoMissedNotify ==
  \A f \in asleep : WaitOver(f) =>
    \E w \in Workers : wpc[w] = "notify" /\ Finder(w) = f

(* The pool's threads leave when die_ is set without looking at the queue. *)
(* That abandons no worklette, whose finder would wait for ever.           *)
NoWorkAbandoned == die => work = <<>> /\ \A w \in Workers : ~Busy(w)

(* One find has at most per_find_concurrency_ cells in the pool, however   *)
(* many threads are idle, so that finds share the pool.                    *)
ConcurrencyBounded ==
  \A f \in Finders : Cardinality(pending[f]) <= PerFindConcurrency

(* Where on f's route person p was found.                                  *)
At(f, p) == CHOOSE i \in 1..Len(Route[f]) :
              \E k \in DOMAIN Hits[f][Route[f][i]] : Hits[f][Route[f][i]][k] = p

-----------------------------------------------------------------------------
(* Why the safety properties hold: the inductive invariant.                *)

(* A worklette that touches a context has come out of the queue.           *)
JobsInHand == \A w \in Workers : Busy(w) => job[w] \in Finders \X Cells

(* A context's mutex is held by its finder exactly while it queues a       *)
(* worklette, and else by the thread that notifies it and unlocks.         *)
MutexOwner ==
  /\ \A f \in Finders : lock[f] \in Finders => lock[f] = f
  /\ \A f \in Finders : pc[f] = "queue" <=> lock[f] = f
  /\ \A f \in Finders, w \in Workers :
       lock[f] = w <=> wpc[w] \in {"notify", "unlock"} /\ Finder(w) = f

(* The finder's control state and its context agree.                       *)
ContextAgrees ==
  \A f \in Finders :
    /\ pc[f] \in {"try", "queue"} => next[f] <= Len(Route[f])
    /\ done[f] => pc[f] \in {"drain", "final"}
    /\ f \in asleep => pc[f] \in {"try", "drain", "final"}
    /\ Live(f) => ~die

(* What is pending has been offered, or is being queued.                   *)
PendingOffered ==
  \A f \in Finders : \A c \in pending[f] :
    /\ Live(f)
    /\ \E i \in 1..Len(Route[f]) :
         /\ Route[f][i] = c
         /\ i < next[f] \/ (i = next[f] /\ pc[f] = "queue")

(* A thread that notifies still has a context to notify.                   *)
NotifiedIsLive ==
  \A w \in Workers : wpc[w] \in {"notify", "unlock"} => Live(Finder(w))

(* The conjunction that every step preserves, in three layers: each is     *)
(* inductive relative to those before it.                                  *)
ControlInv == TypeOK /\ JobsInHand /\ MutexOwner /\ ContextAgrees

WorkInv == /\ PendingMatchesWork /\ NoWorkletteTwice
           /\ PendingOffered /\ NotifiedIsLive

WakeInv == NoMissedNotify /\ NoLostWakeup

IInv == ControlInv /\ WorkInv /\ WakeInv

-----------------------------------------------------------------------------
(* The comment in FindMatchingPpl: "Because we're likely multi-threaded,   *)
(* this list may not necessarily be in order of distance".  How far out of *)
(* order is bounded: ahead of a person found, in what has been found so    *)
(* far and in the answer, the people of fewer than per_find_concurrency    *)
(* nearer cells are missing.  With a concurrency of one, of none.          *)
NearestFirst ==
  \A f \in Finders : \A a \in {ppl[f], answer[f]} : \A j \in DOMAIN a :
    Cardinality({n \in 1..(At(f, a[j]) - 1) :
                   \E k \in DOMAIN Hits[f][Route[f][n]] :
                     \A i \in 1..j : a[i] # Hits[f][Route[f][n]][k]})
      < PerFindConcurrency

(* Every call returns, whatever the other finders do.                      *)
EveryFindReturns ==
  \A f \in Finders : (pc[f] = "try") ~> (pc[f] = "returned")

(* Seen from outside, FindMatchingPpl is a call and a return with an       *)
(* acceptable answer.                                                      *)
Abs == INSTANCE MatchingPplProvider WITH
  repository <- People,
  calling <- {f \in Finders : Live(f)},
  Matches <- [f \in Finders |->
                UNION {{Hits[f][c][k] : k \in DOMAIN Hits[f][c]} :
                         c \in {Route[f][i] : i \in DOMAIN Route[f]}}]

(* The implementation relation: every step of a find is the abstract call, *)
(* the abstract return with an acceptable answer, or not seen.             *)
ImplementsProvider == /\ Abs!Init(People)
                      /\ [][Abs!CallStep]_(Abs!vars)
                      /\ Abs!CallsReturn
=============================================================================
