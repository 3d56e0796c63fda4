-------------------------- MODULE NoddyWorkerPool --------------------------
(***************************************************************************)
(* NoddyWorkerPool, of which both providers have a copy                    *)
(* (libpplmeengine/pplme_matching_ppl_provider.cc and                      *)
(* prototype_matching_ppl_provider.cc): threads that take worklettes off a *)
(* queue, first come first served, until the pool is destroyed.            *)
(*                                                                         *)
(* work_mutex_ is only ever held for a stretch that takes no other lock,   *)
(* so each such stretch is one action.  Between "start" and "top" a thread *)
(* is inside its worklette, whose steps belong to the module that extends  *)
(* this one and has wpc range over more places.                            *)
(***************************************************************************)
EXTENDS Naturals, Sequences

CONSTANT Workers   \* the threads: hardware_concurrency of them

VARIABLES
  work,      \* work_: the worklettes queued
  die,       \* die_
  wpc,       \* wpc[w]: where thread w is
  job        \* job[w]: the worklette w popped, or <<>>

poolVars == <<work, die, wpc, job>>

PoolInit ==
  /\ work = <<>>
  /\ die = FALSE
  /\ wpc = [w \in Workers |-> "top"]
  /\ job = [w \in Workers |-> <<>>]

-----------------------------------------------------------------------------
(* Mutant: nobody is notified.                                             *)
WakeWorkers_None == wpc

(* notify_all: whoever sleeps is to look again.                            *)
WakeWorkers == [w \in Workers |-> IF wpc[w] = "asleep" THEN "woken" ELSE wpc[w]]

Queue(worklette) ==
  /\ work' = Append(work, worklette)
  /\ wpc' = WakeWorkers
  /\ UNCHANGED <<die, job>>

(* Mutant: the worklette is run but not popped.                            *)
PopWork_Leaves(w) ==
  /\ wpc[w] \in {"top", "woken"} /\ ~die /\ work # <<>>
  /\ job' = [job EXCEPT ![w] = Head(work)]
  /\ wpc' = [wpc EXCEPT ![w] = "start"]
  /\ UNCHANGED <<work, die>>

(* The lock block finds work, before the wait or after it.                 *)
PopWork(w) ==
  /\ wpc[w] \in {"top", "woken"}
  /\ ~die
  /\ work # <<>>
  /\ job' = [job EXCEPT ![w] = Head(work)]
  /\ work' = Tail(work)
  /\ wpc' = [wpc EXCEPT ![w] = "start"]
  /\ UNCHANGED die

(* Nothing to do: the thread waits, once.                                  *)
WorkerWait(w) ==
  /\ wpc[w] = "top"
  /\ ~die
  /\ work = <<>>
  /\ wpc' = [wpc EXCEPT ![w] = "asleep"]
  /\ UNCHANGED <<work, die, job>>

(* A condition variable may wake a thread that nobody notified.            *)
WorkerSpuriousWake(w) ==
  /\ wpc[w] = "asleep"
  /\ wpc' = [wpc EXCEPT ![w] = "woken"]
  /\ UNCHANGED <<work, die, job>>

(* Woken to find the queue empty again: an empty worklette is not run.     *)
NothingLeft(w) ==
  /\ wpc[w] = "woken"
  /\ ~die
  /\ work = <<>>
  /\ wpc' = [wpc EXCEPT ![w] = "top"]
  /\ UNCHANGED <<work, die, job>>

(* Either look at die_ breaks out of the loop, whatever is queued.         *)
WorkerDies(w) ==
  /\ wpc[w] \in {"top", "woken"}
  /\ die
  /\ wpc' = [wpc EXCEPT ![w] = "dead"]
  /\ UNCHANGED <<work, die, job>>

(* The worklette returns and the thread goes round its loop.               *)
WorkletteEnds(w) ==
  /\ wpc' = [wpc EXCEPT ![w] = "top"]
  /\ job' = [job EXCEPT ![w] = <<>>]
  /\ UNCHANGED <<work, die>>

PoolStep(w) == PopWork(w) \/ WorkerWait(w) \/ NothingLeft(w) \/ WorkerDies(w)

(* Mutant: the destructor sets die_ and notifies nobody.                   *)
Destroy_Silent == ~die /\ die' = TRUE /\ UNCHANGED <<work, wpc, job>>

(* ~NoddyWorkerPool up to the joins.                                       *)
Destroy ==
  /\ ~die
  /\ die' = TRUE
  /\ wpc' = WakeWorkers
  /\ UNCHANGED <<work, job>>

(* The joins have returned.                                                *)
Joined == die /\ \A w \in Workers : wpc[w] = "dead"

-----------------------------------------------------------------------------
(* The wait has no predicate; even so the pool never sleeps as a whole     *)
(* while there is work, or while it is to die.                             *)
NoLostWakeup ==
  /\ work # <<>> => \E w \in Workers : wpc[w] # "asleep"
  /\ die => \A w \in Workers : wpc[w] # "asleep"

(* The pool's destructor returns: every thread sees die_ and ends.         *)
PoolJoins == die ~> Joined
=============================================================================
