--------------------------- MODULE PplFind_proofs ---------------------------
(***************************************************************************)
(* The safety properties of PplFind, proved for any number of finders,     *)
(* pool threads, cells and people, any routes, and any limits.             *)
(*                                                                         *)
(* IInv is inductive in three layers.  ControlInv is preserved by itself   *)
(* (ControlStep); WorkInv, which follows each worklette on its way, is     *)
(* preserved given ControlInv (WorkStep); WakeInv, which is about the      *)
(* sleepers, is preserved given ControlInv (WakeStep).  AnswerOK, which is *)
(* about who is found, is preserved given IInv.                            *)
(***************************************************************************)
EXTENDS PplFind, FiniteSetTheorems, SequenceTheorems, TLAPS

(* Finders and pool threads are different, so a mutex's owner tells which. *)
LEMMA Threads ==
  /\ Finders \cap Workers = {}
  /\ NoThread \notin Finders \cup Workers
BY PplFindAssumption

(* A finder that offers a cell has a cell of its route to offer.           *)
LEMMA NextCell ==
  ASSUME TypeOK, ContextAgrees, NEW f \in Finders, pc[f] \in {"try", "queue"}
  PROVE  next[f] \in 1..Len(Route[f]) /\ Route[f][next[f]] \in Cells
<1>1. next[f] \in 1..Len(Route[f])
  BY PplFindAssumption DEF TypeOK, ContextAgrees
<1>2. Route[f] \in Seq(Cells)
  BY PplFindAssumption
<1> QED BY <1>1, <1>2

(* notify_all leaves no pool thread asleep, and moves no other thread.     *)
LEMMA Awake ==
  ASSUME TypeOK
  PROVE  /\ WakeWorkers \in [Workers -> WorkerPcs]
         /\ \A w \in Workers : /\ WakeWorkers[w] # "asleep"
                               /\ wpc[w] # "asleep" => WakeWorkers[w] = wpc[w]
                               /\ wpc[w] = "asleep" => WakeWorkers[w] = "woken"
BY DEF TypeOK, WakeWorkers, WorkerPcs

(* Every step keeps the types, the owners of the mutexes, and the          *)
(* agreement of each finder with its context.                              *)
LEMMA ControlStep == ControlInv /\ [Next]_vars => ControlInv'
<1> SUFFICES ASSUME ControlInv, [Next]_vars PROVE ControlInv'
  OBVIOUS
<1> USE DEF ControlInv, context, finderVars, callVars, poolVars
<1>1. ASSUME NEW f \in Finders, Call(f) PROVE ControlInv'
  <2>1. TypeOK' BY <1>1 DEF Call, TypeOK, FinderPcs
  <2>2. JobsInHand' BY <1>1 DEF Call, JobsInHand, Busy, TypeOK
  <2>3. MutexOwner' BY Threads, <1>1 DEF Call, MutexOwner, Finder, TypeOK, Live
  <2>4. ContextAgrees' BY <1>1, PplFindAssumption DEF Call, ContextAgrees, Live, TypeOK
  <2> QED BY <2>1, <2>2, <2>3, <2>4
<1>2. ASSUME NEW f \in Finders, Wait(f) PROVE ControlInv'
  <2>1. TypeOK' BY <1>2 DEF Wait, TypeOK
  <2>2. JobsInHand' BY <1>2 DEF Wait, JobsInHand, Busy
  <2>3. MutexOwner' BY Threads, <1>2 DEF Wait, MutexOwner, Finder
  <2>4. ContextAgrees' BY <1>2 DEF Wait, ContextAgrees, Live
  <2> QED BY <2>1, <2>2, <2>3, <2>4
<1>3. ASSUME NEW f \in Finders, TryEnough(f) PROVE ControlInv'
  <2>a. pc[f] = "try" /\ pc' \in {[pc EXCEPT ![f] = "final"], [pc EXCEPT ![f] = "drain"]}
    BY <1>3 DEF TryEnough
  <2>1. TypeOK'
    <3>1. pc' \in [Finders -> FinderPcs] BY <2>a DEF TypeOK, FinderPcs
    <3>2. asleep' \subseteq Finders BY <1>3 DEF TypeOK, TryEnough
    <3>3. done' \in [Finders -> BOOLEAN] BY <1>3 DEF TypeOK, TryEnough
    <3> QED BY <1>3, <3>1, <3>2, <3>3 DEF TryEnough, TypeOK
  <2>2. JobsInHand' BY <1>3 DEF TryEnough, JobsInHand, Busy
  <2>3. MutexOwner' BY Threads, <1>3, <2>a DEF TryEnough, MutexOwner, Finder, TypeOK, HasMutex
  <2>4. ContextAgrees' BY <1>3, <2>a DEF TryEnough, ContextAgrees, Live, TypeOK
  <2> QED BY <2>1, <2>2, <2>3, <2>4
<1>4. ASSUME NEW f \in Finders, TryCell(f) PROVE ControlInv'
  <2>a. Route[f][next[f]] \in Cells BY <1>4, NextCell DEF TryCell
  <2>1. TypeOK' BY <1>4, <2>a DEF TryCell, TypeOK, FinderPcs
  <2>2. JobsInHand' BY <1>4 DEF TryCell, JobsInHand, Busy
  <2>3. MutexOwner' BY Threads, <1>4 DEF TryCell, MutexOwner, Finder, TypeOK, HasMutex
  <2>4. ContextAgrees' BY <1>4 DEF TryCell, ContextAgrees, Live, TypeOK, HasMutex
  <2> QED BY <2>1, <2>2, <2>3, <2>4
<1>5. ASSUME NEW f \in Finders, QueueWorklette(f) PROVE ControlInv'
  <2>a. Route[f][next[f]] \in Cells /\ next[f] \in 1..Len(Route[f])  BY <1>5, NextCell DEF QueueWorklette, Queue
  <2>b. pc[f] = "queue" /\ pc' = [pc EXCEPT ![f] = IF next[f] = Len(Route[f]) THEN "final" ELSE "try"]
    BY <1>5 DEF QueueWorklette, Queue
  <2>1. TypeOK'
    <3>1. work' \in Seq(Finders \X Cells) BY <1>5, <2>a DEF TypeOK, QueueWorklette, Queue
    <3>2. wpc' \in [Workers -> WorkerPcs] BY <1>5, Awake DEF QueueWorklette, Queue
    <3>3. pc' \in [Finders -> FinderPcs] BY <2>b DEF TypeOK, FinderPcs
    <3>4. next' \in [Finders -> Nat \ {0}] BY <1>5 DEF TypeOK, QueueWorklette, Queue
    <3> QED BY <1>5, <3>1, <3>2, <3>3, <3>4 DEF QueueWorklette, Queue, TypeOK
  <2>c. \A w \in Workers : wpc'[w] = wpc[w] \/ (wpc[w] = "asleep" /\ wpc'[w] = "woken")
    BY <1>5, Awake DEF QueueWorklette, Queue
  <2>2. JobsInHand' BY <1>5, <2>c DEF QueueWorklette, Queue, JobsInHand, Busy
  <2>d. \A w \in Workers : wpc'[w] \in {"notify", "unlock"} <=> wpc[w] \in {"notify", "unlock"}
    BY <2>c
  <2>e. lock' = [lock EXCEPT ![f] = NoThread] /\ lock[f] = f
    BY <1>5 DEF QueueWorklette, Queue, MutexOwner
  <2>f. \A w \in Workers : Finder(w)' = Finder(w) BY <1>5 DEF QueueWorklette, Queue, Finder
  <2>3. MutexOwner' BY Threads, <2>b, <2>d, <2>e, <2>f DEF MutexOwner, TypeOK
  <2>4. ContextAgrees'
    <3> SUFFICES ASSUME NEW g \in Finders
                 PROVE  /\ pc'[g] \in {"try", "queue"} => next'[g] <= Len(Route[g])
                        /\ done'[g] => pc'[g] \in {"drain", "final"}
                        /\ g \in asleep' => pc'[g] \in {"try", "drain", "final"}
                        /\ Live(g)' => ~die'
      BY DEF ContextAgrees
    <3>1. CASE g = f
      <4>1. /\ next'[f] = next[f] + 1 /\ next[f] \in 1..Len(Route[f])
            /\ pc'[f] = (IF next[f] = Len(Route[f]) THEN "final" ELSE "try")
            /\ pc[f] = "queue" /\ done' = done /\ asleep' = asleep /\ die' = die
        BY <1>5, <2>a, <2>b DEF QueueWorklette, Queue, TypeOK
      <4>2. Len(Route[f]) \in Nat BY PplFindAssumption
      <4> QED BY <3>1, <4>1, <4>2 DEF ContextAgrees, Live
    <3>2. CASE g # f BY <1>5, <2>b, <3>2 DEF QueueWorklette, Queue, ContextAgrees, Live, TypeOK
    <3> QED BY <3>1, <3>2
  <2> QED BY <2>1, <2>2, <2>3, <2>4
<1>6. ASSUME NEW f \in Finders, Drained(f) PROVE ControlInv'
  <2>1. TypeOK' BY <1>6 DEF Drained, TypeOK, FinderPcs
  <2>2. JobsInHand' BY <1>6 DEF Drained, JobsInHand, Busy, TypeOK
  <2>3. MutexOwner' BY Threads, <1>6 DEF Drained, MutexOwner, Finder, TypeOK
  <2>4. ContextAgrees' BY <1>6 DEF Drained, ContextAgrees, Live, TypeOK, HasMutex
  <2> QED BY <2>1, <2>2, <2>3, <2>4
<1>7. ASSUME NEW f \in Finders, Return(f) PROVE ControlInv'
  <2>1. TypeOK'
    <3>1. Resized(f) \in Seq(People) BY PplFindAssumption DEF Resized, TypeOK
    <3> QED BY <1>7, <3>1 DEF Return, TypeOK, FinderPcs
  <2>2. JobsInHand' BY <1>7 DEF Return, JobsInHand, Busy
  <2>3. MutexOwner' BY Threads, <1>7 DEF Return, MutexOwner, Finder, TypeOK
  <2>4. ContextAgrees' BY <1>7 DEF Return, ContextAgrees, Live, TypeOK, HasMutex
  <2> QED BY <2>1, <2>2, <2>3, <2>4
<1>8. ASSUME NEW f \in Finders, SpuriousWake(f) PROVE ControlInv'
  <2>1. TypeOK' BY <1>8 DEF SpuriousWake, TypeOK, FinderPcs
  <2>2. JobsInHand' BY <1>8 DEF SpuriousWake, JobsInHand, Busy, TypeOK
  <2>3. MutexOwner' BY Threads, <1>8 DEF SpuriousWake, MutexOwner, Finder, TypeOK
  <2>4. ContextAgrees' BY <1>8 DEF SpuriousWake, ContextAgrees, Live, TypeOK
  <2> QED BY <2>1, <2>2, <2>3, <2>4
<1>9. ASSUME NEW w \in Workers, PopWork(w), UNCHANGED callVars PROVE ControlInv'
  <2>a. Head(work) \in Finders \X Cells /\ Tail(work) \in Seq(Finders \X Cells)
    BY <1>9, work \in Seq(Finders \X Cells), HeadTailProperties DEF PopWork, TypeOK
  <2>1. TypeOK' BY <1>9, <2>a DEF PopWork, TypeOK, WorkerPcs
  <2>2. JobsInHand' BY <1>9, <2>a DEF PopWork, JobsInHand, Busy, TypeOK
  <2>b. \A v \in Workers \ {w} : Finder(v)' = Finder(v) BY <1>9 DEF PopWork, Finder, TypeOK
  <2>c. wpc' = [wpc EXCEPT ![w] = "start"] /\ wpc[w] \notin {"notify", "unlock"} BY <1>9 DEF PopWork
  <2>d. lock' = lock /\ pc' = pc BY <1>9 DEF PopWork
  <2>3. MutexOwner' BY Threads, <2>b, <2>c, <2>d DEF MutexOwner, TypeOK
  <2>4. ContextAgrees' BY <1>9 DEF PopWork, ContextAgrees, Live
  <2> QED BY <2>1, <2>2, <2>3, <2>4
<1>10. ASSUME NEW w \in Workers, WorkerWait(w), UNCHANGED callVars PROVE ControlInv'
  <2>1. TypeOK' BY <1>10 DEF WorkerWait, TypeOK, WorkerPcs
  <2>2. JobsInHand' BY <1>10 DEF WorkerWait, JobsInHand, Busy, TypeOK
  <2>3. MutexOwner' BY Threads, <1>10 DEF WorkerWait, MutexOwner, Finder, TypeOK
  <2>4. ContextAgrees' BY <1>10 DEF WorkerWait, ContextAgrees, Live, TypeOK
  <2> QED BY <2>1, <2>2, <2>3, <2>4
<1>11. ASSUME NEW w \in Workers, WorkerSpuriousWake(w), UNCHANGED callVars PROVE ControlInv'
  <2>1. TypeOK' BY <1>11 DEF WorkerSpuriousWake, TypeOK, WorkerPcs
  <2>2. JobsInHand' BY <1>11 DEF WorkerSpuriousWake, JobsInHand, Busy, TypeOK
  <2>3. MutexOwner' BY Threads, <1>11 DEF WorkerSpuriousWake, MutexOwner, Finder, TypeOK
  <2>4. ContextAgrees' BY <1>11 DEF WorkerSpuriousWake, ContextAgrees, Live, TypeOK
  <2> QED BY <2>1, <2>2, <2>3, <2>4
<1>12. ASSUME NEW w \in Workers, NothingLeft(w), UNCHANGED callVars PROVE ControlInv'
  <2>1. TypeOK' BY <1>12 DEF NothingLeft, TypeOK, WorkerPcs
  <2>2. JobsInHand' BY <1>12 DEF NothingLeft, JobsInHand, Busy, TypeOK
  <2>3. MutexOwner' BY Threads, <1>12 DEF NothingLeft, MutexOwner, Finder, TypeOK
  <2>4. ContextAgrees' BY <1>12 DEF NothingLeft, ContextAgrees, Live, TypeOK
  <2> QED BY <2>1, <2>2, <2>3, <2>4
<1>13. ASSUME NEW w \in Workers, WorkerDies(w), UNCHANGED callVars PROVE ControlInv'
  <2>1. TypeOK' BY <1>13 DEF WorkerDies, TypeOK, WorkerPcs
  <2>2. JobsInHand' BY <1>13 DEF WorkerDies, JobsInHand, Busy, TypeOK
  <2>3. MutexOwner' BY Threads, <1>13 DEF WorkerDies, MutexOwner, Finder, TypeOK
  <2>4. ContextAgrees' BY <1>13 DEF WorkerDies, ContextAgrees, Live, TypeOK
  <2> QED BY <2>1, <2>2, <2>3, <2>4
<1>14. ASSUME NEW w \in Workers, StartSearch(w) PROVE ControlInv'
  <2>1. TypeOK' BY <1>14 DEF StartSearch, TypeOK, WorkerPcs
  <2>2. JobsInHand' BY <1>14 DEF StartSearch, JobsInHand, Busy, TypeOK
  <2>3. MutexOwner' BY Threads, <1>14 DEF StartSearch, MutexOwner, Finder, TypeOK
  <2>4. ContextAgrees' BY <1>14 DEF StartSearch, ContextAgrees, Live
  <2> QED BY <2>1, <2>2, <2>3, <2>4
<1>15. ASSUME NEW w \in Workers, SkipSearch(w) PROVE ControlInv'
  <2>a. Finder(w) \in Finders BY <1>15 DEF SkipSearch, JobsInHand, Busy, Finder
  <2>1. TypeOK' BY <1>15, <2>a DEF SkipSearch, EraseCell, TypeOK, WorkerPcs
  <2>2. JobsInHand' BY <1>15 DEF SkipSearch, EraseCell, JobsInHand, Busy, TypeOK
  <2>b. \A v \in Workers : Finder(v)' = Finder(v) BY <1>15 DEF SkipSearch, Finder
  <2>3. MutexOwner' BY Threads, <1>15, <2>a, <2>b DEF SkipSearch, EraseCell, MutexOwner, TypeOK, CanLock
  <2>4. ContextAgrees' BY <1>15 DEF SkipSearch, EraseCell, ContextAgrees, Live
  <2> QED BY <2>1, <2>2, <2>3, <2>4
<1>16. ASSUME NEW w \in Workers, Merge(w) PROVE ControlInv'
  <2>a. Finder(w) \in Finders /\ Cell(w) \in Cells BY <1>16 DEF Merge, JobsInHand, Busy, Finder, Cell
  <2>1. TypeOK'
    <3>1. Hits[Finder(w)][Cell(w)] \in Seq(People) BY <2>a, PplFindAssumption
    <3>2. ppl' \in [Finders -> Seq(People)] BY <1>16, <2>a, <3>1 DEF Merge, TypeOK
    <3> QED BY <1>16, <2>a, <3>2 DEF Merge, EraseCell, TypeOK, WorkerPcs
  <2>2. JobsInHand' BY <1>16 DEF Merge, EraseCell, JobsInHand, Busy, TypeOK
  <2>b. \A v \in Workers : Finder(v)' = Finder(v) BY <1>16 DEF Merge, Finder
  <2>c. /\ lock' = [lock EXCEPT ![Finder(w)] = w] /\ lock[Finder(w)] = NoThread
        /\ wpc' = [wpc EXCEPT ![w] = "notify"] /\ wpc[w] = "search"
        /\ pc' = pc
    BY <1>16 DEF Merge, EraseCell, CanLock
  <2>3. MutexOwner' BY Threads, <2>a, <2>b, <2>c DEF MutexOwner, TypeOK
  <2>4. ContextAgrees' BY <1>16 DEF Merge, EraseCell, ContextAgrees, Live
  <2> QED BY <2>1, <2>2, <2>3, <2>4
<1>17. ASSUME NEW w \in Workers, Notify(w) PROVE ControlInv'
  <2>1. TypeOK' BY <1>17 DEF Notify, TypeOK, WorkerPcs
  <2>2. JobsInHand' BY <1>17 DEF Notify, JobsInHand, Busy, TypeOK
  <2>3. MutexOwner' BY Threads, <1>17 DEF Notify, MutexOwner, Finder, TypeOK
  <2>4. ContextAgrees' BY <1>17 DEF Notify, ContextAgrees, Live
  <2> QED BY <2>1, <2>2, <2>3, <2>4
<1>18. ASSUME NEW w \in Workers, Unlock(w) PROVE ControlInv'
  <2>1. TypeOK' BY <1>18 DEF Unlock, WorkletteEnds, TypeOK, WorkerPcs
  <2>2. JobsInHand' BY <1>18 DEF Unlock, WorkletteEnds, JobsInHand, Busy, TypeOK
  <2>b. lock[Finder(w)] = w /\ Finder(w) \in Finders BY <1>18 DEF Unlock, WorkletteEnds, MutexOwner, JobsInHand, Busy, Finder
  <2>c. \A v \in Workers \ {w} : Finder(v)' = Finder(v) BY <1>18 DEF Unlock, WorkletteEnds, Finder, TypeOK
  <2>d. /\ lock' = [lock EXCEPT ![Finder(w)] = NoThread]
        /\ wpc' = [wpc EXCEPT ![w] = "top"]
        /\ pc' = pc
    BY <1>18 DEF Unlock, WorkletteEnds
  <2>3. MutexOwner' BY Threads, <2>b, <2>c, <2>d DEF MutexOwner, TypeOK
  <2>4. ContextAgrees' BY <1>18 DEF Unlock, WorkletteEnds, ContextAgrees, Live
  <2> QED BY <2>1, <2>2, <2>3, <2>4
<1>19. ASSUME Die PROVE ControlInv'
  <2>c. \A w \in Workers : wpc'[w] = wpc[w] \/ (wpc[w] = "asleep" /\ wpc'[w] = "woken")
    BY <1>19, Awake DEF Die, Destroy
  <2>1. TypeOK' BY <1>19, Awake DEF Die, Destroy, TypeOK
  <2>2. JobsInHand' BY <1>19, <2>c DEF Die, Destroy, JobsInHand, Busy
  <2>d. \A w \in Workers : wpc'[w] \in {"notify", "unlock"} <=> wpc[w] \in {"notify", "unlock"}
    BY <2>c
  <2>f. \A w \in Workers : Finder(w)' = Finder(w) BY <1>19 DEF Die, Destroy, Finder
  <2>g. lock' = lock /\ pc' = pc BY <1>19 DEF Die, Destroy
  <2>3. MutexOwner' BY Threads, <2>d, <2>f, <2>g DEF MutexOwner
  <2>4. ContextAgrees' BY <1>19 DEF Die, Destroy, ContextAgrees, Live
  <2> QED BY <2>1, <2>2, <2>3, <2>4
<1>20. CASE UNCHANGED vars
  BY <1>20 DEF vars, TypeOK, JobsInHand, MutexOwner, ContextAgrees, Busy, Finder, Live
<1> QED BY <1>1, <1>2, <1>3, <1>4, <1>5, <1>6, <1>7, <1>8, <1>9, <1>10, <1>11, <1>12, <1>13, <1>14,
   <1>15, <1>16, <1>17, <1>18, <1>19, <1>20 DEF Next, FinderStep, WorkerStep, PoolStep

(* What is pending lies before the next position of a route that offers no *)
(* cell twice: the cell TryFindPpl inserts is new.                         *)
LEMMA OfferedOnce ==
  ASSUME ControlInv, PendingOffered, NEW f \in Finders, pc[f] = "try"
  PROVE  Route[f][next[f]] \notin pending[f]
<1> SUFFICES ASSUME Route[f][next[f]] \in pending[f] PROVE FALSE
  OBVIOUS
<1>1. next[f] \in 1..Len(Route[f])
  BY NextCell DEF ControlInv
<1>2. PICK i \in 1..Len(Route[f]) : Route[f][i] = Route[f][next[f]] /\ i < next[f]
  BY DEF PendingOffered
<1>3. i = next[f]
  BY <1>1, <1>2, PplFindAssumption
<1> QED BY <1>1, <1>2, <1>3

(* A step that leaves the queue, the pending cells and the worklettes in   *)
(* hand alone, and ends no call that still has some, keeps WorkInv.        *)
LEMMA QuietStep ==
  ASSUME ControlInv, WorkInv,
         pending' = pending, work' = work,
         \A f \in Finders :
           /\ pc'[f] = "queue" <=> pc[f] = "queue"
           /\ pending[f] # {} \/ pc[f] = "queue" => Live(f)' /\ next'[f] = next[f],
         \A w \in Workers :
           /\ Holds(w)' <=> Holds(w)
           /\ Holds(w) => Finder(w)' = Finder(w) /\ Cell(w)' = Cell(w)
           /\ wpc'[w] \in {"notify", "unlock"} => Live(Finder(w))'
  PROVE  WorkInv'
<1> USE DEF ControlInv, WorkInv
<1>1. \A f \in Finders, c \in Cells :
        /\ BeingQueued(f, c)' <=> BeingQueued(f, c)
        /\ Queued(f, c)' <=> Queued(f, c)
        /\ InHand(f, c)' <=> InHand(f, c)
  BY DEF BeingQueued, Queued, InHand
<1>2. PendingMatchesWork'
  BY <1>1 DEF PendingMatchesWork
<1>3. NoWorkletteTwice'
  BY <1>1 DEF NoWorkletteTwice
<1>4. PendingOffered'
  BY DEF PendingOffered
<1>5. NotifiedIsLive'
  BY DEF NotifiedIsLive
<1> QED BY <1>2, <1>3, <1>4, <1>5

(* TryFindPplAsync's erase, on either of its paths: the one worklette that *)
(* holds the cell lets go of it as the cell leaves pending_cells.          *)
LEMMA EraseStep ==
  ASSUME ControlInv, WorkInv, NEW w \in Workers, Holds(w), EraseCell(w),
         work' = work, job' = job, pc' = pc, next' = next
  PROVE  WorkInv'
<1> USE DEF ControlInv, WorkInv
<1> DEFINE F == Finder(w)
           C == Cell(w)
<1>a. F \in Finders /\ C \in Cells
  BY DEF JobsInHand, Busy, Holds, Finder, Cell
<1>b. \A v \in Workers : Finder(v)' = Finder(v) /\ Cell(v)' = Cell(v)
  BY DEF Finder, Cell
<1>c. \A v \in Workers : Holds(v)' <=> Holds(v) /\ v # w
  BY DEF EraseCell, Holds, TypeOK
<1>d. \A f \in Finders, c \in Cells : c \in pending'[f] <=> c \in pending[f] /\ ~(f = F /\ c = C)
  BY <1>a DEF EraseCell, TypeOK
<1>1. \A f \in Finders, c \in Cells :
        /\ BeingQueued(f, c)' <=> BeingQueued(f, c)
        /\ Queued(f, c)' <=> Queued(f, c)
  BY DEF BeingQueued, Queued
<1>2. InHand(F, C)
  BY DEF InHand
<1>3. \A f \in Finders, c \in Cells : InHand(f, c)' <=> InHand(f, c) /\ ~(f = F /\ c = C)
  <2> SUFFICES ASSUME NEW f \in Finders, NEW c \in Cells
               PROVE  InHand(f, c)' <=> InHand(f, c) /\ ~(f = F /\ c = C)
    OBVIOUS
  <2>1. InHand(f, c)' <=> \E v \in Workers : Holds(v) /\ v # w /\ Finder(v) = f /\ Cell(v) = c
    BY <1>b, <1>c DEF InHand
  <2>2. \A v \in Workers : Holds(v) /\ Finder(v) = F /\ Cell(v) = C => v = w
    BY DEF NoWorkletteTwice
  <2> QED BY <2>1, <2>2 DEF InHand
<1>4. PendingMatchesWork'
  BY <1>a, <1>d, <1>1, <1>2, <1>3 DEF PendingMatchesWork, NoWorkletteTwice
<1>5. NoWorkletteTwice'
  BY <1>1, <1>3, <1>b, <1>c DEF NoWorkletteTwice
<1>6. PendingOffered'
  <2>1. \A f \in Finders : pending'[f] \subseteq pending[f]
    BY <1>a DEF EraseCell, TypeOK
  <2> QED BY <2>1 DEF PendingOffered, Live
<1>7. NotifiedIsLive'
  <2>1. C \in pending[F]
    BY <1>a, <1>2 DEF PendingMatchesWork
  <2>2. Live(F)
    BY <1>a, <2>1 DEF PendingOffered
  <2>3. \A v \in Workers : v # w => wpc'[v] = wpc[v]
    BY DEF EraseCell, TypeOK
  <2> QED BY <1>b, <2>2, <2>3 DEF NotifiedIsLive, Live
<1> QED BY <1>4, <1>5, <1>6, <1>7

(* Every step keeps pending_cells and the worklettes' ways together.       *)
LEMMA WorkStep == ControlInv /\ WorkInv /\ [Next]_vars => WorkInv'
<1> SUFFICES ASSUME ControlInv, WorkInv, [Next]_vars PROVE WorkInv'
  OBVIOUS
<1> USE DEF context, finderVars, callVars, poolVars
<1>0. /\ TypeOK /\ JobsInHand /\ MutexOwner /\ ContextAgrees
      /\ PendingMatchesWork /\ NoWorkletteTwice /\ PendingOffered /\ NotifiedIsLive
  BY DEF ControlInv, WorkInv
<1>1. ASSUME NEW f \in Finders, Call(f) PROVE WorkInv'
  <2>1. pending[f] = {} BY <1>0, <1>1 DEF Call, PendingOffered, TypeOK
  <2>2. \A w \in Workers : wpc[w] \in {"notify", "unlock"} => Live(Finder(w)) BY <1>0 DEF NotifiedIsLive
  <2> QED BY <1>0, <1>1, <2>1, <2>2, QuietStep DEF Call, Live, Holds, Finder, Cell, TypeOK, PendingOffered
<1>2. ASSUME NEW f \in Finders, Wait(f) PROVE WorkInv'
  BY <1>0, <1>2, QuietStep DEF Wait, Live, Holds, Finder, Cell, PendingOffered, NotifiedIsLive
<1>3. ASSUME NEW f \in Finders, TryEnough(f) PROVE WorkInv'
  <2>1. pc[f] = "try" /\ pc' \in {[pc EXCEPT ![f] = "final"], [pc EXCEPT ![f] = "drain"]}
    BY <1>3 DEF TryEnough
  <2>2. \A g \in Finders : (Live(g) <=> Live(g)') /\ (pc'[g] = "queue" <=> pc[g] = "queue")
    BY <1>0, <2>1 DEF Live, TypeOK
  <2>3. next' = next /\ pending' = pending /\ work' = work /\ wpc' = wpc /\ job' = job
    BY <1>3 DEF TryEnough
  <2>4. \A w \in Workers : wpc[w] \in {"notify", "unlock"} => Finder(w) \in Finders /\ Live(Finder(w))
    BY <1>0 DEF JobsInHand, Busy, Finder, NotifiedIsLive
  <2>5. \A w \in Workers : Finder(w)' = Finder(w) /\ Cell(w)' = Cell(w) /\ (Holds(w)' <=> Holds(w))
    BY <2>3 DEF Holds, Finder, Cell
  <2>6. \A g \in Finders : pending[g] # {} \/ pc[g] = "queue" => Live(g)
    BY <1>0 DEF PendingOffered, Live, TypeOK
  <2>7. \A w \in Workers : wpc'[w] \in {"notify", "unlock"} => Live(Finder(w))'
    BY <2>2, <2>3, <2>4, <2>5 DEF Live
  <2> QED BY <2>2, <2>3, <2>5, <2>6, <2>7, QuietStep
<1>4. ASSUME NEW f \in Finders, TryCell(f) PROVE WorkInv'
  <2> DEFINE C == Route[f][next[f]]
  <2>a. /\ pc[f] = "try" /\ pc' = [pc EXCEPT ![f] = "queue"]
        /\ pending' = [pending EXCEPT ![f] = @ \cup {C}]
        /\ next' = next /\ work' = work /\ wpc' = wpc /\ job' = job
    BY <1>4 DEF TryCell
  <2>b. C \in Cells /\ next[f] \in 1..Len(Route[f]) BY <1>0, <2>a, NextCell
  <2>c. C \notin pending[f] BY <2>a, <1>0, OfferedOnce
  <2>d. \A g \in Finders, c \in Cells : c \in pending'[g] <=> c \in pending[g] \/ (g = f /\ c = C)
    BY <1>0, <2>a DEF TypeOK
  <2>1. \A g \in Finders, c \in Cells :
        /\ BeingQueued(g, c)' <=> BeingQueued(g, c) \/ (g = f /\ c = C)
        /\ Queued(g, c)' <=> Queued(g, c)
        /\ InHand(g, c)' <=> InHand(g, c)
    BY <1>0, <2>a DEF BeingQueued, Queued, InHand, Holds, Finder, Cell, TypeOK
  <2>2. PendingMatchesWork'
    BY <1>0, <2>d, <2>1 DEF PendingMatchesWork
  <2>3. NoWorkletteTwice'
    <3>1. ~Queued(f, C) /\ ~InHand(f, C) BY <1>0, <2>b, <2>c DEF PendingMatchesWork
    <3>2. \A v \in Workers : (Holds(v)' <=> Holds(v)) /\ Finder(v)' = Finder(v) /\ Cell(v)' = Cell(v)
      BY <2>a DEF Holds, Finder, Cell
    <3> QED BY <1>0, <2>a, <2>1, <3>1, <3>2 DEF NoWorkletteTwice
  <2>4. PendingOffered'
    <3> SUFFICES ASSUME NEW g \in Finders, NEW c \in pending'[g]
                 PROVE  /\ Live(g)'
                        /\ \E i \in 1..Len(Route[g]) :
                            /\ Route[g][i] = c
                            /\ i < next'[g] \/ (i = next'[g] /\ pc'[g] = "queue")
      BY DEF PendingOffered
    <3>1. CASE c \in pending[g]
      <4>1. PICK i \in 1..Len(Route[g]) :
              Route[g][i] = c /\ (i < next[g] \/ (i = next[g] /\ pc[g] = "queue"))
        BY <1>0, <3>1 DEF PendingOffered
      <4>2. Live(g) /\ Live(g)'
        BY <1>0, <2>a, <3>1 DEF PendingOffered, Live, TypeOK
      <4>3. pc[g] = "queue" => pc'[g] = "queue"
        BY <1>0, <2>a DEF TypeOK
      <4> QED BY <2>a, <4>1, <4>2, <4>3
    <3>2. CASE g = f /\ c = C
      BY <1>0, <2>a, <2>b, <3>2 DEF Live, TypeOK
    <3> QED BY <1>0, <2>a, <3>1, <3>2 DEF TypeOK
  <2>5. NotifiedIsLive'
    BY <1>0, <2>a DEF NotifiedIsLive, Live, Finder, TypeOK
  <2> QED BY <2>2, <2>3, <2>4, <2>5 DEF WorkInv
<1>5. ASSUME NEW f \in Finders, QueueWorklette(f) PROVE WorkInv'
  <2> DEFINE C == Route[f][next[f]]
  <2>a. /\ pc[f] = "queue"
        /\ pc' = [pc EXCEPT ![f] = IF next[f] = Len(Route[f]) THEN "final" ELSE "try"]
        /\ next' = [next EXCEPT ![f] = @ + 1]
        /\ work' = Append(work, <<f, C>>)
        /\ pending' = pending /\ wpc' = WakeWorkers /\ job' = job
    BY <1>5 DEF QueueWorklette, Queue
  <2>b. C \in Cells /\ next[f] \in 1..Len(Route[f]) BY <1>0, <2>a, NextCell
  <2>c. /\ Len(work') = Len(work) + 1 /\ Len(work) \in Nat
        /\ work'[Len(work) + 1] = <<f, C>>
        /\ \A i \in 1..Len(work) : work'[i] = work[i]
    BY <1>0, <2>a, <2>b DEF TypeOK
  <2>d. \A w \in Workers : (wpc'[w] \in {"notify", "unlock"} <=> wpc[w] \in {"notify", "unlock"}) /\ (Holds(w)' <=> Holds(w)) /\ Finder(w)' = Finder(w) /\ Cell(w)' = Cell(w)
    BY <1>0, <2>a, Awake DEF Holds, Finder, Cell
  <2>e. pc'[f] # "queue" /\ \A g \in Finders : g # f => pc'[g] = pc[g] /\ next'[g] = next[g]
    BY <1>0, <2>a DEF TypeOK
  <2>1. \A g \in Finders, c \in Cells :
        /\ BeingQueued(g, c)' <=> BeingQueued(g, c) /\ g # f
        /\ InHand(g, c)' <=> InHand(g, c)
    BY <2>d, <2>e DEF BeingQueued, InHand
  <2>2. \A g \in Finders, c \in Cells : Queued(g, c)' <=> Queued(g, c) \/ (g = f /\ c = C)
    BY <2>c DEF Queued
  <2>f. BeingQueued(f, C) /\ \A c \in Cells : BeingQueued(f, c) => c = C BY <2>a DEF BeingQueued
  <2>3. PendingMatchesWork'
    BY <1>0, <2>a, <2>b, <2>1, <2>2, <2>f DEF PendingMatchesWork
  <2>4. NoWorkletteTwice'
    <3>1. ~Queued(f, C) /\ ~InHand(f, C) BY <1>0, <2>b, <2>f DEF NoWorkletteTwice
    <3>2. \A i, j \in 1..Len(work') : work'[i][1] = work'[j][1] /\ work'[i][2] = work'[j][2] => i = j
      BY <1>0, <2>c, <3>1 DEF NoWorkletteTwice, Queued
    <3> QED BY <1>0, <2>1, <2>2, <2>d, <3>1, <3>2 DEF NoWorkletteTwice
  <2>5. PendingOffered'
    <3>1. \A g \in Finders : Live(g) => Live(g)'  BY <1>0, <2>a, <2>e DEF Live
    <3>2. next'[f] = next[f] + 1 BY <1>0, <2>a DEF TypeOK
    <3> SUFFICES ASSUME NEW g \in Finders, NEW c \in pending[g]
                 PROVE  /\ Live(g)'
                        /\ \E i \in 1..Len(Route[g]) :
                            /\ Route[g][i] = c
                            /\ i < next'[g] \/ (i = next'[g] /\ pc'[g] = "queue")
      BY <2>a DEF PendingOffered
    <3>3. PICK i \in 1..Len(Route[g]) :
            Route[g][i] = c /\ (i < next[g] \/ (i = next[g] /\ pc[g] = "queue"))
      BY <1>0 DEF PendingOffered
    <3>4. Live(g)' BY <1>0, <3>1 DEF PendingOffered
    <3>5. CASE g = f BY <3>2, <3>3, <3>4, <3>5, <2>b
    <3>6. CASE g # f BY <2>e, <3>3, <3>4, <3>6
    <3> QED BY <3>5, <3>6
  <2>6. NotifiedIsLive'
    <3>1. \A g \in Finders : Live(g) => Live(g)'  BY <1>0, <2>a, <2>e DEF Live
    <3>2. \A w \in Workers : wpc[w] \in {"notify", "unlock"} => Finder(w) \in Finders BY <1>0 DEF JobsInHand, Busy, Finder
    <3> QED BY <1>0, <2>d, <3>1, <3>2 DEF NotifiedIsLive, Live
  <2> QED BY <2>3, <2>4, <2>5, <2>6 DEF WorkInv
<1>6. ASSUME NEW f \in Finders, Drained(f) PROVE WorkInv'
  <2>1. pc[f] = "drain" /\ pc' = [pc EXCEPT ![f] = "final"] BY <1>6 DEF Drained
  <2>2. \A g \in Finders : (Live(g) <=> Live(g)') /\ (pc'[g] = "queue" <=> pc[g] = "queue")
    BY <1>0, <2>1 DEF Live, TypeOK
  <2> QED BY <1>0, <1>6, <2>2, QuietStep DEF Drained, Live, Holds, Finder, Cell, PendingOffered, NotifiedIsLive
<1>7. ASSUME NEW f \in Finders, Return(f) PROVE WorkInv'
  <2>1. pc[f] = "final" /\ pc' = [pc EXCEPT ![f] = "returned"] /\ pending[f] = {} /\ lock[f] = NoThread BY <1>7 DEF Return, WaitOver, HasMutex
  <2>2. \A g \in Finders : (g # f => (Live(g) <=> Live(g)')) /\ (pc'[g] = "queue" <=> pc[g] = "queue")
    BY <1>0, <2>1 DEF Live, TypeOK
  <2>3. \A w \in Workers : wpc[w] \in {"notify", "unlock"} => Live(Finder(w)) /\ Finder(w) # f /\ Finder(w) \in Finders
    BY <1>0, <2>1, Threads DEF NotifiedIsLive, MutexOwner, JobsInHand, Busy, Finder
  <2> QED BY <1>0, <1>7, <2>1, <2>2, <2>3, QuietStep DEF Return, Live, Holds, Finder, Cell, PendingOffered
<1>8. ASSUME NEW f \in Finders, SpuriousWake(f) PROVE WorkInv'
  BY <1>0, <1>8, QuietStep DEF SpuriousWake, Live, Holds, Finder, Cell, PendingOffered, NotifiedIsLive
<1>9. ASSUME NEW w \in Workers, PopWork(w), UNCHANGED callVars PROVE WorkInv'
  <2> DEFINE F == work[1][1]
             C == work[1][2]
  <2>a. /\ wpc[w] \in {"top", "woken"} /\ wpc' = [wpc EXCEPT ![w] = "start"]
        /\ job' = [job EXCEPT ![w] = work[1]]
        /\ work # <<>> /\ work' = Tail(work)
        /\ pending' = pending /\ pc' = pc /\ next' = next
    BY <1>9 DEF PopWork
  <2>b. /\ Len(work) \in Nat \ {0} /\ Len(work') = Len(work) - 1
        /\ \A i \in 1..Len(work') : work'[i] = work[i + 1]
    BY <1>0, <2>a, HeadTailProperties DEF TypeOK
  <2>c. F \in Finders /\ C \in Cells /\ work[1] = <<F, C>>
    BY <1>0, <2>b DEF TypeOK
  <2>d. /\ Holds(w)' /\ ~Holds(w) /\ Finder(w)' = F /\ Cell(w)' = C
        /\ \A v \in Workers : v # w => (Holds(v)' <=> Holds(v)) /\ Finder(v)' = Finder(v) /\ Cell(v)' = Cell(v)
    BY <1>0, <2>a DEF Holds, Finder, Cell, TypeOK
  <2>e. Queued(F, C)
    BY <2>b DEF Queued
  <2>1. \A g \in Finders, c \in Cells : BeingQueued(g, c)' <=> BeingQueued(g, c)
    BY <2>a DEF BeingQueued
  <2>2. \A g \in Finders, c \in Cells : InHand(g, c)' <=> InHand(g, c) \/ (g = F /\ c = C)
    BY <2>d DEF InHand
  <2>3. \A g \in Finders, c \in Cells : Queued(g, c)' <=> Queued(g, c) /\ ~(g = F /\ c = C)
    <3>1. \A i \in 1..Len(work) : i = 1 \/ i - 1 \in 1..Len(work')
      BY <2>b
    <3>2. \A i \in 1..Len(work) : work[i][1] = F /\ work[i][2] = C => i = 1
      BY <1>0, <2>b DEF NoWorkletteTwice
    <3>3. \A i \in 1..Len(work') : i + 1 \in 1..Len(work) /\ i + 1 # 1
      BY <2>b
    <3>4. \A i \in 1..Len(work) : i # 1 => work'[i - 1] = work[i]
      BY <2>b
    <3> QED BY <2>b, <3>1, <3>2, <3>3, <3>4 DEF Queued
  <2>4. PendingMatchesWork'
    BY <1>0, <2>a, <2>c, <2>e, <2>1, <2>2, <2>3 DEF PendingMatchesWork
  <2>5. NoWorkletteTwice'
    <3>1. ~InHand(F, C) /\ ~BeingQueued(F, C) BY <1>0, <2>c, <2>e DEF NoWorkletteTwice
    <3>2. \A i, j \in 1..Len(work') : work'[i][1] = work'[j][1] /\ work'[i][2] = work'[j][2] => i = j
      <4>1. \A i \in 1..Len(work') : i \in Int /\ i + 1 \in 1..Len(work) BY <2>b
      <4> QED BY <1>0, <2>b, <4>1 DEF NoWorkletteTwice
    <3>3. \A u, v \in Workers :
       Holds(u)' /\ Holds(v)' /\ Finder(u)' = Finder(v)' /\ Cell(u)' = Cell(v)' => u = v
      BY <1>0, <2>d, <3>1 DEF NoWorkletteTwice, InHand
    <3> QED BY <1>0, <2>1, <2>2, <2>3, <3>1, <3>2, <3>3 DEF NoWorkletteTwice
  <2>6. PendingOffered'
    BY <1>0, <2>a DEF PendingOffered, Live
  <2>7. NotifiedIsLive'
    BY <1>0, <2>a, <2>d DEF NotifiedIsLive, Live, TypeOK
  <2> QED BY <2>4, <2>5, <2>6, <2>7 DEF WorkInv
<1>10. ASSUME NEW w \in Workers, WorkerWait(w), UNCHANGED callVars PROVE WorkInv'
  BY <1>0, <1>10, QuietStep DEF WorkerWait, Live, Holds, Finder, Cell, PendingOffered, NotifiedIsLive, TypeOK
<1>11. ASSUME NEW w \in Workers, WorkerSpuriousWake(w), UNCHANGED callVars PROVE WorkInv'
  BY <1>0, <1>11, QuietStep DEF WorkerSpuriousWake, Live, Holds, Finder, Cell, PendingOffered, NotifiedIsLive, TypeOK
<1>12. ASSUME NEW w \in Workers, NothingLeft(w), UNCHANGED callVars PROVE WorkInv'
  BY <1>0, <1>12, QuietStep DEF NothingLeft, Live, Holds, Finder, Cell, PendingOffered, NotifiedIsLive, TypeOK
<1>13. ASSUME NEW w \in Workers, WorkerDies(w), UNCHANGED callVars PROVE WorkInv'
  BY <1>0, <1>13, QuietStep DEF WorkerDies, Live, Holds, Finder, Cell, PendingOffered, NotifiedIsLive, TypeOK
<1>14. ASSUME NEW w \in Workers, StartSearch(w) PROVE WorkInv'
  BY <1>0, <1>14, QuietStep DEF StartSearch, Live, Holds, Finder, Cell, PendingOffered, NotifiedIsLive, TypeOK
<1>15. ASSUME NEW w \in Workers, SkipSearch(w) PROVE WorkInv'
  BY <1>15, EraseStep DEF SkipSearch, Holds
<1>16. ASSUME NEW w \in Workers, Merge(w) PROVE WorkInv'
  BY <1>16, EraseStep DEF Merge, Holds
<1>17. ASSUME NEW w \in Workers, Notify(w) PROVE WorkInv'
  BY <1>0, <1>17, QuietStep DEF Notify, Live, Holds, Finder, Cell, PendingOffered, NotifiedIsLive, TypeOK
<1>18. ASSUME NEW w \in Workers, Unlock(w) PROVE WorkInv'
  <2>1. \A v \in Workers : v # w => Finder(v)' = Finder(v) /\ Cell(v)' = Cell(v) /\ wpc'[v] = wpc[v]
    BY <1>0, <1>18 DEF Unlock, WorkletteEnds, Finder, Cell, TypeOK
  <2>2. wpc'[w] = "top" /\ wpc[w] = "unlock" BY <1>0, <1>18 DEF Unlock, WorkletteEnds, TypeOK
  <2> QED BY <1>0, <1>18, <2>1, <2>2, QuietStep DEF Unlock, WorkletteEnds, Live, Holds, PendingOffered, NotifiedIsLive
<1>19. ASSUME Die PROVE WorkInv'
  <2>1. \A w \in Workers : wpc'[w] = wpc[w] \/ (wpc[w] = "asleep" /\ wpc'[w] = "woken")
    BY <1>0, <1>19, Awake DEF Die, Destroy
  <2> QED BY <1>0, <1>19, <2>1, QuietStep DEF Die, Destroy, Live, Holds, Finder, Cell, PendingOffered, NotifiedIsLive
<1>20. CASE UNCHANGED vars
  BY <1>0, <1>20, QuietStep DEF vars, Live, Holds, Finder, Cell, PendingOffered, NotifiedIsLive
<1> QED BY <1>1, <1>2, <1>3, <1>4, <1>5, <1>6, <1>7, <1>8, <1>9, <1>10, <1>11, <1>12, <1>13, <1>14,
   <1>15, <1>16, <1>17, <1>18, <1>19, <1>20 DEF Next, FinderStep, WorkerStep, PoolStep

(* A step that puts no finder to sleep, makes no sleeper's predicate true  *)
(* without a thread about to notify it, and takes no such thread away,     *)
(* misses no notification.                                                 *)
LEMMA WakeFrame ==
  ASSUME NoMissedNotify,
         asleep' \subseteq asleep,
         \A f \in asleep' : WaitOver(f)' =>
            WaitOver(f) \/ \E w \in Workers : wpc'[w] = "notify" /\ Finder(w)' = f,
         \A w \in Workers : wpc[w] = "notify" /\ Finder(w) \in asleep' =>
            wpc'[w] = "notify" /\ Finder(w)' = Finder(w)
  PROVE  NoMissedNotify'
BY DEF NoMissedNotify

(* A step that adds no work, does not set die_ and puts no pool thread to  *)
(* sleep loses no wakeup.                                                  *)
LEMMA NoneFallAsleep ==
  ASSUME NoLostWakeup,
         work' # <<>> => work # <<>>,
         die' => die,
         \A w \in Workers : wpc'[w] = "asleep" => wpc[w] = "asleep"
  PROVE  NoLostWakeup'
BY DEF NoLostWakeup

(* Every step keeps the sleepers sure of their wakeup.                     *)
LEMMA WakeStep == ControlInv /\ WakeInv /\ [Next]_vars => WakeInv'
<1> SUFFICES ASSUME ControlInv, WakeInv, [Next]_vars PROVE WakeInv'
  OBVIOUS
<1> USE DEF context, finderVars, callVars, poolVars
<1>0. /\ TypeOK /\ JobsInHand /\ MutexOwner /\ ContextAgrees
      /\ NoMissedNotify /\ NoLostWakeup
  BY DEF ControlInv, WakeInv
<1>a. \A f \in asleep : f \in Finders /\ pc[f] \in {"try", "drain", "final"}
  BY <1>0 DEF ContextAgrees, TypeOK
<1>1. ASSUME NEW f \in Finders, Call(f) PROVE WakeInv'
  <2>1. f \notin asleep BY <1>a, <1>1 DEF Call, Live
  <2>2. NoMissedNotify'
    BY <1>0, <1>1, <1>a, <2>1, WakeFrame DEF Call, WaitOver, Full, Finder, TypeOK
  <2>3. NoLostWakeup'
    BY <1>0, <1>1, NoneFallAsleep DEF Call
  <2> QED BY <2>2, <2>3 DEF WakeInv
<1>2. ASSUME NEW f \in Finders, Wait(f) PROVE WakeInv'
  <2>1. NoMissedNotify'
    BY <1>0, <1>2 DEF NoMissedNotify, Wait, WaitOver, Full, Finder
  <2>2. NoLostWakeup'
    BY <1>0, <1>2, NoneFallAsleep DEF Wait
  <2> QED BY <2>1, <2>2 DEF WakeInv
<1>3. ASSUME NEW f \in Finders, TryEnough(f) PROVE WakeInv'
  <2>1. NoMissedNotify'
    <3>1. /\ pc[f] = "try" /\ pending' = pending /\ ppl' = ppl
          /\ done' = [done EXCEPT ![f] = TRUE]
          /\ wpc' = wpc /\ job' = job /\ f \notin asleep
      BY <1>3 DEF TryEnough, HasMutex
    <3>2. CASE pending[f] = {}
      <4>1. asleep' = asleep /\ pc' = [pc EXCEPT ![f] = "final"] BY <1>3, <3>2 DEF TryEnough
      <4> QED BY <1>0, <1>a, <3>1, <4>1, WakeFrame DEF WaitOver, Full, Finder, TypeOK
    <3>3. CASE pending[f] # {}
      <4>1. asleep' = asleep \cup {f} /\ pc' = [pc EXCEPT ![f] = "drain"] BY <1>3, <3>3 DEF TryEnough
      <4>2. ~WaitOver(f)' BY <1>0, <3>1, <3>3, <4>1 DEF WaitOver, TypeOK
      <4>3. \A g \in asleep : WaitOver(g)' => WaitOver(g)
        BY <1>0, <1>a, <3>1, <4>1 DEF WaitOver, Full, TypeOK
      <4>4. \A w \in Workers : wpc'[w] = wpc[w] /\ Finder(w)' = Finder(w) BY <3>1 DEF Finder
      <4> QED BY <1>0, <4>1, <4>2, <4>3, <4>4 DEF NoMissedNotify
    <3> QED BY <3>2, <3>3
  <2>2. NoLostWakeup'
    BY <1>0, <1>3, NoneFallAsleep DEF TryEnough
  <2> QED BY <2>1, <2>2 DEF WakeInv
<1>4. ASSUME NEW f \in Finders, TryCell(f) PROVE WakeInv'
  <2>1. NoMissedNotify'
    BY <1>0, <1>4, <1>a, WakeFrame DEF TryCell, HasMutex, WaitOver, Full, Finder, TypeOK
  <2>2. NoLostWakeup'
    BY <1>0, <1>4, NoneFallAsleep DEF TryCell
  <2> QED BY <2>1, <2>2 DEF WakeInv
<1>5. ASSUME NEW f \in Finders, QueueWorklette(f) PROVE WakeInv'
  <2>1. f \notin asleep BY <1>a, <1>5 DEF QueueWorklette, Queue
  <2>2. \A w \in Workers : wpc'[w] # "asleep" /\ (wpc[w] = "notify" => wpc'[w] = "notify") /\ Finder(w)' = Finder(w)
    BY <1>0, <1>5, Awake DEF QueueWorklette, Queue, Finder
  <2>3. \A g \in Finders : g # f => pc'[g] = pc[g]
    BY <1>0, <1>5 DEF QueueWorklette, Queue, TypeOK
  <2>4. done' = done /\ ppl' = ppl /\ pending' = pending /\ asleep' = asleep
    BY <1>5 DEF QueueWorklette, Queue
  <2>5. \A g \in asleep : WaitOver(g)' => WaitOver(g)
    BY <1>a, <2>1, <2>3, <2>4 DEF WaitOver, Full
  <2>6. NoMissedNotify'
    BY <1>0, <2>2, <2>4, <2>5, WakeFrame
  <2>7. NoLostWakeup'
    BY <2>2, PplFindAssumption DEF NoLostWakeup
  <2> QED BY <2>6, <2>7 DEF WakeInv
<1>6. ASSUME NEW f \in Finders, Drained(f) PROVE WakeInv'
  <2>1. NoMissedNotify'
    BY <1>0, <1>6, <1>a, WakeFrame DEF Drained, HasMutex, WaitOver, Full, Finder, TypeOK
  <2>2. NoLostWakeup'
    BY <1>0, <1>6, NoneFallAsleep DEF Drained
  <2> QED BY <2>1, <2>2 DEF WakeInv
<1>7. ASSUME NEW f \in Finders, Return(f) PROVE WakeInv'
  <2>1. NoMissedNotify'
    BY <1>0, <1>7, <1>a, WakeFrame DEF Return, HasMutex, WaitOver, Full, Finder, TypeOK
  <2>2. NoLostWakeup'
    BY <1>0, <1>7, NoneFallAsleep DEF Return
  <2> QED BY <2>1, <2>2 DEF WakeInv
<1>8. ASSUME NEW f \in Finders, SpuriousWake(f) PROVE WakeInv'
  <2>1. NoMissedNotify'
    BY <1>0, <1>8, WakeFrame DEF SpuriousWake, WaitOver, Full, Finder
  <2>2. NoLostWakeup'
    BY <1>0, <1>8, NoneFallAsleep DEF SpuriousWake
  <2> QED BY <2>1, <2>2 DEF WakeInv
<1>9. ASSUME NEW w \in Workers, PopWork(w), UNCHANGED callVars PROVE WakeInv'
  <2>1. NoMissedNotify'
    BY <1>0, <1>9, WakeFrame DEF PopWork, WaitOver, Full, Finder, TypeOK
  <2>2. NoLostWakeup'
    BY <1>0, <1>9 DEF PopWork, NoLostWakeup, TypeOK
  <2> QED BY <2>1, <2>2 DEF WakeInv
<1>10. ASSUME NEW w \in Workers, WorkerWait(w), UNCHANGED callVars PROVE WakeInv'
  <2>1. NoMissedNotify'
    BY <1>0, <1>10, WakeFrame DEF WorkerWait, WaitOver, Full, Finder, TypeOK
  <2>2. NoLostWakeup'
    BY <1>0, <1>10 DEF WorkerWait, NoLostWakeup, TypeOK
  <2> QED BY <2>1, <2>2 DEF WakeInv
<1>11. ASSUME NEW w \in Workers, WorkerSpuriousWake(w), UNCHANGED callVars PROVE WakeInv'
  <2>1. NoMissedNotify'
    BY <1>0, <1>11, WakeFrame DEF WorkerSpuriousWake, WaitOver, Full, Finder, TypeOK
  <2>2. NoLostWakeup'
    BY <1>0, <1>11, NoneFallAsleep DEF WorkerSpuriousWake, TypeOK
  <2> QED BY <2>1, <2>2 DEF WakeInv
<1>12. ASSUME NEW w \in Workers, NothingLeft(w), UNCHANGED callVars PROVE WakeInv'
  <2>1. NoMissedNotify'
    BY <1>0, <1>12, WakeFrame DEF NothingLeft, WaitOver, Full, Finder, TypeOK
  <2>2. NoLostWakeup'
    BY <1>0, <1>12, NoneFallAsleep DEF NothingLeft, TypeOK
  <2> QED BY <2>1, <2>2 DEF WakeInv
<1>13. ASSUME NEW w \in Workers, WorkerDies(w), UNCHANGED callVars PROVE WakeInv'
  <2>1. NoMissedNotify'
    BY <1>0, <1>13, WakeFrame DEF WorkerDies, WaitOver, Full, Finder, TypeOK
  <2>2. NoLostWakeup'
    BY <1>0, <1>13, NoneFallAsleep DEF WorkerDies, TypeOK
  <2> QED BY <2>1, <2>2 DEF WakeInv
<1>14. ASSUME NEW w \in Workers, StartSearch(w) PROVE WakeInv'
  <2>1. NoMissedNotify'
    BY <1>0, <1>14, WakeFrame DEF StartSearch, WaitOver, Full, Finder, TypeOK
  <2>2. NoLostWakeup'
    BY <1>0, <1>14, NoneFallAsleep DEF StartSearch, TypeOK
  <2> QED BY <2>1, <2>2 DEF WakeInv
<1>15. ASSUME NEW w \in Workers, SkipSearch(w) PROVE WakeInv'
  <2>a. /\ wpc[w] \in {"start", "search"} /\ wpc' = [wpc EXCEPT ![w] = "notify"]
        /\ job' = job /\ asleep' = asleep /\ pc' = pc /\ work' = work /\ die' = die
    BY <1>15 DEF SkipSearch, EraseCell
  <2>b. Finder(w) \in Finders
    BY <1>0, <2>a DEF JobsInHand, Busy, Finder
  <2>c. \A g \in Finders : g # Finder(w) =>
          ppl'[g] = ppl[g] /\ pending'[g] = pending[g] /\ done'[g] = done[g]
    BY <1>0, <1>15, <2>b DEF SkipSearch, EraseCell, TypeOK
  <2>d. \A v \in Workers : Finder(v)' = Finder(v)
    BY <2>a DEF Finder
  <2>e. wpc'[w] = "notify" /\ \A v \in Workers : v # w => wpc'[v] = wpc[v]
    BY <1>0, <2>a DEF TypeOK
  <2>f. \A g \in asleep : g # Finder(w) /\ WaitOver(g)' => WaitOver(g)
    BY <1>a, <2>a, <2>c DEF WaitOver, Full
  <2>1. NoMissedNotify'
    BY <1>0, <2>a, <2>d, <2>e, <2>f, WakeFrame
  <2>2. NoLostWakeup'
    BY <1>0, <2>a, <2>e, NoneFallAsleep
  <2> QED BY <2>1, <2>2 DEF WakeInv
<1>16. ASSUME NEW w \in Workers, Merge(w) PROVE WakeInv'
  <2>a. /\ wpc[w] \in {"start", "search"} /\ wpc' = [wpc EXCEPT ![w] = "notify"]
        /\ job' = job /\ asleep' = asleep /\ pc' = pc /\ work' = work /\ die' = die
    BY <1>16 DEF Merge, EraseCell
  <2>b. Finder(w) \in Finders
    BY <1>0, <2>a DEF JobsInHand, Busy, Finder
  <2>c. \A g \in Finders : g # Finder(w) =>
          ppl'[g] = ppl[g] /\ pending'[g] = pending[g] /\ done'[g] = done[g]
    BY <1>0, <1>16, <2>b DEF Merge, EraseCell, TypeOK
  <2>d. \A v \in Workers : Finder(v)' = Finder(v)
    BY <2>a DEF Finder
  <2>e. wpc'[w] = "notify" /\ \A v \in Workers : v # w => wpc'[v] = wpc[v]
    BY <1>0, <2>a DEF TypeOK
  <2>f. \A g \in asleep : g # Finder(w) /\ WaitOver(g)' => WaitOver(g)
    BY <1>a, <2>a, <2>c DEF WaitOver, Full
  <2>1. NoMissedNotify'
    BY <1>0, <2>a, <2>d, <2>e, <2>f, WakeFrame
  <2>2. NoLostWakeup'
    BY <1>0, <2>a, <2>e, NoneFallAsleep
  <2> QED BY <2>1, <2>2 DEF WakeInv
<1>17. ASSUME NEW w \in Workers, Notify(w) PROVE WakeInv'
  <2>1. NoMissedNotify'
    BY <1>0, <1>17, WakeFrame DEF Notify, WaitOver, Full, Finder, TypeOK
  <2>2. NoLostWakeup'
    BY <1>0, <1>17, NoneFallAsleep DEF Notify, TypeOK
  <2> QED BY <2>1, <2>2 DEF WakeInv
<1>18. ASSUME NEW w \in Workers, Unlock(w) PROVE WakeInv'
  <2>1. NoMissedNotify'
    BY <1>0, <1>18, WakeFrame DEF Unlock, WorkletteEnds, WaitOver, Full, Finder, TypeOK
  <2>2. NoLostWakeup'
    BY <1>0, <1>18, NoneFallAsleep DEF Unlock, WorkletteEnds, TypeOK
  <2> QED BY <2>1, <2>2 DEF WakeInv
<1>19. ASSUME Die PROVE WakeInv'
  <2>1. \A w \in Workers : wpc'[w] # "asleep" /\ (wpc[w] = "notify" => wpc'[w] = "notify")
    BY <1>0, <1>19, Awake DEF Die, Destroy
  <2>2. NoMissedNotify'
    BY <1>0, <1>19, <2>1, WakeFrame DEF Die, Destroy, WaitOver, Full, Finder
  <2>3. NoLostWakeup'
    BY <2>1, PplFindAssumption DEF NoLostWakeup
  <2> QED BY <2>2, <2>3 DEF WakeInv
<1>20. CASE UNCHANGED vars
  BY <1>0, <1>20, WakeFrame, NoneFallAsleep DEF WakeInv, vars, WaitOver, Full, Finder
<1> QED BY <1>1, <1>2, <1>3, <1>4, <1>5, <1>6, <1>7, <1>8, <1>9, <1>10, <1>11, <1>12, <1>13, <1>14,
   <1>15, <1>16, <1>17, <1>18, <1>19, <1>20 DEF Next, FinderStep, WorkerStep, PoolStep

(* A new provider has no calls, no work and no sleepers.                   *)
LEMMA InitInv == Init => IInv
<1> SUFFICES ASSUME Init PROVE IInv
  OBVIOUS
<1>1. ControlInv
  <2>1. TypeOK
    <3>1. /\ pc \in [Finders -> FinderPcs] /\ next \in [Finders -> Nat \ {0}]
          /\ wpc \in [Workers -> WorkerPcs]
      BY DEF Init, PoolInit, FinderPcs, WorkerPcs
    <3>2. /\ asleep \subseteq Finders /\ die \in BOOLEAN
          /\ lock \in [Finders -> Finders \cup Workers \cup {NoThread}]
          /\ pending \in [Finders -> SUBSET Cells] /\ done \in [Finders -> BOOLEAN]
      BY DEF Init, PoolInit
    <3>3. <<>> \in Seq(People) /\ <<>> \in Seq(Finders \X Cells)
      BY EmptySeq
    <3>4. /\ ppl \in [Finders -> Seq(People)] /\ answer \in [Finders -> Seq(People)]
          /\ work \in Seq(Finders \X Cells)
          /\ job \in [Workers -> (Finders \X Cells) \cup {<<>>}]
      BY <3>3 DEF Init, PoolInit
    <3> QED BY <3>1, <3>2, <3>4 DEF TypeOK
  <2>2. JobsInHand BY DEF Init, PoolInit, JobsInHand, Busy
  <2>3. MutexOwner BY Threads DEF Init, PoolInit, MutexOwner
  <2>4. ContextAgrees BY DEF Init, PoolInit, ContextAgrees, Live
  <2> QED BY <2>1, <2>2, <2>3, <2>4 DEF ControlInv
<1>2. WorkInv
  BY DEF Init, PoolInit, WorkInv, PendingMatchesWork, NoWorkletteTwice, PendingOffered,
     NotifiedIsLive, BeingQueued, Queued, InHand, Holds
<1>3. WakeInv
  BY DEF Init, PoolInit, WakeInv, NoMissedNotify, NoLostWakeup
<1> QED BY <1>1, <1>2, <1>3 DEF IInv

(* Every reachable state has the inductive invariant.                      *)
THEOREM Invariance == Spec => []IInv
<1>1. IInv /\ [Next]_vars => IInv'
  BY ControlStep, WorkStep, WakeStep DEF IInv
<1> QED BY InitInv, <1>1, PTL DEF Spec

(* The variables keep their types.                                         *)
THEOREM TypeCorrect == Spec => []TypeOK
<1>1. IInv => TypeOK
  BY DEF IInv, ControlInv
<1> QED BY Invariance, <1>1, PTL

(* pending_cells counts exactly the worklettes that are on their way: a    *)
(* finder that sees it empty has none left, and one that has none left     *)
(* sees it empty.                                                          *)
THEOREM PendingIsExact == Spec => []PendingMatchesWork
<1>1. IInv => PendingMatchesWork
  BY DEF IInv, WorkInv
<1> QED BY Invariance, <1>1, PTL

(* No worklette is queued or run twice, so the erases in TryFindPplAsync   *)
(* find their cells: its CHECKs hold.                                      *)
THEOREM EraseFindsItsCell == Spec => []NoWorkletteTwice
<1>1. IInv => NoWorkletteTwice
  BY DEF IInv, WorkInv
<1> QED BY Invariance, <1>1, PTL

(* TryFindPpl's insert into pending_cells always inserts: its CHECK holds. *)
THEOREM InsertIsAlwaysNew == Spec => []InsertIsNew
<1>1. IInv => InsertIsNew
  BY OfferedOnce DEF IInv, WorkInv, InsertIsNew
<1> QED BY Invariance, <1>1, PTL

(* FindMatchingPpl does not return, and so destroys no context, while a    *)
(* worklette that points to it is queued or has the context's mutex.       *)
THEOREM NoDanglingContext == Spec => []ContextOutlivesWork
<1>1. IInv => ContextOutlivesWork
  <2> SUFFICES ASSUME IInv PROVE ContextOutlivesWork
    OBVIOUS
  <2>0. TypeOK /\ JobsInHand /\ PendingMatchesWork /\ PendingOffered /\ NotifiedIsLive
    BY DEF IInv, ControlInv, WorkInv
  <2>1. ASSUME NEW i \in 1..Len(work) PROVE Live(work[i][1])
    <3>1. work[i] \in Finders \X Cells
      BY <2>0 DEF TypeOK
    <3>2. work[i][1] \in Finders /\ work[i][2] \in Cells
      BY <3>1
    <3>3. Queued(work[i][1], work[i][2])
      BY DEF Queued
    <3>4. work[i][2] \in pending[work[i][1]]
      BY <2>0, <3>2, <3>3 DEF PendingMatchesWork
    <3> QED BY <2>0, <3>2, <3>4 DEF PendingOffered
  <2>2. ASSUME NEW w \in Workers, Busy(w) PROVE Live(Finder(w))
    <3>1. Finder(w) \in Finders /\ Cell(w) \in Cells
      BY <2>0, <2>2 DEF JobsInHand, Finder, Cell
    <3>2. CASE Holds(w)
      <4>1. InHand(Finder(w), Cell(w))
        BY <3>2 DEF InHand
      <4>2. Cell(w) \in pending[Finder(w)]
        BY <2>0, <3>1, <4>1 DEF PendingMatchesWork
      <4> QED BY <2>0, <3>1, <4>2 DEF PendingOffered
    <3>3. CASE ~Holds(w)
      BY <2>0, <2>2, <3>3 DEF Busy, Holds, NotifiedIsLive
    <3> QED BY <3>2, <3>3
  <2> QED BY <2>1, <2>2 DEF ContextOutlivesWork
<1> QED BY Invariance, <1>1, PTL

(* No finder sleeps on with nothing to wait for.                           *)
THEOREM NotificationsArrive == Spec => []NoMissedNotify
<1>1. IInv => NoMissedNotify
  BY DEF IInv, WakeInv
<1> QED BY Invariance, <1>1, PTL

(* The pool never sleeps on work or on its destruction, although its wait  *)
(* has no predicate.                                                       *)
THEOREM PoolIsAwake == Spec => []NoLostWakeup
<1>1. IInv => NoLostWakeup
  BY DEF IInv, WakeInv
<1> QED BY Invariance, <1>1, PTL

(* The destructor abandons no worklette: with every call over there is     *)
(* none left to abandon.                                                   *)
THEOREM NothingAbandoned == Spec => []NoWorkAbandoned
<1>1. IInv /\ ContextOutlivesWork => NoWorkAbandoned
  <2> SUFFICES ASSUME IInv, ContextOutlivesWork, die PROVE work = <<>> /\ \A w \in Workers : ~Busy(w)
    BY DEF NoWorkAbandoned
  <2>0. TypeOK /\ JobsInHand /\ ContextAgrees
    BY DEF IInv, ControlInv
  <2>1. \A f \in Finders : ~Live(f)
    BY <2>0 DEF ContextAgrees
  <2>2. ASSUME work # <<>> PROVE FALSE
    <3>1. work[1] \in Finders \X Cells /\ 1 \in 1..Len(work)
      BY <2>0, <2>2 DEF TypeOK
    <3>2. work[1][1] \in Finders
      BY <3>1
    <3> QED BY <2>1, <3>1, <3>2 DEF ContextOutlivesWork
  <2>3. ASSUME NEW w \in Workers, Busy(w) PROVE FALSE
    <3>1. Finder(w) \in Finders
      BY <2>0, <2>3 DEF JobsInHand, Finder
    <3> QED BY <2>1, <2>3, <3>1 DEF ContextOutlivesWork
  <2> QED BY <2>2, <2>3
<1> QED BY Invariance, NoDanglingContext, <1>1, PTL

(* What is pending is a finite set, and no larger than the concurrency.    *)
PendingBounded ==
  \A f \in Finders :
    /\ IsFiniteSet(pending[f])
    /\ Cardinality(pending[f]) <= PerFindConcurrency

(* Only TryCell makes a cell pending, and only below the bound.            *)
LEMMA BoundStep == TypeOK /\ JobsInHand /\ PendingBounded /\ [Next]_vars => PendingBounded'
<1> SUFFICES ASSUME TypeOK, JobsInHand, PendingBounded, [Next]_vars PROVE PendingBounded'
  OBVIOUS
<1>1. ASSUME NEW f \in Finders, TryCell(f) PROVE PendingBounded'
  <2> DEFINE C == Route[f][next[f]]
  <2>1. /\ pending' = [pending EXCEPT ![f] = pending[f] \cup {C}]
        /\ pc[f] = "try" /\ WaitOver(f) /\ ~done[f] /\ ~Full(f)
    BY <1>1 DEF TryCell
  <2>2. Cardinality(pending[f]) < PerFindConcurrency /\ IsFiniteSet(pending[f])
    BY <2>1 DEF WaitOver, PendingBounded
  <2>3. /\ IsFiniteSet(pending[f] \cup {C})
        /\ Cardinality(pending[f] \cup {C}) = IF C \in pending[f] THEN Cardinality(pending[f]) ELSE Cardinality(pending[f]) + 1
    BY <2>2, FS_AddElement
  <2>4. Cardinality(pending[f]) \in Nat /\ PerFindConcurrency \in Nat
    BY <2>2, FS_CardinalityType, PplFindAssumption
  <2>5. Cardinality(pending[f] \cup {C}) <= PerFindConcurrency
    BY <2>2, <2>3, <2>4
  <2>6. pending'[f] = pending[f] \cup {C} /\ \A g \in Finders : g # f => pending'[g] = pending[g]
    BY <2>1 DEF TypeOK
  <2> QED BY <2>3, <2>5, <2>6 DEF PendingBounded
<1>2. ASSUME NEW w \in Workers, EraseCell(w), Busy(w) PROVE PendingBounded'
  <2>1. Finder(w) \in Finders
    BY <1>2 DEF JobsInHand, Finder
  <2>2. \A f \in Finders : pending'[f] \subseteq pending[f]
    BY <1>2, <2>1 DEF EraseCell, TypeOK
  <2> SUFFICES ASSUME NEW f \in Finders
               PROVE  IsFiniteSet(pending'[f]) /\ Cardinality(pending'[f]) <= PerFindConcurrency
    BY DEF PendingBounded
  <2>3. IsFiniteSet(pending[f]) /\ Cardinality(pending[f]) <= PerFindConcurrency
    BY DEF PendingBounded
  <2>4. IsFiniteSet(pending'[f]) /\ Cardinality(pending'[f]) <= Cardinality(pending[f])
    BY <2>2, <2>3, FS_Subset
  <2>5. Cardinality(pending'[f]) \in Nat /\ Cardinality(pending[f]) \in Nat /\ PerFindConcurrency \in Nat
    BY <2>3, <2>4, FS_CardinalityType, PplFindAssumption
  <2> QED BY <2>3, <2>4, <2>5
<1>3. CASE pending' = pending
  BY <1>3 DEF PendingBounded
<1>4. CASE \E f \in Finders : Call(f) \/ FinderStep(f) \/ SpuriousWake(f)
  BY <1>1, <1>3, <1>4 DEF FinderStep, Call, Wait, TryEnough, QueueWorklette, Queue, Drained, Return,
     SpuriousWake, context
<1>5. CASE \E w \in Workers : WorkerStep(w) \/ (WorkerSpuriousWake(w) /\ UNCHANGED callVars)
  BY <1>2, <1>3, <1>5 DEF WorkerStep, StartSearch,
     SkipSearch, Merge, Notify, Unlock, callVars, context, Busy
<1>6. CASE Die \/ UNCHANGED vars
  BY <1>3, <1>6 DEF Die, callVars, vars, context
<1> QED BY <1>4, <1>5, <1>6 DEF Next

(* One find has at most per_find_concurrency_ cells in the pool.           *)
THEOREM PoolIsShared == Spec => []ConcurrencyBounded
<1>1. Init => PendingBounded
  BY FS_EmptySet, PplFindAssumption DEF Init, PoolInit, PendingBounded
<1>2. PendingBounded => ConcurrencyBounded
  BY DEF PendingBounded, ConcurrencyBounded
<1>3. IInv => TypeOK /\ JobsInHand
  BY DEF IInv, ControlInv
<1> QED BY Invariance, BoundStep, <1>1, <1>2, <1>3, PTL DEF Spec

-----------------------------------------------------------------------------
(* What a find answers: PplFind keeps the safety half of what              *)
(* MatchingPplProvider promises.                                           *)
(*                                                                         *)
(* AnswerOK follows the people into context.ppl.  They come from cells     *)
(* that have been offered and are not pending any more, and, as each cell  *)
(* has its own people and is pending until they are merged, nobody comes   *)
(* twice; unless there are enough, everybody in those cells is there.      *)

(* Who is to be found in the nth cell of f's route.                        *)
HitsAt(f, n) == Hits[f][Route[f][n]]

FromSearchedCells(f) ==
  \A i \in 1..Len(ppl[f]) : \E n \in 1..Len(Route[f]) :
    /\ n < next[f] /\ Route[f][n] \notin pending[f]
    /\ \E k \in 1..Len(HitsAt(f, n)) : HitsAt(f, n)[k] = ppl[f][i]

NoOneTwice(f) == \A i, j \in 1..Len(ppl[f]) : ppl[f][i] = ppl[f][j] => i = j

AllSearchedFound(f) ==
  ~done[f] /\ Live(f) =>
    \A n \in 1..Len(Route[f]) : n < next[f] /\ Route[f][n] \notin pending[f] =>
      \A k \in 1..Len(HitsAt(f, n)) :
        \E i \in 1..Len(ppl[f]) : ppl[f][i] = HitsAt(f, n)[k]

(* Why a find may stop, and what it leaves for the next call.              *)
StopsForAReason(f) ==
  /\ done[f] => Full(f)
  /\ pc[f] = "drain" => done[f]
  /\ pc[f] = "final" => done[f] \/ next[f] = Len(Route[f]) + 1
  /\ ~Live(f) => ppl[f] = <<>> /\ ~done[f]

AnswerOK(f) == /\ FromSearchedCells(f) /\ NoOneTwice(f)
               /\ AllSearchedFound(f) /\ StopsForAReason(f)

AnswerInv == \A f \in Finders : AnswerOK(f)

-----------------------------------------------------------------------------
(* The constants, typed.                                                   *)
LEMMA Routes ==
  ASSUME NEW f \in Finders
  PROVE  /\ Route[f] \in Seq(Cells) /\ Len(Route[f]) \in Nat \ {0}
         /\ \A n \in 1..Len(Route[f]) :
              /\ Route[f][n] \in Cells
              /\ HitsAt(f, n) \in Seq(People) /\ Len(HitsAt(f, n)) \in Nat
         /\ \A m, n \in 1..Len(Route[f]) : Route[f][m] = Route[f][n] => m = n
         /\ \A c \in Cells : Hits[f][c] \in Seq(People) /\ Len(Hits[f][c]) \in Nat
<1>1. Route[f] \in Seq(Cells) /\ Route[f] # <<>>
  BY PplFindAssumption
<1>2. \A c \in Cells : Hits[f][c] \in Seq(People)
  BY PplFindAssumption
<1>3. \A m, n \in 1..Len(Route[f]) : Route[f][m] = Route[f][n] => m = n
  BY PplFindAssumption
<1>4. Len(Route[f]) \in Nat \ {0} /\ \A n \in 1..Len(Route[f]) : Route[f][n] \in Cells
  BY <1>1
<1> QED BY <1>1, <1>2, <1>3, <1>4 DEF HitsAt

(* A finder whose call has not moved has nothing to show.                  *)
LEMMA Untouched ==
  ASSUME NEW f \in Finders, AnswerOK(f),
         pc'[f] = pc[f], next'[f] = next[f], ppl'[f] = ppl[f],
         pending'[f] = pending[f], done'[f] = done[f]
  PROVE  AnswerOK(f)'
<1>1. FromSearchedCells(f)'
  BY DEF AnswerOK, FromSearchedCells, HitsAt
<1>2. NoOneTwice(f)'
  BY DEF AnswerOK, NoOneTwice
<1>3. AllSearchedFound(f)'
  BY DEF AnswerOK, AllSearchedFound, Live, HitsAt
<1>4. StopsForAReason(f)'
  BY DEF AnswerOK, StopsForAReason, Live, Full
<1> QED BY <1>1, <1>2, <1>3, <1>4 DEF AnswerOK

(* Every step keeps AnswerInv.                                             *)
LEMMA AnswerStep == ControlInv /\ WorkInv /\ AnswerInv /\ [Next]_vars => AnswerInv'
<1> SUFFICES ASSUME ControlInv, WorkInv, AnswerInv, [Next]_vars, NEW g \in Finders
             PROVE  AnswerOK(g)'
  BY DEF AnswerInv
<1> USE DEF context, finderVars, callVars, poolVars
<1>a. AnswerOK(g) /\ TypeOK
  BY DEF AnswerInv, ControlInv
<1>b. ASSUME pc'[g] = pc[g], next'[g] = next[g], ppl'[g] = ppl[g],
             pending'[g] = pending[g], done'[g] = done[g]
      PROVE  AnswerOK(g)'
  BY <1>a, <1>b, Untouched
<1>c. \A c \in pending[g] : Live(g)
  BY DEF WorkInv, PendingOffered
<1>1. ASSUME NEW f \in Finders, Call(f) PROVE AnswerOK(g)'
  <2>1. CASE f = g
    <3>1. /\ pc'[g] = "try" /\ next'[g] = 1 /\ ppl'[g] = <<>> /\ done'[g] = FALSE
      BY <1>1, <1>a, <2>1 DEF Call, AnswerOK, StopsForAReason, TypeOK
    <3>10. FromSearchedCells(g)'
      BY <1>a, <3>1 DEF AnswerOK, FromSearchedCells, HitsAt
    <3>11. NoOneTwice(g)'
      BY <1>a, <3>1 DEF AnswerOK, NoOneTwice
    <3>12. AllSearchedFound(g)'
      BY <1>a, <3>1 DEF AnswerOK, AllSearchedFound, StopsForAReason, Live, HitsAt
    <3>13. StopsForAReason(g)'
      BY <1>a, <3>1 DEF AnswerOK, StopsForAReason, Live, Full
    <3> QED BY <3>10, <3>11, <3>12, <3>13 DEF AnswerOK
  <2>2. CASE f # g
    BY <1>1, <1>a, <1>b, <2>2 DEF Call, TypeOK
  <2> QED BY <2>1, <2>2
<1>2. ASSUME NEW f \in Finders, Wait(f) \/ SpuriousWake(f) PROVE AnswerOK(g)'
  BY <1>2, <1>b DEF Wait, SpuriousWake
<1>3. ASSUME NEW f \in Finders, TryEnough(f) PROVE AnswerOK(g)'
  <2>1. CASE f = g
    <3>1. /\ pc[g] = "try" /\ pc'[g] \in {"drain", "final"} /\ Full(g) /\ done'[g] = TRUE
          /\ ppl' = ppl /\ next' = next /\ pending' = pending
      BY <1>3, <1>a, <2>1 DEF TryEnough, TypeOK
    <3>10. FromSearchedCells(g)'
      BY <1>a, <3>1 DEF AnswerOK, FromSearchedCells, HitsAt
    <3>11. NoOneTwice(g)'
      BY <1>a, <3>1 DEF AnswerOK, NoOneTwice
    <3>12. AllSearchedFound(g)'
      BY <1>a, <3>1 DEF AnswerOK, AllSearchedFound, StopsForAReason, Live, HitsAt
    <3>13. StopsForAReason(g)'
      BY <1>a, <3>1 DEF AnswerOK, StopsForAReason, Live, Full
    <3> QED BY <3>10, <3>11, <3>12, <3>13 DEF AnswerOK
  <2>2. CASE f # g
    <3>1. pc'[g] = pc[g] /\ done'[g] = done[g]
      BY <1>3, <1>a, <2>2 DEF TryEnough, TypeOK
    <3> QED BY <1>3, <1>b, <3>1 DEF TryEnough
  <2> QED BY <2>1, <2>2
<1>4. ASSUME NEW f \in Finders, TryCell(f) PROVE AnswerOK(g)'
  <2>1. CASE f = g
    <3>1. /\ pc[g] = "try" /\ pc'[g] = "queue" /\ ppl' = ppl /\ next' = next /\ done' = done
          /\ pending'[g] = pending[g] \cup {Route[g][next[g]]}
      BY <1>4, <1>a, <2>1 DEF TryCell, TypeOK
    <3>2. next[g] \in 1..Len(Route[g])
      BY <1>4, <2>1, NextCell DEF TryCell, ControlInv
    <3>3. \A n \in 1..Len(Route[g]) : n < next[g] => Route[g][n] # Route[g][next[g]]
      BY <3>2, Routes
    <3>4. FromSearchedCells(g)'
      <4> SUFFICES ASSUME NEW i \in 1..Len(ppl'[g])
                   PROVE  \E n \in 1..Len(Route[g]) :
                            /\ n < next'[g] /\ Route[g][n] \notin pending'[g]
                            /\ \E k \in 1..Len(HitsAt(g, n)) : HitsAt(g, n)[k] = ppl'[g][i]
        BY DEF FromSearchedCells, HitsAt
      <4>1. PICK n \in 1..Len(Route[g]) :
              /\ n < next[g] /\ Route[g][n] \notin pending[g]
              /\ \E k \in 1..Len(HitsAt(g, n)) : HitsAt(g, n)[k] = ppl[g][i]
        BY <1>a, <3>1 DEF AnswerOK, FromSearchedCells
      <4> QED BY <3>1, <3>3, <4>1
    <3>5. NoOneTwice(g)'
      BY <1>a, <3>1 DEF AnswerOK, NoOneTwice
    <3>6. AllSearchedFound(g)'
      BY <1>a, <3>1 DEF AnswerOK, AllSearchedFound, Live, HitsAt
    <3>7. StopsForAReason(g)'
      BY <1>a, <3>1 DEF AnswerOK, StopsForAReason, Live, Full
    <3> QED BY <3>4, <3>5, <3>6, <3>7 DEF AnswerOK
  <2>2. CASE f # g
    BY <1>4, <1>a, <1>b, <2>2 DEF TryCell, TypeOK
  <2> QED BY <2>1, <2>2
<1>5. ASSUME NEW f \in Finders, QueueWorklette(f) PROVE AnswerOK(g)'
  <2>1. CASE f = g
    <3>1. /\ pc[g] = "queue" /\ ppl' = ppl /\ pending' = pending /\ done' = done
          /\ next'[g] = next[g] + 1
          /\ pc'[g] = IF next[g] = Len(Route[g]) THEN "final" ELSE "try"
      BY <1>5, <1>a, <2>1 DEF QueueWorklette, Queue, TypeOK
    <3>2. next[g] \in 1..Len(Route[g]) /\ Route[g][next[g]] \in Cells
      BY <3>1, NextCell DEF ControlInv
    <3>3. Route[g][next[g]] \in pending[g]
      BY <3>1, <3>2 DEF WorkInv, PendingMatchesWork, BeingQueued
    <3>4. FromSearchedCells(g)'
      <4> SUFFICES ASSUME NEW i \in 1..Len(ppl'[g])
                   PROVE  \E n \in 1..Len(Route[g]) :
                            /\ n < next'[g] /\ Route[g][n] \notin pending'[g]
                            /\ \E k \in 1..Len(HitsAt(g, n)) : HitsAt(g, n)[k] = ppl'[g][i]
        BY DEF FromSearchedCells, HitsAt
      <4>1. PICK n \in 1..Len(Route[g]) :
              /\ n < next[g] /\ Route[g][n] \notin pending[g]
              /\ \E k \in 1..Len(HitsAt(g, n)) : HitsAt(g, n)[k] = ppl[g][i]
        BY <1>a, <3>1 DEF AnswerOK, FromSearchedCells
      <4>2. n < next'[g] BY <3>1, <3>2, <4>1
      <4> QED BY <3>1, <4>1, <4>2
    <3>5. AllSearchedFound(g)'
      <4> SUFFICES ASSUME ~done[g], NEW n \in 1..Len(Route[g]), n < next'[g],
                          Route[g][n] \notin pending[g], NEW k \in 1..Len(HitsAt(g, n))
                   PROVE  \E i \in 1..Len(ppl[g]) : ppl[g][i] = HitsAt(g, n)[k]
        BY <3>1 DEF AllSearchedFound, HitsAt
      <4>1. n < next[g] BY <3>1, <3>2, <3>3
      <4>2. Live(g) BY <3>1 DEF Live
      <4> QED BY <1>a, <4>1, <4>2 DEF AnswerOK, AllSearchedFound
    <3>6. StopsForAReason(g)'
      BY <1>a, <3>1, <3>2, Routes DEF AnswerOK, StopsForAReason, Live, Full
    <3> QED BY <1>a, <3>1, <3>4, <3>5, <3>6 DEF AnswerOK, NoOneTwice
  <2>2. CASE f # g
    BY <1>5, <1>a, <1>b, <2>2 DEF QueueWorklette, Queue, TypeOK
  <2> QED BY <2>1, <2>2
<1>6. ASSUME NEW f \in Finders, Drained(f) PROVE AnswerOK(g)'
  <2>1. CASE f = g
    <3>1. /\ pc[g] = "drain" /\ pc'[g] = "final"
          /\ ppl' = ppl /\ next' = next /\ pending' = pending /\ done' = done
      BY <1>6, <1>a, <2>1 DEF Drained, TypeOK
    <3>10. FromSearchedCells(g)'
      BY <1>a, <3>1 DEF AnswerOK, FromSearchedCells, HitsAt
    <3>11. NoOneTwice(g)'
      BY <1>a, <3>1 DEF AnswerOK, NoOneTwice
    <3>12. AllSearchedFound(g)'
      BY <1>a, <3>1 DEF AnswerOK, AllSearchedFound, StopsForAReason, Live, HitsAt
    <3>13. StopsForAReason(g)'
      BY <1>a, <3>1 DEF AnswerOK, StopsForAReason, Live, Full
    <3> QED BY <3>10, <3>11, <3>12, <3>13 DEF AnswerOK
  <2>2. CASE f # g
    BY <1>6, <1>a, <1>b, <2>2 DEF Drained, TypeOK
  <2> QED BY <2>1, <2>2
<1>7. ASSUME NEW f \in Finders, Return(f) PROVE AnswerOK(g)'
  <2>1. CASE f = g
    <3>1. pc'[g] = "returned" /\ ppl'[g] = <<>> /\ done'[g] = FALSE
      BY <1>7, <1>a, <2>1 DEF Return, TypeOK
    <3>10. FromSearchedCells(g)'
      BY <1>a, <3>1 DEF AnswerOK, FromSearchedCells, HitsAt
    <3>11. NoOneTwice(g)'
      BY <1>a, <3>1 DEF AnswerOK, NoOneTwice
    <3>12. AllSearchedFound(g)'
      BY <1>a, <3>1 DEF AnswerOK, AllSearchedFound, StopsForAReason, Live, HitsAt
    <3>13. StopsForAReason(g)'
      BY <1>a, <3>1 DEF AnswerOK, StopsForAReason, Live, Full
    <3> QED BY <3>10, <3>11, <3>12, <3>13 DEF AnswerOK
  <2>2. CASE f # g
    BY <1>7, <1>a, <1>b, <2>2 DEF Return, TypeOK
  <2> QED BY <2>1, <2>2
<1>8. ASSUME NEW w \in Workers, SkipSearch(w) PROVE AnswerOK(g)'
  <2>0. PICK f \in Finders : f = Finder(w)
    BY <1>8 DEF SkipSearch, ControlInv, JobsInHand, Busy, Finder
  <2>1. CASE f = g
    <3>1. /\ done[g] /\ pending'[g] \subseteq pending[g]
          /\ pc' = pc /\ ppl' = ppl /\ next' = next /\ done' = done
      BY <1>8, <1>a, <2>0, <2>1 DEF SkipSearch, EraseCell, TypeOK
    <3>10. FromSearchedCells(g)'
      <4> SUFFICES ASSUME NEW i \in 1..Len(ppl'[g])
                   PROVE  \E n \in 1..Len(Route[g]) :
                            /\ n < next'[g] /\ Route[g][n] \notin pending'[g]
                            /\ \E k \in 1..Len(HitsAt(g, n)) : HitsAt(g, n)[k] = ppl'[g][i]
        BY DEF FromSearchedCells, HitsAt
      <4>1. PICK n \in 1..Len(Route[g]) :
              /\ n < next[g] /\ Route[g][n] \notin pending[g]
              /\ \E k \in 1..Len(HitsAt(g, n)) : HitsAt(g, n)[k] = ppl[g][i]
        BY <1>a, <3>1 DEF AnswerOK, FromSearchedCells
      <4> QED BY <3>1, <4>1
    <3>11. NoOneTwice(g)'
      BY <1>a, <3>1 DEF AnswerOK, NoOneTwice
    <3>12. AllSearchedFound(g)'
      BY <1>a, <3>1 DEF AnswerOK, AllSearchedFound, StopsForAReason, Live, HitsAt
    <3>13. StopsForAReason(g)'
      BY <1>a, <3>1 DEF AnswerOK, StopsForAReason, Live, Full
    <3> QED BY <3>10, <3>11, <3>12, <3>13 DEF AnswerOK
  <2>2. CASE f # g
    BY <1>8, <1>a, <1>b, <2>0, <2>2 DEF SkipSearch, EraseCell, TypeOK
  <2> QED BY <2>1, <2>2
<1>9. ASSUME NEW w \in Workers, Merge(w) PROVE AnswerOK(g)'
  <2>0. PICK f \in Finders, c \in Cells : f = Finder(w) /\ c = Cell(w)
    BY <1>9 DEF Merge, ControlInv, JobsInHand, Busy, Finder, Cell
  <2>1. CASE f = g
    <3>1. /\ pending'[g] = pending[g] \ {c} /\ ppl'[g] = ppl[g] \o Hits[g][c]
          /\ pc' = pc /\ next' = next /\ done' = done
      BY <1>9, <1>a, <2>0, <2>1 DEF Merge, EraseCell, TypeOK
    <3>2. c \in pending[g]
      BY <1>9, <2>0, <2>1 DEF Merge, WorkInv, PendingMatchesWork, InHand, Holds
    <3>3. PICK m \in 1..Len(Route[g]) : Route[g][m] = c /\ m < next[g]
      <4>1. pc[g] # "queue"
        BY <1>9, <2>0, <2>1, Threads DEF Merge, CanLock, ControlInv, MutexOwner
      <4> QED BY <3>2, <4>1 DEF WorkInv, PendingOffered
    <3> DEFINE hits == HitsAt(g, m)
    <3>4. hits \in Seq(People) /\ ppl[g] \in Seq(People) /\ ppl'[g] = ppl[g] \o hits
      BY <1>a, <3>1, <3>3, Routes DEF TypeOK, HitsAt
    <3>5. /\ Len(hits) \in Nat /\ Len(ppl[g]) \in Nat
          /\ Len(ppl'[g]) = Len(ppl[g]) + Len(hits)
          /\ \A i \in 1..Len(ppl[g]) : ppl'[g][i] = ppl[g][i]
          /\ \A k \in 1..Len(hits) : ppl'[g][Len(ppl[g]) + k] = hits[k]
      BY <3>4
    <3>6. \A i \in 1..Len(ppl'[g]) : i \in 1..Len(ppl[g]) \/
            \E k \in 1..Len(hits) : i = Len(ppl[g]) + k
      <4> SUFFICES ASSUME NEW i \in 1..Len(ppl'[g]), i \notin 1..Len(ppl[g])
                   PROVE  \E k \in 1..Len(hits) : i = Len(ppl[g]) + k
        OBVIOUS
      <4>1. i - Len(ppl[g]) \in 1..Len(hits) /\ i = Len(ppl[g]) + (i - Len(ppl[g]))
        BY <3>5
      <4> QED BY <4>1
    <3>7. \A i \in 1..Len(ppl[g]), k \in 1..Len(hits) : ppl[g][i] # hits[k]
      <4> SUFFICES ASSUME NEW i \in 1..Len(ppl[g]), NEW k \in 1..Len(hits), ppl[g][i] = hits[k]
                   PROVE  FALSE
        OBVIOUS
      <4>1. PICK n \in 1..Len(Route[g]) :
              /\ Route[g][n] \notin pending[g]
              /\ \E l \in 1..Len(HitsAt(g, n)) : HitsAt(g, n)[l] = ppl[g][i]
        BY <1>a DEF AnswerOK, FromSearchedCells
      <4>2. Route[g][n] \in Cells /\ Route[g][m] \in Cells
        BY Routes
      <4>3. Route[g][n] = Route[g][m]
        BY <4>1, <4>2, HitsAssumption DEF HitsAt
      <4> QED BY <3>2, <3>3, <4>1, <4>3
    <3>8. \A k, l \in 1..Len(hits) : hits[k] = hits[l] => k = l
      BY <3>3, Routes, HitsAssumption DEF HitsAt
    <3>9. FromSearchedCells(g)'
      <4> SUFFICES ASSUME NEW i \in 1..Len(ppl'[g])
                   PROVE  \E n \in 1..Len(Route[g]) :
                            /\ n < next[g] /\ Route[g][n] \notin pending'[g]
                            /\ \E k \in 1..Len(HitsAt(g, n)) : HitsAt(g, n)[k] = ppl'[g][i]
        BY <3>1 DEF FromSearchedCells, HitsAt
      <4>1. CASE i \in 1..Len(ppl[g])
        <5>1. PICK n \in 1..Len(Route[g]) :
                /\ n < next[g] /\ Route[g][n] \notin pending[g]
                /\ \E k \in 1..Len(HitsAt(g, n)) : HitsAt(g, n)[k] = ppl[g][i]
          BY <1>a, <4>1 DEF AnswerOK, FromSearchedCells
        <5> QED BY <3>1, <3>5, <4>1, <5>1
      <4>2. CASE \E k \in 1..Len(hits) : i = Len(ppl[g]) + k
        BY <3>1, <3>3, <3>5, <4>2
      <4> QED BY <3>6, <4>1, <4>2
    <3>10. NoOneTwice(g)'
      <4> SUFFICES ASSUME NEW i \in 1..Len(ppl'[g]), NEW j \in 1..Len(ppl'[g]),
                          ppl'[g][i] = ppl'[g][j]
                   PROVE  i = j
        BY DEF NoOneTwice
      <4>1. CASE i \in 1..Len(ppl[g]) /\ j \in 1..Len(ppl[g])
        BY <1>a, <3>5, <4>1 DEF AnswerOK, NoOneTwice
      <4>2. CASE i \notin 1..Len(ppl[g]) /\ j \notin 1..Len(ppl[g])
        <5>1. PICK k \in 1..Len(hits) : i = Len(ppl[g]) + k BY <3>6, <4>2
        <5>2. PICK l \in 1..Len(hits) : j = Len(ppl[g]) + l BY <3>6, <4>2
        <5>3. hits[k] = hits[l] BY <3>5, <5>1, <5>2
        <5> QED BY <3>8, <5>1, <5>2, <5>3
      <4>3. CASE i \in 1..Len(ppl[g]) /\ j \notin 1..Len(ppl[g])
        <5>1. PICK l \in 1..Len(hits) : j = Len(ppl[g]) + l BY <3>6, <4>3
        <5> QED BY <3>5, <3>7, <4>3, <5>1
      <4>4. CASE i \notin 1..Len(ppl[g]) /\ j \in 1..Len(ppl[g])
        <5>1. PICK l \in 1..Len(hits) : i = Len(ppl[g]) + l BY <3>6, <4>4
        <5> QED BY <3>5, <3>7, <4>4, <5>1
      <4> QED BY <4>1, <4>2, <4>3, <4>4
    <3>11. AllSearchedFound(g)'
      <4> SUFFICES ASSUME ~done[g], Live(g), NEW n \in 1..Len(Route[g]), n < next[g],
                          Route[g][n] \notin pending'[g], NEW k \in 1..Len(HitsAt(g, n))
                   PROVE  \E i \in 1..Len(ppl'[g]) : ppl'[g][i] = HitsAt(g, n)[k]
        BY <3>1 DEF AllSearchedFound, Live, HitsAt
      <4>1. CASE n = m
        <5>1. Len(ppl[g]) + k \in 1..Len(ppl'[g]) BY <3>5, <4>1
        <5> QED BY <3>5, <4>1, <5>1
      <4>2. CASE n # m
        <5>1. Route[g][n] # c BY <3>3, <4>2, Routes
        <5>2. PICK i \in 1..Len(ppl[g]) : ppl[g][i] = HitsAt(g, n)[k]
          BY <1>a, <3>1, <5>1 DEF AnswerOK, AllSearchedFound
        <5> QED BY <3>5, <5>2
      <4> QED BY <4>1, <4>2
    <3>12. StopsForAReason(g)'
      <4>1. Len(ppl'[g]) >= Len(ppl[g]) BY <3>5
      <4>2. Live(g) BY <1>c, <3>2
      <4> QED BY <1>a, <3>1, <3>5, <4>1, <4>2, PplFindAssumption
           DEF AnswerOK, StopsForAReason, Full, Live
    <3> QED BY <3>9, <3>10, <3>11, <3>12 DEF AnswerOK
  <2>2. CASE f # g
    BY <1>9, <1>a, <1>b, <2>0, <2>2 DEF Merge, EraseCell, TypeOK
  <2> QED BY <2>1, <2>2
<1>10. ASSUME NEW w \in Workers, StartSearch(w) \/ Notify(w) \/ Unlock(w) PROVE AnswerOK(g)'
  BY <1>10, <1>b DEF StartSearch, Notify, Unlock
<1>11. CASE UNCHANGED callVars
  BY <1>11, <1>b
<1>12. CASE UNCHANGED vars
  BY <1>12, <1>b DEF vars
<1> QED BY <1>1, <1>2, <1>3, <1>4, <1>5, <1>6, <1>7, <1>8, <1>9, <1>10, <1>11, <1>12
        DEF Next, FinderStep, WorkerStep, Die

LEMMA AnswerInit == Init => AnswerInv
<1> SUFFICES ASSUME Init, NEW f \in Finders PROVE AnswerOK(f)
  BY DEF AnswerInv
<1>1. pc[f] = "idle" /\ ppl[f] = <<>> /\ done[f] = FALSE
  BY DEF Init
<1> QED BY <1>1 DEF AnswerOK, FromSearchedCells, NoOneTwice, AllSearchedFound,
                    StopsForAReason, Live

LEMMA AnswerInvariance == Spec => [](IInv /\ AnswerInv)
<1>1. IInv /\ [Next]_vars => IInv'
  BY ControlStep, WorkStep, WakeStep DEF IInv
<1>2. IInv /\ AnswerInv /\ [Next]_vars => AnswerInv'
  BY AnswerStep DEF IInv
<1> QED BY InitInv, AnswerInit, <1>1, <1>2, PTL DEF Spec

-----------------------------------------------------------------------------
(* The people f is looking for, as the interface sees them.                *)
Wanted(f) == UNION {{Hits[f][c][k] : k \in DOMAIN Hits[f][c]} :
                      c \in {Route[f][i] : i \in DOMAIN Route[f]}}

LEMMA WhoIsWanted ==
  ASSUME NEW f \in Finders
  PROVE  /\ Wanted(f) \subseteq People
         /\ \A p : p \in Wanted(f) <=>
              \E n \in 1..Len(Route[f]) : \E k \in 1..Len(HitsAt(f, n)) : HitsAt(f, n)[k] = p
<1>1. DOMAIN Route[f] = 1..Len(Route[f])
  BY Routes
<1>2. \A n \in 1..Len(Route[f]) :
        /\ DOMAIN HitsAt(f, n) = 1..Len(HitsAt(f, n))
        /\ \A k \in 1..Len(HitsAt(f, n)) : HitsAt(f, n)[k] \in People
  BY Routes
<1>3. \A p : p \in Wanted(f) <=>
        \E n \in 1..Len(Route[f]) : \E k \in 1..Len(HitsAt(f, n)) : HitsAt(f, n)[k] = p
  <2>1. ASSUME NEW p \in Wanted(f)
        PROVE  \E n \in 1..Len(Route[f]) : \E k \in 1..Len(HitsAt(f, n)) : HitsAt(f, n)[k] = p
    <3>1. PICK n \in DOMAIN Route[f] : p \in {HitsAt(f, n)[k] : k \in DOMAIN HitsAt(f, n)}
      BY <2>1 DEF Wanted, HitsAt
    <3>2. PICK k \in DOMAIN HitsAt(f, n) : HitsAt(f, n)[k] = p
      BY <3>1
    <3> QED BY <1>1, <1>2, <3>2
  <2>2. ASSUME NEW n \in 1..Len(Route[f]), NEW k \in 1..Len(HitsAt(f, n))
        PROVE  HitsAt(f, n)[k] \in Wanted(f)
    <3>1. n \in DOMAIN Route[f] /\ k \in DOMAIN HitsAt(f, n)
      BY <1>1, <1>2
    <3> QED BY <3>1 DEF Wanted, HitsAt
  <2> QED BY <2>1, <2>2
<1> QED BY <1>2, <1>3

(* The answer is the first of the people found.                            *)
LEMMA AnswerIsPrefix ==
  ASSUME NEW f \in Finders, ppl[f] \in Seq(People)
  PROVE  /\ Resized(f) \in Seq(People) /\ Len(Resized(f)) \in Nat
         /\ Len(Resized(f)) = IF Len(ppl[f]) > MaxPpl THEN MaxPpl ELSE Len(ppl[f])
         /\ \A i \in 1..Len(Resized(f)) : i \in 1..Len(ppl[f]) /\ Resized(f)[i] = ppl[f][i]
<1>1. MaxPpl \in Nat /\ Len(ppl[f]) \in Nat
  BY PplFindAssumption
<1> QED BY <1>1, SubSeqProperties DEF Resized

(* What a find that may return has to say is acceptable.                   *)
LEMMA AnswerIsAcceptable ==
  ASSUME IInv, AnswerInv, NEW f \in Finders, pc[f] = "final", pending[f] = {}
  PROVE  /\ Len(Resized(f)) \in 0..MaxPpl
         /\ Resized(f) \in [1..Len(Resized(f)) -> Wanted(f)]
         /\ LET found == {Resized(f)[i] : i \in DOMAIN Resized(f)} IN
            /\ \A i, j \in DOMAIN Resized(f) : Resized(f)[i] = Resized(f)[j] => i = j
            /\ found \subseteq Wanted(f) \cap People
            /\ Len(Resized(f)) < MaxPpl => found = Wanted(f) \cap People
<1> DEFINE a == Resized(f)
<1>1. AnswerOK(f) /\ ppl[f] \in Seq(People) /\ MaxPpl \in Nat
  BY PplFindAssumption DEF AnswerInv, IInv, ControlInv, TypeOK
<1>2. Len(ppl[f]) \in Nat
  BY <1>1
<1>3. /\ a \in Seq(People) /\ Len(a) \in Nat
      /\ Len(a) = IF Len(ppl[f]) > MaxPpl THEN MaxPpl ELSE Len(ppl[f])
      /\ \A i \in 1..Len(a) : i \in 1..Len(ppl[f]) /\ a[i] = ppl[f][i]
  BY <1>1, AnswerIsPrefix
<1>4. \A i \in 1..Len(ppl[f]) : ppl[f][i] \in Wanted(f)
  BY <1>1, WhoIsWanted DEF AnswerOK, FromSearchedCells
<1>5. DOMAIN a = 1..Len(a) /\ Len(a) \in 0..MaxPpl
  BY <1>1, <1>2, <1>3
<1>6. \A i \in 1..Len(a) : a[i] \in Wanted(f)
  BY <1>3, <1>4
<1>7. a \in [1..Len(a) -> Wanted(f)]
  <2>1. a \in [1..Len(a) -> People] BY <1>3, LenProperties
  <2> QED BY <1>6, <2>1
<1>8. \A i, j \in DOMAIN a : a[i] = a[j] => i = j
  BY <1>1, <1>3, <1>5 DEF AnswerOK, NoOneTwice
<1>9. {a[i] : i \in DOMAIN a} \subseteq Wanted(f) \cap People
  BY <1>5, <1>6, WhoIsWanted
<1>10. ASSUME Len(a) < MaxPpl, NEW p \in Wanted(f)
       PROVE  p \in {a[i] : i \in DOMAIN a}
  <2>1. Len(ppl[f]) < MaxPpl /\ Len(a) = Len(ppl[f])
    BY <1>1, <1>2, <1>3, <1>10
  <2>2. ~done[f] /\ next[f] = Len(Route[f]) + 1 /\ Live(f)
    BY <1>1, <1>2, <2>1 DEF AnswerOK, StopsForAReason, Full, Live
  <2>3. PICK n \in 1..Len(Route[f]) : \E k \in 1..Len(HitsAt(f, n)) : HitsAt(f, n)[k] = p
    BY <1>10, WhoIsWanted
  <2>4. n < next[f] /\ Route[f][n] \notin pending[f]
    BY <2>2, Routes
  <2>5. PICK i \in 1..Len(ppl[f]) : ppl[f][i] = p
    BY <1>1, <2>2, <2>3, <2>4 DEF AnswerOK, AllSearchedFound
  <2>6. i \in DOMAIN a /\ a[i] = p
    BY <1>3, <1>5, <2>1, <2>5
  <2> QED BY <2>6
<1> HIDE DEF a
<1>11. Len(a) < MaxPpl => {a[i] : i \in DOMAIN a} = Wanted(f) \cap People
  BY <1>9, <1>10
<1> QED BY <1>5, <1>7, <1>8, <1>9, <1>11 DEF a

-----------------------------------------------------------------------------
(* Seen through MatchingPplProvider, a step of a find is the call, the     *)
(* return with an acceptable answer, or nothing.                           *)
LEMMA StepIsSeen == IInv /\ AnswerInv /\ [Next]_vars => [Abs!CallStep]_(Abs!vars)
<1> SUFFICES ASSUME IInv, AnswerInv, [Next]_vars PROVE Abs!CallStep \/ UNCHANGED Abs!vars
  OBVIOUS
<1> USE DEF context, finderVars, callVars, poolVars
<1>0. TypeOK
  BY DEF IInv, ControlInv
<1> DEFINE calling == {f \in Finders : Live(f)}
<1>u. ASSUME answer' = answer, \A f \in Finders : Live(f)' = Live(f)
      PROVE  UNCHANGED Abs!vars
  BY <1>u DEF Abs!vars
<1>1. ASSUME NEW f \in Finders, Call(f) PROVE Abs!CallStep
  <2>1. f \notin calling /\ calling' = calling \cup {f}
    BY <1>0, <1>1 DEF Call, Live, TypeOK
  <2>2. answer' = [answer EXCEPT ![f] = <<>>]
    BY <1>1 DEF Call
  <2> QED BY <2>1, <2>2 DEF Abs!CallStep, Abs!Call
<1>2. ASSUME NEW f \in Finders, Return(f) PROVE Abs!CallStep
  <2>1. f \in calling /\ calling' = calling \ {f}
    BY <1>0, <1>2 DEF Return, Live, TypeOK
  <2>2. pc[f] = "final" /\ pending[f] = {} /\ answer' = [answer EXCEPT ![f] = Resized(f)]
    BY <1>2 DEF Return, WaitOver
  <2> DEFINE a == Resized(f)
             found == {a[i] : i \in DOMAIN a}
             Matches == [g \in Finders |->
                           UNION {{Hits[g][c][k] : k \in DOMAIN Hits[g][c]} :
                                    c \in {Route[g][i] : i \in DOMAIN Route[g]}}]
  <2>3. /\ Len(a) \in 0..MaxPpl
        /\ a \in [1..Len(a) -> Wanted(f)]
        /\ \A i, j \in DOMAIN a : a[i] = a[j] => i = j
        /\ found \subseteq Wanted(f) \cap People
        /\ Len(a) < MaxPpl => found = Wanted(f) \cap People
    BY <2>2, AnswerIsAcceptable
  <2>4. Matches[f] = Wanted(f)
    BY DEF Wanted
  <2>a. Len(a) <= MaxPpl
    BY <2>3, PplFindAssumption
  <2>b. /\ \A i, j \in DOMAIN a : a[i] = a[j] => i = j
        /\ found \subseteq Matches[f] \cap People
        /\ Len(a) <= MaxPpl
        /\ Len(a) < MaxPpl => found = Matches[f] \cap People
    BY <2>3, <2>4, <2>a, Zenon
  <2>c. Abs!Acceptable(f, a)
    BY <2>b DEF Abs!Acceptable
  <2>5. Abs!Return(f)
    <3>1. \E n \in 0..MaxPpl : \E b \in [1..n -> Matches[f]] :
            Abs!Acceptable(f, b) /\ answer' = [answer EXCEPT ![f] = b]
      BY <2>2, <2>3, <2>4, <2>c, Zenon
    <3> QED BY <2>1, <3>1 DEF Abs!Return
  <2> QED BY <2>5 DEF Abs!CallStep
<1>3. CASE \E f \in Finders : \/ Wait(f) \/ TryEnough(f) \/ TryCell(f) \/ QueueWorklette(f)
                              \/ Drained(f) \/ SpuriousWake(f)
  BY <1>0, <1>3, <1>u DEF Wait, TryEnough, TryCell, QueueWorklette, Drained, SpuriousWake,
     Live, TypeOK
<1>4. CASE pc' = pc /\ answer' = answer
  BY <1>4, <1>u DEF Live
<1>5. CASE \E w \in Workers : WorkerStep(w) \/ (WorkerSpuriousWake(w) /\ UNCHANGED callVars)
  BY <1>4, <1>5 DEF WorkerStep, StartSearch, SkipSearch, Merge, Notify, Unlock
<1>6. CASE Die \/ UNCHANGED vars
  BY <1>4, <1>6 DEF Die, vars
<1> QED BY <1>1, <1>2, <1>3, <1>5, <1>6 DEF Next, FinderStep

(* The safety half of ImplementsProvider: FindMatchingPpl, with whatever   *)
(* number of finders and pool threads in whatever interleaving, is a call  *)
(* and a return with an acceptable answer - people who match, nobody       *)
(* twice, no more than MaxPpl, and fewer only when there are no more.      *)
THEOREM FindKeepsItsPromise == Spec => Abs!Init(People) /\ [][Abs!CallStep]_(Abs!vars)
<1>1. Init => Abs!Init(People)
  BY DEF Init, Abs!Init, Live
<1> QED BY <1>1, AnswerInvariance, StepIsSeen, PTL DEF Spec

-----------------------------------------------------------------------------
(* How far out of order: the cells offered that are not finished with, be  *)
(* they pending, or given up unsearched because there was enough, are at   *)
(* most PerFindConcurrency, and one of them is being merged.               *)
Missing(f, a, j, n) ==
  \E k \in 1..Len(HitsAt(f, n)) : \A i \in 1..j : a[i] # HitsAt(f, n)[k]

Unfinished(f) ==
  {n \in 1..Len(Route[f]) :
     /\ n < next[f] \/ (n = next[f] /\ pc[f] = "queue")
     /\ Route[f][n] \in pending[f] \/ Missing(f, ppl[f], Len(ppl[f]), n)}

FewUnfinished(f) == Live(f) => Cardinality(Unfinished(f)) <= PerFindConcurrency

JthInOrder(f, a, j) ==
  \E m \in 1..Len(Route[f]) :
    /\ \E k \in 1..Len(HitsAt(f, m)) : HitsAt(f, m)[k] = a[j]
    /\ Cardinality({n \in 1..(m-1) : Missing(f, a, j, n)}) < PerFindConcurrency

FoundInOrder(f, a) == \A j \in 1..Len(a) : JthInOrder(f, a, j)

OrderInv == \A f \in Finders : /\ FewUnfinished(f)
                               /\ FoundInOrder(f, ppl[f]) /\ FoundInOrder(f, answer[f])

LEMMA UnfinishedIsFinite ==
  ASSUME NEW f \in Finders
  PROVE  IsFiniteSet(Unfinished(f)) /\ Cardinality(Unfinished(f)) \in Nat
<1>1. IsFiniteSet(1..Len(Route[f]))
  <2>1. 1 \in Int /\ Len(Route[f]) \in Int
    BY Routes
  <2> QED BY <2>1, FS_Interval
<1>2. Unfinished(f) \in SUBSET (1..Len(Route[f]))
  BY DEF Unfinished
<1> QED BY <1>1, <1>2, FS_Subset, FS_CardinalityType

(* Fewer cells unfinished than before are few.                             *)
LEMMA StillFew ==
  ASSUME NEW f \in Finders, FewUnfinished(f), Live(f), Unfinished(f)' \subseteq Unfinished(f)
  PROVE  FewUnfinished(f)'
<1>1. /\ IsFiniteSet(Unfinished(f)) /\ Cardinality(Unfinished(f)) \in Nat
      /\ Cardinality(Unfinished(f)) <= PerFindConcurrency
  BY UnfinishedIsFinite DEF FewUnfinished
<1>2. IsFiniteSet(Unfinished(f)') /\ Cardinality(Unfinished(f)') <= Cardinality(Unfinished(f))
  BY <1>1, FS_Subset
<1>3. Cardinality(Unfinished(f)') \in Nat
  BY <1>2, FS_CardinalityType
<1>4. Cardinality(Unfinished(f)') <= PerFindConcurrency
  BY <1>1, <1>2, <1>3, PplFindAssumption
<1> QED BY <1>4 DEF FewUnfinished

(* While people are still looked for, the unfinished cells are the         *)
(* pending ones.                                                           *)
LEMMA PendingUnfinished ==
  ASSUME NEW f \in Finders, AnswerOK(f), pc[f] = "try", ~done[f], PendingBounded
  PROVE  Cardinality(Unfinished(f)) <= Cardinality(pending[f])
<1>1. \A n \in Unfinished(f) : n \in 1..Len(Route[f]) /\ Route[f][n] \in pending[f]
  <2> SUFFICES ASSUME NEW n \in Unfinished(f), Route[f][n] \notin pending[f] PROVE FALSE
    BY DEF Unfinished
  <2>1. n \in 1..Len(Route[f]) /\ n < next[f] /\ Missing(f, ppl[f], Len(ppl[f]), n)
    BY DEF Unfinished
  <2>2. PICK k \in 1..Len(HitsAt(f, n)) : \A i \in 1..Len(ppl[f]) : ppl[f][i] # HitsAt(f, n)[k]
    BY <2>1 DEF Missing
  <2>3. Live(f) BY DEF Live
  <2> QED BY <2>1, <2>2, <2>3 DEF AnswerOK, AllSearchedFound
<1> DEFINE place == [n \in Unfinished(f) |-> Route[f][n]]
<1>2. \A m, n \in Unfinished(f) : place[m] = place[n] => m = n
  BY <1>1, Routes
<1>3. place \in Injection(Unfinished(f), pending[f])
  BY <1>1, <1>2 DEF Injection, IsInjective
<1> HIDE DEF place
<1>4. IsFiniteSet(pending[f])
  BY DEF PendingBounded
<1> QED BY <1>3, <1>4, FS_Injection

(* What has been found before stays in its order.                          *)
LEMMA OrderOfPrefix ==
  ASSUME NEW f \in Finders, NEW a, FoundInOrder(f, a), NEW b,
         NEW j \in 1..Len(a), Len(a) \in Nat, \A i \in 1..j : b[i] = a[i]
  PROVE  JthInOrder(f, b, j)
<1>1. PICK m \in 1..Len(Route[f]) :
        /\ \E k \in 1..Len(HitsAt(f, m)) : HitsAt(f, m)[k] = a[j]
        /\ Cardinality({n \in 1..(m-1) : Missing(f, a, j, n)}) < PerFindConcurrency
  BY DEF FoundInOrder, JthInOrder
<1>2. \A i \in 1..j : b[i] = a[i]
  OBVIOUS
<1>3. \A n \in 1..(m-1) : Missing(f, b, j, n) <=> Missing(f, a, j, n)
  BY <1>2 DEF Missing
<1>4. {n \in 1..(m-1) : Missing(f, b, j, n)} = {n \in 1..(m-1) : Missing(f, a, j, n)}
  BY <1>3
<1>5. b[j] = a[j]
  OBVIOUS
<1> QED BY <1>1, <1>4, <1>5 DEF JthInOrder

(* A step that finds nobody, and offers no cell that was not offered.      *)
LEMMA Shrinks ==
  ASSUME NEW f \in Finders, ppl'[f] = ppl[f], pending'[f] \subseteq pending[f],
         \A n \in 1..Len(Route[f]) : n < next'[f] \/ (n = next'[f] /\ pc'[f] = "queue") =>
            n < next[f] \/ (n = next[f] /\ pc[f] = "queue")
  PROVE  Unfinished(f)' \subseteq Unfinished(f)
BY DEF Unfinished, Missing, HitsAt

LEMMA OrderStep ==
  ControlInv /\ WorkInv /\ AnswerInv /\ PendingBounded /\ OrderInv /\ [Next]_vars => OrderInv'
<1> SUFFICES ASSUME ControlInv, WorkInv, AnswerInv, PendingBounded, OrderInv, [Next]_vars,
                    NEW g \in Finders
             PROVE  /\ FewUnfinished(g)'
                    /\ FoundInOrder(g, ppl'[g]) /\ FoundInOrder(g, answer'[g])
  BY DEF OrderInv, FoundInOrder, JthInOrder, Missing, HitsAt
<1> USE DEF context, finderVars, callVars, poolVars
<1>a. AnswerOK(g) /\ TypeOK
  BY DEF AnswerInv, ControlInv
<1>b. /\ FewUnfinished(g) /\ FoundInOrder(g, ppl[g]) /\ FoundInOrder(g, answer[g])
      /\ PerFindConcurrency \in Nat \ {0}
      /\ ppl[g] \in Seq(People) /\ Len(ppl[g]) \in Nat
  BY <1>a, PplFindAssumption DEF OrderInv, TypeOK
<1> DEFINE Goal == /\ FewUnfinished(g)'
                   /\ FoundInOrder(g, ppl'[g]) /\ FoundInOrder(g, answer'[g])
<1>c. ASSUME Live(g), ppl'[g] = ppl[g], answer'[g] = answer[g],
             pending'[g] \subseteq pending[g],
             \A n \in 1..Len(Route[g]) : n < next'[g] \/ (n = next'[g] /\ pc'[g] = "queue") =>
                n < next[g] \/ (n = next[g] /\ pc[g] = "queue")
      PROVE  Goal
  <2>1. FewUnfinished(g)'
    BY <1>b, <1>c, Shrinks, StillFew
  <2> QED BY <1>b, <1>c, <2>1
<1>d. ASSUME pc'[g] = pc[g], next'[g] = next[g], ppl'[g] = ppl[g],
             pending'[g] = pending[g], answer'[g] = answer[g]
      PROVE  Goal
  <2>1. CASE Live(g)
    BY <1>c, <1>d, <2>1
  <2>2. CASE ~Live(g)
    <3>1. ~Live(g)' BY <1>d, <2>2 DEF Live
    <3> QED BY <1>b, <1>d, <3>1 DEF FewUnfinished
  <2> QED BY <2>1, <2>2
<1>1. ASSUME NEW f \in Finders, Call(f) PROVE Goal
  <2>1. CASE f = g
    <3>1. pc'[g] = "try" /\ next'[g] = 1 /\ ppl'[g] = <<>> /\ answer'[g] = <<>>
      BY <1>1, <1>a, <2>1 DEF Call, AnswerOK, StopsForAReason, TypeOK
    <3>2. Unfinished(g)' = {}
      BY <3>1 DEF Unfinished
    <3>3. Cardinality(Unfinished(g)') <= PerFindConcurrency
      BY <1>b, <3>2, FS_EmptySet
    <3>4. FoundInOrder(g, <<>>)
      BY DEF FoundInOrder
    <3> QED BY <3>1, <3>3, <3>4 DEF FewUnfinished
  <2>2. CASE f # g
    BY <1>1, <1>a, <1>d, <2>2 DEF Call, TypeOK
  <2> QED BY <2>1, <2>2
<1>2. ASSUME NEW f \in Finders, Wait(f) \/ SpuriousWake(f) PROVE Goal
  BY <1>2, <1>d DEF Wait, SpuriousWake
<1>3. ASSUME NEW f \in Finders, TryEnough(f) \/ Drained(f) PROVE Goal
  <2>1. CASE f = g
    BY <1>3, <1>a, <1>c, <2>1 DEF TryEnough, Drained, Live, TypeOK
  <2>2. CASE f # g
    BY <1>3, <1>a, <1>d, <2>2 DEF TryEnough, Drained, TypeOK
  <2> QED BY <2>1, <2>2
<1>4. ASSUME NEW f \in Finders, TryCell(f) PROVE Goal
  <2>1. CASE f = g
    <3>1. /\ pc[g] = "try" /\ ~done[g] /\ Cardinality(pending[g]) < PerFindConcurrency
          /\ ppl' = ppl /\ next' = next /\ answer' = answer
          /\ pending'[g] = pending[g] \cup {Route[g][next[g]]}
      BY <1>4, <1>a, <2>1 DEF TryCell, WaitOver, TypeOK
    <3>2. next[g] \in 1..Len(Route[g])
      BY <3>1, NextCell DEF ControlInv
    <3>3. /\ IsFiniteSet(Unfinished(g)) /\ Cardinality(Unfinished(g)) \in Nat
          /\ Cardinality(Unfinished(g)) <= Cardinality(pending[g])
      BY <1>a, <3>1, UnfinishedIsFinite, PendingUnfinished
    <3>4. Cardinality(pending[g]) \in Nat
      BY FS_CardinalityType DEF PendingBounded
    <3>5. Unfinished(g)' \subseteq Unfinished(g) \cup {next[g]}
      <4> SUFFICES ASSUME NEW n \in Unfinished(g)', n # next[g] PROVE n \in Unfinished(g)
        OBVIOUS
      <4>1. n \in 1..Len(Route[g]) /\ n < next[g]
        BY <3>1 DEF Unfinished
      <4>2. Route[g][n] \in pending'[g] \/ Missing(g, ppl[g], Len(ppl[g]), n)
        BY <3>1 DEF Unfinished, Missing, HitsAt
      <4>3. Route[g][n] # Route[g][next[g]]
        BY <3>2, <4>1, Routes
      <4> QED BY <3>1, <4>1, <4>2, <4>3 DEF Unfinished
    <3>6. /\ IsFiniteSet(Unfinished(g) \cup {next[g]})
          /\ Cardinality(Unfinished(g) \cup {next[g]}) <= Cardinality(Unfinished(g)) + 1
      BY <3>3, FS_AddElement
    <3>7. /\ Cardinality(Unfinished(g)') <= Cardinality(Unfinished(g) \cup {next[g]})
          /\ Cardinality(Unfinished(g)') \in Nat
          /\ Cardinality(Unfinished(g) \cup {next[g]}) \in Nat
      BY <3>5, <3>6, FS_Subset, FS_CardinalityType
    <3>8. Cardinality(Unfinished(g)') <= PerFindConcurrency
      BY <1>b, <3>1, <3>3, <3>4, <3>6, <3>7
    <3> QED BY <1>b, <3>1, <3>8 DEF FewUnfinished
  <2>2. CASE f # g
    BY <1>4, <1>a, <1>d, <2>2 DEF TryCell, TypeOK
  <2> QED BY <2>1, <2>2
<1>5. ASSUME NEW f \in Finders, QueueWorklette(f) PROVE Goal
  <2>1. CASE f = g
    <3>1. /\ pc[g] = "queue" /\ ppl' = ppl /\ pending' = pending /\ answer' = answer
          /\ next'[g] = next[g] + 1 /\ pc'[g] # "queue" /\ next[g] \in Nat
      BY <1>5, <1>a, <2>1 DEF QueueWorklette, Queue, TypeOK
    <3>2. \A n \in 1..Len(Route[g]) : n < next'[g] => n < next[g] \/ n = next[g]
      BY <3>1
    <3> QED BY <1>c, <3>1, <3>2 DEF Live
  <2>2. CASE f # g
    BY <1>5, <1>a, <1>d, <2>2 DEF QueueWorklette, Queue, TypeOK
  <2> QED BY <2>1, <2>2
<1>6. ASSUME NEW f \in Finders, Return(f) PROVE Goal
  <2>1. CASE f = g
    <3>1. pc'[g] = "returned" /\ ppl'[g] = <<>> /\ answer'[g] = Resized(g)
      BY <1>6, <1>a, <2>1 DEF Return, TypeOK
    <3>2. FewUnfinished(g)' /\ FoundInOrder(g, ppl'[g])
      BY <3>1 DEF FewUnfinished, Live, FoundInOrder
    <3>3. FoundInOrder(g, Resized(g))
      <4> SUFFICES ASSUME NEW j \in 1..Len(Resized(g))
                   PROVE  JthInOrder(g, Resized(g), j)
        BY DEF FoundInOrder
      <4>1. j \in 1..Len(ppl[g]) /\ \A i \in 1..j : Resized(g)[i] = ppl[g][i]
        BY <1>b, AnswerIsPrefix
      <4> QED BY <1>b, <4>1, OrderOfPrefix
    <3> QED BY <3>1, <3>2, <3>3
  <2>2. CASE f # g
    BY <1>6, <1>a, <1>d, <2>2 DEF Return, TypeOK
  <2> QED BY <2>1, <2>2
<1>7. ASSUME NEW w \in Workers, SkipSearch(w) PROVE Goal
  <2>0. PICK f \in Finders, c \in Cells : f = Finder(w) /\ c = Cell(w)
    BY <1>7 DEF SkipSearch, ControlInv, JobsInHand, Busy, Finder, Cell
  <2>1. CASE f = g
    <3>1. /\ pending'[g] \subseteq pending[g]
          /\ pc' = pc /\ ppl' = ppl /\ next' = next /\ answer' = answer
      BY <1>7, <1>a, <2>0, <2>1 DEF SkipSearch, EraseCell, TypeOK
    <3>2. c \in pending[g]
      BY <1>7, <2>0, <2>1 DEF SkipSearch, WorkInv, PendingMatchesWork, InHand, Holds
    <3> QED BY <1>c, <3>1, <3>2 DEF WorkInv, PendingOffered
  <2>2. CASE f # g
    BY <1>7, <1>a, <1>d, <2>0, <2>2 DEF SkipSearch, EraseCell, TypeOK
  <2> QED BY <2>1, <2>2
<1>8. ASSUME NEW w \in Workers, Merge(w) PROVE Goal
  <2>0. PICK f \in Finders, c \in Cells : f = Finder(w) /\ c = Cell(w)
    BY <1>8 DEF Merge, ControlInv, JobsInHand, Busy, Finder, Cell
  <2>1. CASE f = g
    <3>1. /\ pending'[g] = pending[g] \ {c} /\ ppl'[g] = ppl[g] \o Hits[g][c]
          /\ pc' = pc /\ next' = next /\ answer' = answer
      BY <1>8, <1>a, <2>0, <2>1 DEF Merge, EraseCell, TypeOK
    <3>2. c \in pending[g]
      BY <1>8, <2>0, <2>1 DEF Merge, WorkInv, PendingMatchesWork, InHand, Holds
    <3>3. PICK m \in 1..Len(Route[g]) : Route[g][m] = c /\ m < next[g]
      <4>1. pc[g] # "queue"
        BY <1>8, <2>0, <2>1, Threads DEF Merge, CanLock, ControlInv, MutexOwner
      <4> QED BY <3>2, <4>1 DEF WorkInv, PendingOffered
    <3> DEFINE hits == HitsAt(g, m)
    <3>4. hits \in Seq(People) /\ ppl'[g] = ppl[g] \o hits
      BY <3>1, <3>3, Routes DEF HitsAt
    <3>5. /\ Len(hits) \in Nat
          /\ Len(ppl'[g]) = Len(ppl[g]) + Len(hits)
          /\ \A i \in 1..Len(ppl[g]) : ppl'[g][i] = ppl[g][i]
          /\ \A k \in 1..Len(hits) : ppl'[g][Len(ppl[g]) + k] = hits[k]
      BY <1>b, <3>4
    <3>6. Live(g) /\ m \in Unfinished(g)
      BY <3>2, <3>3 DEF WorkInv, PendingOffered, Unfinished
    <3>7. /\ IsFiniteSet(Unfinished(g)) /\ Cardinality(Unfinished(g)) \in Nat
          /\ Cardinality(Unfinished(g)) <= PerFindConcurrency
      BY <1>b, <3>6, UnfinishedIsFinite DEF FewUnfinished
    <3>8. ASSUME NEW n \in 1..Len(Route[g]), NEW j \in Nat, Len(ppl[g]) <= j,
                 Missing(g, ppl'[g], j, n)
          PROVE  Missing(g, ppl[g], Len(ppl[g]), n)
      <4>1. \A i \in 1..Len(ppl[g]) : i \in 1..j /\ ppl'[g][i] = ppl[g][i]
        BY <1>b, <3>5, <3>8
      <4> QED BY <3>8, <4>1 DEF Missing
    <3>9. FewUnfinished(g)'
      <4>1. ASSUME NEW n \in Unfinished(g)' PROVE n \in Unfinished(g)
        <5>1. /\ n \in 1..Len(Route[g])
              /\ n < next[g] \/ (n = next[g] /\ pc[g] = "queue")
              /\ Route[g][n] \in pending'[g] \/ Missing(g, ppl'[g], Len(ppl'[g]), n)
          BY <3>1 DEF Unfinished, Missing, HitsAt
        <5>2. Len(ppl'[g]) \in Nat /\ Len(ppl[g]) <= Len(ppl'[g])
          BY <1>b, <3>5
        <5> QED BY <3>1, <3>8, <5>1, <5>2 DEF Unfinished
      <4> QED BY <1>b, <3>6, <4>1, StillFew
    <3>10. FoundInOrder(g, ppl'[g])
      <4> SUFFICES ASSUME NEW j \in 1..Len(ppl'[g])
                   PROVE  JthInOrder(g, ppl'[g], j)
        BY DEF FoundInOrder
      <4>1. CASE j \in 1..Len(ppl[g])
        <5>1. \A i \in 1..j : ppl'[g][i] = ppl[g][i]
          BY <1>b, <3>5, <4>1
        <5> QED BY <1>b, <4>1, <5>1, OrderOfPrefix
      <4>2. CASE j \notin 1..Len(ppl[g])
        <5>1. /\ j - Len(ppl[g]) \in 1..Len(hits) /\ j = Len(ppl[g]) + (j - Len(ppl[g]))
              /\ j \in Nat /\ Len(ppl[g]) <= j
          BY <1>b, <3>5, <4>2
        <5>2. \E k \in 1..Len(hits) : hits[k] = ppl'[g][j]
          BY <3>5, <5>1
        <5> DEFINE S == {n \in 1..(m-1) : Missing(g, ppl'[g], j, n)}
        <5>3. \A n \in S : n \in Unfinished(g) /\ n # m
          <6> SUFFICES ASSUME NEW n \in 1..(m-1), Missing(g, ppl'[g], j, n)
                       PROVE  n \in Unfinished(g) /\ n # m
            OBVIOUS
          <6>1. n \in 1..Len(Route[g]) /\ n < next[g] /\ n # m
            BY <1>a, <3>3, Routes DEF TypeOK
          <6>2. Missing(g, ppl[g], Len(ppl[g]), n)
            BY <3>8, <5>1, <6>1
          <6> QED BY <6>1, <6>2 DEF Unfinished
        <5> HIDE DEF S
        <5>4. S \subseteq Unfinished(g) \ {m}
          BY <5>3
        <5>5. /\ IsFiniteSet(Unfinished(g) \ {m})
              /\ Cardinality(Unfinished(g) \ {m}) = Cardinality(Unfinished(g)) - 1
          BY <3>6, <3>7, FS_RemoveElement
        <5>6. IsFiniteSet(S) /\ Cardinality(S) <= Cardinality(Unfinished(g) \ {m})
          BY <5>4, <5>5, FS_Subset
        <5>7. Cardinality(S) \in Nat
          BY <5>6, FS_CardinalityType
        <5>8. Cardinality(S) < PerFindConcurrency
          BY <1>b, <3>7, <5>5, <5>6, <5>7
        <5> QED BY <5>2, <5>8 DEF S, JthInOrder
      <4> QED BY <4>1, <4>2
    <3> QED BY <1>b, <3>1, <3>9, <3>10
  <2>2. CASE f # g
    BY <1>8, <1>a, <1>d, <2>0, <2>2 DEF Merge, EraseCell, TypeOK
  <2> QED BY <2>1, <2>2
<1>9. ASSUME NEW w \in Workers, StartSearch(w) \/ Notify(w) \/ Unlock(w) PROVE Goal
  BY <1>9, <1>d DEF StartSearch, Notify, Unlock
<1>10. CASE UNCHANGED callVars
  BY <1>10, <1>d
<1>11. CASE UNCHANGED vars
  BY <1>11, <1>d DEF vars
<1> QED BY <1>1, <1>2, <1>3, <1>4, <1>5, <1>6, <1>7, <1>8, <1>9, <1>10, <1>11
        DEF Next, FinderStep, WorkerStep, Die

-----------------------------------------------------------------------------
(* As nobody is in two cells, At is the cell where somebody was found.     *)
LEMMA AtIsWhere ==
  ASSUME NEW f \in Finders, NEW m \in 1..Len(Route[f]), NEW k \in 1..Len(HitsAt(f, m))
  PROVE  At(f, HitsAt(f, m)[k]) = m
<1> DEFINE p == HitsAt(f, m)[k]
<1>1. ASSUME NEW i \in 1..Len(Route[f]), NEW l \in DOMAIN HitsAt(f, i), HitsAt(f, i)[l] = p
      PROVE  i = m
  <2>1. l \in 1..Len(HitsAt(f, i)) /\ Route[f][i] \in Cells /\ Route[f][m] \in Cells
    BY Routes
  <2>2. Route[f][i] = Route[f][m]
    BY <1>1, <2>1, HitsAssumption DEF HitsAt
  <2> QED BY <2>2, Routes
<1>2. k \in DOMAIN HitsAt(f, m)
  BY Routes
<1> QED BY <1>1, <1>2 DEF At, HitsAt

LEMMA OrderInit == Init => OrderInv /\ PendingBounded
<1> SUFFICES ASSUME Init, NEW f \in Finders
             PROVE  /\ FewUnfinished(f) /\ FoundInOrder(f, ppl[f]) /\ FoundInOrder(f, answer[f])
                    /\ IsFiniteSet(pending[f]) /\ Cardinality(pending[f]) <= PerFindConcurrency
  BY DEF OrderInv, PendingBounded
<1>1. pc[f] = "idle" /\ ppl[f] = <<>> /\ answer[f] = <<>> /\ pending[f] = {}
  BY DEF Init
<1> QED BY <1>1, FS_EmptySet, PplFindAssumption DEF FewUnfinished, FoundInOrder, Live

(* An answer is out of order of distance by fewer than PerFindConcurrency  *)
(* cells, whatever the pool does with the searches and whenever the find   *)
(* has enough and gives up the cells still queued.                         *)
THEOREM NearlyInOrder == Spec => []NearestFirst
<1>1. TypeOK /\ OrderInv => NearestFirst
  <2> SUFFICES ASSUME TypeOK, OrderInv, NEW f \in Finders, NEW a \in {ppl[f], answer[f]},
                      NEW j \in DOMAIN a
               PROVE  Cardinality({n \in 1..(At(f, a[j]) - 1) :
                         \E k \in DOMAIN Hits[f][Route[f][n]] :
                           \A i \in 1..j : a[i] # Hits[f][Route[f][n]][k]})
                        < PerFindConcurrency
    BY DEF NearestFirst
  <2>1. a \in Seq(People) /\ FoundInOrder(f, a)
    BY DEF OrderInv, TypeOK
  <2>2. PICK m \in 1..Len(Route[f]) :
          /\ \E k \in 1..Len(HitsAt(f, m)) : HitsAt(f, m)[k] = a[j]
          /\ Cardinality({n \in 1..(m-1) : Missing(f, a, j, n)}) < PerFindConcurrency
    <3>1. j \in 1..Len(a) BY <2>1
    <3> QED BY <2>1, <3>1 DEF FoundInOrder, JthInOrder
  <2>3. At(f, a[j]) = m
    BY <2>2, AtIsWhere
  <2>4. \A n \in 1..(m-1) : DOMAIN Hits[f][Route[f][n]] = 1..Len(HitsAt(f, n))
    <3> SUFFICES ASSUME NEW n \in 1..(m-1) PROVE DOMAIN Hits[f][Route[f][n]] = 1..Len(HitsAt(f, n))
      OBVIOUS
    <3>1. n \in 1..Len(Route[f]) BY Routes
    <3>2. HitsAt(f, n) \in Seq(People) BY <3>1, Routes
    <3> QED BY <3>2 DEF HitsAt
  <2>5. {n \in 1..(m-1) : Missing(f, a, j, n)} =
          {n \in 1..(m-1) : \E k \in DOMAIN Hits[f][Route[f][n]] :
                               \A i \in 1..j : a[i] # Hits[f][Route[f][n]][k]}
    <3>1. \A n \in 1..(m-1) :
            Missing(f, a, j, n) <=> \E k \in DOMAIN Hits[f][Route[f][n]] :
                                      \A i \in 1..j : a[i] # Hits[f][Route[f][n]][k]
      <4> SUFFICES ASSUME NEW n \in 1..(m-1)
                   PROVE  Missing(f, a, j, n) <=> \E k \in DOMAIN Hits[f][Route[f][n]] :
                            \A i \in 1..j : a[i] # Hits[f][Route[f][n]][k]
        OBVIOUS
      <4>1. DOMAIN Hits[f][Route[f][n]] = 1..Len(HitsAt(f, n))
        BY <2>4
      <4> QED BY <4>1, Zenon DEF Missing, HitsAt
    <3> QED BY <3>1, Zenon
  <2> QED BY <2>2, <2>3, <2>5
<1>2. IInv => ControlInv /\ WorkInv /\ TypeOK /\ JobsInHand
  BY DEF IInv, ControlInv
<1> QED BY AnswerInvariance, OrderInit, BoundStep, OrderStep, <1>1, <1>2, PTL DEF Spec
=============================================================================
