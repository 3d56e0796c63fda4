------------------------ MODULE PrototypeFind_proofs ------------------------
(***************************************************************************)
(* The safety of PrototypeFind, proved for any calls, with any numbers of  *)
(* nearby cells, and any pool, one without threads included.               *)
(*                                                                         *)
(* The invariant has three layers.  ControlInv has the types and how far   *)
(* each call has come; it is enough for AnswerFrozen.  WorkInv follows     *)
(* each worklette through the pool: it has been counted, and is there      *)
(* once.  SumInv is PendingOpsExact and NothingLost, which are preserved   *)
(* given the other two.                                                    *)
(***************************************************************************)
EXTENDS PrototypeFind, Integers, FiniteSetTheorems, SequenceTheorems, TLAPS

CallPcs == {"idle", "count", "queue", "meet", "wait", "returned"}

TypeOK ==
  /\ pc \in [Calls -> CallPcs]
  /\ next \in [Calls -> Nat \ {0}]
  /\ ppl \in [Calls -> Seq(Nat)]
  /\ attached \in [Calls -> BOOLEAN]
  /\ pendingOps \in [Calls -> Int]
  /\ asleep \subseteq Calls
  /\ work \in Seq(Calls \X Nat)
  /\ die \in BOOLEAN
  /\ wpc \in [Workers -> WorkerPcs]
  /\ job \in [Workers -> (Calls \X Nat) \cup {<<>>}]

Holds(w) == wpc[w] \in {"start", "search"}

(* A thread has a worklette exactly while it is inside one.                *)
JobsInHand == \A w \in Workers : IF Holds(w) THEN job[w] \in Calls \X Nat
                                             ELSE job[w] = <<>>

(* A call's vector is in the hands of its worklettes until it returns.     *)
AttachedWhileLive == \A c \in Calls : attached[c] <=> Live(c)

(* Its loop goes over all the nearby cells.                                *)
Progress ==
  \A c \in Calls :
    /\ pc[c] = "idle" => next[c] = 1
    /\ pc[c] \in {"count", "queue"} => next[c] <= NumNearby[c]
    /\ pc[c] \in {"meet", "wait"} => next[c] = NumNearby[c] + 1
    /\ next[c] <= NumNearby[c] + 1

ControlInv == TypeOK /\ JobsInHand /\ AttachedWhileLive /\ Progress

Queued(c, n) == \E i \in 1..Len(work) : work[i][1] = c /\ work[i][2] = n

InHand(c, n) == \E w \in Workers : Holds(w) /\ job[w][1] = c /\ job[w][2] = n

(* The worklettes in the pool are of cells that their call's loop is past, *)
(* and no two are of one cell.                                             *)
Offered == \A c \in Calls, n \in Nat : Queued(c, n) \/ InHand(c, n) => n \in 1..(next[c] - 1)

Once ==
  /\ \A i, j \in 1..Len(work) :
       work[i][1] = work[j][1] /\ work[i][2] = work[j][2] => i = j
  /\ \A c \in Calls, n \in Nat : Queued(c, n) => ~InHand(c, n)
  /\ \A v, w \in Workers :
       Holds(v) /\ Holds(w) /\ job[v][1] = job[w][1] /\ job[v][2] = job[w][2] => v = w

WorkInv == Offered /\ Once

SumInv == PendingOpsExact /\ NothingLost

FindInv == ControlInv /\ WorkInv /\ SumInv

-----------------------------------------------------------------------------
(* notify_all leaves the threads inside worklettes where they are.         *)
LEMMA Awake ==
  ASSUME TypeOK
  PROVE  /\ WakeWorkers \in [Workers -> WorkerPcs]
         /\ \A w \in Workers :
              WakeWorkers[w] \in {"start", "search"} <=> wpc[w] \in {"start", "search"}
BY DEF TypeOK, WakeWorkers, WorkerPcs

(* Every step keeps the types and the agreement of pc, next and attached.  *)
LEMMA ControlStep == ControlInv /\ [Next]_vars => ControlInv'
<1> SUFFICES ASSUME ControlInv, [Next]_vars PROVE ControlInv'
  OBVIOUS
<1> USE DEF ControlInv, callVars, poolVars
<1>1. ASSUME NEW c \in Calls, Call(c) PROVE ControlInv'
  <2>1. TypeOK'
    <3>1. <<0>> \in Seq(Nat) OBVIOUS
    <3>2. ppl' \in [Calls -> Seq(Nat)] BY <1>1, <3>1 DEF Call, TypeOK
    <3>3. pc' \in [Calls -> CallPcs] /\ attached' \in [Calls -> BOOLEAN]
      BY <1>1 DEF Call, TypeOK, CallPcs
    <3> QED BY <1>1, <3>2, <3>3 DEF Call, TypeOK
  <2>2. JobsInHand' BY <1>1 DEF Call, JobsInHand, Holds
  <2>3. AttachedWhileLive' BY <1>1 DEF Call, AttachedWhileLive, Live, TypeOK
  <2>4. Progress'
    <3>1. next[c] = 1 /\ NumNearby[c] \in Nat
      BY <1>1, PrototypeFindAssumption DEF Call, Progress
    <3>2. pc'[c] = IF NumNearby[c] = 0 THEN "returned" ELSE "count"
      BY <1>1 DEF Call, TypeOK
    <3>3. next' = next /\ \A d \in Calls : d # c => pc'[d] = pc[d]
      BY <1>1 DEF Call, TypeOK
    <3> QED BY <3>1, <3>2, <3>3 DEF Progress
  <2> QED BY <2>1, <2>2, <2>3, <2>4
<1>2. ASSUME NEW c \in Calls, CountOp(c) PROVE ControlInv'
  <2>1. TypeOK' BY <1>2 DEF CountOp, TypeOK, CallPcs
  <2>2. JobsInHand' BY <1>2 DEF CountOp, JobsInHand, Holds
  <2>3. AttachedWhileLive' BY <1>2 DEF CountOp, AttachedWhileLive, Live, TypeOK
  <2>4. Progress' BY <1>2 DEF CountOp, Progress, TypeOK
  <2> QED BY <2>1, <2>2, <2>3, <2>4
<1>3. ASSUME NEW c \in Calls, QueueWorklette(c) PROVE ControlInv'
  <2>1. TypeOK'
    <3>1. work' \in Seq(Calls \X Nat)
      BY <1>3 DEF QueueWorklette, Queue, TypeOK
    <3>2. wpc' \in [Workers -> WorkerPcs]
      BY <1>3, Awake DEF QueueWorklette, Queue
    <3>3. pc' \in [Calls -> CallPcs] /\ next' \in [Calls -> Nat \ {0}]
      BY <1>3 DEF QueueWorklette, TypeOK, CallPcs
    <3> QED BY <1>3, <3>1, <3>2, <3>3 DEF QueueWorklette, Queue, TypeOK
  <2>2. JobsInHand' BY <1>3, Awake DEF QueueWorklette, Queue, JobsInHand, Holds
  <2>3. AttachedWhileLive'
    BY <1>3 DEF QueueWorklette, AttachedWhileLive, Live, TypeOK
  <2>4. Progress'
    <3>1. NumNearby[c] \in Nat /\ next[c] \in Nat /\ next[c] <= NumNearby[c]
      BY <1>3, PrototypeFindAssumption DEF QueueWorklette, Progress, TypeOK
    <3>2. /\ next'[c] = next[c] + 1
          /\ pc'[c] = IF next[c] = NumNearby[c] THEN "meet" ELSE "count"
          /\ \A d \in Calls : d # c => pc'[d] = pc[d] /\ next'[d] = next[d]
      BY <1>3 DEF QueueWorklette, TypeOK
    <3> QED BY <3>1, <3>2 DEF Progress
  <2> QED BY <2>1, <2>2, <2>3, <2>4
<1>4. ASSUME NEW c \in Calls, Meet(c) \/ Timeout(c) PROVE ControlInv'
  <2>1. Detach(c) /\ pc[c] \in {"meet", "wait"} BY <1>4 DEF Meet, Timeout
  <2>2. TypeOK' BY <2>1 DEF Detach, TypeOK, CallPcs
  <2>3. JobsInHand' BY <2>1 DEF Detach, JobsInHand, Holds
  <2>4. AttachedWhileLive' BY <2>1 DEF Detach, AttachedWhileLive, Live, TypeOK
  <2>5. Progress' BY <2>1 DEF Detach, Progress, TypeOK
  <2> QED BY <2>2, <2>3, <2>4, <2>5
<1>5. ASSUME NEW c \in Calls, Wait(c) PROVE ControlInv'
  <2>1. TypeOK' BY <1>5 DEF Wait, TypeOK, CallPcs
  <2>2. JobsInHand' BY <1>5 DEF Wait, JobsInHand, Holds
  <2>3. AttachedWhileLive' BY <1>5 DEF Wait, AttachedWhileLive, Live, TypeOK
  <2>4. Progress' BY <1>5 DEF Wait, Progress, TypeOK
  <2> QED BY <2>1, <2>2, <2>3, <2>4
<1>6. ASSUME NEW c \in Calls, SpuriousWake(c) PROVE ControlInv'
  BY <1>6 DEF SpuriousWake, TypeOK, JobsInHand, Holds, AttachedWhileLive, Progress, Live
<1>7. ASSUME NEW w \in Workers, PopWork(w), UNCHANGED callVars PROVE ControlInv'
  <2>1. work[1] \in Calls \X Nat /\ Tail(work) \in Seq(Calls \X Nat)
    BY <1>7, HeadTailProperties DEF PopWork, TypeOK
  <2>2. TypeOK' BY <1>7, <2>1 DEF PopWork, TypeOK, WorkerPcs
  <2>3. JobsInHand' BY <1>7, <2>1 DEF PopWork, JobsInHand, Holds, TypeOK
  <2>4. AttachedWhileLive' /\ Progress' BY <1>7 DEF AttachedWhileLive, Progress, Live
  <2> QED BY <2>2, <2>3, <2>4
<1>8. ASSUME NEW w \in Workers,
             WorkerWait(w) \/ WorkerSpuriousWake(w) \/ NothingLeft(w) \/ WorkerDies(w),
             UNCHANGED callVars
      PROVE ControlInv'
  <2>1. TypeOK'
    BY <1>8 DEF WorkerWait, WorkerSpuriousWake, NothingLeft, WorkerDies, TypeOK, WorkerPcs
  <2>2. JobsInHand'
    BY <1>8 DEF WorkerWait, WorkerSpuriousWake, NothingLeft, WorkerDies, JobsInHand,
                Holds, TypeOK
  <2>3. AttachedWhileLive' /\ Progress' BY <1>8 DEF AttachedWhileLive, Progress, Live
  <2> QED BY <2>1, <2>2, <2>3
<1>9. ASSUME NEW w \in Workers, StartOp(w) PROVE ControlInv'
  <2>1. TypeOK' BY <1>9 DEF StartOp, TypeOK, WorkerPcs
  <2>2. JobsInHand' BY <1>9 DEF StartOp, JobsInHand, Holds, TypeOK
  <2>3. AttachedWhileLive' /\ Progress'
    BY <1>9 DEF StartOp, AttachedWhileLive, Progress, Live
  <2> QED BY <2>1, <2>2, <2>3
<1>10. ASSUME NEW w \in Workers, SkipOp(w) \/ MergeOp(w) PROVE ControlInv'
  <2>1. Holds(w) /\ FinishOp(w) BY <1>10 DEF SkipOp, MergeOp, Holds
  <2>2. OpCall(w) \in Calls /\ job[w][2] \in Nat BY <2>1 DEF JobsInHand, OpCall
  <2>3. ppl' \in [Calls -> Seq(Nat)]
    <3>1. Append(ppl[OpCall(w)], job[w][2]) \in Seq(Nat) /\ ppl[OpCall(w)] \in Seq(Nat)
      BY <2>2 DEF TypeOK
    <3> QED BY <1>10, <2>2, <3>1 DEF SkipOp, MergeOp, TypeOK
  <2>4. pendingOps' \in [Calls -> Int] BY <2>1, <2>2 DEF FinishOp, TypeOK
  <2>5. TypeOK'
    BY <2>1, <2>3, <2>4 DEF FinishOp, WorkletteEnds, TypeOK, WorkerPcs
  <2>6. JobsInHand' BY <2>1 DEF FinishOp, WorkletteEnds, JobsInHand, Holds, TypeOK
  <2>7. AttachedWhileLive' /\ Progress'
    BY <2>1 DEF FinishOp, AttachedWhileLive, Progress, Live
  <2> QED BY <2>5, <2>6, <2>7
<1>11. ASSUME Die PROVE ControlInv'
  <2>1. TypeOK' BY <1>11, Awake DEF Die, Destroy, TypeOK
  <2>2. JobsInHand' BY <1>11, Awake DEF Die, Destroy, JobsInHand, Holds
  <2>3. AttachedWhileLive' /\ Progress' BY <1>11 DEF Die, AttachedWhileLive, Progress, Live
  <2> QED BY <2>1, <2>2, <2>3
<1>12. ASSUME UNCHANGED vars PROVE ControlInv'
  BY <1>12 DEF vars, TypeOK, JobsInHand, Holds, AttachedWhileLive, Progress, Live
<1> QED
  BY <1>1, <1>2, <1>3, <1>4, <1>5, <1>6, <1>7, <1>8, <1>9, <1>10, <1>11, <1>12
  DEF Next, CallStep, WorkerStep, PoolStep

LEMMA InitControl == Init => ControlInv
<1> SUFFICES ASSUME Init PROVE ControlInv
  OBVIOUS
<1>1. TypeOK
  <2>1. ppl \in [Calls -> Seq(Nat)] /\ work \in Seq(Calls \X Nat)
    BY DEF Init, PoolInit
  <2>2. /\ wpc \in [Workers -> WorkerPcs] /\ die \in BOOLEAN
        /\ job \in [Workers -> (Calls \X Nat) \cup {<<>>}]
    BY DEF Init, PoolInit, WorkerPcs
  <2>3. /\ pc \in [Calls -> CallPcs] /\ attached \in [Calls -> BOOLEAN]
        /\ next \in [Calls -> Nat \ {0}] /\ pendingOps \in [Calls -> Int]
        /\ asleep \subseteq Calls
    BY DEF Init, CallPcs
  <2> QED BY <2>1, <2>2, <2>3 DEF TypeOK
<1>2. JobsInHand
  BY DEF Init, PoolInit, JobsInHand, Holds
<1>3. AttachedWhileLive
  BY DEF Init, AttachedWhileLive, Live
<1>4. Progress
  BY PrototypeFindAssumption DEF Init, Progress
<1> QED BY <1>1, <1>2, <1>3, <1>4 DEF ControlInv

LEMMA ControlInvariance == Spec => []ControlInv
BY InitControl, ControlStep, PTL DEF Spec

(* After a call has returned, the vector that it has given to its caller   *)
(* is no longer attached, and only a worklette of an attached one puts     *)
(* anything into it.                                                       *)
THEOREM NothingComesLate == Spec => AnswerFrozen
<1>1. ControlInv /\ [Next]_vars =>
        [\A c \in Calls : pc[c] = "returned" => ppl'[c] = ppl[c]]_vars
  <2> SUFFICES ASSUME ControlInv, [Next]_vars, NEW c \in Calls, pc[c] = "returned"
               PROVE  ppl'[c] = ppl[c]
    OBVIOUS
  <2>1. ~attached[c] BY DEF ControlInv, AttachedWhileLive, Live
  <2>2. ASSUME NEW d \in Calls, Call(d) PROVE ppl'[c] = ppl[c]
    BY <2>2 DEF Call, ControlInv, TypeOK
  <2>3. ASSUME NEW w \in Workers, MergeOp(w) PROVE ppl'[c] = ppl[c]
    BY <2>1, <2>3 DEF MergeOp, ControlInv, TypeOK
  <2>4. CASE ppl' = ppl
    BY <2>4
  <2> QED
    BY <2>2, <2>3, <2>4
    DEF Next, CallStep, CountOp, QueueWorklette, Meet, Wait, SpuriousWake, Timeout,
        Detach, WorkerStep, StartOp, SkipOp, Die, callVars, vars
<1> QED BY <1>1, ControlInvariance, PTL DEF Spec, AnswerFrozen

-----------------------------------------------------------------------------
(* A step that neither queues, pops nor ends a worklette, and takes no     *)
(* call's loop back, keeps WorkInv.                                        *)
LEMMA QuietStep ==
  ASSUME TypeOK, WorkInv, work' = work, job' = job, next' = next,
         \A w \in Workers : Holds(w)' <=> Holds(w)
  PROVE  WorkInv'
<1>1. \A c \in Calls, n \in Nat : (Queued(c, n)' <=> Queued(c, n)) /\ (InHand(c, n)' <=> InHand(c, n))
  BY DEF Queued, InHand
<1> QED BY <1>1 DEF WorkInv, Offered, Once

(* A worklette that ends leaves the pool: it was there once.               *)
LEMMA EndStep ==
  ASSUME ControlInv, WorkInv, NEW w \in Workers, Holds(w), WorkletteEnds(w), next' = next
  PROVE  /\ WorkInv'
         /\ OpCall(w) \in Calls /\ job[w][2] \in Nat
         /\ InHand(OpCall(w), job[w][2])
         /\ \A c \in Calls, n \in Nat :
              /\ Queued(c, n)' <=> Queued(c, n)
              /\ InHand(c, n)' <=> InHand(c, n) /\ ~(c = OpCall(w) /\ n = job[w][2])
<1> USE DEF ControlInv, WorkInv
<1>1. OpCall(w) \in Calls /\ job[w][2] \in Nat
  BY DEF JobsInHand, OpCall
<1>2. \A v \in Workers : (Holds(v)' <=> Holds(v) /\ v # w) /\ (v # w => job'[v] = job[v])
  BY DEF WorkletteEnds, Holds, TypeOK
<1>3. \A c \in Calls, n \in Nat : Queued(c, n)' <=> Queued(c, n)
  BY DEF WorkletteEnds, Queued
<1>4. InHand(OpCall(w), job[w][2])
  BY DEF InHand, OpCall
<1>5. ASSUME NEW c \in Calls, NEW n \in Nat
      PROVE  InHand(c, n)' <=> InHand(c, n) /\ ~(c = OpCall(w) /\ n = job[w][2])
  <2>1. InHand(c, n)' <=> \E v \in Workers : Holds(v) /\ v # w /\ job[v][1] = c /\ job[v][2] = n
    BY <1>2 DEF InHand
  <2>2. \A v \in Workers : Holds(v) /\ job[v][1] = OpCall(w) /\ job[v][2] = job[w][2] => v = w
    BY DEF Once, OpCall
  <2> QED BY <2>1, <2>2 DEF InHand, OpCall
<1>6. Offered' BY <1>3, <1>5 DEF Offered
<1>7. Once'
  <2>1. work' = work BY DEF WorkletteEnds
  <2> QED BY <1>2, <1>3, <1>5, <2>1 DEF Once
<1> QED BY <1>1, <1>3, <1>4, <1>5, <1>6, <1>7

(* A worklette that is queued is new to the pool.                          *)
LEMMA QueueStep ==
  ASSUME ControlInv, WorkInv, NEW c \in Calls, QueueWorklette(c)
  PROVE  /\ WorkInv'
         /\ next[c] \in Nat /\ ~Queued(c, next[c]) /\ ~InHand(c, next[c])
         /\ \A d \in Calls, n \in Nat :
              /\ Queued(d, n)' <=> Queued(d, n) \/ (d = c /\ n = next[c])
              /\ InHand(d, n)' <=> InHand(d, n)
<1> USE DEF ControlInv, WorkInv
<1>1. next[c] \in Nat /\ next' = [next EXCEPT ![c] = @ + 1]
  BY DEF QueueWorklette, TypeOK
<1>2. ~Queued(c, next[c]) /\ ~InHand(c, next[c])
  BY <1>1 DEF Offered
<1>3. /\ Len(work') = Len(work) + 1 /\ Len(work) \in Nat
      /\ work'[Len(work) + 1] = <<c, next[c]>>
      /\ \A i \in 1..Len(work) : work'[i] = work[i]
  BY <1>1 DEF QueueWorklette, Queue, TypeOK
<1>4. job' = job /\ \A w \in Workers : Holds(w)' <=> Holds(w)
  BY Awake DEF QueueWorklette, Queue, Holds
<1>5. \A d \in Calls, n \in Nat : InHand(d, n)' <=> InHand(d, n)
  BY <1>4 DEF InHand
<1>6. \A d \in Calls, n \in Nat : Queued(d, n)' <=> Queued(d, n) \/ (d = c /\ n = next[c])
  BY <1>3 DEF Queued
<1>7. Offered'
  <2>1. \A d \in Calls : next[d] \in Nat /\ next'[d] = next[d] + (IF d = c THEN 1 ELSE 0)
    BY <1>1 DEF TypeOK
  <2>2. \A d \in Calls : 1..(next[d] - 1) \subseteq 1..(next'[d] - 1)
    BY <2>1
  <2>3. next[c] \in 1..(next'[c] - 1)
    BY <2>1 DEF TypeOK
  <2> QED BY <1>5, <1>6, <2>2, <2>3 DEF Offered
<1>8. Once'
  <2>1. \A i, j \in 1..Len(work') :
          work'[i][1] = work'[j][1] /\ work'[i][2] = work'[j][2] => i = j
    BY <1>2, <1>3 DEF Once, Queued
  <2>2. \A d \in Calls, n \in Nat : Queued(d, n)' => ~InHand(d, n)'
    BY <1>2, <1>5, <1>6 DEF Once
  <2> QED BY <1>4, <2>1, <2>2 DEF Once
<1> QED BY <1>1, <1>2, <1>5, <1>6, <1>7, <1>8

(* A worklette that is popped goes from the queue to its thread.           *)
LEMMA PopStep ==
  ASSUME ControlInv, WorkInv, NEW w \in Workers, PopWork(w), UNCHANGED callVars
  PROVE  /\ WorkInv'
         /\ \A c \in Calls, n \in Nat :
              Queued(c, n)' \/ InHand(c, n)' <=> Queued(c, n) \/ InHand(c, n)
<1> USE DEF ControlInv, WorkInv
<1> DEFINE C == work[1][1]
           N == work[1][2]
<1>1. /\ wpc[w] \in {"top", "woken"} /\ wpc' = [wpc EXCEPT ![w] = "start"]
      /\ job' = [job EXCEPT ![w] = work[1]]
      /\ work # <<>> /\ work' = Tail(work)
  BY DEF PopWork
<1>2. /\ Len(work) \in Nat \ {0} /\ Len(work') = Len(work) - 1
      /\ \A i \in 1..Len(work') : work'[i] = work[i + 1]
  BY <1>1, HeadTailProperties DEF TypeOK
<1>3. C \in Calls /\ N \in Nat
  BY <1>2 DEF TypeOK
<1>4. /\ Holds(w)' /\ ~Holds(w) /\ job'[w][1] = C /\ job'[w][2] = N
      /\ \A v \in Workers : v # w => (Holds(v)' <=> Holds(v)) /\ job'[v] = job[v]
  BY <1>1 DEF Holds, TypeOK
<1>5. Queued(C, N) /\ ~InHand(C, N)
  BY <1>2, <1>3 DEF Queued, Once
<1>6. \A c \in Calls, n \in Nat : InHand(c, n)' <=> InHand(c, n) \/ (c = C /\ n = N)
  BY <1>4 DEF InHand
<1>7. \A c \in Calls, n \in Nat : Queued(c, n)' <=> Queued(c, n) /\ ~(c = C /\ n = N)
  <2>1. \A i \in 1..Len(work) : i = 1 \/ i - 1 \in 1..Len(work')
    BY <1>2
  <2>2. \A i \in 1..Len(work) : work[i][1] = C /\ work[i][2] = N => i = 1
    BY <1>2 DEF Once
  <2>3. \A i \in 1..Len(work') : i + 1 \in 1..Len(work) /\ i + 1 # 1
    BY <1>2
  <2>4. \A i \in 1..Len(work) : i # 1 => work'[i - 1] = work[i]
    BY <1>2
  <2> SUFFICES ASSUME NEW c \in Calls, NEW n \in Nat
               PROVE  Queued(c, n)' <=> Queued(c, n) /\ ~(c = C /\ n = N)
    OBVIOUS
  <2>5. ASSUME Queued(c, n)' PROVE Queued(c, n) /\ ~(c = C /\ n = N)
    <3>1. PICK i \in 1..Len(work') : work'[i][1] = c /\ work'[i][2] = n
      BY <2>5 DEF Queued
    <3>2. i + 1 \in 1..Len(work) /\ work[i + 1][1] = c /\ work[i + 1][2] = n /\ i + 1 # 1
      BY <1>2, <2>3, <3>1
    <3> QED BY <2>2, <3>2 DEF Queued
  <2>6. ASSUME Queued(c, n), ~(c = C /\ n = N) PROVE Queued(c, n)'
    <3>1. PICK i \in 1..Len(work) : work[i][1] = c /\ work[i][2] = n
      BY <2>6 DEF Queued
    <3>2. i - 1 \in 1..Len(work') /\ work'[i - 1] = work[i]
      BY <2>1, <2>4, <2>6, <3>1
    <3> QED BY <3>1, <3>2 DEF Queued
  <2> QED BY <2>5, <2>6
<1>8. Offered'
  BY <1>3, <1>5, <1>6, <1>7 DEF Offered, callVars
<1>9. Once'
  <2>1. \A i, j \in 1..Len(work') :
          work'[i][1] = work'[j][1] /\ work'[i][2] = work'[j][2] => i = j
    <3>1. \A i \in 1..Len(work') : i \in Int /\ i + 1 \in 1..Len(work)
      BY <1>2
    <3> QED BY <1>2, <3>1 DEF Once
  <2>2. \A u, v \in Workers :
          Holds(u)' /\ Holds(v)' /\ job'[u][1] = job'[v][1] /\ job'[u][2] = job'[v][2] => u = v
    BY <1>4, <1>5 DEF Once, InHand
  <2> QED BY <1>6, <1>7, <2>1, <2>2 DEF Once
<1> QED BY <1>5, <1>6, <1>7, <1>8, <1>9

(* Every step keeps the worklettes one of a kind.                          *)
LEMMA WorkStep == ControlInv /\ WorkInv /\ [Next]_vars => WorkInv'
<1> SUFFICES ASSUME ControlInv, WorkInv, [Next]_vars PROVE WorkInv'
  OBVIOUS
<1>0. TypeOK BY DEF ControlInv
<1> USE DEF callVars, poolVars
<1>1. ASSUME NEW c \in Calls, Call(c) \/ CountOp(c) \/ Meet(c) \/ Wait(c)
                                \/ SpuriousWake(c) \/ Timeout(c)
      PROVE WorkInv'
  <2>1. UNCHANGED <<next, poolVars>>
    BY <1>1 DEF Call, CountOp, Meet, Wait, SpuriousWake, Timeout, Detach
  <2> QED BY <1>0, <2>1, QuietStep DEF Holds
<1>2. ASSUME NEW c \in Calls, QueueWorklette(c) PROVE WorkInv'
  BY <1>2, QueueStep
<1>3. ASSUME NEW w \in Workers, PopWork(w), UNCHANGED callVars PROVE WorkInv'
  BY <1>3, PopStep
<1>4. ASSUME NEW w \in Workers,
             \/ /\ WorkerWait(w) \/ WorkerSpuriousWake(w) \/ NothingLeft(w) \/ WorkerDies(w)
                /\ UNCHANGED callVars
             \/ StartOp(w)
      PROVE WorkInv'
  <2>1. UNCHANGED <<next, work, job>>
    BY <1>4 DEF WorkerWait, WorkerSpuriousWake, NothingLeft, WorkerDies, StartOp
  <2>2. \A v \in Workers : Holds(v)' <=> Holds(v)
    BY <1>0, <1>4 DEF WorkerWait, WorkerSpuriousWake, NothingLeft, WorkerDies, StartOp,
                      Holds, TypeOK
  <2> QED BY <1>0, <2>1, <2>2, QuietStep
<1>5. ASSUME NEW w \in Workers, SkipOp(w) \/ MergeOp(w) PROVE WorkInv'
  BY <1>5, EndStep DEF SkipOp, MergeOp, FinishOp, Holds
<1>6. ASSUME Die PROVE WorkInv'
  BY <1>0, <1>6, Awake, QuietStep DEF Die, Destroy, Holds
<1>7. ASSUME UNCHANGED vars PROVE WorkInv'
  BY <1>0, <1>7, QuietStep DEF vars, Holds
<1> QED
  BY <1>1, <1>2, <1>3, <1>4, <1>5, <1>6, <1>7 DEF Next, CallStep, WorkerStep, PoolStep

-----------------------------------------------------------------------------
(* Which nearby cells of a call are unfinished.                            *)
UnfinishedIsPool ==
  \A c \in Calls :
    /\ Unfinished(c) \subseteq 1..NumNearby[c]
    /\ \A n \in Nat : n \in Unfinished(c) <=> Queued(c, n) \/ InHand(c, n)

LEMMA UnfinishedInPool == ControlInv /\ WorkInv => UnfinishedIsPool
<1> SUFFICES ASSUME ControlInv, WorkInv, NEW c \in Calls, NEW n \in Nat
             PROVE  n \in Unfinished(c) <=> Queued(c, n) \/ InHand(c, n)
  BY DEF Unfinished, UnfinishedIsPool
<1> USE DEF ControlInv, WorkInv
<1>1. Queued(c, n) \/ InHand(c, n) => n \in 1..NumNearby[c]
  <2>1. NumNearby[c] \in Nat /\ next[c] \in Nat /\ next[c] <= NumNearby[c] + 1
    BY PrototypeFindAssumption DEF Progress, TypeOK
  <2> QED BY <2>1 DEF Offered
<1>2. Queued(c, n) <=> \E i \in 1..Len(work) : work[i] = <<c, n>>
  <2>1. \A i \in 1..Len(work) : work[i] \in Calls \X Nat
    BY DEF TypeOK
  <2> QED BY <2>1 DEF Queued
<1>3. InHand(c, n) <=> \E w \in Workers : job[w] = <<c, n>>
  <2>1. ASSUME NEW w \in Workers
        PROVE  job[w] = <<c, n>> <=> Holds(w) /\ job[w][1] = c /\ job[w][2] = n
    <3>1. CASE Holds(w)
      BY <3>1 DEF JobsInHand
    <3>2. CASE ~Holds(w)
      <4>1. job[w] = <<>> BY <3>2 DEF JobsInHand
      <4>2. <<c, n>> # <<>> OBVIOUS
      <4> QED BY <3>2, <4>1, <4>2
    <3> QED BY <3>1, <3>2
  <2> QED BY <2>1 DEF InHand
<1> QED BY <1>1, <1>2, <1>3 DEF Unfinished

(* Unfinished cells, and those merged, are few.                            *)
LEMMA FewCells ==
  ASSUME ControlInv, WorkInv, NEW c \in Calls
  PROVE  /\ IsFiniteSet(Unfinished(c)) /\ Cardinality(Unfinished(c)) \in Nat
         /\ NothingLost /\ Live(c) => IsFiniteSet(Merged(c))
<1>1. NumNearby[c] \in Nat /\ next[c] \in Nat
  BY PrototypeFindAssumption DEF ControlInv, TypeOK
<1>2. IsFiniteSet(1..NumNearby[c]) /\ IsFiniteSet(0..(next[c] - 1))
  <2>1. 0 \in Int /\ 1 \in Int /\ NumNearby[c] \in Int /\ next[c] - 1 \in Int
    BY <1>1
  <2>2. IsFiniteSet(1..NumNearby[c])
    BY <2>1, FS_Interval
  <2>3. IsFiniteSet(0..(next[c] - 1))
    BY <2>1, FS_Interval
  <2> QED BY <2>2, <2>3
<1>3. IsFiniteSet(Unfinished(c))
  <2>1. Unfinished(c) \subseteq 1..NumNearby[c]
    BY UnfinishedInPool DEF UnfinishedIsPool
  <2> QED BY <1>2, <2>1, FS_Subset
<1>4. ASSUME NothingLost, Live(c) PROVE IsFiniteSet(Merged(c))
  <2>1. Merged(c) \subseteq 0..(next[c] - 1)
    BY <1>4 DEF NothingLost
  <2> QED BY <1>2, <2>1, FS_Subset
<1> QED BY <1>3, <1>4, FS_CardinalityType

(* A step that leaves the unfinished cells as they are and starts no call. *)
LEMMA SumFrame ==
  ASSUME TypeOK, SumInv, ppl' = ppl, next' = next,
         \A c \in Calls :
           /\ Unfinished(c)' = Unfinished(c)
           /\ Live(c)' => Live(c)
           /\ pendingOps'[c] - (IF pc'[c] = "queue" THEN 1 ELSE 0)
                = pendingOps[c] - (IF pc[c] = "queue" THEN 1 ELSE 0)
           /\ pendingOps'[c] \in Int
           /\ Cardinality(Unfinished(c)) \in Nat
  PROVE  SumInv'
<1>1. PendingOpsExact'
  <2> SUFFICES ASSUME NEW c \in Calls
               PROVE  pendingOps'[c] = Cardinality(Unfinished(c)')
                                         + (IF pc'[c] = "queue" THEN 1 ELSE 0)
    BY DEF PendingOpsExact
  <2>1. pendingOps[c] = Cardinality(Unfinished(c)) + (IF pc[c] = "queue" THEN 1 ELSE 0)
    BY DEF SumInv, PendingOpsExact
  <2>2. Unfinished(c)' = Unfinished(c)
    OBVIOUS
  <2> QED BY <2>1, <2>2
<1>2. NothingLost'
  <2> SUFFICES ASSUME NEW c \in Calls, Live(c)'
               PROVE  (/\ Cardinality(Merged(c)) = Len(ppl[c])
                       /\ Merged(c) \cap Unfinished(c) = {}
                       /\ Merged(c) \cup Unfinished(c) = 0..(next[c] - 1))'
    BY DEF NothingLost
  <2>1. Live(c) /\ Unfinished(c)' = Unfinished(c)
    OBVIOUS
  <2>2. Merged(c)' = Merged(c)
    BY DEF Merged
  <2> QED BY <2>1, <2>2 DEF SumInv, NothingLost
<1> QED BY <1>1, <1>2 DEF SumInv

(* A worklette's end: it was counted and unfinished, and is neither now.   *)
LEMMA SumEnd ==
  ASSUME ControlInv, WorkInv, SumInv, NEW w \in Workers, SkipOp(w) \/ MergeOp(w),
         ControlInv', WorkInv'
  PROVE  SumInv'
<1>1. Holds(w) /\ FinishOp(w)
  BY DEF SkipOp, MergeOp, Holds
<1>a. OpCall(w) \in Calls /\ job[w][2] \in Nat
  BY <1>1 DEF ControlInv, JobsInHand, OpCall
<1>b. PICK C \in Calls, N \in Nat : C = OpCall(w) /\ N = job[w][2]
  BY <1>a
<1>2. /\ C \in Calls /\ N \in Nat /\ InHand(C, N)
      /\ \A c \in Calls, n \in Nat :
           Queued(c, n)' \/ InHand(c, n)' <=> (Queued(c, n) \/ InHand(c, n)) /\ ~(c = C /\ n = N)
  <2>1. WorkletteEnds(w) /\ next' = next BY <1>1 DEF FinishOp
  <2>2. /\ C \in Calls /\ N \in Nat /\ InHand(C, N)
        /\ \A c \in Calls, n \in Nat :
             /\ Queued(c, n)' <=> Queued(c, n)
             /\ InHand(c, n)' <=> InHand(c, n) /\ ~(c = C /\ n = N)
    BY <1>1, <1>b, <2>1, EndStep
  <2>3. ~Queued(C, N) BY <2>2 DEF WorkInv, Once
  <2> QED BY <2>2, <2>3
<1>3. \A c \in Calls : Unfinished(c) \subseteq Nat /\ Unfinished(c)' \subseteq Nat
  BY DEF Unfinished
<1>4. UnfinishedIsPool /\ UnfinishedIsPool'
  BY UnfinishedInPool, PTL
<1>5. \A c \in Calls, n \in Nat :
        n \in Unfinished(c)' <=> n \in Unfinished(c) /\ ~(c = C /\ n = N)
  BY <1>2, <1>4 DEF UnfinishedIsPool
<1>6. /\ N \in Unfinished(C) /\ Unfinished(C)' = Unfinished(C) \ {N}
      /\ \A c \in Calls : c # C => Unfinished(c)' = Unfinished(c)
  <2>1. N \in Unfinished(C)
    BY <1>2, <1>4 DEF UnfinishedIsPool
  <2>2. Unfinished(C)' = Unfinished(C) \ {N}
    BY <1>2, <1>3, <1>5
  <2>3. ASSUME NEW c \in Calls, c # C PROVE Unfinished(c)' = Unfinished(c)
    BY <1>3, <1>5, <2>3
  <2> QED BY <2>1, <2>2, <2>3
<1>7. /\ pc' = pc /\ next' = next /\ pendingOps' = [pendingOps EXCEPT ![C] = @ - 1]
      /\ \A c \in Calls : c # C => ppl'[c] = ppl[c]
      /\ ppl'[C] = IF attached[C] THEN Append(ppl[C], N) ELSE ppl[C]
  <2>1. pc' = pc /\ next' = next /\ pendingOps' = [pendingOps EXCEPT ![C] = @ - 1]
    BY <1>1, <1>b DEF FinishOp
  <2>2. CASE SkipOp(w)
    BY <2>1, <2>2, <1>b DEF SkipOp
  <2>3. CASE MergeOp(w)
    BY <2>1, <2>3, <1>b DEF MergeOp, ControlInv, TypeOK
  <2> QED BY <2>2, <2>3
<1>8. PendingOpsExact'
  <2>1. Cardinality(Unfinished(C) \ {N}) = Cardinality(Unfinished(C)) - 1
    BY <1>2, <1>6, FewCells, FS_RemoveElement
  <2>2. Cardinality(Unfinished(C)) \in Nat /\ pendingOps[C] \in Int
    BY <1>2, FewCells DEF ControlInv, TypeOK
  <2>3. pendingOps'[C] = pendingOps[C] - 1 /\ \A c \in Calls : c # C => pendingOps'[c] = pendingOps[c]
    BY <1>2, <1>7 DEF ControlInv, TypeOK
  <2> SUFFICES ASSUME NEW c \in Calls
               PROVE  pendingOps'[c] = Cardinality(Unfinished(c)')
                                         + (IF pc'[c] = "queue" THEN 1 ELSE 0)
    BY DEF PendingOpsExact
  <2>4. pendingOps[c] = Cardinality(Unfinished(c)) + (IF pc[c] = "queue" THEN 1 ELSE 0)
    BY DEF SumInv, PendingOpsExact
  <2>5. CASE c = C
    <3>1. Cardinality(Unfinished(c)') = Cardinality(Unfinished(c)) - 1
      BY <1>6, <2>1, <2>5
    <3>2. pendingOps'[c] = pendingOps[c] - 1 /\ pc'[c] = pc[c]
      BY <1>7, <2>3, <2>5
    <3>3. Cardinality(Unfinished(c)) \in Nat
      BY <2>2, <2>5
    <3> QED BY <2>4, <3>1, <3>2, <3>3
  <2>6. CASE c # C
    BY <1>6, <1>7, <2>3, <2>4, <2>6
  <2> QED BY <2>5, <2>6
<1>9. NothingLost'
  <2> SUFFICES ASSUME NEW c \in Calls, Live(c)'
               PROVE  (/\ Cardinality(Merged(c)) = Len(ppl[c])
                       /\ Merged(c) \cap Unfinished(c) = {}
                       /\ Merged(c) \cup Unfinished(c) = 0..(next[c] - 1))'
    BY DEF NothingLost
  <2>1. Live(c) BY <1>7 DEF Live
  <2>2. /\ Cardinality(Merged(c)) = Len(ppl[c])
        /\ Merged(c) \cap Unfinished(c) = {}
        /\ Merged(c) \cup Unfinished(c) = 0..(next[c] - 1)
    BY <2>1 DEF SumInv, NothingLost
  <2>3. CASE c # C
    <3>1. Merged(c)' = Merged(c) BY <1>7, <2>3 DEF Merged
    <3> QED BY <1>6, <1>7, <2>2, <2>3, <3>1
  <2>4. CASE c = C
    <3>1. ppl[C] \in Seq(Nat) /\ ppl'[C] = Append(ppl[C], N)
      BY <1>2, <1>7, <2>1, <2>4 DEF ControlInv, AttachedWhileLive, TypeOK
    <3>2. Len(ppl'[C]) = Len(ppl[C]) + 1 /\ Merged(C)' = Merged(C) \cup {N}
      <4>1. /\ Len(ppl'[C]) = Len(ppl[C]) + 1 /\ Len(ppl[C]) \in Nat
            /\ DOMAIN ppl[C] = 1..Len(ppl[C]) /\ DOMAIN ppl'[C] = 1..(Len(ppl[C]) + 1)
            /\ \A i \in 1..Len(ppl[C]) : ppl'[C][i] = ppl[C][i]
            /\ ppl'[C][Len(ppl[C]) + 1] = N
        BY <1>2, <3>1
      <4>2. ASSUME NEW n PROVE n \in Merged(C)' <=> n \in Merged(C) \/ n = N
        BY <4>1 DEF Merged
      <4> QED BY <4>1, <4>2
    <3>3. N \notin Merged(C) BY <1>6, <2>2, <2>4
    <3>4. IsFiniteSet(Merged(C)) BY <1>2, <2>1, <2>4, FewCells DEF SumInv
    <3>5. Cardinality(Merged(C) \cup {N}) = Cardinality(Merged(C)) + 1
      BY <3>3, <3>4, FS_AddElement
    <3> QED BY <1>6, <1>7, <2>2, <2>4, <3>2, <3>3, <3>5
  <2> QED BY <2>3, <2>4
<1> QED BY <1>8, <1>9 DEF SumInv

(* Every step keeps the count exact and loses no cell.                     *)
LEMMA SumStep ==
  ControlInv /\ WorkInv /\ SumInv /\ [Next]_vars /\ ControlInv' /\ WorkInv' => SumInv'
<1> SUFFICES ASSUME ControlInv, WorkInv, SumInv, [Next]_vars, ControlInv', WorkInv'
             PROVE  SumInv'
  OBVIOUS
<1> USE DEF callVars, poolVars
<1>a. TypeOK /\ Progress BY DEF ControlInv
<1>b. \A c \in Calls : Cardinality(Unfinished(c)) \in Nat /\ pendingOps[c] \in Int
  BY <1>a, FewCells DEF TypeOK
<1>c. UnfinishedIsPool /\ UnfinishedIsPool'
  BY UnfinishedInPool, PTL
<1>d. \A c \in Calls : Unfinished(c) \subseteq Nat /\ Unfinished(c)' \subseteq Nat
  BY DEF Unfinished
<1>1. ASSUME NEW c \in Calls, Call(c) PROVE SumInv'
  <2>1. /\ pc[c] = "idle" /\ pc'[c] # "queue" /\ \A d \in Calls : d # c => pc'[d] = pc[d]
        /\ ppl'[c] = <<0>> /\ \A d \in Calls : d # c => ppl'[d] = ppl[d]
        /\ UNCHANGED <<next, pendingOps, work, job>>
    BY <1>1, <1>a DEF Call, TypeOK
  <2>2. \A d \in Calls : Unfinished(d)' = Unfinished(d)
    BY <2>1 DEF Unfinished
  <2>3. PendingOpsExact'
    <3> SUFFICES ASSUME NEW d \in Calls
                 PROVE  pendingOps'[d] = Cardinality(Unfinished(d)')
                                           + (IF pc'[d] = "queue" THEN 1 ELSE 0)
      BY DEF PendingOpsExact
    <3>1. pendingOps[d] = Cardinality(Unfinished(d)) + (IF pc[d] = "queue" THEN 1 ELSE 0)
      BY DEF SumInv, PendingOpsExact
    <3> QED BY <2>1, <2>2, <3>1
  <2>4. Unfinished(c) = {} /\ next[c] = 1
    <3>1. next[c] = 1 BY <1>a, <2>1 DEF Progress
    <3>2. \A n \in Nat : ~(Queued(c, n) \/ InHand(c, n)) BY <3>1 DEF WorkInv, Offered
    <3> QED BY <1>c, <1>d, <3>1, <3>2 DEF UnfinishedIsPool
  <2>5. NothingLost'
    <3> SUFFICES ASSUME NEW d \in Calls, Live(d)'
                 PROVE  (/\ Cardinality(Merged(d)) = Len(ppl[d])
                         /\ Merged(d) \cap Unfinished(d) = {}
                         /\ Merged(d) \cup Unfinished(d) = 0..(next[d] - 1))'
      BY DEF NothingLost
    <3>1. CASE d = c
      <4>1. Merged(d)' = {0} BY <2>1, <3>1 DEF Merged
      <4>2. Cardinality({0}) = 1 /\ Len(ppl'[d]) = 1 BY <2>1, <3>1, FS_Singleton
      <4>3. 0..(next'[d] - 1) = {0} BY <2>1, <2>4, <3>1
      <4> QED BY <2>2, <2>4, <3>1, <4>1, <4>2, <4>3
    <3>2. CASE d # c
      <4>1. Live(d) /\ Merged(d)' = Merged(d) BY <2>1, <3>2 DEF Live, Merged
      <4> QED BY <2>1, <2>2, <3>2, <4>1 DEF SumInv, NothingLost
    <3> QED BY <3>1, <3>2
  <2> QED BY <2>3, <2>5 DEF SumInv
<1>2. ASSUME NEW c \in Calls, CountOp(c) PROVE SumInv'
  <2>1. /\ UNCHANGED <<next, ppl, work, job>> /\ pc[c] = "count" /\ pc'[c] = "queue"
        /\ pendingOps'[c] = pendingOps[c] + 1
        /\ \A d \in Calls : d # c => pc'[d] = pc[d] /\ pendingOps'[d] = pendingOps[d]
    BY <1>2, <1>a DEF CountOp, TypeOK
  <2>2. \A d \in Calls : Unfinished(d)' = Unfinished(d) /\ (Live(d)' => Live(d))
    BY <2>1 DEF Unfinished, Live
  <2> QED BY <1>a, <1>b, <2>1, <2>2, SumFrame
<1>3. ASSUME NEW c \in Calls, QueueWorklette(c) PROVE SumInv'
  <2>1. /\ UNCHANGED <<ppl, pendingOps>> /\ pc[c] = "queue" /\ pc'[c] \in {"count", "meet"}
        /\ next'[c] = next[c] + 1
        /\ \A d \in Calls : d # c => pc'[d] = pc[d] /\ next'[d] = next[d]
    BY <1>3, <1>a DEF QueueWorklette, TypeOK
  <2>2. /\ next[c] \in Nat /\ ~Queued(c, next[c]) /\ ~InHand(c, next[c])
        /\ \A d \in Calls, n \in Nat :
             /\ Queued(d, n)' <=> Queued(d, n) \/ (d = c /\ n = next[c])
             /\ InHand(d, n)' <=> InHand(d, n)
    BY <1>3, QueueStep
  <2>3. PICK N \in Nat : N = next[c] BY <2>2
  <2>4. \A d \in Calls, n \in Nat :
          n \in Unfinished(d)' <=> n \in Unfinished(d) \/ (d = c /\ n = N)
    BY <1>c, <2>2, <2>3 DEF UnfinishedIsPool
  <2>5. N \notin Unfinished(c) BY <1>c, <2>2, <2>3 DEF UnfinishedIsPool
  <2>6. Unfinished(c)' = Unfinished(c) \cup {N} BY <1>d, <2>4
  <2>7. ASSUME NEW d \in Calls, d # c PROVE Unfinished(d)' = Unfinished(d)
    BY <1>d, <2>4, <2>7
  <2>8. PendingOpsExact'
    <3> SUFFICES ASSUME NEW d \in Calls
                 PROVE  pendingOps'[d] = Cardinality(Unfinished(d)')
                                           + (IF pc'[d] = "queue" THEN 1 ELSE 0)
      BY DEF PendingOpsExact
    <3>1. pendingOps[d] = Cardinality(Unfinished(d)) + (IF pc[d] = "queue" THEN 1 ELSE 0)
      BY DEF SumInv, PendingOpsExact
    <3>2. CASE d = c
      <4>1. Cardinality(Unfinished(c) \cup {N}) = Cardinality(Unfinished(c)) + 1
        BY <2>5, FewCells, FS_AddElement
      <4>2. Cardinality(Unfinished(d)') = Cardinality(Unfinished(d)) + 1
        BY <2>6, <3>2, <4>1
      <4>3. pendingOps'[d] = pendingOps[d] /\ pc[d] = "queue" /\ pc'[d] # "queue"
        BY <2>1, <3>2
      <4>4. Cardinality(Unfinished(d)) \in Nat BY <1>b
      <4> QED BY <3>1, <4>2, <4>3, <4>4
    <3>3. CASE d # c
      BY <2>1, <2>7, <3>1, <3>3
    <3> QED BY <3>2, <3>3
  <2>9. NothingLost'
    <3> SUFFICES ASSUME NEW d \in Calls, Live(d)'
                 PROVE  (/\ Cardinality(Merged(d)) = Len(ppl[d])
                         /\ Merged(d) \cap Unfinished(d) = {}
                         /\ Merged(d) \cup Unfinished(d) = 0..(next[d] - 1))'
      BY DEF NothingLost
    <3>1. Live(d) /\ Merged(d)' = Merged(d) BY <2>1 DEF Live, Merged
    <3>2. /\ Cardinality(Merged(d)) = Len(ppl[d])
          /\ Merged(d) \cap Unfinished(d) = {}
          /\ Merged(d) \cup Unfinished(d) = 0..(next[d] - 1)
      BY <3>1 DEF SumInv, NothingLost
    <3>3. CASE d = c
      <4>1. N \notin Merged(c) BY <2>3, <3>2, <3>3
      <4>2. 0..(next'[c] - 1) = (0..(next[c] - 1)) \cup {N} BY <2>1, <2>3
      <4> QED BY <2>1, <2>6, <3>1, <3>2, <3>3, <4>1, <4>2
    <3>4. CASE d # c
      BY <2>1, <2>7, <3>1, <3>2, <3>4
    <3> QED BY <3>3, <3>4
  <2> QED BY <2>8, <2>9 DEF SumInv
<1>4. ASSUME NEW c \in Calls, Meet(c) \/ Wait(c) \/ SpuriousWake(c) \/ Timeout(c)
      PROVE SumInv'
  <2>1. /\ UNCHANGED <<next, ppl, pendingOps, work, job>>
        /\ \A d \in Calls : (pc'[d] = "queue" <=> pc[d] = "queue") /\ (Live(d)' => Live(d))
    BY <1>4, <1>a DEF Meet, Wait, SpuriousWake, Timeout, Detach, Live, TypeOK
  <2>2. \A d \in Calls : Unfinished(d)' = Unfinished(d)
    BY <2>1 DEF Unfinished
  <2> QED BY <1>a, <1>b, <2>1, <2>2, SumFrame
<1>5. ASSUME NEW w \in Workers, PopWork(w), UNCHANGED callVars PROVE SumInv'
  <2>1. \A c \in Calls, n \in Nat : Queued(c, n)' \/ InHand(c, n)' <=> Queued(c, n) \/ InHand(c, n)
    BY <1>5, PopStep
  <2>2. \A c \in Calls, n \in Nat : n \in Unfinished(c)' <=> n \in Unfinished(c)
    BY <1>c, <2>1 DEF UnfinishedIsPool
  <2>3. \A c \in Calls : Unfinished(c)' = Unfinished(c) /\ (Live(c)' => Live(c))
    BY <1>5, <1>d, <2>2 DEF Live
  <2> QED BY <1>5, <1>a, <1>b, <2>3, SumFrame
<1>6. ASSUME NEW w \in Workers, SkipOp(w) \/ MergeOp(w) PROVE SumInv'
  BY <1>6, SumEnd
<1>7. CASE UNCHANGED <<pc, next, ppl, pendingOps, work, job>>
  <2>1. \A c \in Calls : Unfinished(c)' = Unfinished(c) /\ (Live(c)' => Live(c))
    BY <1>7 DEF Unfinished, Live
  <2> QED BY <1>7, <1>a, <1>b, <2>1, SumFrame
<1> QED
  BY <1>1, <1>2, <1>3, <1>4, <1>5, <1>6, <1>7
  DEF Next, CallStep, WorkerStep, PoolStep, WorkerWait, WorkerSpuriousWake, NothingLeft,
      WorkerDies, StartOp, Die, Destroy, vars

LEMMA InitFind == Init => FindInv
<1> SUFFICES ASSUME Init PROVE FindInv
  OBVIOUS
<1>1. ControlInv BY InitControl
<1>2. \A c \in Calls, n \in Nat : ~Queued(c, n) /\ ~InHand(c, n)
  BY DEF Init, PoolInit, Queued, InHand, Holds
<1>3. WorkInv
  BY <1>2 DEF Init, PoolInit, WorkInv, Offered, Once, Holds
<1>4. \A c \in Calls : Unfinished(c) = {}
  <2>1. UnfinishedIsPool BY <1>1, <1>3, UnfinishedInPool
  <2>2. \A c \in Calls : Unfinished(c) \subseteq Nat BY DEF Unfinished
  <2> QED BY <1>2, <2>1, <2>2 DEF UnfinishedIsPool
<1>5. PendingOpsExact
  <2>1. Cardinality({}) = 0 BY FS_EmptySet
  <2>2. \A c \in Calls : pc[c] = "idle" /\ pendingOps[c] = 0 BY DEF Init
  <2> QED BY <1>4, <2>1, <2>2 DEF PendingOpsExact
<1>6. NothingLost
  BY DEF Init, NothingLost, Live
<1> QED BY <1>1, <1>3, <1>5, <1>6 DEF FindInv, SumInv

LEMMA FindInvariance == Spec => []FindInv
<1>1. FindInv /\ [Next]_vars => FindInv'
  BY ControlStep, WorkStep, SumStep DEF FindInv
<1> QED BY <1>1, InitFind, PTL DEF Spec

-----------------------------------------------------------------------------
(* pending_ops, which the lock blocks of the caller and of the pool's      *)
(* threads step up and down in any order, counts the unfinished            *)
(* operations.                                                             *)
THEOREM CountIsExact == Spec => []PendingOpsExact
<1>1. FindInv => PendingOpsExact BY DEF FindInv, SumInv
<1> QED BY <1>1, FindInvariance, PTL

(* Until a call returns no cell is lost between the pool and its vector.   *)
THEOREM EveryCellAccounted == Spec => []NothingLost
<1>1. FindInv => NothingLost BY DEF FindInv, SumInv
<1> QED BY <1>1, FindInvariance, PTL

(* A call that finds no operation pending as it returns has everything,    *)
(* whether a notification or the clock has woken it.                       *)
THEOREM TimelyIsComplete == Spec => CompleteUnlessPending
<1>1. FindInv /\ [Next]_vars =>
        [\A c \in Calls : Live(c) /\ ~Live(c)' /\ pendingOps[c] = 0
           => Merged(c) = 0..NumNearby[c]]_vars
  <2> SUFFICES ASSUME FindInv, [Next]_vars, NEW c \in Calls,
                      Live(c), ~Live(c)', pendingOps[c] = 0
               PROVE  Merged(c) = 0..NumNearby[c]
    OBVIOUS
  <2>1. TypeOK /\ Progress BY DEF FindInv, ControlInv
  <2>2. pc[c] \in {"meet", "wait"}
    <3>1. ASSUME NEW d \in Calls, Call(d) \/ CountOp(d) \/ QueueWorklette(d) \/ Wait(d)
                                    \/ SpuriousWake(d)
          PROVE FALSE
      BY <2>1, <3>1 DEF Call, CountOp, QueueWorklette, Wait, SpuriousWake, Live, TypeOK
    <3>2. ASSUME NEW d \in Calls, Meet(d) \/ Timeout(d) PROVE pc[c] \in {"meet", "wait"}
      BY <2>1, <3>2 DEF Meet, Timeout, Detach, Live, TypeOK
    <3>3. CASE pc' = pc BY <3>3 DEF Live
    <3> QED
      BY <3>1, <3>2, <3>3
      DEF Next, CallStep, WorkerStep, StartOp, SkipOp, MergeOp, FinishOp, Die, callVars, vars
  <2>3. Cardinality(Unfinished(c)) = 0 /\ IsFiniteSet(Unfinished(c))
    BY <2>2, FewCells DEF FindInv, SumInv, PendingOpsExact
  <2>4. Unfinished(c) = {} BY <2>3, FS_EmptySet
  <2>5. next[c] - 1 = NumNearby[c]
    BY <2>1, <2>2, PrototypeFindAssumption DEF Progress
  <2> QED BY <2>4, <2>5 DEF FindInv, SumInv, NothingLost
<1> QED BY <1>1, FindInvariance, PTL DEF Spec, CompleteUnlessPending
=============================================================================
