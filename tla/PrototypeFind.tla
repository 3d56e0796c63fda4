--------------------------- MODULE PrototypeFind ---------------------------
(***************************************************************************)
(* PrototypeMatchingPplProvider::Impl::FindMatchingPpl, which searches the *)
(* user's own cell itself, has the pool search the nearby ones, and waits  *)
(* for them for at most a second                                           *)
(* (libpplmeengine/prototype_matching_ppl_provider.cc).  The pool is       *)
(* module NoddyWorkerPool, after Start() has made it.                      *)
(*                                                                         *)
(* A call and its worklettes share a FindPplOrchestration.  Its mutex is   *)
(* only held for stretches that take no other lock, so each is one action. *)
(* It is owned jointly and outlives the call; the people found are in a    *)
(* vector of the call's, which the orchestration points to until the call  *)
(* is done with it.                                                        *)
(*                                                                         *)
(* What a search of a cell finds is named by the cell's place among the    *)
(* nearby cells; the user's own cell is number 0.                          *)
(***************************************************************************)
EXTENDS NoddyWorkerPool, FiniteSets

CONSTANTS
  Calls,      \* calls of FindMatchingPpl: a thread's next call is another
  NumNearby   \* NumNearby[c]: how many cells GetNearbyCells finds for c

ASSUME PrototypeFindAssumption == NumNearby \in [Calls -> Nat]

VARIABLES
  pc,          \* pc[c]: where call c is
  next,        \* next[c]: the nearby cell that comes next in the loop
  ppl,         \* ppl[c]: the call's vector, as the cells that went into it
  attached,    \* attached[c]: orchestration->ppl is not null
  pendingOps,  \* pendingOps[c]: orchestration->pending_ops
  asleep       \* the calls blocked in orchestration->condvar

callVars == <<pc, next, ppl, attached, pendingOps, asleep>>
vars == <<pc, next, ppl, attached, pendingOps, asleep, work, die, wpc, job>>

Live(c) == pc[c] \notin {"idle", "returned"}

-----------------------------------------------------------------------------
(* The caller's side.                                                      *)

(* The own cell is searched; without nearby cells that is all.  The        *)
(* provider is not destroyed under a caller, so no call begins after die_. *)
Call(c) ==
  /\ pc[c] = "idle"
  /\ ~die
  /\ ppl' = [ppl EXCEPT ![c] = <<0>>]
  /\ IF NumNearby[c] = 0
       THEN pc' = [pc EXCEPT ![c] = "returned"] /\ UNCHANGED attached
       ELSE /\ pc' = [pc EXCEPT ![c] = "count"]
            /\ attached' = [attached EXCEPT ![c] = TRUE]
  /\ UNCHANGED <<next, pendingOps, asleep, poolVars>>

(* The lock block that announces the operation ...                         *)
CountOp(c) ==
  /\ pc[c] = "count"
  /\ pendingOps' = [pendingOps EXCEPT ![c] = @ + 1]
  /\ pc' = [pc EXCEPT ![c] = "queue"]
  /\ UNCHANGED <<next, ppl, attached, asleep, poolVars>>

(* Mutant: the last of the nearby cells is left out.                       *)
QueueWorklette_NotLast(c) ==
  /\ pc[c] = "queue"
  /\ Queue(<<c, next[c]>>)
  /\ next' = [next EXCEPT ![c] = @ + 1]
  /\ pc' = [pc EXCEPT ![c] = IF next[c] + 1 >= NumNearby[c] THEN "meet" ELSE "count"]
  /\ UNCHANGED <<ppl, attached, pendingOps, asleep>>

(* ... before it is queued.                                                *)
QueueWorklette(c) ==
  /\ pc[c] = "queue"
  /\ Queue(<<c, next[c]>>)
  /\ next' = [next EXCEPT ![c] = @ + 1]
  /\ pc' = [pc EXCEPT ![c] = IF next[c] = NumNearby[c] THEN "meet" ELSE "count"]
  /\ UNCHANGED <<ppl, attached, pendingOps, asleep>>

(* The vector is taken from the worklettes and returned.                   *)
Detach(c) ==
  /\ attached' = [attached EXCEPT ![c] = FALSE]
  /\ pc' = [pc EXCEPT ![c] = "returned"]
  /\ asleep' = asleep \ {c}
  /\ UNCHANGED <<next, ppl, pendingOps, poolVars>>

(* Everything is done already, or is found to be done on waking up.        *)
Meet(c) ==
  /\ pc[c] \in {"meet", "wait"}
  /\ c \notin asleep
  /\ pendingOps[c] = 0
  /\ Detach(c)

(* wait_for begins, or goes on after a wakeup.                             *)
Wait(c) ==
  /\ pc[c] \in {"meet", "wait"}
  /\ c \notin asleep
  /\ pendingOps[c] # 0
  /\ pc' = [pc EXCEPT ![c] = "wait"]
  /\ asleep' = asleep \cup {c}
  /\ UNCHANGED <<next, ppl, attached, pendingOps, poolVars>>

SpuriousWake(c) ==
  /\ c \in asleep
  /\ asleep' = asleep \ {c}
  /\ UNCHANGED <<pc, next, ppl, attached, pendingOps, poolVars>>

(* Mutant: the second counts from the last wakeup.                         *)
Timeout_Awake(c) ==
  /\ pc[c] = "wait" /\ c \notin asleep
  /\ Detach(c)

(* The second is over.                                                     *)
Timeout(c) ==
  /\ pc[c] = "wait"
  /\ Detach(c)

-----------------------------------------------------------------------------
(* The worklette.                                                          *)

WorkerPcs == {"top", "asleep", "woken", "start", "search", "dead"}

OpCall(w) == job[w][1]

(* --pending_ops and notify_all, the last that the worklette does.         *)
FinishOp(w) ==
  /\ pendingOps' = [pendingOps EXCEPT ![OpCall(w)] = @ - 1]
  /\ asleep' = asleep \ {OpCall(w)}
  /\ WorkletteEnds(w)
  /\ UNCHANGED <<pc, next, attached>>

(* Its first lock block: the call still wants the answer ...               *)
StartOp(w) ==
  /\ wpc[w] = "start"
  /\ attached[OpCall(w)]
  /\ wpc' = [wpc EXCEPT ![w] = "search"]
  /\ UNCHANGED <<callVars, work, die, job>>

(* Mutant: the early return forgets to count itself out.                   *)
SkipOp_Counted(w) ==
  /\ wpc[w] = "start" /\ ~attached[OpCall(w)]
  /\ WorkletteEnds(w)
  /\ UNCHANGED callVars

(* ... or does not.                                                        *)
SkipOp(w) ==
  /\ wpc[w] = "start"
  /\ ~attached[OpCall(w)]
  /\ FinishOp(w)
  /\ UNCHANGED ppl

(* Mutants: it does not look again; it does not notify; what it found goes *)
(* over what others have found.                                            *)
MergeOp_Unchecked(w) ==
  /\ wpc[w] = "search"
  /\ ppl' = [ppl EXCEPT ![OpCall(w)] = Append(@, job[w][2])]
  /\ FinishOp(w)

MergeOp_Silent(w) ==
  /\ wpc[w] = "search"
  /\ ppl' = [ppl EXCEPT ![OpCall(w)] = IF attached[OpCall(w)]
                                         THEN Append(@, job[w][2]) ELSE @]
  /\ pendingOps' = [pendingOps EXCEPT ![OpCall(w)] = @ - 1]
  /\ WorkletteEnds(w)
  /\ UNCHANGED <<pc, next, attached, asleep>>

MergeOp_Over(w) ==
  /\ wpc[w] = "search"
  /\ ppl' = [ppl EXCEPT ![OpCall(w)] = IF attached[OpCall(w)]
                                         THEN <<0, job[w][2]>> ELSE @]
  /\ FinishOp(w)

(* The search over, the second lock block: what was found is handed over   *)
(* if it is not too late.                                                  *)
MergeOp(w) ==
  /\ wpc[w] = "search"
  /\ ppl' = [ppl EXCEPT ![OpCall(w)] = IF attached[OpCall(w)]
                                         THEN Append(@, job[w][2]) ELSE @]
  /\ FinishOp(w)

-----------------------------------------------------------------------------
(* The provider's owner destroys it when no call is in progress; what is   *)
(* still queued for calls that did not wait for it is dropped.             *)
Die ==
  /\ \A c \in Calls : ~Live(c)
  /\ Destroy
  /\ UNCHANGED callVars

Init ==
  /\ pc = [c \in Calls |-> "idle"]
  /\ next = [c \in Calls |-> 1]
  /\ ppl = [c \in Calls |-> <<>>]
  /\ attached = [c \in Calls |-> FALSE]
  /\ pendingOps = [c \in Calls |-> 0]
  /\ asleep = {}
  /\ PoolInit

CallStep(c) == CountOp(c) \/ QueueWorklette(c) \/ Meet(c) \/ Wait(c)

WorkerStep(w) ==
  \/ PoolStep(w) /\ UNCHANGED callVars
  \/ StartOp(w) \/ SkipOp(w) \/ MergeOp(w)

Next ==
  \/ \E c \in Calls : Call(c) \/ CallStep(c) \/ SpuriousWake(c) \/ Timeout(c)
  \/ \E w \in Workers : WorkerStep(w) \/ (WorkerSpuriousWake(w) /\ UNCHANGED callVars)
  \/ Die
  \/ Joined /\ UNCHANGED vars

(* Callers run when they can.                                              *)
Spec == Init /\ [][Next]_vars /\ \A c \in Calls : WF_vars(CallStep(c))

(* What else may be taken to run: the clock, and the pool's threads.       *)
ClockRuns == \A c \in Calls : WF_vars(Timeout(c))
PoolRuns == \A w \in Workers : WF_vars(WorkerStep(w))

-----------------------------------------------------------------------------
(* What must hold of it.                                                   *)

(* The nearby cells of c whose worklettes are queued or in a thread.       *)
Unfinished(c) ==
  {n \in 1..NumNearby[c] :
     \/ \E i \in 1..Len(work) : work[i] = <<c, n>>
     \/ \E w \in Workers : job[w] = <<c, n>>}

(* pending_ops counts the worklettes that have not finished, those of      *)
(* calls that have given up on them too, and the one about to be queued.   *)
(* It is never below zero, although a worklette may be done before the     *)
(* next one is counted.                                                    *)
PendingOpsExact ==
  \A c \in Calls : pendingOps[c] =
    Cardinality(Unfinished(c)) + (IF pc[c] = "queue" THEN 1 ELSE 0)

(* "Make sure that any unfinished work doesn't smash us up": whatever the  *)
(* worklettes of a call do after it has returned, nothing is put into the  *)
(* vector any more.                                                        *)
AnswerFrozen ==
  [][\A c \in Calls : pc[c] = "returned" => ppl'[c] = ppl[c]]_vars

(* The cells that went into c's answer.                                    *)
Merged(c) == {ppl[c][i] : i \in DOMAIN ppl[c]}

(* Until a call returns, each cell that it has queued is either in the     *)
(* answer, once, or still in the pool: none is lost between them.          *)
NothingLost ==
  \A c \in Calls : Live(c) =>
    /\ Cardinality(Merged(c)) = Len(ppl[c])
    /\ Merged(c) \cap Unfinished(c) = {}
    /\ Merged(c) \cup Unfinished(c) = 0..(next[c] - 1)

(* A call that returns with no operation pending has the people of all the *)
(* nearby cells, even if the clock made it return.                         *)
CompleteUnlessPending ==
  [][\A c \in Calls : Live(c) /\ ~Live(c)' /\ pendingOps[c] = 0
       => Merged(c) = 0..NumNearby[c]]_vars

(* "Spec says to return within 1 second": as long as the clock runs every  *)
(* call returns, even if the pool's threads are starved for ever, or if    *)
(* there are none.                                                         *)
ReturnsInTime == ClockRuns => \A c \in Calls : Live(c) ~> pc[c] = "returned"

(* And it does not need the clock if there are threads and they run: no    *)
(* notification goes missing.                                              *)
ReturnsWhenDone ==
  Workers # {} /\ PoolRuns => \A c \in Calls : Live(c) ~> pc[c] = "returned"
=============================================================================
