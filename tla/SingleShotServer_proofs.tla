----------------------- MODULE SingleShotServer_proofs -----------------------
(***************************************************************************)
(* The safety of SingleShotServer, proved for any number of connections.   *)
(* Neither MapHoldsTheServing nor OnlyReleasesAreLeft is inductive: the    *)
(* map holds the threads that serve only because the io thread keeps the   *)
(* lock from before a thread starts until it is in the map, and Shutdown   *)
(* leaves none of them behind only because it takes the lock, too, before  *)
(* it takes the map, and because no thread starts that finds it taken.     *)
(***************************************************************************)
EXTENDS SingleShotServer, TLAPS

TypeOK ==
  /\ client \in [Connections ->
                   {"away", "connected", "sent", "bad", "left", "answered", "reset"}]
  /\ io \in {"none", "accepting", "accepted", "emplace", "ended"}
  /\ current \in SUBSET Connections
  /\ lock \in BOOLEAN /\ owning \in BOOLEAN
  /\ entries \in SUBSET Connections /\ taken \in SUBSET Connections
  /\ svc \in [Connections -> {"none", "accepted", "receive", "handle", "send",
                              "remove", "release", "ended"}]
  /\ main \in {"new", "up", "join", "joinio", "down", "destroyed"}
  /\ crash \in {"none", "thread", "accept", "peer", "handler", "entry", "table",
                "socket"}

(* The io thread has one connection at a time in its hands, whose thread   *)
(* it has not started, or has started with the lock held.                  *)
HandsInv ==
  /\ \A c, d \in current : c = d
  /\ current # {} => io \in {"accepted", "emplace"}
  /\ io = "accepted" => \A c \in current : svc[c] = "accepted"
  /\ \A c \in Connections : svc[c] = "accepted" => c \in current
  /\ lock <=> io = "emplace"
  /\ lock => owning

(* The threads that serve are in the map, in Shutdown's hands, or the one  *)
(* that is being put into the map.                                         *)
TableInv == Serving = entries \cup taken \cup {c \in current : lock}

(* What Start and Shutdown have done so far.                               *)
OwnerInv ==
  /\ owning <=> main = "up"
  /\ ~owning => entries = {}
  /\ main # "join" => taken = {}
  /\ main = "new" => io = "none"
  /\ main \in {"down", "destroyed"} => io \in {"none", "ended"}

ServerInv == TypeOK /\ HandsInv /\ TableInv /\ OwnerInv

-----------------------------------------------------------------------------
LEMMA InitServerInv == Init => ServerInv
BY DEF Init, ServerInv, TypeOK, HandsInv, TableInv, OwnerInv, Serving

(* Every step keeps the invariant.                                         *)
LEMMA ServerStep == ServerInv /\ [Next]_vars => ServerInv'
<1> SUFFICES ASSUME ServerInv, [Next]_vars PROVE ServerInv'
  OBVIOUS
<1> USE DEF ServerInv, ioVars, tableVars
<1>1. ASSUME NEW c \in Connections, ClientStep(c) PROVE ServerInv'
  <2>1. TypeOK'
    BY <1>1 DEF ClientStep, Connect, SendRequest, Leave, Reset, TypeOK
  <2>2. HandsInv' /\ TableInv' /\ OwnerInv'
    BY <1>1 DEF ClientStep, HandsInv, TableInv, OwnerInv, Serving
  <2> QED BY <2>1, <2>2
<1>2. ASSUME NEW c \in Connections, Accept(c) PROVE ServerInv'
  <2>1. TypeOK' BY <1>2 DEF Accept, TypeOK
  <2>2. HandsInv' BY <1>2 DEF Accept, HandsInv, TypeOK
  <2>3. Serving' = Serving BY <1>2 DEF Accept, Serving, TypeOK
  <2>4. TableInv' BY <1>2, <2>3 DEF Accept, TableInv, HandsInv
  <2>5. OwnerInv' BY <1>2 DEF Accept, OwnerInv
  <2> QED BY <2>1, <2>2, <2>4, <2>5
<1>3. ASSUME NEW c \in Connections, StartService(c) PROVE ServerInv'
  <2>1. TypeOK' BY <1>3 DEF StartService, TypeOK
  <2>2. HandsInv' BY <1>3 DEF StartService, HandsInv
  <2>3. Serving' = Serving \cup {c} BY <1>3 DEF StartService, Serving, TypeOK
  <2>4. current = {c} BY <1>3 DEF StartService, HandsInv, TypeOK
  <2>5. TableInv' BY <1>3, <2>3, <2>4 DEF StartService, TableInv
  <2>6. OwnerInv' BY <1>3 DEF StartService, OwnerInv
  <2> QED BY <2>1, <2>2, <2>5, <2>6
<1>4. ASSUME NEW c \in Connections, Emplace(c) PROVE ServerInv'
  <2>1. TypeOK' BY <1>4 DEF Emplace, TypeOK
  <2>3. current = {c} BY <1>4 DEF Emplace, HandsInv, TypeOK
  <2>2. HandsInv'
    <3>1. c \in Serving BY <1>4 DEF Emplace, TableInv, HandsInv
    <3>2. svc[c] # "accepted" BY <3>1 DEF Serving
    <3> QED BY <1>4, <2>3, <3>2 DEF Emplace, HandsInv
  <2>4. TableInv' BY <1>4, <2>3 DEF Emplace, TableInv, Serving, HandsInv
  <2>5. OwnerInv' BY <1>4 DEF Emplace, OwnerInv, HandsInv
  <2> QED BY <2>1, <2>2, <2>4, <2>5
<1>5. ASSUME NEW c \in Connections,
             ThreadFails(c) \/ Refuse(c) \/ PeerThrows(c) \/ HandlerAborts(c)
               \/ RemoveFails(c) \/ ReleaseFails(c)
      PROVE ServerInv'
  <2>1. /\ UNCHANGED <<client, ioVars, tableVars, svc, main>>
        /\ crash' \in {"thread", "accept", "peer", "handler", "entry", "table",
                       "socket"}
    BY <1>5 DEF ThreadFails, Refuse, PeerThrows, HandlerAborts, RemoveFails, ReleaseFails
  <2> QED BY <2>1 DEF TypeOK, HandsInv, TableInv, OwnerInv, Serving
<1>6. ASSUME IoEnds PROVE ServerInv'
  BY <1>6 DEF IoEnds, TypeOK, HandsInv, TableInv, OwnerInv, Serving
<1>7. ASSUME NEW c \in Connections, Receive(c) \/ Respond(c) \/ Ignore(c) \/ Send(c)
      PROVE ServerInv'
  <2>1. /\ svc[c] \in {"receive", "handle", "send"}
        /\ \E place \in {"handle", "send", "remove"} :
             svc' = [svc EXCEPT ![c] = place]
        /\ UNCHANGED <<ioVars, tableVars, main, crash>>
    BY <1>7 DEF Receive, Respond, Ignore, Send, Goto
  <2>2. client' \in [Connections ->
                   {"away", "connected", "sent", "bad", "left", "answered", "reset"}]
    BY <1>7 DEF Receive, Respond, Ignore, Send, Goto, TypeOK
  <2>3. TypeOK'
    <3>1. svc' \in [Connections -> {"none", "accepted", "receive", "handle", "send",
                                    "remove", "release", "ended"}]
      BY <2>1 DEF TypeOK
    <3> QED BY <2>1, <2>2, <3>1 DEF TypeOK
  <2>4. Serving' = Serving BY <2>1 DEF Serving, TypeOK
  <2>5. TableInv' /\ OwnerInv' BY <2>1, <2>4 DEF TableInv, OwnerInv
  <2>6. HandsInv' BY <2>1 DEF HandsInv, TypeOK
  <2> QED BY <2>3, <2>5, <2>6
<1>8. ASSUME NEW c \in Connections, Remove(c) PROVE ServerInv'
  <2>1. TypeOK' BY <1>8 DEF Remove, TypeOK
  <2>2. HandsInv' BY <1>8 DEF Remove, HandsInv, TypeOK
  <2>3. Serving' = Serving \ {c} BY <1>8 DEF Remove, Serving, TypeOK
  <2>4. taken = {} BY <1>8 DEF Remove, OwnerInv
  <2>5. TableInv' BY <1>8, <2>3, <2>4 DEF Remove, TableInv
  <2>6. OwnerInv' BY <1>8 DEF Remove, OwnerInv
  <2> QED BY <2>1, <2>2, <2>5, <2>6
<1>9. ASSUME NEW c \in Connections, Release(c) PROVE ServerInv'
  <2>1. TypeOK' BY <1>9 DEF Release, Goto, TypeOK
  <2>2. HandsInv' BY <1>9 DEF Release, Goto, HandsInv, TypeOK
  <2>3. Serving' = Serving BY <1>9 DEF Release, Goto, Serving, TypeOK
  <2>4. TableInv' /\ OwnerInv' BY <1>9, <2>3 DEF Release, Goto, TableInv, OwnerInv
  <2> QED BY <2>1, <2>2, <2>4
<1>10. ASSUME Start \/ StartFails PROVE ServerInv'
  <2>1. TypeOK' BY <1>10 DEF Start, StartFails, TypeOK
  <2>2. HandsInv' BY <1>10 DEF Start, StartFails, HandsInv, OwnerInv
  <2>3. TableInv' BY <1>10 DEF Start, StartFails, TableInv, Serving
  <2>4. OwnerInv' BY <1>10 DEF Start, StartFails, OwnerInv, HandsInv
  <2> QED BY <2>1, <2>2, <2>3, <2>4
<1>11. ASSUME TakeThreads PROVE ServerInv'
  BY <1>11 DEF TakeThreads, TypeOK, HandsInv, TableInv, OwnerInv, Serving
<1>12. ASSUME JoinThreads PROVE ServerInv'
  (* Those that were taken while they served are not ended.                *)
  <2>1. taken = {} BY <1>12 DEF JoinThreads, TableInv, Serving, TypeOK
  <2> QED BY <1>12, <2>1 DEF JoinThreads, TypeOK, HandsInv, TableInv, OwnerInv, Serving
<1>13. ASSUME JoinIo \/ Destroy PROVE ServerInv'
  BY <1>13 DEF JoinIo, Destroy, TypeOK, HandsInv, TableInv, OwnerInv, Serving
<1>14. ASSUME UNCHANGED vars PROVE ServerInv'
  BY <1>14 DEF vars, TypeOK, HandsInv, TableInv, OwnerInv, Serving
<1> QED
  BY <1>1, <1>2, <1>3, <1>4, <1>5, <1>6, <1>7, <1>8, <1>9, <1>10, <1>11, <1>12,
     <1>13, <1>14
  DEF Next, OwnerStep, IoStep, ServiceStep, ThreadStep, HandlerStep, ShutdownStep, Over

LEMMA ServerInvariance == Spec => []ServerInv
BY InitServerInv, ServerStep, PTL DEF Spec

-----------------------------------------------------------------------------
(* HandleAcceptResult's thread finds itself in the map when it is done,    *)
(* even if it is done before the map has it: while nobody holds the lock   *)
(* the map, or Shutdown, has exactly the threads that serve.               *)
THEOREM MapIsExact == Spec => []MapHoldsTheServing
<1>1. ServerInv => MapHoldsTheServing
  BY DEF ServerInv, TableInv, MapHoldsTheServing
<1> QED BY <1>1, ServerInvariance, PTL

(* When Shutdown has returned, and after the server has been destroyed, no *)
(* thread is in the request handler, will touch the map or its lock, or is *)
(* about to start: those that are left have their connection to release,   *)
(* and nothing else to do.                                                 *)
THEOREM ShutdownLeavesOnlyReleases == Spec => []OnlyReleasesAreLeft
<1>1. ServerInv => OnlyReleasesAreLeft
  <2> SUFFICES ASSUME ServerInv, main \in {"down", "destroyed"}
               PROVE  /\ io \in {"none", "ended"}
                      /\ \A c \in Connections : svc[c] \in {"none", "release", "ended"}
    BY DEF OnlyReleasesAreLeft
  <2>1. io \in {"none", "ended"} /\ ~lock /\ entries = {} /\ taken = {}
    BY DEF ServerInv, OwnerInv, HandsInv
  <2>2. Serving = {}
    BY <2>1 DEF ServerInv, TableInv
  <2>3. \A c \in Connections : svc[c] # "accepted"
    BY <2>1 DEF ServerInv, HandsInv
  <2> QED BY <2>1, <2>2, <2>3 DEF ServerInv, TypeOK, Serving
<1> QED BY <1>1, ServerInvariance, PTL
=============================================================================
