---------------------------- MODULE Pplmed_proofs ----------------------------
(***************************************************************************)
(* The safety of the daemon, proved for files of any length, any requests  *)
(* and any matches.                                                        *)
(*                                                                         *)
(* Every step of the daemon is a step of its server or leaves the server   *)
(* alone (ServerRefined), so that what SingleShotServer_proofs shows of    *)
(* the server holds here, and nothing about its threads has to be shown    *)
(* again.  DaemonInv adds what loading has done by the time the server     *)
(* starts, and that a find is inside a handler; CrashInv, what can have    *)
(* brought the process down.                                               *)
(***************************************************************************)
EXTENDS Pplmed, SequenceTheorems, TLAPS

Proved == INSTANCE SingleShotServer_proofs WITH Connections <- Requests, main <- server

-----------------------------------------------------------------------------
(* The daemon's steps as its server's.                                     *)

LEMMA SameClientStep == \A r \in Requests : Net!ClientStep(r) => Proved!ClientStep(r)
BY DEF Net!ClientStep, Net!Connect, Net!SendRequest, Net!Leave, Net!Reset, Net!Listening,
       Net!ioVars, Net!tableVars,
       Proved!ClientStep, Proved!Connect, Proved!SendRequest, Proved!Leave, Proved!Reset,
       Proved!Listening, Proved!ioVars, Proved!tableVars

LEMMA SameIoStep == Net!IoStep => Proved!IoStep
BY DEF Net!IoStep, Net!IoEnds, Net!Accept, Net!StartService, Net!ThreadFails, Net!Emplace,
       Net!Refuse, Net!ioVars, Net!tableVars,
       Proved!IoStep, Proved!IoEnds, Proved!Accept, Proved!StartService,
       Proved!ThreadFails, Proved!Emplace, Proved!Refuse, Proved!ioVars, Proved!tableVars

LEMMA SameThreadStep == \A r \in Requests : Net!ThreadStep(r) => Proved!ThreadStep(r)
BY DEF Net!ThreadStep, Net!PeerThrows, Net!Receive, Net!Send, Net!Remove, Net!RemoveFails,
       Net!Release, Net!ReleaseFails, Net!Goto, Net!ioVars, Net!tableVars,
       Proved!ThreadStep, Proved!PeerThrows, Proved!Receive, Proved!Send, Proved!Remove,
       Proved!RemoveFails, Proved!Release, Proved!ReleaseFails, Proved!Goto,
       Proved!ioVars, Proved!tableVars

LEMMA SameHandlerStep ==
  \A r \in Requests :
    Net!Respond(r) \/ Net!Ignore(r) \/ Net!HandlerAborts(r) => Proved!HandlerStep(r)
BY DEF Net!Respond, Net!Ignore, Net!HandlerAborts, Net!Goto, Net!ioVars, Net!tableVars,
       Proved!HandlerStep, Proved!Respond, Proved!Ignore, Proved!HandlerAborts,
       Proved!Goto, Proved!ioVars, Proved!tableVars

LEMMA SameOwnerStep ==
  Net!Start \/ Net!StartFails \/ Net!TakeThreads \/ Net!ShutdownStep \/ Net!Destroy
    => Proved!OwnerStep
BY DEF Net!Start, Net!StartFails, Net!TakeThreads, Net!ShutdownStep, Net!JoinThreads,
       Net!JoinIo, Net!Destroy, Net!ioVars, Net!tableVars,
       Proved!OwnerStep, Proved!Start, Proved!StartFails, Proved!TakeThreads,
       Proved!ShutdownStep, Proved!JoinThreads, Proved!JoinIo, Proved!Destroy,
       Proved!ioVars, Proved!tableVars

(* Every step of the daemon is one of its server's, or none.               *)
LEMMA ServerRefined == [Next]_vars => [Net!Next]_(Net!vars)
<1> SUFFICES ASSUME [Next]_vars PROVE Net!Next \/ UNCHANGED netVars
  BY DEF netVars, Net!vars
<1>1. CASE Runs /\ MainStep
  <2>1. Start \/ Shutdown \/ DestroyServer => Net!OwnerStep
    BY DEF Start, Shutdown, DestroyServer, Net!OwnerStep
  <2>2. ReadPerson \/ ReadNowhere \/ GeneratePerson \/ PersonAdded \/ LoadFails
          \/ BeginStart \/ DestroyProvider => UNCHANGED netVars
    BY DEF ReadPerson, ReadNowhere, GeneratePerson, PersonAdded, LoadFails, BeginStart,
           DestroyProvider
  <2> QED BY <1>1, <2>1, <2>2 DEF MainStep, Net!Next, Runs
<1>2. CASE Stop
  BY <1>2 DEF Stop
<1>3. CASE Runs /\ IoStep
  BY <1>3 DEF IoStep, Net!Next, Runs
<1>4. ASSUME NEW r \in Requests, Runs, ClientStep(r) PROVE Net!Next
  BY <1>4 DEF ClientStep, Net!Next, Runs
<1>5. ASSUME NEW r \in Requests, Runs, ServiceStep(r)
      PROVE  Net!Next \/ UNCHANGED netVars
  <2>1. BeginFind(r) \/ EndFind(r) => UNCHANGED netVars
    BY DEF BeginFind, EndFind
  <2>2. Ignore(r) \/ FindAborts(r) \/ FindThrows(r) \/ Respond(r)
          => Net!HandlerStep(r)
    BY DEF Ignore, FindAborts, FindThrows, Respond, Net!HandlerStep
  <2>3. ServiceStep(r) => Net!ThreadStep(r) \/ HandlerStep(r)
    BY DEF ServiceStep
  <2> QED BY <1>5, <2>1, <2>2, <2>3 DEF HandlerStep, Net!Next, Net!ServiceStep, Runs
<1>6. CASE Over \/ UNCHANGED vars
  BY <1>6 DEF Over, vars
<1> QED BY <1>1, <1>2, <1>3, <1>4, <1>5, <1>6 DEF Next

(* What was proved of the server is about the same server.                 *)
LEMMA SameNext == [Net!Next]_(Net!vars) => [Proved!Next]_(Proved!vars)
<1> SUFFICES ASSUME [Net!Next]_(Net!vars) PROVE Proved!Next \/ UNCHANGED Proved!vars
  OBVIOUS
<1>1. CASE Net!Runs /\ (Net!OwnerStep \/ Net!IoStep)
  BY <1>1, SameOwnerStep, SameIoStep DEF Net!OwnerStep, Proved!Next, Net!Runs, Proved!Runs
<1>2. ASSUME NEW r \in Requests, Net!Runs, Net!ClientStep(r) \/ Net!ServiceStep(r)
      PROVE  Proved!Next
  BY <1>2, SameClientStep, SameThreadStep, SameHandlerStep
  DEF Net!ServiceStep, Net!HandlerStep, Proved!ServiceStep, Proved!Next, Net!Runs, Proved!Runs
<1>3. CASE Net!Over \/ UNCHANGED Net!vars
  BY <1>3 DEF Net!Over, Net!vars, Proved!vars
<1> QED BY <1>1, <1>2, <1>3 DEF Net!Next

LEMMA ServerHolds == Spec => []Proved!ServerInv
<1>1. Init => Proved!ServerInv
  BY Proved!InitServerInv DEF Init, Net!Init, Proved!Init
<1>2. Proved!ServerInv /\ [Next]_vars => Proved!ServerInv'
  BY ServerRefined, SameNext, Proved!ServerStep
<1> QED BY <1>1, <1>2, PTL DEF Spec

-----------------------------------------------------------------------------
(* Loading.                                                                *)

Mains == {"load", "start", "up", "exit", "members", "destroyed"}

LoadType == /\ file \in Files /\ pos \in Nat
            /\ adding \in BOOLEAN /\ aborted \in BOOLEAN
            /\ main \in Mains

(* How many people there are to load.                                      *)
Count == IF file = <<"none">> THEN TestDbSize ELSE Len(file) - 1

(* A file ends with what is not a line, and has lines before.              *)
LEMMA FileEnds ==
  ASSUME NEW f \in Files
  PROVE  /\ Len(f) \in Nat \ {0}
         /\ \A i \in 1..(Len(f) - 1) : f[i] \in Lines
         /\ f[Len(f)] \in {"end", "unreadable", "missing", "none"}
<1>1. CASE f \in {<<"missing">>, <<"none">>}
  BY <1>1
<1>2. ASSUME NEW n \in 0..MaxLines, NEW lines \in [1..n -> Lines],
             NEW end \in {"end", "unreadable"}, f = lines \o <<end>>
      PROVE  /\ Len(f) \in Nat \ {0}
             /\ \A i \in 1..(Len(f) - 1) : f[i] \in Lines
             /\ f[Len(f)] \in {"end", "unreadable", "missing", "none"}
  <2>1. n \in Nat BY PplmedAssumption
  <2>2. lines \in Seq(Lines) /\ Len(lines) = n BY <2>1
  <2>3. /\ Len(f) = n + 1 /\ f[n + 1] = end
        /\ \A i \in 1..n : f[i] = lines[i]
    BY <1>2, <2>1, <2>2
  <2> QED BY <2>1, <2>3
<1>3. \/ f \in {<<"missing">>, <<"none">>}
      \/ \E lines \in UNION {[1..n -> Lines] : n \in 0..MaxLines},
            end \in {"end", "unreadable"} : f = lines \o <<end>>
  BY DEF Files
<1>4. CASE \E lines \in UNION {[1..n -> Lines] : n \in 0..MaxLines},
              end \in {"end", "unreadable"} : f = lines \o <<end>>
  <2>1. PICK lines \in UNION {[1..n -> Lines] : n \in 0..MaxLines},
             end \in {"end", "unreadable"} : f = lines \o <<end>>
    BY <1>4
  <2>2. PICK n \in 0..MaxLines : lines \in [1..n -> Lines]
    OBVIOUS
  <2> QED BY <1>2, <2>1, <2>2
<1> QED BY <1>1, <1>3, <1>4

(* The people stored are those of the lines read, but for the one on its   *)
(* way; there is no more to read than there is.                            *)
LoadInv ==
  /\ repository = 1..(IF adding THEN pos - 1 ELSE pos)
  /\ adding => main = "load" /\ pos > 0
  /\ pos <= Count

(* Nothing has come from outside yet.                                      *)
Untouched == calling = {} /\ \A r \in Requests : client[r] = "away" /\ svc[r] = "none"

(* What main has done to the server, and that nothing comes from outside   *)
(* before all is loaded.                                                   *)
ServeInv ==
  /\ main \in {"load", "start"} => server = "new"
  /\ main = "start" => pos = Count
  /\ main \in {"members", "destroyed"} => server = "destroyed"
  /\ server = "new" => Untouched
  /\ server \notin {"new", "destroyed"} => pos = Count /\ main # "load"
  /\ Untouched \/ (pos = Count /\ main # "load")

(* A find is inside a handler.                                             *)
FindInv ==
  /\ calling \subseteq Requests
  /\ found \in [Requests -> BOOLEAN]
  /\ \A r \in calling : svc[r] = "handle" /\ ~found[r]

DaemonInv == LoadType /\ LoadInv /\ ServeInv /\ FindInv

LEMMA InitDaemon == Init => DaemonInv
<1> SUFFICES ASSUME Init PROVE DaemonInv
  OBVIOUS
<1>1. /\ file \in Files /\ pos = 0 /\ adding = FALSE /\ aborted = FALSE /\ main = "load"
      /\ found = [r \in Requests |-> FALSE] /\ repository = {} /\ calling = {}
      /\ server = "new" /\ \A r \in Requests : client[r] = "away" /\ svc[r] = "none"
  BY DEF Init, Net!Init, Provider!Init
<1>2. Count \in Nat
  BY <1>1, FileEnds, PplmedAssumption DEF Count
<1>3. LoadType BY <1>1 DEF LoadType, Mains
<1>4. LoadInv BY <1>1, <1>2 DEF LoadInv
<1>5. ServeInv BY <1>1 DEF ServeInv, Untouched
<1>6. FindInv BY <1>1 DEF FindInv
<1> QED BY <1>3, <1>4, <1>5, <1>6 DEF DaemonInv

(* Go's first half leaves all but what it loads alone.                     *)
LEMMA LoadStep ==
  ASSUME DaemonInv, ReadPerson \/ ReadNowhere \/ GeneratePerson \/ PersonAdded
  PROVE  DaemonInv'
<1>1. LoadType /\ LoadInv /\ ServeInv /\ FindInv BY DEF DaemonInv
<1>2. /\ main = "load" /\ UNCHANGED <<file, main, calling, found, server, client, svc>>
  BY <1>1 DEF ReadPerson, ReadNowhere, GeneratePerson, PersonAdded, Reading, LoadInv,
     handlerVars, netVars, providerVars, Provider!AddPerson
<1>3. Count' = Count /\ Count \in Nat
  BY <1>1, <1>2, FileEnds, PplmedAssumption DEF Count, LoadType
<1>4. ServeInv' /\ FindInv'
  BY <1>1, <1>2, <1>3 DEF ServeInv, FindInv, Untouched
<1>5. ASSUME ReadPerson \/ GeneratePerson PROVE LoadType' /\ LoadInv'
  <2>1. ~adding /\ adding' = TRUE /\ pos' = pos + 1 /\ UNCHANGED <<repository, aborted>>
    BY <1>5 DEF ReadPerson, GeneratePerson, Reading, providerVars
  <2>2. pos < Count
    <3>1. CASE ReadPerson
      <4>1. file # <<"none">> /\ file[pos + 1] = "person"
        BY <3>1 DEF ReadPerson, Reading, NextLine
      <4>2. pos \in Nat /\ pos <= Len(file) - 1 /\ Len(file) \in Nat
        BY <1>1, <4>1, FileEnds DEF LoadType, LoadInv, Count
      <4>3. pos + 1 # Len(file)
        BY <1>1, <4>1, FileEnds DEF LoadType
      <4> QED BY <4>1, <4>2, <4>3 DEF Count
    <3>2. CASE GeneratePerson
      BY <3>2 DEF GeneratePerson, Count
    <3> QED BY <1>5, <3>1, <3>2
  <2>3. LoadType' BY <1>1, <1>2, <2>1 DEF LoadType
  <2>4. LoadInv' BY <1>1, <1>2, <1>3, <2>1, <2>2 DEF LoadInv, LoadType
  <2> QED BY <2>3, <2>4
<1>6. ASSUME ReadNowhere PROVE LoadType' /\ LoadInv'
  <2>1. aborted' = TRUE /\ UNCHANGED <<pos, adding, repository>>
    BY <1>6 DEF ReadNowhere, providerVars
  <2> QED BY <1>1, <1>2, <1>3, <2>1 DEF LoadType, LoadInv
<1>7. ASSUME PersonAdded PROVE LoadType' /\ LoadInv'
  <2>1. /\ adding /\ adding' = FALSE /\ UNCHANGED <<pos, aborted>>
        /\ repository' = repository \cup {pos}
    BY <1>7 DEF PersonAdded, Provider!AddPerson
  <2>2. pos \in Nat /\ pos > 0 /\ repository = 1..(pos - 1)
    BY <1>1, <2>1 DEF LoadType, LoadInv
  <2>3. repository' = 1..pos BY <2>1, <2>2
  <2>4. LoadType' BY <1>1, <1>2, <2>1 DEF LoadType
  <2>5. LoadInv' BY <1>1, <1>2, <1>3, <2>1, <2>3 DEF LoadInv
  <2> QED BY <2>4, <2>5
<1> QED BY <1>4, <1>5, <1>6, <1>7 DEF DaemonInv

(* Main goes on.                                                           *)
LEMMA GoStep ==
  ASSUME DaemonInv, LoadFails \/ BeginStart \/ Start \/ Stop \/ Shutdown
                      \/ DestroyServer \/ DestroyProvider
  PROVE  DaemonInv'
<1>1. LoadType /\ LoadInv /\ ServeInv /\ FindInv BY DEF DaemonInv
<1>2. UNCHANGED <<file, pos, adding, aborted, calling, found, repository, client, svc>>
  BY DEF LoadFails, BeginStart, Start, Stop, Shutdown, DestroyServer, DestroyProvider, Goto,
     loadVars, handlerVars, providerVars, netVars, Net!Start, Net!StartFails, Net!TakeThreads,
     Net!ShutdownStep, Net!JoinThreads, Net!JoinIo, Net!Destroy
<1>3. Count' = Count /\ Untouched' = Untouched
  BY <1>2 DEF Count, Untouched
<1>4. FindInv' BY <1>1, <1>2 DEF FindInv
<1>5. ~adding
  BY <1>1 DEF LoadFails, BeginStart, Start, Stop, Shutdown, DestroyServer, DestroyProvider,
     NotLoaded, Reading, Loaded, LoadInv
<1>6. main' \in Mains /\ main' # "load"
  BY <1>1 DEF LoadFails, BeginStart, Start, Stop, Shutdown, DestroyServer, DestroyProvider,
     Goto, Mains, LoadType
<1>7. LoadType' /\ LoadInv'
  BY <1>1, <1>2, <1>3, <1>5, <1>6 DEF LoadType, LoadInv
<1>8. ASSUME LoadFails PROVE ServeInv'
  <2>1. main = "load" /\ main' = "exit" /\ server' = server
    BY <1>8 DEF LoadFails, NotLoaded, Reading, Goto, netVars
  <2> QED BY <1>1, <1>2, <1>3, <2>1 DEF ServeInv
<1>9. ASSUME BeginStart PROVE ServeInv'
  <2>1. main = "load" /\ main' = "start" /\ server' = server
    BY <1>9 DEF BeginStart, Loaded, Goto, netVars
  <2>2. pos = Count
    <3>1. CASE file = <<"none">>
      BY <1>9, <3>1 DEF BeginStart, Loaded, Count
    <3>2. CASE file # <<"none">>
      <4>1. file[pos + 1] = "end" BY <1>9, <3>2 DEF BeginStart, Loaded, NextLine
      <4>2. pos \in Nat /\ pos <= Len(file) - 1 /\ Len(file) \in Nat
        BY <1>1, <3>2, FileEnds DEF LoadType, LoadInv, Count
      <4>3. \A i \in 1..(Len(file) - 1) : file[i] # "end"
        BY <1>1, FileEnds DEF LoadType, Lines
      <4> QED BY <3>2, <4>1, <4>2, <4>3 DEF Count
    <3> QED BY <3>1, <3>2
  <2> QED BY <1>1, <1>2, <1>3, <2>1, <2>2 DEF ServeInv
<1>10. ASSUME Start PROVE ServeInv'
  <2>1. main = "start" /\ main' \in {"up", "exit"} /\ server' \in {"up", "down"}
    BY <1>10 DEF Start, Goto, Net!Start, Net!StartFails
  <2> QED BY <1>1, <1>2, <1>3, <2>1 DEF ServeInv
<1>11. ASSUME Stop PROVE ServeInv'
  <2>1. main = "up" /\ main' = "exit" /\ server' = server
    BY <1>11 DEF Stop, Goto, netVars
  <2> QED BY <1>1, <1>2, <1>3, <2>1 DEF ServeInv
<1>12. ASSUME Shutdown PROVE ServeInv'
  <2>1. /\ main = "exit" /\ main' = "exit"
        /\ server \in {"up", "join", "joinio"} /\ server' \in {"join", "joinio", "down"}
    BY <1>12 DEF Shutdown, Net!TakeThreads, Net!ShutdownStep, Net!JoinThreads, Net!JoinIo
  <2> QED BY <1>1, <1>2, <1>3, <2>1 DEF ServeInv
<1>13. ASSUME DestroyServer PROVE ServeInv'
  <2>1. main = "exit" /\ main' = "members" /\ server' = "destroyed"
    BY <1>13 DEF DestroyServer, Goto, Net!Destroy
  <2> QED BY <1>1, <1>2, <1>3, <2>1 DEF ServeInv
<1>14. ASSUME DestroyProvider PROVE ServeInv'
  <2>1. main = "members" /\ main' = "destroyed" /\ server' = server
    BY <1>14 DEF DestroyProvider, Goto, netVars
  <2> QED BY <1>1, <1>2, <1>3, <2>1 DEF ServeInv
<1> QED BY <1>4, <1>7, <1>8, <1>9, <1>10, <1>11, <1>12, <1>13, <1>14 DEF DaemonInv

(* What goes on outside main and the handlers.                             *)
OutsideStep ==
  \/ IoStep
  \/ \E r \in Requests :
       \/ ClientStep(r)
       \/ /\ Net!ThreadStep(r)
          /\ UNCHANGED <<loadVars, main, handlerVars, providerVars>>

(* A thread goes on only if there is one, and not while it is in a         *)
(* handler.                                                                *)
LEMMA ThreadsGoOn ==
  ASSUME Proved!ServerInv, OutsideStep
  PROVE  \A r \in Requests :
           svc'[r] = svc[r] \/ (svc[r] # "handle" /\ (svc[r] # "none" \/ client[r] # "away"))
<1>1. svc \in [Requests -> {"none", "accepted", "receive", "handle", "send",
                            "remove", "release", "ended"}]
  BY DEF Proved!ServerInv, Proved!TypeOK
<1>2. ASSUME NEW c \in Requests, ClientStep(c) PROVE svc' = svc
  BY <1>2 DEF ClientStep, Net!ClientStep
<1>3. ASSUME NEW c \in Requests, Net!ThreadStep(c)
      PROVE  /\ svc[c] \in {"receive", "send", "remove", "release"}
             /\ \A r \in Requests : r # c => svc'[r] = svc[r]
  BY <1>1, <1>3 DEF Net!ThreadStep, Net!PeerThrows, Net!Receive, Net!Send, Net!Remove,
     Net!RemoveFails, Net!Release, Net!ReleaseFails, Net!Goto
<1>4. ASSUME IoStep
      PROVE  \/ svc' = svc
             \/ \E c \in Requests :
                  /\ svc[c] = "accepted" \/ (svc[c] = "none" /\ client[c] # "away")
                  /\ \A r \in Requests : r # c => svc'[r] = svc[r]
  <2>1. ASSUME NEW c \in Requests, Net!Accept(c)
        PROVE  /\ svc[c] = "none" /\ client[c] # "away"
               /\ \A r \in Requests : r # c => svc'[r] = svc[r]
    BY <1>1, <2>1 DEF Net!Accept
  <2>2. ASSUME NEW c \in Requests, Net!StartService(c)
        PROVE  /\ svc[c] = "accepted"
               /\ \A r \in Requests : r # c => svc'[r] = svc[r]
    BY <1>1, <2>2 DEF Net!StartService, Proved!ServerInv, Proved!HandsInv
  <2>3. ASSUME NEW c \in Requests, Net!ThreadFails(c) \/ Net!Emplace(c) \/ Net!Refuse(c)
        PROVE  svc' = svc
    BY <2>3 DEF Net!ThreadFails, Net!Emplace, Net!Refuse
  <2>4. CASE Net!IoEnds
    BY <2>4 DEF Net!IoEnds
  <2> QED BY <1>4, <2>1, <2>2, <2>3, <2>4 DEF IoStep, Net!IoStep
<1> QED BY <1>2, <1>3, <1>4 DEF OutsideStep

LEMMA NetStep ==
  ASSUME Proved!ServerInv, DaemonInv, OutsideStep
  PROVE  DaemonInv'
<1>1. LoadType /\ LoadInv /\ ServeInv /\ FindInv BY DEF DaemonInv
<1>2. UNCHANGED <<file, pos, adding, aborted, main, calling, found, repository, server>>
  BY DEF OutsideStep, IoStep, ClientStep, loadVars, handlerVars, providerVars, Net!IoStep,
     Net!IoEnds, Net!Accept, Net!StartService, Net!ThreadFails, Net!Emplace, Net!Refuse,
     Net!ClientStep, Net!ThreadStep, Net!PeerThrows, Net!Receive, Net!Send, Net!Remove,
     Net!RemoveFails, Net!Release, Net!ReleaseFails, Net!Goto
<1>3. Count' = Count BY <1>2 DEF Count
<1>4. LoadType' /\ LoadInv' BY <1>1, <1>2, <1>3 DEF LoadType, LoadInv
(* Only a server that has been started listens.                            *)
<1>5. ASSUME Untouched, server \in {"new", "destroyed"} PROVE Untouched'
  <2>1. ASSUME NEW r \in Requests, ClientStep(r) PROVE FALSE
    BY <1>5, <2>1 DEF ClientStep, Untouched, Net!ClientStep, Net!Connect, Net!SendRequest,
       Net!Leave, Net!Reset, Net!Listening
  <2>2. client' = client
    <3>1. ASSUME NEW r \in Requests, Net!ThreadStep(r) PROVE client' = client
      BY <1>5, <3>1 DEF Untouched, Net!ThreadStep, Net!PeerThrows, Net!Receive, Net!Send,
         Net!Remove, Net!RemoveFails, Net!Release, Net!ReleaseFails
    <3>2. IoStep => client' = client
      BY DEF IoStep, Net!IoStep, Net!IoEnds, Net!Accept, Net!StartService, Net!ThreadFails,
         Net!Emplace, Net!Refuse
    <3> QED BY <2>1, <3>1, <3>2 DEF OutsideStep
  <2> QED BY <1>2, <1>5, <2>2, ThreadsGoOn DEF Untouched
<1>6. ServeInv'
  BY <1>1, <1>2, <1>3, <1>5 DEF ServeInv
<1>7. FindInv'
  BY <1>1, <1>2, ThreadsGoOn DEF FindInv
<1> QED BY <1>4, <1>6, <1>7 DEF DaemonInv

(* A handler goes on: a find begins and ends inside it.                    *)
LEMMA HandleStep ==
  ASSUME Proved!ServerInv, DaemonInv, NEW r \in Requests, HandlerStep(r)
  PROVE  DaemonInv'
<1>1. LoadType /\ LoadInv /\ ServeInv /\ FindInv BY DEF DaemonInv
<1>2. svc \in [Requests -> {"none", "accepted", "receive", "handle", "send",
                            "remove", "release", "ended"}]
  BY DEF Proved!ServerInv, Proved!TypeOK
<1>3. UNCHANGED <<file, pos, adding, aborted, main, repository, server, client>>
  BY DEF HandlerStep, Ignore, FindAborts, FindThrows, BeginFind, EndFind, Respond, loadVars, netVars,
     providerVars, Provider!Call, Provider!Return, Net!Ignore, Net!Respond,
     Net!HandlerAborts, Net!Goto
<1>4. svc[r] = "handle"
  BY <1>1 DEF HandlerStep, Ignore, FindAborts, FindThrows, BeginFind, EndFind, Respond, InHandler,
     Provider!Return, FindInv
<1>5. /\ calling' \subseteq Requests
      /\ found' \in [Requests -> BOOLEAN]
      /\ \A q \in calling' : svc'[q] = "handle" /\ ~found'[q]
  <2>1. CASE Ignore(r) \/ Respond(r)
    <3>1. /\ UNCHANGED <<calling, found>> /\ r \notin calling
          /\ \E place \in {"send", "remove"} : svc' = [svc EXCEPT ![r] = place]
      BY <1>1, <2>1 DEF Ignore, Respond, InHandler, Net!Ignore, Net!Respond, Net!Goto,
         FindInv, handlerVars, providerVars
    <3> QED BY <1>1, <1>2, <3>1 DEF FindInv
  <2>4. CASE FindAborts(r) \/ FindThrows(r)
    <3>1. UNCHANGED <<calling, found, svc>>
      BY <2>4 DEF FindAborts, FindThrows, Net!HandlerAborts, handlerVars, providerVars
    <3> QED BY <1>1, <3>1 DEF FindInv
  <2>2. CASE BeginFind(r)
    <3>1. calling' = calling \cup {r} /\ ~found[r] /\ UNCHANGED <<found, svc>>
      BY <2>2 DEF BeginFind, InHandler, Provider!Call, handlerVars, netVars
    <3> QED BY <1>1, <1>4, <3>1 DEF FindInv
  <2>3. CASE EndFind(r)
    <3>1. calling' = calling \ {r} /\ found' = [found EXCEPT ![r] = TRUE] /\ svc' = svc
      BY <2>3 DEF EndFind, Provider!Return, netVars
    <3> QED BY <1>1, <3>1 DEF FindInv
  <2> QED BY <2>1, <2>2, <2>3, <2>4 DEF HandlerStep
<1>6. Count' = Count BY <1>3 DEF Count
<1>7. LoadType' /\ LoadInv' BY <1>1, <1>3, <1>6 DEF LoadType, LoadInv
<1>8. ServeInv'
  <2>1. ~Untouched BY <1>4 DEF Untouched
  <2> QED BY <1>1, <1>3, <1>6, <2>1 DEF ServeInv
<1>9. FindInv' BY <1>5 DEF FindInv
<1> QED BY <1>7, <1>8, <1>9 DEF DaemonInv

LEMMA DaemonStep == Proved!ServerInv /\ DaemonInv /\ [Next]_vars => DaemonInv'
<1> SUFFICES ASSUME Proved!ServerInv, DaemonInv, [Next]_vars PROVE DaemonInv'
  OBVIOUS
<1>1. CASE MainStep \/ Stop
  BY <1>1, LoadStep, GoStep DEF MainStep
<1>2. CASE IoStep \/ \E r \in Requests : ClientStep(r)
  BY <1>2, NetStep DEF OutsideStep
<1>3. ASSUME NEW r \in Requests, ServiceStep(r) PROVE DaemonInv'
  BY <1>3, NetStep, HandleStep DEF ServiceStep, OutsideStep
<1>4. CASE UNCHANGED vars
  BY <1>4 DEF vars, loadVars, handlerVars, netVars, providerVars, DaemonInv, LoadType, LoadInv,
     ServeInv, FindInv, Untouched, Count
<1> QED BY <1>1, <1>2, <1>3, <1>4 DEF Next, Over

LEMMA DaemonInvariance == Spec => [](Proved!ServerInv /\ DaemonInv)
BY ServerHolds, InitDaemon, DaemonStep, PTL DEF Spec

-----------------------------------------------------------------------------
(* A request is only ever served from everything the daemon had to load,   *)
(* whatever is wrong with its file: Go starts the server last.             *)
THEOREM WholeDataServed == Spec => []ServesWholeData
<1>1. DaemonInv => ServesWholeData
  <2> SUFFICES ASSUME DaemonInv, calling # {} \/ (\E r \in Requests : client[r] # "away")
               PROVE  repository = Whole
    BY DEF ServesWholeData
  <2>1. pos = Count /\ main # "load"
    BY DEF DaemonInv, ServeInv, Untouched
  <2> QED BY <2>1 DEF DaemonInv, LoadInv, Whole, Count
<1> QED BY <1>1, DaemonInvariance, PTL

(* ~Impl's Shutdown lets the members go only when no request is in its     *)
(* handler, nor any find in the provider.                                  *)
THEOREM ProviderGoesLast == Spec => []ProviderOutlivesFinds
<1>1. Proved!ServerInv /\ DaemonInv => ProviderOutlivesFinds
  <2> SUFFICES ASSUME Proved!ServerInv, DaemonInv, main = "destroyed", NEW r \in Requests
               PROVE  r \notin calling /\ svc[r] # "handle"
    BY DEF ProviderOutlivesFinds
  <2>1. server = "destroyed" BY DEF DaemonInv, ServeInv
  <2>2. svc[r] # "handle"
    BY <2>1 DEF Proved!ServerInv, Proved!HandsInv, Proved!TableInv, Proved!OwnerInv,
       Proved!Serving
  <2> QED BY <2>2 DEF DaemonInv, FindInv
<1> QED BY <1>1, DaemonInvariance, PTL

(* pplmed uses SingleShotServer as that module says: it starts as the      *)
(* server does and takes no step that is not one of the server's, whatever *)
(* its main thread and its handlers do.  (The fairness of Net!Spec is left *)
(* to the run, which checks ImplementsServer as a whole.)                  *)
THEOREM UsesTheServer == Spec => Net!Init /\ [][Net!Next]_(Net!vars)
<1>1. Init => Net!Init
  BY DEF Init
<1> QED BY <1>1, ServerRefined, PTL DEF Spec

-----------------------------------------------------------------------------
(* Whatever has brought the process down leaves its cause behind.  A       *)
(* thread that finds no entry in the map is not among the causes; one that *)
(* finds no map, a connection that comes too late, and one that goes too   *)
(* late, are, but not before main has begun to shut the server down.       *)
CrashInv ==
  /\ aborted => main = "load"
  /\ main = "up" => server = "up"
  /\ crash \in {"none", "thread", "accept", "peer", "handler", "table", "socket"}
  /\ crash = "peer" => \E r \in Requests :
                          \/ client[r] = "reset" /\ svc[r] \in {"receive", "send"}
                          \/ client[r] = "left" /\ svc[r] = "send"
  /\ crash = "handler" => \E r \in Requests :
                             svc[r] = "handle" /\ body[r] \in {"nowhere", "beyond"}
  /\ crash \in {"accept", "table", "socket"} => server # "up"

LEMMA InitCrash == Init => CrashInv
BY DEF Init, Net!Init, CrashInv

(* What does not touch crash comes from a process that runs.               *)
LEMMA StillRuns ==
  ASSUME CrashInv, Runs, UNCHANGED <<crash, aborted>>, main' = "up" => server' = "up"
  PROVE  CrashInv'
BY DEF CrashInv, Runs, Net!Runs

(* The service and io threads' steps that bring the process down.          *)
LEMMA ComesDown ==
  ASSUME Proved!ServerInv, CrashInv, Runs, NEW r \in Requests,
         UNCHANGED <<aborted, main, body>>,
         \/ Net!ThreadFails(r) \/ Net!Refuse(r) \/ Net!PeerThrows(r) \/ Net!RemoveFails(r)
         \/ Net!ReleaseFails(r)
         \/ Net!HandlerAborts(r) /\ body[r] \in {"nowhere", "beyond"}
  PROVE  CrashInv'
<1>1. UNCHANGED <<server, client, svc>> /\ ~aborted /\ (main = "up" => server = "up")
  BY DEF Net!ThreadFails, Net!Refuse, Net!PeerThrows, Net!RemoveFails, Net!ReleaseFails,
     Net!HandlerAborts, CrashInv, Runs
<1>2. owning <=> server = "up"
  BY DEF Proved!ServerInv, Proved!OwnerInv
<1>3. CASE Net!ThreadFails(r)
  BY <1>1, <1>3 DEF Net!ThreadFails, CrashInv
<1>4. CASE Net!Refuse(r)
  BY <1>1, <1>2, <1>4 DEF Net!Refuse, CrashInv
<1>5. CASE Net!PeerThrows(r)
  BY <1>1, <1>5 DEF Net!PeerThrows, CrashInv
<1>6. CASE Net!RemoveFails(r)
  (* While the table is there, every thread that serves is in it.          *)
  <2>1. owning => r \in entries
    <3>1. ~lock /\ r \in Proved!Serving
      BY <1>6 DEF Net!RemoveFails, Proved!Serving
    <3> QED BY <1>2, <3>1 DEF Proved!ServerInv, Proved!TableInv, Proved!OwnerInv
  <2>2. crash' = "table" /\ ~owning
    BY <1>6, <2>1 DEF Net!RemoveFails
  <2> QED BY <1>1, <1>2, <2>2 DEF CrashInv
<1>7. CASE Net!HandlerAborts(r) /\ body[r] \in {"nowhere", "beyond"}
  BY <1>1, <1>7 DEF Net!HandlerAborts, CrashInv
<1>8. CASE Net!ReleaseFails(r)
  BY <1>1, <1>8 DEF Net!ReleaseFails, CrashInv
<1> QED BY <1>3, <1>4, <1>5, <1>6, <1>7, <1>8

LEMMA CrashStep == Proved!ServerInv /\ CrashInv /\ [Next]_vars => CrashInv'
<1> SUFFICES ASSUME Proved!ServerInv, CrashInv, [Next]_vars PROVE CrashInv'
  OBVIOUS
<1>1. CASE Runs /\ ReadNowhere
  BY <1>1 DEF ReadNowhere, Reading, CrashInv, Runs, Net!Runs, netVars
<1>2. CASE Runs /\ (ReadPerson \/ GeneratePerson \/ PersonAdded)
  <2>1. UNCHANGED <<crash, aborted, main, server>>
    BY <1>2 DEF ReadPerson, GeneratePerson, PersonAdded, netVars
  <2> QED BY <1>2, <2>1, StillRuns DEF CrashInv
<1>3. CASE Runs /\ (LoadFails \/ BeginStart \/ Start \/ Stop \/ Shutdown
                      \/ DestroyServer \/ DestroyProvider)
  <2>1. UNCHANGED <<crash, aborted>>
    BY <1>3 DEF LoadFails, BeginStart, Start, Stop, Shutdown, DestroyServer, DestroyProvider,
       Goto, loadVars, netVars, Net!Start, Net!StartFails, Net!TakeThreads, Net!ShutdownStep,
       Net!JoinThreads, Net!JoinIo, Net!Destroy
  <2>2. main' = "up" => server' = "up"
    BY <1>3 DEF LoadFails, BeginStart, Start, Stop, Shutdown, DestroyServer, DestroyProvider,
       Goto, Net!Start
  <2> QED BY <1>3, <2>1, <2>2, StillRuns
<1>4. ASSUME NEW r \in Requests, Runs, ClientStep(r) PROVE CrashInv'
  <2>1. UNCHANGED <<crash, aborted, main, server>>
    BY <1>4 DEF ClientStep, Net!ClientStep, loadVars
  <2> QED BY <1>4, <2>1, StillRuns DEF CrashInv
<1>5. CASE Runs /\ IoStep
  <2>1. UNCHANGED <<aborted, main, body>>
    BY <1>5 DEF IoStep, loadVars, handlerVars
  <2>2. CASE \E r \in Requests : Net!ThreadFails(r) \/ Net!Refuse(r)
    BY <1>5, <2>1, <2>2, ComesDown
  <2>3. CASE ~\E r \in Requests : Net!ThreadFails(r) \/ Net!Refuse(r)
    <3>1. UNCHANGED <<crash, server>>
      BY <1>5, <2>3 DEF IoStep, Net!IoStep, Net!IoEnds, Net!Accept, Net!StartService,
         Net!Emplace
    <3> QED BY <1>5, <2>1, <3>1, StillRuns DEF CrashInv
  <2> QED BY <2>2, <2>3
<1>6. ASSUME NEW r \in Requests, Runs, ServiceStep(r) PROVE CrashInv'
  <2>1. UNCHANGED <<aborted, main, body>>
    BY <1>6 DEF ServiceStep, HandlerStep, Ignore, FindAborts, FindThrows, BeginFind, EndFind, Respond,
       loadVars, handlerVars
  <2>2. CASE FindAborts(r) \/ FindThrows(r)
    BY <1>6, <2>1, <2>2, ComesDown DEF FindAborts, FindThrows
  <2>3. CASE Ignore(r) \/ BeginFind(r) \/ EndFind(r) \/ Respond(r)
    <3>1. UNCHANGED <<crash, server>>
      BY <2>3 DEF Ignore, BeginFind, EndFind, Respond, netVars, Net!Ignore, Net!Respond,
         Net!Goto
    <3> QED BY <1>6, <2>1, <3>1, StillRuns DEF CrashInv
  <2>4. CASE Net!PeerThrows(r) \/ Net!RemoveFails(r) \/ Net!ReleaseFails(r)
    BY <1>6, <2>1, <2>4, ComesDown
  <2>5. CASE Net!Receive(r) \/ Net!Send(r) \/ Net!Remove(r) \/ Net!Release(r)
    <3>1. UNCHANGED <<crash, server>>
      BY <2>5 DEF Net!Receive, Net!Send, Net!Remove, Net!Release, Net!Goto
    <3> QED BY <1>6, <2>1, <3>1, StillRuns DEF CrashInv
  <2> QED BY <1>6, <2>2, <2>3, <2>4, <2>5 DEF ServiceStep, HandlerStep, Net!ThreadStep
<1>7. CASE UNCHANGED vars
  BY <1>7 DEF vars, loadVars, handlerVars, netVars, CrashInv
<1> QED BY <1>1, <1>2, <1>3, <1>4, <1>5, <1>6, <1>7 DEF Next, MainStep, Over

(* Whatever its requests and its clients do, and however they interleave,  *)
(* a daemon that is serving comes down for want of a thread, for a client  *)
(* that resets or closes its connection without waiting to be answered, or *)
(* for a location or an age in the handler that nobody has looked at; the  *)
(* map of threads, the late connection and the late release are no danger  *)
(* to it before it stops.                                                  *)
THEOREM OnlyKnownCauses == Spec => []ComesDownForACause
<1>1. CrashInv => ComesDownForACause
  BY DEF CrashInv, ComesDownForACause, Runs, Net!Runs
<1>2. Proved!ServerInv /\ CrashInv /\ [Next]_vars => CrashInv'
  BY CrashStep
<1> QED BY <1>1, <1>2, InitCrash, ServerHolds, PTL DEF Spec
=============================================================================
