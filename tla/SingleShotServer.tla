-------------------------- MODULE SingleShotServer --------------------------
(***************************************************************************)
(* net::SingleShotServer (libpplmenet/single_shot_server.cc): an io thread *)
(* accepts connections and starts one thread for each, which receives a    *)
(* request, answers it and ends; Shutdown and the destructor run on the    *)
(* owner's thread.  What Connection::ReceiveMessage and SendMessage do     *)
(* (libpplmenet/detail/connection.cc) is folded into the service steps.    *)
(*                                                                         *)
(* A connection is used once, so it names its thread and its client too.   *)
(* A failed accept changes nothing (it is logged and the next one is       *)
(* started) and has no action.                                             *)
(***************************************************************************)
EXTENDS Naturals

CONSTANT Connections

VARIABLES
  client,    \* client[c]: what c's client has done
  io,        \* where the io thread is
  current,   \* the connection the io thread is handling, as a set
  lock,      \* connection_threads_lock_ is held by the io thread
  owning,    \* connection_threads_ is not null
  entries,   \* the connections whose thread is in connection_threads_
  taken,     \* the threads Shutdown has moved out of it
  svc,       \* svc[c]: where c's thread is
  main,      \* where the owner's thread is
  crash      \* what has brought the process down, or "none"

ioVars == <<io, current>>
tableVars == <<lock, owning, entries, taken>>
vars == <<client, io, current, lock, owning, entries, taken, svc, main, crash>>

-----------------------------------------------------------------------------
(* The clients.  A client connects and sends a request, or something that  *)
(* fails to be one: it closes early or announces too long a body.  It may  *)
(* close without waiting for the answer, and reset the connection at any   *)
(* time until the server has closed it.                                    *)

Listening == main \in {"up", "join", "joinio", "down"}

Connect(c) == /\ Listening
              /\ client[c] = "away"
              /\ client' = [client EXCEPT ![c] = "connected"]

SendRequest(c) == /\ client[c] = "connected"
                  /\ \E m \in {"sent", "bad"} : client' = [client EXCEPT ![c] = m]

Leave(c) == /\ client[c] = "sent"
            /\ client' = [client EXCEPT ![c] = "left"]

Reset(c) == /\ client[c] \notin {"away", "reset"} /\ svc[c] # "ended"
            /\ client' = [client EXCEPT ![c] = "reset"]

ClientStep(c) ==
  /\ Connect(c) \/ SendRequest(c) \/ Leave(c) \/ Reset(c)
  /\ UNCHANGED <<ioVars, tableVars, svc, main, crash>>

-----------------------------------------------------------------------------
(* The io thread.                                                          *)

(* The accept completes: the socket moves into a Connection.               *)
Accept(c) ==
  /\ io = "accepting"
  /\ client[c] # "away"
  /\ svc[c] = "none"
  /\ current' = {c}
  /\ svc' = [svc EXCEPT ![c] = "accepted"]
  /\ io' = "accepted"
  /\ UNCHANGED <<client, tableVars, main, crash>>

(* Mutant: the thread is started outside the lock.                         *)
StartService_Unlocked(c) ==
  /\ io = "accepted" /\ c \in current
  /\ ~lock /\ owning
  /\ svc' = [svc EXCEPT ![c] = "receive"]
  /\ io' = "emplace"
  /\ UNCHANGED <<client, current, tableVars, main, crash>>

(* HandleAcceptResult locks and starts the thread, which runs at once ...  *)
StartService(c) ==
  /\ io = "accepted"
  /\ c \in current
  /\ ~lock
  /\ owning
  /\ lock' = TRUE
  /\ svc' = [svc EXCEPT ![c] = "receive"]
  /\ io' = "emplace"
  /\ UNCHANGED <<client, current, owning, entries, taken, main, crash>>

(* ... or cannot start it: std::thread's constructor throws out of the io  *)
(* thread.                                                                 *)
ThreadFails(c) ==
  /\ io = "accepted"
  /\ c \in current
  /\ ~lock
  /\ owning
  /\ crash' = "thread"
  /\ UNCHANGED <<client, ioVars, tableVars, svc, main>>

(* Mutants: no next accept; the lock is kept.                              *)
Emplace_Last(c) ==
  /\ io = "emplace" /\ c \in current
  /\ entries' = entries \cup {c}
  /\ lock' = FALSE /\ current' = {} /\ io' = "none"
  /\ UNCHANGED <<client, owning, taken, svc, main, crash>>

Emplace_KeepsLock(c) ==
  /\ io = "emplace" /\ c \in current
  /\ entries' = entries \cup {c}
  /\ current' = {} /\ io' = "accepting"
  /\ UNCHANGED <<client, lock, owning, taken, svc, main, crash>>

(* The thread is put into the map, the lock released, and the next         *)
(* connection accepted.                                                    *)
Emplace(c) ==
  /\ io = "emplace"
  /\ c \in current
  /\ entries' = entries \cup {c}
  /\ lock' = FALSE
  /\ current' = {}
  /\ io' = "accepting"
  /\ UNCHANGED <<client, owning, taken, svc, main, crash>>

(* Shutdown has begun.  The message about it asks the moved-from socket    *)
(* for its remote endpoint, which throws out of the io thread.             *)
Refuse(c) ==
  /\ io = "accepted"
  /\ c \in current
  /\ ~lock
  /\ ~owning
  /\ crash' = "accept"
  /\ UNCHANGED <<client, ioVars, tableVars, svc, main>>

(* Mutant: io_service_.stop is not called before the join.                 *)
IoEnds_Late ==
  /\ io = "accepting" /\ main = "down"
  /\ io' = "ended"
  /\ UNCHANGED <<client, current, tableVars, svc, main, crash>>

(* io_service_.run returns once it has been stopped.                       *)
IoEnds ==
  /\ io = "accepting"
  /\ main = "joinio"
  /\ io' = "ended"
  /\ UNCHANGED <<client, current, tableVars, svc, main, crash>>

-----------------------------------------------------------------------------
(* A connection's thread.  Wherever it asks for the peer's endpoint - for  *)
(* the log, at first and when something has failed, and for the handler -  *)
(* a reset connection has none and the call throws out of the thread.  A   *)
(* client that has merely closed resets it, too, by its answer to what is  *)
(* sent to it: SendMessage writes the header, and then the body fails.     *)

Goto(c, place) == /\ svc' = [svc EXCEPT ![c] = place]
                  /\ UNCHANGED <<client, ioVars, tableVars, main, crash>>

PeerThrows(c) ==
  /\ \/ svc[c] \in {"receive", "send"} /\ client[c] = "reset"
     \/ svc[c] = "send" /\ client[c] = "left"
  /\ crash' = "peer"
  /\ UNCHANGED <<client, ioVars, tableVars, svc, main>>

(* ReceiveMessage blocks until there is a message and request_handler_ is  *)
(* called with it, or fails.                                               *)
Receive(c) == /\ svc[c] = "receive"
              /\ \/ client[c] \in {"sent", "left"} /\ Goto(c, "handle")
                 \/ client[c] = "bad" /\ Goto(c, "remove")

(* request_handler_ comes back with a response, or without one ...         *)
Respond(c) == svc[c] = "handle" /\ Goto(c, "send")

Ignore(c) == svc[c] = "handle" /\ Goto(c, "remove")

(* ... or brings the process down.                                         *)
HandlerAborts(c) ==
  /\ svc[c] = "handle"
  /\ crash' = "handler"
  /\ UNCHANGED <<client, ioVars, tableVars, svc, main>>

(* SendMessage.  It succeeds if the client has closed, too, as long as no  *)
(* reset has come back.                                                    *)
Send(c) == /\ svc[c] = "send"
           /\ client[c] \in {"sent", "left"}
           /\ client' = [client EXCEPT ![c] = IF @ = "sent" THEN "answered" ELSE @]
           /\ svc' = [svc EXCEPT ![c] = "remove"]
           /\ UNCHANGED <<ioVars, tableVars, main, crash>>

(* The thread moves itself out of the map.                                 *)
Remove(c) ==
  /\ svc[c] = "remove"
  /\ ~lock
  /\ owning
  /\ c \in entries
  /\ entries' = entries \ {c}
  /\ svc' = [svc EXCEPT ![c] = "release"]
  /\ UNCHANGED <<client, ioVars, lock, owning, taken, main, crash>>

(* It dereferences connection_threads_ when that is null, or the end of    *)
(* the map when the map has no entry for it.                               *)
RemoveFails(c) ==
  /\ svc[c] = "remove"
  /\ ~lock
  /\ crash' = (IF owning THEN "entry" ELSE "table")
  /\ ~(owning /\ c \in entries)
  /\ UNCHANGED <<client, ioVars, tableVars, svc, main>>

(* It is detached, and ends.  Only then is the function object destroyed   *)
(* that it was started with, and the last reference to the Connection with *)
(* it: connection.reset() has let go of a copy.  The socket closes, which  *)
(* is a matter of the io_service's ...                                     *)
Release(c) == svc[c] = "release" /\ Goto(c, "ended")

(* ... and undefined once ~Impl has destroyed that: all may seem well, or  *)
(* the process come down.                                                  *)
ReleaseFails(c) ==
  /\ svc[c] = "release"
  /\ main = "destroyed"
  /\ crash' = "socket"
  /\ UNCHANGED <<client, ioVars, tableVars, svc, main>>

HandlerStep(c) == Respond(c) \/ Ignore(c) \/ HandlerAborts(c)

ThreadStep(c) ==
  \/ PeerThrows(c) \/ Receive(c) \/ Send(c)
  \/ Remove(c) \/ RemoveFails(c) \/ Release(c) \/ ReleaseFails(c)

ServiceStep(c) == ThreadStep(c) \/ HandlerStep(c)

-----------------------------------------------------------------------------
(* The owner.                                                              *)

(* Start opens the acceptor, starts the io thread, makes the map and then  *)
(* the first accept ...                                                    *)
Start ==
  /\ main = "new"
  /\ main' = "up"
  /\ io' = "accepting"
  /\ owning' = TRUE
  /\ UNCHANGED <<client, current, lock, entries, taken, svc, crash>>

(* ... or fails, which leaves Shutdown nothing to do.                      *)
StartFails ==
  /\ main = "new"
  /\ main' = "down"
  /\ UNCHANGED <<client, ioVars, tableVars, svc, crash>>

(* Shutdown takes the threads.                                             *)
TakeThreads ==
  /\ main = "up"
  /\ ~lock
  /\ taken' = entries
  /\ entries' = {}
  /\ owning' = FALSE
  /\ main' = "join"
  /\ UNCHANGED <<client, ioVars, lock, svc, crash>>

(* Mutant: the threads are not joined.                                     *)
JoinThreads_Not ==
  /\ main = "join"
  /\ main' = "joinio" /\ taken' = {}
  /\ UNCHANGED <<client, ioVars, lock, owning, entries, svc, crash>>

(* It joins them all, and stops the io_service.                            *)
JoinThreads ==
  /\ main = "join"
  /\ \A c \in taken : svc[c] = "ended"
  /\ main' = "joinio"
  /\ taken' = {}
  /\ UNCHANGED <<client, ioVars, lock, owning, entries, svc, crash>>

JoinIo ==
  /\ main = "joinio"
  /\ io = "ended"
  /\ main' = "down"
  /\ UNCHANGED <<client, ioVars, tableVars, svc, crash>>

(* ~Impl: its own Shutdown finds the pointer null, and the io_service, the *)
(* mutex and the request handler go.                                       *)
Destroy ==
  /\ main \in {"new", "down"}
  /\ main' = "destroyed"
  /\ UNCHANGED <<client, ioVars, tableVars, svc, crash>>

Init ==
  /\ client = [c \in Connections |-> "away"]
  /\ io = "none"
  /\ current = {}
  /\ lock = FALSE
  /\ owning = FALSE
  /\ entries = {}
  /\ taken = {}
  /\ svc = [c \in Connections |-> "none"]
  /\ main = "new"
  /\ crash = "none"

IoStep ==
  IoEnds \/ \E c \in Connections :
              Accept(c) \/ StartService(c) \/ ThreadFails(c) \/ Emplace(c) \/ Refuse(c)

ShutdownStep == JoinThreads \/ JoinIo

OwnerStep == Start \/ StartFails \/ TakeThreads \/ ShutdownStep \/ Destroy

(* The process runs until something brings it down.                        *)
Runs == crash = "none"

Over == /\ crash # "none" \/ main = "destroyed"
        /\ UNCHANGED vars

Next ==
  \/ Runs /\ (OwnerStep \/ IoStep)
  \/ Runs /\ \E c \in Connections : ClientStep(c) \/ ServiceStep(c)
  \/ Over

(* The operating system runs every thread that can run, and a Shutdown     *)
(* that has been called.  Clients and the owner's calls have no fairness.  *)
Fairness ==
  /\ WF_vars(Runs /\ IoStep)
  /\ WF_vars(Runs /\ ShutdownStep)
  /\ \A c \in Connections : WF_vars(Runs /\ ServiceStep(c))

Spec == Init /\ [][Next]_vars /\ Fairness

-----------------------------------------------------------------------------
(* Threads that are to take themselves out of the map.                     *)
Serving == {c \in Connections :
              svc[c] \in {"receive", "handle", "send", "remove"}}

(* A thread starts before it is in the map and may be done before, too;    *)
(* even so, whenever the lock is free the map holds exactly the threads    *)
(* that have not taken themselves out, or Shutdown has them all.           *)
MapHoldsTheServing == lock \/ Serving = entries \cup taken

(* When Shutdown has returned, the io thread has ended, no thread is about *)
(* to start, and those that are left are on their last step, which is to   *)
(* release their connection: none is inside the request handler or will    *)
(* touch the map or its lock.  What the handler uses may be destroyed      *)
(* after the server; what a connection uses may not (OwnsNothing).         *)
OnlyReleasesAreLeft ==
  Runs /\ main \in {"down", "destroyed"} =>
    /\ io \in {"none", "ended"}
    /\ \A c \in Connections : svc[c] \in {"none", "release", "ended"}

(* A connection waiting in the backlog is accepted, however many come      *)
(* before it: every handler ends with the next accept.                     *)
EveryConnectionAccepted ==
  \A c \in Connections :
    (client[c] # "away" /\ main = "up")
      ~> (svc[c] # "none" \/ main # "up" \/ ~Runs)

(* The thread of a client that has sent its request ends and releases its  *)
(* connection, unless the whole process has come down.                     *)
EveryRequestEnds ==
  \A c \in Connections :
    (client[c] = "sent" /\ c \in Serving) ~> (svc[c] = "ended" \/ ~Runs)

(* Only a client that has connected and says nothing can hold a shutdown   *)
(* up: not a request that is being handled, nor a connection being         *)
(* accepted just then.                                                     *)
OnlySilenceHoldsItUp ==
  main = "join" ~>
    \/ main = "down"
    \/ ~Runs
    \/ \E c \in taken : svc[c] = "receive" /\ client[c] = "connected"

-----------------------------------------------------------------------------
(* What the comments promise and the code does not keep.                   *)

(* Shutdown's "Take ownership of the connection threads so that we can     *)
(* wait for them all to finish": the threads it waits for can finish.      *)
TakenThreadsFinish == crash # "table"

(* Connection.h's "Returns non-owning on error": an error of the peer's is *)
(* an error of that one connection.                                        *)
PeerErrorsReturn == crash # "peer"

(* Service's "this thread no-longer owns anything because once we remove   *)
(* it from the collection of connection threads, we need to be certain     *)
(* that it can't touch anything that may very well be about to be          *)
(* destroyed".                                                             *)
OwnsNothing == crash # "socket"
=============================================================================
