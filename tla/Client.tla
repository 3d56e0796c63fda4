------------------------------- MODULE Client -------------------------------
(***************************************************************************)
(* A Client and the connection thread that serves it: Connect, SendRequest *)
(* and Disconnect (libpplmenet/client.cc), and the framing of a Message in *)
(* a header and a body by Connection::SendMessage and ReceiveMessage       *)
(* (libpplmenet/detail/connection.cc, message.h).                          *)
(*                                                                         *)
(* A TCP connection takes words one way and the other, a limited number of *)
(* them at a time, and may be reset.  A word is <<message, n>>: number 0   *)
(* is the header, which says how long the body is, and 1, 2, ... the body. *)
(* A message is <<"request" or "response", serial number, body length>>.   *)
(***************************************************************************)
EXTENDS Integers, Sequences

CONSTANTS MaxBody,       \* kMaxBodyLength, in words
          Capacity,      \* the words a socket's buffers hold
          MaxRequests    \* bound: the requests the caller makes

ASSUME ClientAssumption ==
  /\ MaxBody \in Nat
  /\ Capacity \in Nat \ {0}
  /\ MaxRequests \in Nat

Sides == {"client", "server"}
Peer(s) == IF s = "client" THEN "server" ELSE "client"

(* Bodies can be made longer than the limit, which only receivers know.    *)
Lengths == 0..(MaxBody + 1)
Messages == {"request", "response"} \X (1..MaxRequests) \X Lengths

VARIABLES
  act,        \* act[s]: what s does with its socket
  out,        \* out[s]: the words that s has still to write
  got,        \* got[s]: the words s has read of the message it receives
  need,       \* need[s]: how many words that message has
  wire,       \* wire[s]: the words on their way to s
  lost,       \* the connection has been reset
  app,        \* the client's caller
  requests,   \* how many requests it has made
  result,     \* what SendRequest returned: the message's words, or <<>>
  io,         \* the client's io_thread_
  stopped     \* its io_service_ has been stopped

socket == <<act, out, got, need, wire, lost>>
vars == <<act, out, got, need, wire, lost, app, requests, result, io, stopped>>

-----------------------------------------------------------------------------
(* SendMessage.                                                            *)

Words(m) == [i \in 1..(m[3] + 1) |-> <<m, i - 1>>]

BeginSend(s, m) == /\ act' = [act EXCEPT ![s] = "send"]
                   /\ out' = [out EXCEPT ![s] = Words(m)]

(* write blocks while the buffers are full.                                *)
Write(s) == /\ act[s] = "send" /\ out[s] # <<>>
            /\ ~lost /\ act[Peer(s)] # "closed"
            /\ Len(wire[Peer(s)]) < Capacity
            /\ wire' = [wire EXCEPT ![Peer(s)] = Append(@, Head(out[s]))]
            /\ out' = [out EXCEPT ![s] = Tail(@)]
            /\ UNCHANGED <<act, got, need, lost>>

(* What is written to a peer that has closed goes nowhere; the peer's host *)
(* answers with a reset.                                                   *)
WriteToClosed(s) == /\ act[s] = "send" /\ out[s] # <<>>
                    /\ ~lost /\ act[Peer(s)] = "closed"
                    /\ out' = [out EXCEPT ![s] = Tail(@)]
                    /\ lost' \in BOOLEAN
                    /\ UNCHANGED <<act, got, need, wire>>

Sent(s) == act[s] = "send" /\ out[s] = <<>>

-----------------------------------------------------------------------------
(* ReceiveMessage.                                                         *)

(* A header, or whatever is taken for one, says how long the body is.      *)
BodyLengths(word) == IF word[2] = 0 THEN {word[1][3]} ELSE Lengths

(* Mutant: the limit itself is too long.                                   *)
ReadHeader_Strict(s) ==
  /\ act[s] = "header" /\ wire[s] # <<>>
  /\ wire' = [wire EXCEPT ![s] = Tail(@)]
  /\ \E n \in BodyLengths(Head(wire[s])) :
       IF n < MaxBody
         THEN /\ act' = [act EXCEPT ![s] = "body"]
              /\ got' = [got EXCEPT ![s] = <<Head(wire[s])>>]
              /\ need' = [need EXCEPT ![s] = n + 1]
         ELSE /\ act' = [act EXCEPT ![s] = IF lost THEN "threw" ELSE "failed"]
              /\ UNCHANGED <<got, need>>
  /\ UNCHANGED <<out, lost>>

(* The header; a body that is too long is not read.  The log asks for the  *)
(* peer's endpoint then, too.                                              *)
ReadHeader(s) ==
  /\ act[s] = "header" /\ wire[s] # <<>>
  /\ wire' = [wire EXCEPT ![s] = Tail(@)]
  /\ \E n \in BodyLengths(Head(wire[s])) :
       IF n <= MaxBody
         THEN /\ act' = [act EXCEPT ![s] = "body"]
              /\ got' = [got EXCEPT ![s] = <<Head(wire[s])>>]
              /\ need' = [need EXCEPT ![s] = n + 1]
         ELSE /\ act' = [act EXCEPT ![s] = IF lost THEN "threw" ELSE "failed"]
              /\ UNCHANGED <<got, need>>
  /\ UNCHANGED <<out, lost>>

ReadBody(s) == /\ act[s] = "body" /\ Len(got[s]) < need[s] /\ wire[s] # <<>>
               /\ got' = [got EXCEPT ![s] = Append(@, Head(wire[s]))]
               /\ wire' = [wire EXCEPT ![s] = Tail(@)]
               /\ UNCHANGED <<act, out, need, lost>>

(* Mutant: the body's length is taken for the message's.                   *)
Received_Short(s) == act[s] = "body" /\ Len(got[s]) >= need[s] - 1

Received(s) == act[s] = "body" /\ Len(got[s]) = need[s]

(* The end of what the peer wrote before it closed, in the middle of a     *)
(* message or not.                                                         *)
EndOfStream(s) == /\ \/ act[s] = "header"
                     \/ act[s] = "body" /\ Len(got[s]) < need[s]
                  /\ wire[s] = <<>> /\ act[Peer(s)] = "closed" /\ ~lost
                  /\ act' = [act EXCEPT ![s] = "failed"]
                  /\ UNCHANGED <<out, got, need, wire, lost>>

(* After a reset a read or a write fails, once what has arrived is read or *)
(* earlier; and the log, which asks the socket for the peer's endpoint,    *)
(* throws.                                                                 *)
Throw(s) == /\ lost
            /\ \/ act[s] = "header"
               \/ act[s] = "body" /\ Len(got[s]) < need[s]
               \/ act[s] = "send" /\ out[s] # <<>>
            /\ act' = [act EXCEPT ![s] = "threw"]
            /\ UNCHANGED <<out, got, need, wire, lost>>

(* The Connection goes and its socket is closed.  If there is something    *)
(* unread in it, the peer gets a reset.                                    *)
CloseSocket(s) == /\ act' = [act EXCEPT ![s] = "closed"]
                  /\ lost' = (lost \/ wire[s] # <<>>)
                  /\ UNCHANGED <<out, got, need, wire>>

SocketStep(s) == /\ \/ Write(s) \/ WriteToClosed(s)
                    \/ ReadHeader(s) \/ ReadBody(s) \/ EndOfStream(s) \/ Throw(s)
                 /\ UNCHANGED <<app, requests, result, io, stopped>>

(* The network gives up the connection.                                    *)
Reset == /\ act["client"] \notin {"none", "closed"} /\ ~lost
         /\ lost' = TRUE
         /\ UNCHANGED <<act, out, got, need, wire,
                        app, requests, result, io, stopped>>

-----------------------------------------------------------------------------
(* The client and its caller, who goes by the rules in client.h.           *)

(* What an address resolves to: endpoints of either family, which take a   *)
(* connection or do not.  There are none if the resolver fails.            *)
Resolutions == UNION {[1..n -> {"v4", "v4 refusing", "v6"}] : n \in 0..2}

(* Resolve: the first of the IPv4 endpoints.                               *)
Resolve(endpoints) ==
  LET v4 == SelectSeq(endpoints, LAMBDA e : e # "v6")
  IN IF v4 = <<>> THEN "none" ELSE v4[1]

(* Connect starts the io thread, and reaches the endpoint or does not ...  *)
Connect == /\ app = "new"
           /\ io' = "starting"
           /\ \E endpoints \in Resolutions :
                IF Resolve(endpoints) = "v4"
                  THEN /\ app' = "connected"
                       /\ act' = [client |-> "idle", server |-> "header"]
                  ELSE app' = "unconnected" /\ UNCHANGED act
           /\ UNCHANGED <<out, got, need, wire, lost, requests, result, stopped>>

(* ... or cannot start the thread, and returns false.                      *)
ConnectFails == /\ app = "new"
                /\ app' = "unconnected"
                /\ UNCHANGED <<socket, requests, result, io, stopped>>

(* SendRequest, with a body of n words, as long as the one before was      *)
(* answered.                                                               *)
SendRequest(n) == /\ app = "connected" /\ requests < MaxRequests
                  /\ app' = "request"
                  /\ requests' = requests + 1
                  /\ result' = <<>>
                  /\ BeginSend("client", <<"request", requests + 1, n>>)
                  /\ UNCHANGED <<got, need, wire, lost, io, stopped>>

(* The request is sent: the response is awaited.                           *)
AwaitResponse == /\ app = "request" /\ Sent("client")
                 /\ act' = [act EXCEPT !["client"] = "header"]
                 /\ UNCHANGED <<out, got, need, wire, lost,
                                app, requests, result, io, stopped>>

ReturnResponse == /\ app = "request" /\ Received("client")
                  /\ app' = "connected"
                  /\ act' = [act EXCEPT !["client"] = "idle"]
                  /\ result' = got["client"]
                  /\ UNCHANGED <<out, got, need, wire, lost, requests, io, stopped>>

(* SendRequest returns null, or throws what SendMessage or ReceiveMessage  *)
(* has thrown.                                                             *)
RequestFails == /\ app = "request" /\ act["client"] \in {"failed", "threw"}
                /\ app' = IF act["client"] = "failed" THEN "gone wrong" ELSE "unwinding"
                /\ UNCHANGED <<socket, requests, result, io, stopped>>

Disconnect == /\ app \in {"connected", "gone wrong"}
              /\ app' = "disconnected"
              /\ CloseSocket("client")
              /\ UNCHANGED <<requests, result, io, stopped>>

(* Where the caller may be when it lets go of its Client.                  *)
Idle == {"new", "unconnected", "connected", "gone wrong", "unwinding", "disconnected"}

(* Mutant: the io_service is left to its token work.                       *)
BeginDestroy_Runs ==
  /\ app \in Idle
  /\ app' = "destroying"
  /\ UNCHANGED <<socket, requests, result, io, stopped>>

(* ~Impl stops the io_service ...                                          *)
BeginDestroy == /\ app \in Idle
                /\ app' = "destroying" /\ stopped' = TRUE
                /\ UNCHANGED <<socket, requests, result, io>>

(* ... joins the io thread, and the members go, a Connection among them    *)
(* unless there has been a Disconnect.                                     *)
EndDestroy == /\ app = "destroying" /\ io = "ended"
              /\ app' = "destroyed"
              /\ IF act["client"] \in {"none", "closed"}
                   THEN UNCHANGED socket
                   ELSE CloseSocket("client")
              /\ UNCHANGED <<requests, result, io, stopped>>

(* Without a thread, join throws out of the destructor.                    *)
JoinThrows == /\ app = "destroying" /\ io = "none"
              /\ app' = "terminated"
              /\ UNCHANGED <<socket, requests, result, io, stopped>>

(* GoIoServiceGo.  run returns when the io_service is stopped, at once if  *)
(* it is already; the token work keeps it running till then.               *)
IoStep == /\ \/ io = "starting" /\ io' = "running"
             \/ io = "running" /\ stopped /\ io' = "ended"
          /\ UNCHANGED <<socket, app, requests, result, stopped>>

ClientStep == \/ AwaitResponse \/ ReturnResponse \/ RequestFails
              \/ EndDestroy \/ JoinThrows

(* The process has nothing left to do, or is no more.                      *)
Over == app \in {"destroyed", "terminated"}

-----------------------------------------------------------------------------
(* The server's end: SingleShotServer's Service.                           *)

(* The request handler makes a response ...                                *)
Respond == /\ Received("server")
           /\ \E n \in Lengths :
                BeginSend("server", <<"response", got["server"][1][1][2], n>>)
           /\ UNCHANGED <<got, need, wire, lost, app, requests, result, io, stopped>>

(* Mutant: the thread ends but keeps the connection.                       *)
EndService_Keeps ==
  /\ Received("server") \/ Sent("server") \/ act["server"] \in {"failed", "threw"}
  /\ act' = [act EXCEPT !["server"] = "idle"]
  /\ UNCHANGED <<out, got, need, wire, lost, app, requests, result, io, stopped>>

(* ... or none; with the response sent, or without, the thread and its     *)
(* connection end.                                                         *)
EndService == /\ \/ Received("server") \/ Sent("server")
                 \/ act["server"] \in {"failed", "threw"}
              /\ CloseSocket("server")
              /\ UNCHANGED <<app, requests, result, io, stopped>>

ServerStep == Respond \/ EndService

-----------------------------------------------------------------------------
Init == /\ act = [s \in Sides |-> "none"]
        /\ out = [s \in Sides |-> <<>>]
        /\ got = [s \in Sides |-> <<>>]
        /\ need = [s \in Sides |-> 0]
        /\ wire = [s \in Sides |-> <<>>]
        /\ lost = FALSE
        /\ app = "new" /\ requests = 0 /\ result = <<>>
        /\ io = "none" /\ stopped = FALSE

(* What goes on by itself.                                                 *)
Background == IoStep \/ ServerStep \/ Reset \/ \E s \in Sides : SocketStep(s)

Next == \/ ~Over /\ \/ Connect \/ ConnectFails \/ \E n \in Lengths : SendRequest(n)
                    \/ Disconnect \/ BeginDestroy \/ ClientStep \/ Background
        \/ Over /\ UNCHANGED vars

(* The two processes run, and the request handler returns.  Nothing makes  *)
(* the caller call, and nothing the network fail.                          *)
Fairness == /\ \A s \in Sides : WF_vars(~Over /\ SocketStep(s))
            /\ WF_vars(~Over /\ ClientStep)
            /\ WF_vars(~Over /\ ServerStep)
            /\ WF_vars(~Over /\ IoStep)

Spec == Init /\ [][Next]_vars /\ Fairness

-----------------------------------------------------------------------------
(* What must hold of it.                                                   *)

(* What SendRequest returns is, word for word, a response to the request   *)
(* it sent, and what the request handler is given a whole request, neither *)
(* longer than the limit, wherever the connection broke and however its    *)
(* words came in.                                                          *)
WholeMessagesOnly ==
  /\ result # <<>> =>
       \E n \in 0..MaxBody : result = Words(<<"response", requests, n>>)
  /\ Received("server") =>
       \E n \in 0..MaxBody : got["server"] = Words(<<"request", requests, n>>)

(* SendRequest comes back: the two ends are never both waiting to write,   *)
(* however little the buffers hold, and never both to read.                *)
EveryRequestReturns == (app = "request") ~> (app # "request")
=============================================================================
