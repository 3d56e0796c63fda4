------------------------------- MODULE Pplmec -------------------------------
(***************************************************************************)
(* pplmec: the function Pplme (pplmec/pplme.cc), which connects a Client,  *)
(* sends one PplmeRequest, decodes the PplmeResponse and prints the people *)
(* in it.  It keeps less to the rules in client.h than the example there,  *)
(* which is the other caller: it never calls Disconnect, and nothing       *)
(* catches what SendRequest throws.                                        *)
(*                                                                         *)
(* A response of n people has a body of n words.  The servers it may meet  *)
(* are pplmed, and others whose responses are damaged or of another        *)
(* version of the messages.                                                *)
(***************************************************************************)
EXTENDS Client, Convert

CONSTANTS Found,    \* the people that a server may find
          Strange   \* person messages that other servers may send

ASSUME PplmecAssumption ==
  /\ MaxBody >= 1
  /\ \A p \in Found :
       p \in People({p.name}, {p.location_of_home.latitude,
                              p.location_of_home.longitude})
  /\ \A m \in Strange : IsPersonMessage(m)

VARIABLES
  caller,    \* whose Client it is
  reply,     \* <<>>, or the response: its length, and its content unless garbled
  ret,       \* what Pplme returns
  printed    \* what it makes of each person in the response

pplme == <<caller, reply, ret, printed>>
all == <<vars, pplme>>

(* The contents that a body of n words may have.  An empty body is a       *)
(* message without people; of a body that is too long nothing is read.     *)
Contents(n) ==
  LET responses == [1..n -> {FromPerson(p) : p \in Found} \cup Strange]
  IN IF n > MaxBody THEN {{}}
     ELSE {{r} : r \in responses} \cup (IF n = 0 THEN {} ELSE {{}})

(* What ParseFromArray makes of a content.                                 *)
Parsed(content) == {response \in content : Parses(response)}

-----------------------------------------------------------------------------
(* The function Pplme.                                                     *)

PplmeConnect == (Connect \/ ConnectFails) /\ UNCHANGED pplme

(* One request, of a length that is within the limit.                      *)
PplmeRequest == requests = 0 /\ SendRequest(1) /\ UNCHANGED pplme

(* Connect has returned false, or SendRequest null.  The Client goes out   *)
(* of scope as Pplme returns.                                              *)
PplmeFails == /\ app \in {"unconnected", "gone wrong"}
              /\ ret' = "false"
              /\ BeginDestroy
              /\ UNCHANGED <<caller, reply, printed>>

(* The response is parsed and the people in it that convert are printed;   *)
(* of the others there is a warning.                                       *)
PplmeDecodes ==
  /\ app = "connected" /\ result # <<>>
  /\ \/ Parsed(reply[2]) = {} /\ ret' = "false" /\ UNCHANGED printed
     \/ \E r \in Parsed(reply[2]) :
          ret' = "true" /\ printed' = [n \in DOMAIN r |-> ToPerson(r[n])]
  /\ BeginDestroy
  /\ UNCHANGED <<caller, reply>>

(* SendRequest throws through Pplme and main.                              *)
Uncaught == /\ app = "unwinding"
            /\ app' = "terminated"
            /\ UNCHANGED <<socket, requests, result, io, stopped>>
            /\ UNCHANGED pplme

PplmeStep == PplmeConnect \/ PplmeRequest \/ PplmeFails \/ PplmeDecodes \/ Uncaught

(* The server's response has a content.                                    *)
Answer == /\ Respond
          /\ LET n == out'["server"][1][1][3]
             IN \E content \in Contents(n) : reply' = <<n, content>>
          /\ UNCHANGED <<caller, ret, printed>>

-----------------------------------------------------------------------------
PplmeInit == /\ Init
             /\ caller \in {"example", "Pplme"}
             /\ reply = <<>> /\ ret = "none" /\ printed = <<>>

PplmeNext ==
  \/ caller = "example" /\ Next /\ UNCHANGED pplme
  \/ /\ caller = "Pplme" /\ ~Over
     /\ \/ PplmeStep \/ Answer
        \/ /\ \/ ClientStep \/ EndService \/ IoStep \/ Reset
              \/ \E s \in Sides : SocketStep(s)
           /\ UNCHANGED pplme
  \/ caller = "Pplme" /\ Over /\ UNCHANGED all

PplmeFairness == Fairness /\ WF_all(caller = "Pplme" /\ ~Over /\ PplmeStep)

PplmeSpec == PplmeInit /\ [][PplmeNext]_all /\ PplmeFairness

-----------------------------------------------------------------------------
(* What must hold of it.                                                   *)

(* Pplme returns, whatever becomes of the connection and of the server,    *)
(* and although it leaves the socket and the io thread to the destructor;  *)
(* unless the process goes down: with a reset, whose exception nobody      *)
(* catches, or for want of the thread that the destructor joins.           *)
PplmeReturns ==
  (caller = "Pplme") ~> \/ app = "destroyed" /\ ret # "none"
                        \/ app = "terminated" /\ (lost \/ io = "none")

Answered == reply # <<>> /\ reply[1] <= MaxBody /\ Parsed(reply[2]) # {}

(* Pplme returns true if and only if its request was successful: the       *)
(* server has made a response that a receiver takes and can parse, the     *)
(* empty one and the longest one included, and the connection has held.    *)
TrueIffAnswered ==
  /\ ret = "true" => Answered
  /\ ret = "false" => ~Answered \/ lost

(* Pplme prints exactly the people whom the server has found: those that   *)
(* it sent convert back to what they were, and nothing else converts to    *)
(* anyone.                                                                 *)
PrintsWhatWasFound ==
  ret = "true" =>
    \A response \in reply[2] :
      /\ DOMAIN printed = DOMAIN response
      /\ \A n \in DOMAIN response :
           /\ \A p \in printed[n] : response[n] = FromPerson(p)
           /\ \A p \in Found : response[n] = FromPerson(p) => printed[n] = {p}
=============================================================================
