------------------------------- MODULE Pplmed -------------------------------
(***************************************************************************)
(* The daemon: main and Server::Impl's Go, destructor and                  *)
(* HandlePplmeRequest (pplmed/main.cc, pplmed/server.cc), with PplSlurper, *)
(* which loads the people (libpplmeengine/ppl_slurper.cc).                 *)
(*                                                                         *)
(* It is composed of its members: pplme_requests_server_ is module         *)
(* SingleShotServer, and matching_ppl_provider_ what MatchingPplProvider   *)
(* promises and PplFind implements.                                        *)
(***************************************************************************)
EXTENDS Integers, Sequences, FiniteSets

CONSTANTS Requests,     \* requests, each with its connection and its thread
          Matches,      \* Matches[r]: who matches r's parameters
          MaxPpl,       \* max_ppl_
          MaxLines,     \* bound: the lines of a CSV file
          TestDbSize    \* test_db_size_

ASSUME PplmedAssumption ==
  /\ MaxLines \in Nat /\ TestDbSize \in Nat /\ MaxPpl \in Nat
  /\ Matches \in [Requests -> SUBSET Nat]

(* A line of the file is a person, or one whose home is not on the planet, *)
(* or has something wrong in one of its fields or after the last.          *)
Lines == {"person", "nowhere", "wrong"}

(* After the last line a file ends, or cannot be read any further.  Or the *)
(* file cannot be opened; or none is named.                                *)
Files == {lines \o <<end>> : lines \in UNION {[1..n -> Lines] : n \in 0..MaxLines},
                             end \in {"end", "unreadable"}}
           \cup {<<"missing">>, <<"none">>}

(* A request's body is one that is refused - no protobuf, of an unknown    *)
(* kind, or without a location -, or one whose location is not on the      *)
(* planet, or whose age is beyond the calendar: the dates of birth it      *)
(* stands for have a year that it does not reach.  Or all is well.         *)
Bodies == {"refused", "nowhere", "beyond", "good"}

VARIABLES
  file,      \* what --ppldata names
  pos,       \* how many lines have been read: a person's name is its line
  adding,    \* an AddPerson is under way
  aborted,   \* Populate has brought the process down
  main,      \* where the main thread is
  body,      \* body[r]: the body of request r
  found      \* found[r]: r's call of FindMatchingPpl has returned

(* The server's and the provider's.                                        *)
VARIABLES client, io, current, lock, owning, entries, taken, svc, server, crash
VARIABLES repository, calling, answer

Net == INSTANCE SingleShotServer WITH Connections <- Requests, main <- server

Provider == INSTANCE MatchingPplProvider WITH Finders <- Requests

loadVars == <<file, pos, adding, aborted>>
handlerVars == <<body, found>>
netVars == <<client, io, current, lock, owning, entries, taken, svc, server, crash>>
providerVars == <<repository, calling, answer>>
vars == <<loadVars, main, handlerVars, netVars, providerVars>>

-----------------------------------------------------------------------------
(* Go's first half: PplSlurper::Populate, or PopulateTestDb.               *)

Reading == main = "load" /\ ~adding /\ file # <<"none">>

NextLine == file[pos + 1]

(* A line is parsed to its end, and AddPerson called for it.               *)
ReadPerson == /\ Reading /\ NextLine = "person"
              /\ pos' = pos + 1
              /\ adding' = TRUE
              /\ UNCHANGED <<file, aborted, main, handlerVars, netVars, providerVars>>

(* AddPerson CHECKs that the home is on the planet.                        *)
ReadNowhere == /\ Reading /\ NextLine = "nowhere"
               /\ aborted' = TRUE
               /\ UNCHANGED <<file, pos, adding, main, handlerVars, netVars,
                              providerVars>>

(* PopulateTestDb's loop.                                                  *)
GeneratePerson == /\ main = "load" /\ ~adding /\ file = <<"none">>
                  /\ pos < TestDbSize
                  /\ pos' = pos + 1
                  /\ adding' = TRUE
                  /\ UNCHANGED <<file, aborted, main, handlerVars, netVars,
                                 providerVars>>

PersonAdded == /\ adding
               /\ adding' = FALSE
               /\ Provider!AddPerson(pos)
               /\ UNCHANGED <<file, pos, aborted, main, handlerVars, netVars>>

(* Populate has parsed the file to its end, and returns true ...           *)
Loaded == /\ main = "load" /\ ~adding
          /\ IF file = <<"none">> THEN pos = TestDbSize ELSE NextLine = "end"

(* ... or it stops for an error and returns false, with the people before  *)
(* it in the provider.                                                     *)
NotLoaded == Reading /\ NextLine \in {"wrong", "unreadable", "missing"}

-----------------------------------------------------------------------------
(* Go's second half, main and ~Impl.                                       *)

Goto(place) == /\ main' = place
               /\ UNCHANGED <<loadVars, handlerVars, providerVars>>

(* Mutant: ok is what Start returns.                                       *)
LoadFails_Ignored == NotLoaded /\ Goto("start") /\ UNCHANGED netVars

LoadFails == NotLoaded /\ Goto("exit") /\ UNCHANGED netVars

BeginStart == Loaded /\ Goto("start") /\ UNCHANGED netVars

(* The server is up while main waits for its standard input, or could not  *)
(* be started.                                                             *)
Start == /\ main = "start"
         /\ \/ Net!Start /\ Goto("up")
            \/ Net!StartFails /\ Goto("exit")

(* Input comes.                                                            *)
Stop == main = "up" /\ Goto("exit") /\ UNCHANGED netVars

(* ~Impl's Shutdown, which has nothing to do if the server never started.  *)
Shutdown == /\ main = "exit"
            /\ Net!TakeThreads \/ Net!ShutdownStep
            /\ UNCHANGED <<loadVars, main, handlerVars, providerVars>>

(* Mutant: the members go without a Shutdown.                              *)
DestroyServer_Running == /\ main = "exit" /\ server = "up"
                         /\ server' = "destroyed"
                         /\ main' = "members"
                         /\ UNCHANGED <<loadVars, handlerVars, providerVars, client,
                                        io, current, lock, owning, entries, taken,
                                        svc, crash>>

(* The members go: first the server, which was constructed last ...        *)
DestroyServer == main = "exit" /\ Net!Destroy /\ Goto("members")

(* ... then the provider, and the process with them.                       *)
DestroyProvider == main = "members" /\ Goto("destroyed") /\ UNCHANGED netVars

-----------------------------------------------------------------------------
(* HandlePplmeRequest, on the thread of a request.                         *)

(* What clients do; a request has a body of one kind or another.           *)
ClientStep(r) ==
  /\ Net!ClientStep(r)
  /\ IF client[r] = "connected" /\ client'[r] = "sent"
       THEN \E b \in Bodies : body' = [body EXCEPT ![r] = b]
       ELSE UNCHANGED body
  /\ UNCHANGED <<loadVars, main, found, providerVars>>

InHandler(r) == svc[r] = "handle" /\ r \notin calling /\ ~found[r]

(* The early returns.                                                      *)
Ignore(r) == /\ InHandler(r) /\ body[r] = "refused"
             /\ Net!Ignore(r)
             /\ UNCHANGED <<loadVars, main, handlerVars, providerVars>>

(* Neither location nor age is looked at before they are used.             *)
(* FindMatchingPpl CHECKs that the user is on the planet.                  *)
FindAborts(r) == /\ InHandler(r) /\ body[r] = "nowhere"
                 /\ Net!HandlerAborts(r)
                 /\ UNCHANGED <<loadVars, main, handlerVars, providerVars>>

BeginFind(r) == /\ InHandler(r) /\ body[r] \in {"beyond", "good"}
                /\ Provider!Call(r)
                /\ UNCHANGED <<loadVars, main, handlerVars, netVars>>

(* The first cell that a thread of the pool searches for an age that is    *)
(* beyond the calendar throws bad_year out of that thread, while the find  *)
(* waits for it.                                                           *)
FindThrows(r) == /\ r \in calling /\ body[r] = "beyond"
                 /\ Net!HandlerAborts(r)
                 /\ UNCHANGED <<loadVars, main, handlerVars, providerVars>>

EndFind(r) == /\ body[r] = "good"
              /\ Provider!Return(r)
              /\ found' = [found EXCEPT ![r] = TRUE]
              /\ UNCHANGED <<loadVars, main, body, netVars>>

(* Mutant: an empty answer is taken for none.                              *)
Respond_Nonempty(r) == /\ svc[r] = "handle" /\ found[r]
                       /\ IF answer[r] = <<>> THEN Net!Ignore(r) ELSE Net!Respond(r)
                       /\ UNCHANGED <<loadVars, main, handlerVars, providerVars>>

(* The people found are the response.                                      *)
Respond(r) == /\ svc[r] = "handle" /\ found[r]
              /\ Net!Respond(r)
              /\ UNCHANGED <<loadVars, main, handlerVars, providerVars>>

HandlerStep(r) == \/ Ignore(r) \/ FindAborts(r)
                  \/ BeginFind(r) \/ FindThrows(r) \/ EndFind(r) \/ Respond(r)

-----------------------------------------------------------------------------
Init == /\ file \in Files
        /\ pos = 0 /\ adding = FALSE /\ aborted = FALSE
        /\ main = "load"
        /\ body = [r \in Requests |-> "refused"]
        /\ found = [r \in Requests |-> FALSE]
        /\ Net!Init
        /\ Provider!Init({})

MainStep == \/ ReadPerson \/ ReadNowhere \/ GeneratePerson \/ PersonAdded
            \/ LoadFails \/ BeginStart \/ Start
            \/ Shutdown \/ DestroyServer \/ DestroyProvider

IoStep == /\ Net!IoStep
          /\ UNCHANGED <<loadVars, main, handlerVars, providerVars>>

ServiceStep(r) == \/ /\ Net!ThreadStep(r)
                     /\ UNCHANGED <<loadVars, main, handlerVars, providerVars>>
                  \/ HandlerStep(r)

Runs == Net!Runs /\ ~aborted

Over == (~Runs \/ main = "destroyed") /\ UNCHANGED vars

Next == \/ Runs /\ (MainStep \/ Stop \/ IoStep)
        \/ Runs /\ \E r \in Requests : ClientStep(r) \/ ServiceStep(r)
        \/ Over

(* The operating system runs every thread that can run.  Clients, and the  *)
(* input that ends the daemon, have no fairness.                           *)
Fairness == /\ WF_vars(Runs /\ MainStep)
            /\ WF_vars(Runs /\ IoStep)
            /\ \A r \in Requests : WF_vars(Runs /\ ServiceStep(r))

Spec == Init /\ [][Next]_vars /\ Fairness

-----------------------------------------------------------------------------
(* The people there are to load.                                           *)
Whole == 1..(IF file = <<"none">> THEN TestDbSize ELSE Len(file) - 1)

(* "@return true iff the file was fully parsed": pplmed serves only when   *)
(* every line of its file has become a person; a line that is wrong, or a  *)
(* file that breaks off, leaves it with the lines before and it does not   *)
(* start.  And no find, which takes no lock, meets an AddPerson.           *)
ServesWholeData ==
  calling # {} \/ (\E r \in Requests : client[r] # "away") => repository = Whole

(* The provider that a request looks for people in, and the handler that   *)
(* does so, are not destroyed under it.                                    *)
ProviderOutlivesFinds ==
  main = "destroyed" => \A r \in Requests : r \notin calling /\ svc[r] # "handle"

(* A serving daemon that has come down has wanted for a thread; or has a   *)
(* client that has reset its connection, or has closed it without waiting  *)
(* and is being answered; or a request in its handler whose location or    *)
(* age nobody had looked at.  It does not come down for requests that      *)
(* begin and end at the same time, for one that is refused, for a client   *)
(* that fails to send one, or for what its threads keep of one another.    *)
ComesDownForACause ==
  main = "up" /\ ~Runs =>
    \/ crash = "thread"
    \/ /\ crash = "peer"
       /\ \E r \in Requests :
            \/ client[r] = "reset" /\ svc[r] \in {"receive", "send"}
            \/ client[r] = "left" /\ svc[r] = "send"
    \/ /\ crash = "handler"
       /\ \E r \in Requests : svc[r] = "handle" /\ body[r] \in {"nowhere", "beyond"}

(* A well-formed request is answered, whether there is anybody to find or  *)
(* not, unless its client goes or the daemon stops.                        *)
RequestsAnswered ==
  \A r \in Requests :
    (client[r] = "sent" /\ body[r] = "good")
      ~> (client[r] # "sent" \/ main # "up" \/ ~Runs)

(* The daemon uses SingleShotServer as that module says: what the Server   *)
(* run shows of it for any handler, that every handler returns included,   *)
(* holds in pplmed.                                                        *)
ImplementsServer == Net!Spec
=============================================================================
